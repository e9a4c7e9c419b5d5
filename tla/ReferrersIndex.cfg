\* Two pushes and a delete, two of them of the same referrer.
CONSTANTS
    c1 = c1
    c2 = c2
    c3 = c3
    x = x
    y = y
    None = None
    Callers = {c1, c2, c3}
    Change <- MCChange
    Before = {y}
SPECIFICATION FairSpec
INVARIANTS
    
    NoDanglingIndex
PROPERTIES
    ImplementsList
    AllReturn
\* The calls return and nothing is left to do.
CHECK_DEADLOCK FALSE
