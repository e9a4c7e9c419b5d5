\* One IndexAll beside concurrent Index and Remove calls.
CONSTANTS
    x = x
    y = y
    m = m
    z = z
    b = b
    c1 = c1
    Nodes <- MCNodes
    Kind <- MCKind
    Subject <- MCSubject
    Config <- MCConfig
    Parts <- MCParts
    Calls = {c1}
    Start <- MCStart
    Stored = {x, y, m, b}
SPECIFICATION Spec
INVARIANTS
    Consistent
    IndexAllComplete
