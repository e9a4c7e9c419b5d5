\* Copy to a target with Tag or to a reference pusher, with two permits.
CONSTANTS
    r = r
    m1 = m1
    m2 = m2
    b = b
    f = f
    e1 = e1
    NoTask = NoTask
    Nodes <- MCNodes
    Kind <- MCKind
    Subject <- MCSubject
    Config <- MCConfig
    Parts <- MCParts
    Entries <- MCEntries
    Root <- MCRoot
    Concurrency = 2
    Modes = {"tag", "pushref"}
    Skippable = {b}
    Others = {b}
SPECIFICATION FairSpec
INVARIANTS
    DstClosed
    TaggedComplete
    SuccessComplete
    FetchOnce
PROPERTIES
    Termination
\* The calls return and nothing is left to do.
CHECK_DEADLOCK FALSE
