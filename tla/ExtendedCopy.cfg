\* Related roots and one permit.
CONSTANTS
    i = i
    p = p
    q = q
    b = b
    ei = ei
    ep = ep
    eq = eq
    eb = eb
    NoTask = NoTask
    Nodes <- MCNodes
    Kind <- MCKind
    Subject <- MCSubject
    Config <- MCConfig
    Parts <- MCParts
    Entries <- MCEntries
    Root <- MCRoot
    Concurrency = 1
    Modes = {"graph"}
    Skippable = {}
    Others = {}
    Node = b
    Depths = {0, 1, 2}
    Keeps <- MCKeeps
SPECIFICATION XSpec
INVARIANTS
    RootsFit
    XTaggedComplete
    XNoSpuriousFailure
PROPERTIES
    XTermination
\* The calls return and nothing is left to do.
CHECK_DEADLOCK FALSE
