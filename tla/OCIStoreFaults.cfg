\* Two clients, without the config; file operations may fail.
CONSTANTS
    s = s
    r = r
    i = i
    b = b
    c1 = c1
    c2 = c2
    t1 = t1
    t2 = t2
    Torn = Torn
    None = None
    Nodes = {s, r}
    Kind <- MCKind
    Subject <- MCSubject
    Config <- MCConfig
    Parts <- MCParts
    Tags = {t1}
    Clients = {c1, c2}
    Ops = {"push", "tag", "untag", "save", "delete", "gc"}
    Events = {"iofail"}
SPECIFICATION FairSpec
INVARIANTS
    PushDurable
PROPERTIES
    OperationsReturn
