\* GC with a referrer of content that no tag reaches.
CONSTANTS
    s = s
    r = r
    i = i
    b = b
    c1 = c1
    c2 = c2
    t1 = t1
    t2 = t2
    Torn = Torn
    None = None
    Nodes = {s, r, b}
    Kind <- MCKind
    Subject <- MCSubject
    Config <- MCConfig
    Parts <- MCParts
    Tags = {t1}
    Clients = {c1}
    Ops = {"push", "tag", "gc"}
    Events = {}
SPECIFICATION FairSpec
PROPERTIES
    GCReturns
