SPECIFICATION FairSpec
CONSTANTS
    Procs = {p1, p2}
    Digests = {"a", "b", "c", "e", "big", "m1", "m2", "m3", "m4", "m5"}
    Names = {"x", "y", "z"}
    Dirs = {"z"}
    Large = {"big"}
    References = {"r1", "r2", "r3"}
    Succ <- MCSucc
    OnDisk <- MCOnDisk
    Options <- MCOptions
    Programs <- MCPrograms
    EmptyJSON <- MCEmpty
    CustomEmpty <- MCCustom
INVARIANTS  Restored PackedComplete TaggedTogether

PROPERTIES StoreReturns
CHECK_DEADLOCK FALSE
