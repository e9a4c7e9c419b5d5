SPECIFICATION FairSpec
CONSTANTS
    Clients = {1, 2}
    Manifests = {1, 2, 3}
    Blobs = {4}
    Tags = {5, 6, 7}
    Subject <- MCSubject
    Indexable = {1, 2, 3}
    Supports = {TRUE, FALSE}
    PageSize = 1
    Size = 2
    Sources = 2
    Programs <- MCPrograms
    Stored = {1, 3, 4}
    MaxOps = 3
INVARIANTS ReferrersSeen CapabilityTrue StoredOnSuccess  TagsListed
PROPERTIES CallsReturn
CHECK_DEADLOCK FALSE
