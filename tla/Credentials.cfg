SPECIFICATION Spec
CONSTANTS
    Procs = {p1, p2}
    Registries = {"docker.io", "quay"}
    Docker = "docker.io"
    Programs <- MCPrograms
    Files <- MCFiles
    Helper = "helper"
    InFallback = {"quay"}
    DefaultNative = "pass"
    MaxFaults = 1
    MaxRestarts = 1
SYMMETRY Symmetry
INVARIANTS GetReturnsPut DetectedSaved
CHECK_DEADLOCK FALSE
