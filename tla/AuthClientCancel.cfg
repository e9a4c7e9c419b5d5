SPECIFICATION ACFairSpec
CONSTANTS
    a = a  b = b
    Callers = {a, b}
    Keys <- MCKeys
    Tokens <- MCTokens
    Error = Error  Wrapped = Wrapped  Cancelled = Cancelled  None = None
    HostHint <- MCHostHint
    GlobalHint <- MCGlobalHint
    Challenged <- MCChallenged
    BodyKind <- MCBodyKind
    Preset = {}
    Creds = {"userpass"}
    ForceAttemptOAuth2 = FALSE
    MaxRetry = 0
    MaxShifts = 0
    Events = {"cancel"}
INVARIANTS OwnContextOnly
