SPECIFICATION ACFairSpec
CONSTANTS
    a = a  b = b
    Callers = {a, b}
    Keys <- MCKeys
    Tokens <- MCTokens
    Error = Error  Wrapped = Wrapped  Cancelled = Cancelled  None = None
    HostHint <- MCHostHint
    GlobalHint <- MCGlobalHint
    Challenged <- MCChallenged
    BodyKind <- MCBodyKind
    Preset <- MCPreset
    Creds = {"userpass", "refresh", "access"}
    ForceAttemptOAuth2 = FALSE
    MaxRetry = 1
    MaxShifts = 1
    Events = {"cancel", "revoke"}
INVARIANTS SharedFetch BodyWhole TokensFit
PROPERTIES DoReturns
