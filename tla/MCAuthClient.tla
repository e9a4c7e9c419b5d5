----------------------------- MODULE MCAuthClient ----------------------------
EXTENDS AuthClient

CONSTANTS a, b

Pull == 2
Push == 3

\* Both ask for pull and push on resource 1, in other words; b also hints at
\* a second resource by a scope that names no action.
MCHostHint == [c \in Callers |->
    IF c = a THEN <<Scope(1, <<Push, Pull>>)>> ELSE <<Scope(1, <<Pull>>), Scope(2, <<NoAction>>)>>]
MCGlobalHint == [c \in Callers |->
    IF c = a THEN <<Scope(2, <<Pull>>)>> ELSE <<>>]
MCChallenged == [c \in Callers |->
    IF c = a THEN <<>> ELSE <<Scope(2, <<Pull, NoAction>>), Scope(1, <<Push, Pull, Push>>)>>]
MCBodyKind == [c \in Callers |-> IF c = a THEN "rewindable" ELSE "oneshot"]
MCPreset == {b}

MCKeys ==
    {Key("Basic", <<>>)}
        \cup {Key("Bearer", s) : s \in UNION {{Hints[c], ChallengeScopes[c]} : c \in Callers}}
MCTokens == {Token(c, k) : c \in Callers, k \in MCKeys} \cup {AccessToken}
==============================================================================
