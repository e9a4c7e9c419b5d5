------------------------------ MODULE AuthClient -----------------------------
(***************************************************************************)
(* Client.Do of the auth client (registry/remote/auth/client.go) for       *)
(* concurrent requests to one registry, over the token cache, with the     *)
(* retrying transport below it (registry/remote/retry).                    *)
(*                                                                         *)
(* A request is sent up to three times: with what the cache has for the    *)
(* hinted scopes, with what it has for the scopes of the challenge, and    *)
(* with a token fetched for it; and each time again after a transient      *)
(* failure.  The body of a request is read by every attempt.               *)
(***************************************************************************)
EXTENDS TokenCache, Sequences, Scopes

CONSTANTS
    HostHint, GlobalHint,  \* scopes in the context of each caller's request
    Challenged,            \* the scopes the registry asks of each caller for
    BodyKind,              \* of each caller: "none", "rewindable", "oneshot"
    Preset,                \* callers that may set the Authorization themselves
    Creds,                 \* the credentials to try: "none", "userpass",
                           \* "username", "refresh", "access"
    ForceAttemptOAuth2,
    MaxRetry,              \* GenericPolicy.MaxRetry
    MaxShifts,             \* bound on changes of the registry's scheme
    Events                 \* what may happen: "cancel", "revoke"

VARIABLES
    cred,          \* the credential that Client.Credential resolves to
    registry,      \* the scheme that the registry challenges with
    shifts,        \* how often it has changed
    revoked,       \* tokens that the registry no longer takes
    pc,            \* pc[c]: where c stands in Do
    round,         \* round[c]: 1, 2, 3: which call of send
    attempt,       \* attempt[c]: the attempt of RoundTrip
    auth,          \* auth[c]: the token in the request, or None
    handle,        \* handle[c]: the cache entry that GetToken has loaded
    wanted,        \* wanted[c]: the key that c looks for in the cache
    attempted,     \* attempted[c]: attemptedKey
    body,          \* body[c]: "none", "fresh" or "used"
    outcome        \* outcome[c]: what Do returned

regVars == <<cred, registry, shifts, revoked>>
reqVars == <<pc, round, attempt, auth, handle, wanted, attempted, body, outcome>>
acVars == <<tcVars, regVars, reqVars>>

Key(scheme, scopes) == [scheme |-> scheme, scopes |-> scopes]

\* A token says what it was issued for; the credential's own access token
\* (by = None) was issued for everything.
Token(c, k) == [scheme |-> k.scheme, scopes |-> k.scopes, by |-> c]

ACInit ==
    /\ TCInit
    /\ cred \in Creds
    /\ registry \in {"Basic", "Bearer", "Unknown"}
    /\ shifts = 0
    /\ revoked = {}
    /\ pc = [c \in Callers |-> "start"]
    /\ round = [c \in Callers |-> 1]
    /\ attempt = [c \in Callers |-> 0]
    /\ auth = [c \in Callers |-> None]
    /\ handle = [c \in Callers |-> None]
    /\ wanted = [c \in Callers |-> None]
    /\ attempted = [c \in Callers |-> <<>>]
    /\ body = [c \in Callers |-> IF BodyKind[c] = "none" THEN "none" ELSE "fresh"]
    /\ outcome = [c \in Callers |-> None]
------------------------------------------------------------------------------
Hints == [c \in Callers |-> AllScopesForHost(HostHint[c], GlobalHint[c])]

Done(c, o) ==
    /\ pc' = [pc EXCEPT ![c] = "done"]
    /\ outcome' = [outcome EXCEPT ![c] = o]

Send(c, r, token) ==
    /\ pc' = [pc EXCEPT ![c] = "send"]
    /\ round' = [round EXCEPT ![c] = r]
    /\ attempt' = [attempt EXCEPT ![c] = 0]
    /\ auth' = [auth EXCEPT ![c] = token]

\* Mutant: the clone of the request keeps the body that was read.
CloneBody(c, r, token) ==
    /\ Send(c, r, token)
    /\ UNCHANGED <<body, outcome>>

\* rewindRequestBody, then send; a body that cannot be read again fails Do.
Resend(c, r, token) ==
    IF BodyKind[c] = "oneshot"
    THEN Done(c, Error) /\ UNCHANGED <<round, attempt, auth, body>>
    ELSE /\ Send(c, r, token)
         /\ body' = [body EXCEPT ![c] = IF @ = "none" THEN @ ELSE "fresh"]
         /\ UNCHANGED outcome

\* Do begins with a request that has an Authorization: it is just sent.
SendPreset(c) ==
    /\ pc[c] = "start"
    /\ c \in Preset
    /\ Send(c, 3, None)
    /\ UNCHANGED <<tcVars, regVars, handle, wanted, attempted, body, outcome>>

\* Do begins: GetScheme says under which key the cache is asked first, or
\* that there is nothing in it.
Start(c) ==
    /\ pc[c] = "start"
    /\ IF current = None
       THEN Send(c, 1, None) /\ UNCHANGED <<wanted, attempted>>
       ELSE LET scheme == entry[current].scheme
                k == IF scheme = "Bearer" THEN Hints[c] ELSE <<>> IN
            /\ pc' = [pc EXCEPT ![c] = "find"]
            /\ wanted' = [wanted EXCEPT ![c] = Key(scheme, k)]
            /\ attempted' = [attempted EXCEPT ![c] = k]
            /\ UNCHANGED <<round, attempt, auth>>
    /\ UNCHANGED <<tcVars, regVars, handle, body, outcome>>

\* GetToken loads the entry of the registry,
Find(c) ==
    /\ pc[c] = "find"
    /\ pc' = [pc EXCEPT ![c] = "look"]
    /\ handle' = [handle EXCEPT ![c] = current]
    /\ UNCHANGED <<tcVars, regVars, round, attempt, auth, wanted, attempted, body, outcome>>

\* and the token from the entry.  Without one the first request goes out as
\* it is and the second is not sent.
Look(c) ==
    /\ pc[c] = "look"
    /\ LET token == TokenIn(handle[c], wanted[c]) IN
       \/ /\ round[c] = 1
          /\ Send(c, 1, token)
          /\ UNCHANGED <<tcVars, body, outcome>>
       \/ /\ round[c] = 2
          /\ token # None
          /\ Resend(c, 2, token)
          /\ UNCHANGED tcVars
       \/ /\ round[c] = 2
          /\ token = None
          /\ Set(c, wanted[c])
          /\ pc' = [pc EXCEPT ![c] = "set"]
          /\ UNCHANGED <<round, attempt, auth, body, outcome>>
    /\ UNCHANGED <<regVars, handle, wanted, attempted>>
------------------------------------------------------------------------------
\* The registry takes a token that is not revoked, of the scheme that it
\* uses, issued for all it asks of the caller for.
Authorized(c) ==
    /\ auth[c] # None
    /\ auth[c] \notin revoked
    /\ auth[c].scheme = registry
    /\ \/ auth[c].by = None \/ registry = "Basic"
       \/ Permissions(Challenged[c]) \subseteq Permissions(auth[c].scopes)

\* The scopes of the token for a Bearer challenge.
ChallengeScopes == [c \in Callers |->
    IF Challenged[c] = <<>> THEN Hints[c] ELSE CleanScopes(Hints[c] \o Challenged[c])]

\* A 401 response to the call of send that is under way.
Unauthorized(c) ==
    LET k == Key(registry, IF registry = "Bearer" THEN ChallengeScopes[c] ELSE <<>>)
        fetch == /\ pc' = [pc EXCEPT ![c] = "set"]
                 /\ UNCHANGED <<round, wanted, outcome>>
    IN
    \/ /\ round[c] = 3 \/ (round[c] = 1 /\ registry = "Unknown")
       /\ Done(c, "unauthorized")
       /\ UNCHANGED <<tcVars, round, wanted>>
    \/ /\ round[c] = 1
       /\ registry = "Basic" \/ (registry = "Bearer" /\ k.scopes = attempted[c])
       /\ Set(c, k)
       /\ fetch
    \/ /\ round[c] = 1
       /\ registry = "Bearer" /\ k.scopes # attempted[c]
       /\ pc' = [pc EXCEPT ![c] = "find"]
       /\ round' = [round EXCEPT ![c] = 2]
       /\ wanted' = [wanted EXCEPT ![c] = k]
       /\ UNCHANGED <<tcVars, outcome>>
    \/ /\ round[c] = 2
       /\ Set(c, wanted[c])
       /\ fetch

Reading(c) == body' = [body EXCEPT ![c] = IF @ = "none" THEN @ ELSE "used"]

\* An attempt is answered by the registry.
Answered(c) ==
    /\ pc[c] = "send"
    /\ Reading(c)
    /\ \/ /\ Authorized(c)
          /\ Done(c, "ok")
          /\ UNCHANGED <<tcVars, round, wanted>>
       \/ ~Authorized(c) /\ Unauthorized(c)
    /\ UNCHANGED <<regVars, attempt, auth, handle, attempted>>

\* An attempt fails for good: the policy returns the error, and Do as well.
Broken(c) ==
    /\ pc[c] = "send"
    /\ Reading(c)
    /\ Done(c, Error)
    /\ UNCHANGED <<tcVars, regVars, round, attempt, auth, handle, wanted, attempted>>

\* An attempt fails with a status or a timeout that the policy retries, when
\* it has attempts left and the body can be read again.
Transient(c) ==
    /\ pc[c] = "send"
    /\ IF attempt[c] >= MaxRetry \/ BodyKind[c] = "oneshot"
       THEN Done(c, "failed") /\ Reading(c)
       ELSE pc' = [pc EXCEPT ![c] = "backoff"] /\ UNCHANGED <<body, outcome>>
    /\ UNCHANGED <<tcVars, regVars, round, attempt, auth, handle, wanted, attempted>>

\* RoundTrip waits for the timer or for the context.
Backoff(c) ==
    /\ pc[c] = "backoff"
    /\ \/ /\ pc' = [pc EXCEPT ![c] = "send"]
          /\ attempt' = [attempt EXCEPT ![c] = @ + 1]
          /\ UNCHANGED outcome
       \/ /\ c \in cancelled
          /\ Done(c, Cancelled)
          /\ UNCHANGED attempt
    /\ UNCHANGED <<tcVars, regVars, round, auth, handle, wanted, attempted, body>>
------------------------------------------------------------------------------
FetchBasicAuth(c) == {IF cred = "userpass" THEN Token(c, key[c]) ELSE Error}

FetchDistributionToken(c) == {Token(c, key[c]), Error}

FetchOAuth2Token(c) ==
    IF cred = "username" THEN {Error} ELSE {Token(c, key[c]), Error}

AccessToken == [scheme |-> "Bearer", scopes |-> <<>>, by |-> None]

FetchBearerToken(c) ==
    CASE cred = "access" -> {AccessToken}
      [] cred = "none" \/ (cred \in {"userpass", "username"} /\ ~ForceAttemptOAuth2) ->
            FetchDistributionToken(c)
      [] OTHER -> FetchOAuth2Token(c)

\* The fetch that Do passes to Set ends.  When the context is done in a
\* request for the token the error wraps context.Canceled.
Fetch(c) ==
    /\ at[c] = "fetch"
    /\ \/ \E r \in IF key[c].scheme = "Basic" THEN FetchBasicAuth(c) ELSE FetchBearerToken(c) :
             Publish(c, r)
       \/ c \in cancelled /\ key[c].scheme = "Bearer" /\ Publish(c, Wrapped)
    /\ UNCHANGED <<regVars, reqVars>>

InSet(c) == SetStep(c) /\ UNCHANGED <<regVars, reqVars>>

\* Set has returned: the request is sent for the last time, or Do fails.
AfterSet(c) ==
    /\ pc[c] = "set"
    /\ at[c] = "return"
    /\ IF result[c] \in Tokens
       THEN Resend(c, 3, result[c])
       ELSE Done(c, result[c]) /\ UNCHANGED <<round, attempt, auth, body>>
    /\ UNCHANGED <<tcVars, regVars, handle, wanted, attempted>>

\* The registry stops taking a token, or changes its scheme.
Revoke ==
    /\ "revoke" \in Events
    /\ revoked = {}    \* bound: one token
    /\ \E c \in Callers : auth[c] # None /\ revoked' = {auth[c]}
    /\ UNCHANGED <<tcVars, cred, registry, shifts, reqVars>>

Shift ==
    /\ shifts < MaxShifts
    /\ shifts' = shifts + 1
    /\ \E s \in {"Basic", "Bearer"} \ {registry} : registry' = s
    /\ UNCHANGED <<tcVars, cred, revoked, reqVars>>

CancelRequest(c) ==
    /\ "cancel" \in Events
    /\ pc[c] # "done"
    /\ Cancel(c)
    /\ UNCHANGED <<regVars, reqVars>>

DoStep(c) ==
    \/ SendPreset(c) \/ Start(c) \/ Find(c) \/ Look(c) \/ Answered(c) \/ Backoff(c)
    \/ Fetch(c) \/ InSet(c) \/ AfterSet(c)

Terminated == (\A c \in Callers : pc[c] = "done") /\ UNCHANGED acVars

ACNext ==
    \/ \E c \in Callers : DoStep(c) \/ Broken(c) \/ Transient(c) \/ CancelRequest(c)
    \/ Revoke \/ Shift \/ Terminated

\* Every goroutine goes on, and the registry and the token server answer or
\* the connection fails in the end.
ACFairSpec == ACInit /\ [][ACNext]_acVars /\ \A c \in Callers : WF_acVars(DoStep(c))
------------------------------------------------------------------------------
\* Two requests never fetch a token for the same permissions at a time,
\* whatever the order and grouping of the scopes in their hints and
\* challenges: the cleaned scopes are one key, and a key has one fetch.
SharedFetch ==
    \A c, d \in Callers :
        /\ at[c] = "fetch" /\ at[d] = "fetch"
        /\ key[c].scheme = key[d].scheme
        /\ Permissions(key[c].scopes) = Permissions(key[d].scopes)
        => c = d

\* Every attempt, of RoundTrip and of Do, carries the whole body: none is
\* sent with a body that an earlier one has read.
BodyWhole == \A c \in Callers : pc[c] = "send" => body[c] # "used"

\* A token in the cache of the registry is of the entry's scheme and issued
\* for the permissions that it is looked up by, also after a change of the
\* scheme while other requests were storing tokens.
TokensFit ==
    \A e \in Callers : \A k \in DOMAIN entry[e].tokens :
        LET t == entry[e].tokens[k] IN
        /\ t.scheme = entry[e].scheme
        /\ t.by # None => Permissions(k.scopes) = Permissions(t.scopes)

\* Do returns: no request waits for ever for a token that another one was
\* to fetch, also when that one is cancelled, and retries end.
DoReturns == \A c \in Callers : <>(pc[c] = "done")

\* A request whose context is not done is not failed by the context of
\* another: "Do calls the function f if and only if Do is being called first
\* time or all previous function calls are cancelled, deadline exceeded, or
\* panicking" (internal/syncutil/once.go:41).
OwnContextOnly ==
    \A c \in Callers : outcome[c] \in {Wrapped, Cancelled} => c \in cancelled
==============================================================================
