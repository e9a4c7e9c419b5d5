-------------------------------- MODULE Scopes -------------------------------
(***************************************************************************)
(* The scopes that the auth client puts together, cleans and uses as the   *)
(* key of a cached token (registry/remote/auth/scope.go).                  *)
(*                                                                         *)
(* A scope "type:name:a1,a2" is [res, acts]: the number of its type and    *)
(* name in the order of strings, and the actions likewise as numbers.  A   *)
(* scope of another form is opaque: CleanScopes passes it on.              *)
(***************************************************************************)
LOCAL INSTANCE Naturals
LOCAL INSTANCE Sequences
LOCAL INSTANCE FiniteSets
LOCAL INSTANCE SequencesExt
LOCAL INSTANCE TLC

NoAction == 0      \* the empty string
Wildcard == 1      \* "*"

Scope(res, acts) == [res |-> res, acts |-> acts, opaque |-> FALSE]

\* Mutant: duplicates are dropped but the actions not sorted.
DedupActions(acts) ==
    LET firsts == {i \in DOMAIN acts : acts[i] # NoAction /\ \A j \in 1..i - 1 : acts[j] # acts[i]}
        order == SetToSortSeq(firsts, <) IN
    [i \in DOMAIN order |-> acts[order[i]]]

CleanActions(acts) ==
    LET set == ToSet(acts) \ {NoAction} IN
    IF Wildcard \in set THEN <<Wildcard>> ELSE SetToSortSeq(set, <)

ByResource(s, t) == s.res < t.res

\* All actions that the scopes name for a resource.
ActionsOn(scopes, res) ==
    FlattenSeq([i \in DOMAIN scopes |->
        IF scopes[i].res = res /\ ~scopes[i].opaque THEN scopes[i].acts ELSE <<>>])

\* The recognised scopes of a list: one for each resource with an action.
Merged(scopes) ==
    {s \in {Scope(r, CleanActions(ActionsOn(scopes, r))) :
               r \in {scopes[i].res : i \in DOMAIN scopes}} : s.acts # <<>>}

\* The opaque scopes are kept, also duplicates of them.
CleanScopes(scopes) ==
    SortSeq(SelectSeq(scopes, LAMBDA s : s.opaque)
               \o SetToSeq(Merged(scopes)), ByResource)

\* GetAllScopesForHost: the cleaned hints for the host and the global ones.
AllScopesForHost(host, global) ==
    LET h == CleanScopes(host)
        g == CleanScopes(global) IN
    CASE h = <<>> -> g
      [] h # <<>> /\ g = <<>> -> h
      [] OTHER -> CleanScopes(h \o g)

\* What a list of scopes asks for.
Permissions(scopes) ==
    UNION {{<<s.res, a>> : a \in ToSet(CleanActions(s.acts))} :
              s \in {scopes[i] : i \in DOMAIN scopes}}
==============================================================================
