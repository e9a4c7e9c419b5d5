---------------------------- MODULE ReferrersList ----------------------------
(***************************************************************************)
(* What a caller may expect of the client-side referrers index: a list of  *)
(* referrers to which the changes of the callers are applied, in groups,   *)
(* each change once, between the call and the return of its operation.     *)
(***************************************************************************)
CONSTANTS
    Callers,    \* operations on manifests with the same subject
    Change,     \* Change[c] = <<"add" or "remove", referrer>>
    Before      \* the list at the beginning

VARIABLES
    list,   \* the referrers that a client finds
    state   \* state[c]: "idle", "called", "applied", "ok" or "err"

vars == <<list, state>>

Referrers == Before \cup {Change[c][2] : c \in Callers}

Init == list = Before /\ state = [c \in Callers |-> "idle"]

Call(c) ==
    /\ state[c] = "idle"
    /\ state' = [state EXCEPT ![c] = "called"]
    /\ UNCHANGED list

\* Changes of the same referrer within a group take effect in some order.
Apply(S) ==
    /\ \A c \in S : state[c] = "called"
    /\ state' = [c \in Callers |-> IF c \in S THEN "applied" ELSE state[c]]
    /\ list' \in {L \in SUBSET Referrers : \A r \in Referrers :
                    LET ops == {Change[c][1] : c \in {d \in S : Change[d][2] = r}}
                    IN  CASE ops = {} -> r \in L <=> r \in list
                          [] ops = {"add"} -> r \in L
                          [] ops = {"remove"} -> r \notin L
                          [] OTHER -> TRUE}

\* An error leaves open whether the change was applied; an operation may fail
\* before it comes to the list.
Return(c) ==
    /\ \/ state[c] = "applied" /\ state' = [state EXCEPT ![c] = "ok"]
       \/ /\ state[c] \in {"idle", "called", "applied"}
          /\ state' = [state EXCEPT ![c] = "err"]
    /\ UNCHANGED list

Next == (\E c \in Callers : Call(c) \/ Return(c)) \/ \E S \in SUBSET Callers : Apply(S)

Spec == Init /\ [][Next]_vars
==============================================================================
