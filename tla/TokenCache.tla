----------------------------- MODULE TokenCache ------------------------------
(***************************************************************************)
(* The token cache of the auth client for one registry: concurrentCache    *)
(* (registry/remote/auth/cache.go) on syncutil.Once                        *)
(* (internal/syncutil/once.go).  Set combines concurrent fetches of a key  *)
(* in a Once that it finds, or puts, in the map `status'; whoever ran the  *)
(* fetch takes the Once out of the map and stores the token.               *)
(*                                                                         *)
(* Every load or store of a sync.Map and every operation on the channel of *)
(* a Once is a step.  A Once and a cache entry are named after the caller  *)
(* that made them: a caller makes at most one of each.                     *)
(***************************************************************************)
EXTENDS Naturals, FiniteSets

CONSTANTS
    Callers,       \* requests, each of them calls Set at most once
    Keys,          \* what tokens are cached for: [scheme, scopes]
    Tokens,        \* the results of a fetch that are no errors
    Error,         \* a fetch failed
    Wrapped,       \* a fetch failed since the context of the one who ran it
                   \* was done, and says so in an error of net/http
    Cancelled,     \* the context of the caller is done
    None

ASSUME CacheAssumption ==
    /\ {Error, Wrapped, Cancelled, None} \cap Tokens = {}
    /\ Cardinality({Error, Wrapped, Cancelled, None}) = 4
    /\ None \notin Callers

VARIABLES
    cancelled,     \* the callers whose context is done
    status,        \* status[k]: the Once that is in the map for k, or None
    once,          \* once[c]: the Once that c made: its channel holds true
                   \* ("free"), is empty ("busy") or closed ("done")
    current,       \* the cache entry of the registry, or None
    entry,         \* entry[c]: the cache entry that c made
    at,            \* at[c]: where c stands in Set
    key,           \* key[c]: the argument of Set
    mine,          \* mine[c]: the Once that c waits for, then its entry
    result         \* result[c]: what Set returns to c

cacheVars == <<status, once, current, entry>>
setVars == <<at, key, mine, result>>
tcVars == <<cancelled, cacheVars, setVars>>

Places == {"out", "wait", "fetch", "unlist", "entry", "replace", "store", "return"}

Results == Tokens \cup {Error, Wrapped, Cancelled}

NoEntry == [scheme |-> None, tokens |-> [k \in {} |-> None]]

TCTypeOK ==
    /\ cancelled \subseteq Callers
    /\ status \in [Keys -> Callers \cup {None}]
    /\ once \in [Callers -> [state : {"free", "busy", "done"},
                             result : Results \cup {None}]]
    /\ at \in [Callers -> Places]
    /\ key \in [Callers -> Keys \cup {None}]
    /\ mine \in [Callers -> Callers \cup {None}]
    /\ result \in [Callers -> Results \cup {None}]

TCInit ==
    /\ cancelled = {}
    /\ status = [k \in Keys |-> None]
    /\ once = [c \in Callers |-> [state |-> "free", result |-> None]]
    /\ current = None
    /\ entry = [c \in Callers |-> NoEntry]
    /\ at = [c \in Callers |-> "out"]
    /\ key = [c \in Callers |-> None]
    /\ mine = [c \in Callers |-> None]
    /\ result = [c \in Callers |-> None]
------------------------------------------------------------------------------
Goto(c, place) == at' = [at EXCEPT ![c] = place]

Return(c, r) ==
    /\ Goto(c, "return")
    /\ result' = [result EXCEPT ![c] = r]
    /\ UNCHANGED <<key, mine>>

\* status.LoadOrStore(statusKey, NewOnce()).
Set(c, k) ==
    /\ at[c] = "out"
    /\ LET o == IF status[k] = None THEN c ELSE status[k] IN
          /\ status' = [status EXCEPT ![k] = o]
          /\ mine' = [mine EXCEPT ![c] = o]
    /\ key' = [key EXCEPT ![c] = k]
    /\ Goto(c, "wait")
    /\ UNCHANGED <<cancelled, once, current, entry, result>>

\* Once.Do receives true from the channel and runs the fetch.
RunOnce(c) ==
    /\ at[c] = "wait"
    /\ once[mine[c]].state = "free"
    /\ once' = [once EXCEPT ![mine[c]].state = "busy"]
    /\ Goto(c, "fetch")
    /\ UNCHANGED <<cancelled, status, current, entry, key, mine, result>>

\* Once.Do receives false from the closed channel: the result is shared.
ShareResult(c) ==
    /\ at[c] = "wait"
    /\ once[mine[c]].state = "done"
    /\ Return(c, once[mine[c]].result)
    /\ UNCHANGED <<cancelled, cacheVars>>

\* Once.Do ends with ctx.Done().
GiveUp(c) ==
    /\ at[c] = "wait"
    /\ c \in cancelled
    /\ Return(c, Cancelled)
    /\ UNCHANGED <<cancelled, cacheVars>>

\* The fetch ends: the result is kept and the channel closed.
Publish(c, r) ==
    /\ at[c] = "fetch"
    /\ once' = [once EXCEPT ![mine[c]] = [state |-> "done", result |-> r]]
    /\ result' = [result EXCEPT ![c] = r]
    /\ Goto(c, "unlist")
    /\ UNCHANGED <<cancelled, status, current, entry, key, mine>>

\* Mutant: the channel is left empty when the context was done.
AbandonOnce(c) ==
    /\ at[c] = "fetch"
    /\ c \in cancelled
    /\ Return(c, Cancelled)
    /\ UNCHANGED <<cancelled, cacheVars>>

\* The fetch ends with context.Canceled itself: true goes back to the channel.
ReleaseOnce(c) ==
    /\ at[c] = "fetch"
    /\ c \in cancelled
    /\ once' = [once EXCEPT ![mine[c]].state = "free"]
    /\ Return(c, Cancelled)
    /\ UNCHANGED <<cancelled, status, current, entry>>

\* status.Delete(statusKey), by the caller that ran the fetch; then an error
\* is returned.
Unlist(c) ==
    /\ at[c] = "unlist"
    /\ status' = [status EXCEPT ![key[c]] = None]
    /\ Goto(c, IF result[c] \in Tokens THEN "entry" ELSE "return")
    /\ UNCHANGED <<cancelled, once, current, entry, key, mine, result>>

NewEntry(c) == [scheme |-> key[c].scheme, tokens |-> [k \in {} |-> None]]

\* Mutant: an entry of another scheme is used as it is.
AnyEntry(c) ==
    /\ at[c] = "entry"
    /\ LET e == IF current = None THEN c ELSE current IN
          /\ current' = e
          /\ mine' = [mine EXCEPT ![c] = e]
    /\ entry' = IF current = None THEN [entry EXCEPT ![c] = NewEntry(c)] ELSE entry
    /\ Goto(c, "store")
    /\ UNCHANGED <<cancelled, status, once, key, result>>

\* cache.LoadOrStore(registry, newEntry), then the comparison of the schemes.
UseEntry(c) ==
    /\ at[c] = "entry"
    /\ LET e == IF current = None THEN c ELSE current IN
          /\ current' = e
          /\ entry' = [entry EXCEPT ![c] = NewEntry(c)]
          /\ IF entry'[e].scheme = key[c].scheme
             THEN mine' = [mine EXCEPT ![c] = e] /\ Goto(c, "store")
             ELSE mine' = [mine EXCEPT ![c] = c] /\ Goto(c, "replace")
    /\ UNCHANGED <<cancelled, status, once, key, result>>

\* cache.Store(registry, newEntry): all that was cached before is dropped.
ReplaceEntry(c) ==
    /\ at[c] = "replace"
    /\ current' = c
    /\ Goto(c, "store")
    /\ UNCHANGED <<cancelled, status, once, entry, key, mine, result>>

\* entry.tokens.Store(key, token).
StoreToken(c) ==
    /\ at[c] = "store"
    /\ entry' = [entry EXCEPT ![mine[c]].tokens =
                    [k \in DOMAIN @ \cup {key[c]} |->
                        IF k = key[c] THEN result[c] ELSE @[k]]]
    /\ Goto(c, "return")
    /\ UNCHANGED <<cancelled, status, once, current, key, mine, result>>

\* What GetToken returns for key k from the entry e that it has loaded.
TokenIn(e, k) ==
    IF e # None /\ entry[e].scheme = k.scheme /\ k \in DOMAIN entry[e].tokens
    THEN entry[e].tokens[k]
    ELSE None

\* A context is cancelled or its deadline passes.
Cancel(c) ==
    /\ c \notin cancelled
    /\ cancelled' = cancelled \cup {c}
    /\ UNCHANGED <<cacheVars, setVars>>

\* The steps of Set other than the fetch.
SetStep(c) ==
    \/ RunOnce(c) \/ ShareResult(c) \/ GiveUp(c) \/ ReleaseOnce(c)
    \/ Unlist(c) \/ UseEntry(c) \/ ReplaceEntry(c) \/ StoreToken(c)

TCNext ==
    \E c \in Callers :
        \/ \E k \in Keys : Set(c, k)
        \/ SetStep(c)
        \/ \E r \in Tokens \cup {Error} : Publish(c, r)
        \/ c \in cancelled /\ Publish(c, Wrapped)
        \/ Cancel(c)

TCSpec == TCInit /\ [][TCNext]_tcVars
------------------------------------------------------------------------------
\* Two callers of Set never fetch a token for the same key at the same time,
\* also when a fetch is cancelled and taken over by one who waited, and when
\* the Once of an earlier fetch is taken out of the map by the one who ran it.
SingleFetch ==
    \A c, d \in Callers :
        at[c] = "fetch" /\ at[d] = "fetch" /\ key[c] = key[d] => c = d
==============================================================================
