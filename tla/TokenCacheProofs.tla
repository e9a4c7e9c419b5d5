-------------------------- MODULE TokenCacheProofs ---------------------------
(***************************************************************************)
(* For any number of callers and keys: the token cache has one fetch for a *)
(* key at a time (SingleFetch).  The difficulty is Unlist, which takes     *)
(* whatever Once the map has for the key: the invariant says that it is    *)
(* the one whose fetch has ended, and that no other is under way.          *)
(***************************************************************************)
EXTENDS TokenCache, TLAPS

\* A caller that holds the Once of its key.
Engaged(c) == at[c] \in {"wait", "fetch", "unlist"}

Types ==
    /\ status \in [Keys -> Callers \cup {None}]
    /\ DOMAIN once = Callers
    /\ \A o \in Callers : once[o] = [state |-> once[o].state, result |-> once[o].result]
    /\ current \in Callers \cup {None}
    /\ at \in [Callers -> Places]
    /\ key \in [Callers -> Keys \cup {None}]
    /\ mine \in [Callers -> Callers \cup {None}]

\* A Once belongs to the key of the caller that made it, which has begun.
Owned ==
    /\ \A k \in Keys : status[k] # None => at[status[k]] # "out" /\ key[status[k]] = k
    /\ \A c \in Callers : Engaged(c) =>
          /\ key[c] \in Keys
          /\ mine[c] \in Callers
          /\ at[mine[c]] # "out"
          /\ key[mine[c]] = key[c]

\* As long as a Once is not done, and until the one who ran its fetch has
\* taken it out, it is the Once that the map has for its key.
Listed ==
    \A c \in Callers :
        /\ Engaged(c) /\ once[mine[c]].state # "done" => status[key[c]] = mine[c]
        /\ at[c] = "unlist" => status[key[c]] = mine[c]

\* The value of the channel is with one caller.
Exclusive ==
    /\ \A c \in Callers : at[c] = "fetch" => once[mine[c]].state = "busy"
    /\ \A c \in Callers : at[c] = "unlist" => once[mine[c]].state = "done"
    /\ \A c, d \in Callers :
          at[c] = at[d] /\ at[c] \in {"fetch", "unlist"} /\ mine[c] = mine[d] => c = d

IInv == Types /\ Owned /\ Listed /\ Exclusive

\* The inductive invariant gives the property: two fetches for one key hold
\* the Once that the map has for it, so they are the same.
THEOREM IInvSingleFetch == IInv => SingleFetch
BY DEF IInv, SingleFetch, Listed, Exclusive, Engaged

\* Before any call of Set no Once exists.
THEOREM IInvInit == TCInit => IInv
<1> SUFFICES ASSUME TCInit PROVE IInv
  OBVIOUS
<1>1. Types
  BY DEF TCInit, Types, Places
<1>2. Owned /\ Listed /\ Exclusive
  BY DEF TCInit, Owned, Listed, Exclusive, Engaged
<1> QED
  BY <1>1, <1>2 DEF IInv

\* A call of Set joins the Once of its key or makes one that nobody has.
LEMMA SetKeeps ==
    ASSUME IInv, NEW c \in Callers, NEW k \in Keys, Set(c, k)
    PROVE  IInv'
<1> USE DEF IInv
<1> DEFINE o == IF status[k] = None THEN c ELSE status[k]
<1>1. /\ at[c] = "out" /\ o \in Callers
      /\ status' = [status EXCEPT ![k] = o]
      /\ mine' = [mine EXCEPT ![c] = o]
      /\ key' = [key EXCEPT ![c] = k]
      /\ at' = [at EXCEPT ![c] = "wait"]
      /\ once' = once /\ current' = current
  BY CacheAssumption DEF Set, Goto, Types
<1>2. Types'
  BY <1>1 DEF Types, Places
<1>3. \A d \in Callers : Engaged(d) => mine[d] # c
  BY <1>1 DEF Owned
<1>4. \A j \in Keys : status[j] # c
  BY <1>1, CacheAssumption DEF Owned
<1>5. Owned'
  BY <1>1, <1>3, <1>4, CacheAssumption DEF Owned, Engaged, Types
<1>6. Listed'
  BY <1>1, <1>3, <1>4, CacheAssumption DEF Listed, Owned, Engaged, Types
<1>7. Exclusive'
  BY <1>1 DEF Exclusive, Types
<1> QED
  BY <1>2, <1>5, <1>6, <1>7

\* The steps that change the channel of the Once: taking the value, closing
\* the channel, putting the value back.
LEMMA ChannelKeeps ==
    ASSUME IInv, NEW c \in Callers,
           RunOnce(c) \/ ReleaseOnce(c) \/ (\E r : Publish(c, r))
    PROVE  IInv'
<1> USE DEF IInv
<1>0. mine[c] \in Callers /\ key[c] \in Keys
  BY DEF RunOnce, ReleaseOnce, Publish, Owned, Engaged
<1>1. CASE RunOnce(c)
  <2>1. /\ at[c] = "wait" /\ at' = [at EXCEPT ![c] = "fetch"]
        /\ once[mine[c]].state = "free"
        /\ once' = [once EXCEPT ![mine[c]].state = "busy"]
        /\ UNCHANGED <<status, current, key, mine>>
    BY <1>1 DEF RunOnce, Goto
  <2>2. Types'
    BY <1>0, <2>1 DEF Types, Places
  <2>3. Owned' /\ Listed'
    BY <1>0, <2>1 DEF Types, Owned, Listed, Engaged
  <2>4. Exclusive'
    BY <1>0, <2>1 DEF Types, Exclusive
  <2> QED
    BY <2>2, <2>3, <2>4
<1>2. CASE ReleaseOnce(c)
  <2>1. /\ at[c] = "fetch" /\ at' = [at EXCEPT ![c] = "return"]
        /\ once[mine[c]].state = "busy"
        /\ once' = [once EXCEPT ![mine[c]].state = "free"]
        /\ UNCHANGED <<status, current, key, mine>>
    BY <1>2 DEF ReleaseOnce, Goto, Return, Exclusive
  <2>2. Types'
    BY <1>0, <2>1 DEF Types, Places
  <2>3. Owned' /\ Listed'
    BY <1>0, <2>1 DEF Types, Owned, Listed, Engaged
  <2>4. Exclusive'
    BY <1>0, <2>1 DEF Types, Exclusive
  <2> QED
    BY <2>2, <2>3, <2>4
<1>3. CASE \E r : Publish(c, r)
  <2>0. PICK r : Publish(c, r)
    BY <1>3
  <2>1. /\ at[c] = "fetch" /\ at' = [at EXCEPT ![c] = "unlist"]
        /\ once[mine[c]].state = "busy"
        /\ once' = [once EXCEPT ![mine[c]] = [state |-> "done", result |-> r]]
        /\ UNCHANGED <<status, current, key, mine>>
    BY <2>0 DEF Publish, Goto, Exclusive
  <2>2. Types'
    BY <1>0, <2>1 DEF Types, Places
  <2>3. Owned' /\ Listed'
    BY <1>0, <2>1 DEF Types, Owned, Listed, Engaged
  <2>4. Exclusive'
    BY <1>0, <2>1 DEF Types, Exclusive
  <2> QED
    BY <2>2, <2>3, <2>4
<1> QED
  BY <1>1, <1>2, <1>3

\* The Once that Unlist takes out of the map is its own, and done: no caller
\* that still needs the Once of the key loses it.
LEMMA UnlistKeeps ==
    ASSUME IInv, NEW c \in Callers, Unlist(c)
    PROVE  IInv'
<1> USE DEF IInv
<1>1. /\ at[c] = "unlist"
      /\ status' = [status EXCEPT ![key[c]] = None]
      /\ \E p \in {"entry", "return"} : at' = [at EXCEPT ![c] = p]
      /\ UNCHANGED <<once, current, key, mine>>
  BY DEF Unlist, Goto
<1>2. key[c] \in Keys /\ status[key[c]] = mine[c] /\ once[mine[c]].state = "done"
  BY <1>1 DEF Owned, Listed, Exclusive, Engaged
<1>3. Types'
  BY <1>1, <1>2 DEF Types, Places
<1>4. Owned'
  BY <1>1, <1>2 DEF Types, Owned, Engaged
<1>5. Listed'
  <2> SUFFICES ASSUME NEW d \in Callers, d # c, Engaged(d), key[d] = key[c],
                      once[mine[d]].state # "done" \/ at[d] = "unlist"
               PROVE  FALSE
    BY <1>1, <1>2 DEF Types, Listed, Owned, Engaged
  <2>1. mine[d] = mine[c]
    BY <1>2 DEF Listed, Engaged
  <2> QED
    BY <1>1, <1>2, <2>1 DEF Exclusive
<1>6. Exclusive'
  BY <1>1 DEF Types, Exclusive
<1> QED
  BY <1>3, <1>4, <1>5, <1>6

\* A step of a caller that holds no Once before or after it, or lets go of
\* the one it waited for, leaves the map and the channels alone.
LEMMA OtherKeeps ==
    ASSUME IInv, NEW c \in Callers,
           UNCHANGED <<status, once, key>>, current' \in Callers \cup {None},
           NEW p \in {"return", "entry", "replace", "store"},
           at' = [at EXCEPT ![c] = p], at[c] # "out",
           NEW m \in Callers \cup {None}, mine' = [mine EXCEPT ![c] = m]
    PROVE  IInv'
<1> USE DEF IInv
<1>1. Types'
  BY DEF Types, Places
<1>2. Owned' /\ Listed'
  BY DEF Types, Owned, Listed, Engaged
<1>3. Exclusive'
  BY DEF Types, Exclusive
<1> QED
  BY <1>1, <1>2, <1>3

\* Every step of the cache keeps the invariant.
THEOREM IInvStep == IInv /\ [TCNext]_tcVars => IInv'
<1> SUFFICES ASSUME IInv, [TCNext]_tcVars PROVE IInv'
  OBVIOUS
<1>0. CASE UNCHANGED tcVars
  BY <1>0 DEF IInv, Types, Owned, Listed, Exclusive, Engaged, tcVars, cacheVars, setVars
<1>1. ASSUME NEW c \in Callers, NEW k \in Keys, Set(c, k) PROVE IInv'
  BY <1>1, SetKeeps
<1>2. ASSUME NEW c \in Callers, RunOnce(c) \/ ReleaseOnce(c) \/ (\E r : Publish(c, r))
      PROVE  IInv'
  BY <1>2, ChannelKeeps
<1>3. ASSUME NEW c \in Callers, Unlist(c) PROVE IInv'
  BY <1>3, UnlistKeeps
<1>4. ASSUME NEW c \in Callers, ShareResult(c) \/ GiveUp(c) PROVE IInv'
  <2>1. /\ UNCHANGED <<status, once, key, current, mine>>
        /\ at' = [at EXCEPT ![c] = "return"] /\ at[c] # "out"
    BY <1>4 DEF ShareResult, GiveUp, Return, Goto, cacheVars
  <2>2. current' \in Callers \cup {None} /\ mine[c] \in Callers \cup {None}
        /\ mine' = [mine EXCEPT ![c] = mine[c]]
    BY <2>1 DEF IInv, Types
  <2> QED
    BY <2>1, <2>2, OtherKeeps
<1>5. ASSUME NEW c \in Callers, UseEntry(c) PROVE IInv'
  <2>1. /\ UNCHANGED <<status, once, key>>
        /\ current' = IF current = None THEN c ELSE current
        /\ at[c] # "out"
        /\ \E p \in {"replace", "store"}, m \in Callers \cup {None} :
              at' = [at EXCEPT ![c] = p] /\ mine' = [mine EXCEPT ![c] = m]
    BY <1>5 DEF UseEntry, Goto, IInv, Types
  <2>2. current' \in Callers \cup {None}
    BY <2>1 DEF IInv, Types
  <2> QED
    BY <2>1, <2>2, OtherKeeps
<1>6. ASSUME NEW c \in Callers, ReplaceEntry(c) \/ StoreToken(c) PROVE IInv'
  <2>1. /\ UNCHANGED <<status, once, key, mine>>
        /\ current' \in Callers \cup {None}
        /\ at[c] # "out"
        /\ \E p \in {"store", "return"} : at' = [at EXCEPT ![c] = p]
    BY <1>6 DEF ReplaceEntry, StoreToken, Goto, IInv, Types
  <2>2. mine[c] \in Callers \cup {None} /\ mine' = [mine EXCEPT ![c] = mine[c]]
    BY <2>1 DEF IInv, Types
  <2> QED
    BY <2>1, <2>2, OtherKeeps
<1>7. ASSUME NEW c \in Callers, Cancel(c) PROVE IInv'
  BY <1>7 DEF Cancel, IInv, Types, Owned, Listed, Exclusive, Engaged, cacheVars, setVars
<1> QED
  BY <1>0, <1>1, <1>2, <1>3, <1>4, <1>5, <1>6, <1>7 DEF TCNext, SetStep

\* In every behaviour of the token cache, for any number of callers and keys,
\* a key has at most one fetch under way (concurrentCache.Set over Once.Do).
THEOREM CacheSingleFetch == TCSpec => []SingleFetch
<1>1. TCSpec => []IInv
  BY IInvInit, IInvStep, PTL DEF TCSpec
<1> QED
  BY <1>1, IInvSingleFetch, PTL
==============================================================================
