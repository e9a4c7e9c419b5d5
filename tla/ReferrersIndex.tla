---------------------------- MODULE ReferrersIndex ---------------------------
(***************************************************************************)
(* The referrers index that a client keeps for a registry without the      *)
(* Referrers API: manifestStore.updateReferrersIndex (registry/remote) for *)
(* one subject, over syncutil.Pool (one Merge object for each referrers    *)
(* tag, as long as someone uses it) and syncutil.Merge (concurrent updates *)
(* are merged; one caller does the work for all).                          *)
(*                                                                         *)
(* An index manifest is the set of referrers it lists.  A status channel   *)
(* of Merge is named by the caller for whom it was made; it buffers one    *)
(* message.                                                                *)
(***************************************************************************)
EXTENDS Naturals, FiniteSets

CONSTANTS
    Callers,          \* calls of Push or Delete for manifests with the subject
    Change,           \* Change[c] = <<"add" or "remove", referrer>>
    Before,           \* the referrers listed at the beginning
    None

ASSUME IndexAssumption ==
    /\ \A c \in Callers : Change[c][1] \in {"add", "remove"}
    /\ None \notin Callers

VARIABLES
    skipGC,         \* Repository.SkipReferrersGC
    manifests,      \* registry: the referrers stored
    indexes,        \* registry: the index manifests stored
    tag,            \* registry: the index that the referrers tag names, or None
    pool,           \* the Merge object in the pool, or None
    users,          \* users[m]: refCount of Merge object m
    committed,      \* committed[m] ... pendingStatus[m]: its fields
    items,
    status,
    pending,
    pendingStatus,
    buffer,         \* buffer[k]: message in channel k, or None
    closed,         \* channels that are closed
    pc,             \* pc[c]: where c stands
    merge,          \* merge[c]: the Merge object c got from the pool
    chan,           \* chan[c]: the channel c waits on
    old,            \* old[c]: oldIndexDesc, None if there is no index
    err,            \* err[c]: the error that c is going to return
    left,           \* left[c]: waiters still to be told of the error
    applied         \* history: callers whose change has reached the registry

registry == <<skipGC, manifests, indexes, tag>>
fields == <<committed, items, status, pending, pendingStatus>>
channels == <<buffer, closed>>
locals == <<merge, chan, old, err, left, applied>>
vars == <<registry, pool, users, fields, channels, pc, locals, applied>>

Op(c) == Change[c][1]
Referrer(c) == Change[c][2]
Referrers == Before \cup {Referrer(c) : c \in Callers}

\* The names of Merge objects and of channels: the callers that made them.
Names == Callers

Init ==
    /\ skipGC \in BOOLEAN
    /\ manifests = Before
    /\ indexes = IF Before = {} THEN {} ELSE {Before}
    /\ tag = IF Before = {} THEN None ELSE Before
    /\ pool = None
    /\ users = [m \in Names |-> 0]
    /\ committed = [m \in Names |-> FALSE]
    /\ items = [m \in Names |-> {}]
    /\ pending = [m \in Names |-> {}]
    /\ status = [m \in Names |-> None]
    /\ pendingStatus = [m \in Names |-> None]
    /\ buffer = [k \in Names |-> None]
    /\ closed = {}
    /\ pc = [c \in Callers |-> IF Op(c) = "add" THEN "push" ELSE "get"]
    /\ merge = [c \in Callers |-> None]
    /\ chan = [c \in Callers |-> None]
    /\ old = [c \in Callers |-> None]
    /\ err = [c \in Callers |-> FALSE]
    /\ left = [c \in Callers |-> 0]
    /\ applied = {}

Goto(c, s) == pc' = [pc EXCEPT ![c] = s]
------------------------------------------------------------------------------
\* Mutant: an error of the push is ignored.
PushManifestAnyway(c) ==
    /\ pc[c] = "push"
    /\ manifests' \in {manifests, manifests \cup {Referrer(c)}}
    /\ Goto(c, "get")
    /\ UNCHANGED <<skipGC, indexes, tag, pool, users, fields, channels, locals, applied>>

\* pushWithIndexing: the manifest is pushed before the index is updated.  An
\* answer may be lost.
PushManifest(c) ==
    /\ pc[c] = "push"
    /\ \/ manifests' = manifests \cup {Referrer(c)} /\ (Goto(c, "get") \/ Goto(c, "err"))
       \/ UNCHANGED manifests /\ Goto(c, "err")
    /\ UNCHANGED <<skipGC, indexes, tag, pool, users, fields, channels, locals, applied>>

\* Pool.Get: the Merge object in use, or a new one.
GetMerge(c) ==
    /\ pc[c] = "get"
    /\ LET m == IF pool = None THEN c ELSE pool IN
        /\ pool' = m
        /\ users' = [users EXCEPT ![m] = @ + 1]
        /\ merge' = [merge EXCEPT ![c] = m]
    /\ Goto(c, "assign")
    /\ UNCHANGED <<registry, fields, channels, chan, old, err, left, applied>>

(***************************************************************************)
(* Merge.Do.  assign: the item joins the batch that is still open, or the  *)
(* next one; the first of a batch makes its channel, and the first of an   *)
(* idle object is told at once that it is the main caller.                 *)
(***************************************************************************)
Assign(c) ==
    /\ pc[c] = "assign"
    /\ LET m == merge[c] IN
        \/ /\ committed[m]
           /\ pendingStatus' = [pendingStatus EXCEPT ![m] = IF @ = None THEN c ELSE @]
           /\ pending' = [pending EXCEPT ![m] = @ \cup {c}]
           /\ chan' = [chan EXCEPT ![c] = pendingStatus'[m]]
           /\ UNCHANGED <<items, status, buffer>>
        \/ /\ ~committed[m]
           /\ status' = [status EXCEPT ![m] = IF @ = None THEN c ELSE @]
           /\ buffer' = IF status[m] = None THEN [buffer EXCEPT ![c] = "main"]
                        ELSE buffer
           /\ items' = [items EXCEPT ![m] = @ \cup {c}]
           /\ chan' = [chan EXCEPT ![c] = status'[m]]
           /\ UNCHANGED <<pending, pendingStatus>>
    /\ Goto(c, "receive")
    /\ UNCHANGED <<registry, pool, users, committed, closed, merge, old, err, left, applied>>

\* A buffered message comes before the zero status of a closed channel.
Receive(c) ==
    /\ pc[c] = "receive"
    /\ LET k == chan[c] IN
        /\ buffer[k] # None \/ k \in closed
        /\ buffer' = [buffer EXCEPT ![k] = None]
        /\ err' = [err EXCEPT ![c] = buffer[k] = "err"]
        /\ Goto(c, IF buffer[k] = "main" THEN "prepare" ELSE "put")
    /\ UNCHANGED <<registry, pool, users, fields, closed, merge, chan, old, left, applied>>

\* prepare: the index is fetched by the referrers tag; not found is fine.
Prepare(c) ==
    /\ pc[c] = "prepare"
    /\ \/ old' = [old EXCEPT ![c] = tag] /\ UNCHANGED err
       \/ err' = [err EXCEPT ![c] = TRUE] /\ UNCHANGED old
    /\ Goto(c, "commit")
    /\ UNCHANGED <<registry, pool, users, fields, channels, merge, chan, left,
                   applied>>

Commit(c) ==
    /\ pc[c] = "commit"
    /\ committed' = [committed EXCEPT ![merge[c]] = TRUE]
    /\ Goto(c, IF err[c] THEN "complete" ELSE "update")
    /\ left' = [left EXCEPT ![c] = Cardinality(items[merge[c]]) - 1]
    /\ UNCHANGED <<registry, pool, users, items, status, pending, pendingStatus,
                   channels, merge, chan, old, err, applied>>

(***************************************************************************)
(* applyReferrerChanges: the referrers of the old index with the changes   *)
(* of the batch made one after the other, in the order of assignment.  The *)
(* order matters only between changes of the same referrer, and is left    *)
(* open there.                                                             *)
(***************************************************************************)
OldReferrers(c) == IF old[c] = None THEN {} ELSE old[c]

Updated(c) ==
    LET batch == items[merge[c]]
        ops(r) == {Op(d) : d \in {d \in batch : Referrer(d) = r}}
    IN  {L \in SUBSET Referrers : \A r \in Referrers :
            /\ ops(r) = {} => (r \in L <=> r \in OldReferrers(c))
            /\ ops(r) = {"add"} => r \in L
            /\ ops(r) = {"remove"} => r \notin L}

(***************************************************************************)
(* The update: nothing if the referrers do not change; otherwise the new   *)
(* index is pushed with the referrers tag (unless it is empty and the old  *)
(* one is going to be deleted), and the old index is left to be deleted.   *)
(***************************************************************************)
Update(c) ==
    /\ pc[c] = "update"
    /\ \E L \in Updated(c) :
        \/ /\ L = OldReferrers(c)
           /\ Goto(c, "complete")
           /\ applied' = applied \cup items[merge[c]]
           /\ UNCHANGED <<registry, err>>
        \/ /\ L # OldReferrers(c) /\ L = {} /\ ~skipGC
           /\ Goto(c, "collect")
           /\ UNCHANGED <<registry, err, applied>>
        \/ /\ L # OldReferrers(c) /\ (L # {} \/ skipGC)
           /\ indexes' = indexes \cup {L}
           /\ tag' = L
           /\ applied' = applied \cup items[merge[c]]
           /\ UNCHANGED <<skipGC, manifests>>
           /\ \/ Goto(c, "collect") /\ UNCHANGED err
              \/ Goto(c, "complete") /\ err' = [err EXCEPT ![c] = TRUE]
        \/ /\ L # OldReferrers(c) /\ (L # {} \/ skipGC)
           /\ Goto(c, "complete")
           /\ err' = [err EXCEPT ![c] = TRUE]
           /\ UNCHANGED <<registry, applied>>
    /\ UNCHANGED <<pool, users, fields, channels, merge, chan, old, left>>

\* Mutant: the old index is kept.
DeleteOldIndexKeeps(c) ==
    /\ pc[c] = "collect"
    /\ Goto(c, "complete")
    /\ UNCHANGED <<registry, pool, users, fields, channels, locals, applied>>

\* The old index is deleted, with the tag if that still names it.
DeleteOldIndex(c) ==
    /\ pc[c] = "collect"
    /\ \/ /\ skipGC \/ old[c] = None
          /\ UNCHANGED <<indexes, tag, err, applied>>
       \/ /\ ~skipGC /\ old[c] # None
          /\ indexes' = indexes \ {old[c]}
          /\ tag' = IF tag = old[c] THEN None ELSE tag
          /\ applied' = applied \cup items[merge[c]]
          /\ UNCHANGED err \/ err' = [err EXCEPT ![c] = TRUE]
       \/ /\ ~skipGC /\ old[c] # None
          /\ err' = [err EXCEPT ![c] = TRUE]
          /\ UNCHANGED <<indexes, tag, applied>>
    /\ Goto(c, "complete")
    /\ UNCHANGED <<skipGC, manifests, pool, users, fields, channels, merge, chan, old,
                   left>>

\* complete, outside the lock: success closes the channel; an error is sent to
\* every other caller of the batch, each time waiting for room.
Complete(c) ==
    /\ pc[c] = "complete"
    /\ LET k == status[merge[c]] IN
        \/ /\ ~err[c]
           /\ closed' = closed \cup {k}
           /\ Goto(c, "swap")
           /\ UNCHANGED <<buffer, left>>
        \/ /\ err[c] /\ left[c] > 0 /\ buffer[k] = None
           /\ buffer' = [buffer EXCEPT ![k] = "err"]
           /\ left' = [left EXCEPT ![c] = @ - 1]
           /\ UNCHANGED <<closed, pc>>
        \/ err[c] /\ left[c] = 0 /\ Goto(c, "swap") /\ UNCHANGED <<channels, left>>
    /\ UNCHANGED <<registry, pool, users, fields, merge, chan, old, err, applied>>

\* Mutant: nobody is told to work on the pending batch.
SwapBatchSilently(c) ==
    /\ pc[c] = "swap"
    /\ LET m == merge[c] IN
        /\ committed' = [committed EXCEPT ![m] = FALSE]
        /\ items' = [items EXCEPT ![m] = pending[m]]
        /\ status' = [status EXCEPT ![m] = pendingStatus[m]]
        /\ pending' = [pending EXCEPT ![m] = {}]
        /\ pendingStatus' = [pendingStatus EXCEPT ![m] = None]
    /\ Goto(c, "put")
    /\ UNCHANGED <<registry, pool, users, channels, locals, applied>>

\* complete, under the lock: the pending batch becomes the current one and its
\* main caller is told.
SwapBatch(c) ==
    /\ pc[c] = "swap"
    /\ LET m == merge[c] IN
        /\ committed' = [committed EXCEPT ![m] = FALSE]
        /\ items' = [items EXCEPT ![m] = pending[m]]
        /\ status' = [status EXCEPT ![m] = pendingStatus[m]]
        /\ pending' = [pending EXCEPT ![m] = {}]
        /\ pendingStatus' = [pendingStatus EXCEPT ![m] = None]
        /\ buffer' = IF pendingStatus[m] = None THEN buffer
                     ELSE [buffer EXCEPT ![pendingStatus[m]] = "main"]
    /\ Goto(c, "put")
    /\ UNCHANGED <<registry, pool, users, closed, locals, applied>>

\* Mutant: the object leaves the pool while it is in use.
PutMergeAlways(c) ==
    /\ pc[c] = "put"
    /\ users' = [users EXCEPT ![merge[c]] = @ - 1]
    /\ pool' = None
    /\ Goto(c, IF err[c] THEN "err" ELSE IF Op(c) = "remove" THEN "delete" ELSE "ok")
    /\ UNCHANGED <<registry, fields, channels, locals, applied>>

\* The deferred done of Pool.Get; the operation returns, but for Delete, which
\* deletes the manifest after the index was updated.
PutMerge(c) ==
    /\ pc[c] = "put"
    /\ LET m == merge[c] IN
        /\ users' = [users EXCEPT ![m] = @ - 1]
        /\ pool' = IF users[m] = 1 THEN None ELSE pool
    /\ Goto(c, IF err[c] THEN "err" ELSE IF Op(c) = "remove" THEN "delete" ELSE "ok")
    /\ UNCHANGED <<registry, fields, channels, locals, applied>>

DeleteManifest(c) ==
    /\ pc[c] = "delete"
    /\ \/ manifests' = manifests \ {Referrer(c)} /\ (Goto(c, "ok") \/ Goto(c, "err"))
       \/ UNCHANGED manifests /\ Goto(c, "err")
    /\ UNCHANGED <<skipGC, indexes, tag, pool, users, fields, channels, locals, applied>>

Returned(c) == pc[c] \in {"ok", "err"}

Step(c) ==
    \/ PushManifest(c) \/ GetMerge(c) \/ Assign(c) \/ Receive(c) \/ Prepare(c)
    \/ Commit(c) \/ Update(c) \/ DeleteOldIndex(c) \/ Complete(c)
    \/ SwapBatch(c) \/ PutMerge(c) \/ DeleteManifest(c)

Next == \E c \in Callers : Step(c)

Spec == Init /\ [][Next]_vars
FairSpec == Spec /\ \A c \in Callers : WF_vars(Step(c))
------------------------------------------------------------------------------
\* What a client that looks up the referrers finds.
Visible == IF tag = None THEN {} ELSE tag

\* A referrer that is listed exists: it is pushed before it is listed and
\* removed from the list before it is deleted, also when steps fail (callers
\* that push and delete the same referrer at the same time aside).
ListedExist ==
    \A r \in Visible :
        (\A c, d \in Callers : Referrer(c) = r /\ Referrer(d) = r => Op(c) = Op(d))
        => r \in manifests

\* Once everybody returned nil, only the index that the tag names is left.
NoDanglingIndex ==
    (\A c \in Callers : pc[c] = "ok") /\ ~skipGC =>
        indexes = IF tag = None THEN {} ELSE {tag}

\* The client-side index behaves like a list to which every change is applied
\* once, between the call and the return of its operation, although changes are
\* merged, batches fail and answers are lost.
List == INSTANCE ReferrersList WITH
            list <- Visible,
            state <- [c \in Callers |->
                        CASE pc[c] \in {"push", "get", "assign"} -> "idle"
                          [] pc[c] \in {"ok", "err"} -> pc[c]
                          [] OTHER -> IF c \in applied THEN "applied" ELSE "called"]
ImplementsList == List!Spec

\* Every operation returns: each caller of a batch is told its result, and a
\* pending batch gets a main caller, after failed batches too.
AllReturn == <>(\A c \in Callers : Returned(c))
==============================================================================
