--------------------------- MODULE CopyGraphProofs ---------------------------
(***************************************************************************)
(* Proofs about CopyGraph, for every DAG, every set of entries, every      *)
(* weight of the semaphore and every mode of tagging.                      *)
(***************************************************************************)
EXTENDS CopyGraph, FiniteSetTheorems, TLAPS

\* The items of a call are nodes: Successors lists descriptors only.
LEMMA SuccessorsType == \A n \in Nodes : Successors(n) \in Seq(Nodes)
  BY ContentAssumption DEF Successors, Kinds

\* The descriptor of a task is a node and its call is a caller.
LEMMA DescType == \A t \in Tasks : Desc(t) \in Nodes /\ t[1] \in Callers
<1> SUFFICES ASSUME NEW c \in Callers, NEW i \in Items(c)
             PROVE  Listed(c)[i] \in Nodes
  BY DEF Tasks, Desc
<1>1. CASE c \in Entries
  <2>1. Root[c] \in Nodes
    BY <1>1, CopyAssumption
  <2>2. Listed(c) = <<Root[c]>> /\ i \in DOMAIN Listed(c)
    BY <1>1 DEF Listed, Items
  <2> QED BY <2>1, <2>2
<1>2. CASE c \in Nodes
  <2>1. Listed(c) = Successors(c) /\ i \in DOMAIN Listed(c)
    BY <1>2, CopyAssumption DEF Listed, Items
  <2>2. Successors(c) \in Seq(Nodes)
    BY <1>2, SuccessorsType
  <2> QED BY <2>1, <2>2
<1> QED BY <1>1, <1>2 DEF Callers

\* A task of call c for item i, as a pair.
LEMMA TaskPair == \A c \in Callers : \A i \in Items(c) :
                     <<c, i>> \in Tasks /\ <<c, i>>[1] = c
  BY DEF Tasks

\* The non-foreign successors of a node are nodes.
LEMMA CopiedType == \A n \in Nodes : Copied(n) \subseteq Nodes
  BY DescType, TaskPair DEF Copied, Callers
------------------------------------------------------------------------------
(***************************************************************************)
(* The inductive invariant.                                                *)
(***************************************************************************)

\* What a node's stage says of the destination and of its successors.
StageInv ==
    \A n \in Nodes :
      /\ stage[n] \in {"skipped", "post", "done"} => n \in dst
      /\ stage[n] \in {"restart", "copy", "post"} =>
            \A m \in Copied(n) : stage[m] = "done"
      /\ stage[n] = "await" => call[n] = "ok"
      /\ stage[n] = "new" <=> owner[n] = NoTask
      /\ stage[n] # "new" => Desc(owner[n]) = n
      /\ stage[n] \notin {"new", "done", "failed"} => task[owner[n]] = "running"

\* A task that got past TryCommit has a committed descriptor, and a call that
\* returned nil has waited for all its tasks.
TaskInv ==
    /\ \A t \in Tasks : task[t] \in {"running", "failing", "ok", "err"} =>
          stage[Desc(t)] # "new"
    /\ \A c \in Callers : call[c] = "ok" =>
          \A i \in Items(c) : task[<<c, i>>] = "ok"

\* Whose region is started, and that the permits are those regions.
RegionInv ==
    /\ IsFiniteSet(open)
    /\ PermitsConserved
    /\ \A t \in open :
          \/ task[t] = "ready"
          \/ /\ task[t] = "running"
             /\ owner[Desc(t)] = t
             /\ stage[Desc(t)] \notin {"go", "await", "restart"}

\* Fetches so far: one, unless the node still has to be fetched.
FetchInv ==
    \A n \in Nodes :
      /\ fetches[n] <= 1
      /\ n \notin cache /\ stage[n] \notin {"post", "done", "failed"} =>
            fetches[n] = 0
      /\ stage[n] \in {"go", "await", "restart", "copy"} /\ IsManifest(n) =>
            n \in cache
      /\ stage[n] \in {"go", "await", "restart"} => IsManifest(n)

IInv ==
    /\ TypeOK
    /\ DstClosed
    /\ tagged => Roots \subseteq dst
    /\ StageInv
    /\ TaskInv
    /\ RegionInv
    /\ FetchInv
------------------------------------------------------------------------------
\* Ending a region gives back its permit once: the semaphore stays balanced.
LEMMA EndRegionPermits ==
  ASSUME NEW t, sem \in Int, IsFiniteSet(open), PermitsConserved, EndRegion(t),
         Concurrency \in Nat
  PROVE  IsFiniteSet(open') /\ PermitsConserved' /\ sem' \in Int
<1>1. CASE t \in open
  <2>1. /\ open' = open \ {t}
        /\ sem' = sem + 1
    BY <1>1 DEF EndRegion
  <2>2. /\ IsFiniteSet(open')
        /\ Cardinality(open') = Cardinality(open) - 1
    BY <1>1, <2>1, FS_RemoveElement
  <2>3. Cardinality(open) \in Nat
    BY FS_CardinalityType
  <2> QED BY <2>1, <2>2, <2>3 DEF PermitsConserved
<1>2. CASE t \notin open
  <2>1. open' = open /\ sem' = sem
    BY <1>2 DEF EndRegion
  <2> QED BY <2>1 DEF PermitsConserved
<1> QED BY <1>1, <1>2

\* Starting an ended region takes one permit that was free.
LEMMA AcquirePermits ==
  ASSUME NEW t, t \notin open, sem \in Int, IsFiniteSet(open),
         PermitsConserved, Acquire(t), Concurrency \in Nat
  PROVE  IsFiniteSet(open') /\ PermitsConserved' /\ sem' \in Int
<1>1. open' = open \cup {t} /\ sem' = sem - 1 /\ sem > 0
  BY DEF Acquire
<1>2. /\ IsFiniteSet(open')
      /\ Cardinality(open') = Cardinality(open) + 1
  BY <1>1, FS_AddElement
<1>3. Cardinality(open) \in Nat
  BY FS_CardinalityType
<1> QED BY <1>1, <1>2, <1>3 DEF PermitsConserved

\* Only a manifest has items.
LEMMA ItemsManifest == \A n \in Nodes : Items(n) # {} => IsManifest(n)
<1> SUFFICES ASSUME NEW n \in Nodes, ~IsManifest(n)
             PROVE  Items(n) = {}
  OBVIOUS
<1>1. Kind[n] \in {"foreign", "blob"}
  BY ContentAssumption DEF IsManifest, Kinds
<1>2. Successors(n) = <<>>
  BY <1>1 DEF Successors
<1>3. Listed(n) = <<>>
  BY <1>2, CopyAssumption DEF Listed
<1> QED BY <1>3 DEF Items
------------------------------------------------------------------------------
\* syncutil.Go starts the region of a new task, which was not started before.
LEMMA SpawnStep ==
  ASSUME IInv, NEW c \in Callers, Spawn(c)
  PROVE  IInv'
<1> USE CopyAssumption, DescType, TaskPair, CopiedType DEF IInv
<1>1. PICK i \in Items(c) :
        /\ task[<<c, i>>] = "none"
        /\ Acquire(<<c, i>>)
        /\ task' = [task EXCEPT ![<<c, i>>] = "ready"]
  BY DEF Spawn
<1>2. <<c, i>> \in Tasks /\ <<c, i>> \notin open
  BY <1>1 DEF RegionInv
<1>3. UNCHANGED <<mode, dst, tagged, cache, fetches, stage, owner, call, cancelled,
                  faulted>>
  BY DEF Spawn
<1>4. RegionInv' /\ sem' \in Int
  <2>1. IsFiniteSet(open') /\ PermitsConserved' /\ sem' \in Int
    BY <1>1, <1>2, AcquirePermits DEF TypeOK, RegionInv
  <2> QED BY <1>1, <1>2, <1>3, <2>1 DEF TypeOK, RegionInv, Acquire
<1>5. TypeOK'
  BY <1>1, <1>2, <1>3, <1>4 DEF TypeOK, Acquire
<1>6. (DstClosed /\ (tagged => Roots \subseteq dst) /\ FetchInv)'
  BY <1>3 DEF DstClosed, Closed, FetchInv
<1>7. StageInv'
  <2>1. \A m \in Nodes : task[owner[m]] = "running" => task'[owner[m]] = "running"
    BY <1>1, <1>2 DEF TypeOK
  <2> QED BY <1>3, <2>1 DEF TypeOK, StageInv
<1>8. TaskInv'
  BY <1>1, <1>2, <1>3 DEF TypeOK, TaskInv
<1> QED BY <1>4, <1>5, <1>6, <1>7, <1>8

\* A failing region.Start makes syncutil.Go return an error.
LEMMA StartFailsStep ==
  ASSUME IInv, NEW c \in Callers, StartFails(c)
  PROVE  IInv'
<1> USE CopyAssumption, DescType, TaskPair, CopiedType DEF IInv
<1>1. TypeOK'
  BY DEF TypeOK, Stages, StageInv, StartFails
<1>2. (DstClosed /\ (tagged => Roots \subseteq dst) /\ RegionInv /\ FetchInv)'
  BY DEF TypeOK, DstClosed, Closed, RegionInv, PermitsConserved, FetchInv,
     StartFails
<1>3. (StageInv /\ TaskInv)'
  BY DEF TypeOK, StageInv, TaskInv, StartFails
<1> QED BY <1>1, <1>2, <1>3

\* eg.Wait returns nil only when every task of the call did.
LEMMA WaitReturnsStep ==
  ASSUME IInv, NEW c \in Callers, WaitReturns(c)
  PROVE  IInv'
<1> USE CopyAssumption, DescType, TaskPair, CopiedType DEF IInv
<1>1. TypeOK'
  BY DEF TypeOK, Stages, StageInv, WaitReturns
<1>2. (DstClosed /\ (tagged => Roots \subseteq dst) /\ RegionInv /\ FetchInv)'
  BY DEF TypeOK, DstClosed, Closed, RegionInv, PermitsConserved, FetchInv,
     WaitReturns
<1>3. (StageInv /\ TaskInv)'
  BY DEF TypeOK, StageInv, TaskInv, WaitReturns
<1> QED BY <1>1, <1>2, <1>3

\* The errgroup cancels its context after a task failed.
LEMMA GroupCancelStep ==
  ASSUME IInv, NEW t \in Tasks, GroupCancel(t)
  PROVE  IInv'
<1> USE CopyAssumption, DescType, TaskPair, CopiedType DEF IInv
<1>1. TypeOK'
  BY DEF TypeOK, Stages, StageInv, GroupCancel
<1>2. (DstClosed /\ (tagged => Roots \subseteq dst) /\ RegionInv /\ FetchInv)'
  BY DEF TypeOK, DstClosed, Closed, RegionInv, PermitsConserved, FetchInv,
     GroupCancel
<1>3. (StageInv /\ TaskInv)'
  BY DEF TypeOK, StageInv, TaskInv, GroupCancel
<1> QED BY <1>1, <1>2, <1>3

\* Cancelling a context disturbs no fact about content or permits.
LEMMA PropagateStep ==
  ASSUME IInv, NEW n \in Nodes, Propagate(n)
  PROVE  IInv'
<1> USE CopyAssumption, DescType, TaskPair, CopiedType DEF IInv
<1>1. TypeOK'
  BY DEF TypeOK, Stages, StageInv, Propagate, Callers
<1>2. (DstClosed /\ (tagged => Roots \subseteq dst) /\ RegionInv /\ FetchInv)'
  BY DEF TypeOK, DstClosed, Closed, RegionInv, PermitsConserved, FetchInv,
     Propagate, Callers
<1>3. (StageInv /\ TaskInv)'
  BY DEF TypeOK, StageInv, TaskInv, Propagate, Callers
<1> QED BY <1>1, <1>2, <1>3

\* One task commits a node; the others end their region and return nil.
LEMMA TryCommitStep ==
  ASSUME IInv, NEW t \in Tasks, TryCommit(t)
  PROVE  IInv'
<1> USE CopyAssumption, DescType, TaskPair, CopiedType DEF IInv
<1>1. (TypeOK!1 /\ TypeOK!3 /\ TypeOK!4 /\ TypeOK!5 /\ TypeOK!6)'
  BY DEF TypeOK, StageInv, Stages, TryCommit, EndRegion
<1>2. (TypeOK!7 /\ TypeOK!8 /\ TypeOK!9 /\ TypeOK!10)'
  BY DEF TypeOK, StageInv, TryCommit, EndRegion
<1>3. (TypeOK!2 /\ TypeOK!12 /\ TypeOK!13)'
  BY DEF TypeOK, TryCommit, EndRegion
<1>4. DstClosed' /\ (tagged => Roots \subseteq dst)'
  BY DEF TypeOK, StageInv, DstClosed, Closed, Roots, TryCommit, EndRegion
<1>5. StageInv'
  BY DEF TypeOK, StageInv, TaskInv, Stages, TryCommit, EndRegion
<1>6. TaskInv'
  BY DEF TypeOK, StageInv, TaskInv, TryCommit, EndRegion
<1>7. RegionInv' /\ sem' \in Int
  BY EndRegionPermits, AcquirePermits DEF TypeOK, StageInv, RegionInv,
     PermitsConserved, TryCommit, EndRegion
<1>8. FetchInv'
  BY DEF TypeOK, StageInv, FetchInv, TryCommit, EndRegion
<1> QED
  BY <1>1, <1>2, <1>3, <1>4, <1>5, <1>6, <1>7, <1>8 DEF TypeOK

\* dst.Exists sends fn to the skip, to the traversal or to an error.
LEMMA CheckExistsStep ==
  ASSUME IInv, NEW n \in Nodes, CheckExists(n)
  PROVE  IInv'
<1> USE CopyAssumption, DescType, TaskPair, CopiedType DEF IInv
<1>1. (TypeOK!1 /\ TypeOK!3 /\ TypeOK!4 /\ TypeOK!5 /\ TypeOK!6)'
  BY DEF TypeOK, StageInv, Stages, CheckExists, Goto, Fault, Fail, EndRegion
<1>2. (TypeOK!7 /\ TypeOK!8 /\ TypeOK!9 /\ TypeOK!10)'
  BY DEF TypeOK, StageInv, CheckExists, Goto, Fault, Fail, EndRegion
<1>3. (TypeOK!2 /\ TypeOK!12 /\ TypeOK!13)'
  BY DEF TypeOK, CheckExists, Goto, Fault, Fail, EndRegion
<1>4. DstClosed' /\ (tagged => Roots \subseteq dst)'
  BY DEF TypeOK, StageInv, DstClosed, Closed, Roots, CheckExists, Goto, Fault,
     Fail, EndRegion
<1>5. StageInv'
  BY DEF TypeOK, StageInv, TaskInv, Stages, CheckExists, Goto, Fault, Fail,
     EndRegion
<1>6. TaskInv'
  BY DEF TypeOK, StageInv, TaskInv, CheckExists, Goto, Fault, Fail, EndRegion
<1>7. RegionInv' /\ sem' \in Int
  BY EndRegionPermits, AcquirePermits DEF TypeOK, StageInv, RegionInv,
     PermitsConserved, CheckExists, Goto, Fault, Fail, EndRegion
<1>8. FetchInv'
  BY DEF TypeOK, StageInv, FetchInv, CheckExists, Goto, Fault, Fail, EndRegion
<1> QED
  BY <1>1, <1>2, <1>3, <1>4, <1>5, <1>6, <1>7, <1>8 DEF TypeOK

\* A skipped root is tagged: it is in the destination.
LEMMA OnCopySkippedStep ==
  ASSUME IInv, NEW n \in Nodes, OnCopySkipped(n)
  PROVE  IInv'
<1> USE CopyAssumption, DescType, TaskPair, CopiedType DEF IInv
<1>1. (TypeOK!1 /\ TypeOK!3 /\ TypeOK!4 /\ TypeOK!5 /\ TypeOK!6)'
  BY DEF TypeOK, StageInv, Stages, OnCopySkipped, Return, Fault, Fail,
     EndRegion
<1>2. (TypeOK!7 /\ TypeOK!8 /\ TypeOK!9 /\ TypeOK!10)'
  BY DEF TypeOK, StageInv, OnCopySkipped, Return, Fault, Fail, EndRegion
<1>3. (TypeOK!2 /\ TypeOK!12 /\ TypeOK!13)'
  BY DEF TypeOK, OnCopySkipped, Return, Fault, Fail, EndRegion
<1>4. DstClosed' /\ (tagged => Roots \subseteq dst)'
  BY DEF TypeOK, StageInv, DstClosed, Closed, Roots, OnCopySkipped, Return,
     Fault, Fail, EndRegion
<1>5. StageInv'
  BY DEF TypeOK, StageInv, TaskInv, Stages, OnCopySkipped, Return, Fault,
     Fail, EndRegion
<1>6. TaskInv'
  BY DEF TypeOK, StageInv, TaskInv, OnCopySkipped, Return, Fault, Fail,
     EndRegion
<1>7. RegionInv' /\ sem' \in Int
  BY EndRegionPermits, AcquirePermits DEF TypeOK, StageInv, RegionInv,
     PermitsConserved, OnCopySkipped, Return, Fault, Fail, EndRegion
<1>8. FetchInv'
  BY DEF TypeOK, StageInv, FetchInv, OnCopySkipped, Return, Fault, Fail,
     EndRegion
<1> QED
  BY <1>1, <1>2, <1>3, <1>4, <1>5, <1>6, <1>7, <1>8 DEF TypeOK

\* fn ends its region before it calls syncutil.Go on the successors.
LEMMA FindSuccessorsStep ==
  ASSUME IInv, NEW n \in Nodes, FindSuccessors(n)
  PROVE  IInv'
<1> USE CopyAssumption, DescType, TaskPair, CopiedType DEF IInv
<1>1. (TypeOK!1 /\ TypeOK!3 /\ TypeOK!4 /\ TypeOK!5 /\ TypeOK!6)'
  BY DEF TypeOK, StageInv, Stages, FindSuccessors, Goto, Fault, Fail,
     EndRegion, Callers
<1>2. (TypeOK!7 /\ TypeOK!8 /\ TypeOK!9 /\ TypeOK!10)'
  BY DEF TypeOK, StageInv, FindSuccessors, Goto, Fault, Fail, EndRegion,
     Callers
<1>3. (TypeOK!2 /\ TypeOK!12 /\ TypeOK!13)'
  BY DEF TypeOK, FindSuccessors, Goto, Fault, Fail, EndRegion, Callers
<1>4. DstClosed' /\ (tagged => Roots \subseteq dst)'
  BY DEF TypeOK, StageInv, DstClosed, Closed, Roots, FindSuccessors, Goto,
     Fault, Fail, EndRegion, Callers
<1>0. Items(n) = {} => Copied(n) = {}
  BY DEF Copied
<1>5. StageInv'
  BY <1>0 DEF TypeOK, StageInv, TaskInv, Stages, FindSuccessors, Goto, Fault,
     Fail, EndRegion, Callers
<1>6. TaskInv'
  BY DEF TypeOK, StageInv, TaskInv, FindSuccessors, Goto, Fault, Fail,
     EndRegion, Callers
<1>7. RegionInv' /\ sem' \in Int
  BY EndRegionPermits, AcquirePermits DEF TypeOK, StageInv, RegionInv,
     PermitsConserved, FindSuccessors, Goto, Fault, Fail, EndRegion, Callers
<1>8. FetchInv'
  BY ItemsManifest DEF TypeOK, StageInv, FetchInv, FindSuccessors, Goto,
     Fault, Fail, EndRegion, Callers
<1> QED
  BY <1>1, <1>2, <1>3, <1>4, <1>5, <1>6, <1>7, <1>8 DEF TypeOK

\* fn goes on to wait only after a call that returned nil.
LEMMA AfterGoStep ==
  ASSUME IInv, NEW n \in Nodes, AfterGo(n)
  PROVE  IInv'
<1> USE CopyAssumption, DescType, TaskPair, CopiedType DEF IInv
<1>1. (TypeOK!1 /\ TypeOK!3 /\ TypeOK!4 /\ TypeOK!5 /\ TypeOK!6)'
  BY DEF TypeOK, StageInv, Stages, AfterGo, Goto, Fail, EndRegion
<1>2. (TypeOK!7 /\ TypeOK!8 /\ TypeOK!9 /\ TypeOK!10)'
  BY DEF TypeOK, StageInv, AfterGo, Goto, Fail, EndRegion
<1>3. (TypeOK!2 /\ TypeOK!12 /\ TypeOK!13)'
  BY DEF TypeOK, AfterGo, Goto, Fail, EndRegion
<1>4. DstClosed' /\ (tagged => Roots \subseteq dst)'
  BY DEF TypeOK, StageInv, DstClosed, Closed, Roots, AfterGo, Goto, Fail,
     EndRegion
<1>5. StageInv'
  BY DEF TypeOK, StageInv, TaskInv, Stages, AfterGo, Goto, Fail, EndRegion
<1>6. TaskInv'
  BY DEF TypeOK, StageInv, TaskInv, AfterGo, Goto, Fail, EndRegion
<1>7. RegionInv' /\ sem' \in Int
  BY EndRegionPermits, AcquirePermits DEF TypeOK, StageInv, RegionInv,
     PermitsConserved, AfterGo, Goto, Fail, EndRegion
<1>8. FetchInv'
  BY DEF TypeOK, StageInv, FetchInv, AfterGo, Goto, Fail, EndRegion
<1> QED
  BY <1>1, <1>2, <1>3, <1>4, <1>5, <1>6, <1>7, <1>8 DEF TypeOK

\* fn passes the wait with every successor done, so copied.
LEMMA AwaitSuccessorsStep ==
  ASSUME IInv, NEW n \in Nodes, AwaitSuccessors(n)
  PROVE  IInv'
<1> USE CopyAssumption, DescType, TaskPair, CopiedType DEF IInv
<1>1. (TypeOK!1 /\ TypeOK!3 /\ TypeOK!4 /\ TypeOK!5 /\ TypeOK!6)'
  BY DEF TypeOK, StageInv, Stages, AwaitSuccessors, Goto, Fail, EndRegion
<1>2. (TypeOK!7 /\ TypeOK!8 /\ TypeOK!9 /\ TypeOK!10)'
  BY DEF TypeOK, StageInv, AwaitSuccessors, Goto, Fail, EndRegion
<1>3. (TypeOK!2 /\ TypeOK!12 /\ TypeOK!13)'
  BY DEF TypeOK, AwaitSuccessors, Goto, Fail, EndRegion
<1>4. DstClosed' /\ (tagged => Roots \subseteq dst)'
  BY DEF TypeOK, StageInv, DstClosed, Closed, Roots, AwaitSuccessors, Goto,
     Fail, EndRegion
<1>5. StageInv'
  BY DEF TypeOK, StageInv, TaskInv, Stages, AwaitSuccessors, Goto, Fail,
     EndRegion
<1>6. TaskInv'
  BY DEF TypeOK, StageInv, TaskInv, AwaitSuccessors, Goto, Fail, EndRegion
<1>7. RegionInv' /\ sem' \in Int
  BY EndRegionPermits, AcquirePermits DEF TypeOK, StageInv, RegionInv,
     PermitsConserved, AwaitSuccessors, Goto, Fail, EndRegion
<1>8. FetchInv'
  BY DEF TypeOK, StageInv, FetchInv, AwaitSuccessors, Goto, Fail, EndRegion
<1> QED
  BY <1>1, <1>2, <1>3, <1>4, <1>5, <1>6, <1>7, <1>8 DEF TypeOK

\* fn takes a permit again; its region was ended before the call.
LEMMA RestartRegionStep ==
  ASSUME IInv, NEW n \in Nodes, RestartRegion(n)
  PROVE  IInv'
<1> USE CopyAssumption, DescType, TaskPair, CopiedType DEF IInv
<1>1. (TypeOK!1 /\ TypeOK!3 /\ TypeOK!4 /\ TypeOK!5 /\ TypeOK!6)'
  BY DEF TypeOK, StageInv, Stages, RestartRegion, Acquire, Fail, EndRegion
<1>2. (TypeOK!7 /\ TypeOK!8 /\ TypeOK!9 /\ TypeOK!10)'
  BY DEF TypeOK, StageInv, RestartRegion, Acquire, Fail, EndRegion
<1>3. (TypeOK!2 /\ TypeOK!12 /\ TypeOK!13)'
  BY DEF TypeOK, RestartRegion, Acquire, Fail, EndRegion
<1>4. DstClosed' /\ (tagged => Roots \subseteq dst)'
  BY DEF TypeOK, StageInv, DstClosed, Closed, Roots, RestartRegion, Acquire,
     Fail, EndRegion
<1>5. StageInv'
  BY DEF TypeOK, StageInv, TaskInv, Stages, RestartRegion, Acquire, Fail,
     EndRegion
<1>6. TaskInv'
  BY DEF TypeOK, StageInv, TaskInv, RestartRegion, Acquire, Fail, EndRegion
<1>7. RegionInv' /\ sem' \in Int
  BY EndRegionPermits, AcquirePermits DEF TypeOK, StageInv, RegionInv,
     PermitsConserved, RestartRegion, Acquire, Fail, EndRegion
<1>8. FetchInv'
  BY DEF TypeOK, StageInv, FetchInv, RestartRegion, Acquire, Fail, EndRegion
<1> QED
  BY <1>1, <1>2, <1>3, <1>4, <1>5, <1>6, <1>7, <1>8 DEF TypeOK

\* The push happens with every successor in the destination.
LEMMA CopyNodeStep ==
  ASSUME IInv, NEW n \in Nodes, CopyNode(n)
  PROVE  IInv'
<1> USE CopyAssumption, DescType, TaskPair, CopiedType DEF IInv
<1>1. (TypeOK!1 /\ TypeOK!3 /\ TypeOK!4 /\ TypeOK!5 /\ TypeOK!6)'
  BY DEF TypeOK, StageInv, Stages, CopyNode, Goto, Return, Fault, Fail,
     EndRegion
<1>2. (TypeOK!7 /\ TypeOK!8 /\ TypeOK!9 /\ TypeOK!10)'
  BY DEF TypeOK, StageInv, CopyNode, Goto, Return, Fault, Fail, EndRegion
<1>3. (TypeOK!2 /\ TypeOK!12 /\ TypeOK!13)'
  BY DEF TypeOK, CopyNode, Goto, Return, Fault, Fail, EndRegion
<1>4. DstClosed' /\ (tagged => Roots \subseteq dst)'
  BY DEF TypeOK, StageInv, DstClosed, Closed, Roots, CopyNode, Goto, Return,
     Fault, Fail, EndRegion
<1>5. StageInv'
  BY DEF TypeOK, StageInv, TaskInv, Stages, CopyNode, Goto, Return, Fault,
     Fail, EndRegion
<1>6. TaskInv'
  BY DEF TypeOK, StageInv, TaskInv, CopyNode, Goto, Return, Fault, Fail,
     EndRegion
<1>7. RegionInv' /\ sem' \in Int
  BY EndRegionPermits, AcquirePermits DEF TypeOK, StageInv, RegionInv,
     PermitsConserved, CopyNode, Goto, Return, Fault, Fail, EndRegion
<1>8. FetchInv'
  BY DEF TypeOK, StageInv, FetchInv, CopyNode, Goto, Return, Fault, Fail,
     EndRegion
<1> QED
  BY <1>1, <1>2, <1>3, <1>4, <1>5, <1>6, <1>7, <1>8 DEF TypeOK

\* The root is tagged after it was pushed.
LEMMA PostCopyStep ==
  ASSUME IInv, NEW n \in Nodes, PostCopy(n)
  PROVE  IInv'
<1> USE CopyAssumption, DescType, TaskPair, CopiedType DEF IInv
<1>1. (TypeOK!1 /\ TypeOK!3 /\ TypeOK!4 /\ TypeOK!5 /\ TypeOK!6)'
  BY DEF TypeOK, StageInv, Stages, PostCopy, Return, Fault, Fail, EndRegion
<1>2. (TypeOK!7 /\ TypeOK!8 /\ TypeOK!9 /\ TypeOK!10)'
  BY DEF TypeOK, StageInv, PostCopy, Return, Fault, Fail, EndRegion
<1>3. (TypeOK!2 /\ TypeOK!12 /\ TypeOK!13)'
  BY DEF TypeOK, PostCopy, Return, Fault, Fail, EndRegion
<1>4. DstClosed' /\ (tagged => Roots \subseteq dst)'
  BY DEF TypeOK, StageInv, DstClosed, Closed, Roots, PostCopy, Return, Fault,
     Fail, EndRegion
<1>5. StageInv'
  BY DEF TypeOK, StageInv, TaskInv, Stages, PostCopy, Return, Fault, Fail,
     EndRegion
<1>6. TaskInv'
  BY DEF TypeOK, StageInv, TaskInv, PostCopy, Return, Fault, Fail, EndRegion
<1>7. RegionInv' /\ sem' \in Int
  BY EndRegionPermits, AcquirePermits DEF TypeOK, StageInv, RegionInv,
     PermitsConserved, PostCopy, Return, Fault, Fail, EndRegion
<1>8. FetchInv'
  BY DEF TypeOK, StageInv, FetchInv, PostCopy, Return, Fault, Fail, EndRegion
<1> QED
  BY <1>1, <1>2, <1>3, <1>4, <1>5, <1>6, <1>7, <1>8 DEF TypeOK

\* Other clients keep the destination closed.
LEMMA OtherPushStep ==
  ASSUME IInv, NEW n \in Nodes, OtherPush(n)
  PROVE  IInv'
<1> USE CopyAssumption, DescType, TaskPair, CopiedType DEF IInv
<1>1. TypeOK'
  BY DEF TypeOK, Stages, StageInv, OtherPush
<1>2. (DstClosed /\ (tagged => Roots \subseteq dst) /\ RegionInv /\ FetchInv)'
  BY DEF TypeOK, DstClosed, Closed, RegionInv, PermitsConserved, FetchInv,
     OtherPush
<1>3. (StageInv /\ TaskInv)'
  BY DEF TypeOK, StageInv, TaskInv, OtherPush
<1> QED BY <1>1, <1>2, <1>3

\* Cancelling from outside disturbs no fact about content or permits.
LEMMA CallerCancelsStep ==
  ASSUME IInv, NEW e \in Entries, CallerCancels(e)
  PROVE  IInv'
<1> USE CopyAssumption, DescType, TaskPair, CopiedType DEF IInv
<1>1. TypeOK'
  BY DEF TypeOK, Stages, StageInv, CallerCancels, Callers
<1>2. (DstClosed /\ (tagged => Roots \subseteq dst) /\ RegionInv /\ FetchInv)'
  BY DEF TypeOK, DstClosed, Closed, RegionInv, PermitsConserved, FetchInv,
     CallerCancels, Callers
<1>3. (StageInv /\ TaskInv)'
  BY DEF TypeOK, StageInv, TaskInv, CallerCancels, Callers
<1> QED BY <1>1, <1>2, <1>3

------------------------------------------------------------------------------
\* The invariant holds of every reachable state.
THEOREM Invariance == Spec => []IInv
<1> USE CopyAssumption, DescType, TaskPair, CopiedType
<1>1. Init => IInv
  <2> SUFFICES ASSUME Init PROVE IInv
    OBVIOUS
  <2>1. TypeOK
    <3>1. cache \subseteq Nodes
      BY DEF Init, InitState, Roots
    <3>2. TypeOK!4 /\ TypeOK!5 /\ TypeOK!6 /\ TypeOK!7 /\ TypeOK!8
      BY DEF Init, InitState, Stages
    <3>3. TypeOK!9 /\ TypeOK!10 /\ TypeOK!11
      BY DEF Init, InitState
    <3> QED BY <3>1, <3>2, <3>3 DEF Init, InitState, TypeOK
  <2>2. RegionInv
    BY FS_EmptySet DEF Init, InitState, RegionInv, PermitsConserved
  <2>3. StageInv /\ TaskInv /\ FetchInv
    BY DEF Init, InitState, StageInv, TaskInv, FetchInv
  <2> QED BY <2>1, <2>2, <2>3 DEF Init, InitState, IInv, DstClosed
<1>2. IInv /\ [Next]_vars => IInv'
  <2> SUFFICES ASSUME IInv, [Next]_vars PROVE IInv'
    OBVIOUS
  <2>1. CASE \E c \in Callers : GoStep(c)
    BY <2>1, SpawnStep, StartFailsStep, WaitReturnsStep DEF GoStep
  <2>2. CASE \E t \in Tasks : TryCommit(t) \/ GroupCancel(t)
    BY <2>2, TryCommitStep, GroupCancelStep
  <2>3. CASE \E n \in Nodes : NodeStep(n)
    BY <2>3, CheckExistsStep, OnCopySkippedStep, FindSuccessorsStep,
       AfterGoStep, AwaitSuccessorsStep, RestartRegionStep, CopyNodeStep,
       PostCopyStep DEF NodeStep
  <2>4. CASE \E n \in Nodes : Propagate(n) \/ OtherPush(n)
    BY <2>4, PropagateStep, OtherPushStep
  <2>5. CASE \E e \in Entries : CallerCancels(e)
    BY <2>5, CallerCancelsStep
  <2>6. CASE UNCHANGED vars
    <3> USE <2>6 DEF vars, IInv
    <3>1. TypeOK' /\ (DstClosed /\ (tagged => Roots \subseteq dst))'
      BY DEF TypeOK, DstClosed, Closed
    <3>2. (StageInv /\ TaskInv)'
      BY DEF StageInv, TaskInv
    <3>3. (RegionInv /\ FetchInv)'
      BY DEF RegionInv, PermitsConserved, FetchInv
    <3> QED BY <3>1, <3>2, <3>3
  <2> QED BY <2>1, <2>2, <2>3, <2>4, <2>5, <2>6 DEF Next
<1> QED BY <1>1, <1>2, PTL DEF Spec

\* Every variable of the copy keeps its type.
THEOREM TypeCorrect == Spec => []TypeOK
<1>1. IInv => TypeOK
  BY DEF IInv
<1> QED BY <1>1, Invariance, PTL

\* The destination is closed under successors in every reachable state of a
\* copy, for every DAG: fn never pushes a node before its successors.
THEOREM DstAlwaysClosed == Spec => []DstClosed
<1>1. IInv => DstClosed
  BY DEF IInv
<1> QED BY <1>1, Invariance, PTL

\* A tagged root has its whole sub-DAG in the destination.
THEOREM TagAfterContent == Spec => []TaggedComplete
<1>1. IInv => TaggedComplete
  <2> SUFFICES ASSUME IInv, tagged, NEW r \in Roots, NEW m \in SubDAG(r)
               PROVE  m \in dst
    BY DEF TaggedComplete
  <2>1. r \in dst /\ dst \in SUBSET Nodes /\ Closed(dst)
    BY DEF IInv, TypeOK, DstClosed
  <2> QED BY <2>1 DEF SubDAG
<1> QED BY <1>1, Invariance, PTL

\* The error "successor not committed" of copy.go is unreachable.
THEOREM NoUncommittedSuccessor == Spec => []SuccessorsCommitted
<1>1. IInv => SuccessorsCommitted
  <2> SUFFICES ASSUME IInv, NEW n \in Nodes, stage[n] = "await",
                      NEW i \in Items(n)
               PROVE  stage[Desc(<<n, i>>)] # "new"
    BY DEF SuccessorsCommitted, Copied
  <2>1. n \in Callers /\ <<n, i>> \in Tasks
    BY TaskPair DEF Callers
  <2>2. task[<<n, i>>] = "ok"
    BY <2>1 DEF IInv, StageInv, TaskInv
  <2> QED BY <2>1, <2>2 DEF IInv, TaskInv
<1> QED BY <1>1, Invariance, PTL

\* No permit of the semaphore is lost or released twice.
THEOREM PermitsBalanced == Spec => []PermitsConserved
<1>1. IInv => PermitsConserved
  BY DEF IInv, RegionInv
<1> QED BY <1>1, Invariance, PTL

\* The source serves each node at most once.
THEOREM FetchedOnce == Spec => []FetchOnce
<1>1. IInv => FetchOnce
  BY DEF IInv, FetchInv, FetchOnce
<1> QED BY <1>1, Invariance, PTL
==============================================================================
