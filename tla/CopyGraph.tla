------------------------------ MODULE CopyGraph ------------------------------
(***************************************************************************)
(* oras.Copy and oras.CopyGraph: the concurrent traversal that copies a    *)
(* DAG from a source to a destination (copy.go), on top of syncutil.Go     *)
(* (an errgroup whose goroutines hold a permit of a shared semaphore) and  *)
(* of status.Tracker (one done channel for each descriptor).               *)
(*                                                                         *)
(* A call of syncutil.Go is named by its caller: an entry call of          *)
(* copyGraph, whose only item is the root, or the node whose successors it *)
(* traverses (only the goroutine that committed a node traverses it, so a  *)
(* node makes at most one call).  A task <<c, i>> is the goroutine of call *)
(* c for its i-th item.                                                    *)
(***************************************************************************)
EXTENDS Content, Integers, FiniteSets

CONSTANTS
    Entries,      \* calls of copyGraph that share limiter, tracker and proxy
    Root,         \* Root[e]: the root node of entry e
    Concurrency,  \* weight of the semaphore
    Modes,        \* the modes to try: "graph": CopyGraph, no hooks; "tag": Copy
                  \* to a target with Tag; "pushref": Copy to a
                  \* registry.ReferencePusher
    Skippable,    \* nodes that the caller's PreCopy may provide by itself,
                  \* answering SkipNode
    Others,       \* nodes that other clients of the destination may push
    NoTask

Callers == Nodes \cup Entries

(***************************************************************************)
(* The items of a call: removeForeignLayers drops the foreign layers among *)
(* the successors of a node; the root is taken as it is.                   *)
(***************************************************************************)
Listed(c) == IF c \in Entries THEN <<Root[c]>> ELSE Successors(c)
Items(c) == {i \in DOMAIN Listed(c) :
                c \in Entries \/ ~IsForeignLayer(Listed(c)[i])}
Tasks == UNION {{c} \X Items(c) : c \in Callers}
Desc(t) == Listed(t[1])[t[2]]
Copied(n) == {Desc(<<n, i>>) : i \in Items(n)}
Roots == {Root[e] : e \in Entries}

ASSUME CopyAssumption ==
    /\ Entries \cap Nodes = {}
    /\ Root \in [Entries -> Nodes]
    /\ Concurrency \in Nat \ {0}
    /\ Modes \subseteq {"graph", "tag", "pushref"}
    /\ Modes # {"graph"} => \A d, e \in Entries : d = e
    /\ Skippable \subseteq Nodes
    /\ Others \subseteq Nodes
    /\ NoTask \notin Tasks

VARIABLES
    mode,       \* what is called, and on which kind of destination
    dst,        \* content of the destination
    tagged,     \* the destination reference resolves to the root
    cache,      \* content of proxy.Cache
    fetches,    \* fetches[n]: Fetch calls for n the source has seen
    stage,      \* stage[n]: where fn stands for n; "new": not committed
    owner,      \* owner[n]: the task that committed n in the tracker
    task,       \* task[t]: state of a goroutine
    call,       \* call[c]: state of a call of syncutil.Go
    cancelled,  \* cancelled[c]: the errgroup context of call c is done
    open,       \* tasks whose LimitedRegion is started
    sem,        \* free permits of the semaphore
    faulted     \* history: an operation failed or the caller cancelled

vars == <<mode, dst, tagged, cache, fetches, stage, owner, task, call, cancelled,
          open, sem, faulted>>

Stages == {"new", "exists", "skipped", "find", "go", "await", "restart",
           "copy", "post", "done", "failed"}

TypeOK ==
    /\ dst \subseteq Nodes
    /\ tagged \in BOOLEAN
    /\ cache \subseteq Nodes
    /\ fetches \in [Nodes -> Nat]
    /\ stage \in [Nodes -> Stages]
    /\ owner \in [Nodes -> Tasks \cup {NoTask}]
    /\ task \in [Tasks -> {"none", "ready", "running", "failing", "ok", "err"}]
    /\ call \in [Callers -> {"idle", "spawn", "ok", "err"}]
    /\ cancelled \in [Callers -> BOOLEAN]
    /\ open \subseteq Tasks
    /\ sem \in Int
    /\ faulted \in BOOLEAN
    /\ mode \in Modes

\* A set of nodes with every non-foreign successor of its members.
Closed(S) == \A n \in S : Copied(n) \subseteq S

\* The nodes of the DAG rooted by n, foreign layers left out.
SubDAG(n) == {m \in Nodes : \A S \in SUBSET Nodes :
                                (n \in S /\ Closed(S)) => m \in S}

(***************************************************************************)
(* The destination starts with any closed set: the code takes the presence *)
(* of a node for the presence of its whole sub-DAG.  resolveRoot may have  *)
(* cached the root (one fetch of the source).                              *)
(***************************************************************************)
InitState ==
    /\ mode \in Modes
    /\ dst \in {S \in SUBSET Nodes : Closed(S)}
    /\ tagged = FALSE
    /\ cache \in IF mode = "graph" THEN {{}}
                 ELSE {{}, {r \in Roots : IsManifest(r)}}
    /\ fetches = [n \in Nodes |-> IF n \in cache THEN 1 ELSE 0]
    /\ stage = [n \in Nodes |-> "new"]
    /\ owner = [n \in Nodes |-> NoTask]
    /\ task = [t \in Tasks |-> "none"]
    /\ cancelled = [c \in Callers |-> FALSE]
    /\ open = {}
    /\ sem = Concurrency
    /\ faulted = FALSE

Init ==
    /\ InitState
    /\ call = [c \in Callers |-> IF c \in Entries THEN "spawn" ELSE "idle"]
------------------------------------------------------------------------------
(***************************************************************************)
(* LimitedRegion.  semaphore.Acquire of a done context fails; otherwise it *)
(* takes a permit when there is one.  End releases only a started region.  *)
(***************************************************************************)
Acquire(t) ==
    /\ sem > 0
    /\ sem' = sem - 1
    /\ open' = open \cup {t}

EndRegion(t) ==
    /\ sem' = IF t \in open THEN sem + 1 ELSE sem
    /\ open' = open \ {t}

(***************************************************************************)
(* fn returns: nil closes the done channel of the node; an error leaves it *)
(* open.  Both end the region (the deferred region.End of syncutil.Go).    *)
(***************************************************************************)
Return(n) ==
    /\ stage' = [stage EXCEPT ![n] = "done"]
    /\ task' = [task EXCEPT ![owner[n]] = "ok"]
    /\ EndRegion(owner[n])

Fail(n) ==
    /\ stage' = [stage EXCEPT ![n] = "failed"]
    /\ task' = [task EXCEPT ![owner[n]] = "failing"]
    /\ EndRegion(owner[n])

\* An operation of fn on n returns an error.
Fault(n) == Fail(n) /\ faulted' = TRUE

Goto(n, s) ==
    /\ stage' = [stage EXCEPT ![n] = s]
    /\ UNCHANGED <<mode, task, open, sem>>
------------------------------------------------------------------------------
(***************************************************************************)
(* syncutil.Go, the loop: one region.Start and one goroutine for each item *)
(* in order; a failing Start returns at once, without eg.Wait.             *)
(***************************************************************************)
Spawn(c) ==
    /\ call[c] = "spawn"
    /\ ~cancelled[c]
    /\ \E i \in Items(c) :
        /\ task[<<c, i>>] = "none"
        /\ \A j \in Items(c) : j < i => task[<<c, j>>] # "none"
        /\ Acquire(<<c, i>>)
        /\ task' = [task EXCEPT ![<<c, i>>] = "ready"]
    /\ UNCHANGED <<mode, dst, tagged, cache, fetches, stage, owner, call, cancelled,
                   faulted>>

StartFails(c) ==
    /\ call[c] = "spawn"
    /\ cancelled[c]
    /\ \E i \in Items(c) : task[<<c, i>>] = "none"
    /\ call' = [call EXCEPT ![c] = "err"]
    /\ UNCHANGED <<mode, dst, tagged, cache, fetches, stage, owner, task, cancelled,
                   open, sem, faulted>>

\* eg.Wait returns when every goroutine has, and cancels the context.
WaitReturns(c) ==
    /\ call[c] = "spawn"
    /\ \A i \in Items(c) : task[<<c, i>>] \in {"ok", "err"}
    /\ call' = [call EXCEPT ![c] =
                  IF \A i \in Items(c) : task[<<c, i>>] = "ok"
                  THEN "ok" ELSE "err"]
    /\ cancelled' = [cancelled EXCEPT ![c] = TRUE]
    /\ UNCHANGED <<mode, dst, tagged, cache, fetches, stage, owner, task, open, sem,
                   faulted>>

\* The errgroup cancels its context after the region of the task has ended.
GroupCancel(t) ==
    /\ task[t] = "failing"
    /\ task' = [task EXCEPT ![t] = "err"]
    /\ cancelled' = [cancelled EXCEPT ![t[1]] = TRUE]
    /\ UNCHANGED <<mode, dst, tagged, cache, fetches, stage, owner, call, open, sem,
                   faulted>>

\* A done context reaches the contexts derived from it.
Propagate(n) ==
    /\ call[n] = "spawn"
    /\ cancelled[owner[n][1]]
    /\ ~cancelled[n]
    /\ cancelled' = [cancelled EXCEPT ![n] = TRUE]
    /\ UNCHANGED <<mode, dst, tagged, cache, fetches, stage, owner, task, call, open,
                   sem, faulted>>
------------------------------------------------------------------------------
(***************************************************************************)
(* fn, the body of a task: tracker.TryCommit decides who works on the node *)
(* and everyone else returns nil.                                          *)
(***************************************************************************)
TryCommit(t) ==
    /\ task[t] = "ready"
    /\ LET n == Desc(t) IN
        \/ /\ stage[n] = "new"
           /\ stage' = [stage EXCEPT ![n] = "exists"]
           /\ owner' = [owner EXCEPT ![n] = t]
           /\ task' = [task EXCEPT ![t] = "running"]
           /\ UNCHANGED <<open, sem>>
        \/ /\ stage[n] # "new"
           /\ task' = [task EXCEPT ![t] = "ok"]
           /\ EndRegion(t)
           /\ UNCHANGED <<stage, owner>>
    /\ UNCHANGED <<mode, dst, tagged, cache, fetches, call, cancelled, faulted>>

\* Mutant: the answer of Exists is ignored.
CheckExistsAlways(n) ==
    /\ stage[n] = "exists"
    /\ Goto(n, "skipped")
    /\ UNCHANGED <<mode, dst, tagged, cache, fetches, owner, call, cancelled, faulted>>

CheckExists(n) ==
    /\ stage[n] = "exists"
    /\ \/ /\ n \in dst
          /\ Goto(n, "skipped")
          /\ UNCHANGED faulted
       \/ /\ n \notin dst
          /\ Goto(n, "find")
          /\ UNCHANGED faulted
       \/ Fault(n)
    /\ UNCHANGED <<mode, dst, tagged, cache, fetches, owner, call, cancelled>>

\* Mutant: a root that is skipped is not tagged.
OnCopySkippedUntagged(n) ==
    /\ stage[n] = "skipped"
    /\ Return(n)
    /\ UNCHANGED <<mode, dst, tagged, cache, fetches, owner, call, cancelled, faulted>>

(***************************************************************************)
(* opts.OnCopySkipped; prepareCopy makes it tag the root, with Tag or by   *)
(* pushing it again with the reference.                                    *)
(***************************************************************************)
OnCopySkipped(n) ==
    /\ stage[n] = "skipped"
    /\ fetches' = IF mode = "pushref" /\ n \in Roots \ cache
                  THEN [fetches EXCEPT ![n] = @ + 1] ELSE fetches
    /\ \/ /\ tagged' = (tagged \/ (mode # "graph" /\ n \in Roots))
          /\ \/ Return(n) /\ UNCHANGED faulted
             \/ Fault(n)
       \/ Fault(n) /\ UNCHANGED tagged
    /\ UNCHANGED <<mode, dst, cache, owner, call, cancelled>>

\* Mutant: the permit is kept while the successors are copied.
FindSuccessorsHolding(n) ==
    /\ stage[n] = "find"
    /\ \/ Items(n) = {} /\ Goto(n, "copy") /\ UNCHANGED <<call, cancelled>>
       \/ /\ Items(n) # {}
          /\ Goto(n, "go")
          /\ call' = [call EXCEPT ![n] = "spawn"]
          /\ cancelled' = [cancelled EXCEPT ![n] = cancelled[owner[n][1]]]
    /\ UNCHANGED <<mode, dst, tagged, cache, fetches, owner, faulted>>

(***************************************************************************)
(* opts.FindSuccessors fetches a manifest through the caching proxy.  With *)
(* successors left, the region is ended and syncutil.Go is called on them  *)
(* with a context derived from the one fn runs under.                      *)
(***************************************************************************)
FindSuccessors(n) ==
    /\ stage[n] = "find"
    /\ fetches' = IF IsManifest(n) /\ n \notin cache
                  THEN [fetches EXCEPT ![n] = @ + 1] ELSE fetches
    /\ \/ /\ Items(n) = {}
          /\ Goto(n, "copy")
          /\ UNCHANGED <<call, cancelled, faulted>>
          /\ cache' = IF IsManifest(n) THEN cache \cup {n} ELSE cache
       \/ /\ Items(n) # {}
          /\ stage' = [stage EXCEPT ![n] = "go"]
          /\ EndRegion(owner[n])
          /\ call' = [call EXCEPT ![n] = "spawn"]
          /\ cancelled' = [cancelled EXCEPT ![n] = cancelled[owner[n][1]]]
          /\ cache' = cache \cup {n}
          /\ UNCHANGED <<task, faulted>>
       \/ Fault(n) /\ UNCHANGED <<cache, call, cancelled>>
    /\ UNCHANGED <<mode, dst, tagged, owner>>

AfterGo(n) ==
    /\ stage[n] = "go"
    /\ \/ call[n] = "ok" /\ Goto(n, "await")
       \/ call[n] = "err" /\ Fail(n)
    /\ UNCHANGED <<mode, dst, tagged, cache, fetches, owner, call, cancelled, faulted>>

\* Mutants: the done channels are not awaited, or under the context of the group
\* that has just returned.
AwaitNothing(n) ==
    /\ stage[n] = "await"
    /\ Goto(n, "restart")
    /\ UNCHANGED <<mode, dst, tagged, cache, fetches, owner, call, cancelled, faulted>>

AwaitInGroup(n) ==
    /\ stage[n] = "await"
    /\ \/ (\A m \in Copied(n) : stage[m] = "done") /\ Goto(n, "restart")
       \/ cancelled[n] /\ Fail(n)
    /\ UNCHANGED <<mode, dst, tagged, cache, fetches, owner, call, cancelled, faulted>>

(***************************************************************************)
(* The loop over the successors' done channels.  Commitment and done are   *)
(* stable, so the loop is one step, taken once all the channels are closed *)
(* or the context of the enclosing call is done.  The branch that finds an *)
(* uncommitted successor is shown unreachable (SuccessorsCommitted).       *)
(***************************************************************************)
AwaitSuccessors(n) ==
    /\ stage[n] = "await"
    /\ \/ /\ \A m \in Copied(n) : stage[m] = "done"
          /\ Goto(n, "restart")
       \/ cancelled[owner[n][1]] /\ Fail(n)
    /\ UNCHANGED <<mode, dst, tagged, cache, fetches, owner, call, cancelled, faulted>>

\* region.Start, under the context of the enclosing call.
RestartRegion(n) ==
    /\ stage[n] = "restart"
    /\ \/ /\ ~cancelled[owner[n][1]]
          /\ Acquire(owner[n])
          /\ stage' = [stage EXCEPT ![n] = "copy"]
          /\ UNCHANGED task
       \/ cancelled[owner[n][1]] /\ Fail(n)
    /\ UNCHANGED <<mode, dst, tagged, cache, fetches, owner, call, cancelled, faulted>>

\* Mutant: the content is fetched from the source, not through the cache.
CopyNodeUncached(n) ==
    /\ stage[n] = "copy"
    /\ fetches' = [fetches EXCEPT ![n] = @ + 1]
    /\ dst' = dst \cup {n}
    /\ tagged' = (tagged \/ (mode = "pushref" /\ n \in Roots))
    /\ Goto(n, "post")
    /\ UNCHANGED <<mode, cache, owner, call, cancelled, faulted>>

(***************************************************************************)
(* copyNode (mounting from other repositories is left out): PreCopy,      *)
(* then Fetch from the cache or the source into Push, where "already       *)
(* exists" is success.  A caller's PreCopy that answers SkipNode has made  *)
(* the node exist in the destination.  In mode "pushref" the PreCopy hook  *)
(* pushes the root together with the reference.  A push that fails may     *)
(* have stored the content all the same (its answer was lost).             *)
(***************************************************************************)
CopyNode(n) ==
    /\ stage[n] = "copy"
    /\ \/ /\ n \in Skippable
          /\ dst' = dst \cup {n}
          /\ Return(n)
          /\ UNCHANGED <<tagged, fetches, faulted>>
       \/ /\ fetches' = IF n \in cache THEN fetches
                        ELSE [fetches EXCEPT ![n] = @ + 1]
          /\ \/ /\ dst' = dst \cup {n}
                /\ tagged' = (tagged \/ (mode = "pushref" /\ n \in Roots))
                /\ \/ Goto(n, "post") /\ UNCHANGED faulted
                   \/ Fault(n)
             \/ Fault(n) /\ UNCHANGED <<dst, tagged>>
       \/ Fault(n) /\ UNCHANGED <<dst, tagged, fetches>>
    /\ UNCHANGED <<mode, cache, owner, call, cancelled>>

\* opts.PostCopy; prepareCopy makes it tag the root first in mode "tag".
PostCopy(n) ==
    /\ stage[n] = "post"
    /\ \/ /\ tagged' = (tagged \/ (mode = "tag" /\ n \in Roots))
          /\ \/ Return(n) /\ UNCHANGED faulted
             \/ Fault(n)
       \/ Fault(n) /\ UNCHANGED tagged
    /\ UNCHANGED <<mode, dst, cache, fetches, owner, call, cancelled>>
------------------------------------------------------------------------------
\* The context given to copyGraph is cancelled.
CallerCancels(e) ==
    /\ call[e] = "spawn"
    /\ ~cancelled[e]
    /\ cancelled' = [cancelled EXCEPT ![e] = TRUE]
    /\ faulted' = TRUE
    /\ UNCHANGED <<mode, dst, tagged, cache, fetches, stage, owner, task, call, open,
                   sem>>

\* Another client pushes a node; it keeps the destination closed.
OtherPush(n) ==
    /\ n \in Others \ dst
    /\ Copied(n) \subseteq dst
    /\ dst' = dst \cup {n}
    /\ UNCHANGED <<mode, tagged, cache, fetches, stage, owner, task, call, cancelled,
                   open, sem, faulted>>

Quiescent ==
    /\ \A e \in Entries : call[e] \in {"ok", "err"}
    /\ \A t \in Tasks : task[t] \in {"none", "ok", "err"}

NodeStep(n) ==
    \/ CheckExists(n) \/ OnCopySkipped(n) \/ FindSuccessors(n) \/ AfterGo(n)
    \/ AwaitSuccessors(n) \/ RestartRegion(n) \/ CopyNode(n) \/ PostCopy(n)

GoStep(c) == Spawn(c) \/ StartFails(c) \/ WaitReturns(c)

Next ==
    \/ \E c \in Callers : GoStep(c)
    \/ \E t \in Tasks : TryCommit(t) \/ GroupCancel(t)
    \/ \E n \in Nodes : NodeStep(n) \/ Propagate(n) \/ OtherPush(n)
    \/ \E e \in Entries : CallerCancels(e)

(***************************************************************************)
(* Goroutines that can run do run, and calls to the storages return.       *)
(* Nothing is assumed of other clients or of the caller's context.         *)
(***************************************************************************)
Fairness ==
    /\ \A c \in Callers : WF_vars(GoStep(c))
    /\ \A t \in Tasks : WF_vars(TryCommit(t) \/ GroupCancel(t))
    /\ \A n \in Nodes : WF_vars(NodeStep(n)) /\ WF_vars(Propagate(n))

Spec == Init /\ [][Next]_vars
FairSpec == Spec /\ Fairness
------------------------------------------------------------------------------
(***************************************************************************)
(* Properties.                                                             *)
(***************************************************************************)

\* At every moment, also when the copy fails, is cancelled or shares the
\* destination with other clients, a node in the destination has all its
\* successors there (foreign layers aside): fn pushes a node only after the
\* done channels of its successors are closed.
DstClosed == Closed(dst)

\* The destination reference never resolves to an incomplete artifact: when
\* the hooks of prepareCopy have tagged the root, its whole sub-DAG is there.
TaggedComplete ==
    tagged => \A r \in Roots : SubDAG(r) \subseteq dst

\* When copyGraph returns nil for every entry, every sub-DAG has arrived and,
\* in Copy, the root is tagged (unless the caller's own PreCopy took it over).
SuccessComplete ==
    (\A e \in Entries : call[e] = "ok") =>
        /\ \A r \in Roots : SubDAG(r) \subseteq dst
        /\ (mode # "graph" /\ Roots \cap Skippable = {}) => tagged

\* The permits of the semaphore are exactly the started regions, so none is
\* released twice (which would panic) and none leaks on an error path.
PermitsConserved == sem >= 0 /\ sem + Cardinality(open) = Concurrency

\* The error "successor not committed" is unreachable: once syncutil.Go has
\* returned nil, every successor has been committed by some goroutine.
SuccessorsCommitted ==
    \A n \in Nodes : stage[n] = "await" =>
        \A m \in Copied(n) : stage[m] # "new"

\* The source sees at most one Fetch for each node: the tracker gives a node
\* to one goroutine and the proxy caches the manifests that are read twice.
FetchOnce == \A n \in Nodes : fetches[n] <= 1

\* The copy always ends, whatever fails and whenever it is cancelled: every
\* entry returns and every goroutine it started ends, so no permit wait and
\* no wait for another goroutine's done channel lasts for ever.
Termination == <>Quiescent
==============================================================================
