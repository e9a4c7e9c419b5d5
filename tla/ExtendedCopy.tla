---------------------------- MODULE ExtendedCopy ----------------------------
(***************************************************************************)
(* oras.ExtendedCopy and ExtendedCopyGraph (extendedcopy.go): findRoots    *)
(* searches the source upwards from the node; an outer syncutil.Go runs    *)
(* over the roots, in which each goroutine gives its permit back, calls    *)
(* copyGraph with the shared limiter, proxy and tracker, and takes a       *)
(* permit again; then Tag.  The calls of copyGraph are the entries of      *)
(* CopyGraph, one for each node that may turn out to be a root.            *)
(***************************************************************************)
EXTENDS CopyGraph, SequencesExt

CONSTANTS
    Node,        \* what the source reference resolves to
    Depths,      \* the values of opts.Depth to try; 0: no limit
    Keeps        \* what FilterAnnotation and FilterArtifactType may keep:
                 \* sets of nodes to try

VARIABLES
    depth,       \* opts.Depth
    kept,        \* the predecessors that the filters keep
    stack,       \* of findRoots: nodes and their depths
    visited,     \* of findRoots
    found,       \* the keys of rootMap
    xcall,       \* state of ExtendedCopy: findRoots, the outer call, then Tag
    xtask,       \* xtask[e]: goroutine of the outer call that makes entry e
    xcancelled,  \* the context of the outer errgroup is done
    xopen,       \* outer goroutines whose region is started
    xtagged      \* the node is tagged in the destination

findVars == <<depth, kept, stack, visited, found>>
xvars == <<findVars, xcall, xtask, xcancelled, xopen, xtagged>>
allvars == <<vars, xvars>>

XInit ==
    /\ InitState
    /\ call = [c \in Callers |-> "idle"]
    /\ depth \in Depths
    /\ kept \in Keeps
    /\ stack = <<[node |-> Node, depth |-> 0]>>
    /\ visited = {}
    /\ found = {}
    /\ xcall = "find"
    /\ xtask = [e \in Entries |-> "none"]
    /\ xcancelled = FALSE
    /\ xopen = {}
    /\ xtagged = FALSE

------------------------------------------------------------------------------
\* opts.FindPredecessors: what the source's Predecessors or Referrers names,
\* filtered.
FindPredecessors(n) == {m \in kept : n \in SuccessorSet(m)}

\* The predecessors come out of a Go map: they are pushed in any order.
Orders(preds) == {o \in [1..Cardinality(preds) -> preds] : IsInjective(o)}

Fresh(n) == n \notin visited

\* Mutant: the depth of a predecessor is that of the node.
FindStepLevel ==
    /\ xcall = "find"
    /\ stack # <<>>
    /\ LET top == Last(stack)
           n == top.node
           preds == FindPredecessors(n) IN
       /\ visited' = visited \cup {n}
       /\ IF Fresh(n) /\ (preds = {} \/ (depth > 0 /\ top.depth = depth))
          THEN found' = found \cup {n} /\ stack' = Front(stack)
          ELSE /\ UNCHANGED found
               /\ \E o \in Orders(IF Fresh(n) THEN preds \ visited' ELSE {}) :
                     stack' = Front(stack)
                        \o [i \in DOMAIN o |-> [node |-> o[i], depth |-> top.depth]]
    /\ UNCHANGED <<vars, depth, kept, xcall, xtask, xcancelled, xopen, xtagged>>

\* One round of the search: a node on top of the stack that was not visited
\* is a root, or its predecessors that were not visited are pushed.
FindStep ==
    /\ xcall = "find"
    /\ stack # <<>>
    /\ LET top == Last(stack)
           n == top.node
           preds == FindPredecessors(n) IN
       /\ visited' = visited \cup {n}
       /\ IF Fresh(n) /\ (preds = {} \/ (depth > 0 /\ top.depth = depth))
          THEN found' = found \cup {n} /\ stack' = Front(stack)
          ELSE /\ UNCHANGED found
               /\ \E o \in Orders(IF Fresh(n) THEN preds \ visited' ELSE {}) :
                     stack' = Front(stack)
                        \o [i \in DOMAIN o |-> [node |-> o[i], depth |-> top.depth + 1]]
    /\ UNCHANGED <<vars, depth, kept, xcall, xtask, xcancelled, xopen, xtagged>>

FindReturns ==
    /\ xcall = "find"
    /\ stack = <<>>
    /\ xcall' = "spawn"
    /\ visited' = {}
    /\ UNCHANGED <<vars, depth, kept, stack, found, xtask, xcancelled, xopen, xtagged>>

\* Resolve or FindPredecessors fails.
FindFails ==
    /\ xcall = "find"
    /\ stack # <<>>
    /\ xcall' = "err"
    /\ faulted' = TRUE
    /\ UNCHANGED <<mode, dst, tagged, cache, fetches, stage, owner, task, call,
                   cancelled, open, sem, findVars, xtask, xcancelled, xopen, xtagged>>

\* The entries of the roots that were found.
Live == {e \in Entries : Root[e] \in found}
------------------------------------------------------------------------------
XEnd(e) ==
    /\ sem' = IF e \in xopen THEN sem + 1 ELSE sem
    /\ xopen' = xopen \ {e}

XAcquire(e) ==
    /\ ~xcancelled
    /\ sem > 0
    /\ sem' = sem - 1
    /\ xopen' = xopen \cup {e}

\* The roots come out of a Go map: they are started in any order.
XSpawn(e) ==
    /\ xcall = "spawn"
    /\ e \in Live
    /\ xtask[e] = "none"
    /\ XAcquire(e)
    /\ xtask' = [xtask EXCEPT ![e] = "ready"]
    /\ UNCHANGED <<mode, dst, tagged, cache, fetches, stage, owner, task, call,
                   cancelled, open, faulted, xcall, xcancelled, xtagged, findVars>>

XStartFails ==
    /\ xcall = "spawn"
    /\ xcancelled
    /\ \E e \in Live : xtask[e] = "none"
    /\ xcall' = "err"
    /\ UNCHANGED <<vars, xtask, xcancelled, xopen, xtagged, findVars>>

\* Mutant: the group does not wait for its goroutines.
XWaitReturnsEarly ==
    /\ xcall = "spawn"
    /\ \A e \in Live : xtask[e] # "none"
    /\ xcall' = "tag"
    /\ UNCHANGED <<vars, xtask, xcancelled, xopen, xtagged, findVars>>

XWaitReturns ==
    /\ xcall = "spawn"
    /\ \A e \in Live : xtask[e] \in {"ok", "err"}
    /\ xcall' = IF \A e \in Live : xtask[e] = "ok" THEN "tag" ELSE "err"
    /\ xcancelled' = TRUE
    /\ UNCHANGED <<vars, xtask, xopen, xtagged, findVars>>

\* Mutant: the permit is kept during copyGraph.
CopyRootHolding(e) ==
    /\ xtask[e] = "ready"
    /\ xtask' = [xtask EXCEPT ![e] = "copying"]
    /\ call' = [call EXCEPT ![e] = "spawn"]
    /\ UNCHANGED <<mode, dst, tagged, cache, fetches, stage, owner, task, cancelled,
                   open, sem, faulted, xcall, xcancelled, xopen, xtagged, findVars>>

\* region.End(), then copyGraph under the context of the outer group.
CopyRoot(e) ==
    /\ xtask[e] = "ready"
    /\ XEnd(e)
    /\ xtask' = [xtask EXCEPT ![e] = "copying"]
    /\ call' = [call EXCEPT ![e] = "spawn"]
    /\ cancelled' = [cancelled EXCEPT ![e] = xcancelled]
    /\ UNCHANGED <<mode, dst, tagged, cache, fetches, stage, owner, task, open,
                   faulted, xcall, xcancelled, xtagged, findVars>>

AfterCopyGraph(e) ==
    /\ xtask[e] = "copying"
    /\ \/ call[e] = "ok" /\ xtask' = [xtask EXCEPT ![e] = "restart"]
       \/ call[e] = "err" /\ xtask' = [xtask EXCEPT ![e] = "failing"]
    /\ UNCHANGED <<vars, xcall, xcancelled, xopen, xtagged, findVars>>

\* region.Start() and the deferred region.End() of a returning goroutine.
XRestart(e) ==
    /\ xtask[e] = "restart"
    /\ \/ /\ e \notin xopen
          /\ XAcquire(e)
          /\ UNCHANGED xtask
       \/ /\ e \notin xopen
          /\ xcancelled
          /\ xtask' = [xtask EXCEPT ![e] = "failing"]
          /\ UNCHANGED <<sem, xopen>>
       \/ /\ e \in xopen
          /\ XEnd(e)
          /\ xtask' = [xtask EXCEPT ![e] = "ok"]
    /\ UNCHANGED <<mode, dst, tagged, cache, fetches, stage, owner, task, call,
                   cancelled, open, faulted, xcall, xcancelled, xtagged, findVars>>

XGroupCancel(e) ==
    /\ xtask[e] = "failing"
    /\ xtask' = [xtask EXCEPT ![e] = "err"]
    /\ xcancelled' = TRUE
    /\ UNCHANGED <<vars, xcall, xopen, xtagged, findVars>>

XPropagate(e) ==
    /\ xcancelled
    /\ call[e] = "spawn"
    /\ ~cancelled[e]
    /\ cancelled' = [cancelled EXCEPT ![e] = TRUE]
    /\ UNCHANGED <<mode, dst, tagged, cache, fetches, stage, owner, task, call, open,
                   sem, faulted, xvars>>

TagNode ==
    /\ xcall = "tag"
    /\ \/ xtagged' = TRUE /\ xcall' = "ok" /\ UNCHANGED faulted
       \/ xcall' = "err" /\ faulted' = TRUE /\ UNCHANGED xtagged
    /\ UNCHANGED <<mode, dst, tagged, cache, fetches, stage, owner, task, call,
                   cancelled, open, sem, xtask, xcancelled, xopen, findVars>>

XCallerCancels ==
    /\ xcall = "spawn"
    /\ ~xcancelled
    /\ xcancelled' = TRUE
    /\ faulted' = TRUE
    /\ UNCHANGED <<mode, dst, tagged, cache, fetches, stage, owner, task, call,
                   cancelled, open, sem, xcall, xtask, xopen, xtagged, findVars>>

XQuiescent ==
    /\ xcall \in {"ok", "err"}
    /\ \A e \in Entries : /\ call[e] \in {"idle", "ok", "err"}
                          /\ xtask[e] \in {"none", "ok", "err"}
    /\ \A t \in Tasks : task[t] \in {"none", "ok", "err"}

Inner ==
    \/ \E c \in Callers : GoStep(c)
    \/ \E t \in Tasks : TryCommit(t) \/ GroupCancel(t)
    \/ \E n \in Nodes : NodeStep(n) \/ Propagate(n)

RootStep(e) == CopyRoot(e) \/ AfterCopyGraph(e) \/ XRestart(e) \/ XGroupCancel(e)

XNext ==
    \/ Inner /\ UNCHANGED xvars
    \/ \E e \in Entries : XSpawn(e) \/ RootStep(e) \/ XPropagate(e)
    \/ FindStep \/ FindReturns \/ FindFails
    \/ XStartFails
    \/ XWaitReturns
    \/ TagNode
    \/ XCallerCancels

\* As in CopyGraph, for the outer goroutines too.
XFairness ==
    /\ \A c \in Callers : WF_allvars(GoStep(c) /\ UNCHANGED xvars)
    /\ \A t \in Tasks : WF_allvars((TryCommit(t) \/ GroupCancel(t))
                                   /\ UNCHANGED xvars)
    /\ \A n \in Nodes : /\ WF_allvars(NodeStep(n) /\ UNCHANGED xvars)
                        /\ WF_allvars(Propagate(n) /\ UNCHANGED xvars)
    /\ \A e \in Entries : WF_allvars(RootStep(e)) /\ WF_allvars(XPropagate(e))
    /\ WF_allvars((\E e \in Entries : XSpawn(e)) \/ XStartFails \/ XWaitReturns)
    /\ WF_allvars(FindStep \/ FindReturns)
    /\ WF_allvars(TagNode)

XSpec == XInit /\ [][XNext]_allvars /\ XFairness
------------------------------------------------------------------------------
\* The nodes at most k predecessors away from the node, and all above it.
Within(k) ==
    LET up[i \in 0..k] ==
            IF i = 0 THEN {Node}
            ELSE up[i - 1] \cup UNION {FindPredecessors(n) : n \in up[i - 1]}
    IN up[k]
Above == Within(Cardinality(Nodes))

\* Without a limit findRoots returns the nodes above the given one that have
\* no predecessors, all of them and nothing else; with a limit it returns no
\* node that is farther away, in whatever order the predecessors come.
RootsFit ==
    xcall \in {"spawn", "tag", "ok"} =>
        IF depth = 0 THEN found = {n \in Above : FindPredecessors(n) = {}}
        ELSE found # {} /\ found \subseteq Within(depth)

\* The node is tagged only after it and everything above it (with a limit, at
\* least its predecessors) have arrived with all that they refer to, although
\* findRoots visits a node once and a root that another root reaches is left
\* to that other root's goroutines.
XTaggedComplete ==
    xtagged => \A a \in IF depth = 0 THEN Above ELSE Within(1) :
                    SubDAG(a) \subseteq dst

\* ExtendedCopy fails only if some operation failed or its caller cancelled.
XNoSpuriousFailure == xcall = "err" => faulted

\* ExtendedCopy always ends and leaves no goroutine: a root that waits for
\* content another root's goroutine works on holds no permit meanwhile
\* (extendedcopy.go:130-132, "to avoid dead locks").
XTermination == <>XQuiescent
==============================================================================
