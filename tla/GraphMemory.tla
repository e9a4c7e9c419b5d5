----------------------------- MODULE GraphMemory -----------------------------
(***************************************************************************)
(* graph.Memory in use: concurrent Index and Remove calls, and calls of    *)
(* IndexAll, each of which starts one goroutine for every link it follows, *)
(* without a limiter, and gives each node to one of them with a tracker.   *)
(* index reads the content before it takes the lock, so an update may come *)
(* after other goroutines have changed the index.                          *)
(***************************************************************************)
EXTENDS Graph, FiniteSets

CONSTANTS
    Calls,    \* calls of IndexAll
    Start,    \* Start[c]: the node call c starts from
    Stored    \* the content the fetcher finds

ASSUME GraphAssumption == Start \in [Calls -> Nodes] /\ Stored \subseteq Nodes

VARIABLES
    graph,      \* the maps behind the lock
    inflight,   \* nodes that Index has read but not yet recorded
    committed,  \* committed[c]: nodes in the tracker of call c
    todo,       \* todo[c]: nodes whose goroutine has not begun
    reading,    \* reading[c]: nodes read but not yet recorded
    failed,     \* failed[c]: some goroutine of call c returned an error
    removed     \* history: Remove was called

vars == <<graph, inflight, committed, todo, reading, failed, removed>>

TypeOK ==
    /\ IsGraph(graph)
    /\ inflight \subseteq Nodes
    /\ committed \in [Calls -> SUBSET Nodes]
    /\ todo \in [Calls -> SUBSET Nodes]
    /\ reading \in [Calls -> SUBSET Nodes]
    /\ \A c \in Calls : reading[c] \subseteq committed[c]
    /\ failed \in [Calls -> BOOLEAN]
    /\ removed \in BOOLEAN

Init ==
    /\ graph = EmptyGraph
    /\ inflight = {}
    /\ committed = [c \in Calls |-> {}]
    /\ todo = [c \in Calls |-> {Start[c]}]
    /\ reading = [c \in Calls |-> {}]
    /\ failed = [c \in Calls |-> FALSE]
    /\ removed = FALSE

\* Index: content.Successors fetches the node; a failing fetch changes nothing.
IndexRead(n) ==
    /\ Indexable(Stored, n)
    /\ inflight' = inflight \cup {n}
    /\ UNCHANGED <<graph, committed, todo, reading, failed, removed>>

IndexRecord(n) ==
    /\ n \in inflight
    /\ graph' = IndexNode(graph, n)
    /\ inflight' = inflight \ {n}
    /\ UNCHANGED <<committed, todo, reading, failed, removed>>

Remove(n) ==
    /\ graph' = RemoveNode(graph, n)
    /\ removed' = TRUE
    /\ UNCHANGED <<inflight, committed, todo, reading, failed>>

\* Mutant: the successors are not followed.
RecordOnly(c, n) ==
    /\ n \in reading[c]
    /\ graph' = IndexNode(graph, n)
    /\ reading' = [reading EXCEPT ![c] = @ \ {n}]
    /\ UNCHANGED <<inflight, committed, todo, failed, removed>>

(***************************************************************************)
(* A goroutine of IndexAll: TryCommit, then index; a node that is not      *)
(* found is skipped, any other error fails the call.                       *)
(***************************************************************************)
Visit(c, n) ==
    /\ n \in todo[c]
    /\ todo' = [todo EXCEPT ![c] = @ \ {n}]
    /\ committed' = [committed EXCEPT ![c] = @ \cup {n}]
    /\ \/ /\ n \notin committed[c]
          /\ Indexable(Stored, n)
          /\ reading' = [reading EXCEPT ![c] = @ \cup {n}]
          /\ UNCHANGED failed
       \/ /\ n \in committed[c] \/ ~Indexable(Stored, n)
          /\ UNCHANGED <<reading, failed>>
       \/ /\ n \notin committed[c]
          /\ IsManifest(n)
          /\ failed' = [failed EXCEPT ![c] = TRUE]
          /\ UNCHANGED reading
    /\ UNCHANGED <<graph, inflight, removed>>

Record(c, n) ==
    /\ n \in reading[c]
    /\ graph' = IndexNode(graph, n)
    /\ reading' = [reading EXCEPT ![c] = @ \ {n}]
    /\ todo' = [todo EXCEPT ![c] = @ \cup SuccessorSet(n)]
    /\ UNCHANGED <<inflight, committed, failed, removed>>

Returned(c) == todo[c] = {} /\ reading[c] = {}

Next ==
    \/ \E n \in Nodes : IndexRead(n) \/ IndexRecord(n) \/ Remove(n)
    \/ \E c \in Calls, n \in Nodes : Visit(c, n) \/ Record(c, n)

Spec == Init /\ [][Next]_vars
------------------------------------------------------------------------------
\* The documented relations between nodes, predecessors and successors
\* (memory.go:35-54) hold after every step, in any order of Index, IndexAll
\* and Remove.
Consistent == GraphConsistent(graph)

\* IndexAll that returned nil has indexed everything that can be reached from
\* its node through content that exists, though each node was given to only
\* one of the goroutines that met it (no Remove may interfere).
IndexAllComplete ==
    \A c \in Calls :
        Returned(c) /\ ~failed[c] /\ ~removed =>
            IndexedFrom(Stored, {Start[c]}) \subseteq graph.nodes
==============================================================================
