-------------------------------- MODULE Graph --------------------------------
(***************************************************************************)
(* The in-memory predecessor index, graph.Memory (internal/graph), as a    *)
(* value and the functions its locked sections compute on it.  Go maps are *)
(* functions whose domain is the set of keys.                              *)
(***************************************************************************)
EXTENDS Content

EmptyMap == [n \in {} |-> {}]

\* NewMemory
EmptyGraph == [nodes |-> {}, predecessors |-> EmptyMap, successors |-> EmptyMap]

\* Reading a missing key of a Go map of sets yields the empty set.
Get(map, n) == IF n \in DOMAIN map THEN map[n] ELSE {}

(***************************************************************************)
(* The locked part of index: the node and its successor list are recorded  *)
(* and the node is added to the predecessors of each successor, whether or *)
(* not that successor is known itself.                                     *)
(***************************************************************************)
IndexNode(g, n) ==
    [nodes |-> g.nodes \cup {n},
     predecessors |->
        [k \in DOMAIN g.predecessors \cup SuccessorSet(n) |->
            IF k \in SuccessorSet(n) THEN Get(g.predecessors, k) \cup {n}
            ELSE g.predecessors[k]],
     successors |->
        [k \in DOMAIN g.successors \cup {n} |->
            IF k = n THEN SuccessorSet(n) ELSE g.successors[k]]]

(***************************************************************************)
(* Remove: the node leaves the predecessors of its successors; an entry    *)
(* that becomes empty is deleted, and its node is dangling if it is known. *)
(***************************************************************************)
LastOf(g, n) == {k \in Get(g.successors, n) : Get(g.predecessors, k) \subseteq {n}}

\* Mutants: entries that become empty are kept, or the node is.
RemoveNodeKeepsEmpty(g, n) ==
    [nodes |-> g.nodes \ {n},
     predecessors |-> [k \in DOMAIN g.predecessors |->
                          IF k \in Get(g.successors, n)
                          THEN g.predecessors[k] \ {n} ELSE g.predecessors[k]],
     successors |-> [k \in DOMAIN g.successors \ {n} |-> g.successors[k]]]

RemoveNodeKeepsNode(g, n) ==
    [RemoveNodeKeepsEmpty(g, n) EXCEPT !.nodes = g.nodes]

RemoveNode(g, n) ==
    [nodes |-> g.nodes \ {n},
     predecessors |->
        [k \in DOMAIN g.predecessors \ LastOf(g, n) |->
            IF k \in Get(g.successors, n) THEN g.predecessors[k] \ {n}
            ELSE g.predecessors[k]],
     successors |-> [k \in DOMAIN g.successors \ {n} |-> g.successors[k]]]

\* Mutant: successors with other predecessors are taken for dangling.
DanglingsAll(g, n) == Get(g.successors, n) \cap g.nodes

Danglings(g, n) == LastOf(g, n) \cap g.nodes

\* Predecessors: nothing for a node without an entry.
Predecessors(g, n) == Get(g.predecessors, n)

(***************************************************************************)
(* What IndexAll visits from a set of nodes when the storage holds stored: *)
(* everything linked from there, not going through manifests it cannot     *)
(* find; of these, it indexes the manifests it found and the leaves, which *)
(* it never fetches.                                                       *)
(***************************************************************************)
Indexable(stored, n) == IsManifest(n) => n \in stored

Visited(stored, from) ==
    LET closed == {S \in SUBSET Nodes :
                     /\ from \subseteq S
                     /\ \A k \in S : Indexable(stored, k) => SuccessorSet(k) \subseteq S}
    IN  {n \in Nodes : \A S \in closed : n \in S}

IndexedFrom(stored, from) == {n \in Visited(stored, from) : Indexable(stored, n)}

(***************************************************************************)
(* The properties that memory.go:35-54 documents.  The nodes are the keys  *)
(* of successors; a node's successors are those of its content; and        *)
(* predecessors is the exact inverse of successors, without empty entries. *)
(***************************************************************************)
GraphConsistent(g) ==
    /\ DOMAIN g.successors = g.nodes
    /\ \A n \in g.nodes : g.successors[n] = SuccessorSet(n)
    /\ \A n, k \in Nodes :
          n \in Get(g.predecessors, k) <=> n \in g.nodes /\ k \in SuccessorSet(n)
    /\ \A k \in DOMAIN g.predecessors : g.predecessors[k] # {}

IsMap(f) == DOMAIN f \subseteq Nodes /\ f \in [DOMAIN f -> SUBSET Nodes]

IsGraph(g) ==
    /\ g = [nodes |-> g.nodes, predecessors |-> g.predecessors,
            successors |-> g.successors]
    /\ g.nodes \subseteq Nodes
    /\ IsMap(g.predecessors)
    /\ IsMap(g.successors)
==============================================================================
