-------------------------- MODULE GraphMemoryProofs --------------------------
(***************************************************************************)
(* The documented relations between the three maps of graph.Memory, proved *)
(* for every DAG and any interleaving of Index, IndexAll and Remove.       *)
(***************************************************************************)
EXTENDS GraphMemory, TLAPS

\* The successors of a node are nodes.
LEMMA SuccessorSetType == \A n \in Nodes : SuccessorSet(n) \subseteq Nodes
<1> SUFFICES ASSUME NEW n \in Nodes PROVE SuccessorSet(n) \subseteq Nodes
  OBVIOUS
<1>1. Successors(n) \in Seq(Nodes)
  BY ContentAssumption DEF Successors, Kinds
<1> QED BY <1>1 DEF SuccessorSet, Links

\* Reading a map of sets yields a set of nodes.
LEMMA GetType ==
  ASSUME NEW f, IsMap(f), NEW k PROVE Get(f, k) \subseteq Nodes
  BY DEF Get, IsMap

\* The locked part of index keeps the maps consistent, also for a node that is
\* indexed again.
LEMMA IndexNodeConsistent ==
  ASSUME NEW g, IsGraph(g), GraphConsistent(g), NEW n \in Nodes
  PROVE  IsGraph(IndexNode(g, n)) /\ GraphConsistent(IndexNode(g, n))
<1> DEFINE h == IndexNode(g, n)
<1> USE SuccessorSetType
<1>1. /\ h.nodes = g.nodes \cup {n}
      /\ h.predecessors = [k \in DOMAIN g.predecessors \cup SuccessorSet(n) |->
            IF k \in SuccessorSet(n) THEN Get(g.predecessors, k) \cup {n}
            ELSE g.predecessors[k]]
      /\ h.successors = [k \in DOMAIN g.successors \cup {n} |->
            IF k = n THEN SuccessorSet(n) ELSE g.successors[k]]
      /\ h = [nodes |-> h.nodes, predecessors |-> h.predecessors,
              successors |-> h.successors]
  BY DEF IndexNode
<1> HIDE DEF h
<1>2. \A k : Get(g.predecessors, k) \subseteq Nodes
  BY GetType DEF IsGraph
<1>3. IsMap(h.predecessors)
  BY <1>1, <1>2 DEF IsGraph, IsMap
<1>4. IsMap(h.successors)
  BY <1>1 DEF IsGraph, IsMap
<1>5. \A k : Get(h.predecessors, k) =
              IF k \in SuccessorSet(n) THEN Get(g.predecessors, k) \cup {n}
              ELSE Get(g.predecessors, k)
  BY <1>1 DEF Get
<1>6. \A m, k \in Nodes :
         m \in Get(h.predecessors, k) <=> m \in h.nodes /\ k \in SuccessorSet(m)
  <2> SUFFICES ASSUME NEW m \in Nodes, NEW k \in Nodes
               PROVE  m \in Get(h.predecessors, k) <=>
                        m \in h.nodes /\ k \in SuccessorSet(m)
    OBVIOUS
  <2>1. m \in Get(g.predecessors, k) <=> m \in g.nodes /\ k \in SuccessorSet(m)
    BY DEF GraphConsistent
  <2>2. m \in Get(h.predecessors, k) <=>
          m \in Get(g.predecessors, k) \/ (m = n /\ k \in SuccessorSet(n))
    BY <1>5, Zenon
  <2>3. m \in h.nodes <=> m \in g.nodes \/ m = n
    BY <1>1
  <2> QED BY <2>1, <2>2, <2>3, Zenon
<1>7. \A k \in DOMAIN h.predecessors : h.predecessors[k] # {}
  BY <1>1 DEF GraphConsistent
<1>8. DOMAIN h.successors = h.nodes
      /\ \A m \in h.nodes : h.successors[m] = SuccessorSet(m)
  BY <1>1 DEF GraphConsistent
<1>9. IsGraph(h)
  BY <1>1, <1>3, <1>4 DEF IsGraph
<1>10. GraphConsistent(h)
  BY <1>6, <1>7, <1>8 DEF GraphConsistent
<1> QED BY <1>9, <1>10 DEF h

\* Remove keeps the maps consistent: exactly the entries that became empty go.
LEMMA RemoveNodeConsistent ==
  ASSUME NEW g, IsGraph(g), GraphConsistent(g), NEW n \in Nodes
  PROVE  IsGraph(RemoveNode(g, n)) /\ GraphConsistent(RemoveNode(g, n))
<1> DEFINE h == RemoveNode(g, n)
<1> USE SuccessorSetType
<1>1. /\ h.nodes = g.nodes \ {n}
      /\ h.predecessors = [k \in DOMAIN g.predecessors \ LastOf(g, n) |->
            IF k \in Get(g.successors, n) THEN g.predecessors[k] \ {n}
            ELSE g.predecessors[k]]
      /\ h.successors = [k \in DOMAIN g.successors \ {n} |-> g.successors[k]]
      /\ h = [nodes |-> h.nodes, predecessors |-> h.predecessors,
              successors |-> h.successors]
  BY DEF RemoveNode
<1> HIDE DEF h
<1>2. Get(g.successors, n) = IF n \in g.nodes THEN SuccessorSet(n) ELSE {}
  BY DEF Get, GraphConsistent
<1>3. \A k \in LastOf(g, n) : k \in Get(g.successors, n)
                              /\ Get(g.predecessors, k) \subseteq {n}
  BY DEF LastOf
<1>4. IsMap(h.predecessors) /\ IsMap(h.successors)
  BY <1>1 DEF IsGraph, IsMap
<1>5. \A k \in Nodes : Get(h.predecessors, k) = Get(g.predecessors, k) \ {n}
  <2> SUFFICES ASSUME NEW k \in Nodes
               PROVE  Get(h.predecessors, k) = Get(g.predecessors, k) \ {n}
    OBVIOUS
  <2>1. CASE k \in LastOf(g, n)
    BY <1>1, <1>3, <2>1 DEF Get
  <2>2. CASE k \notin LastOf(g, n) /\ k \in Get(g.successors, n)
    BY <1>1, <2>2 DEF Get
  <2>3. CASE k \notin LastOf(g, n) /\ k \notin Get(g.successors, n)
    <3>1. n \notin Get(g.predecessors, k)
      BY <1>2, <2>3 DEF GraphConsistent
    <3> QED BY <1>1, <2>3, <3>1 DEF Get
  <2> QED BY <2>1, <2>2, <2>3
<1>6. \A m, k \in Nodes :
         m \in Get(h.predecessors, k) <=> m \in h.nodes /\ k \in SuccessorSet(m)
  <2>1. \A m, k \in Nodes :
           m \in Get(g.predecessors, k) <=> m \in g.nodes /\ k \in SuccessorSet(m)
    BY DEF GraphConsistent
  <2>2. h.nodes = g.nodes \ {n}
    BY <1>1
  <2> QED BY <1>5, <2>1, <2>2
<1>7. \A k \in DOMAIN h.predecessors : h.predecessors[k] # {}
  <2> SUFFICES ASSUME NEW k \in DOMAIN h.predecessors
               PROVE  h.predecessors[k] # {}
    OBVIOUS
  <2>1. k \in DOMAIN g.predecessors /\ k \notin LastOf(g, n) /\ k \in Nodes
    BY <1>1 DEF IsGraph, IsMap
  <2>2. CASE k \in Get(g.successors, n)
    <3>1. ~(g.predecessors[k] \subseteq {n})
      BY <2>1, <2>2 DEF LastOf, Get
    <3> QED BY <1>1, <2>1, <2>2, <3>1
  <2>3. CASE k \notin Get(g.successors, n)
    BY <1>1, <2>1, <2>3 DEF GraphConsistent
  <2> QED BY <2>2, <2>3
<1>8. DOMAIN h.successors = h.nodes
      /\ \A m \in h.nodes : h.successors[m] = SuccessorSet(m)
  BY <1>1 DEF GraphConsistent
<1>9. IsGraph(h)
  BY <1>1, <1>4 DEF IsGraph
<1>10. GraphConsistent(h)
  BY <1>6, <1>7, <1>8 DEF GraphConsistent
<1> QED BY <1>9, <1>10 DEF h
------------------------------------------------------------------------------
\* The index keeps its type and its documented relations in every reachable
\* state.
THEOREM GraphInvariance == Spec => [](TypeOK /\ Consistent)
<1>1. Init => TypeOK /\ Consistent
  <2> SUFFICES ASSUME Init PROVE TypeOK /\ Consistent
    OBVIOUS
  <2>1. graph.nodes = {} /\ graph.predecessors = EmptyMap
        /\ graph.successors = EmptyMap
        /\ graph = [nodes |-> graph.nodes, predecessors |-> graph.predecessors,
                    successors |-> graph.successors]
    BY DEF Init, EmptyGraph
  <2>2. DOMAIN EmptyMap = {} /\ IsMap(EmptyMap)
    BY DEF EmptyMap, IsMap
  <2>3. IsGraph(graph)
    BY <2>1, <2>2 DEF IsGraph
  <2>4. Consistent
    BY <2>1, <2>2 DEF Consistent, GraphConsistent, Get
  <2>5. TypeOK
    BY <2>3, GraphAssumption DEF Init, TypeOK
  <2> QED BY <2>4, <2>5
<1>2. TypeOK /\ Consistent /\ [Next]_vars => (TypeOK /\ Consistent)'
  <2> SUFFICES ASSUME TypeOK, Consistent, [Next]_vars
               PROVE  TypeOK' /\ Consistent'
    OBVIOUS
  <2> USE GraphAssumption, SuccessorSetType
  <2>1. ASSUME NEW n \in Nodes, IndexRead(n) PROVE TypeOK' /\ Consistent'
    BY <2>1 DEF IndexRead, TypeOK, Consistent
  <2>2. ASSUME NEW n \in Nodes, IndexRecord(n) PROVE TypeOK' /\ Consistent'
    BY <2>2, IndexNodeConsistent DEF IndexRecord, TypeOK, Consistent
  <2>3. ASSUME NEW n \in Nodes, Remove(n) PROVE TypeOK' /\ Consistent'
    BY <2>3, RemoveNodeConsistent DEF Remove, TypeOK, Consistent
  <2>4. ASSUME NEW c \in Calls, NEW n \in Nodes, Visit(c, n)
        PROVE  TypeOK' /\ Consistent'
    BY <2>4 DEF Visit, TypeOK, Consistent
  <2>5. ASSUME NEW c \in Calls, NEW n \in Nodes, Record(c, n)
        PROVE  TypeOK' /\ Consistent'
    BY <2>5, IndexNodeConsistent DEF Record, TypeOK, Consistent
  <2>6. CASE UNCHANGED vars
    BY <2>6 DEF vars, TypeOK, Consistent
  <2> QED BY <2>1, <2>2, <2>3, <2>4, <2>5, <2>6 DEF Next
<1> QED BY <1>1, <1>2, PTL DEF Spec

\* Predecessors and successors stay inverse to each other, and an entry exists
\* exactly for the nodes that have predecessors (memory.go:35-54).
THEOREM AlwaysConsistent == Spec => []Consistent
  BY GraphInvariance, PTL
==============================================================================
