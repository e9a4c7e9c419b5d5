--------------------------- MODULE MCExtendedCopy ---------------------------
(***************************************************************************)
(* An instance of ExtendedCopy for TLC: the artifact b is the subject of   *)
(* q, both are in the index p, and p is in the index i.  With depth 1 both  *)
(* p and q are roots; with depth 2 the roots depend on the order in which  *)
(* the predecessors of b come.                                             *)
(***************************************************************************)
EXTENDS ExtendedCopy

CONSTANTS i, p, q, b, ei, ep, eq, eb

MCNodes == {i, p, q, b}
MCKind == i :> "index" @@ p :> "index" @@ q :> "image" @@ b :> "artifact"
MCSubject == [n \in MCNodes |-> IF n = q THEN <<b>> ELSE <<>>]
MCConfig == [n \in MCNodes |-> <<>>]
MCParts == [n \in MCNodes |-> CASE n = i -> <<p>>
                                    [] n = p -> <<q, b>>
                                    [] OTHER -> <<>>]
MCEntries == {ei, ep, eq, eb}
MCRoot == ei :> i @@ ep :> p @@ eq :> q @@ eb :> b

\* No filter; filters that keep some of the predecessors, or none.
MCKeeps == {MCNodes, {q, i}, {}}
=============================================================================
