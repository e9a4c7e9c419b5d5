---------------------------- MODULE MCGraphMemory ----------------------------
(***************************************************************************)
(* An instance of GraphMemory for TLC: an index x with a referrer y of the *)
(* manifest m, both over m, and a manifest z that is not stored.           *)
(***************************************************************************)
EXTENDS GraphMemory, TLC

CONSTANTS x, y, m, z, b, c1

MCNodes == {x, y, m, z, b}
MCKind == x :> "index" @@ y :> "artifact" @@ m :> "dockerImage"
          @@ z :> "image" @@ b :> "blob"
MCSubject == [n \in MCNodes |-> IF n = y THEN <<m>> ELSE <<>>]
MCConfig == [n \in MCNodes |-> IF n \in {m, z} THEN <<b>> ELSE <<>>]
MCParts == [n \in MCNodes |-> CASE n = x -> <<y, m>>
                                [] n = y -> <<z>>
                                [] OTHER -> <<>>]
MCStart == c1 :> x
==============================================================================
