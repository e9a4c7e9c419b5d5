---------------------------- MODULE MCCopyGraph ----------------------------
(***************************************************************************)
(* An instance of CopyGraph for TLC: an index of a referrer m1 and its     *)
(* subject m2, so that a goroutine waits for a node of its own group; they *)
(* share the blob b, and m1 has a foreign layer f too.                     *)
(***************************************************************************)
EXTENDS CopyGraph, TLC

CONSTANTS r, m1, m2, b, f, e1

MCNodes == {r, m1, m2, b, f}
MCKind == r :> "index" @@ m1 :> "image" @@ m2 :> "artifact"
          @@ b :> "blob" @@ f :> "foreign"
MCSubject == [n \in MCNodes |-> IF n = m1 THEN <<m2>> ELSE <<>>]
MCConfig == [n \in MCNodes |-> IF n = m1 THEN <<b>> ELSE <<>>]
MCParts == r :> <<m1, m2>> @@ m1 :> <<f, b>> @@ m2 :> <<b>>
           @@ b :> <<>> @@ f :> <<>>
MCEntries == {e1}
MCRoot == e1 :> r
=============================================================================
