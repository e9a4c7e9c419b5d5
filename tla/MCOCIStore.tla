----------------------------- MODULE MCOCIStore ------------------------------
(***************************************************************************)
(* Instances of OCIStore for TLC: an image s, a referrer r of s and an     *)
(* index i that refers to s and lists r; b is the config of s and of r.    *)
(***************************************************************************)
EXTENDS OCIStore, TLC

CONSTANTS s, r, i, b, c1, c2, t1, t2

All == {s, r, i, b}
MCKind == [n \in Nodes |-> CASE n = i -> "index"
                             [] n \in {s, r} -> "image"
                             [] OTHER -> "blob"]
MCSubject == [n \in Nodes |-> IF n \in {r, i} THEN <<s>> ELSE <<>>]
MCConfig == [n \in Nodes |-> IF n \in {s, r} /\ b \in Nodes THEN <<b>> ELSE <<>>]
MCParts == [n \in Nodes |-> IF n = i THEN <<r>> ELSE <<>>]
\* The clients are interchangeable.
ClientSymmetry == Permutations(Clients)
==============================================================================
