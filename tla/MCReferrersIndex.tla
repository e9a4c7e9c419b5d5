--------------------------- MODULE MCReferrersIndex --------------------------
(***************************************************************************)
(* An instance of ReferrersIndex for TLC: x is pushed, while y, which is   *)
(* listed, is deleted and pushed again.                                    *)
(***************************************************************************)
EXTENDS ReferrersIndex, TLC

CONSTANTS c1, c2, c3, x, y

MCChange == c1 :> <<"add", x>> @@ c2 :> <<"remove", y>> @@ c3 :> <<"add", y>>
==============================================================================
