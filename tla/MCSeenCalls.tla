---------------------------- MODULE MCSeenCalls ----------------------------
(* An instance of SeenCalls for TLC.                                       *)
EXTENDS SeenCalls, TLC

CONSTANTS p1, p2, p3, k1, k2, k3

MCFnv == p1 :> k1 @@ p2 :> k2 @@ p3 :> k3

Symmetry == Permutations(Workers)
=============================================================================
