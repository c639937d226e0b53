------------------------------ MODULE MCReload ------------------------------
(* Instances of Reload for TLC: two complete rules files of different      *)
(* length, and a beginning of one that Load rejects.                       *)
EXTENDS Reload, TLC

CONSTANTS a, b, broken

MCNRules == a :> 1 @@ b :> 2
=============================================================================
