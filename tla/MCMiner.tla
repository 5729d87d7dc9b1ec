------------------------------ MODULE MCMiner -------------------------------
(***************************************************************************)
(* Instances of MinerNode for TLC.                                         *)
(***************************************************************************)
EXTENDS MinerNode
=============================================================================
