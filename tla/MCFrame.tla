------------------------------ MODULE MCFrame -------------------------------
(***************************************************************************)
(* Instances of FrameChannel for TLC.                                      *)
(***************************************************************************)
EXTENDS FrameChannel
=============================================================================
