-------------------------- MODULE MCSendAccounting --------------------------
(* The send-byte cap for TLC.  No symmetry: the run checks liveness.         *)
EXTENDS SendAccounting
=============================================================================
