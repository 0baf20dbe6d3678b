---------------------------- MODULE MCSendPath ----------------------------
(* The send path for TLC: SendOne.cfg has one stream, with or without a     *)
(* receive half, SendTwo.cfg two that share the capacity.                    *)
EXTENDS SendPath
=============================================================================
