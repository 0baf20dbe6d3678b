---------------------------- MODULE MCConnWorker ----------------------------
(* ConnWorker for TLC.  No symmetry: the run checks liveness.               *)
EXTENDS ConnWorker
=============================================================================
