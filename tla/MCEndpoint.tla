---------------------------- MODULE MCEndpoint ----------------------------
(* The endpoint for TLC.  No symmetry: the run checks liveness.              *)
EXTENDS Endpoint
=============================================================================
