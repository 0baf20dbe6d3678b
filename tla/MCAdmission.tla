---------------------------- MODULE MCAdmission ----------------------------
(* Admission for TLC.  No symmetry: the run checks liveness.                *)
EXTENDS Admission
=============================================================================
