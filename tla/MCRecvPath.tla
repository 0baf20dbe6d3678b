---------------------------- MODULE MCRecvPath ----------------------------
(* The receive path for TLC: RecvOne.cfg has one stream with everything that *)
(* can happen to it, RecvStoreBuffer.cfg the same with delayed stores.       *)
EXTENDS RecvPath
=============================================================================
