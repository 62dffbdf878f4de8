------------------------------ MODULE MCBridge ------------------------------
(* Bridge on a small instance: one connection more than there are workers. *)
EXTENDS Bridge, TLC
=============================================================================
