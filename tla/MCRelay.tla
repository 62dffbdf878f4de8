------------------------------- MODULE MCRelay -------------------------------
(* Relay on a small instance. *)
EXTENDS Relay
=============================================================================
