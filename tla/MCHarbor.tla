------------------------------- MODULE MCHarbor -------------------------------
(* Harbor with one pair of trials and one more. *)
EXTENDS Harbor
=============================================================================
