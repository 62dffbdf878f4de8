--------------------------- MODULE MCLoopCampaign ---------------------------
(* LoopCampaign on a small instance. *)
EXTENDS LoopCampaign

MCHeld == {2}
MCIsolated == {1}
\* In time for everything; too late for RLM; too late for HALO to begin or to
\* build its index; too late for HALO to run a case.
MCInstants == {0, 18, 30, 38}
=============================================================================
