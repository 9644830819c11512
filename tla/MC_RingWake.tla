----------------------------- MODULE MC_RingWake -----------------------------
(* Model-checking instance of RingWake. *)
EXTENDS RingWake
==============================================================================
