----------------------------- MODULE MCEventHub -----------------------------
(* EventHub for TLC.  Liveness is checked, so no symmetry is declared.       *)
EXTENDS EventHub, TLC
=============================================================================
