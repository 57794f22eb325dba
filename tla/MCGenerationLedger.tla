------------------------- MODULE MCGenerationLedger -------------------------
(* GenerationLedger for TLC: every origin may write, two of them in a run. *)
EXTENDS GenerationLedger

AllOrigins == Writers
=============================================================================
