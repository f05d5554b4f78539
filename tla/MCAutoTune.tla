----------------------------- MODULE MCAutoTune -----------------------------
(* Model-checking instance of AutoTune; the cfg gives the constants. *)
EXTENDS AutoTune
=============================================================================
