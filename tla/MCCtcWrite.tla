----------------------------- MODULE MCCtcWrite -----------------------------
(* Instances of CtcWrite for TLC.                                          *)
EXTENDS CtcWrite
=============================================================================
