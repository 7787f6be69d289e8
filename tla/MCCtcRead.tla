------------------------------ MODULE MCCtcRead ------------------------------
(* Instances of CtcRead for TLC.                                           *)
EXTENDS CtcRead
=============================================================================
