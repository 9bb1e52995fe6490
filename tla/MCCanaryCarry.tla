---------------------------- MODULE MCCanaryCarry ----------------------------
(* A small instance of CanaryCarry: two contracts of two units.               *)
EXTENDS CanaryCarry
=============================================================================
