---------------------------- MODULE ExposureTotal ----------------------------
(***************************************************************************)
(* The sum of the commitments of an account: AccountExposure.total() of    *)
(* denaro/domain/exposure.py.  A commitment of n units is n tokens         *)
(* <<bot, 1>> .. <<bot, n>>; the sum counts the tokens, which lets the     *)
(* proofs use the theorems about finite sets.                              *)
(***************************************************************************)
EXTENDS Integers, FiniteSets

Tokens(f) == UNION {{b} \X (1 .. f[b]) : b \in DOMAIN f}
Total(f) == Cardinality(Tokens(f))
=============================================================================
