---------------------------- MODULE MCStrategyLab ----------------------------
(* A small instance of StrategyLab: two candidates, which are interchangeable. *)
EXTENDS StrategyLab, TLC

CONSTANTS c1, c2

MCCandidates == {c1, c2}
Interchangeable == Permutations(MCCandidates)
=============================================================================
