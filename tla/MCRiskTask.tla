----------------------------- MODULE MCRiskTask -----------------------------
(***************************************************************************)
(* An instance of RiskTask for TLC.  With a capital of 100 and the default *)
(* limits (5% a day, 20% a week, 15% from the peak) 96 is within all of    *)
(* them seen from 100; 120 makes a new peak, from which 100 is a drawdown  *)
(* and 96 a deeper one; 4 is under the range of plausible equities, and    *)
(* the readings 0 and none come beside the amounts.                        *)
(***************************************************************************)
EXTENDS RiskTask

MCAmounts == {4, 96, 100, 120}
=============================================================================
