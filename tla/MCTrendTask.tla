---------------------------- MODULE MCTrendTask ----------------------------
(* A small instance of TrendTask: at two prices a buy fills, its stop rises *)
(* above the entry, and the fall crosses it.  Half units make the multiples *)
(* 2 and 2.5 of the ATR integers.                                           *)
EXTENDS TrendTask

MCPrices == {12, 19}
MCAtrs == {1, 2}
=============================================================================
