--------------------------- MODULE MCExchangeCalls ---------------------------
(***************************************************************************)
(* An instance of ExchangeCalls for TLC: two threads, a bucket small       *)
(* enough to run empty and a clock with time to fill it again.             *)
(***************************************************************************)
EXTENDS ExchangeCalls
=============================================================================
