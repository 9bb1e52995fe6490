---------------------------- MODULE MCPaperMarket ----------------------------
(* A small instance of PaperMarket: two valid prices and an invalid one.      *)
EXTENDS PaperMarket

MCPrices == 0 .. 2
=============================================================================
