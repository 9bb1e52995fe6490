------------------------------ MODULE MCBotTask ------------------------------
(***************************************************************************)
(* Instances of BotTask for TLC.  The order-id pools are the bound: with   *)
(* the ids of a side used up the venue takes no more orders of that side   *)
(* and the bot manages what it has.  A take-profit that finds no id left   *)
(* waits for good (BuySendsTakeProfit): such a behaviour is cut there.     *)
(***************************************************************************)
EXTENDS BotTask

TwoBuys == {1, 2}
OneBuy == {1}
OneSell == {11}
TwoSells == {11, 12}
=============================================================================
