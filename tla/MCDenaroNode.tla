---------------------------- MODULE MCDenaroNode ----------------------------
(***************************************************************************)
(* An instance of DenaroNode for TLC: a bot with a ladder of two buys, one *)
(* whose policy wants none, and the default thresholds.                    *)
(***************************************************************************)
EXTENDS DenaroNode, TLC

CONSTANTS b1, b2

MCBots == {b1, b2}
MCLevels == (b1 :> 2) @@ (b2 :> 0)
MCRamReadings == {50, 88, 97}
=============================================================================
