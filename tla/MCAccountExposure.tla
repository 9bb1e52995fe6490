-------------------------- MODULE MCAccountExposure --------------------------
(***************************************************************************)
(* Instances of AccountExposure for TLC: two bots that declare different   *)
(* caps, the lower of which binds, and one that declares none and is       *)
(* outside the registry because the node declares none either.             *)
(***************************************************************************)
EXTENDS AccountExposure

MCBots == {"ada", "sol", "xrp"}
MCBotCap == [b \in MCBots |-> CASE b = "ada" -> 3 [] b = "sol" -> 4 [] OTHER -> 0]
=============================================================================
