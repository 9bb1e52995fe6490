----------------------------- MODULE ExposureCap -----------------------------
(***************************************************************************)
(* What the exposure cap of an account promises (the contract at the head  *)
(* of denaro/domain/exposure.py): a bot opens only if everything the       *)
(* account is known to have committed stays, with the opening, within the  *)
(* cap.  After a restart nothing is known until each bot has reported, and *)
(* a report is never refused: the exposure it tells of exists already.     *)
(***************************************************************************)
EXTENDS ExposureTotal

CONSTANTS
    Bots,       \* the bots that share the account
    Caps        \* the caps declared for it: the lowest binds

VARIABLES
    exposed,    \* notional committed by each bot, as far as it is known
    known       \* the bots that have reported since the last restart

vars == <<exposed, known>>

Fits(n) == \A c \in Caps : n <= c

Init == exposed = [b \in Bots |-> 0] /\ known = {}

Others(b) ==
    /\ exposed' \in [Bots -> Nat]
    /\ \A a \in Bots \ {b} : exposed'[a] = exposed[a]

Open(b) ==
    /\ Others(b)
    /\ exposed'[b] > exposed[b]
    /\ Fits(Total(exposed'))
    /\ known' = known \cup {b}

Reduce(b) ==
    /\ Others(b)
    /\ exposed'[b] < exposed[b]
    /\ UNCHANGED known

Report(b) ==
    /\ Others(b)
    /\ b \notin known
    /\ known' = known \cup {b}

Restart == exposed' = [b \in Bots |-> 0] /\ known' = {}

Next ==
    \/ \E b \in Bots : Open(b) \/ Reduce(b) \/ Report(b)
    \/ Restart

Spec == Init /\ [][Next]_vars
=============================================================================
