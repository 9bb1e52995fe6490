--------------------------- MODULE AccountExposure ---------------------------
(***************************************************************************)
(* The bots of one account under one cap: the registry of                  *)
(* denaro/domain/exposure.py, wired by DenaroNode._exposure_for, and what  *)
(* a tick of BotTask does to it (denaro/application/orchestrator.py).      *)
(*                                                                         *)
(* The bots are coroutines of one loop.  Check and reservation have no     *)
(* await between them, so they are one step; the tick then places, fills   *)
(* and cancels through many awaits, during which the other bots run, and   *)
(* puts the registry right only at its end.  A tick that ends early        *)
(* (stop-loss, exception) does not, and the registry dies with the process *)
(* while the orders stay at the venue.                                     *)
(*                                                                         *)
(* Notional is counted in units at the price of the buy: the mark-ups of   *)
(* take-profits and the marking to market of positions are abstracted      *)
(* away, and the bots have no ladder sells (sell_levels = 0).  The         *)
(* details of a tick are in BotTask.                                       *)
(*                                                                         *)
(* An operator XBug, defined before X, is X with a plausible coding error. *)
(***************************************************************************)
EXTENDS ExposureTotal

CONSTANTS
    Bots,
    BotCap,     \* exposure_cap_notional of each bot, 0 if undeclared
    NodeCap,    \* exposure_cap_notional of the node, 0 if undeclared
    Capital,    \* units a bot may commit by itself (cfg.capital)
    MaxCrashes  \* bound: restarts in a behaviour

CapOf(b) == IF BotCap[b] > 0 THEN BotCap[b] ELSE NodeCap

\* The bots given the registry; without a cap self.exposure stays None.
Registered == {b \in Bots : CapOf(b) > 0}
Caps == {CapOf(b) : b \in Registered}

ASSUME ExposureAssumption ==
    /\ IsFiniteSet(Bots)
    /\ BotCap \in [Bots -> Nat] /\ NodeCap \in Nat
    /\ Capital \in Nat /\ MaxCrashes \in Nat

VARIABLES
    impegnato,  \* AccountExposure._impegnato, 0 for a bot that is not in it
    buys,       \* notional of state.open_buys
    held,       \* notional of state.open_sells and state.posizione_aperta
    plan,       \* notional of decision.to_place still to be sent
    stopped,    \* state.stop_loss_triggered
    pc,         \* where the tick of each bot is
    known,      \* observer: bots the registry has heard of since it exists
    crashes     \* bound

bookVars == <<buys, held>>
vars == <<impegnato, buys, held, plan, stopped, pc, known, crashes>>

Book(b) == buys[b] + held[b]

Init ==
    /\ impegnato = [b \in Bots |-> 0]
    /\ buys = [b \in Bots |-> 0] /\ held = [b \in Bots |-> 0]
    /\ plan = [b \in Bots |-> 0]
    /\ stopped = [b \in Bots |-> FALSE]
    /\ pc = [b \in Bots |-> "idle"]
    /\ known = {}
    /\ crashes = 0

-----------------------------------------------------------------------------
(***************************************************************************)
(* The registry.                                                           *)
(***************************************************************************)

\* reg.cap is the lowest of the caps declared for the account.
Fits(n) == \A c \in Caps : n <= c

\* can_open: the others' commitments and the whole of this bot's, within the cap.
CanOpenAloneBug(b, notional) == Fits(notional)
CanOpen(b, notional) == Fits(Total(impegnato) - impegnato[b] + notional)

Commit(b, notional) ==
    /\ impegnato' = [impegnato EXCEPT ![b] = notional]
    /\ known' = known \cup {b}

\* At the end of a tick the registry takes what the books say; a flat bot
\* leaves it, which is a commitment of 0.  bks and hld are the books then.
ReconcileDropsBuysBug(b, bks, hld) ==
    IF b \in Registered THEN Commit(b, hld) ELSE UNCHANGED <<impegnato, known>>
Reconcile(b, bks, hld) ==
    IF b \in Registered THEN Commit(b, bks + hld)
                        ELSE UNCHANGED <<impegnato, known>>

-----------------------------------------------------------------------------
(***************************************************************************)
(* A tick.                                                                 *)
(***************************************************************************)

Goto(b, label) == pc' = [pc EXCEPT ![b] = label]

\* The monitored stop closes the position at the head of the tick; the tick
\* goes on and places nothing.
MonitoredStop(b) ==
    /\ pc[b] = "idle"
    /\ held[b] > 0
    /\ held' = [held EXCEPT ![b] = 0]
    /\ Goto(b, "fills")
    /\ UNCHANGED <<impegnato, buys, plan, stopped, known, crashes>>

\* The policy wants n units more, or nothing (n = 0): no signal, trading
\* paused or stop-loss done.
DecideNothing(b) ==
    /\ pc[b] = "idle"
    /\ Goto(b, "fills")
    /\ UNCHANGED <<impegnato, bookVars, plan, stopped, known, crashes>>

Decide(b, n) ==
    /\ pc[b] = "idle" /\ ~stopped[b]
    /\ Book(b) + n <= Capital
    /\ b \in Registered => CanOpen(b, Book(b) + n)
    /\ plan' = [plan EXCEPT ![b] = n]
    /\ IF b \in Registered THEN Commit(b, Book(b) + n)
                           ELSE UNCHANGED <<impegnato, known>>
    /\ Goto(b, "fills")
    /\ UNCHANGED <<bookVars, stopped, crashes>>

\* exposure_cap_blocked: the bot does not open, its entry stays as it was.
DecideBlocked(b, n) ==
    /\ pc[b] = "idle" /\ ~stopped[b]
    /\ Book(b) + n <= Capital
    /\ b \in Registered /\ ~CanOpen(b, Book(b) + n)
    /\ Goto(b, "fills")
    /\ UNCHANGED <<impegnato, bookVars, plan, stopped, known, crashes>>

\* _process_fills, before the pre-flight and again after the placements.
BuyFilled(b) ==
    /\ pc[b] \in {"fills", "settle"}
    /\ buys[b] > 0
    /\ buys' = [buys EXCEPT ![b] = @ - 1]
    /\ held' = [held EXCEPT ![b] = @ + 1]
    /\ UNCHANGED <<impegnato, plan, stopped, pc, known, crashes>>

BuyGone(b) ==
    /\ pc[b] \in {"fills", "settle"}
    /\ buys[b] > 0
    /\ buys' = [buys EXCEPT ![b] = @ - 1]
    /\ UNCHANGED <<impegnato, held, plan, stopped, pc, known, crashes>>

SellGone(b) ==
    /\ pc[b] \in {"fills", "settle"}
    /\ held[b] > 0
    /\ held' = [held EXCEPT ![b] = @ - 1]
    /\ UNCHANGED <<impegnato, buys, plan, stopped, pc, known, crashes>>

\* The pre-flight cancels the k units of speculative buys, gives back the
\* reservation and ends the tick.
PreflightBlocked(b, k) ==
    /\ pc[b] = "fills"
    /\ k <= buys[b]
    /\ buys' = [buys EXCEPT ![b] = @ - k]
    /\ plan' = [plan EXCEPT ![b] = 0]
    /\ Reconcile(b, buys'[b], held[b])
    /\ Goto(b, "idle")
    /\ UNCHANGED <<held, stopped, crashes>>

\* Levels under the exchange's minimum are left out of the plan.
PreflightOk(b, n) ==
    /\ pc[b] = "fills"
    /\ n <= plan[b]
    /\ plan' = [plan EXCEPT ![b] = n]
    /\ Goto(b, "place")
    /\ UNCHANGED <<impegnato, bookVars, stopped, known, crashes>>

CancelBuy(b) ==
    /\ pc[b] = "place"
    /\ buys[b] > 0
    /\ buys' = [buys EXCEPT ![b] = @ - 1]
    /\ UNCHANGED <<impegnato, held, plan, stopped, pc, known, crashes>>

PlaceBuy(b) ==
    /\ pc[b] = "place"
    /\ plan[b] > 0
    /\ plan' = [plan EXCEPT ![b] = @ - 1]
    /\ buys' = [buys EXCEPT ![b] = @ + 1]
    /\ UNCHANGED <<impegnato, held, stopped, pc, known, crashes>>

BuyRefused(b) ==
    /\ pc[b] = "place"
    /\ plan[b] > 0
    /\ plan' = [plan EXCEPT ![b] = @ - 1]
    /\ UNCHANGED <<impegnato, bookVars, stopped, pc, known, crashes>>

AllPlaced(b) ==
    /\ pc[b] = "place"
    /\ plan[b] = 0
    /\ Goto(b, "settle")
    /\ UNCHANGED <<impegnato, bookVars, plan, stopped, known, crashes>>

EndTick(b) ==
    /\ pc[b] = "settle"
    /\ Reconcile(b, buys[b], held[b])
    /\ Goto(b, "idle")
    /\ UNCHANGED <<bookVars, plan, stopped, crashes>>

\* An exception between two awaits (the journal, say): run() catches it, and
\* the reservation of the tick stays in the registry.
TickFails(b) ==
    /\ pc[b] # "idle"
    /\ plan' = [plan EXCEPT ![b] = 0]
    /\ Goto(b, "idle")
    /\ UNCHANGED <<impegnato, bookVars, stopped, known, crashes>>

\* The stop-loss empties the books and returns before the reconciliation; a
\* sale that is postponed takes its flag back.
StopLoss(b) ==
    /\ pc[b] = "idle" /\ ~stopped[b]
    /\ buys' = [buys EXCEPT ![b] = 0]
    /\ held' = [held EXCEPT ![b] = 0]
    /\ \E done \in BOOLEAN : stopped' = [stopped EXCEPT ![b] = done]
    /\ UNCHANGED <<impegnato, plan, pc, known, crashes>>

Tick(b) ==
    \/ MonitoredStop(b) \/ DecideNothing(b)
    \/ \E n \in 1 .. Capital : Decide(b, n) \/ DecideBlocked(b, n)
    \/ BuyFilled(b) \/ BuyGone(b) \/ SellGone(b)
    \/ \E k \in 0 .. Capital : PreflightBlocked(b, k) \/ PreflightOk(b, k)
    \/ CancelBuy(b) \/ PlaceBuy(b) \/ BuyRefused(b) \/ AllPlaced(b)
    \/ EndTick(b) \/ TickFails(b) \/ StopLoss(b)

\* The process dies and comes back with an empty registry; the books are
\* rebuilt from the venue.  A stop that was not saved is forgotten.
Restart ==
    /\ crashes < MaxCrashes
    /\ crashes' = crashes + 1
    /\ impegnato' = [b \in Bots |-> 0]
    /\ plan' = [b \in Bots |-> 0]
    /\ pc' = [b \in Bots |-> "idle"]
    /\ stopped' \in {s \in [Bots -> BOOLEAN] : \A b \in Bots : s[b] => stopped[b]}
    /\ known' = {}
    /\ UNCHANGED bookVars

Next == Restart \/ \E b \in Bots : Tick(b)

Spec == Init /\ [][Next]_vars

-----------------------------------------------------------------------------
(***************************************************************************)
(* Properties.                                                             *)
(***************************************************************************)

TypeOK ==
    /\ impegnato \in [Bots -> Nat]
    /\ buys \in [Bots -> Nat] /\ held \in [Bots -> Nat]
    /\ plan \in [Bots -> Nat]
    /\ stopped \in [Bots -> BOOLEAN]
    /\ pc \in [Bots -> {"idle", "fills", "place", "settle"}]
    /\ known \subseteq Registered
    /\ crashes \in Nat

\* What a bot has open and what its running tick may still open is covered
\* by its commitment, through the awaits between the reservation (3a-bis) and
\* the reconciliation (5-bis), however the tick ends: no other bot is ever
\* shown room that a pending placement is about to take.
ReservationCovers ==
    \A b \in known : Book(b) + plan[b] <= impegnato[b]

\* The commitments the registry has heard of, at their real size.
Declared == [b \in Registered |-> IF b \in known THEN Book(b) + plan[b] ELSE 0]

\* The registry keeps the promise of ExposureCap: exposure grows only by an
\* opening that leaves everything known within the cap, or by the first
\* report of a bot after a restart.
Ledger == INSTANCE ExposureCap
            WITH Bots <- Registered, exposed <- Declared
ImplementsCap == Ledger!Spec

\* The bots of the account never have more open than its cap: the total
\* that exposure.py is "the only place" to know, and refuses to exceed.
WithinCap ==
    Fits(Total([b \in Registered |-> Book(b) + plan[b]]))
=============================================================================
