---------------------------- MODULE CanaryCarry ----------------------------
(***************************************************************************)
(* The carry canary (carry/canary_carry.py): a script that buys an asset   *)
(* spot and sells its perpetual short, or closes both, with limit orders   *)
(* it polls, reprices once and cancels; and the monitor (its "status"      *)
(* command), which cron runs at any time over the same state file.         *)
(*                                                                         *)
(* The venue fills the orders a unit at a time.  An order that the script  *)
(* has left behind, since its cancellation failed or the script ended,     *)
(* stays live: `stale` has the units still on offer of each leg.           *)
(*                                                                         *)
(* An operator XBug, defined before X, is X with a plausible coding error. *)
(***************************************************************************)
EXTENDS Integers

CONSTANTS
    Q,          \* Q_SPOT: units of the spot purchase
    CtVal,      \* CT_VAL: units of a contract
    MinSpot,    \* the spot below which no hedge is opened (100 of 110)
    MaxRuns,    \* bound: commands of the operator
    MaxFaults,  \* bound: reads and cancellations that fail, orders the venue cancels
    MaxDeaths   \* bound: commands that end at an exception

ASSUME CarryAssumption ==
    /\ CtVal \in Nat \ {0} /\ MinSpot \in Nat \ {0} /\ Q \in Nat /\ MinSpot <= Q
    /\ {MaxRuns, MaxFaults, MaxDeaths} \subseteq Nat

VARIABLES
    spot, pos,      \* at the venue: units held, contracts short
    stale,
    pc,             \* where the command is; "idle" when none runs
    cur,            \* the order it polls
    prev,           \* filled_prev
    qty, ct,        \* qty_doge and the contracts of the second leg
    file,           \* the status in canary_state.json
    monitor, loaded,    \* where the monitor is, and the status it has read
    \* observers
    runs, faults, deaths,
    blind,          \* preflights that could not read the balance
    nothingLeft,    \* an opening has repriced an order that was full
    closed          \* a close has run

venueVars == <<spot, pos, stale>>
localVars == <<cur, prev, qty, ct>>
fileVars == <<file, monitor, loaded>>
pastVars == <<runs, faults, deaths, blind, nothingLeft, closed>>
vars == <<spot, pos, stale, pc, cur, prev, qty, ct, file, monitor, loaded, runs, faults,
          deaths, blind, nothingLeft, closed>>

Legs == {"buy_spot", "sell_perp", "buy_perp", "sell_spot"}
NoOrder == [leg |-> "none", size |-> 0, left |-> 0]
NoStale == [l \in Legs |-> 0]

Init ==
    /\ spot = 0 /\ pos = 0 /\ stale = NoStale
    /\ pc = "idle" /\ cur = NoOrder /\ prev = 0 /\ qty = 0 /\ ct = 0
    /\ file = "none" /\ monitor = "idle" /\ loaded = "none"
    /\ runs = 0 /\ faults = 0 /\ deaths = 0
    /\ blind = 0 /\ nothingLeft = FALSE /\ closed = FALSE

-----------------------------------------------------------------------------
\* The venue.

ReduceOnlyBug == FALSE

\* The order that closes the short is sent with reduceOnly.
ReduceOnly == TRUE

\* A unit of a leg changes the account; an order that may only reduce the position
\* is canceled when there is none left.
Trade(l) ==
    /\ spot' = CASE l = "buy_spot" -> spot + 1 [] l = "sell_spot" -> spot - 1 [] OTHER -> spot
    /\ pos' = CASE l = "sell_perp" -> pos + 1 [] l = "buy_perp" -> pos - 1 [] OTHER -> pos

Over == ReduceOnly /\ pos' = 0

Trimmed(s) == IF Over THEN [s EXCEPT !["buy_perp"] = 0] ELSE s

FillCurrent ==
    /\ cur.left > 0
    /\ Trade(cur.leg)
    /\ cur' = [cur EXCEPT !.left = IF cur.leg = "buy_perp" /\ Over THEN 0 ELSE @ - 1]
    /\ stale' = Trimmed(stale)
    /\ UNCHANGED <<pc, prev, qty, ct, fileVars, pastVars>>

FillStale(l) ==
    /\ stale[l] > 0
    /\ Trade(l)
    /\ stale' = Trimmed([stale EXCEPT ![l] = @ - 1])
    /\ cur' = IF cur.leg = "buy_perp" /\ Over THEN [cur EXCEPT !.left = 0] ELSE cur
    /\ UNCHANGED <<pc, prev, qty, ct, fileVars, pastVars>>

\* Units for sale are not free.
Free == spot - stale["sell_spot"] - (IF cur.leg = "sell_spot" THEN cur.left ELSE 0)

Order(l, n) == [leg |-> l, size |-> n, left |-> n]

LeftBehind == IF cur.left = 0 THEN stale ELSE [stale EXCEPT ![cur.leg] = @ + cur.left]

-----------------------------------------------------------------------------
\* The steps of a command.

Goto(where) == pc' = where
Fault == faults < MaxFaults /\ faults' = faults + 1

\* spot_qty: 0 if the balance cannot be read.
SpotQty(read) == IF read THEN Free ELSE 0

\* The balance is read, or that fails.
Reading(read) == IF read THEN UNCHANGED faults ELSE Fault

\* attesa_fill returns with what the poll has seen: the order is done, by the
\* fills or by the venue, or the time is over whatever has become of it.
Seen(outcome) ==
    \/ outcome = "closed" /\ cur.left = 0 /\ UNCHANGED faults
    \/ outcome = "partial" /\ cur.left > 0 /\ Fault
    \/ outcome = "reprice" /\ UNCHANGED faults

Outcomes == {"closed", "partial", "reprice"}

\* The order is canceled; an exception there is swallowed and leaves it live.
Cancel(works) ==
    /\ IF works THEN UNCHANGED <<faults, stale>> ELSE Fault /\ stale' = LeftBehind
    /\ cur' = NoOrder

\* An exception that nothing catches, or a kill: the order stays at the venue.
Ends == /\ Goto("idle") /\ stale' = LeftBehind
        /\ cur' = NoOrder /\ prev' = 0 /\ qty' = 0 /\ ct' = 0

Dies ==
    /\ pc # "idle" /\ deaths < MaxDeaths
    /\ deaths' = deaths + 1
    /\ Ends
    /\ UNCHANGED <<spot, pos, fileVars, runs, faults, blind, nothingLeft, closed>>

PreflightBug(read) == pos = 0 /\ SpotQty(read) <= 0

\* preflight: no pending order, no position, no spot in the balance it has read.
Preflight(read) == stale = NoStale /\ pos = 0 /\ SpotQty(read) <= 0

Begin == pc = "idle" /\ runs < MaxRuns /\ runs' = runs + 1

\* open: the first leg.
Open(read) ==
    /\ Begin /\ file # "open" /\ Preflight(read)
    /\ Reading(read) /\ blind' = IF read THEN blind ELSE blind + 1
    /\ cur' = Order("buy_spot", Q)
    /\ Goto("spot")
    /\ UNCHANGED <<venueVars, prev, qty, ct, fileVars, deaths, nothingLeft, closed>>

SpotDone(outcome) ==
    /\ pc = "spot" /\ outcome # "reprice" /\ Seen(outcome)
    /\ cur' = NoOrder
    /\ Goto("qty")
    /\ UNCHANGED <<venueVars, prev, qty, ct, fileVars, runs, deaths, blind, nothingLeft,
                   closed>>

\* The time is over: how much is filled, if it can be read.
SpotLate(read) ==
    /\ pc = "spot"
    /\ prev' = IF read THEN cur.size - cur.left ELSE 0
    /\ Reading(read)
    /\ Goto("cancel_spot")
    /\ UNCHANGED <<venueVars, cur, qty, ct, fileVars, runs, deaths, blind, nothingLeft, closed>>

CancelSpot(works) ==
    /\ pc = "cancel_spot"
    /\ Cancel(works)
    /\ Goto("rest")
    /\ UNCHANGED <<spot, pos, prev, qty, ct, fileVars, runs, deaths, blind, nothingLeft, closed>>

\* residuo.
Rest == Q - prev

\* The rest is bought; an order for nothing is refused with an exception.
BuyRest ==
    /\ pc = "rest" /\ Rest > 0
    /\ cur' = Order("buy_spot", Rest) /\ prev' = 0
    /\ Goto("last_spot")
    /\ UNCHANGED <<venueVars, qty, ct, fileVars, pastVars>>

NothingToBuy ==
    /\ pc = "rest" /\ Rest <= 0
    /\ Ends
    /\ nothingLeft' = TRUE
    /\ UNCHANGED <<spot, pos, fileVars, runs, faults, deaths, blind, closed>>

\* The last order of a leg is canceled, unless it is seen closed, and then left.
After == [p \in {"last_spot", "last_perp", "close_perp", "closing_spot"} |->
             CASE p = "last_spot" -> "qty" [] p = "last_perp" -> "position"
               [] p = "close_perp" -> "close_spot" [] OTHER -> "record"]

LastDone ==
    /\ pc \in DOMAIN After /\ cur.left = 0
    /\ cur' = NoOrder
    /\ Goto(After[pc])
    /\ UNCHANGED <<venueVars, prev, qty, ct, fileVars, pastVars>>

LastLate(works) ==
    /\ pc \in DOMAIN After
    /\ Cancel(works)
    /\ Goto(After[pc])
    /\ UNCHANGED <<spot, pos, prev, qty, ct, fileVars, runs, deaths, blind, nothingLeft, closed>>

\* round: to the nearest contract, a half to the even one.
Contracts(n) ==
    LET d == n \div CtVal  r == 2 * (n % CtVal)
    IN  IF r > CtVal \/ (r = CtVal /\ d % 2 = 1) THEN d + 1 ELSE d

\* What is on the account: too little ends the command, else the second leg.
Qty(read) ==
    /\ pc = "qty" /\ Reading(read)
    /\ IF SpotQty(read) < MinSpot
       THEN Ends
       ELSE /\ qty' = SpotQty(read) /\ ct' = Contracts(SpotQty(read))
            /\ cur' = Order("sell_perp", ct')
            /\ Goto("perp")
            /\ UNCHANGED <<stale, prev>>
    /\ UNCHANGED <<spot, pos, fileVars, runs, deaths, blind, nothingLeft, closed>>

PerpDone(outcome) ==
    /\ pc = "perp" /\ outcome # "reprice" /\ Seen(outcome)
    /\ cur' = NoOrder
    /\ Goto("position")
    /\ UNCHANGED <<venueVars, prev, qty, ct, fileVars, runs, deaths, blind, nothingLeft,
                   closed>>

\* The order is canceled and sent again, for all its contracts.
PerpLate(works) ==
    /\ pc = "perp"
    /\ Cancel(works)
    /\ Goto("perp_again")
    /\ UNCHANGED <<spot, pos, prev, qty, ct, fileVars, runs, deaths, blind, nothingLeft, closed>>

PerpAgain ==
    /\ pc = "perp_again"
    /\ cur' = Order("sell_perp", ct)
    /\ Goto("last_perp")
    /\ UNCHANGED <<venueVars, prev, qty, ct, fileVars, pastVars>>

\* A position: the state file says open.
Hedged ==
    /\ pc = "position" /\ pos >= 1
    /\ file' = "open"
    /\ Ends
    /\ UNCHANGED <<spot, pos, monitor, loaded, pastVars>>

UnwindBug == NoOrder

\* What is free of what was bought is for sale again.
Unwind == Order("sell_spot", qty)

\* No position: the spot is sold, if the venue takes the order.
NotHedged ==
    /\ pc = "position" /\ pos < 1
    /\ cur' = IF qty <= Free THEN Unwind ELSE NoOrder
    /\ Goto("unwind")
    /\ UNCHANGED <<venueVars, prev, qty, ct, fileVars, pastVars>>

\* The script waits for it and ends; the order is not canceled.
Unwound ==
    /\ pc = "unwind"
    /\ Ends
    /\ UNCHANGED <<spot, pos, fileVars, pastVars>>

\* close: the short is bought back, if there is one, and then the spot is sold.
Close ==
    /\ Begin /\ closed' = TRUE
    /\ IF pos >= 1 THEN cur' = Order("buy_perp", pos) /\ Goto("close_perp")
       ELSE UNCHANGED cur /\ Goto("close_spot")
    /\ UNCHANGED <<venueVars, prev, qty, ct, fileVars, faults, deaths, blind, nothingLeft>>

CloseSpot(read) ==
    /\ pc = "close_spot" /\ Reading(read)
    /\ IF SpotQty(read) > 0
       THEN cur' = Order("sell_spot", SpotQty(read)) /\ Goto("closing_spot")
       ELSE UNCHANGED cur /\ Goto("record")
    /\ UNCHANGED <<venueVars, prev, qty, ct, fileVars, runs, deaths, blind, nothingLeft, closed>>

\* The state file says closed, whatever is left.
Record ==
    /\ pc = "record"
    /\ file' = "closed"
    /\ Ends
    /\ UNCHANGED <<spot, pos, monitor, loaded, pastVars>>

-----------------------------------------------------------------------------
\* The monitor: it loads the file, reads the position, and saves.

MonitorLoads ==
    /\ monitor = "idle"
    /\ monitor' = "loaded" /\ loaded' = IF file = "none" THEN "closed" ELSE file
    /\ UNCHANGED <<venueVars, pc, localVars, file, pastVars>>

FoundBug == loaded

\* A position makes the status open; without one the status stays as it was.
Found == IF pos >= 1 THEN "open" ELSE loaded

MonitorReads ==
    /\ monitor = "loaded"
    /\ monitor' = "read" /\ loaded' = Found
    /\ UNCHANGED <<venueVars, pc, localVars, file, pastVars>>

MonitorSaves ==
    /\ monitor = "read"
    /\ monitor' = "idle" /\ loaded' = "none" /\ file' = loaded
    /\ UNCHANGED <<venueVars, pc, localVars, pastVars>>

Monitor == MonitorLoads \/ MonitorReads \/ MonitorSaves

Script ==
    \/ \E outcome \in Outcomes : SpotDone(outcome) \/ PerpDone(outcome)
    \/ \E ok \in BOOLEAN :
          \/ Open(ok) \/ SpotLate(ok) \/ CancelSpot(ok) \/ LastLate(ok)
          \/ Qty(ok) \/ PerpLate(ok) \/ CloseSpot(ok)
    \/ BuyRest \/ NothingToBuy \/ LastDone \/ PerpAgain
    \/ Hedged \/ NotHedged \/ Unwound \/ Close \/ Record \/ Dies

Next == Script \/ Monitor \/ FillCurrent \/ \E l \in Legs : FillStale(l)

Spec == Init /\ [][Next]_vars

\* cron runs the monitor every ten minutes.
FairSpec == Spec /\ WF_vars(Monitor)

-----------------------------------------------------------------------------
\* The variables keep their types, and no order offers spot that is not held.
TypeOK ==
    /\ spot \in Nat /\ pos \in Int /\ stale \in [Legs -> Nat]
    /\ cur \in [leg : Legs \cup {"none"}, size : Nat, left : Nat] /\ cur.left <= cur.size
    /\ Free >= 0
    /\ prev \in 0 .. Q /\ qty \in Nat /\ ct \in Nat
    /\ {file, loaded} \subseteq {"none", "open", "closed"}
    /\ monitor \in {"idle", "loaded", "read"}
    /\ runs \in 0 .. MaxRuns /\ faults \in 0 .. MaxFaults /\ deaths \in 0 .. MaxDeaths
    /\ blind \in Nat /\ {nothingLeft, closed} \subseteq BOOLEAN

\* However many closes run over the orders that earlier ones left behind, they
\* never turn the short into a long position (canary_carry.py, close).
NeverLong == pos >= 0

\* The exposure is that of one opening at worst: each of its orders is sent twice,
\* the spot without knowing of the fills between the last look and the
\* cancellation, the contracts for all of them.  A command that ended half way does
\* not let the next one open over what it left (canary_carry.py, preflight), unless
\* the balance could not be read.
OneOpeningAtATime == blind = 0 => spot <= 2 * Q /\ pos <= 2 * Contracts(2 * Q)

\* Spot without a short, and no order to change it, is left by an opening only if a
\* read or a cancellation failed, the command ended at an exception, or it repriced
\* an order that was full: the opening either hedges or sells again.
NakedSpotHasCause ==
    pc = "idle" /\ stale = NoStale /\ spot >= MinSpot /\ pos = 0
        => faults > 0 \/ deaths > 0 \/ nothingLeft \/ closed

\* The monitor finds a short that the state file does not tell of, although an
\* ending close or another write may cover what it has written.
ShortIsReported == pos > 0 ~> pos <= 0 \/ file = "open"
=============================================================================
