------------------------------- MODULE BotTask -------------------------------
(***************************************************************************)
(* One trading bot: class BotTask of denaro/application/orchestrator.py,   *)
(* between the venue that fills its orders, the disk that survives it and  *)
(* the ResourceGuardian that pauses it.                                    *)
(*                                                                         *)
(* A tick is a coroutine.  Every `await' is a point where the venue, the   *)
(* guardian or a crash can step in, so the tick is one action per await    *)
(* (per order, where the code loops over orders), sequenced by pc.  What   *)
(* the coroutine holds between two awaits (its decision, its snapshot of   *)
(* the open orders, the orders left in a loop) is tick-local state: a      *)
(* crash wipes it together with the bot's memory.                          *)
(*                                                                         *)
(* The venue keeps its orders across a restart and its balance is cached,  *)
(* as with the live adapters (OKX, Kraken); PaperExchange does neither and *)
(* is PaperMarket's.                                                       *)
(*                                                                         *)
(* Prices, fees and PnL are abstracted away; an amount is a small number   *)
(* of units of the base asset.  The policies (grid.py, trend.py) appear as *)
(* the set of decisions they may return.  The shared exposure registry is  *)
(* not injected here (self.exposure is None).                              *)
(*                                                                         *)
(* An operator XBug, defined before X, is X with a plausible coding error; *)
(* nothing uses it.  Put in the place of X it breaks a property below, so  *)
(* that the property is known to say something about the code.             *)
(***************************************************************************)
EXTENDS Integers, FiniteSets, FiniteSetsExt

CONSTANTS
    BuyIds, SellIds,    \* the order ids the venue can hand out (a bound)
    Size,               \* units of base asset in a buy order
    Levels,             \* cfg.levels: buys the grid keeps open
    SellLevels,         \* params.sell_levels: 0 for a one-sided grid
    StopMonitorato,     \* policy.STOP_MONITORATO: trend (TRUE) or grid (FALSE)
    StopLossOn,         \* cfg.stop_loss_pct > 0
    FaultKinds,         \* the failures this instance may suffer
    MaxFaults,          \* bound: failures in a behaviour
    MaxCrashes,         \* bound: crashes in a behaviour
    MaxForeign          \* bound: units others bring to the same account

Ids == BuyIds \cup SellIds

\* "partial" is not counted against MaxFaults: it lets fills come in pieces.
AllFaults == {"fetch", "bootfetch", "balance", "spread", "send", "reply",
              "cancel", "expire", "leftover", "disk", "partial"}

ASSUME BotAssumption ==
    /\ BuyIds \subseteq Nat /\ IsFiniteSet(BuyIds)
    /\ SellIds \subseteq Nat /\ IsFiniteSet(SellIds)
    /\ BuyIds \cap SellIds = {}
    /\ Size \in Nat \ {0}
    /\ Levels \in Nat /\ SellLevels \in Nat
    /\ StopMonitorato \in BOOLEAN /\ StopLossOn \in BOOLEAN
    /\ FaultKinds \subseteq AllFaults
    /\ MaxFaults \in Nat /\ MaxCrashes \in Nat /\ MaxForeign \in Nat

VARIABLES
    \* the venue: every order id, and the base asset of the account
    status, filled, amount,
    free,               \* units not locked in an open sell, whoever owns them
    \* the bot's memory
    st,                 \* BotState
    paused,             \* trading_paused, rewritten by the guardian
    policyIn,           \* trend policy: in_posizione
    seen,               \* the adapter's cached free balance, NoBalance if none
    \* what survives a crash
    disk,               \* the state file
    booked,             \* journal: buy_filled / sell_filled records per order
    \* the running tick
    pc, plan,
    openIds,            \* ids the tick believes open at the venue
    todo,               \* orders left in the loop the tick is in
    rescued, quotaSells,\* the stop-loss's photograph of the bot's quota
    \* observers and bounds
    bought, sold,       \* units the bot's buys brought in / its sells took out
    foreign,            \* units others brought to the account
    asked,              \* orders the bot has asked the venue to cancel
    faults, crashes

venueVars == <<status, filled, amount, free>>
memVars == <<st, paused, policyIn, seen>>
durVars == <<disk, booked>>
tickVars == <<pc, plan, openIds, todo, rescued, quotaSells>>
obsVars == <<bought, sold, foreign, asked, faults, crashes>>
vars == <<venueVars, memVars, durVars, tickVars, obsVars>>

NoBalance == -1

NoPlan == [place |-> 0, ladder |-> 0, cancel |-> {}, cancelSell |-> {},
           snap |-> FALSE]

\* BotState(symbol=cfg.symbol).  `named' says whether state.symbol is non-empty.
FreshState == [buys |-> {}, sells |-> {}, tp |-> {}, unknown |-> {}, pos |-> 0,
               latched |-> FALSE, named |-> TRUE]

Pcs == {"down", "idle", "stop", "ladder", "buys1", "sells1", "exec", "buys2",
        "sells2", "persist", "slBuys", "slCancel"}

States == [buys : SUBSET BuyIds, sells : SUBSET SellIds, tp : SUBSET SellIds,
           unknown : SUBSET SellIds, pos : Nat, latched : BOOLEAN,
           named : BOOLEAN]

Plans == [place : Nat, ladder : Nat, cancel : SUBSET BuyIds,
          cancelSell : SUBSET SellIds, snap : BOOLEAN]

-----------------------------------------------------------------------------
(* Faults and the venue                                                    *)

NoFault == faults' = faults

Fault(k) == k \in FaultKinds /\ faults < MaxFaults /\ faults' = faults + 1

Live(o) == status[o] = "open"
LiveIds == {o \in Ids : Live(o)}

\* The venue hands out ids in order; when the pool is empty the bound is hit.
IsNext(o, pool) ==
    /\ o \in pool /\ status[o] = "none"
    /\ \A p \in pool : status[p] = "none" => o <= p

Exhausted(pool) == \A o \in pool : status[o] # "none"

\* create_limit_order accepted: a buy locks quote currency, a sell base asset.
AcceptBuy(o) ==
    /\ status' = [status EXCEPT ![o] = "open"]
    /\ amount' = [amount EXCEPT ![o] = Size]
    /\ seen' = NoBalance
    /\ UNCHANGED <<filled, free>>

AcceptSell(o, a) ==
    /\ status' = [status EXCEPT ![o] = "open"]
    /\ amount' = [amount EXCEPT ![o] = a]
    /\ free' = free - a
    /\ seen' = NoBalance
    /\ UNCHANGED filled

\* cancel_order on a live order: a sell gives its unfilled units back.
CancelAtVenue(o) ==
    /\ Live(o)
    /\ status' = [status EXCEPT ![o] = "canceled"]
    /\ free' = IF o \in SellIds THEN free + (amount[o] - filled[o]) ELSE free
    /\ UNCHANGED <<filled, amount>>

\* The three outcomes of one cancel_order call: done; refused because the
\* order is no longer live; lost to a transient error.
CancelOutcome(o) ==
    \/ CancelAtVenue(o) /\ NoFault
    \/ ~Live(o) /\ NoFault /\ UNCHANGED venueVars
    \/ Fault("cancel") /\ UNCHANGED venueVars

SmallerOf(a, b) == IF a <= b THEN a ELSE b

\* What fetch_balance may answer: the value seen before while the TTL lasts,
\* the real one after it.  (seen is forgotten where the tick has no read of the
\* balance left; the next tick comes past the TTL.)
Shown == IF seen = NoBalance THEN {free} ELSE {seen, free}

\* The balance shows something of the quota q to sell.
SomeToSell(q) == \E b \in Shown : SmallerOf(b, q) > 0

-----------------------------------------------------------------------------
(* Environment: the venue, the guardian, the rest of the account           *)

\* A live order fills, in one piece or (kind "partial") in several.
VenueFill(o) ==
    /\ Live(o)
    /\ \E q \in 1..(amount[o] - filled[o]) :
         /\ q = amount[o] - filled[o] \/ "partial" \in FaultKinds
         /\ filled' = [filled EXCEPT ![o] = @ + q]
         /\ status' = [status EXCEPT ![o] =
                         IF filled[o] + q = amount[o] THEN "closed" ELSE @]
         /\ free' = IF o \in BuyIds THEN free + q ELSE free
         /\ bought' = IF o \in BuyIds THEN bought + q ELSE bought
         /\ sold' = IF o \in SellIds THEN sold + q ELSE sold
    /\ UNCHANGED <<amount, memVars, durVars, tickVars, foreign, asked, faults,
                   crashes>>

\* The venue, or a hand on its web page, cancels an order.
VenueExpire(o) ==
    /\ CancelAtVenue(o) /\ Fault("expire")
    /\ UNCHANGED <<memVars, durVars, tickVars, bought, sold, foreign, asked,
                   crashes>>

\* A sell order this bot did not place: left by a previous version of it, or by
\* another user of the account.  Its unit was brought in by whoever offers it.
LeftoverSell(o) ==
    /\ IsNext(o, SellIds) /\ Fault("leftover")
    /\ status' = [status EXCEPT ![o] = "open"]
    /\ amount' = [amount EXCEPT ![o] = 1]
    /\ foreign' = foreign + 1
    /\ UNCHANGED <<filled, free, memVars, durVars, tickVars, bought, sold,
                   asked, crashes>>

\* Another bot of the sub-account, or a person, brings a unit of the asset.
Deposit ==
    /\ foreign < MaxForeign
    /\ foreign' = foreign + 1 /\ free' = free + 1
    /\ UNCHANGED <<status, filled, amount, memVars, durVars, tickVars, bought,
                   sold, asked, faults, crashes>>

\* _propagate_safemode overwrites trading_paused at every RAM level change.
SafeMode ==
    /\ pc # "down"
    /\ paused' = ~paused
    /\ UNCHANGED <<venueVars, st, policyIn, seen, durVars, tickVars, obsVars>>

-----------------------------------------------------------------------------
(* Life and death of the process                                           *)

TickReset ==
    /\ plan' = NoPlan /\ openIds' = {} /\ todo' = {}
    /\ rescued' = 0 /\ quotaSells' = {}

Crash ==
    /\ pc # "down" /\ crashes < MaxCrashes
    /\ pc' = "down" /\ crashes' = crashes + 1
    /\ st' = FreshState /\ paused' = FALSE /\ policyIn' = FALSE
    /\ seen' = NoBalance
    /\ TickReset
    /\ UNCHANGED <<venueVars, durVars, bought, sold, foreign, asked, faults>>

\* _load_state: an unnamed file is ignored, and from_dict drops the symbol, so
\* the state loaded from a named file is itself unnamed.
LoadedState ==
    IF disk.named THEN [disk EXCEPT !.named = FALSE] ELSE FreshState

\* _rebuild_from_exchange: every order the venue lists becomes the bot's; a
\* listed sell has an unknown entry price and an unknown kind.
Adopt(s, ids) ==
    [s EXCEPT !.buys = @ \cup (ids \cap BuyIds),
              !.sells = @ \cup (ids \cap SellIds),
              !.tp = @ \ ids,
              !.unknown = @ \cup (ids \cap SellIds)]

\* _riconcilia_posizione: a position without a unit of free asset is dropped.
Reconciled(s) == IF free = 0 THEN [s EXCEPT !.pos = 0] ELSE s

\* It reads the balance only if the file holds a position.
SeenAtBoot == IF LoadedState.pos > 0 THEN free ELSE NoBalance

\* _ripristina_posizione gives the policy the position the state file holds.
RestoredBug(s) == FALSE
Restored(s) == s.pos > 0

\* BotTask.__init__, restarted by the service manager after a crash.
Boot ==
    /\ pc = "down" /\ pc' = "idle"
    /\ \/ NoFault /\ st' = Reconciled(Adopt(LoadedState, LiveIds))
          /\ seen' = SeenAtBoot
       \/ Fault("bootfetch") /\ st' = Reconciled(LoadedState)
          /\ seen' = SeenAtBoot
       \/ LoadedState.pos > 0 /\ Fault("balance")
          /\ st' = Adopt(LoadedState, LiveIds) /\ seen' = NoBalance
    /\ policyIn' = Restored(st')
    /\ UNCHANGED <<venueVars, paused, durVars, plan, openIds, todo, rescued,
                   quotaSells, bought, sold, foreign, asked, crashes>>

\* _persist, the last await of every path of the tick.
Persist ==
    /\ pc = "persist" /\ pc' = "idle"
    /\ \/ NoFault /\ disk' = st
       \/ Fault("disk") /\ UNCHANGED disk
    /\ seen' = NoBalance
    /\ TickReset
    /\ UNCHANGED <<venueVars, st, paused, policyIn, booked, bought, sold,
                   foreign, asked, crashes>>

-----------------------------------------------------------------------------
(* The books                                                               *)

DropBuyBug(s, o) == s
DropBuy(s, o) == [s EXCEPT !.buys = @ \ {o}]

DropSell(s, o) == [s EXCEPT !.sells = @ \ {o}, !.tp = @ \ {o},
                            !.unknown = @ \ {o}]

EmptyBooks(s) == [s EXCEPT !.buys = {}, !.sells = {}, !.tp = {},
                           !.unknown = {}]

\* The journal records a fill of o.
Book(o) == booked' = [booked EXCEPT ![o] = @ + 1]

\* Q4: an order has a fill to book when the venue says it closed, or reports a
\* filled quantity whatever its status.
HasFill(o) == filled[o] > 0

\* closed, canceled, expired or rejected at the venue
Terminal(o) == status[o] \in {"closed", "canceled"}

-----------------------------------------------------------------------------
(* Tick: gates and decision                                                *)

\* Unfunded or unreadable account, implausible equity, circuit breaker open,
\* no balance, no price: the tick persists and stops there, before the fills,
\* the cancellations and the monitored stop.  Nothing bounds how long: an open
\* breaker ends every tick for as long as the losses that opened it stay.
TickBlocked ==
    /\ pc = "idle" /\ pc' = "persist"
    /\ UNCHANGED <<venueVars, memVars, durVars, plan, openIds, todo, rescued,
                   quotaSells, obsVars>>

\* Levels still to place when the orders in `cancel' are gone (C7: only the
\* missing ones, never the whole grid).
MissingBug(cancel) == Levels
Missing(cancel) ==
    LET kept == Cardinality(st.buys \ cancel)
    IN  IF kept < Levels THEN Levels - kept ELSE 0

\* Open sells that are not take-profits fill the ladder.
Ladder == st.sells \ st.tp

LadderRoom(cancelSell) ==
    LET kept == Cardinality(Ladder \ cancelSell)
    IN  IF kept < SellLevels THEN SellLevels - kept ELSE 0

\* GridPolicy.decide: stale buys out, missing levels in, and the sell ladder
\* re-anchored (all canceled) or completed, sized on laddered asset and on the
\* balance b the tick has read.
GridDecides(d, b) ==
    /\ d.cancel \subseteq st.buys
    /\ d.place \in 0..Missing(d.cancel)
    /\ d.cancelSell = {} \/ (SellLevels > 0 /\ d.cancelSell = Ladder)
    /\ IF SellLevels > 0 /\ (b > 0 \/ Ladder \ d.cancelSell # {})
       THEN d.ladder \in 0..LadderRoom(d.cancelSell)
       ELSE d.ladder = 0
    /\ ~d.stop /\ ~d.adopt

\* TrendPolicy.decide.  Long: cancel a leftover sell, publish a stop, which the
\* price may have crossed.  Flat: adopt an asset nobody tracks; or drop expired
\* buys; or buy the breakout.
TrendDecides(d, b) ==
    /\ d.ladder = 0
    /\ \/ /\ policyIn \/ st.sells # {}
          /\ d.cancel = {} /\ d.place = 0 /\ ~d.adopt
          /\ IF st.sells = {} THEN d.cancelSell = {}
             ELSE \E o \in st.sells : d.cancelSell = {o}
       \/ /\ ~policyIn /\ st.sells = {} /\ d.cancelSell = {} /\ ~d.stop
          /\ \/ d.adopt /\ b > 0 /\ st.buys = {} /\ d.cancel = {}
                /\ d.place = 0
             \/ ~d.adopt /\ d.cancel \subseteq st.buys
                /\ d.place \in (IF st.buys = {} THEN 0..1 ELSE {0})

Decisions ==
    [place : 0..Levels, ladder : 0..SellLevels, cancel : SUBSET st.buys,
     cancelSell : SUBSET st.sells, stop : BOOLEAN, adopt : BOOLEAN]

PolicyDecides(d, b) ==
    IF StopMonitorato THEN TrendDecides(d, b) ELSE GridDecides(d, b)

\* 3a: no new trade while paused, nor once the stop-loss is under way.
MayTradeBug == ~paused
MayTrade == ~paused /\ ~st.latched

Gated(p) == IF MayTrade THEN p ELSE [p EXCEPT !.place = 0, !.ladder = 0]

PlanOf(d, snap) ==
    [place |-> d.place, ladder |-> d.ladder, cancel |-> d.cancel,
     cancelSell |-> d.cancelSell, snap |-> snap]

\* The tick passes its gates, reads the balance, lists the open orders (or
\* fails to) and decides.
TickDecides ==
    /\ pc = "idle"
    /\ \E snap \in BOOLEAN, d \in Decisions, b \in Shown :
         /\ IF snap THEN NoFault ELSE Fault("fetch")
         /\ openIds' = IF snap THEN LiveIds ELSE {}
         /\ PolicyDecides(d, b)
         /\ seen' = IF d.stop THEN b ELSE NoBalance
         /\ policyIn' = (policyIn \/ d.adopt)
         /\ IF d.stop
            THEN /\ pc' = "stop" /\ todo' = st.sells
                 /\ plan' = PlanOf(d, snap)
            ELSE /\ pc' = "ladder" /\ todo' = {}
                 /\ plan' = Gated(PlanOf(d, snap))
    /\ UNCHANGED <<venueVars, st, paused, durVars, rescued, quotaSells,
                   bought, sold, foreign, asked, crashes>>

-----------------------------------------------------------------------------
(* Tick: the monitored stop (3a-0), _esegui_stop_monitorato                *)

StopCancel(o) ==
    /\ pc = "stop" /\ o \in todo
    /\ todo' = todo \ {o}
    /\ CancelOutcome(o)
    /\ st' = DropSell(st, o)
    /\ asked' = asked \cup {o}
    /\ UNCHANGED <<paused, policyIn, seen, durVars, pc, plan, openIds, rescued,
                   quotaSells, bought, sold, foreign, crashes>>

StopDone == pc = "stop" /\ todo = {} /\ pc' = "ladder"

\* Spread too wide, balance unreadable, no tracked position, or the sale fails:
\* the position stays, and the tick goes on with its decision.
StopNotSold ==
    /\ StopDone
    /\ \/ Fault("spread") \/ Fault("balance")
       \/ SomeToSell(st.pos) /\ Fault("send")
       \/ st.pos = 0 /\ NoFault
    /\ plan' = Gated(plan) /\ seen' = NoBalance
    /\ UNCHANGED <<venueVars, st, paused, policyIn, durVars, openIds, todo,
                   rescued, quotaSells, bought, sold, foreign, asked, crashes>>

\* The venue sold, but the reply was lost: for the bot nothing was sold.
StopReplyLost ==
    /\ StopDone /\ st.pos > 0 /\ Fault("reply")
    /\ \E b \in Shown, a \in 1..free :
         /\ a = SmallerOf(b, st.pos)
         /\ free' = free - a /\ sold' = sold + a
    /\ seen' = NoBalance
    /\ plan' = Gated(plan)
    /\ UNCHANGED <<status, filled, amount, st, paused, policyIn, durVars,
                   openIds, todo, rescued, quotaSells, bought, foreign, asked,
                   crashes>>

AfterStopBug(s) == s
AfterStop(s) == [s EXCEPT !.pos = 0]

\* The position is closed at market, for what the balance shows of it (which
\* may be nothing); the policy is told and the decision dropped.
StopSold ==
    /\ StopDone /\ st.pos > 0 /\ NoFault
    /\ \E b \in Shown, a \in 0..free :
         /\ a = SmallerOf(b, st.pos)
         /\ free' = free - a /\ sold' = sold + a
    /\ seen' = NoBalance
    /\ st' = AfterStop(st) /\ policyIn' = FALSE
    /\ plan' = [NoPlan EXCEPT !.snap = plan.snap, !.cancel = plan.cancel]
    /\ UNCHANGED <<status, filled, amount, paused, durVars, openIds, todo,
                   rescued, quotaSells, bought, foreign, asked, crashes>>

-----------------------------------------------------------------------------
(* Tick: the sell ladder (3aa)                                             *)

\* The ladder order leaves the books whatever the venue answered.
CancelLadder(o) ==
    /\ pc = "ladder" /\ o \in plan.cancelSell
    /\ plan' = [plan EXCEPT !.cancelSell = @ \ {o}]
    /\ CancelOutcome(o)
    /\ st' = DropSell(st, o)
    /\ asked' = asked \cup {o}
    /\ UNCHANGED <<paused, policyIn, seen, durVars, pc, openIds, todo, rescued,
                   quotaSells, bought, sold, foreign, crashes>>

LadderReady == pc = "ladder" /\ plan.cancelSell = {}

\* One unit of the free asset offered above the market: accepted, refused (by
\* the venue when the asset is not there), or accepted with the reply lost.
PlaceLadder(o) ==
    /\ LadderReady /\ plan.ladder > 0 /\ IsNext(o, SellIds)
    /\ plan' = [plan EXCEPT !.ladder = @ - 1]
    /\ \/ /\ free >= 1 /\ AcceptSell(o, 1) /\ NoFault
          /\ st' = [st EXCEPT !.sells = @ \cup {o}]
       \/ free >= 1 /\ AcceptSell(o, 1) /\ Fault("reply") /\ UNCHANGED st
       \/ free < 1 /\ NoFault /\ UNCHANGED <<venueVars, st, seen>>
       \/ Fault("send") /\ UNCHANGED <<venueVars, st, seen>>
    /\ UNCHANGED <<paused, policyIn, durVars, pc, openIds, todo, rescued,
                   quotaSells, bought, sold, foreign, asked, crashes>>

-----------------------------------------------------------------------------
(* Tick: fills, _process_fills, run before the pre-flight on the tick's    *)
(* snapshot ("buys1", "sells1") and after placing on a fresh list          *)
(* ("buys2", "sells2").  Orders in the list are taken as still open.       *)

UnresolvedBug(book, ids) == {}
Unresolved(book, ids) == book \ ids

\* The list the fills are checked against: the tick's snapshot if it has one,
\* else a fresh one; {} if that cannot be had either.
FillsBegin(to, useSnap) ==
    /\ pc' = to
    /\ \/ useSnap /\ NoFault /\ openIds' = openIds
       \/ ~useSnap /\ NoFault /\ openIds' = LiveIds
       \/ ~useSnap /\ Fault("fetch") /\ openIds' = {}
    /\ todo' = Unresolved(st.buys, openIds')
    /\ UNCHANGED <<venueVars, memVars, durVars, plan, rescued, quotaSells,
                   bought, sold, foreign, asked, crashes>>

BeginFills1 ==
    /\ LadderReady /\ (plan.ladder = 0 \/ Exhausted(SellIds))
    /\ FillsBegin("buys1", plan.snap)

InBuys == pc \in {"buys1", "buys2"}
InSells == pc \in {"sells1", "sells2"}

\* fetch_order shows nothing to book: unreadable, still open, or gone.
BuyNotFilled(o) ==
    /\ InBuys /\ o \in todo /\ todo' = todo \ {o}
    /\ \/ Fault("fetch") /\ UNCHANGED st
       \/ NoFault /\ ~HasFill(o)
          /\ st' = IF Terminal(o) THEN DropBuy(st, o) ELSE st
    /\ UNCHANGED <<venueVars, paused, policyIn, seen, durVars, pc, plan,
                   openIds, rescued, quotaSells, bought, sold, foreign, asked,
                   crashes>>

\* Trend: the filled quantity becomes THE position (overwriting any other).
BuyBecomesPosition(o) ==
    /\ StopMonitorato /\ InBuys /\ o \in todo /\ todo' = todo \ {o}
    /\ HasFill(o) /\ NoFault
    /\ st' = [DropBuy(st, o) EXCEPT !.pos = filled[o]]
    /\ policyIn' = TRUE
    /\ Book(o)
    /\ UNCHANGED <<venueVars, paused, seen, disk, pc, plan, openIds, rescued,
                   quotaSells, bought, sold, foreign, asked, crashes>>

\* Grid: the take-profit of the filled quantity is sent; only if the venue
\* answers is the fill booked, but the buy leaves the book in any case.
BuySendsTakeProfit(o) ==
    /\ ~StopMonitorato /\ InBuys /\ o \in todo /\ todo' = todo \ {o}
    /\ HasFill(o)
    /\ \/ \E n \in SellIds :
            /\ IsNext(n, SellIds) /\ free >= filled[o] /\ NoFault
            /\ AcceptSell(n, filled[o])
            /\ st' = [DropBuy(st, o) EXCEPT !.sells = @ \cup {n},
                                            !.tp = @ \cup {n}]
            /\ Book(o)
       \/ \E n \in SellIds :
            /\ IsNext(n, SellIds) /\ free >= filled[o] /\ Fault("reply")
            /\ AcceptSell(n, filled[o])
            /\ st' = DropBuy(st, o) /\ UNCHANGED booked
       \/ /\ (free < filled[o] /\ NoFault) \/ Fault("send")
          /\ st' = DropBuy(st, o) /\ UNCHANGED <<venueVars, seen, booked>>
    /\ UNCHANGED <<paused, policyIn, disk, pc, plan, openIds, rescued,
                   quotaSells, bought, sold, foreign, asked, crashes>>

\* The process dies after the venue took the take-profit and before the journal
\* recorded the fill: the only external effect that precedes its own record.
CrashInTakeProfit(o) ==
    /\ ~StopMonitorato /\ InBuys /\ o \in todo /\ HasFill(o)
    /\ crashes < MaxCrashes /\ crashes' = crashes + 1
    /\ \E n \in SellIds :
         /\ IsNext(n, SellIds) /\ free >= filled[o]
         /\ AcceptSell(n, filled[o])
    /\ pc' = "down"
    /\ st' = FreshState /\ paused' = FALSE /\ policyIn' = FALSE
    /\ TickReset
    /\ UNCHANGED <<durVars, bought, sold, foreign, asked, faults>>

BuysDone ==
    /\ InBuys /\ todo = {}
    /\ pc' = IF pc = "buys1" THEN "sells1" ELSE "sells2"
    /\ todo' = Unresolved(st.sells, openIds)
    /\ UNCHANGED <<venueVars, memVars, durVars, plan, openIds, rescued,
                   quotaSells, bought, sold, foreign, asked, faults, crashes>>

\* A sell with a fill is booked and leaves the book; with an unknown entry
\* price it is journaled as sell_unmeasured, which books no trade.  on_fill
\* makes the trend policy flat.
ResolveSell(o) ==
    /\ InSells /\ o \in todo /\ todo' = todo \ {o}
    /\ \/ /\ Fault("fetch") /\ UNCHANGED <<st, policyIn, booked>>
       \/ /\ NoFault /\ HasFill(o)
          /\ st' = DropSell(st, o)
          /\ policyIn' = FALSE
          /\ IF o \in st.unknown THEN UNCHANGED booked ELSE Book(o)
       \/ /\ NoFault /\ ~HasFill(o)
          /\ st' = IF Terminal(o) THEN DropSell(st, o) ELSE st
          /\ UNCHANGED <<policyIn, booked>>
    /\ UNCHANGED <<venueVars, paused, seen, disk, pc, plan, openIds, rescued,
                   quotaSells, bought, sold, foreign, asked, crashes>>

-----------------------------------------------------------------------------
(* Tick: pre-flight, cancels, new buys                                     *)

SellsDone == InSells /\ todo = {}

\* Post-place fills are the last step before the tick persists.
EndOfFills2 ==
    /\ SellsDone /\ pc = "sells2" /\ pc' = "persist"
    /\ UNCHANGED <<venueVars, memVars, durVars, plan, openIds, todo, rescued,
                   quotaSells, bought, sold, foreign, asked, faults, crashes>>

PreflightOk ==
    /\ SellsDone /\ pc = "sells1" /\ pc' = "exec"
    /\ UNCHANGED <<venueVars, memVars, durVars, plan, openIds, todo, rescued,
                   quotaSells, bought, sold, foreign, asked, faults, crashes>>

\* Not enough capital: the buys of the snapshot priced above the market are
\* canceled, those the venue really cancels leave the book, the tick ends.
PreflightBlocked ==
    /\ SellsDone /\ pc = "sells1" /\ pc' = "persist"
    /\ \E S \in SUBSET {o \in BuyIds : plan.snap /\ o \in openIds /\ Live(o)} :
         /\ status' = [o \in Ids |-> IF o \in S THEN "canceled" ELSE status[o]]
         /\ st' = [st EXCEPT !.buys = @ \ S]
         /\ asked' = asked \cup S
    /\ UNCHANGED <<filled, amount, free, paused, policyIn, seen, durVars, plan,
                   openIds, todo, rescued, quotaSells, bought, sold, foreign,
                   faults, crashes>>

\* A permanent refusal (the order is no longer live) takes the buy off the book
\* just as a successful cancel does; a transient error leaves it there.
CancelBuy(o) ==
    /\ pc = "exec" /\ o \in plan.cancel
    /\ plan' = [plan EXCEPT !.cancel = @ \ {o}]
    /\ \/ CancelAtVenue(o) /\ NoFault /\ st' = DropBuy(st, o)
       \/ ~Live(o) /\ NoFault /\ UNCHANGED venueVars /\ st' = DropBuy(st, o)
       \/ Fault("cancel") /\ UNCHANGED <<venueVars, st>>
    /\ asked' = asked \cup {o}
    /\ UNCHANGED <<paused, policyIn, seen, durVars, pc, openIds, todo, rescued,
                   quotaSells, bought, sold, foreign, crashes>>

ExecReady == pc = "exec" /\ plan.cancel = {}

PlaceBuy(o) ==
    /\ ExecReady /\ plan.place > 0 /\ IsNext(o, BuyIds)
    /\ plan' = [plan EXCEPT !.place = @ - 1]
    /\ \/ /\ AcceptBuy(o) /\ NoFault
          /\ st' = [st EXCEPT !.buys = @ \cup {o}]
       \/ AcceptBuy(o) /\ Fault("reply") /\ UNCHANGED st
       \/ Fault("send") /\ UNCHANGED <<venueVars, st, seen>>
    /\ UNCHANGED <<paused, policyIn, durVars, pc, openIds, todo, rescued,
                   quotaSells, bought, sold, foreign, asked, crashes>>

BeginFills2 ==
    /\ ExecReady /\ (plan.place = 0 \/ Exhausted(BuyIds))
    /\ FillsBegin("buys2", FALSE)

-----------------------------------------------------------------------------
(* Tick: the bot's stop-loss, _trigger_stop_loss                           *)

\* Drawdown past the threshold: latch the flag, then ask the venue about every
\* tracked buy, because the fall that trips the stop also fills them.
StopLossTrips ==
    /\ pc = "idle" /\ StopLossOn /\ ~st.latched
    /\ pc' = "slBuys" /\ todo' = st.buys
    /\ st' = [st EXCEPT !.latched = TRUE] /\ paused' = TRUE
    /\ seen' \in Shown
    /\ UNCHANGED <<venueVars, policyIn, durVars, plan, openIds, rescued,
                   quotaSells, obsVars>>

SlResolve(o) ==
    /\ pc = "slBuys" /\ o \in todo /\ todo' = todo \ {o}
    /\ \/ Fault("fetch") /\ UNCHANGED <<st, booked, rescued>>
       \/ /\ NoFault
          /\ IF HasFill(o) THEN Book(o) ELSE UNCHANGED booked
          /\ rescued' = rescued + filled[o]
          /\ st' = IF Terminal(o) THEN DropBuy(st, o) ELSE st
    /\ UNCHANGED <<venueVars, paused, policyIn, seen, disk, pc, plan, openIds,
                   quotaSells, bought, sold, foreign, asked, crashes>>

\* The quota is photographed before the sells that embody it are canceled.
SlPhotographBug ==
    /\ pc = "slBuys" /\ todo = {} /\ pc' = "slCancel"
    /\ quotaSells' = st.sells /\ todo' = st.sells
    /\ UNCHANGED <<venueVars, memVars, durVars, plan, openIds, rescued,
                   bought, sold, foreign, asked, faults, crashes>>
SlPhotograph ==
    /\ pc = "slBuys" /\ todo = {} /\ pc' = "slCancel"
    /\ quotaSells' = st.sells /\ todo' = st.buys \cup st.sells
    /\ UNCHANGED <<venueVars, memVars, durVars, plan, openIds, rescued,
                   bought, sold, foreign, asked, faults, crashes>>

SlCancel(o) ==
    /\ pc = "slCancel" /\ o \in todo /\ todo' = todo \ {o}
    /\ CancelOutcome(o)
    /\ asked' = asked \cup {o}
    /\ UNCHANGED <<memVars, durVars, pc, plan, openIds, rescued, quotaSells,
                   bought, sold, foreign, crashes>>

\* _quota_vendibile at the photograph, plus the fills rescued.
Quota == st.pos + MapThenSumSet(LAMBDA o : amount[o], quotaSells) + rescued

SlCanceled == pc = "slCancel" /\ todo = {} /\ pc' = "persist"

\* Spread too wide, balance unreadable or sale refused: the flag is taken back
\* so that the next tick tries again.
SlNotSold ==
    /\ SlCanceled
    /\ \/ Fault("spread") \/ Fault("balance")
       \/ SomeToSell(Quota) /\ Fault("send")
    /\ st' = [EmptyBooks(st) EXCEPT !.latched = FALSE] /\ seen' = NoBalance
    /\ UNCHANGED <<venueVars, paused, policyIn, durVars, plan, openIds,
                   todo, rescued, quotaSells, bought, sold, foreign, asked,
                   crashes>>

\* The market sale of what the balance shows of the quota; the flag stays
\* unless the reply was lost.
SlSold ==
    /\ SlCanceled
    /\ \E b \in Shown, a \in 0..free :
         /\ a = SmallerOf(b, Quota)
         /\ free' = free - a /\ sold' = sold + a
         /\ \/ NoFault /\ st' = EmptyBooks(st)
            \/ a > 0 /\ Fault("reply")
               /\ st' = [EmptyBooks(st) EXCEPT !.latched = FALSE]
    /\ seen' = NoBalance
    /\ UNCHANGED <<status, filled, amount, paused, policyIn, durVars, plan,
                   openIds, todo, rescued, quotaSells, bought, foreign, asked,
                   crashes>>

-----------------------------------------------------------------------------
Init ==
    /\ status = [o \in Ids |-> "none"]
    /\ filled = [o \in Ids |-> 0]
    /\ amount = [o \in Ids |-> 0]
    /\ free = 0
    /\ st = FreshState /\ paused = FALSE /\ policyIn = FALSE /\ seen = NoBalance
    \* no state file yet
    /\ disk = [FreshState EXCEPT !.named = FALSE]
    /\ booked = [o \in Ids |-> 0]
    /\ pc = "down"
    /\ plan = NoPlan /\ openIds = {} /\ todo = {}
    /\ rescued = 0 /\ quotaSells = {}
    /\ bought = 0 /\ sold = 0 /\ foreign = 0 /\ asked = {}
    /\ faults = 0 /\ crashes = 0

Environment ==
    \/ \E o \in Ids : VenueFill(o) \/ VenueExpire(o) \/ LeftoverSell(o)
    \/ Deposit \/ SafeMode

OrderStep(o) ==
    \/ StopCancel(o) \/ CancelLadder(o) \/ PlaceLadder(o)
    \/ BuyNotFilled(o) \/ BuyBecomesPosition(o) \/ BuySendsTakeProfit(o)
    \/ ResolveSell(o) \/ CancelBuy(o) \/ PlaceBuy(o)
    \/ SlResolve(o) \/ SlCancel(o)

BotStep ==
    \/ Boot \/ Persist
    \/ TickBlocked \/ TickDecides
    \/ StopNotSold \/ StopReplyLost \/ StopSold
    \/ BeginFills1 \/ BuysDone \/ EndOfFills2
    \/ PreflightOk \/ PreflightBlocked \/ BeginFills2
    \/ StopLossTrips \/ SlPhotograph \/ SlNotSold \/ SlSold
    \/ \E o \in Ids : OrderStep(o)

Next ==
    \/ Environment \/ BotStep
    \/ Crash \/ \E o \in BuyIds : CrashInTakeProfit(o)

Spec == Init /\ [][Next]_vars

\* run() catches every exception of a tick and calls the next one, and the
\* service manager restarts the process: the bot never stops taking steps.
\* The venue owes nothing.
FairSpec == Spec /\ WF_vars(BotStep)
-----------------------------------------------------------------------------
(* Properties                                                              *)

\* The books of a BotState agree with each other.
GoodBooks(s) ==
    s \in States /\ s.tp \subseteq s.sells /\ s.unknown \subseteq s.sells

\* Every variable has its type; in the books of the bot, what is a take-profit
\* or has an unknown entry price is one of the open sells (a record popped from
\* one dictionary but not the others would keep counting as quota or ladder).
TypeOK ==
    /\ status \in [Ids -> {"none", "open", "closed", "canceled"}]
    /\ filled \in [Ids -> Nat] /\ amount \in [Ids -> Nat]
    /\ \A o \in Ids : filled[o] <= amount[o]
    /\ free \in Nat /\ seen \in Nat \cup {NoBalance}
    /\ GoodBooks(st) /\ GoodBooks(disk)
    /\ paused \in BOOLEAN /\ policyIn \in BOOLEAN
    /\ booked \in [Ids -> Nat]
    /\ pc \in Pcs /\ plan \in Plans
    /\ openIds \subseteq Ids /\ todo \subseteq Ids /\ quotaSells \subseteq SellIds
    /\ rescued \in Nat /\ bought \in Nat /\ sold \in Nat /\ foreign \in Nat
    /\ asked \subseteq Ids
    /\ faults \in Nat /\ crashes \in Nat

\* R3b and "resta per sempre in open_buys": while the process is up, every order
\* live at the venue is in the books of the bot, whatever crashed, filled or was
\* canceled before.  (Lost replies, cancels that fail, partial fills and orders
\* of others break this.)
LiveOrdersTracked ==
    pc # "down" => \A o \in Ids : Live(o) => o \in st.buys \cup st.sells

\* The same when cancellations may fail.  The ladder's and the stop's orders leave
\* the books whatever the venue answers to their cancellation: what is live and in
\* no book is one of those.  (An order asked to be canceled and still live is one
\* whose cancellation failed.)
LiveOrdersKnown ==
    pc # "down" => \A o \in Ids : Live(o) => o \in st.buys \cup st.sells \cup asked

\* grid.py contract 3 (C7): never more than Levels buys live at the venue, those
\* left over by a failed cancellation aside, even across a crash between a cancel
\* and the save of the state.
LiveBuysWithinLevels == Cardinality({o \in BuyIds : Live(o)} \ asked) <= Levels

\* A fill is booked in the journal at most once per life of the process: only a
\* crash between the journal record and the state file repeats a booking.
BookedOncePerLife == \A o \in Ids : booked[o] <= crashes + 1

\* "cancella ordini + vendita asset + ferma": once the stop-loss is on disk the
\* bot has no live order left, and gets none, but those whose cancellation failed
\* and, when a restart finds a buy among these, the take-profit of its fill.
StoppedBookIsFlat ==
    disk.latched =>
      \A o \in Ids : Live(o) =>
        \/ o \in asked
        \/ o \in st.tp /\ \E b \in BuyIds \cap asked : booked[b] > 0

\* "Flag persistente per non ripetere dopo un restart" (stop-loss): once the flag
\* is on disk no order is opened any more, whatever the guardian does to
\* trading_paused and across restarts.
StopIsPersistent ==
    [][disk.latched => \A o \in Ids : Live(o)' => Live(o)]_vars

\* Q4, "il riempito e' denaro vero e non deve sparire dallo stato": a buy the
\* venue filled, even in part, is still tracked or has been booked.
FilledBuyAccounted ==
    pc # "down" =>
      \A o \in BuyIds : filled[o] > 0 => o \in st.buys \/ booked[o] > 0

\* The same, for the buys the bot never asked to cancel.
UncanceledFillAccounted ==
    pc # "down" =>
      \A o \in BuyIds \ asked : filled[o] > 0 => o \in st.buys \/ booked[o] > 0

\* _quota_vendibile, "non si vende mai piu' di cio' che il bot ha comprato": the
\* units that left through the bot's sells never exceed those its buys brought in.
\* (A drawdown stop sells the position and leaves it in the state, for the
\* monitored stop to sell again: it holds of a bot that has one of the two.)
SoldWithinBought == sold <= bought

\* Without the drawdown stop, a sale whose reply is lost is tried again, and one
\* the state file does not know of is made again after a restart: each failure,
\* and each crash, costs one position at most.
ExcessSalesHaveCause == sold <= bought + Size * (faults + crashes)

\* The tracked position is there: between ticks the account has its units free.
PositionBacked == pc = "idle" => st.pos <= free

\* _ripristina_posizione: while the process is up, a position in the state is one
\* the policy knows of; a policy that believed itself flat would publish no stop
\* for it and would buy again, overwriting it.
PositionKnownToPolicy == pc # "down" /\ st.pos > 0 => policyIn

\* What the bot promises of its orders and its journal, whatever fails and dies
\* (OrderLedger): what is placed keeps its size, only fills are journaled, one
\* at most for an order and a life, and a take-profit is of the size of its fill.
Ledger == INSTANCE OrderLedger WITH
    Orders <- Ids,
    stage <- status,
    size <- amount,
    fills <- filled,
    records <- booked,
    lives <- crashes + 1
ImplementsLedger == Ledger!Spec

\* A tick passes the gates (and is not the drawdown stop's).
TickGoesOn == pc = "idle" /\ pc' \in {"stop", "ladder"}

\* If ticks keep passing the gates, a buy of the state file that was filled, whole
\* or in part, and is no longer open is eventually booked, even if the process
\* crashes once in between, unless the bot asked to cancel it.  While the gates
\* are shut (a breaker that stays open) no fill is looked at.
FilledBuyBooked ==
    []<><<TickGoesOn>>_vars =>
      \A o \in BuyIds :
        (o \in disk.buys /\ filled[o] > 0 /\ status[o] # "open")
          ~> (booked[o] > 0 \/ o \in asked)
=============================================================================
