----------------------------- MODULE TrendTask -----------------------------
(***************************************************************************)
(* The trend policy (denaro/domain/trend.py) as its bot runs it: the bars  *)
(* it builds from ticks, the candles the OHLCV loop replaces them with,    *)
(* the signal read when a bar closes, the buy that waits for a fill and    *)
(* the stop that only the process and its state file know                  *)
(* (denaro/application/orchestrator.py, denaro/denaro_node.py).            *)
(*                                                                         *)
(* A bar is the time its period starts at: which bars the policy holds     *)
(* decides the signal's window, and whether a close beats the channel and  *)
(* the EMA is left open (MayBreakOut).  The clock counts half periods: the *)
(* venue's candles begin with the periods of the clock or halfway through  *)
(* them (Phase), and the policy learns which from the candles it is given. *)
(*                                                                         *)
(* The ATR takes any of a few values each time it is computed.  Prices are *)
(* integers; the account holds one position at most, of one unit.  Replies *)
(* are never lost here (BotTask has that), and no limit sell of an older   *)
(* version is left on the book.                                            *)
(*                                                                         *)
(* An operator XBug, defined before X, is X with a plausible coding error. *)
(***************************************************************************)
EXTENDS Integers, FiniteSets, Sequences

CONSTANTS
    Canale,         \* bars of the channel
    AtrPeriod,      \* bars of the ATR
    MinHistory,     \* candles under which aggiorna_storico keeps the old bars
    MaxBarre,       \* length of the deque
    Prices,         \* prices of the market
    Slip,           \* what a buy's limit adds to the price
    Atrs,           \* values the ATR can take
    StopMult,       \* stop_atr_mult
    TrailMult,      \* trail_mult
    Phase,          \* where the venue's candles begin in a period
    FirstClock,     \* when the process first starts
    LastClock,      \* bound: the end of time
    MaxBuys,        \* bound: buys ever sent
    MaxCrashes,     \* bound
    MaxFaults       \* bound: calls that fail, answers that come short

ASSUME TrendAssumption ==
    /\ {Canale, AtrPeriod, MaxBarre} \subseteq Nat \ {0}
    /\ Prices \subseteq Nat \ {0} /\ Atrs \subseteq Nat \ {0}
    /\ {MinHistory, Slip, StopMult, TrailMult} \subseteq Nat
    /\ Phase \in {0, 1} /\ {FirstClock, LastClock} \subseteq Nat \ {0}
    /\ {MaxBuys, MaxCrashes, MaxFaults} \subseteq Nat

VARIABLES
    clock, price,   \* the time, in half periods, and the market
    order,          \* the last buy at the venue: its status and its limit
    held,           \* units of the asset on the account
    lean,           \* beside an open buy the account has less than per_level
    fetch,          \* the starts of the candles the OHLCV loop waits for
    \* of the policy
    barre,          \* starts of the closed bars
    giorno,         \* index of the period of the bar under construction
    offset,         \* offset_barre_s, the phase of its periods
    atr,
    inPosizione, entrata, stop,
    \* of the bot
    pc,
    now,            \* clock read at the head of the tick
    snapshot,       \* whether the open orders it has read hold the buy
    mark,           \* the price it has read
    decision,       \* stop_price, to_cancel, to_place
    st,             \* the books: open buy, its age, the tracked position
    disk,           \* the state file
    \* observers
    sent,           \* buys sent
    outOfStep,      \* candles came while the bar under construction was of
                    \* another period of the venue's than the clock
    floor,          \* the highest stop of the position in force and saved
    faults, crashes

clockVars == <<clock, price>>
venueVars == <<order, held, lean>>
barVars == <<barre, giorno, offset, atr>>
posVars == <<inPosizione, entrata, stop>>
tickVars == <<now, snapshot, mark, decision>>
seenVars == <<sent, outOfStep, floor>>
countVars == <<faults, crashes>>
vars == <<clockVars, venueVars, fetch, barVars, posVars, pc, tickVars, st, disk,
          seenVars, countVars>>

NoDay == -1
NoTime == -1

NoPosition == [entry |-> 0, stop |-> 0]
NoBuy == [limit |-> 0, old |-> FALSE]
\* The books: the tracked buy and whether it has waited SCADENZA_BUY_S, the
\* tracked position, and whether state.symbol is set.
FreshState == [buy |-> NoBuy, pos |-> NoPosition, named |-> TRUE]
Tracked == st.buy.limit > 0
Owns(s) == s.pos.entry > 0

NoDecision == [stop |-> 0, cancel |-> FALSE, place |-> 0]
NoOrder == [status |-> "none", limit |-> 0]

Larger(a, b) == IF a > b THEN a ELSE b
Smaller(a, b) == IF a < b THEN a ELSE b
Fault == faults < MaxFaults /\ faults' = faults + 1
NoFault == faults' = faults

Up == pc # "down"
\* A step of the tick: neither the clock nor the feed moves.
At(label) == pc = label /\ UNCHANGED <<clockVars, lean, fetch, outOfStep, crashes>>
GoTo(label) == pc' = label

\* What a tick has read and decided ends with it.
NoTick == now' = NoTime /\ snapshot' = FALSE /\ mark' = 0 /\ decision' = NoDecision

-----------------------------------------------------------------------------
\* The bars and what is read from them.

\* A deque with maxlen.
Kept(s) == SubSeq(s, Larger(1, Len(s) - MaxBarre + 1), Len(s))

\* The period a time falls in, and the start of one.
Index(time, phase) == (time - phase) \div 2
Start(index, phase) == 2 * index + phase

\* What fetch_ohlcv returns at a time: the last candle is still forming.
Forming(time) == Start(Index(time, Phase), Phase)
Candles(time) == {Start(index, Phase) : index \in 0 .. Index(time, Phase)}

Increasing(s) == \A i, j \in DOMAIN s : i < j => s[i] < s[j]

\* The sort of precarica_barre, which keeps one candle of each period.
InOrder(starts) == CHOOSE s \in [1 .. Cardinality(starts) -> starts] : Increasing(s)

\* It drops the candle of the current period, in the phase of the candles.
ClosedBug(candles) == InOrder(candles)
Closed(candles) == InOrder({s \in candles : s < Forming(clock)})

\* _aggiorna_indicatori.
NewAtr(bars) == IF Len(bars) > AtrPeriod THEN Atrs ELSE {0}

\* segnale_breakout, up to what the prices of the bars say.
MayBreakOut(bars, a) == Len(bars) > Canale /\ a > 0

-----------------------------------------------------------------------------
\* The stop.

\* on_fill, sell_target.
InitialStop(entry, a) ==
    IF a > 0 THEN entry - StopMult * a ELSE (entry * 9) \div 10

\* What the books say of a buy just filled, before any decide.
BookedStop(entry, a) ==
    LET s == InitialStop(entry, a) IN IF 0 < s /\ s < entry THEN s ELSE 0

\* trailing_stop.
Trailing(s, a) == IF a > 0 THEN Larger(s, mark' - TrailMult * a) ELSE s

\* ripristina_posizione.
RestoredStop(entry, s, a) ==
    IF 0 < s /\ s < entry THEN s ELSE InitialStop(entry, a)

-----------------------------------------------------------------------------
\* The market, the venue and the clock.

Around == UNCHANGED <<barVars, posVars, pc, tickVars, sent, floor, faults>>

Turn ==
    /\ clock < LastClock /\ clock' = clock + 1
    /\ UNCHANGED <<price, venueVars, fetch, st, disk, outOfStep, crashes>> /\ Around

Move ==
    /\ \E p \in Prices \ {price} : price' = p
    /\ UNCHANGED <<clock, venueVars, fetch, st, disk, outOfStep, crashes>> /\ Around

Fill ==
    /\ order.status = "open" /\ price <= order.limit
    /\ order' = [order EXCEPT !.status = "filled"] /\ held' = held + 1
    /\ UNCHANGED <<clockVars, lean, fetch, st, disk, outOfStep, crashes>> /\ Around

Aged(s) == IF s.buy.limit > 0 THEN [s EXCEPT !.buy.old = TRUE] ELSE s

\* SCADENZA_BUY_S passes over a tracked buy.
Age ==
    /\ st' = Aged(st) /\ disk' = Aged(disk)
    /\ UNCHANGED <<clockVars, venueVars, fetch, outOfStep, crashes>> /\ Around

-----------------------------------------------------------------------------
\* The OHLCV loop.

Request ==
    /\ Up /\ fetch = {}
    /\ \/ NoFault /\ fetch' = Candles(clock)
       \/ Fault /\ fetch' = {Forming(clock)}
    /\ UNCHANGED <<clockVars, venueVars, barVars, posVars, pc, tickVars, st, disk,
                   seenVars, crashes>>

\* The bar under construction, and the one a tick that has read the clock is
\* about to begin, are of the venue's current period.
InStep ==
    /\ giorno \in {NoDay, Index(clock, Phase)}
    /\ pc = "reading" => Index(now, Phase) = Index(clock, Phase)

\* on_ohlcv: the answer replaces the bars unless it is too short, and its
\* phase becomes the policy's either way.
Answer ==
    /\ Up /\ fetch # {} /\ fetch' = {}
    /\ offset' = Phase /\ UNCHANGED giorno
    /\ LET closed == Closed(fetch)
       IN  IF Len(closed) < MinHistory
             THEN /\ UNCHANGED <<barre, atr>>
                  /\ outOfStep' = (outOfStep \/ (offset # Phase /\ ~InStep))
             ELSE /\ barre' = Kept(closed) /\ atr' \in NewAtr(barre')
                  /\ outOfStep' = ~InStep
    /\ UNCHANGED <<clockVars, venueVars, posVars, pc, tickVars, st, disk, sent,
                   floor, countVars>>

-----------------------------------------------------------------------------
\* The tick: its reads and the decision.

TickStarts ==
    /\ At("idle") /\ GoTo("reading")
    /\ now' = clock
    /\ UNCHANGED <<order, held, barVars, posVars, snapshot, mark, decision, st, disk,
                   sent, floor, faults>>

\* The early returns of the tick: no price, no balance, an open breaker, which
\* stays open for as long as the loss lasts.
TickBlocked ==
    /\ At("reading") /\ GoTo("save") /\ NoFault
    /\ UNCHANGED <<order, held, barVars, posVars, tickVars, st, disk, sent, floor>>

\* The balance, the open orders and the price; a list that cannot be read is
\* empty, and each order is then asked for.
Reads ==
    /\ mark' = price /\ UNCHANGED <<now, order, held, disk, sent, floor>>
    /\ \/ NoFault /\ snapshot' = (order.status = "open")
       \/ Fault /\ snapshot' = FALSE

\* _aggiorna: whether this tick is the first of a new bar.
Reached == Index(now, offset)
NewBar == giorno # NoDay /\ Reached # giorno

Builds ==
    /\ giorno' = Reached /\ UNCHANGED offset
    /\ IF NewBar
         THEN /\ barre' = Kept(Append(barre, Start(giorno, offset)))
              /\ atr' \in NewAtr(barre')
         ELSE UNCHANGED <<barre, atr>>

\* The price has gone through the stop.
CrossedBug == mark' < stop'
Crossed == mark' <= stop'

\* decide publishes the stop of a position, and the state keeps it unless a
\* sale is to be tried first.
Publishes ==
    /\ decision' = [NoDecision EXCEPT !.stop = stop']
    /\ IF stop' > 0 /\ Crossed
         THEN GoTo("stop") /\ UNCHANGED st
         ELSE /\ GoTo("fills1")
              /\ st' = IF stop' > 0 /\ Owns(st) THEN [st EXCEPT !.pos.stop = stop'] ELSE st

Decides == At("reading") /\ Reads /\ Builds

\* In position: the trailing stop.
Holds ==
    /\ Decides /\ inPosizione
    /\ stop' = Trailing(stop, atr')
    /\ UNCHANGED <<inPosizione, entrata>>
    /\ Publishes

\* Flat, with asset that nothing explains.
Unexplained == ~inPosizione /\ atr' > 0 /\ held > 0 /\ ~Tracked

Adopts ==
    /\ Decides /\ Unexplained
    /\ inPosizione' = TRUE /\ entrata' = mark'
    /\ stop' = mark' - StopMult * atr'
    /\ Publishes

Flat ==
    /\ Decides /\ ~inPosizione /\ ~Unexplained
    /\ UNCHANGED <<posVars, st>> /\ GoTo("fills1")

\* The signal of a buy that has waited too long has expired.
ExpiredBug == Tracked /\ st.buy.old /\ NewBar
Expired == Tracked /\ st.buy.old

GivesUp ==
    /\ Flat /\ Expired
    /\ decision' = [NoDecision EXCEPT !.cancel = TRUE]

Enters ==
    /\ sent < MaxBuys
    /\ Flat /\ ~Tracked /\ NewBar /\ MayBreakOut(barre', atr')
    /\ decision' = [NoDecision EXCEPT !.place = mark' + Slip]

\* No new bar, no breakout, no budget, a buy that waits, or no trade allowed.
Waits == Flat /\ ~Expired /\ decision' = NoDecision

-----------------------------------------------------------------------------
\* _esegui_stop_monitorato.

\* The spread, the balance or the sale stops it, or there is no position to sell.
StopNotSold ==
    /\ At("stop") /\ GoTo("fills1")
    /\ IF Owns(st) THEN Fault /\ st' = [st EXCEPT !.pos.stop = decision.stop]
                   ELSE NoFault /\ UNCHANGED st
    /\ UNCHANGED <<order, held, barVars, posVars, tickVars, disk, sent, floor>>

FlatPolicy == inPosizione' = FALSE /\ entrata' = 0 /\ stop' = 0

StopSold ==
    /\ At("stop") /\ Owns(st) /\ GoTo("fills1") /\ NoFault
    /\ held' = Larger(0, held - 1)
    /\ st' = [st EXCEPT !.pos = NoPosition]
    /\ FlatPolicy /\ floor' = 0
    /\ UNCHANGED <<order, barVars, tickVars, disk, sent>>

-----------------------------------------------------------------------------
\* _process_fills, before and after the orders of the tick.

AfterFills == IF pc \in {"fills1", "notify1"} THEN "exec" ELSE "save"
Dropped(s) == [s EXCEPT !.buy = NoBuy]

\* Nothing tracked, an order the list still shows, or one that cannot be read.
NoNews ==
    /\ \/ ~Tracked /\ NoFault
       \/ Tracked /\ pc = "fills1" /\ snapshot /\ NoFault
       \/ Tracked /\ order.status = "open" /\ NoFault
       \/ Tracked /\ Fault
    /\ GoTo(AfterFills) /\ UNCHANGED st

Gone ==
    /\ Tracked /\ order.status = "canceled" /\ NoFault
    /\ GoTo(AfterFills) /\ st' = Dropped(st)

\* The position enters the books, and the journal, before the policy knows.
Booked ==
    /\ Tracked /\ order.status = "filled" /\ ~(pc = "fills1" /\ snapshot) /\ NoFault
    /\ st' = [st EXCEPT !.pos = [entry |-> st.buy.limit,
                                 stop |-> BookedStop(st.buy.limit, atr)]]
    /\ GoTo(IF pc = "fills1" THEN "notify1" ELSE "notify2")

Resolve ==
    /\ \E label \in {"fills1", "fills2"} : At(label)
    /\ NoNews \/ Gone \/ Booked
    /\ UNCHANGED <<order, held, barVars, posVars, tickVars, disk, sent, floor>>

Notify ==
    /\ \E label \in {"notify1", "notify2"} : At(label)
    /\ inPosizione' = TRUE /\ entrata' = st.pos.entry
    /\ stop' = InitialStop(st.pos.entry, atr)
    /\ st' = Dropped(st) /\ floor' = 0 /\ GoTo(AfterFills)
    /\ UNCHANGED <<order, held, barVars, tickVars, disk, sent, faults>>

-----------------------------------------------------------------------------
\* The pre-flight and the orders of the tick.  The venue has a minimum order,
\* so the pre-flight runs at every tick.

Exec == At("exec") /\ UNCHANGED <<barVars, posVars, tickVars, disk, floor>>

CancelOpen(s) == [s EXCEPT !.status = "canceled"]

\* A buy of the list above the market blocks the tick, and is canceled if the
\* venue still can.
Speculative == snapshot /\ order.limit > mark

PreflightCancels ==
    /\ Exec /\ Speculative /\ GoTo("save")
    /\ \/ /\ order.status = "open" /\ NoFault
          /\ order' = CancelOpen(order) /\ st' = Dropped(st)
       \/ /\ order.status # "open" /\ NoFault /\ UNCHANGED <<order, st>>
       \/ /\ Fault /\ UNCHANGED <<order, st>>
    /\ UNCHANGED <<held, sent>>

\* per_level exceeds what is free: the funds are in the buy, or in the asset.
Short == lean /\ (order.status = "open" \/ held > 0)

PreflightBlocked ==
    /\ Exec /\ ~Speculative /\ Short /\ GoTo("save") /\ NoFault
    /\ UNCHANGED <<order, held, st, sent>>

PreflightOk == Exec /\ ~Speculative /\ ~Short

NothingToDo ==
    /\ PreflightOk /\ ~decision.cancel /\ decision.place = 0
    /\ GoTo("fills2") /\ NoFault
    /\ UNCHANGED <<order, held, st, sent>>

\* A refusal of the venue is permanent: the buy leaves the books.
Cancel ==
    /\ PreflightOk /\ decision.cancel /\ GoTo("fills2")
    /\ \/ NoFault /\ st' = Dropped(st)
          /\ order' = IF order.status = "open" THEN CancelOpen(order) ELSE order
       \/ Fault /\ UNCHANGED <<order, st>>
    /\ UNCHANGED <<held, sent>>

Sends ==
    /\ order' = [status |-> "open", limit |-> decision.place]
    /\ sent' = sent + 1

Place ==
    /\ PreflightOk /\ decision.place > 0 /\ GoTo("fills2")
    /\ \/ NoFault /\ Sends
          /\ st' = [st EXCEPT !.buy = [limit |-> decision.place, old |-> FALSE]]
       \/ Fault /\ UNCHANGED <<order, sent, st>>
    /\ UNCHANGED held

\* _persist, whose failure the tick survives.
Save ==
    /\ At("save") /\ GoTo("idle")
    /\ \/ NoFault /\ disk' = st
          /\ floor' = IF Owns(st) THEN Larger(floor, Smaller(st.pos.stop, stop)) ELSE 0
       \/ Fault /\ UNCHANGED <<disk, floor>>
    /\ NoTick
    /\ UNCHANGED <<order, held, barVars, posVars, st, sent>>

-----------------------------------------------------------------------------
\* Death of the process, and its restart.

Dies ==
    /\ Up /\ crashes < MaxCrashes /\ crashes' = crashes + 1
    /\ pc' = "down" /\ fetch' = {}
    /\ barre' = <<>> /\ giorno' = NoDay /\ offset' = 0 /\ atr' = 0 /\ FlatPolicy
    /\ st' = FreshState /\ outOfStep' = FALSE
    /\ NoTick
    /\ UNCHANGED <<clockVars, lean, held, disk, floor, faults>>

Crash == Dies /\ UNCHANGED <<order, sent>>

\* The order has left, its reply finds nobody.
CrashInPlace ==
    pc = "exec" /\ ~Speculative /\ ~Short /\ decision.place > 0 /\ Dies /\ Sends

\* _load_state: from_dict drops the symbol, and a file without one is ignored.
Loaded == IF disk.named THEN [disk EXCEPT !.named = FALSE] ELSE FreshState

\* _rebuild_from_exchange: an open buy is tracked from now.
Rebuilt(s) ==
    IF order.status = "open"
      THEN [s EXCEPT !.buy = [limit |-> order.limit, old |-> FALSE]] ELSE s

\* _riconcilia_posizione.
Reconciled(s) == IF held = 0 THEN [s EXCEPT !.pos = NoPosition] ELSE s

RestoredBug(s) == [entry |-> s.pos.entry, stop |-> 0]
Restored(s) == s.pos

\* Node: the bars are preloaded; BotTask: the state, the policy's position, the
\* open buy, the balance.  At most one of the three calls fails.
Boot ==
    /\ pc = "down" /\ GoTo("idle")
    /\ \E preload, list, balance \in BOOLEAN :
         /\ IF preload /\ list /\ balance THEN NoFault ELSE Fault
         /\ Cardinality({b \in {"p", "l", "b"} : \/ b = "p" /\ ~preload
                                                 \/ b = "l" /\ ~list
                                                 \/ b = "b" /\ ~balance}) <= 1
         /\ barre' = IF preload THEN Kept(Closed(Candles(clock))) ELSE <<>>
         /\ offset' = IF preload THEN Phase ELSE offset
         /\ atr' \in NewAtr(barre')
         /\ LET found == IF list THEN Rebuilt(Loaded) ELSE Loaded
            IN  st' = IF balance THEN Reconciled(found) ELSE found
    /\ IF Owns(st')
         THEN LET pos == Restored(st')
              IN  /\ inPosizione' = TRUE /\ entrata' = pos.entry
                  /\ stop' = RestoredStop(pos.entry, pos.stop, atr')
         ELSE FlatPolicy
    /\ floor' = IF Owns(st') THEN floor ELSE 0
    /\ UNCHANGED <<clockVars, venueVars, fetch, giorno, tickVars, disk, sent,
                   outOfStep, crashes>>

-----------------------------------------------------------------------------
Init ==
    /\ clock = FirstClock /\ price \in Prices
    /\ order = NoOrder /\ held = 0 /\ lean \in BOOLEAN
    /\ fetch = {} /\ barre = <<>> /\ giorno = NoDay /\ offset = 0 /\ atr = 0
    /\ inPosizione = FALSE /\ entrata = 0 /\ stop = 0
    /\ pc = "down"
    /\ now = NoTime /\ snapshot = FALSE /\ mark = 0 /\ decision = NoDecision
    /\ st = FreshState
    \* no state file yet
    /\ disk = [FreshState EXCEPT !.named = FALSE]
    /\ sent = 0 /\ outOfStep = FALSE /\ floor = 0
    /\ faults = 0 /\ crashes = 0

Tick ==
    \/ TickStarts \/ TickBlocked
    \/ Holds \/ Adopts \/ GivesUp \/ Enters \/ Waits
    \/ StopNotSold \/ StopSold
    \/ Resolve \/ Notify
    \/ PreflightCancels \/ PreflightBlocked \/ NothingToDo \/ Cancel \/ Place
    \/ Save

Next ==
    \/ Turn \/ Move \/ Fill \/ Age
    \/ Request \/ Answer
    \/ Tick \/ Boot
    \/ Crash \/ CrashInPlace

\* run() survives every exception of a tick, the service manager restarts the
\* process, and time passes.  The market and the venue owe nothing.
Spec == Init /\ [][Next]_vars /\ WF_vars(Tick \/ Boot) /\ WF_vars(Age)

-----------------------------------------------------------------------------
(* Properties                                                              *)

\* precarica_barre, "la giornata in corso finisce due volte nella storia ... e
\* canale e ATR risultano falsati": the bars are of different periods, in
\* order, unless the last candles to replace them, or to change the phase, came
\* while the bar under construction was of another of the venue's periods:
\* between the end of a period and the tick that ends its bar, or when the
\* phase had been missing since a failed preload.
BarsInOrder == outOfStep \/ Increasing(barre)

\* trailing_stop, "Sale e non scende": no stop in force that was saved for a
\* position is undercut later, across restarts and failed preloads, unless
\* it had risen to the entry.  A stop below a price of 1 is none.
StopSurvives ==
    Up /\ Owns(st) /\ inPosizione /\ 0 < floor /\ floor < entrata => stop >= floor

\* The tick gets past its gates.
TickGoesOn == pc = "reading" /\ pc' \in {"stop", "fills1"}

\* A buy that has waited too long "va cancellato SUBITO, non al prossimo
\* breakout": while ticks keep getting past their gates it is, or fills, unless
\* the account is too lean for the pre-flight to let the tick go on, or a
\* restart could not read the open orders.
ExpiredBuyCanceled ==
    []<><<TickGoesOn>>_vars =>
        ((Tracked /\ st.buy.old) ~> (order.status # "open" \/ lean \/ (Up /\ ~Tracked)))

\* "se il prezzo lo attraversa, la posizione si chiude a MERCATO": while ticks
\* keep getting past their gates, a tracked position the market stays below
\* the stop of is closed.
StopCloses ==
    []<><<TickGoesOn>>_vars =>
        ((Up /\ Owns(st) /\ price <= stop) ~> (~Owns(st) \/ price > stop))
=============================================================================
