----------------------------- MODULE PaperProofs -----------------------------
(***************************************************************************)
(* What is proved of the paper bot for any prices, latency, time to live   *)
(* and number of restarts.                                                 *)
(*                                                                         *)
(* Two invariants, of two halves of the state: HourInv says how old what   *)
(* the hub and the bot hold can be, OrderInv how an order's state at the   *)
(* exchange, in the books, on the disk and in the journal go together.     *)
(***************************************************************************)
EXTENDS PaperMarket, FiniteSetTheorems, TLAPS

Pcs == {"idle", "price", "answer", "fills", "act", "list again", "fills again", "save"}

-----------------------------------------------------------------------------
(* How old a price is                                                      *)

HubTypes ==
    /\ now \in 0 .. MaxTime /\ market \in Prices /\ moves \in 0 .. MaxMoves
    /\ cache \in [last : Lasts, seen : -1 .. MaxTime, ts : -1 .. MaxTime]
    /\ flight \in Tickers /\ shot \in Tickers
    /\ channel \in {"ws", "rest"} /\ retries \in 0 .. WsMaxRetries - 1
    /\ pc \in Pcs /\ age \in Nat

\* An answer under way is not older than the latency.
OnTime(t) == t # NoTicker => t.seen \in 0 .. now /\ now - t.seen <= Latency

(* PriceFresh is not inductive: the age is that of the cache, which counts  *)
(* from the arrival of an answer that had been under way.                   *)
HourInv ==
    /\ HubTypes
    /\ OnTime(flight) /\ OnTime(shot)
    /\ cache # NotCached =>
         /\ cache.ts \in 0 .. now /\ cache.seen \in 0 .. cache.ts
         /\ cache.ts - cache.seen <= Latency
    /\ PriceFresh

LEMMA PaperBounds ==
    /\ Prices \subseteq Nat /\ WsMaxRetries \in Nat \ {0}
    /\ PriceTtl \in Nat /\ Latency \in Nat /\ MaxTime \in Nat /\ MaxMoves \in Nat
    /\ MaxOrders \in Nat /\ MaxRestarts \in Nat
BY PaperAssumption

LEMMA NoTickerType == NoTicker \in Tickers /\ ~(NoTicker.last > 0)
BY PaperBounds DEF NoTicker, Tickers, Lasts

LEMMA TickerOnTime ==
    ASSUME HubTypes
    PROVE  /\ Ticker \in Tickers /\ Ticker # NoTicker
           /\ Ticker.seen = now /\ Ticker.last = market
BY PaperBounds DEF HubTypes, Ticker, NoTicker, Tickers, Lasts

\* A ticker that is on time goes to the cache.
LEMMA CachedOnTime ==
    ASSUME HubTypes, NEW t \in Tickers, t # NoTicker, OnTime(t)
    PROVE  /\ Cached(t) \in [last : Lasts, seen : -1 .. MaxTime, ts : -1 .. MaxTime]
           /\ Cached(t).ts \in 0 .. now /\ Cached(t).seen \in 0 .. Cached(t).ts
           /\ Cached(t).ts - Cached(t).seen <= Latency
BY PaperBounds DEF HubTypes, Tickers, Cached, OnTime

\* What is decided on a price seen early enough.
LEMMA DecideOnTime ==
    ASSUME HubTypes, NEW t, Decide(t), t.seen \in 0 .. now,
           now - t.seen <= PriceTtl + Latency
    PROVE  pc' \in Pcs /\ age' \in Nat /\ PriceFresh'
<1>1. CASE t.last > 0
  <2>1. pc' = "fills" /\ age' = now - t.seen
    BY <1>1 DEF Decide, Goto
  <2>2. age' \in Nat /\ age' <= PriceTtl + Latency
    BY <2>1, PaperBounds DEF HubTypes
  <2> QED
    BY <2>1, <2>2 DEF PriceFresh, Pcs
<1>2. CASE ~(t.last > 0)
  <2>1. pc' = "save" /\ age' = age
    BY <1>2 DEF Decide, Goto
  <2> QED
    BY <2>1 DEF HubTypes, PriceFresh, Pcs
<1> QED
  BY <1>1, <1>2

LEMMA InitHourInv == Init => HourInv
BY PaperBounds, NoTickerType
   DEF Init, HourInv, HubTypes, OnTime, PriceFresh, NotCached, Lasts, Pcs

LEMMA WorldKeepsHourInv ==
    ASSUME HourInv, \/ Tick \/ Restart \/ Hub
                    \/ \E p \in Prices : Move(p)
    PROVE  HourInv'
<1> USE PaperBounds DEF HourInv
<1>1. ASSUME Tick PROVE HourInv'
  <2>1. /\ UNCHANGED <<market, moves, cache, channel, retries, flight, shot, pc, age>>
        /\ now' = now + 1 /\ now' \in 0 .. MaxTime /\ now \in 0 .. MaxTime
        /\ InTime(flight) /\ InTime(shot)
    BY <1>1 DEF Tick, hubVars, Elsewhere, readVars, HubTypes
  <2>2. ASSUME NEW t, OnTime(t), InTime(t), t # NoTicker
        PROVE  t.seen \in 0 .. now' /\ now' - t.seen <= Latency
    BY <2>1, <2>2 DEF OnTime, InTime
  <2>3. OnTime(flight)' /\ OnTime(shot)'
    BY <2>1, <2>2 DEF OnTime, NoTicker
  <2> QED
    BY <2>1, <2>3 DEF HubTypes, PriceFresh, NotCached
<1>2. ASSUME Restart PROVE HourInv'
  <2>1. /\ UNCHANGED <<market, moves, now>> /\ cache' = NotCached /\ channel' = "ws"
        /\ retries' = 0 /\ flight' = NoTicker /\ shot' = NoTicker /\ pc' = "idle"
        /\ age' = 0
    BY <1>2 DEF Restart, marketVars, Goto
  <2>2. OnTime(flight)' /\ OnTime(shot)' /\ flight' \in Tickers /\ shot' \in Tickers
    BY <2>1, NoTickerType DEF OnTime, NoTicker
  <2>3. cache' \in [last : Lasts, seen : -1 .. MaxTime, ts : -1 .. MaxTime]
    BY <2>1 DEF NotCached, Lasts
  <2>4. PriceFresh' /\ HubTypes'
    <3>1. 0 \in 0 .. WsMaxRetries - 1
      OBVIOUS
    <3> QED
      BY <2>1, <2>2, <2>3, <3>1 DEF PriceFresh, HubTypes, Pcs
  <2> QED
    BY <2>1, <2>2, <2>4 DEF NotCached
<1>3. ASSUME NEW p \in Prices, Move(p) PROVE HourInv'
  <2>1. UNCHANGED <<now, cache, channel, retries, flight, shot, pc, age>>
        /\ market' \in Prices /\ moves' \in 0 .. MaxMoves
    BY <1>3 DEF Move, hubVars, Elsewhere, readVars, HubTypes
  <2> QED
    BY <2>1 DEF HubTypes, OnTime, PriceFresh, NoTicker, NotCached
<1>4. ASSUME Watch PROVE HourInv'
  <2>1. /\ UNCHANGED <<market, moves, now, cache, channel, retries, shot, pc, age>>
        /\ flight' = Ticker
    BY <1>4 DEF Watch, marketVars, Elsewhere, readVars
  <2>2. OnTime(flight)' /\ OnTime(shot)' /\ flight' \in Tickers
    BY <2>1, TickerOnTime DEF OnTime, HubTypes, NoTicker
  <2> QED
    BY <2>1, <2>2 DEF HubTypes, PriceFresh, NotCached
<1>5. ASSUME Broadcast PROVE HourInv'
  <2>1. /\ UNCHANGED <<market, moves, now, channel, shot, pc, age>>
        /\ flight # NoTicker /\ flight' = NoTicker /\ cache' = Cached(flight)
        /\ retries' = 0
    BY <1>5 DEF Broadcast, marketVars, readVars
  <2>2. OnTime(flight)' /\ OnTime(shot)' /\ flight' \in Tickers
    BY <2>1, NoTickerType DEF OnTime, HubTypes, NoTicker
  <2>3. /\ cache' \in [last : Lasts, seen : -1 .. MaxTime, ts : -1 .. MaxTime]
        /\ cache'.ts \in 0 .. now /\ cache'.seen \in 0 .. cache'.ts
        /\ cache'.ts - cache'.seen <= Latency
    BY <2>1, CachedOnTime DEF HubTypes
  <2> QED
    BY <2>1, <2>2, <2>3 DEF HubTypes, PriceFresh
<1>6. ASSUME ChannelFails PROVE HourInv'
  <2>1. /\ UNCHANGED <<market, moves, now, cache, shot, pc, age>>
        /\ flight' = NoTicker
        /\ \/ UNCHANGED channel /\ retries' = retries + 1 /\ retries + 1 < WsMaxRetries
           \/ channel' = "rest" /\ retries' = 0
    BY <1>6 DEF ChannelFails, marketVars, Elsewhere, readVars
  <2>2. OnTime(flight)' /\ OnTime(shot)' /\ flight' \in Tickers
    BY <2>1, NoTickerType DEF OnTime, HubTypes, NoTicker
  <2>3. channel' \in {"ws", "rest"} /\ retries' \in 0 .. WsMaxRetries - 1
    BY <2>1 DEF HubTypes
  <2> QED
    BY <2>1, <2>2, <2>3 DEF HubTypes, PriceFresh, NotCached
<1> QED
  BY <1>1, <1>2, <1>3, <1>4, <1>5, <1>6 DEF Hub

\* A step of the bot that asks for no price.
Quiet ==
    /\ UNCHANGED <<now, market, moves, cache, channel, retries, flight, shot>>
    /\ pc' \in Pcs
    /\ \/ age' = 0
       \/ age' = age /\ (pc' \in {"fills", "act"} => pc \in {"fills", "act"})

LEMMA QuietKeepsHourInv ==
    ASSUME HourInv, Quiet
    PROVE  HourInv'
BY PaperBounds DEF HourInv, Quiet, HubTypes, OnTime, PriceFresh, NoTicker, NotCached

LEMMA BotKeepsHourInv ==
    ASSUME HourInv, Bot
    PROVE  HourInv'
<1> USE PaperBounds DEF HourInv
<1>1. ASSUME CachedPrice PROVE HourInv'
  <2>1. /\ UNCHANGED <<now, market, moves, cache, channel, retries, flight, shot>>
        /\ Decide(cache) /\ Fresh
    BY <1>1 DEF CachedPrice, marketVars, hubVars
  <2>2. cache.seen \in 0 .. now /\ now - cache.seen <= PriceTtl + Latency
    BY <2>1 DEF Fresh, HubTypes
  <2>3. pc' \in Pcs /\ age' \in Nat /\ PriceFresh'
    BY <2>1, <2>2, DecideOnTime
  <2> QED
    BY <2>1, <2>3 DEF HubTypes, OnTime, NoTicker, NotCached
<1>2. ASSUME AskPrice PROVE HourInv'
  <2>1. /\ UNCHANGED <<now, market, moves, cache, channel, retries, flight, age>>
        /\ shot' = Ticker /\ pc' = "answer"
    BY <1>2 DEF AskPrice, marketVars, hubVars, readVars, Goto
  <2>2. OnTime(flight)' /\ OnTime(shot)' /\ shot' \in Tickers
    BY <2>1, TickerOnTime DEF OnTime, HubTypes, NoTicker
  <2> QED
    BY <2>1, <2>2 DEF HubTypes, PriceFresh, NotCached, Pcs
<1>3. ASSUME PriceAnswered PROVE HourInv'
  <2>1. /\ UNCHANGED <<now, market, moves, channel, retries, flight>>
        /\ shot.last > 0 /\ shot' = NoTicker /\ cache' = Cached(shot) /\ Decide(shot)
    BY <1>3 DEF PriceAnswered, marketVars
  <2>2. shot # NoTicker
    BY <2>1, NoTickerType
  <2>3. OnTime(flight)' /\ OnTime(shot)' /\ shot' \in Tickers
    BY <2>1, NoTickerType DEF OnTime, HubTypes, NoTicker
  <2>4. /\ cache' \in [last : Lasts, seen : -1 .. MaxTime, ts : -1 .. MaxTime]
        /\ cache'.ts \in 0 .. now /\ cache'.seen \in 0 .. cache'.ts
        /\ cache'.ts - cache'.seen <= Latency
    BY <2>1, <2>2, CachedOnTime DEF HubTypes
  <2>5. shot.seen \in 0 .. now /\ now - shot.seen <= PriceTtl + Latency
    BY <2>2 DEF OnTime, HubTypes
  <2>6. pc' \in Pcs /\ age' \in Nat /\ PriceFresh'
    BY <2>1, <2>5, DecideOnTime
  <2> QED
    BY <2>1, <2>3, <2>4, <2>6 DEF HubTypes
<1>4. ASSUME PriceMissing PROVE HourInv'
  <2>1. /\ UNCHANGED <<now, market, moves, cache, channel, retries, flight, age>>
        /\ shot' = NoTicker /\ pc' = "save"
    BY <1>4 DEF PriceMissing, marketVars, hubVars, readVars, Goto
  <2>2. OnTime(flight)' /\ OnTime(shot)' /\ shot' \in Tickers
    BY <2>1, NoTickerType DEF OnTime, HubTypes, NoTicker
  <2> QED
    BY <2>1, <2>2 DEF HubTypes, PriceFresh, NotCached, Pcs
<1>5. ASSUME ListOrders \/ PassDone \/ Acted \/ Save PROVE Quiet
  BY <1>5 DEF ListOrders, PassDone, Acted, Save, Goto, Quiet, marketVars, hubVars,
     readVars, Pcs, HubTypes
<1>6. ASSUME NEW o \in SentIds,
             NotFilled(o) \/ BuyFilled(o) \/ SellFilled(o) \/ CancelBuy(o)
      PROVE  Quiet
  BY <1>6 DEF NotFilled, BuyFilled, SellFilled, CancelBuy, Quiet, marketVars, hubVars,
     readVars, HubTypes
<1>7. ASSUME PlaceBuy PROVE Quiet
  BY <1>7 DEF PlaceBuy, Quiet, marketVars, hubVars, HubTypes
<1> QED
  BY <1>1, <1>2, <1>3, <1>4, <1>5, <1>6, <1>7, QuietKeepsHourInv DEF Bot

LEMMA HourInvHolds == Spec => []HourInv
<1>1. ASSUME HourInv, [Next]_vars PROVE HourInv'
  <2>1. CASE UNCHANGED vars
    BY <1>1, <2>1 DEF HourInv, HubTypes, OnTime, PriceFresh, NoTicker, NotCached, vars,
       marketVars, hubVars, readVars
  <2>2. CASE Next
    BY <1>1, <2>2, WorldKeepsHourInv, BotKeepsHourInv DEF Next
  <2> QED
    BY <1>1, <2>1, <2>2
<1> QED
  BY <1>1, InitHourInv, PTL DEF Spec

\* No tick decides on a price older than the TTL of the cache and the longest way
\* of an answer together, whatever answers overtake each other (market_data.py).
THEOREM PriceSafety == Spec => []PriceFresh
<1>1. HourInv => PriceFresh
  BY DEF HourInv
<1> QED
  BY <1>1, HourInvHolds, PTL

-----------------------------------------------------------------------------
(* An order at the exchange, in the books, on the disk and in the journal  *)

Statuses == {"none", "open", "filled", "canceled"}
Sent == [side : {"buy", "sell"}, at : Nat]
Tracked == buys \cup sells
Booked == Range(journal)

OrderTypes ==
    /\ orders \in [Ids -> Statuses] /\ asset \in Int
    /\ sent \in Seq(Sent) /\ Len(sent) <= MaxOrders
    /\ plan \in [cancel : SUBSET SentIds, place : Nat]
    /\ snapshot \subseteq SentIds /\ resolving \subseteq SentIds
    /\ buys \subseteq SentIds /\ sells \subseteq SentIds
    /\ savedBuys \subseteq SentIds /\ savedSells \subseteq SentIds
    /\ journal \in Seq(SentIds)
    /\ filled \subseteq SentIds /\ canceled \subseteq SentIds
    /\ orphans \subseteq SentIds /\ lost \subseteq SentIds
    /\ fictions \in Int /\ restarts \in 0 .. MaxRestarts

\* An id that is not sent yet is new to the exchange.
NewIds == \A o \in Ids \ SentIds : orders[o] = "none"

SidesApart ==
    /\ \A o \in buys \cup savedBuys : sent[o].side = "buy"
    /\ \A o \in sells \cup savedSells : sent[o].side = "sell"

\* What the exchange says of an order has happened; what it has open is neither
\* filled nor booked.
StatusTrue ==
    /\ \A o \in Ids : orders[o] = "filled" => o \in filled
    /\ \A o \in Ids : orders[o] = "canceled" => o \in canceled
    /\ \A o \in Ids : orders[o] = "open" => o \notin Booked /\ o \notin filled

\* A tracked order that the exchange knows is not booked, and one that it does not
\* know has been tracked over a restart.
TrackedOnce ==
    \A o \in Tracked : IF orders[o] = "none" THEN o \in orphans ELSE o \notin Booked

\* No order goes astray.
Followed == \A o \in SentIds : o \in Booked \cup Tracked \cup canceled \cup lost

OrderInv ==
    /\ OrderTypes /\ NewIds /\ SidesApart /\ StatusTrue /\ TrackedOnce /\ Followed
    /\ BookedWereFilled

Unbooked == {o \in filled : orders[o] # "none"} \ Booked

LEMMA AccountIs ==
    AccountFollowsJournal <=>
        asset = Records("buy") - Records("sell")
                + Count(Unbooked, "buy") - Count(Unbooked, "sell") - fictions
BY DEF AccountFollowsJournal, Records, Unbooked, Booked

LEMMA BookedAppend ==
    ASSUME NEW o \in SentIds, OrderTypes
    PROVE  /\ Append(journal, o) \in Seq(SentIds)
           /\ Range(Append(journal, o)) = Booked \cup {o}
<1>1. /\ Append(journal, o) \in Seq(SentIds)
      /\ Len(Append(journal, o)) = Len(journal) + 1 /\ Len(journal) \in Nat
      /\ Append(journal, o)[Len(journal) + 1] = o
      /\ \A i \in 1 .. Len(journal) : Append(journal, o)[i] = journal[i]
      /\ DOMAIN Append(journal, o) = 1 .. Len(journal) + 1
      /\ DOMAIN journal = 1 .. Len(journal)
  BY DEF OrderTypes
<1> QED
  BY <1>1 DEF Booked, Range

LEMMA BookedSent == OrderTypes => Booked \subseteq SentIds
<1> SUFFICES ASSUME OrderTypes PROVE Booked \subseteq SentIds
  OBVIOUS
<1>1. \A i \in DOMAIN journal : journal[i] \in SentIds
  BY DEF OrderTypes
<1> QED
  BY <1>1 DEF Booked, Range

LEMMA SentOrders ==
    ASSUME OrderTypes
    PROVE  SentIds \subseteq Ids /\ Len(sent) \in Nat
BY PaperBounds DEF OrderTypes, SentIds, Ids

\* Of the orders that the pass resolves only those that the exchange has filled or
\* does not know are booked.
LEMMA ToBook ==
    ASSUME OrderTypes, NEW o \in SentIds, Resolved(o) \in {"closed", "filled"}
    PROVE  orders[o] \in {"none", "filled"}
BY SentOrders DEF Resolved, FetchOrder, OrderTypes, Statuses

LEMMA ToDrop ==
    ASSUME OrderTypes, NEW o \in SentIds, Resolved(o) = "canceled"
    PROVE  orders[o] = "canceled"
BY SentOrders DEF Resolved, FetchOrder, OrderTypes, Statuses

\* What is sent takes the next id and is open; the orders before it are as they were.
LEMMA Sending ==
    ASSUME OrderTypes, NEW side \in {"buy", "sell"}, NEW at \in Nat,
           CreateLimitOrder(side, at)
    PROVE  /\ sent' \in Seq(Sent) /\ Len(sent') = Len(sent) + 1 /\ Len(sent') <= MaxOrders
           /\ Len(sent') \in Ids /\ Len(sent') \notin SentIds
           /\ SentIds' = SentIds \cup {Len(sent')}
           /\ sent'[Len(sent')].side = side
           /\ \A o \in SentIds : sent'[o] = sent[o]
           /\ orders' = [orders EXCEPT ![Len(sent')] = "open"]
           /\ orders' \in [Ids -> Statuses]
<1>1. /\ sent' = Append(sent, [side |-> side, at |-> at]) /\ Len(sent) < MaxOrders
      /\ orders' = [orders EXCEPT ![Len(sent) + 1] = "open"]
  BY DEF CreateLimitOrder
<1>2. /\ sent' \in Seq(Sent) /\ Len(sent') = Len(sent) + 1 /\ Len(sent) \in Nat
      /\ sent'[Len(sent) + 1] = [side |-> side, at |-> at]
      /\ \A o \in 1 .. Len(sent) : sent'[o] = sent[o]
  BY <1>1 DEF OrderTypes, Sent
<1>3. SentIds' = SentIds \cup {Len(sent) + 1} /\ Len(sent) + 1 \in Ids
      /\ Len(sent) + 1 \notin SentIds
  BY <1>1, <1>2, PaperBounds DEF SentIds, Ids
<1> QED
  BY <1>1, <1>2, <1>3, PaperBounds DEF OrderTypes, SentIds, Statuses

LEMMA InitOrderInv == Init => OrderInv /\ AccountFollowsJournal
<1> SUFFICES ASSUME Init PROVE OrderInv /\ AccountFollowsJournal
  OBVIOUS
<1>1. /\ orders = NoOrders /\ asset = 0 /\ snapshot = {} /\ plan = Nothing
      /\ buys = {} /\ sells = {} /\ resolving = {} /\ journal = <<>> /\ savedBuys = {}
      /\ savedSells = {} /\ sent = <<>> /\ filled = {} /\ canceled = {} /\ orphans = {}
      /\ lost = {} /\ fictions = 0 /\ restarts = 0
  BY DEF Init
<1>2. SentIds = {} /\ Booked = {} /\ Len(sent) = 0
  BY <1>1 DEF SentIds, Booked, Range
<1>3. OrderTypes
  BY <1>1, <1>2, PaperBounds DEF OrderTypes, NoOrders, Nothing, Statuses
<1>4. OrderInv
  BY <1>1, <1>2, <1>3
     DEF OrderInv, NewIds, SidesApart, StatusTrue, TrackedOnce, Followed, Tracked,
         BookedWereFilled, Booked, NoOrders
<1>5. Unbooked = {} /\ DOMAIN journal = {}
  BY <1>1 DEF Unbooked
<1>6. \A side : Records(side) = 0 /\ Count(Unbooked, side) = 0
  <2> SUFFICES ASSUME NEW side PROVE Records(side) = 0 /\ Count(Unbooked, side) = 0
    OBVIOUS
  <2>1. {i \in DOMAIN journal : sent[journal[i]].side = side} = {}
        /\ {o \in Unbooked : sent[o].side = side} = {}
    BY <1>5
  <2> QED
    BY <2>1, FS_EmptySet DEF Records, Count
<1> QED
  BY <1>1, <1>4, <1>6, AccountIs

-----------------------------------------------------------------------------
(* The steps of the books                                                  *)

\* A step that sends, books, fills and cancels nothing; a save may take the books.
Idle ==
    /\ UNCHANGED <<orders, asset, sent, buys, sells, journal, filled, canceled, orphans, lost,
                   fictions, restarts>>
    /\ savedBuys' \in {savedBuys, buys} /\ savedSells' \in {savedSells, sells}
    /\ plan' \in [cancel : SUBSET SentIds, place : Nat]
    /\ snapshot' \subseteq SentIds /\ resolving' \subseteq SentIds

LEMMA IdleKeepsOrderInv ==
    ASSUME OrderInv, Idle
    PROVE  OrderInv'
<1>1. OrderTypes'
  BY DEF OrderInv, OrderTypes, Idle, SentIds
<1>2. (NewIds /\ StatusTrue /\ TrackedOnce /\ Followed /\ BookedWereFilled)'
  BY DEF OrderInv, NewIds, StatusTrue, TrackedOnce, Followed, BookedWereFilled, Idle,
     SentIds, Booked, Tracked
<1>3. SidesApart'
  BY DEF OrderInv, SidesApart, Idle
<1> QED
  BY <1>1, <1>2, <1>3 DEF OrderInv

\* What a decision is about.
LEMMA DecideIdle ==
    ASSUME OrderTypes, HubTypes, NEW t, t.last \in Lasts, Decide(t)
    PROVE  /\ plan' \in [cancel : SUBSET SentIds, place : Nat]
           /\ resolving' \subseteq SentIds
<1>1. CASE t.last > 0
  <2>1. plan' \in Decisions(t.last) /\ resolving' = buys \cup sells
    BY <1>1 DEF Decide
  <2>2. t.last - 1 \in Nat
    <3>1. ASSUME NEW p \in Lasts, p > 0 PROVE p - 1 \in Nat
      BY <3>1, PaperBounds DEF Lasts
    <3> QED
      BY <1>1, <3>1
  <2> QED
    BY <2>1, <2>2 DEF Decisions, OrderTypes
<1>2. CASE ~(t.last > 0)
  BY <1>2 DEF Decide, OrderTypes
<1> QED
  BY <1>1, <1>2

LEMMA IdleSteps ==
    ASSUME OrderInv, HubTypes,
           \/ Tick \/ Watch \/ ChannelFails \/ \E p \in Prices : Move(p)
           \/ ListOrders \/ CachedPrice \/ AskPrice \/ PriceAnswered \/ PriceMissing
           \/ PassDone \/ Acted \/ Save \/ UNCHANGED vars
    PROVE  Idle
<1> USE DEF OrderInv, bookVars, diskVars, exchangeVars, pastVars, readVars
<1>0. plan \in [cancel : SUBSET SentIds, place : Nat] /\ snapshot \subseteq SentIds
      /\ resolving \subseteq SentIds
  BY DEF OrderTypes
<1>1. CASE Tick \/ Watch \/ ChannelFails \/ \E p \in Prices : Move(p)
  BY <1>0, <1>1 DEF Tick, Watch, ChannelFails, Move, Elsewhere, Idle
<1>2. CASE ListOrders
  <2>1. FetchOpenOrders \subseteq SentIds
    BY DEF FetchOpenOrders, NewIds
  <2>2. /\ UNCHANGED <<orders, asset, sent, buys, sells, journal, filled, canceled, orphans,
                       lost, fictions, restarts, savedBuys, savedSells, plan>>
        /\ snapshot' = FetchOpenOrders
        /\ resolving' = resolving \/ resolving' = buys \cup sells
    BY <1>2 DEF ListOrders
  <2> QED
    BY <1>0, <2>1, <2>2 DEF Idle, OrderTypes
<1>3. CASE CachedPrice
  <2>1. Decide(cache) /\ cache.last \in Lasts
    BY <1>3 DEF CachedPrice, HubTypes
  <2> QED
    BY <1>0, <1>3, <2>1, DecideIdle DEF CachedPrice, Idle
<1>4. CASE PriceAnswered
  <2>1. Decide(shot) /\ shot.last \in Lasts
    BY <1>4 DEF PriceAnswered, HubTypes, Tickers
  <2> QED
    BY <1>0, <1>4, <2>1, DecideIdle DEF PriceAnswered, Idle
<1>5. CASE AskPrice \/ PriceMissing \/ Acted
  BY <1>0, <1>5 DEF AskPrice, PriceMissing, Acted, Idle
<1>6. CASE PassDone \/ Save
  BY <1>0, <1>6 DEF PassDone, Save, Idle
<1>7. CASE UNCHANGED vars
  BY <1>0, <1>7 DEF vars, Idle
<1> QED
  BY <1>1, <1>2, <1>3, <1>4, <1>5, <1>6, <1>7

\* The price fills orders that are open, so they are not booked yet.
LEMMA BroadcastKeepsOrderInv ==
    ASSUME OrderInv, Broadcast
    PROVE  OrderInv'
<1> DEFINE hit == Crossed(flight.last)
<1>1. hit \subseteq SentIds /\ \A o \in hit : orders[o] = "open"
  BY DEF Crossed
<1>2. /\ orders' = [o \in Ids |-> IF o \in hit THEN "filled" ELSE orders[o]]
      /\ asset' = asset + Count(hit, "buy") - Count(hit, "sell")
      /\ filled' = filled \cup hit
      /\ UNCHANGED <<snapshot, plan, buys, sells, resolving, journal, savedBuys, savedSells,
                     canceled, orphans, lost, restarts, sent, fictions>>
  BY DEF Broadcast, UpdatePrice, readVars, bookVars, diskVars
<1> HIDE DEF hit
<1>3. Count(hit, "buy") \in Nat /\ Count(hit, "sell") \in Nat
  <2>1. IsFiniteSet(SentIds)
    <3> DEFINE n == Len(sent)
    <3>1. n \in Nat
      BY DEF OrderInv, OrderTypes
    <3> HIDE DEF n
    <3> QED
      BY <3>1, FS_Interval DEF SentIds, n
  <2>2. \A side : IsFiniteSet({o \in hit : sent[o].side = side})
    BY <1>1, <2>1, FS_Subset
  <2> QED
    BY <2>2, FS_CardinalityType DEF Count
<1>4. OrderTypes'
  BY <1>1, <1>2, <1>3, SMTT(30) DEF OrderInv, OrderTypes, SentIds, Statuses
<1>5. SentIds' = SentIds /\ Booked' = Booked /\ Tracked' = Tracked
  BY <1>2 DEF SentIds, Booked, Tracked
<1>6. NewIds' /\ SidesApart'
  BY <1>1, <1>2, <1>5 DEF OrderInv, NewIds, SidesApart
<1>7. StatusTrue'
  BY <1>1, <1>2, <1>5 DEF OrderInv, StatusTrue
<1>8. TrackedOnce'
  <2>1. \A o \in Tracked : o \in Ids
    BY SentOrders DEF OrderInv, OrderTypes, Tracked
  <2> QED
    BY <1>1, <1>2, <1>5, <2>1 DEF OrderInv, TrackedOnce, StatusTrue
<1>9. Followed' /\ BookedWereFilled'
  BY <1>2, <1>5 DEF OrderInv, Followed, BookedWereFilled
<1> QED
  BY <1>4, <1>6, <1>7, <1>8, <1>9 DEF OrderInv

LEMMA NotFilledKeepsOrderInv ==
    ASSUME OrderInv, NEW o \in SentIds, NotFilled(o)
    PROVE  OrderInv'
<1>1. /\ UNCHANGED <<orders, asset, sent, journal, filled, canceled, orphans, lost, fictions,
                     restarts, snapshot, plan, savedBuys, savedSells>>
      /\ resolving' = resolving \ {o}
      /\ \/ UNCHANGED <<buys, sells>>
         \/ /\ buys' = buys \ {o} /\ sells' = sells \ {o}
            /\ Resolved(o) = "canceled"
  BY DEF NotFilled, exchangeVars, readVars, diskVars, pastVars
<1>2. OrderTypes' /\ SentIds' = SentIds /\ Booked' = Booked
  BY <1>1 DEF OrderInv, OrderTypes, SentIds, Booked
<1>3. Tracked' = Tracked \/ (Tracked' = Tracked \ {o} /\ o \in canceled)
  <2>1. Resolved(o) = "canceled" => o \in canceled
    BY ToDrop, SentOrders DEF OrderInv, StatusTrue
  <2>2. CASE UNCHANGED <<buys, sells>>
    BY <2>2 DEF Tracked
  <2>3. CASE buys' = buys \ {o} /\ sells' = sells \ {o} /\ Resolved(o) = "canceled"
    BY <2>1, <2>3 DEF Tracked
  <2> QED
    BY <1>1, <2>2, <2>3
<1>4. NewIds' /\ StatusTrue' /\ BookedWereFilled'
  BY <1>1, <1>2 DEF OrderInv, NewIds, StatusTrue, BookedWereFilled, Booked
<1>5. SidesApart'
  BY <1>1 DEF OrderInv, SidesApart
<1>6. TrackedOnce' /\ Followed'
  BY <1>1, <1>2, <1>3 DEF OrderInv, TrackedOnce, Followed
<1> QED
  BY <1>2, <1>4, <1>5, <1>6 DEF OrderInv

LEMMA SellFilledKeepsOrderInv ==
    ASSUME OrderInv, NEW o \in SentIds, SellFilled(o)
    PROVE  OrderInv'
<1>1. /\ UNCHANGED <<orders, asset, sent, filled, canceled, orphans, lost, restarts, snapshot,
                     plan, buys, savedBuys, savedSells>>
      /\ resolving' = resolving \ {o} /\ sells' = sells \ {o} /\ o \in sells
      /\ journal' = Append(journal, o) /\ fictions' = fictions - Unknown(o)
      /\ Resolved(o) \in {"closed", "filled"}
  BY DEF SellFilled, DropSell, exchangeVars, readVars, diskVars, pastVars
<1>2. orders[o] \in {"none", "filled"} /\ Unknown(o) \in Int
  BY <1>1, ToBook DEF OrderInv, Unknown
<1>3. SentIds' = SentIds /\ Booked' = Booked \cup {o} /\ journal' \in Seq(SentIds)
  BY <1>1, BookedAppend DEF OrderInv, SentIds, Booked
<1>4. OrderTypes'
  <2>1. fictions' \in Int
    BY <1>1, <1>2 DEF OrderInv, OrderTypes
  <2> QED
    BY <1>1, <1>3, <2>1 DEF OrderInv, OrderTypes
<1>5. o \notin buys /\ Tracked' = Tracked \ {o} /\ o \in Tracked
  BY <1>1 DEF OrderInv, SidesApart, Tracked
<1>6. NewIds' /\ SidesApart'
  BY <1>1, <1>3 DEF OrderInv, NewIds, SidesApart
<1>7. StatusTrue'
  BY <1>1, <1>2, <1>3 DEF OrderInv, StatusTrue
<1>8. TrackedOnce' /\ Followed'
  BY <1>1, <1>3, <1>5 DEF OrderInv, TrackedOnce, Followed
<1>9. BookedWereFilled'
  BY <1>1, <1>2, <1>3, <1>5, SentOrders
     DEF OrderInv, BookedWereFilled, StatusTrue, TrackedOnce, Booked
<1> QED
  BY <1>4, <1>6, <1>7, <1>8, <1>9 DEF OrderInv

LEMMA BuyFilledKeepsOrderInv ==
    ASSUME OrderInv, NEW o \in SentIds, BuyFilled(o)
    PROVE  OrderInv'
<1> DEFINE new == Len(sent')
<1>1. /\ UNCHANGED <<asset, filled, canceled, orphans, lost, restarts, snapshot, plan,
                     savedBuys, savedSells>>
      /\ resolving' = (resolving \ {o}) \cup {new}
      /\ buys' = buys \ {o} /\ o \in buys /\ sells' = sells \cup {new}
      /\ journal' = Append(journal, o) /\ fictions' = fictions + Unknown(o)
      /\ Resolved(o) \in {"closed", "filled"}
      /\ CreateLimitOrder("sell", sent[o].at + 1)
  BY DEF BuyFilled, readVars, pastVars
<1>2. orders[o] \in {"none", "filled"} /\ Unknown(o) \in Int
  BY <1>1, ToBook DEF OrderInv, Unknown
<1>3. sent[o].at + 1 \in Nat
  <2>1. sent[o] \in Sent
    BY DEF OrderInv, OrderTypes, SentIds
  <2> QED
    BY <2>1 DEF Sent
<1>4. /\ sent' \in Seq(Sent) /\ Len(sent') <= MaxOrders
      /\ new \in Ids /\ new \notin SentIds /\ SentIds' = SentIds \cup {new}
      /\ sent'[new].side = "sell" /\ \A i \in SentIds : sent'[i] = sent[i]
      /\ orders' = [orders EXCEPT ![new] = "open"] /\ orders' \in [Ids -> Statuses]
  BY <1>1, <1>3, Sending DEF OrderInv
<1> HIDE DEF new
<1>5. Booked' = Booked \cup {o} /\ journal' \in Seq(SentIds') /\ new \notin Booked
  <2>1. journal' \in Seq(SentIds) /\ Booked' = Booked \cup {o}
    BY <1>1, BookedAppend DEF OrderInv, Booked
  <2>2. Seq(SentIds) \subseteq Seq(SentIds \cup {new})
    OBVIOUS
  <2> QED
    BY <1>4, <2>1, <2>2, BookedSent DEF OrderInv
<1>6. OrderTypes'
  BY <1>1, <1>2, <1>4, <1>5, SMTT(30) DEF OrderInv, OrderTypes
<1>7. /\ Tracked' = (Tracked \ {o}) \cup {new} /\ o \in Tracked /\ Tracked \subseteq SentIds
      /\ o # new
  BY <1>1, <1>4 DEF OrderInv, OrderTypes, SidesApart, Tracked
<1>8. /\ \A i \in Ids : orders'[i] = IF i = new THEN "open" ELSE orders[i]
      /\ SentIds \subseteq Ids /\ orders[new] = "none"
  BY <1>4, SentOrders DEF OrderInv, OrderTypes, NewIds
<1>9. NewIds'
  BY <1>4, <1>8 DEF OrderInv, NewIds, Ids
<1>10. SidesApart'
  BY <1>1, <1>4 DEF OrderInv, OrderTypes, SidesApart
<1>11. new \notin filled /\ new \notin Booked'
  BY <1>4, <1>5, <1>7 DEF OrderInv, OrderTypes
<1>12. StatusTrue'
  BY <1>1, <1>2, <1>5, <1>8, <1>11 DEF OrderInv, StatusTrue, Ids
<1>15. TrackedOnce'
  <2>1. \A i \in Tracked' :
           orders'[i] = "open" \/ (i \in Tracked \ {o} /\ orders'[i] = orders[i])
    BY <1>4, <1>7, <1>8
  <2>2. \A i \in Tracked \ {o} : i # new
    BY <1>4, <1>7
  <2> QED
    BY <1>1, <1>5, <1>7, <1>8, <1>11, <2>1, <2>2 DEF OrderInv, TrackedOnce
<1>13. Followed'
  BY <1>1, <1>4, <1>5, <1>7 DEF OrderInv, Followed
<1>14. BookedWereFilled'
  BY <1>1, <1>2, <1>5, <1>7, <1>8
     DEF OrderInv, BookedWereFilled, StatusTrue, TrackedOnce, Booked
<1> QED
  BY <1>6, <1>9, <1>10, <1>12, <1>13, <1>14, <1>15 DEF OrderInv

\* What is canceled leaves the books, whether or not it has been filled.
LEMMA CancelBuyKeepsOrderInv ==
    ASSUME OrderInv, NEW o \in SentIds, CancelBuy(o)
    PROVE  OrderInv'
<1>1. /\ UNCHANGED <<asset, sent, journal, filled, orphans, lost, fictions, restarts, snapshot,
                     resolving, sells, savedBuys, savedSells>>
      /\ buys' = buys \ {o} /\ canceled' = canceled \cup {o}
      /\ plan' = [plan EXCEPT !.cancel = @ \ {o}] /\ o \in plan.cancel
      /\ orders' = IF orders[o] = "none" THEN orders ELSE [orders EXCEPT ![o] = "canceled"]
  BY DEF CancelBuy, CancelOrder, diskVars
<1>2. /\ SentIds' = SentIds /\ Booked' = Booked /\ SentIds \subseteq Ids
      /\ \A i \in Ids \ {o} : orders'[i] = orders[i]
      /\ orders'[o] = IF orders[o] = "none" THEN "none" ELSE "canceled"
      /\ orders' \in [Ids -> Statuses]
  BY <1>1, SentOrders DEF SentIds, Booked, OrderInv, OrderTypes, Statuses
<1>3. OrderTypes'
  <2>1. plan' \in [cancel : SUBSET SentIds, place : Nat]
    BY <1>1 DEF OrderInv, OrderTypes
  <2> QED
    BY <1>1, <1>2, <2>1 DEF OrderInv, OrderTypes
<1>4. /\ Tracked' \subseteq Tracked /\ Tracked \ {o} \subseteq Tracked'
      /\ Tracked \subseteq SentIds
  BY <1>1 DEF Tracked, OrderInv, OrderTypes
<1>5. NewIds' /\ SidesApart' /\ StatusTrue' /\ BookedWereFilled'
  BY <1>1, <1>2 DEF OrderInv, NewIds, SidesApart, StatusTrue, BookedWereFilled, Booked
<1>6. TrackedOnce'
  <2>1. \A i \in Tracked' : orders'[i] = "none" <=> orders[i] = "none"
    BY <1>2, <1>4
  <2> QED
    BY <1>1, <1>2, <1>4, <2>1 DEF OrderInv, TrackedOnce
<1>7. Followed'
  BY <1>1, <1>2, <1>4 DEF OrderInv, Followed
<1> QED
  BY <1>3, <1>5, <1>6, <1>7 DEF OrderInv

LEMMA PlaceBuyKeepsOrderInv ==
    ASSUME OrderInv, PlaceBuy
    PROVE  OrderInv'
<1> DEFINE new == Len(sent')
<1>1. /\ UNCHANGED <<asset, sells, filled, canceled, orphans, lost, restarts, snapshot,
                     resolving, journal, savedBuys, savedSells, fictions>>
      /\ buys' = buys \cup {new} /\ plan' = Nothing
      /\ CreateLimitOrder("buy", plan.place)
  BY DEF PlaceBuy, diskVars, pastVars
<1>2. plan.place \in Nat
  BY DEF OrderInv, OrderTypes
<1>3. /\ sent' \in Seq(Sent) /\ Len(sent') <= MaxOrders
      /\ new \in Ids /\ new \notin SentIds /\ SentIds' = SentIds \cup {new}
      /\ sent'[new].side = "buy" /\ \A i \in SentIds : sent'[i] = sent[i]
      /\ orders' = [orders EXCEPT ![new] = "open"] /\ orders' \in [Ids -> Statuses]
  BY <1>1, <1>2, Sending DEF OrderInv
<1> HIDE DEF new
<1>4. Booked' = Booked /\ journal' \in Seq(SentIds') /\ new \notin Booked /\ new \notin filled
  <2>1. Seq(SentIds) \subseteq Seq(SentIds \cup {new})
    OBVIOUS
  <2> QED
    BY <1>1, <1>3, <2>1, BookedSent DEF OrderInv, OrderTypes, Booked
<1>5. OrderTypes'
  <2>1. plan' \in [cancel : SUBSET SentIds', place : Nat]
    BY <1>1 DEF Nothing
  <2> QED
    BY <1>1, <1>3, <1>4, <2>1 DEF OrderInv, OrderTypes
<1>6. Tracked' = Tracked \cup {new} /\ Tracked \subseteq SentIds
  BY <1>1 DEF OrderInv, OrderTypes, Tracked
<1>7. /\ \A i \in Ids : orders'[i] = IF i = new THEN "open" ELSE orders[i]
      /\ SentIds \subseteq Ids
  BY <1>3, SentOrders DEF OrderInv, OrderTypes
<1>8. NewIds'
  BY <1>3, <1>7 DEF OrderInv, NewIds, Ids
<1>9. SidesApart'
  BY <1>1, <1>3 DEF OrderInv, OrderTypes, SidesApart
<1>10. StatusTrue'
  BY <1>1, <1>4, <1>7 DEF OrderInv, StatusTrue, Ids
<1>11. TrackedOnce'
  <2>1. \A i \in Tracked : i # new /\ orders'[i] = orders[i]
    BY <1>3, <1>6, <1>7
  <2>2. orders'[new] = "open"
    BY <1>3, <1>7
  <2> QED
    BY <1>1, <1>4, <1>6, <2>1, <2>2 DEF OrderInv, TrackedOnce
<1>12. Followed' /\ BookedWereFilled'
  BY <1>1, <1>3, <1>4, <1>6 DEF OrderInv, Followed, BookedWereFilled, Booked
<1> QED
  BY <1>5, <1>8, <1>9, <1>10, <1>11, <1>12 DEF OrderInv

\* The records of one side are counted.
LEMMA RecordsFinite ==
    ASSUME OrderTypes, NEW side
    PROVE  /\ IsFiniteSet({i \in DOMAIN journal : sent[journal[i]].side = side})
           /\ Records(side) \in Nat
<1> DEFINE n == Len(journal)
<1>1. n \in Nat /\ DOMAIN journal = 1 .. n
  BY DEF OrderTypes
<1> HIDE DEF n
<1>2. IsFiniteSet(DOMAIN journal)
  BY <1>1, FS_Interval
<1>3. IsFiniteSet({i \in DOMAIN journal : sent[journal[i]].side = side})
  BY <1>2, FS_Subset
<1> QED
  BY <1>3, FS_CardinalityType DEF Records

\* A restart finds no orders; what is tracked comes from the last save.
LEMMA RestartKeepsOrderInv ==
    ASSUME OrderInv, Restart
    PROVE  OrderInv'
<1>1. /\ UNCHANGED <<sent, filled, canceled, journal, savedBuys, savedSells>>
      /\ orders' = NoOrders /\ asset' = Rebuilt /\ snapshot' = {} /\ plan' = Nothing
      /\ buys' = savedBuys /\ sells' = savedSells /\ resolving' = {}
      /\ orphans' = orphans \cup savedBuys \cup savedSells
      /\ lost' = lost \cup (SentIds \ (savedBuys \cup savedSells))
      /\ fictions' = 0 /\ restarts' = restarts + 1 /\ restarts < MaxRestarts
  BY DEF Restart, diskVars
<1>2. SentIds' = SentIds /\ Booked' = Booked /\ Tracked' = savedBuys \cup savedSells
  BY <1>1 DEF SentIds, Booked, Tracked
<1>3. asset' \in Int
  BY <1>1, RecordsFinite DEF OrderInv, Rebuilt
<1>4. plan' \in [cancel : SUBSET SentIds, place : Nat] /\ orders' \in [Ids -> Statuses]
  BY <1>1 DEF Nothing, NoOrders, Statuses
<1>5. restarts' \in 0 .. MaxRestarts
  BY <1>1, PaperBounds DEF OrderInv, OrderTypes
<1>6. OrderTypes'
  BY <1>1, <1>2, <1>3, <1>4, <1>5 DEF OrderInv, OrderTypes
<1>7. NewIds' /\ StatusTrue'
  BY <1>1, <1>2 DEF NewIds, StatusTrue, NoOrders
<1>8. SidesApart'
  BY <1>1 DEF OrderInv, SidesApart
<1>9. TrackedOnce'
  <2>1. Tracked' \subseteq Ids
    BY <1>2, SentOrders DEF OrderInv, OrderTypes
  <2> QED
    BY <1>1, <1>2, <2>1 DEF TrackedOnce, NoOrders
<1>10. Followed' /\ BookedWereFilled'
  BY <1>1, <1>2 DEF OrderInv, Followed, BookedWereFilled, Booked
<1> QED
  BY <1>6, <1>7, <1>8, <1>9, <1>10 DEF OrderInv

LEMMA OrderInvHolds == Spec => []OrderInv
<1>1. ASSUME OrderInv, HourInv, [Next]_vars PROVE OrderInv'
  <2>1. CASE \/ Tick \/ Watch \/ ChannelFails \/ \E p \in Prices : Move(p)
             \/ ListOrders \/ CachedPrice \/ AskPrice \/ PriceAnswered \/ PriceMissing
             \/ PassDone \/ Acted \/ Save \/ UNCHANGED vars
    BY <1>1, <2>1, IdleSteps, IdleKeepsOrderInv DEF HourInv
  <2>2. CASE Broadcast \/ PlaceBuy \/ Restart
    BY <1>1, <2>2, BroadcastKeepsOrderInv, PlaceBuyKeepsOrderInv, RestartKeepsOrderInv
  <2>3. CASE \E o \in SentIds : NotFilled(o) \/ BuyFilled(o) \/ SellFilled(o) \/ CancelBuy(o)
    BY <1>1, <2>3, NotFilledKeepsOrderInv, BuyFilledKeepsOrderInv,
       SellFilledKeepsOrderInv, CancelBuyKeepsOrderInv
  <2> QED
    BY <1>1, <2>1, <2>2, <2>3 DEF Next, Hub, Bot
<1>2. Init => OrderInv
  BY InitOrderInv
<1> QED
  BY <1>1, <1>2, HourInvHolds, PTL DEF Spec

\* Every variable of the hub, the exchange, the bot and the disk keeps its type.
THEOREM PaperTypes == Spec => []TypeOK
<1>1. HourInv /\ OrderInv => TypeOK
  <2> SUFFICES ASSUME HourInv, OrderInv PROVE TypeOK
    OBVIOUS
  <2>1. SentIds \subseteq Ids
    BY SentOrders DEF OrderInv
  <2> QED
    BY <2>1 DEF HourInv, HubTypes, OrderInv, OrderTypes, Statuses, Pcs, TypeOK
<1> QED
  BY <1>1, HourInvHolds, OrderInvHolds, PTL

\* No record of the journal is of an order that was never filled, unless a restart
\* had made the exchange forget the order (paper.py, fetch_order).
THEOREM BookingSafety == Spec => []BookedWereFilled
<1>1. OrderInv => BookedWereFilled
  BY DEF OrderInv
<1> QED
  BY <1>1, OrderInvHolds, PTL

\* A fill is booked, or its order is still tracked, or the bot has canceled it, or a
\* restart has dropped it: no interleaving of the channel with the pass loses one.
THEOREM FollowUpSafety == Spec => []FillsAccounted
<1>1. OrderInv => FillsAccounted
  BY DEF OrderInv, OrderTypes, Followed, FillsAccounted, Tracked, Booked
<1> QED
  BY <1>1, OrderInvHolds, PTL

-----------------------------------------------------------------------------
(* The account and the journal                                             *)

\* Whether an order is of a side, as a number.
One(o, side) == IF sent[o].side = side THEN 1 ELSE 0

LEMMA CountFinite ==
    ASSUME OrderTypes, NEW S \in SUBSET SentIds, NEW side
    PROVE  IsFiniteSet({o \in S : sent[o].side = side}) /\ Count(S, side) \in Nat
<1> DEFINE n == Len(sent)
<1>1. n \in Nat
  BY DEF OrderTypes
<1> HIDE DEF n
<1>2. IsFiniteSet(1 .. n)
  BY <1>1, FS_Interval
<1>3. {o \in S : sent[o].side = side} \subseteq 1 .. n
  BY DEF SentIds, n
<1>4. IsFiniteSet({o \in S : sent[o].side = side})
  BY <1>2, <1>3, FS_Subset
<1> QED
  BY <1>4, FS_CardinalityType DEF Count

LEMMA CountBoth ==
    ASSUME OrderTypes, NEW S \in SUBSET SentIds, NEW T \in SUBSET SentIds, S \cap T = {},
           NEW side
    PROVE  Count(S \cup T, side) = Count(S, side) + Count(T, side)
<1> DEFINE s == {o \in S : sent[o].side = side}
           t == {o \in T : sent[o].side = side}
<1>1. IsFiniteSet(s) /\ IsFiniteSet(t) /\ Cardinality(s) \in Nat /\ Cardinality(t) \in Nat
  BY CountFinite, FS_CardinalityType
<1>2. s \cap t = {} /\ {o \in S \cup T : sent[o].side = side} = s \cup t
  OBVIOUS
<1>3. Count(S \cup T, side) = Cardinality(s \cup t) /\ Count(S, side) = Cardinality(s)
      /\ Count(T, side) = Cardinality(t)
  BY <1>2 DEF Count
<1> HIDE DEF s, t
<1>4. Cardinality(s \cup t) = Cardinality(s) + Cardinality(t) - Cardinality(s \cap t)
  BY <1>1, FS_Union
<1>5. Cardinality(s \cap t) = 0
  BY <1>2, FS_EmptySet
<1> QED
  BY <1>1, <1>3, <1>4, <1>5

LEMMA CountOne ==
    ASSUME NEW o, NEW side
    PROVE  Count({o}, side) = One(o, side)
<1>1. {i \in {o} : sent[i].side = side} = IF sent[o].side = side THEN {o} ELSE {}
  OBVIOUS
<1>2. Cardinality({o}) = 1 /\ Cardinality({}) = 0
  BY FS_Singleton, FS_EmptySet
<1> QED
  BY <1>1, <1>2 DEF Count, One

LEMMA CountLess ==
    ASSUME OrderTypes, NEW S \in SUBSET SentIds, NEW o \in S, NEW side
    PROVE  Count(S, side) = Count(S \ {o}, side) + One(o, side)
<1>1. (S \ {o}) \cup {o} = S /\ (S \ {o}) \cap {o} = {}
  OBVIOUS
<1>2. Count((S \ {o}) \cup {o}, side) = Count(S \ {o}, side) + Count({o}, side)
  BY <1>1, CountBoth
<1> QED
  BY <1>1, <1>2, CountOne

\* The orders sent before keep their side.
SidesKept == \A o \in SentIds : sent'[o] = sent[o]

LEMMA CountKept ==
    ASSUME NEW S \in SUBSET SentIds, SidesKept, Unbooked' = S, NEW side
    PROVE  Count(Unbooked, side)' = Count(S, side)
BY DEF Count, SidesKept

LEMMA RecordsKept ==
    ASSUME OrderTypes, SidesKept, journal' = journal, NEW side
    PROVE  Records(side)' = Records(side)
<1>1. \A i \in DOMAIN journal : journal[i] \in SentIds
  BY DEF OrderTypes
<1>2. {i \in DOMAIN journal : sent'[journal[i]].side = side}
      = {i \in DOMAIN journal : sent[journal[i]].side = side}
  BY <1>1 DEF SidesKept
<1> QED
  BY <1>2 DEF Records

LEMMA RecordsGrow ==
    ASSUME OrderTypes, SidesKept, NEW o \in SentIds, journal' = Append(journal, o), NEW side
    PROVE  Records(side)' = Records(side) + One(o, side)
<1> DEFINE old == {i \in DOMAIN journal : sent[journal[i]].side = side}
           next == {i \in DOMAIN journal' : sent'[journal'[i]].side = side}
           n == Len(journal) + 1
<1>1. /\ n \in Nat /\ DOMAIN journal = 1 .. n - 1 /\ DOMAIN journal' = 1 .. n
      /\ journal'[n] = o /\ \A i \in 1 .. n - 1 : journal'[i] = journal[i]
      /\ \A i \in 1 .. n - 1 : journal[i] \in SentIds
  BY DEF OrderTypes
<1>2. IsFiniteSet(old) /\ Cardinality(old) \in Nat
  BY RecordsFinite, FS_CardinalityType
<1>3. n \notin old
  BY <1>1
<1>4. next = IF sent[o].side = side THEN old \cup {n} ELSE old
  <2> HIDE DEF n
  <2>1. \A i \in 1 .. n - 1 : sent'[journal'[i]] = sent[journal[i]]
    BY <1>1 DEF SidesKept
  <2>2. sent'[journal'[n]] = sent[o]
    BY <1>1 DEF SidesKept
  <2>3. 1 .. n = (1 .. n - 1) \cup {n}
    BY <1>1 DEF n
  <2>4. next \ {n} = old
    BY <1>1, <1>3, <2>1, <2>3
  <2>5. n \in next <=> sent[o].side = side
    BY <1>1, <2>2, <2>3
  <2> QED
    BY <2>4, <2>5
<1>5. Records(side) = Cardinality(old) /\ Records(side)' = Cardinality(next)
  BY DEF Records
<1> HIDE DEF old, next, n
<1>6. Cardinality(old \cup {n}) = Cardinality(old) + 1
  BY <1>2, <1>3, FS_AddElement
<1> QED
  BY <1>2, <1>4, <1>5, <1>6 DEF One

\* The two sides of an account: what was bought and what was sold.
Bought == Records("buy") + Count(Unbooked, "buy")
Gone == Records("sell") + Count(Unbooked, "sell")

Balance ==
    /\ AccountFollowsJournal <=> asset + fictions + Gone = Bought
    /\ Bought \in Nat /\ Gone \in Nat

LEMMA Balances == OrderTypes => Balance
<1> SUFFICES ASSUME OrderTypes PROVE Balance
  OBVIOUS
<1>1. Unbooked \in SUBSET SentIds
  BY DEF OrderTypes, Unbooked
<1>2. /\ Records("buy") \in Nat /\ Records("sell") \in Nat
      /\ Count(Unbooked, "buy") \in Nat /\ Count(Unbooked, "sell") \in Nat
  BY <1>1, RecordsFinite, CountFinite
<1> DEFINE b == Records("buy")  s == Records("sell")
           c == Count(Unbooked, "buy")  d == Count(Unbooked, "sell")
<1>3. AccountFollowsJournal <=> asset = b - s + c - d - fictions
  BY AccountIs
<1>4. Bought = b + c /\ Gone = s + d /\ asset \in Int /\ fictions \in Int
  BY DEF OrderTypes, Bought, Gone
<1> HIDE DEF b, s, c, d
<1>5. b \in Nat /\ s \in Nat /\ c \in Nat /\ d \in Nat
  BY <1>2 DEF b, s, c, d
<1> QED
  BY <1>3, <1>4, <1>5 DEF Balance

LEMMA NextBalances == OrderTypes' => Balance'
BY Balances, PTL

\* What a step does to the two sides, given what it does to the account.
LEMMA AccountStep ==
    ASSUME OrderInv, OrderInv', AccountFollowsJournal,
           asset' + fictions' + Gone' + Bought = asset + fictions + Gone + Bought'
    PROVE  AccountFollowsJournal'
<1>1. asset \in Int /\ fictions \in Int /\ asset' \in Int /\ fictions' \in Int
  BY DEF OrderInv, OrderTypes
<1>2. Balance /\ Balance'
  <2>1. OrderTypes /\ OrderTypes'
    BY DEF OrderInv
  <2> QED
    BY <2>1, Balances, NextBalances
<1> DEFINE before == asset + fictions  after == asset' + fictions'
           b == Bought  c == Bought'  g == Gone  h == Gone'
<1>3. before \in Int /\ after \in Int /\ before + g = b
  BY <1>1, <1>2 DEF Balance
<1>4. b \in Nat /\ g \in Nat /\ c \in Nat /\ h \in Nat
  BY <1>2 DEF Balance
<1>5. after + h + b = before + g + c
  OBVIOUS
<1> HIDE DEF before, after, b, c, g, h
<1>6. after + h = c
  BY <1>3, <1>4, <1>5
<1> QED
  BY <1>2, <1>6 DEF Balance, after, h, c

LEMMA CountsNat ==
    ASSUME OrderTypes, NEW side
    PROVE  /\ Records(side) \in Nat /\ Count(Unbooked, side) \in Nat
           /\ Unbooked \in SUBSET SentIds
<1>1. Unbooked \in SUBSET SentIds
  BY DEF OrderTypes, Unbooked
<1> QED
  BY <1>1, RecordsFinite, CountFinite

\* A step that books nothing and leaves no fill unbooked that was not.
LEMMA QuietKeepsAccount ==
    ASSUME OrderInv, OrderInv', AccountFollowsJournal, SidesKept,
           journal' = journal, Unbooked' = Unbooked, asset' = asset, fictions' = fictions
    PROVE  AccountFollowsJournal'
<1>1. Unbooked \in SUBSET SentIds
  BY CountsNat DEF OrderInv
<1>2. \A side : Count(Unbooked, side)' = Count(Unbooked, side)
  BY <1>1, CountKept
<1>3. \A side : Records(side)' = Records(side)
  BY RecordsKept DEF OrderInv
<1>4. Bought' = Bought /\ Gone' = Gone
  BY <1>2, <1>3 DEF Bought, Gone
<1> QED
  BY <1>4, AccountStep

LEMMA BroadcastKeepsAccount ==
    ASSUME OrderInv, OrderInv', AccountFollowsJournal, Broadcast
    PROVE  AccountFollowsJournal'
<1> DEFINE hit == Crossed(flight.last)
<1>1. hit \in SUBSET SentIds /\ \A o \in hit : orders[o] = "open"
  BY DEF Crossed
<1>2. /\ orders' = [o \in Ids |-> IF o \in hit THEN "filled" ELSE orders[o]]
      /\ asset' = asset + Count(hit, "buy") - Count(hit, "sell")
      /\ filled' = filled \cup hit
      /\ UNCHANGED <<journal, sent, fictions>>
  BY DEF Broadcast, UpdatePrice, diskVars
<1> HIDE DEF hit
<1>3. SidesKept /\ Booked' = Booked /\ Unbooked \in SUBSET SentIds /\ SentIds \subseteq Ids
  BY <1>2, CountsNat, SentOrders DEF SidesKept, Booked, OrderInv
<1>4. hit \cap Booked = {} /\ hit \cap Unbooked = {}
  BY <1>1, <1>3 DEF OrderInv, StatusTrue, Unbooked
<1>5. Unbooked' = Unbooked \cup hit
  <2>1. \A o \in SentIds : orders'[o] = IF o \in hit THEN "filled" ELSE orders[o]
    BY <1>2, <1>3
  <2>2. filled \subseteq SentIds
    BY DEF OrderInv, OrderTypes
  <2> QED
    BY <1>1, <1>2, <1>3, <1>4, <2>1, <2>2 DEF Unbooked
<1>6. ASSUME NEW side
      PROVE  /\ Count(Unbooked, side)' = Count(Unbooked, side) + Count(hit, side)
             /\ Records(side)' = Records(side)
  <2>1. Count(Unbooked, side)' = Count(Unbooked \cup hit, side)
    BY <1>1, <1>3, <1>5, CountKept
  <2> QED
    BY <1>1, <1>2, <1>3, <1>4, <2>1, CountBoth, RecordsKept DEF OrderInv
<1> DEFINE b == Count(Unbooked, "buy")  s == Count(Unbooked, "sell")
           rb == Records("buy")  rs == Records("sell")
           hb == Count(hit, "buy")  hs == Count(hit, "sell")
<1>7. Bought' = rb + (b + hb) /\ Gone' = rs + (s + hs) /\ Bought = rb + b /\ Gone = rs + s
  BY <1>6 DEF Bought, Gone
<1>8. asset' = asset + hb - hs /\ fictions' = fictions
  BY <1>2
<1>9. /\ b \in Nat /\ s \in Nat /\ rb \in Nat /\ rs \in Nat /\ hb \in Nat /\ hs \in Nat
      /\ asset \in Int /\ fictions \in Int
  BY <1>1, CountsNat, CountFinite DEF OrderInv, OrderTypes
<1> HIDE DEF b, s, rb, rs, hb, hs
<1>10. asset' + fictions' + Gone' + Bought = asset + fictions + Gone + Bought'
  BY <1>7, <1>8, <1>9
<1> QED
  BY <1>10, AccountStep

\* What booking an order does to its side: it moves from the fills that are not
\* booked to the records, unless the exchange did not know it.
LEMMA Booking ==
    ASSUME OrderInv, NEW o \in SentIds, o \in Tracked, orders[o] \in {"none", "filled"},
           SidesKept, journal' = Append(journal, o), filled' = filled,
           \A i \in SentIds : orders'[i] = orders[i], NEW side
    PROVE  Records(side)' + Count(Unbooked, side)'
             = Records(side) + Count(Unbooked, side)
               + (IF orders[o] = "none" THEN One(o, side) ELSE 0)
<1>1. Records(side)' = Records(side) + One(o, side)
  BY RecordsGrow DEF OrderInv
<1>2. Booked' = Booked \cup {o}
  BY BookedAppend DEF OrderInv, Booked
<1>3. Unbooked' = Unbooked \ {o}
  BY <1>2 DEF OrderInv, OrderTypes, Unbooked
<1>4. Unbooked \in SUBSET SentIds /\ Records(side) \in Nat /\ Count(Unbooked, side) \in Nat
  BY CountsNat DEF OrderInv
<1>5. Count(Unbooked, side)' = Count(Unbooked \ {o}, side)
  BY <1>3, <1>4, CountKept
<1>6. Count(Unbooked \ {o}, side) \in Nat /\ One(o, side) \in Nat
  BY <1>4, CountFinite DEF OrderInv, One
<1> DEFINE r == Records(side)  next == Records(side)'  one == One(o, side)
           c == Count(Unbooked, side)  later == Count(Unbooked, side)'
           less == Count(Unbooked \ {o}, side)
<1>7. /\ next = r + one /\ later = less
      /\ r \in Nat /\ c \in Nat /\ less \in Nat /\ one \in Nat
  BY <1>1, <1>4, <1>5, <1>6
<1>8. orders[o] = "none" => less = c
  <2>1. orders[o] = "none" => Unbooked \ {o} = Unbooked
    BY DEF Unbooked
  <2> QED
    BY <2>1
<1>9. orders[o] # "none" => c = less + one
  <2>1. orders[o] # "none" => o \in Unbooked
    BY SentOrders DEF OrderInv, StatusTrue, TrackedOnce, Unbooked
  <2> QED
    BY <1>4, <2>1, CountLess DEF OrderInv
<1> HIDE DEF r, next, one, c, later, less
<1>10. next + later = r + c + (IF orders[o] = "none" THEN one ELSE 0)
  BY <1>7, <1>8, <1>9
<1> QED
  BY <1>10 DEF r, next, one, c, later

\* A booked order, seen from its side: a buy of an order that the exchange does not
\* know adds a fiction, a sale takes one.
LEMMA BookedKeepsAccount ==
    ASSUME OrderInv, OrderInv', AccountFollowsJournal, NEW o \in SentIds, o \in Tracked,
           orders[o] \in {"none", "filled"}, SidesKept, journal' = Append(journal, o),
           filled' = filled, \A i \in SentIds : orders'[i] = orders[i], asset' = asset,
           \/ o \in buys /\ fictions' = fictions + Unknown(o)
           \/ o \in sells /\ fictions' = fictions - Unknown(o)
    PROVE  AccountFollowsJournal'
<1> DEFINE u == Unknown(o)
           rb == Records("buy")  cb == Count(Unbooked, "buy")
           rs == Records("sell")  cs == Count(Unbooked, "sell")
           rb2 == Records("buy")'  cb2 == Count(Unbooked, "buy")'
           rs2 == Records("sell")'  cs2 == Count(Unbooked, "sell")'
           ob == One(o, "buy")  os == One(o, "sell")
           none == orders[o] = "none"
<1>1. /\ rb2 + cb2 = rb + cb + (IF none THEN ob ELSE 0)
      /\ rs2 + cs2 = rs + cs + (IF none THEN os ELSE 0)
  BY Booking
<1>2. u = IF none THEN 1 ELSE 0
  BY DEF Unknown
<1>3. \/ ob = 1 /\ os = 0 /\ fictions' = fictions + u
      \/ ob = 0 /\ os = 1 /\ fictions' = fictions - u
  BY DEF OrderInv, SidesApart, One
<1>4. Bought' = rb2 + cb2 /\ Bought = rb + cb /\ Gone' = rs2 + cs2 /\ Gone = rs + cs
  BY DEF Bought, Gone
<1>5. rb \in Nat /\ cb \in Nat /\ rs \in Nat /\ cs \in Nat /\ asset \in Int /\ fictions \in Int
  BY CountsNat DEF OrderInv, OrderTypes
<1> HIDE DEF u, rb, cb, rs, cs, rb2, cb2, rs2, cs2, ob, os, none
<1>6. asset + fictions' + Gone' + Bought = asset + fictions + Gone + Bought'
  <2>1. CASE ob = 1 /\ os = 0 /\ fictions' = fictions + u
    <3>1. rb2 + cb2 = rb + cb + u /\ rs2 + cs2 = rs + cs /\ u \in Nat
      BY <1>1, <1>2, <1>5, <2>1
    <3>2. asset + (fictions + u) + (rs + cs) + (rb + cb) = asset + fictions + (rs + cs) + (rb + cb + u)
      BY <1>5, <3>1
    <3> QED
      BY <1>4, <2>1, <3>1, <3>2
  <2>2. CASE ob = 0 /\ os = 1 /\ fictions' = fictions - u
    <3>1. rb2 + cb2 = rb + cb /\ rs2 + cs2 = rs + cs + u /\ u \in Nat
      BY <1>1, <1>2, <1>5, <2>2
    <3>2. asset + (fictions - u) + (rs + cs + u) + (rb + cb) = asset + fictions + (rs + cs) + (rb + cb)
      BY <1>5, <3>1
    <3> QED
      BY <1>4, <2>2, <3>1, <3>2
  <2> QED
    BY <1>3, <2>1, <2>2
<1> QED
  BY <1>6, AccountStep

LEMMA BotKeepsAccount ==
    ASSUME OrderInv, OrderInv', AccountFollowsJournal, NEW o \in SentIds,
           BuyFilled(o) \/ SellFilled(o) \/ CancelBuy(o) \/ NotFilled(o)
    PROVE  AccountFollowsJournal'
<1>0. SentIds \subseteq Ids /\ filled \subseteq SentIds
  BY SentOrders DEF OrderInv, OrderTypes
<1>1. CASE BuyFilled(o)
  <2>1. /\ o \in buys /\ Resolved(o) \in {"closed", "filled"}
        /\ journal' = Append(journal, o) /\ fictions' = fictions + Unknown(o)
        /\ UNCHANGED <<asset, filled>> /\ CreateLimitOrder("sell", sent[o].at + 1)
    BY <1>1 DEF BuyFilled, pastVars
  <2>2. sent[o].at + 1 \in Nat
    <3>1. sent[o] \in Sent
      BY DEF OrderInv, OrderTypes, SentIds
    <3> QED
      BY <3>1 DEF Sent
  <2>3. SidesKept /\ \A i \in SentIds : orders'[i] = orders[i]
    BY <1>0, <2>1, <2>2, Sending DEF OrderInv, OrderTypes, SidesKept
  <2> QED
    BY <2>1, <2>3, ToBook, BookedKeepsAccount DEF OrderInv, Tracked
<1>2. CASE SellFilled(o)
  <2>1. /\ o \in sells /\ Resolved(o) \in {"closed", "filled"}
        /\ journal' = Append(journal, o) /\ fictions' = fictions - Unknown(o)
        /\ UNCHANGED <<asset, filled, sent, orders>>
    BY <1>2 DEF SellFilled, pastVars, exchangeVars
  <2>2. SidesKept
    BY <2>1 DEF SidesKept
  <2> QED
    BY <2>1, <2>2, ToBook, BookedKeepsAccount DEF OrderInv, Tracked
<1>3. CASE CancelBuy(o)
  <2>1. /\ UNCHANGED <<asset, filled, journal, sent, fictions>>
        /\ orders' = IF orders[o] = "none" THEN orders ELSE [orders EXCEPT ![o] = "canceled"]
    BY <1>3 DEF CancelBuy, CancelOrder, diskVars
  <2>2. \A i \in SentIds : orders'[i] = "none" <=> orders[i] = "none"
    BY <1>0, <2>1 DEF OrderInv, OrderTypes
  <2>3. Unbooked' = Unbooked /\ SidesKept
    BY <1>0, <2>1, <2>2 DEF Unbooked, Booked, SidesKept
  <2> QED
    BY <2>1, <2>3, QuietKeepsAccount
<1>4. CASE NotFilled(o)
  <2>1. UNCHANGED <<asset, filled, journal, sent, orders, fictions>>
    BY <1>4 DEF NotFilled, diskVars, exchangeVars, pastVars
  <2>2. Unbooked' = Unbooked /\ SidesKept
    BY <2>1 DEF Unbooked, Booked, SidesKept
  <2> QED
    BY <2>1, <2>2, QuietKeepsAccount
<1> QED
  BY <1>1, <1>2, <1>3, <1>4

LEMMA PlaceBuyKeepsAccount ==
    ASSUME OrderInv, OrderInv', AccountFollowsJournal, PlaceBuy
    PROVE  AccountFollowsJournal'
<1>1. /\ UNCHANGED <<asset, filled, journal, fictions>>
      /\ CreateLimitOrder("buy", plan.place) /\ plan.place \in Nat
  BY DEF PlaceBuy, diskVars, pastVars, OrderInv, OrderTypes
<1>2. SidesKept /\ \A i \in SentIds : orders'[i] = orders[i]
  BY <1>1, SentOrders, Sending DEF OrderInv, OrderTypes, SidesKept
<1>3. Unbooked' = Unbooked
  BY <1>1, <1>2 DEF Unbooked, Booked, OrderInv, OrderTypes
<1> QED
  BY <1>1, <1>2, <1>3, QuietKeepsAccount

\* The account of a restart is the replay, and no order is known that could have been
\* filled without a record.
LEMMA RestartKeepsAccount ==
    ASSUME OrderInv, OrderInv', Restart
    PROVE  AccountFollowsJournal'
<1>1. /\ UNCHANGED <<sent, filled, journal>> /\ orders' = NoOrders /\ asset' = Rebuilt
      /\ fictions' = 0
  BY DEF Restart, diskVars
<1>2. Unbooked' = {}
  BY <1>1, SentOrders DEF Unbooked, NoOrders, OrderInv, OrderTypes
<1>3. \A side : Count(Unbooked, side)' = 0 /\ Records(side)' = Records(side)
  <2> SUFFICES ASSUME NEW side
               PROVE  Count(Unbooked, side)' = 0 /\ Records(side)' = Records(side)
    OBVIOUS
  <2>1. {o \in Unbooked' : sent'[o].side = side} = {}
    BY <1>2
  <2> QED
    BY <1>1, <2>1, FS_EmptySet DEF Count, Records
<1> DEFINE b == Records("buy")  s == Records("sell")
<1>4. /\ Bought' = b + 0 /\ Gone' = s + 0 /\ asset' = b - s /\ fictions' = 0
      /\ b \in Nat /\ s \in Nat
  BY <1>1, <1>3, CountsNat DEF Bought, Gone, Rebuilt, OrderInv
<1> HIDE DEF b, s
<1>5. asset' + fictions' + Gone' = Bought'
  BY <1>4
<1> QED
  BY <1>5, NextBalances DEF Balance, OrderInv

\* The paper account never drifts from its journal by more than the fills that are
\* still to be booked and what the bot books of orders that a restart has made the
\* exchange forget (paper.py, rebuild and fetch_order).
THEOREM AccountSafety == Spec => []AccountFollowsJournal
<1>1. ASSUME OrderInv, OrderInv', HourInv, AccountFollowsJournal, [Next]_vars
      PROVE  AccountFollowsJournal'
  <2>1. CASE \/ Tick \/ Watch \/ ChannelFails \/ \E p \in Prices : Move(p)
             \/ ListOrders \/ CachedPrice \/ AskPrice \/ PriceAnswered \/ PriceMissing
             \/ PassDone \/ Acted \/ Save \/ UNCHANGED vars
    <3>1. Idle
      BY <1>1, <2>1, IdleSteps DEF HourInv
    <3>2. Unbooked' = Unbooked /\ SidesKept /\ UNCHANGED <<journal, asset, fictions>>
      BY <3>1 DEF Idle, Unbooked, Booked, SidesKept
    <3> QED
      BY <1>1, <3>2, QuietKeepsAccount
  <2>2. CASE Broadcast
    BY <1>1, <2>2, BroadcastKeepsAccount
  <2>3. CASE PlaceBuy
    BY <1>1, <2>3, PlaceBuyKeepsAccount
  <2>4. CASE Restart
    BY <1>1, <2>4, RestartKeepsAccount
  <2>5. CASE \E o \in SentIds : NotFilled(o) \/ BuyFilled(o) \/ SellFilled(o) \/ CancelBuy(o)
    BY <1>1, <2>5, BotKeepsAccount
  <2> QED
    BY <1>1, <2>1, <2>2, <2>3, <2>4, <2>5 DEF Next, Hub, Bot
<1>2. Init => AccountFollowsJournal
  BY InitOrderInv
<1> QED
  BY <1>1, <1>2, HourInvHolds, OrderInvHolds, PTL DEF Spec
=============================================================================
