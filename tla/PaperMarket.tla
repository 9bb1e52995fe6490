---------------------------- MODULE PaperMarket ----------------------------
(***************************************************************************)
(* A paper bot on the prices of the hub: the channel and the cache of      *)
(* MarketDataHub (denaro/infrastructure/market_data.py), the simulated     *)
(* exchange they feed (denaro/infrastructure/exchanges/paper.py) and the   *)
(* part of the tick that places, cancels and books its orders              *)
(* (denaro/application/orchestrator.py), with a restart.                   *)
(*                                                                         *)
(* The bot reaches the exchange from a thread and awaits it, so the        *)
(* channel may fill an order between any two of its calls.  The bot keeps  *)
(* one buy or the take-profit of it; amounts are one unit; cash follows    *)
(* the same fills as the asset and is left out.                            *)
(*                                                                         *)
(* An operator XBug, defined before X, is X with a plausible coding error. *)
(***************************************************************************)
EXTENDS Integers, FiniteSets, Sequences, Functions

CONSTANTS
    Prices,         \* last prices of a ticker; 0 is one that is not valid
    PriceTtl,       \* price_ttl
    Latency,        \* the longest an answer is under way
    WsMaxRetries,   \* ws_max_retries
    MaxTime,        \* bound: the clock
    MaxMoves,       \* bound: changes of the price
    MaxOrders,      \* bound: orders ever sent
    MaxRestarts     \* bound

ASSUME PaperAssumption ==
    /\ Prices \subseteq Nat /\ WsMaxRetries \in Nat \ {0}
    /\ {PriceTtl, Latency, MaxTime, MaxMoves, MaxOrders, MaxRestarts} \subseteq Nat

VARIABLES
    now, market, moves,
    \* of the hub
    cache,      \* _cache of the symbol
    channel,    \* the loop that feeds it
    retries,
    flight,     \* the answer the channel waits for
    \* of the exchange, in memory
    orders,     \* PaperExchange.orders: the status of each
    asset,
    \* of the bot
    pc,
    shot,       \* the answer of get_price's own request
    snapshot,   \* ids of the open orders it has read
    plan,       \* the decision
    buys, sells,    \* state.open_buys and open_sells
    resolving,  \* tracked orders that the pass in progress has still to resolve
    \* on the disk
    journal,    \* the orders of its buy_filled and sell_filled records
    savedBuys, savedSells,
    \* observers
    age,        \* how old the price of the tick was when it was read
    sent,       \* the orders sent so far
    filled,     \* those the exchange has filled
    canceled,   \* those the bot has canceled
    orphans,    \* those tracked over a restart
    lost,       \* those a restart has dropped from the books
    fictions,   \* units booked since the restart with no order that was filled, net
    restarts

hubVars == <<cache, channel, retries, flight>>
exchangeVars == <<orders, asset>>
readVars == <<snapshot, plan, age>>
bookVars == <<buys, sells, resolving>>
diskVars == <<journal, savedBuys, savedSells>>
marketVars == <<now, market, moves>>
pastVars == <<filled, canceled, orphans, lost, restarts>>
vars == <<marketVars, hubVars, exchangeVars, pc, shot, readVars, bookVars, diskVars,
          pastVars, sent, fictions>>

\* A ticker: its last price, and when the venue answered.
Ticker == [last |-> market, seen |-> now]
NoTicker == [last |-> 0, seen |-> -1]
NotCached == [last |-> 0, seen |-> -1, ts |-> -1]

Ids == 1 .. MaxOrders
SentIds == 1 .. Len(sent)

\* A restart finds no orders: they were in memory.
NoOrders == [o \in Ids |-> "none"]

Nothing == [cancel |-> {}, place |-> 0]

Init ==
    /\ now = 0 /\ market \in Prices \ {0} /\ moves = 0
    /\ cache = NotCached /\ channel = "ws" /\ retries = 0 /\ flight = NoTicker
    /\ orders = NoOrders /\ asset = 0
    /\ pc = "idle" /\ shot = NoTicker
    /\ snapshot = {} /\ plan = Nothing /\ age = 0
    /\ buys = {} /\ sells = {} /\ resolving = {}
    /\ journal = <<>> /\ savedBuys = {} /\ savedSells = {}
    /\ sent = <<>> /\ filled = {} /\ canceled = {} /\ orphans = {} /\ lost = {}
    /\ fictions = 0 /\ restarts = 0

-----------------------------------------------------------------------------
\* The market and the clock.

Elsewhere == UNCHANGED <<exchangeVars, pc, shot, readVars, bookVars, diskVars, pastVars,
                         sent, fictions>>

Move(p) ==
    /\ p # market /\ moves < MaxMoves
    /\ market' = p /\ moves' = moves + 1
    /\ UNCHANGED <<now, hubVars>> /\ Elsewhere

\* An answer under way arrives, or its request fails, within Latency.
InTime(t) == t = NoTicker \/ now - t.seen < Latency

Tick ==
    /\ now < MaxTime /\ InTime(flight) /\ InTime(shot)
    /\ now' = now + 1
    /\ UNCHANGED <<market, moves, hubVars>> /\ Elsewhere

-----------------------------------------------------------------------------
\* The exchange.

\* update_price: the open orders that the price crosses are filled.
Crossed(p) ==
    {o \in SentIds : /\ p > 0 /\ orders[o] = "open"
                     /\ IF sent[o].side = "buy" THEN p <= sent[o].at ELSE p >= sent[o].at}

Count(S, side) == Cardinality({o \in S : sent[o].side = side})

UpdatePrice(p) ==
    LET hit == Crossed(p)
    IN  /\ orders' = [o \in Ids |-> IF o \in hit THEN "filled" ELSE orders[o]]
        /\ asset' = asset + Count(hit, "buy") - Count(hit, "sell")
        /\ filled' = filled \cup hit

\* create_limit_order.  Below min_notional the exchange rejects the order with an
\* empty id; the tick has dropped the buys below it, and a take-profit is worth
\* more than its buy, so no order of the bot is that small.
CreateLimitOrder(side, at) ==
    /\ Len(sent) < MaxOrders
    /\ sent' = Append(sent, [side |-> side, at |-> at])
    /\ orders' = [orders EXCEPT ![Len(sent) + 1] = "open"]

\* cancel_order: whatever the order has become.
CancelOrder(o) == orders' = IF orders[o] = "none" THEN orders
                            ELSE [orders EXCEPT ![o] = "canceled"]

\* fetch_order: what the exchange does not know is closed.
FetchOrder(o) == IF orders[o] = "none" THEN "closed" ELSE orders[o]

FetchOpenOrders == {o \in Ids : orders[o] = "open"}

\* rebuild: the account is replayed from the journal.
Records(side) == Cardinality({i \in DOMAIN journal : sent[journal[i]].side = side})

RebuiltBug == Records("buy")

Rebuilt == Records("buy") - Records("sell")

-----------------------------------------------------------------------------
\* The hub.

\* The ticker of the channel is on its way.
Watch ==
    /\ flight = NoTicker
    /\ flight' = Ticker
    /\ UNCHANGED <<marketVars, cache, channel, retries>> /\ Elsewhere

Cached(t) == [last |-> t.last, seen |-> t.seen, ts |-> now]

\* _broadcast: the cache, then the handler of the paper exchange.
Broadcast ==
    /\ flight # NoTicker
    /\ cache' = Cached(flight)
    /\ UpdatePrice(flight.last)
    /\ flight' = NoTicker /\ retries' = 0
    /\ UNCHANGED <<marketVars, channel, pc, shot, readVars, bookVars, diskVars, canceled,
                   orphans, lost, restarts, sent, fictions>>

\* The websocket fails: it is tried again, until the channel turns to REST for
\* good; a failing REST request is tried again after the poll interval.
ChannelFails ==
    /\ flight # NoTicker
    /\ flight' = NoTicker
    /\ IF channel = "ws" /\ retries + 1 < WsMaxRetries
       THEN retries' = retries + 1 /\ UNCHANGED channel
       ELSE retries' = 0 /\ channel' = "rest"
    /\ UNCHANGED <<marketVars, cache>> /\ Elsewhere

FreshBug == cache # NotCached

\* price(): the cache, if it is not older than its TTL.
Fresh == cache # NotCached /\ now - cache.ts <= PriceTtl

-----------------------------------------------------------------------------
\* The tick: open orders, price, decision, fills, cancel and place, fills, save.

Goto(where) == pc' = where

\* The open orders are read, before the decision or again for the second pass.
ListOrders ==
    /\ pc \in {"idle", "list again"}
    /\ snapshot' = FetchOpenOrders
    /\ IF pc = "idle" THEN Goto("price") /\ UNCHANGED resolving
       ELSE Goto("fills again") /\ resolving' = buys \cup sells
    /\ UNCHANGED <<marketVars, hubVars, exchangeVars, shot, plan, age, buys, sells,
                   diskVars, pastVars, sent, fictions>>

\* decide: a tracked buy may be found stale; the missing level is placed below
\* the price, while neither the buy nor its take-profit is tracked.
Decisions(p) ==
    {[cancel |-> stale, place |-> IF buys \cup sells = {} THEN p - 1 ELSE 0] :
        stale \in SUBSET buys}

\* The tick goes on with a valid price only.
Decide(t) ==
    /\ IF t.last > 0
       THEN /\ age' = now - t.seen
            /\ plan' \in Decisions(t.last)
            /\ resolving' = buys \cup sells
            /\ Goto("fills")
       ELSE Goto("save") /\ UNCHANGED <<age, plan, resolving>>

\* get_price finds a fresh price.
CachedPrice ==
    /\ pc = "price" /\ Fresh
    /\ Decide(cache)
    /\ UNCHANGED <<marketVars, hubVars, exchangeVars, shot, snapshot, buys, sells, diskVars,
                   pastVars, sent, fictions>>

\* get_price asks by itself.
AskPrice ==
    /\ pc = "price" /\ ~Fresh
    /\ shot' = Ticker
    /\ Goto("answer")
    /\ UNCHANGED <<marketVars, hubVars, exchangeVars, readVars, bookVars, diskVars, pastVars,
                   sent, fictions>>

\* A valid answer goes to the cache, over whatever the channel has put there.
PriceAnswered ==
    /\ pc = "answer" /\ shot.last > 0
    /\ cache' = Cached(shot) /\ shot' = NoTicker
    /\ Decide(shot)
    /\ UNCHANGED <<marketVars, channel, retries, flight, exchangeVars, snapshot, buys, sells,
                   diskVars, pastVars, sent, fictions>>

\* The request fails, or its price is not valid.
PriceMissing ==
    /\ pc = "answer"
    /\ shot' = NoTicker
    /\ Goto("save")
    /\ UNCHANGED <<marketVars, hubVars, exchangeVars, readVars, bookVars, diskVars, pastVars,
                   sent, fictions>>

LostBug(o) == IF o \in snapshot THEN "open" ELSE "canceled"

ResolvedBug(o) == IF o \in snapshot THEN "open" ELSE "closed"

\* _resolved_status: only what is gone from the list is asked for.
Resolved(o) == IF o \in snapshot THEN "open" ELSE FetchOrder(o)

\* The next order of the pass: the buys, then the sells, the oldest first.
Turn(o) ==
    LET book == IF resolving \cap buys # {} THEN resolving \cap buys ELSE resolving
    IN  pc \in {"fills", "fills again"} /\ o \in book /\ \A other \in book : o <= other

\* Neither filled nor gone: left alone.  Canceled: no longer tracked.
NotFilled(o) ==
    /\ Turn(o) /\ Resolved(o) \in {"open", "canceled"}
    /\ resolving' = resolving \ {o}
    /\ IF Resolved(o) = "open" THEN UNCHANGED <<buys, sells>>
       ELSE buys' = buys \ {o} /\ sells' = sells \ {o}
    /\ UNCHANGED <<marketVars, hubVars, exchangeVars, pc, shot, readVars, diskVars, pastVars,
                   sent, fictions>>

\* 1 if the exchange does not know the order.
Unknown(o) == IF orders[o] = "none" THEN 1 ELSE 0

\* A filled buy: its take-profit is sent and tracked, and the fill is booked; the
\* pass goes on with the sells tracked by then, the take-profit included.
BuyFilled(o) ==
    /\ Turn(o) /\ o \in buys /\ Resolved(o) \in {"closed", "filled"}
    /\ CreateLimitOrder("sell", sent[o].at + 1)
    /\ sells' = sells \cup {Len(sent')}
    /\ journal' = Append(journal, o)
    /\ buys' = buys \ {o} /\ resolving' = (resolving \ {o}) \cup {Len(sent')}
    /\ fictions' = fictions + Unknown(o)
    /\ UNCHANGED <<marketVars, hubVars, asset, pc, shot, readVars, savedBuys, savedSells,
                   pastVars>>

DropSell(o) == sells' = sells \ {o}

\* A filled sale is booked.
SellFilled(o) ==
    /\ Turn(o) /\ o \in sells /\ Resolved(o) \in {"closed", "filled"}
    /\ journal' = Append(journal, o)
    /\ DropSell(o) /\ resolving' = resolving \ {o}
    /\ fictions' = fictions - Unknown(o)
    /\ UNCHANGED <<marketVars, hubVars, exchangeVars, pc, shot, readVars, buys, savedBuys,
                   savedSells, pastVars, sent>>

PassDone ==
    /\ pc \in {"fills", "fills again"} /\ resolving = {}
    /\ Goto(IF pc = "fills" THEN "act" ELSE "save")
    /\ snapshot' = {}
    /\ UNCHANGED <<marketVars, hubVars, exchangeVars, shot, plan, age, bookVars, diskVars,
                   pastVars, sent, fictions>>

\* What the decision has found stale is canceled and dropped, even if the pass
\* has booked it in the meantime.
CancelBuy(o) ==
    /\ pc = "act" /\ o \in plan.cancel /\ \A other \in plan.cancel : o <= other
    /\ CancelOrder(o)
    /\ plan' = [plan EXCEPT !.cancel = @ \ {o}]
    /\ buys' = buys \ {o} /\ canceled' = canceled \cup {o}
    /\ UNCHANGED <<marketVars, hubVars, asset, pc, shot, snapshot, age, sells,
                   resolving, diskVars, filled, orphans, lost, restarts, sent, fictions>>

PlaceBuy ==
    /\ pc = "act" /\ plan.cancel = {} /\ plan.place > 0
    /\ CreateLimitOrder("buy", plan.place)
    /\ buys' = buys \cup {Len(sent')}
    /\ plan' = Nothing
    /\ UNCHANGED <<marketVars, hubVars, asset, pc, shot, snapshot, age, sells,
                   resolving, diskVars, pastVars, fictions>>

Acted ==
    /\ pc = "act" /\ plan = Nothing
    /\ Goto("list again") /\ age' = 0
    /\ UNCHANGED <<marketVars, hubVars, exchangeVars, shot, snapshot, plan, bookVars, diskVars,
                   pastVars, sent, fictions>>

\* _persist.
Save ==
    /\ pc = "save"
    /\ savedBuys' = buys /\ savedSells' = sells
    /\ Goto("idle") /\ snapshot' = {}
    /\ UNCHANGED <<marketVars, hubVars, exchangeVars, shot, plan, age, bookVars, journal, pastVars,
                   sent, fictions>>

\* The process dies and starts again: the orders are gone, the account is
\* replayed from the journal, the books come from the state file.
Restart ==
    /\ restarts < MaxRestarts
    /\ restarts' = restarts + 1
    /\ cache' = NotCached /\ channel' = "ws" /\ retries' = 0 /\ flight' = NoTicker
    /\ orders' = NoOrders /\ asset' = Rebuilt
    /\ Goto("idle") /\ shot' = NoTicker
    /\ snapshot' = {} /\ plan' = Nothing /\ age' = 0
    /\ buys' = savedBuys /\ sells' = savedSells /\ resolving' = {}
    /\ orphans' = orphans \cup savedBuys \cup savedSells
    /\ lost' = lost \cup (SentIds \ (savedBuys \cup savedSells))
    /\ fictions' = 0
    /\ UNCHANGED <<marketVars, diskVars, filled, canceled, sent>>

Hub == Watch \/ Broadcast \/ ChannelFails

Bot ==
    \/ ListOrders \/ CachedPrice \/ AskPrice \/ PriceAnswered \/ PriceMissing
    \/ \E o \in SentIds : NotFilled(o) \/ BuyFilled(o) \/ SellFilled(o) \/ CancelBuy(o)
    \/ PassDone \/ PlaceBuy \/ Acted \/ Save

Next == Hub \/ Bot \/ Tick \/ Restart \/ \E p \in Prices : Move(p)

Spec == Init /\ [][Next]_vars

-----------------------------------------------------------------------------
Lasts == Prices \cup {0}

Tickers == [last : Lasts, seen : -1 .. MaxTime]

\* The variables keep their types; no channel counts ws_max_retries failures.
TypeOK ==
    /\ now \in 0 .. MaxTime /\ market \in Prices /\ moves \in 0 .. MaxMoves
    /\ cache \in [last : Lasts, seen : -1 .. MaxTime, ts : -1 .. MaxTime]
    /\ flight \in Tickers /\ shot \in Tickers
    /\ channel \in {"ws", "rest"} /\ retries \in 0 .. WsMaxRetries - 1
    /\ orders \in [Ids -> {"none", "open", "filled", "canceled"}] /\ asset \in Int
    /\ pc \in {"idle", "price", "answer", "fills", "act", "list again", "fills again", "save"}
    /\ plan \in [cancel : SUBSET Ids, place : Nat] /\ age \in Nat
    /\ snapshot \cup buys \cup sells \cup resolving \cup savedBuys \cup savedSells
            \subseteq SentIds
    /\ journal \in Seq(SentIds)
    /\ filled \cup canceled \cup orphans \cup lost \subseteq SentIds
    /\ fictions \in Int /\ restarts \in 0 .. MaxRestarts

\* A tick decides on a price that the venue has quoted no longer ago than
\* the TTL of the cache and the longest way of an answer together: although
\* an answer of get_price's own request may take the place of a newer one of the
\* channel, and be served as fresh for a whole TTL (market_data.py).
PriceFresh ==
    pc \in {"fills", "act"} => age <= PriceTtl + Latency

\* What the journal books has been filled, or the process that knew the order is
\* gone: paper.py answers "closed" for an order it does not know, and the bot
\* books it.
BookedWereFilled ==
    Range(journal) \subseteq filled \cup orphans

\* A fill is booked, or its order is tracked and will be resolved, unless the bot
\* has canceled it at the same time or a crash came before the save: the answer of
\* the list may be older than the fill, and the order may fill between two calls.
FillsAccounted ==
    filled \subseteq Range(journal) \cup buys \cup sells \cup canceled \cup lost

\* The account is what a replay of the journal gives, plus the fills that are not
\* booked yet, less what was booked without a fill: paper.py replays the journal at
\* every start and forgets its orders, while the bot goes on with the books of the
\* last save, which may be older than the journal.
AccountFollowsJournal ==
    LET unbooked == {o \in filled : orders[o] # "none"} \ Range(journal)
        booked(side) == Cardinality({i \in DOMAIN journal : sent[journal[i]].side = side})
    IN  asset = booked("buy") - booked("sell")
                + Count(unbooked, "buy") - Count(unbooked, "sell") - fictions
=============================================================================
