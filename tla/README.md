# Denaro: a TLA+ model of the trading bot

This directory holds the TLA+ specification of `denaro`, the asyncio program that
trades small spot accounts (OKX, Kraken, paper) with grid and trend strategies.
Paths below are relative to the repository.

## 1. The system

| component | where | state | operations |
|---|---|---|---|
| Bot worker | `denaro/application/orchestrator.py`, `BotTask` | `BotState` (open buys, open sells, tracked position, stop-loss flag), `trading_paused`, the risk state; on disk the state file and the journal | boot (load, restore, rebuild from the venue), `tick`, `_trigger_stop_loss`, `_esegui_stop_monitorato`, `_process_fills`, `_persist` |
| Policies | `denaro/domain/grid.py`, `trend.py` and a dozen numeric variants | grid: none; trend: `in_posizione`, entry, stop, the closed bars and the one under construction | `decide`, `on_fill`, `ripristina_posizione`, `on_ohlcv` (from the OHLCV loop, every 60 s) |
| Portfolio | `denaro/application/portfolio.py` | free and locked quote currency | `update`, `preflight` |
| Exchange adapters | `denaro/infrastructure/exchanges/` | 15 s balance cache, rate limiter | place, cancel, fetch, market sale, with retries and a permanent/transient error split |
| Node and guardian | `denaro/denaro_node.py`, `application/safemode.py` | RAM level, `trading_paused` of every bot | `_propagate_safemode`, `_on_emergency`, shutdown |
| Account exposure | `denaro/domain/exposure.py` | commitments per bot under one cap | `can_open`, `commit`, `release` |
| Circuit breaker | `denaro/domain/risk.py` | CLOSED/OPEN/HALF_OPEN, daily and weekly baselines, peak | `check_circuit_breaker` |
| Capital classification | `denaro/domain/capitale.py` | none | funded / unfunded / unreadable |
| Storage | `denaro/infrastructure/storage.py`, `sqlite_store.py` | journal, atomic files | append, replay, save, load |
| Market data hub | `denaro/infrastructure/market_data.py` | price cache, websocket or REST mode | subscribe, `get_price` |
| Rate limiter | `infrastructure/rate_limiter.py` | tokens and time of the last refill, shared by the threads of every bot | `try_acquire`, `wait_time` |
| Supervisor, config | `application/supervisor.py`, `application/config.py` | tick interval | `start_all` asks which workers may start |
| Paper exchange | `infrastructure/exchanges/paper.py` | simulated balances and orders | place, fill on price, rebuild |
| Carry canary | `carry/canary_carry.py` | `canary_state.json`; spot and short position at the venue | `open`, `close`, `status` (also from cron) |
| Brain | `brain/main.py`, `strategy_lab.py`, `repair.py` | strategy registry, overrides, restart limits | `strategy_cycle` and the watchdog, in two threads |
| The rest | backtest, research, `tools/`, `zabbix/`, dashboards, legacy engines | | |

How they interact. The node builds one `BotTask` per configured market and runs
them as coroutines of one event loop; each tick awaits the adapter (blocking
calls in worker threads), the journal and the state file. The guardian writes
`bot.trading_paused` from its own coroutine. Bots of one account share the
balance, the total equity and the exposure registry. The venue fills and cancels
orders at any time. The service manager restarts the process after a crash; what
survives is the state file, the journal and the orders at the venue.

What is hard here: every await is a place where an order fills, RAM level
changes, or the process dies; the bot's books are a copy of the venue's, repaired
only by asking; an order placed, canceled or sold has effect even when its reply
is lost; the stop-loss is a sequence of some ten calls that must survive partial
failure and restart; the state file is written only at the end of a tick; threads
share the rate limiter, the hub's cache and the brain's limits without locks; and
cancelling a task abandons the thread job it waits for.

What makes each component correct:

- *Bot worker*: no live order outside the books; each fill booked, once; a stop
  that sells what the bot bought, no more and no less, and stays stopped.
- *Policies*: never more than `levels` buys or `sell_levels` ladder sells; a
  position always has a stop.
- *Portfolio*: never commits more than the free balance.
- *Adapters*: a call has its effect at most once; a balance read after a state
  change shows it.
- *Node and guardian*: no order after an emergency; no resumption of a stopped bot.
- *Exposure*: the commitments of an account stay under its cap and are given back.
- *Circuit breaker*: never trades through a breach; recovers when it ends.
- *Storage*: what was acknowledged is read back after any crash, but for what a torn
  line takes with it.
- *Market data and paper exchange*: a decision rests on a price of a bounded age; what
  the journal books was filled, and the account can be replayed from it.
- *Carry canary*: spot and short come and go together, and the state file says so.
- *Brain*: a strategy goes live only after its day on paper; restarts keep their distance.

## 2. Modules

| module | models | TLC instance | proofs |
|---|---|---|---|
| `BotTask`, with `OrderLedger` (the abstract ledger) | one bot, its venue, its disk and the guardian's flag | `MCBotTask`, four configurations | `BotTaskProofs` |
| `TrendTask` | the trend policy inside its bot: bars, OHLCV refresh, signal, expiring buy, trailing stop | `MCTrendTask` | `TrendProofs` |
| `AccountExposure`, with `ExposureTotal` (the sum) and `ExposureCap` (the abstract cap) | the bots of one account and their registry | `MCAccountExposure` | `ExposureProofs` |
| `RiskTask`, on `CircuitBreaker` (the rules) and `Storage` (the files), both modules of operators | the risk state of a bot across ticks, crashes and restarts | `MCRiskTask` | `RiskProofs` |
| `DenaroNode` | the process: node, guardian, tasks and thread jobs | `MCDenaroNode` | `NodeProofs` |
| `ExchangeCalls`, with `OneShotCall` (the abstract call) | a call of an adapter: bucket, retries, idempotency key | `MCExchangeCalls` | `CallProofs` |
| `PaperMarket` | the hub's prices, the paper exchange, and a bot on them | `MCPaperMarket` | `PaperProofs` |
| `CanaryCarry` | the carry script and its monitor | `MCCanaryCarry` | `CarryProofs` |
| `StrategyLab` | the strategy cycle, the watchdog, the node that reads the overrides | `MCStrategyLab` | `NodeProofs` |

In every module an operator `XBug`, defined before `X`, is `X` with a plausible coding
error; a property that still holds with `XBug` in the place of `X` would say nothing.

### How `BotTask` corresponds to the code

A tick is one action per await, sequenced by `pc`:

| `pc` | code in `orchestrator.py` | actions |
|---|---|---|
| `down` | process dead; `__init__` 158-239 | `Boot` |
| `idle` | start of `tick` | `TickBlocked` 564-680, `StopLossTrips` 621-627, `TickDecides` 649-791 |
| `stop` | `_esegui_stop_monitorato` 1376-1501 | `StopCancel`, `StopNotSold`, `StopReplyLost`, `StopSold` |
| `ladder` | 837-888 | `CancelLadder`, `PlaceLadder` |
| `buys1`, `sells1` | `_process_fills` on the tick's snapshot, 909 | `BeginFills1`, `BuyNotFilled`, `BuyBecomesPosition`, `BuySendsTakeProfit`, `BuysDone`, `ResolveSell` |
| `exec` | pre-flight 910-932, cancels and buys 937-981 | `PreflightOk`, `PreflightBlocked`, `CancelBuy`, `PlaceBuy` |
| `buys2`, `sells2` | `_process_fills` on a fresh list, 984 | `BeginFills2` and the fill actions |
| `slBuys`, `slCancel` | `_trigger_stop_loss` 1503-1700 | `SlResolve`, `SlPhotograph`, `SlCancel`, `SlNotSold`, `SlSold` |
| `persist` | `_persist` 1080-1092 | `Persist` |

`st` is `BotState`: `buys` and `sells` are the keys of `open_buys` and
`open_sells`; `tp` the sells of kind `tp`; `unknown` those whose entry price is
`None`; `pos` the amount of `posizione_aperta`; `latched` is
`stop_loss_triggered`; `named` says whether `symbol` is non-empty, because
`from_dict` drops it and `_load_state` ignores a file without it. `disk` is the
state file. `seen` is the balance the adapter has cached. `booked` counts the `buy_filled` and `sell_filled` records of an
order in the journal. `plan`, `openIds`, `todo`, `rescued` and `quotaSells` are
the locals of the running coroutine. The venue is `status`, `filled`, `amount`
and `free`, the unlocked base asset of the account. `bought`, `sold`, `foreign`,
`asked` (every order the bot has asked to cancel), `faults` and `crashes` only observe or bound.

`OrderLedger` is what this promises of orders and journal, whatever fails: an order is placed once with
the size it keeps, fills up to it and ends; the journal records fills only, an order once at most in a life of the
process; an order placed by the step that records a fill, or by a process that dies, is the take-profit of a fill. `Ledger` in
`BotTask` maps an order's status, its amount and its fills at the venue, and the journal's count of it.

The environment: `VenueFill` (whole, or in pieces when the instance allows
`partial`), `VenueExpire`, `LeftoverSell`, `Deposit` (asset of another bot or a person),
`SafeMode`, `Crash` at any await, and `CrashInTakeProfit`, the crash between an
accepted take-profit and its journal record. `FaultKinds` selects which calls may
fail: `fetch` (order list
or order), `bootfetch`, `balance`, `spread` (the slippage guard), `send` (a
refused order), `reply` (an accepted order whose reply is lost), `cancel` (a
transient error), `expire`, `leftover` (a sell order the bot did not place, which it
adopts at the next boot), `disk` (the save), `partial`. A blocked tick (`TickBlocked`) is not among them: the
open breaker returns at 630-634, and nothing bounds for how many ticks, so the model does not either.

Abstractions to keep in mind:

- Prices, fees and PnL are not modelled. A ladder sell is one unit.
- A policy is the set of decisions it may return from the books; conditions on
  prices are nondeterministic.
- The exposure registry is not injected (`self.exposure is None`, the default): `AccountExposure` models it.
- The circuit breaker is one of the gates that may block a tick, at any tick and for any number of them: `RiskTask` models it.
- The venue is that of the live adapters: it keeps its orders when the process dies, and its balance is
  cached for 15 s (`okx.py` 225-237; `Shown` is what a read may answer). The node of today starts a live
  bot only with a measured strategy (`denaro_node.py` 389-398, `research/misurate.py`), which the grid is not: a grid
  runs on `PaperExchange`, which forgets its orders at a restart (`PaperMarket`) and whose balance lists no base
  asset. The grid runs are about what `orchestrator.py` does with a policy that has limit sells and several buys, over
  the venue its boot (447-502) is written for.
- Decision and list of open orders are one step: nothing is read in between that
  the decision depends on, and a fill after the list is a fill after the step.
- The cancellations of a blocked pre-flight are one step, of any subset.
- A journal append does not fail (`RiskTask` has the appends that do). The balance cache is warmed only by this bot's
  tick and has expired by the next one (tick interval above 15 s); within a tick a read shows the cached value or, the
  15 s having passed, the real one.
- An adopted sell is of unknown kind even when the state file knew it, as in the
  code, which overwrites the entry.

### How `TrendTask` corresponds to the code

`BotTask` knows the trend policy as the set of decisions it may return. `TrendTask` has the
policy (`trend.py`) itself, in the same tick with less of the bot around it:

| `pc` | code in `orchestrator.py` | actions |
|---|---|---|
| `down` | `_build_bots` 433-453 (`denaro_node.py`), `BotTask.__init__` | `Boot`: preloaded bars, state file, position given back, open buy, balance |
| `idle` | head of the tick, where `now` is read | `TickStarts` |
| `reading` | gates, reads, `decide`, the stop kept in the books (559-779) | `TickBlocked`, `Holds`, `Adopts`, `GivesUp`, `Enters`, `Waits` |
| `stop` | `_esegui_stop_monitorato` 1376-1501 | `StopNotSold`, `StopSold` |
| `fills1`, `notify1`, `fills2`, `notify2` | `_process_fills` 1702-1841, the journal between books and policy | `Resolve`, `Notify` |
| `exec` | pre-flight 910-932, cancel and place 937-981 | `PreflightCancels`, `PreflightBlocked`, `NothingToDo`, `Cancel`, `Place` |
| `save` | `_persist` | `Save` |

Each of the five decisions is one path through `decide` (388-502) after `_aggiorna` (`Builds`).
`Request` and `Answer` are one round of `_ohlcv_loop` and `on_ohlcv`: the candles are those of the
time of the request, and come at any later await. The clock counts half periods. A bar is the time its
period starts at; `barre`, `giorno` and `offset` are the deque, `_giorno` (the index of the period under
construction) and `offset_barre_s`, the phase, which is 0 until candles tell the venue's (`Phase`): after a failed
preload the policy counts its periods in the wrong phase until the first refresh. `st` is `BotState`, of which a
trend bot uses the one open buy and `posizione_aperta`. `outOfStep` and `floor` only observe: that candles came
while the bar under construction was not of the venue's current period (`InStep`), and the highest stop of the
position that was in force and saved.

Abstractions: whether a close beats the channel and the EMA is open, and the ATR is any of a few
values whenever it is computed, so a property holds for whatever the candles say. Candles are the set of
their periods, which the policy sorts and of which it keeps one each (`InOrder`, `Closed`: `trend.py` 259-261, 293). Prices are
integers, every position is one unit, bought at the limit. The reads of a tick are one step,
after which the loop of the candles may run at each await. A trend paused, out of budget or over
a cap is `Waits`. The venue has a minimum order, so the pre-flight runs at every tick; `lean` says
whether the account is left with less than `per_level` beside an open buy or a
position. A tick may end at its gates any number of times (`TickBlocked`), as in `BotTask`. All candles
of the venue are of one phase, so `precarica_barre`'s vote on it (250-257) is unanimous. Lost replies, partial
fills and the leftover sell of an older version are in `BotTask`.

### How `AccountExposure` corresponds to the code

`CapOf`, `Registered` and `Caps` are `_exposure_for` (`denaro_node.py` 504-538): the
bot's cap wins over the node's, a bot with neither gets no registry, the lowest
of an account binds. `impegnato` is `_impegnato`, `CanOpen` and `Commit` are
`can_open` and `commit` (`release` is a commitment of 0), `Reconcile` is
`_reconcile_exposure`. A bot is reduced to what the registry sees of it: `buys`
and `held` are the notional of `open_buys` and of `open_sells` with
`posizione_aperta`, `plan` the part of `decision.to_place` not sent yet. Its tick is

| `pc` | code in `orchestrator.py` | actions |
|---|---|---|
| `idle` | head of the tick to the reservation, 556-832 | `MonitoredStop`, `DecideNothing`, `Decide`, `DecideBlocked`, `StopLoss` |
| `fills` | fills and pre-flight, 903-935 | `BuyFilled`, `BuyGone`, `SellGone`, `PreflightBlocked`, `PreflightOk` |
| `place` | cancels and placements, 937-981 | `CancelBuy`, `PlaceBuy`, `BuyRefused`, `AllPlaced` |
| `settle` | fills again, reconciliation, 983-994 | the fills, `EndTick` |

`TickFails` is an exception at any of these awaits, caught by `run` (2011-2020).
`Restart` empties the registry and keeps the books, which boot restores. Ticks
that return at the gates touch neither and are stuttering steps. `known` only
observes which bots the registry has heard of. Units are notional at the buy
price: take-profit mark-ups, marking to market and ladder sells are left out, and
what the details of `BotTask` (lost replies, failed cancels) add to the
difference between books and venue is left to `BotTask`.

### How `RiskTask` corresponds to the code

The tick from the reading of the equity to the save, in `orchestrator.py`:

| `pc` | code | actions |
|---|---|---|
| `down` | `BotTask.__init__`, `_load_risk` 287 | `Boot` |
| `idle` | `_capitale`, `classifica_capitale` (`capitale.py`) | `ReadEquity` |
| `note` | `_nota_transizione_capitale` | `Noted` |
| `gate` | the early returns and `check_circuit_breaker` (`risk.py`) | `Unfunded`, `Implausible`, `CheckRisk` |
| `trading`, `sell_filled`, `trend_stop_sell` | sales booked by the tick | `SaleFilled`, `SaleBooked`, `StopSold`, `StopBooked`, `EndOfTrading` |
| `save`, `replace` | `_save_state`: temporary file, fsync, rename | `SaveWritten`, `SaveReplaced` |

`AppendFails`, `SaveFails` and `Crash` cut an append or a save at any point: any prefix of
the line may be on disk. `cs` is the part of `CoreState` the breaker decides on.
`Storage` keeps a journal as its physical lines, each a sequence of whole or torn records,
because `append` does not look whether the last line was terminated: a torn line and the
acknowledged record that follows it become one line that `read_all` skips; `ReadAll` is what it
reads, by the number of the line.
`CircuitBreaker` compares ratios as integer products. Amounts are integers; the clock
advances, and the account moves, between ticks. `Threshold > 0` is what
`capitale.py` 103-105 guarantees.

What the model shows of the code beyond its properties: the streak of losses overrides
`OPEN` with `HALF_OPEN`; a drawdown that opens the breaker with a flat account is permanent
(the equity no longer moves, the peak stays), which is why `Unblocks` is about an account back at its
top; the weekly limit never binds beyond the drawdown with the default percentages; the
class of the capital is set before its record is appended, so a failed append is never
written again (`UnfundedIsJournaled` is about runs of the process where none failed).

### How `DenaroNode` corresponds to the code

| component | code | actions |
|---|---|---|
| main | `NodeApp.run` (`denaro_node.py`), `stop_all`, interpreter exit | `Start`, `StopGuardian`, `StopBot`, `Exit`, `Signal` |
| guardian | `SafeModeGuardian` (`safemode.py`), `_propagate_safemode`, `_on_emergency` 558-575 | `Poll`, `CancelAll`, `CancelAllFails`, `FlushFails`, `Finish` |
| bot | the tick reduced to gate, buys and save; the stop-loss's flag | `TickTrades`, `TickResolves`, `StopLossTrips`, `StopLossEnds` |
| thread job | `asyncio.to_thread` of the journal, the placement, the save | `IntentWritten`, `Sent`, `Saved` |

`task` is where the coroutine waits, `job` the thread job it waits for, or has abandoned:
cancelling a task ends the coroutine and not the thread. `live` are the orders at the venue,
`intents` the `order_intent` records, `tracked` is `open_buys`, `flushed` the SQLite rows.

The model has the emergency as the code has it: a tick in flight may place after the
cancellation (`safemode.py` 7-8 promises that no order does); a `cancel_all` that raises is
logged and its bot flushed (the OKX adapter always raises, `docs/16_revisione_esterna.md`
59); a flush that raises ends the emergency, which is not tried again until the level has been
nominal; a worker the supervisor refused at the start is never asked for again; the rows are
not read by anything.

### How `ExchangeCalls` corresponds to the code

One caller is a bot, whose placements run one at a time in a worker thread:
`Place` is `_nuovo_client_order_id`; `ReadClock`, `MeasureElapsed`, `ComputeRefill` and
`Settle` are `try_acquire` (`rate_limiter.py`) cut where a thread can be preempted, the bucket having no
lock; `Waited`, `Placed`, `Refused`, `Transient`, `Retried` are `_call` (`okx.py` 160-200,
`kraken.py`), with the sleep for a token (after which the call takes none), the error split and the
backoff. A transient error may hide an accepted order. `Restart` forgets the
sequence number of the keys. Not asserted, because the code does not do it: that the calls
stay within the budget (two threads that refill at once are granted the same token,
and a caller that has slept takes none), and that an accepted placement returns its order (the retry
of one whose reply was lost is refused as a duplicate and raises, and the order is
live and untracked until the restart).

That the venue refuses a key it has seen (`Known`) is an assumption on the venue. OKX's `clOrdId` is such a key. The
Kraken adapter sends the same parameter (`kraken.py` 205-212, whose docstring says that ccxt forwards what it does not
know): where the venue does not take it for a key, a retry after a lost answer places a second order, and nothing said
here of `ExchangeCalls` holds.

`OneShotCall` is the call as its caller may see it: while the placement is in hand the venue takes one order for
it or none, afterwards none. `ExchangeCalls` implements it (`OneShot`), and this is why `BotTask` may place an order
in one step whose reply comes, is an error, or is lost.

### How `PaperMarket` corresponds to the code

`Watch`, `Broadcast` and `ChannelFails` are the loops of `market_data.py` (websocket, then REST for
good after `ws_max_retries`); `CachedPrice`, `AskPrice`, `PriceAnswered` and `PriceMissing` are
`get_price`; `UpdatePrice`, `CreateLimitOrder`, `CancelOrder`, `FetchOrder` and `Rebuilt` are the operations of
`paper.py`; the tick is `ListOrders`, the price, `NotFilled`, `BuyFilled` and `SellFilled` for
each pass over the fills, `CancelBuy`, `PlaceBuy` and `Save`. `Restart` loses the exchange's
orders, replays the account from the journal, and keeps the books of the state file. `journal` is
the sequence of the orders booked, in which one may be there twice.
The code's ways are kept: an order the exchange does not know is answered `closed`
(so a restarted bot books fills that never happened: `orphans`, `fictions`), `cancel_order`
overwrites the status of a filled order, and the answer of `get_price`'s own request takes
the place of a newer one. The rejection of an order below `min_notional`, with an empty id (195-197), is
left out: the tick has dropped the buys below it (`orchestrator.py` 933-935).

### How `CanaryCarry` corresponds to the code

`Open` to `Unwound` are `open` (240-330): first leg, polled, canceled, bought again for the
rest; second leg, polled, canceled, sent again for all its contracts; then the state file, or the
sale of the spot. `Close`, `CloseSpot` and `Record` are `close`; `MonitorLoads`, `MonitorReads` and
`MonitorSaves` are `status`, which cron runs over the same file. `FillCurrent` and
`FillStale` are the venue; `stale` are the orders the script has left behind, because a
cancellation failed (the exception is swallowed) or it died (`Dies`). A read that fails gives
a balance of 0, as `spot_qty` does.

### How `StrategyLab` corresponds to the code

`LoadRegistry` to `LabRestarts` are `strategy_cycle` (`main.py`): registry loaded, round
(which saves its own copy), promotion, validation of the candidate on paper, overrides
written and copied, registry saved over that of the round, node restarted.
`DogReads` to `DogSaves` are the watchdog of `repair.py`; `Allowed`, `HourStarted` and `Marked` are
`_allowed` and `_mark` on the `_state` the two threads share. `Restart` makes the node read the
overrides. A candidate may be better or not, a paper day may end with a gain or not: scores
are left out. `skipped` remembers the candidates for which a step failed or was refused: nobody looks
at the result of the copy or of the restart.

## 3. Runs

`tlc -config <run>.cfg <module>`, with the module named in `PROJECT.json`. All of them pass
but `MCStopForgotten` and `MCStopTwice`, which show disagreements of the code with its comments (section 4, points 1 and 6).

| run | instance | what it shows |
|---|---|---|
| `MCGridFaults` | grid of 1 level, 1 ladder sell, 2 buys, 2 sells, 1 crash, 1 fault of `spread`, `cancel` | `LiveOrdersKnown`: a live order outside the books is one the bot asked to cancel; `LiveBuysWithinLevels`, `StoppedBookIsFlat`; `ImplementsLedger`, the refinement of `OrderLedger` |
| `MCTrendFaults` | trend without drawdown stop, 1 buy of 2 units, 1 sell, 1 fault of any kind (a leftover sell or a partial fill is one), 5 foreign units, 1 crash | `ExcessSalesHaveCause`: what is sold beyond what was bought is a position per fault or crash at most; `PositionKnownToPolicy`; the liveness property `FilledBuyBooked` |
| `MCStopTwice` | trend with both stops, 1 buy of 2 units, 1 foreign unit, no fault | `SoldWithinBought` is violated: the drawdown stop sells the position, the monitored stop sells it again |
| `MCStopForgotten` | trend with both stops, 1 buy, 2 crashes, no fault | `StopIsPersistent` is violated: the second restart ignores the file that holds the flag, and the bot buys |
| `MCSignal` | trend, clock of 3 half periods, candles that begin halfway through the clock's periods, channel and ATR of 1, 2 prices, 2 values of the ATR, 1 buy, 1 crash, 1 fault | `BarsInOrder`, `StopSurvives`; `ExpiredBuyCanceled` and `StopCloses` (liveness) |
| `MCExposure` | bots with caps 3, 4 and none, 2 units each, 1 restart | `ReservationCovers`; `ImplementsCap`, the refinement of `ExposureCap` |
| `MCRisk` | capital 100, equities 4, 96, 100, 120, 0 or unreadable, default limits, 3 days that make a week, 2 failures | `TradesWithinDrawdown`, `CutCostsOneRecord`, `UnfundedIsJournaled`; `Unblocks` (liveness) |
| `MCNode` | a bot of 2 buys and one of none, 3 RAM readings, 2 changes, 1 fault | `LiveHasIntent`, `OneOrderAbandoned`, `EmergencyCoversAll`; `EmergencyExits` and `StopExits` (liveness) |
| `MCCalls` | 2 threads, bucket of 2, 2 attempts, 2 placements, 1 restart | bucket's types under preemption, `OneOrderPerPlacement`; `ImplementsOneShot`, the refinement of `OneShotCall`; `CallsEnd` (liveness) |
| `MCPaper` | 2 prices and an invalid one, TTL 0, latency 1, 2 orders, 2 restarts | `PriceFresh`, `BookedWereFilled`, `FillsAccounted`, `AccountFollowsJournal` |
| `MCCarry` | 4 units, contracts of 2, 3 commands, 1 failed request, 1 death | `NeverLong`, `OneOpeningAtATime`, `NakedSpotHasCause`; `ShortIsReported` (liveness) |
| `MCLab` | 2 interchangeable candidates, validation and cooldown of 2, hour of 2, 1 failure, 1 death | `LiveWasValidated`, `LiveRanAsPaper`, `RestartsSpaced` |

Bounds of the grid and trend runs. The id pools are small: a pool used up means that the venue
accepts no more orders of that side, and the bot goes on managing what it has. A take-profit that finds no id left
is not sent and the behaviour ends there, which a safety property does not mind.
Two buys are the least that lets one be filled or canceled and replaced: with one level, a second that is live
beside the first would exceed the grid. Two sells let a ladder coexist with a take-profit, or one be sent again. One
crash reaches every recovery path from every point of a tick; one
fault, at any call, combines with it. The runs do not
combine every kind with the stronger properties because some of them do not hold
then: a lost reply leaves a live order outside the books until the next restart,
a transient failure of a ladder or stop cancellation leaves an order live that
the books dropped, and a partly filled order seen with a stale list is dropped
while live. These are listed as hazards in `PROJECT.json`, and the assumption is
explicit in the theorems (`NoSilentOrders`, `NoHiddenOrders`). The runs go where the stronger properties end and say
what is left of them. `MCGridFaults` lets a cancellation fail: an order leaves the books live only if the bot
asked to cancel it. Failing lists, placements and saves of the grid are left to the theorems, whose
hypotheses allow them in any number (section 5), and so is a trend bot with several faults (`RepeatSafety`, `PolicySafety`). `MCTrendFaults` loses
the replies of sales. Its bound is broken as soon as the account lets the bot sell a position more than it may: with
orders of 2 units, a fault and a crash allow 4 units beyond what was bought, and 5 foreign units are one more than
that (with as many as the bound, or fewer, it could not be exceeded whatever the code did). It has no
drawdown stop because with one the bound fails without any fault, which is what `MCStopTwice` shows.

Two bots are what a shared cap is about: each fits alone (2 of 3 units), both do
not, so the check of one always depends on the other's commitment; unequal
declared caps make the lowest bind; the third bot shows that one outside the
registry does not disturb it. One restart suffices, the registry having no other
memory.

Bounds of the others. `MCSignal`: over three half periods the venue's period turns once, and so does the one that a policy without the
venue's phase would count, at different times; the race with the refresh, the first close, the signal and the change
of phase all fit; a channel of one bar lets a breakout come in the second period; the two prices
fill a buy, raise its stop above the entry and cross it; a crash and a fault let a
restart follow a failed save, sale or list, or a restart without candles follow clean ticks (590 thousand states). `MCRisk`: the equities lie on both sides of every limit seen from the
capital and from a new peak; three days are a week's reset and two daily ones; two failures let a torn line
meet a crash. `MCNode`: two buys are the least that a stop can cut between, the second bot shows an
emergency that has to go on after the first; two changes of the RAM reach an emergency, a nominal level, or
another one. `MCCalls`: two threads are what a race on the bucket takes, two attempts a retry after a
lost reply. `MCPaper`: a buy and its take-profit, over two restarts, the second of which
replays fictitious bookings. `MCCarry`: opening, closing and opening again, over what
an earlier command left. `MCLab`: one candidate on paper while the other is live.
`CHECK_DEADLOCK FALSE` is said where a run ends by itself: the process of `MCNode` exits, and the clock and
the pools of `MCCalls` and `MCPaper` end.

Fairness. `FairSpec` of `BotTask` is weak fairness of `BotStep`, of `RiskTask` weak fairness of `Bot`: `run` (2011-2020)
catches every exception and ticks again, and the service manager restarts the process. Of `TrendTask`
the same (`Tick \/ Boot`), and time passes over an open buy (`Age`); the refresh and the price owe nothing. Of `DenaroNode`: the main
coroutine, the guardian and the thread jobs, each of which has a timeout; the bots may stop
ticking. Of `ExchangeCalls`: the clock, and each thread, whose calls have timeouts. Of
`CanaryCarry`: the monitor, which cron runs every ten minutes; nothing is assumed of the script.
Nothing is assumed of the venue, of crashes or of faults, which are bounded.

Weak fairness says that the bot goes on ticking, not that its ticks come to anything: every tick may end at a gate. The
three liveness properties of the trading tick are therefore conditional, `[]<><<TickGoesOn>>_vars => ...`: while ticks
get past the gates again and again, the fill is booked, the expired buy canceled, the crossed stop executed. The
condition is no formality. An open breaker returns at 630-634, before the fills, the cancellations and the
monitored stop, and stays open for as long as the loss that opened it does (`risk.py` 115-153; section 4, point 12).

## 4. Where the code and its documents disagree

The passing runs state what the code does keep. `MCStopForgotten` shows point 1 and `MCStopTwice` point 6; of the others, 2, 3 and
12 are steps the model has, which leave nothing to promise, and the rest is one change of a
configuration or of a property away, and TLC then shows the behaviour:

1. **The stop-loss is forgotten at the second restart** (run `MCStopForgotten`, `StopIsPersistent`).
   `from_dict` (119) skips `symbol`; the state saved after the first restart has an
   empty one and `_load_state` (247) ignores it at the second. In the run the bot restarts, its stop trips, sells and
   is saved; it restarts again with a fresh state and buys. Line 1506 promises
   a "flag persistente per non ripetere dopo un restart". Tracked position and
   peak equity are lost the same way, and so is a buy that fills while only the ignored file knows
   it (`FilledBuyBooked` in `MCTrendFaults` with two crashes). With one crash the property is a theorem (`StopPersistence`).
2. **The stop-loss sells nothing, or too little, and latches** (`Shown` in `SlSold`). The live
   adapters cache the balance for 15 s and only `create_limit_order` clears it; the
   equity read at the head of the tick fills the cache, the stop cancels the
   take-profits, reads the old free balance (1620) and latches having sold
   nothing, where line 1505 says it "vende tutto l'asset disponibile". On paper it is so without any cache:
   `fetch_balance` (`paper.py` 176-179) lists only the quote currency, so the stop reads 0, sells nothing and latches, at
   the first try and with no failure. So no adapter gives a grid the promise that what its booked buys brought in
   is sold, and no run or theorem here states it.
3. **A postponed stop-loss never sells** (`SlNotSold`). The books are cleared
   (1587-1588) before the spread guard or a refused sale resets the flag (1608,
   1693); the retry promised at 1590-1593 finds a quota of zero and latches. (A tracked position stays, so a trend bot
   does try again.)
4. **A buy filled while being canceled disappears** (`FilledBuyAccounted` in `MCGridFaults`). The
   permanent error of the cancellation removes it from the book (949) unbooked,
   against line 1774: "il riempito e' denaro vero e non deve sparire dallo stato".
5. **The cap is exceeded after a restart** (`WithinCap` in `MCExposure`). The registry
   starts empty (`exposure.py` 30) and a bot enters it at the end of its first
   tick (992), although its orders and position were restored at boot. Whoever
   ticks first sees the others at zero. `exposure.py` 17-18: "se il nuovo impegno
   porterebbe il totale OLTRE il cap, si rifiuta".
6. **The drawdown stop leaves a position for the monitored stop to sell again** (run `MCStopTwice`, `SoldWithinBought`).
   `_trigger_stop_loss` sells the quota and latches (1684-1700), but only lines 540 and
   1493 clear `posizione_aperta`, and nothing tells the policy, which goes on publishing its stop. When the price
   crosses it, `_esegui_stop_monitorato` runs although trading is paused (757), reads the same size from
   `_quota_vendibile` and sells what it finds free, which is not the bot's. Lines
   1359-1360: "non si vende mai piu' di cio' che il bot ha comprato"; 1415-1417 name selling the assets of others
   as what the quota is for. Both stops are on for the OKX bots of `config/node_marcodg1_xrp.yaml` (38-56) and
   `config/node_mc2.yaml` (40-57): strategy `trend`, `stop_loss_pct` 0.15.

Six more concern the trend policy. They hold of the code and bound what the properties of `TrendTask`
can say: each is an exception or a condition written into one of them, and without it TLC shows the run.

7. **A closed day enters the bars twice** (`outOfStep` in `BarsInOrder`). The refresh of every 60 s
   replaces the bars with all the candles closed by now (`trend.py` 259-261, 293). If it comes after the
   period has turned and before the first tick of the new one, the day just closed is
   in; `_aggiorna` then appends its own bar of that day (150). The signal is read on
   a window with the day twice: its high is in the channel its close has to beat, so no breakout
   can be seen, at the only tick that looks for one. Lines 217-221 name the effect ("canale e ATR
   risultano falsati") and guard against it for the current day only.
8. **After a failed preload a bar is closed early and out of order** (`outOfStep` in `BarsInOrder`). `offset_barre_s` is 0 until
   candles come. If the preload fails (`denaro_node.py` 453) the ticks count their periods in phase 0; the first refresh sets
   the phase (`trend.py` 246-258) and leaves `_giorno`, which is an index in the old one. The next tick may then find
   another index, closes the bar in the middle of its period, with a start that lies ahead (150), and reads the signal on it; the bar
   that follows is appended behind it with an earlier start. Lines 135-137: "cosi' le barre dei tick coincidono con le candele del
   backtest". The next refresh puts the bars right again.
9. **A stop that has risen to the entry is lost at a restart** (`floor < entrata` in `StopSurvives`).
   `ripristina_posizione` takes a stop that is not below the entry for an incoherent one and sets
   it to the entry less `stop_atr_mult` ATR (371-374); a trailing stop is above the entry as soon as the
   position gains enough. Line 194: "Sale e non scende".
10. **An expired buy is not canceled when the account is lean** (`lean` in `ExpiredBuyCanceled`). With
   less than `per_level` free, as when the buy itself holds the funds, the pre-flight ends
   every tick (`orchestrator.py` 932) before the cancellation (938). `trend.py` 451: "va cancellato
   SUBITO".
11. **The stop of an adopted position sells nothing** (`Owns` in `StopCloses`). `decide`
   adopts asset it finds (438-447) in the policy alone; the monitored stop sells what `posizione_aperta` or the
   booked orders say (1430-1440), which is nothing, at every tick from then on.
12. **An open breaker holds the monitored stop, the fills and the cancellations** (`TickGoesOn` in `StopCloses`,
   `ExpiredBuyCanceled` and in `FilledBuyBooked` of `BotTask`). The return at 630-634 comes before all of them, every tick, for as long as
   the breaker is open, which after a drawdown is until the equity recovers (`risk.py` 143-153); the position that goes on losing is
   what keeps it open. Lines 755-758 say of the crossed stop: "la posizione si chiude a MERCATO. Si esegue anche in SafeMode: e' la
   gestione di una posizione esistente, non un trade nuovo". The drawdown stop, where it is on, comes before the breaker (621-627).

One more bounds `PositionKnownToPolicy` of `BotTask`:

13. **A second leftover sell makes the policy flat** (two sells and two `leftover` faults in `MCTrendFaults`). `decide`
   cancels one unknown sell per tick (`trend.py` 412-416). If another fills meanwhile, `on_fill`
   (331) makes the policy flat while the state holds its position. With one sell it cannot
   happen, and the run has one.

## 5. Proofs

TLAPS proves the theorems listed here for every value of the constants that satisfies the
assumption of the module (`BotAssumption`, `ExposureAssumption`, `RiskAssumption`,
`LimitAssumption`, `TrendAssumption`, `NodeAssumption`, `CallAssumption`, `PaperAssumption`,
`CarryAssumption`, `LabAssumption`): any number of orders, bots, threads or
candidates, any limits, periods, faults and (but where said) crashes. Each is an inductive
invariant that TLC checked first, one lemma per action or group of actions, and a last temporal step.

Of `BotTask`:

- **`TypeCorrect`** `Spec => []TypeOK`, the type invariant the other proofs use. `IndType` adds to the types that an order not yet
  handed out has no amount and no fill; the flags have an invariant of their own
  (`FlagsType`), because their steps are all about truth values. One step per action,
  and a lemma for each operator on the books and on the venue.
- **`BookingSafety`** `Spec => []BookedOncePerLife`. The bound alone is not inductive: it says
  nothing of what the bot may still book. `BookInv` adds that an order which this life can
  still book (a tracked order, or one left in the running loop) has not been booked in it.
  The stop-loss books a partly filled buy and keeps it until it has been
  canceled, so the buys are exempt while it runs, and it must drop them all.
- **`LedgerRefinement`** `Spec => ImplementsLedger`, for any faults and crashes. Each step is a step of the ledger
  or a stutter: the steps on one order are proved over its fields and lifted to the
  functions; that a record is of a fill, and the first of this life, comes from the types and from `BookInv`.
- **`PolicySafety`** `Spec => []PositionKnownToPolicy`, assuming `NoLeftover`: the account holds no sell
  orders of others. `PolicyInv` adds why no sell can fill and make the policy flat (a bot with a
  monitored stop sends no limit sell), and that a grid never has a position, in memory or on disk.
- **`TrackingSafety`** `Spec => []LiveOrdersTracked`, assuming `NoSilentOrders`: no lost
  replies, transient cancel failures, failed list at boot, partial fills or orders
  of others. `LiveInv` adds that a live order has no fill (an order leaves the
  books because it has one), and that in the stop-loss's cancel loop every live order is
  still to be canceled, because the books are then emptied at once. No run repeats it: `LiveOrdersKnown` is what is left of it
  when cancellations fail.
- **`KnownSafety`** `Spec => []LiveOrdersKnown`, assuming `NoHiddenOrders`: cancellations may fail, replies and the list at
  boot may not, and there are no partial fills or orders of others. `KnownInv` is `LiveInv` with one more place for a live order, the
  requests to cancel; the stop's loop must have asked, or have still to ask, for each.
- **`LevelSafety`** `Spec => []LiveBuysWithinLevels`, under the same assumption `NoHiddenOrders`. `LevelInv` adds that
  what a tick has decided to place fits: with the buys in the books that it does not
  cancel, it does not exceed the levels. Every live buy that the bot has not asked to cancel is in the books (`KnownInv`), so
  neither does the venue.
- **`StopLeavesNoOrder`** `Spec => [](NothingLive /\ StoppedBookIsFlat)` and **`StopPersistence`**
  `Spec => StopIsPersistent`, assuming `NoSilentOrders` and `MaxCrashes <= 1`, the exact
  bound up to which the second holds (section 4, point 1). Under that assumption no cancellation fails, so nothing at all is
  live (`NothingLive`); `MCGridFaults` checks `StoppedBookIsFlat` with one that does.
  `FlatInv` says what a latched flag means in memory (the stop is the step running, or it
  is done: empty books, nothing live, a plan that places nothing), on disk (empty books),
  and across the restart (the file that carries it is a named one).
  `StopPersistence` needs besides only that no step both writes the file and talks
  to the venue.

Of `BotTask` too, the four facts on amounts. Each names the failures it excludes: most are ways
the code does break the property (section 4 and the hazards), the others, like sell orders of others, are
left out. `MCTrendFaults` checks `ExcessSalesHaveCause`; the other three, like
`BookedOncePerLife` above, are theorems that no passing run repeats. The theorems allow any
pools, sizes and numbers of faults.

- **`FillSafety`** `Spec => []UncanceledFillAccounted`, assuming `TrendUp`: a trend bot, no
  lost replies, no crash. `AccountedInv` adds the buys that have not filled: in the
  books until the venue is through with them, and in the stop-loss's cancel loop, whose end
  empties the books, asked to cancel or still to be asked.
- **`SaleSafety`** and **`PositionSafety`**: `Spec => []SoldWithinBought` and
  `Spec => []PositionBacked`, assuming `OneSeller`: a trend bot whose only sales are those of the monitored
  stop, no lost replies, no orders of others, no crash. A booked buy overwrites the
  position instead of adding to it, so there is an inequality and no balance: `TrendMoney` bounds what is sold or
  still in the position by the fills of the buys that have left the books, and says that what
  was bought and not sold is free, with what others have brought.
- **`RepeatSafety`** `Spec => []ExcessSalesHaveCause`, assuming `StopSeller`: the same bot with lost replies,
  failed saves, units of others and any number of crashes; its orders fill whole. `RepeatInv` bounds what may still be sold twice, from memory and
  from the state file: the position and the fills of the buys each still holds. The
  file may be one sale behind the memory, which the crash that brings it back, or the save that failed, pays for.

The sums in these are folds of the library, of which only their definition by `CHOOSE` is known.
`SumIsUnits` gives them a value without induction: the count of the units of a set satisfies the
equation of the fold, so the function chosen exists; and if one that satisfies it differed from the
count on some subset, it would on a least one, and cannot there.

Of `TrendTask`:

- **`BarSafety`** `Spec => []BarsInOrder`, for either phase of the candles and through failed preloads. `BarInv` adds, as long as
  nothing has come out of step, that every bar begins before the one under construction, which is not after the clock's nor
  after that of the tick being read, each in the phase the policy has at the time; and that a policy without the venue's phase and
  without a tick has no bars. Candles that come in step put the bars before the period under construction whatever the old phase was, and
  those too short to be used change the phase without harm then. The candles of
  an answer are put in order by a `CHOOSE`: that an increasing sequence of a finite set of starts exists is shown
  through the one that counts, for each position, the starts below it.
- **`StopSafety`** `Spec => []StopSurvives`. `FloorInv` follows the highest stop in force through its
  three copies (the file, the books, the policy), each of which may be behind only while a step that
  brings it up to date is under way (`Midway`).

Of `AccountExposure`:

- **`ExposureTypeCorrect`** and **`CoverSafety`** `Spec => []ReservationCovers`, with any
  number of restarts. `CoverInv` adds that a tick begins with nothing left of the plan of
  the last one: a reservation replaces the bot's entry and would forget it.
- **`CapRefinement`** `Spec => ImplementsCap`, with any number of restarts. A
  reservation is an `Open`: `can_open` admits it against the commitments, and these
  cover what the known bots really have. A first reconciliation is a `Report`.
- **`CapSafety`** `Spec => []WithinCap` when `MaxCrashes = 0`, which point 5 of section 4
  shows to be needed. `CapInv` adds that a bot the registry has not heard of has nothing
  open, and that the commitments fit the cap.

The sum here is the module's own: `Total` counts tokens, so
`TotalReplace` (one entry replaced) and `TotalMonotone` follow from the theorems on
finite sets.

Of `RiskTask`, from two invariants. `RiskInv`: every state of the breaker, in memory, in the
temporary file and in the file, is `Sound` (its baselines are positive and not above its peak, and it
is open exactly when its multiplier is zero). `PeakInv`: the peaks on disk and in memory are not below
the highest equity that a completed save has seen.

- **`RiskTypeCorrect`**, **`BaselineSafety`** (`BaselinesUnderPeak`) and **`BlockedSizingSafety`** follow from the
  first. What they state follows from `RiskInv`, so no run repeats it.
- **`DrawdownSafety`** `Spec => []TradesWithinDrawdown`: what trades is within the limit of the
  peak the breaker compares with; `LossFromLower` carries it to the highest equity on
  record, which is not above that peak.
- **`FundingNotice`** `Spec => []UnfundedIsJournaled`: an append that fails ends the claim for that
  life; otherwise the last record of the journal and the class in memory say the same.
- **`ReplaySafety`** `Spec => []CutCostsOneRecord`. The bound alone is not inductive: a
  cut costs nothing yet when it happens, only when the next record joins its line. `JournalInv`
  counts a line left unterminated as a record already owed, and keeps the records
  in order over the lines, each first of its own, so that no other line can read the one that is lost.

Of `DenaroNode`, where `Inv` relates each bot's coroutine to the thread job it waits for, or
has abandoned:

- **`NodeTypeCorrect`** and **`IntentSafety`** `Spec => []LiveHasIntent`: a job that sends an order
  has its intent written, even when its coroutine is gone.
- **`EmergencySafety`** `Spec => []EmergencyCoversAll`. `EmergencyInv` adds that a bot
  no longer left in the guardian's loop has been asked and flushed.
- **`StopSafety`** `Spec => []StoppedSendsNothing`: the guardian's flag cannot restart a bot whose
  stop-loss is done.
- **`AbandonSafety`** `Spec => []OneOrderAbandoned`. `AbandonInv` bounds the live orders a bot does
  not know by its lost replies, plus one once its coroutine has ended and no job of it is about to send.

Of `ExchangeCalls`, from `CallTypes` and `PlacementInv`:

- **`CallTypeCorrect`** `Spec => []TypeOK`: a refill computed from an old clock never takes the
  bucket beyond its capacity, wherever the thread was preempted.
- **`PlacementSafety`** `Spec => []OneOrderPerPlacement`: callers at work are at work on
  different placements, and an order of such a placement carries the key its caller has in hand, which
  the venue refuses a second time.
- **`OneShotRefinement`** `Spec => ImplementsOneShot`: the steps on the bucket, the waits and the retries stutter, and
  an order is taken while its call is in hand and has none, which is what `PlacementInv` says of keys.

Of `PaperMarket`, from two invariants about the two halves of its state:

- **`PriceSafety`** `Spec => []PriceFresh`. The age of the cache counts from the arrival of an answer that
  had been under way; `HourInv` adds that an answer under way is not older than the latency.
- **`PaperTypes`**, **`BookingSafety`** (`BookedWereFilled`) and **`FollowUpSafety`** (`FillsAccounted`), any
  number of restarts. `OrderInv` relates an order's status at the exchange to the journal and
  the books: what the exchange calls filled or canceled is so, what it has open is not booked, and a
  tracked order it knows nothing of has been tracked over a restart.
- **`AccountSafety`** `Spec => []AccountFollowsJournal`. With `OrderInv`, the equation itself
  is inductive. The lemmas on `Count` split it by disjoint sets of orders and by one record appended;
  each action then moves one unit between two of its terms.

Of `CanaryCarry`, from one invariant, `CarryInv`, in which an order left behind and the one being polled
count together as what is still on offer of a leg:

- **`CarryTypes`** and **`CloseSafety`** `Spec => []NeverLong`. `OnlyReduces` adds that nothing is
  on offer to buy back once the short is gone.
- **`OpeningSafety`** `Spec => []OneOpeningAtATime`. `Bounded` gives, for each place of the
  command, what it may hold at most if everything on offer fills.
- **`HedgeSafety`** `Spec => []NakedSpotHasCause`. `CleanCourse` follows an opening in which nothing
  has gone wrong: only sales of spot are left behind, and what is to be hedged is all the spot.

Of `StrategyLab`, in `NodeProofs` (its specification is `LabSpec`):

- **`ValidationSafety`** `Spec => []LiveWasValidated`. `PaperInv` follows the time a candidate was
  put on paper through the three places that keep a copy.
- **`PaperRunSafety`** `ValidateAge > 0 => (Spec => []LiveRanAsPaper)`. `RanInv` says that a
  candidate older than the present cycle has run or has been skipped.
- **`SpacingSafety`** `Spec => []RestartsSpaced`. `SpacedInv` relates the limit in memory, in the
  file, and as read by the watchdog to the last restart, until the threads race.

Only model-checked: liveness everywhere (`FilledBuyBooked`, `ExpiredBuyCanceled`, `StopCloses`, `Unblocks`,
`EmergencyExits`, `StopExits`, `CallsEnd`, `ShortIsReported`), which the prover does not handle. Every invariant and every
refinement that a passing run checks is a theorem; one with a hypothesis leaves to the runs what they check beyond it,
as partial fills in `MCTrendFaults`. A counterexample, like those of `MCStopTwice` and `MCStopForgotten`, is TLC's alone.

## 6. Not modelled, and plan

Left for later, in this order:

1. `AccountExposure` with prices (marking to market, take-profit targets) and
   ladder sells; the balance and equity the bots of an account share.
2. `GridPolicy` on level numbers, checked against the decision sets that `BotTask` uses.
3. The planner of carry phase 2 (`carry_fase2.py`), a pure function the tests reach well, and
   the tick interval that the supervisor stretches, which wants a model with time.

Left out for good: the numeric indicators and strategies, the Kelly fraction and the volatility scaling
(floating point); backtest and research, which are offline and keep no state; the configuration,
which is parsed once; dashboards, monitoring, Zabbix, deployment scripts and the legacy
engines, which share no state with the trading process. They are most of the lines of the
repository: the modules here stand for about 3200 lines, nearly all of those that decide what the process does
to its orders, its files and its account.
