--------------------------- MODULE CircuitBreaker ---------------------------
(***************************************************************************)
(* RiskManager (denaro/domain/risk.py) as operators on the part of         *)
(* CoreState it decides on (denaro/domain/types.py).  Amounts are          *)
(* integers, limits are percentages, the sizing multiplier is in tenths,   *)
(* and a comparison of ratios is one of products.                          *)
(*                                                                         *)
(* An operator XBug, defined before X, is X with a plausible coding error. *)
(***************************************************************************)
EXTENDS Integers, FiniteSets

CONSTANTS
    Initial,                \* CoreState.initial_capital: the bot's capital
    DailyLimit,             \* daily_loss_limit, in percent
    WeeklyLimit,            \* weekly_loss_limit, in percent
    DrawdownLimit,          \* max_drawdown_limit, in percent
    MaxConsecutiveLosses,
    Day,                    \* _DAY_SEC in units of the model's clock
    Week                    \* a week, in the same units

ASSUME LimitAssumption ==
    /\ Initial \in Nat \ {0}
    /\ {DailyLimit, WeeklyLimit, DrawdownLimit} \subseteq 0 .. 100
    /\ MaxConsecutiveLosses \in Nat \ {0}
    /\ Day \in Nat \ {0} /\ Week \in Nat \ {0}

CBStates == {"closed", "open", "half_open"}
VolatilityRegimes == {"low", "normal", "high", "extreme"}

\* _DAILY_LOSS_VOL_FACTOR, in percent
DailyLossVolFactor == [low |-> 120, normal |-> 100, high |-> 80, extreme |-> 60]

CoreStates ==
    [peak: Nat, day: Nat, week: Nat, current: Nat,
     lastDaily: Int, lastWeekly: Int, cb: CBStates, sizing: Nat,
     wins: Nat, losses: Nat, trades: Nat]

\* The state BotTask.__init__ builds: the bot's capital as every baseline, and
\* resets so old that the first check starts a day and a week.
Baseline ==
    [peak |-> Initial, day |-> Initial, week |-> Initial, current |-> Initial,
     lastDaily |-> -(Day + 1), lastWeekly |-> -Week, cb |-> "closed",
     sizing |-> 10, wins |-> 0, losses |-> 0, trades |-> 0]

LowerOf(a, b) == IF a <= b THEN a ELSE b
HigherOf(a, b) == IF a >= b THEN a ELSE b

\* An equity above 30 times the capital is a dirty reading.
Clamp(equity) == LowerOf(HigherOf(equity, 0), 30 * Initial)

\* _week_start_ts: the clock starts on a Monday.
WeekStart(now) == now - (now % Week)

DailyReset(cs, equity, now) ==
    IF now - cs.lastDaily > Day
    THEN [cs EXCEPT !.lastDaily = now, !.day = equity] ELSE cs

WeeklyReset(cs, equity, now) ==
    IF cs.lastWeekly < WeekStart(now)
    THEN [cs EXCEPT !.lastWeekly = WeekStart(now), !.week = equity] ELSE cs

TrackPeak(cs, equity) ==
    [cs EXCEPT !.peak = HigherOf(@, equity), !.current = equity]

LossOver(base, equity, percent) == (base - equity) * 100 > percent * base

LossUnder(base, equity, percent) == (base - equity) * 100 < percent * base

\* Half the limit, and the daily limit scaled by the volatility regime.
LossUnderHalf(base, equity, percent) == (base - equity) * 200 < percent * base
DailyLossOver(base, equity, vol) ==
    (base - equity) * 10000 > DailyLimit * DailyLossVolFactor[vol] * base
DailyLossUnder(base, equity, vol) ==
    (base - equity) * 10000 < DailyLimit * DailyLossVolFactor[vol] * base
DailyLossUnderHalf(base, equity, vol) ==
    (base - equity) * 20000 < DailyLimit * DailyLossVolFactor[vol] * base

Open(cs) == [cs EXCEPT !.cb = "open", !.sizing = 0]

\* Consecutive losses take any state to half_open, an open one included.
AfterStreak(cs) ==
    IF cs.losses >= MaxConsecutiveLosses THEN [cs EXCEPT !.cb = "half_open"] ELSE cs

RecoverBug(cs, vol) ==
    IF cs.cb = "open" /\ LossUnderHalf(cs.peak, cs.current, DrawdownLimit) /\ cs.wins > 0
    THEN [cs EXCEPT !.cb = "closed"] ELSE cs

\* The transitions that recover from open.
Recover(cs, vol) ==
    IF cs.cb # "open" THEN cs
    ELSE IF /\ LossUnderHalf(cs.peak, cs.current, DrawdownLimit)
            /\ DailyLossUnderHalf(cs.day, cs.current, vol)
    THEN [cs EXCEPT !.cb = "closed"]
    ELSE IF /\ LossUnder(cs.peak, cs.current, DrawdownLimit)
            /\ DailyLossUnder(cs.day, cs.current, vol)
    THEN [cs EXCEPT !.cb = "half_open"]
    ELSE cs

\* The sizing multiplier ladder.
SizingLadder(cs) ==
    IF cs.cb = "open" THEN 0
    ELSE IF cs.cb = "half_open" \/ cs.losses >= MaxConsecutiveLosses THEN 5
    ELSE IF cs.wins >= 5 THEN 20
    ELSE IF cs.wins >= 3 THEN LowerOf(20, cs.sizing + 2)
    ELSE 10

\* One of the three losses is over its limit: the breaker opens and returns.
OverALimit(cs, vol) ==
    \/ LossOver(cs.week, cs.current, WeeklyLimit)
    \/ DailyLossOver(cs.day, cs.current, vol)
    \/ LossOver(cs.peak, cs.current, DrawdownLimit)

\* RiskManager.check_circuit_breaker; the tick is blocked iff the result is open.
\* The baselines are never zero here (TypeOK of RiskTask), so the code's
\* replacements of a zero baseline have nothing to replace.
Check(cs, equity, now, vol) ==
    LET e == Clamp(equity)
        tracked == TrackPeak(WeeklyReset(DailyReset(cs, e, now), e, now), e)
        recovered == Recover(AfterStreak(tracked), vol)
    IN  IF OverALimit(tracked, vol) THEN Open(tracked)
        ELSE [recovered EXCEPT !.sizing = SizingLadder(recovered)]

\* PerfMetrics.update with the profit of a sale.
Trade(cs, won) ==
    [cs EXCEPT !.trades = @ + 1,
               !.wins = IF won THEN @ + 1 ELSE 0,
               !.losses = IF won THEN 0 ELSE @ + 1]
=============================================================================
