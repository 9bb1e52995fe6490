----------------------------- MODULE RiskProofs -----------------------------
(***************************************************************************)
(* What the circuit breaker keeps true across ticks, crashes and failing   *)
(* saves, for any amounts, limits and bounds.                              *)
(*                                                                         *)
(* Sound is what one state of the breaker must be; the breaker's operators *)
(* take sound states to sound states, so memory and disk hold only sound   *)
(* ones.  PeakInv is what makes the drawdown limit survive a restart: the  *)
(* document that readers see knows a peak at least as high as any equity   *)
(* that was ever saved, and so does the state of a running process, even   *)
(* when a crash discards what it had seen since the last save.             *)
(*                                                                         *)
(* JournalInv is about the journal file: what each cut may cost.           *)
(***************************************************************************)
EXTENDS RiskTask, FiniteSetTheorems, TLAPS

Sound(s) ==
    /\ s.sizing <= 20
    /\ s.peak > 0 /\ s.day > 0 /\ s.week > 0
    /\ s.day <= s.peak /\ s.week <= s.peak /\ s.current <= s.peak
    /\ s.cb = "open" <=> s.sizing = 0

SoundStates == {s \in CoreStates : Sound(s)}

Documents == {Unreadable} \cup {<<s>> : s \in SoundStates}

RiskInv ==
    /\ now \in Nat /\ market \in Readings /\ reading \in Readings
    /\ pc \in {"down", "idle", "gate", "save", "replace", "note"} \cup Trading
    /\ cs \in SoundStates
    /\ riskFile \in [main : Documents, tmp : Documents]
    /\ funding \in Classes
    /\ pc \in {"gate", "note"} => funding = Classify(reading)

PeakInv ==
    /\ top \in Nat
    /\ riskFile.main = Unreadable => top = 0
    /\ riskFile.main # Unreadable => riskFile.main[1].peak >= top
    /\ pc # "down" => cs.peak >= top
    /\ pc = "replace" => riskFile.tmp = <<cs>>
    /\ pc \in Trading => ~LossOver(cs.peak, cs.current, DrawdownLimit)

-----------------------------------------------------------------------------
\* Operators of the breaker.

LEMMA ClampBounds ==
    ASSUME NEW e \in Nat \ {0}
    PROVE  Clamp(e) \in Nat \ {0}
BY LimitAssumption DEF Clamp, LowerOf, HigherOf

LEMMA ResetKeepsTypes ==
    ASSUME NEW s \in CoreStates, NEW e \in Nat, NEW t \in Nat
    PROVE  /\ DailyReset(s, e, t) \in CoreStates
           /\ WeeklyReset(s, e, t) \in CoreStates
<1>1. WeekStart(t) \in Int
  BY LimitAssumption DEF WeekStart
<1>2. [s EXCEPT !.lastDaily = t, !.day = e] \in CoreStates
  <2>1. t \in Int
    OBVIOUS
  <2>2. QED
    BY <2>1 DEF CoreStates
<1>3. [s EXCEPT !.lastWeekly = WeekStart(t), !.week = e] \in CoreStates
  BY <1>1 DEF CoreStates
<1>4. QED
  BY <1>2, <1>3 DEF DailyReset, WeeklyReset

\* A new period starts from the equity just read, which the peak then follows.
LEMMA TrackedIsSound ==
    ASSUME NEW s \in CoreStates, Sound(s), NEW e \in Nat \ {0}, NEW t \in Nat
    PROVE  LET tracked == TrackPeak(WeeklyReset(DailyReset(s, e, t), e, t), e)
           IN  /\ tracked \in CoreStates /\ Sound(tracked)
               /\ tracked.current = e
               /\ tracked.peak >= s.peak /\ tracked.peak >= e
<1> DEFINE d == DailyReset(s, e, t)
           w == WeeklyReset(d, e, t)
<1>1. d \in CoreStates
  BY ResetKeepsTypes
<1>2. /\ d.peak = s.peak /\ d.cb = s.cb /\ d.sizing = s.sizing
      /\ d.day \in {s.day, e} /\ d.week = s.week
  BY DEF DailyReset, CoreStates
<1> HIDE DEF d
<1>3. w \in CoreStates
  BY <1>1, ResetKeepsTypes
<1>4. /\ w.peak = d.peak /\ w.cb = d.cb /\ w.sizing = d.sizing
      /\ w.day = d.day /\ w.week \in {d.week, e}
  BY <1>1 DEF WeeklyReset, CoreStates
<1> HIDE DEF w
<1> DEFINE p == TrackPeak(w, e)
<1>5. p \in CoreStates
  <2>1. HigherOf(w.peak, e) \in Nat
    BY <1>3 DEF HigherOf, CoreStates
  <2>2. QED
    BY <1>3, <2>1 DEF TrackPeak, CoreStates
<1>6. /\ p.current = e /\ p.peak = HigherOf(w.peak, e)
      /\ p.day = w.day /\ p.week = w.week /\ p.cb = w.cb /\ p.sizing = w.sizing
  BY <1>3 DEF TrackPeak, CoreStates
<1> HIDE DEF p
<1>7. /\ Sound(p) /\ p.current = e /\ p.peak >= s.peak /\ p.peak >= e
  BY <1>2, <1>4, <1>6 DEF Sound, HigherOf, CoreStates
<1>8. QED
  BY <1>5, <1>7 DEF p, w, d

LEMMA OpenIsSound ==
    ASSUME NEW s \in CoreStates, Sound(s)
    PROVE  /\ Open(s) \in CoreStates /\ Sound(Open(s))
           /\ Open(s).peak = s.peak /\ Open(s).current = s.current
           /\ Open(s).cb = "open"
<1>1. Open(s) \in CoreStates
  BY DEF Open, CoreStates, CBStates
<1>2. Sound(Open(s))
  BY DEF Open, Sound, CoreStates
<1>3. QED
  BY <1>1, <1>2 DEF Open, CoreStates

\* Only the ladder sets the multiplier when the breaker does not open.
LEMMA LadderIsSound ==
    ASSUME NEW s \in CoreStates, s.sizing <= 20
    PROVE  /\ SizingLadder(s) \in 0 .. 20
           /\ s.cb = "open" <=> SizingLadder(s) = 0
BY DEF SizingLadder, LowerOf, CoreStates

\* The streak and the recovery change only the state of the breaker.
LEMMA RecoveryKeepsAmounts ==
    ASSUME NEW s \in CoreStates, NEW vol \in VolatilityRegimes
    PROVE  LET r == Recover(AfterStreak(s), vol)
           IN  /\ r \in CoreStates
               /\ r.sizing = s.sizing /\ r.peak = s.peak /\ r.current = s.current
               /\ r.day = s.day /\ r.week = s.week
<1> DEFINE a == AfterStreak(s)
           r == Recover(a, vol)
<1>1. \E c \in CBStates : a = [s EXCEPT !.cb = c]
  <2>1. s = [s EXCEPT !.cb = s.cb] /\ s.cb \in CBStates
    BY DEF CoreStates
  <2>2. QED
    BY <2>1 DEF AfterStreak, CBStates
<1>2. PICK c \in CBStates : a = [s EXCEPT !.cb = c]
  BY <1>1
<1>3. a \in CoreStates
  BY <1>2 DEF CoreStates
<1> HIDE DEF a
<1>4. \E b \in CBStates : r = [a EXCEPT !.cb = b]
  <2>1. a = [a EXCEPT !.cb = a.cb] /\ a.cb \in CBStates
    BY <1>3 DEF CoreStates
  <2>2. QED
    BY <2>1 DEF Recover, CBStates
<1>5. PICK b \in CBStates : r = [a EXCEPT !.cb = b]
  BY <1>4
<1> HIDE DEF r
<1>6. r \in CoreStates
  BY <1>3, <1>5 DEF CoreStates
<1>7. /\ r.sizing = s.sizing /\ r.peak = s.peak /\ r.current = s.current
      /\ r.day = s.day /\ r.week = s.week
  BY <1>2, <1>3, <1>5 DEF CoreStates
<1>8. QED
  BY <1>6, <1>7 DEF r, a

LEMMA CheckIsSound ==
    ASSUME NEW s \in CoreStates, Sound(s), NEW e \in Nat \ {0}, NEW t \in Nat,
           NEW vol \in VolatilityRegimes
    PROVE  LET c == Check(s, e, t, vol)
           IN  /\ c \in CoreStates /\ Sound(c)
               /\ c.peak >= s.peak
               /\ c.cb # "open" => ~LossOver(c.peak, c.current, DrawdownLimit)
<1> DEFINE x == Clamp(e)
           tracked == TrackPeak(WeeklyReset(DailyReset(s, x, t), x, t), x)
           recovered == Recover(AfterStreak(tracked), vol)
           c == Check(s, e, t, vol)
<1>1. x \in Nat \ {0}
  BY ClampBounds
<1>2. c = IF OverALimit(tracked, vol) THEN Open(tracked)
          ELSE [recovered EXCEPT !.sizing = SizingLadder(recovered)]
  BY DEF Check
<1> HIDE DEF x, c
<1>3. /\ tracked \in CoreStates /\ Sound(tracked) /\ tracked.current = x
      /\ tracked.peak >= s.peak /\ tracked.peak >= x
  BY <1>1, TrackedIsSound
<1> HIDE DEF tracked
<1>4. CASE OverALimit(tracked, vol)
  BY <1>2, <1>3, <1>4, OpenIsSound DEF c
<1>5. CASE ~OverALimit(tracked, vol)
  <2>1. /\ recovered \in CoreStates /\ recovered.sizing = tracked.sizing
        /\ recovered.peak = tracked.peak /\ recovered.current = tracked.current
        /\ recovered.day = tracked.day /\ recovered.week = tracked.week
    BY <1>3, RecoveryKeepsAmounts
  <2> HIDE DEF recovered
  <2>2. /\ SizingLadder(recovered) \in 0 .. 20
        /\ recovered.cb = "open" <=> SizingLadder(recovered) = 0
    BY <1>3, <2>1, LadderIsSound DEF Sound
  <2>3. ~LossOver(tracked.peak, tracked.current, DrawdownLimit)
    BY <1>5 DEF OverALimit
  <2>4. c = [recovered EXCEPT !.sizing = SizingLadder(recovered)]
    BY <1>2, <1>5
  <2>5. c \in CoreStates
    BY <2>1, <2>2, <2>4 DEF CoreStates
  <2>6. /\ c.sizing = SizingLadder(recovered) /\ c.cb = recovered.cb
        /\ c.peak = recovered.peak /\ c.current = recovered.current
        /\ c.day = recovered.day /\ c.week = recovered.week
    BY <2>1, <2>4 DEF CoreStates
  <2>7. Sound(c)
    BY <1>3, <2>1, <2>2, <2>6 DEF Sound
  <2>8. QED
    BY <1>3, <2>1, <2>3, <2>5, <2>6, <2>7 DEF c
<1>6. QED
  BY <1>4, <1>5

LEMMA TradeIsSound ==
    ASSUME NEW s \in CoreStates, Sound(s), NEW won \in BOOLEAN
    PROVE  /\ Trade(s, won) \in CoreStates /\ Sound(Trade(s, won))
           /\ Trade(s, won).peak = s.peak /\ Trade(s, won).current = s.current
           /\ Trade(s, won).cb = s.cb
<1>1. Trade(s, won) \in CoreStates
  <2> DEFINE wins == IF won THEN s.wins + 1 ELSE 0
             losses == IF won THEN 0 ELSE s.losses + 1
  <2>1. s.trades + 1 \in Nat /\ wins \in Nat /\ losses \in Nat
    BY DEF CoreStates
  <2>2. Trade(s, won) = [s EXCEPT !.trades = s.trades + 1, !.wins = wins, !.losses = losses]
    BY DEF Trade
  <2> HIDE DEF wins, losses
  <2>3. QED
    BY <2>1, <2>2 DEF CoreStates
<1>2. QED
  BY <1>1 DEF Trade, Sound, CoreStates

LEMMA BaselineIsSound == Baseline \in SoundStates
<1>1. Baseline \in CoreStates
  BY LimitAssumption DEF Baseline, CoreStates, CBStates
<1>2. Sound(Baseline)
  BY LimitAssumption DEF Baseline, Sound
<1>3. QED
  BY <1>1, <1>2 DEF SoundStates

LEMMA LoadIsSound ==
    ASSUME NEW f \in [main : Documents, tmp : Documents]
    PROVE  Load(f, Baseline) \in SoundStates
BY BaselineIsSound DEF Load, Documents, Unreadable

\* A funded account has a value.
LEMMA FundedIsPositive ==
    ASSUME NEW r \in Readings, Classify(r) \in {"ok", "sottocapitalizzato"}
    PROVE  r \in Nat \ {0}
<1>1. ~(r < 0) /\ ~(r < Threshold)
  BY DEF Classify
<1>2. r \in Int
  BY RiskAssumption DEF Readings, Unread
<1>3. QED
  BY <1>1, <1>2, RiskAssumption

\* A document that readers can load, and its peak.
LEMMA DocumentFacts ==
    ASSUME NEW d \in Documents, d # Unreadable
    PROVE  d[1] \in CoreStates /\ Sound(d[1]) /\ d = <<d[1]>>
BY DEF Documents, SoundStates

-----------------------------------------------------------------------------
\* Every state is sound, in memory and on the disk.

LEMMA InitRisk == Init => RiskInv /\ PeakInv
BY BaselineIsSound, RiskAssumption
DEF Init, RiskInv, PeakInv, Readings, Unread, NoClass, Classes, NewFile, Documents, Unreadable,
    Trading, Sales

LEMMA ClassifyClass == ASSUME NEW r PROVE Classify(r) \in Classes
BY DEF Classify, Classes

LEMMA StepKeepsRisk == RiskInv /\ [Next]_vars => RiskInv'
<1> SUFFICES ASSUME RiskInv, [Next]_vars
             PROVE  RiskInv'
  OBVIOUS
<1> USE DEF RiskInv, Trading, Sales
<1>1. ASSUME NEW v \in Readings, Move(v) PROVE RiskInv'
  BY <1>1 DEF Move
<1>2. CASE Tick
  BY <1>2 DEF Tick
<1>3. CASE Crash
  <2>1. riskFile' \in [main : Documents, tmp : Documents]
    BY <1>3 DEF Crash, TearTmp, Documents
  <2>2. QED
    BY <1>3, <2>1, BaselineIsSound DEF Crash, envVars, NoClass, Classes, Readings
<1>4. CASE Boot
  BY <1>4, LoadIsSound DEF Boot, envVars, diskVars
<1>5. CASE ReadEquity
  BY <1>5, ClassifyClass DEF ReadEquity, envVars, diskVars
<1>6. CASE Noted
  BY <1>6 DEF Noted, envVars
<1>7. CASE AppendFails
  BY <1>7 DEF AppendFails, envVars, Appending, Readings
<1>8. CASE Unfunded
  BY <1>8 DEF Unfunded, envVars, diskVars, Readings
<1>9. CASE Implausible
  BY <1>9 DEF Implausible, envVars, diskVars, Readings
<1>10. ASSUME NEW vol \in VolatilityRegimes, CheckRisk(vol) PROVE RiskInv'
  <2>1. reading \in Nat \ {0}
    BY <1>10, FundedIsPositive DEF CheckRisk
  <2>2. cs' \in SoundStates
    BY <1>10, <2>1, CheckIsSound DEF CheckRisk, SoundStates
  <2>3. QED
    BY <1>10, <2>2 DEF CheckRisk, envVars, diskVars, Readings
<1>11. CASE SaleFilled
  BY <1>11 DEF SaleFilled, envVars, diskVars
<1>12. ASSUME NEW won \in BOOLEAN, SaleBooked(won) \/ StopSold(won) PROVE RiskInv'
  <2>1. cs' \in SoundStates
    BY <1>12, TradeIsSound DEF SaleBooked, StopSold, SoundStates
  <2>2. QED
    BY <1>12, <2>1 DEF SaleBooked, StopSold, envVars, diskVars
<1>13. CASE StopBooked
  BY <1>13 DEF StopBooked, envVars
<1>14. CASE EndOfTrading
  BY <1>14 DEF EndOfTrading, envVars, diskVars
<1>15. CASE SaveWritten
  <2>1. riskFile' \in [main : Documents, tmp : Documents]
    BY <1>15 DEF SaveWritten, WriteTmp, Documents
  <2>2. QED
    BY <1>15, <2>1 DEF SaveWritten, envVars
<1>16. CASE SaveFails
  <2>1. riskFile' \in [main : Documents, tmp : Documents]
    BY <1>16 DEF SaveFails, TearTmp, Documents
  <2>2. QED
    BY <1>16, <2>1 DEF SaveFails, envVars
<1>17. CASE SaveReplaced
  <2>1. riskFile' \in [main : Documents, tmp : Documents]
    BY <1>17 DEF SaveReplaced, Replace, Documents
  <2>2. QED
    BY <1>17, <2>1 DEF SaveReplaced, envVars
<1>18. CASE UNCHANGED vars
  BY <1>18 DEF vars
<1>19. QED
  BY <1>1, <1>2, <1>3, <1>4, <1>5, <1>6, <1>7, <1>8, <1>9, <1>10, <1>11, <1>12, <1>13, <1>14,
     <1>15, <1>16, <1>17, <1>18 DEF Next, Bot

-----------------------------------------------------------------------------
\* The peak outlives the process.

LEMMA StepKeepsPeak == RiskInv /\ PeakInv /\ [Next]_vars => PeakInv'
<1> SUFFICES ASSUME RiskInv, PeakInv, [Next]_vars
             PROVE  PeakInv'
  OBVIOUS
<1>0. cs \in CoreStates /\ Sound(cs)
  BY DEF RiskInv, SoundStates
<1> USE DEF PeakInv, Trading, Sales
<1>1. ASSUME NEW v \in Readings, Move(v) PROVE PeakInv'
  BY <1>1 DEF Move, obsVars
<1>2. CASE Tick
  BY <1>2 DEF Tick, obsVars
<1>3. CASE Crash
  BY <1>3 DEF Crash, TearTmp, RiskInv
<1>4. CASE Boot
  <2>1. CASE riskFile.main = Unreadable
    <3>1. cs' \in CoreStates /\ top = 0
      BY <1>4, <2>1, BaselineIsSound DEF Boot, Load, SoundStates
    <3>2. cs'.peak >= 0
      BY <3>1 DEF CoreStates
    <3>3. QED
      BY <1>4, <3>1, <3>2 DEF Boot, diskVars, obsVars
  <2>2. CASE riskFile.main # Unreadable
    BY <1>4, <2>2 DEF Boot, Load, diskVars, obsVars
  <2>3. QED
    BY <2>1, <2>2
<1>5. CASE ReadEquity
  BY <1>5 DEF ReadEquity, diskVars, obsVars
<1>6. CASE Noted
  BY <1>6 DEF Noted
<1>7. CASE AppendFails
  BY <1>7 DEF AppendFails, Appending
<1>8. CASE Unfunded
  BY <1>8 DEF Unfunded, diskVars, obsVars
<1>9. CASE Implausible
  BY <1>9 DEF Implausible, diskVars, obsVars
<1>10. ASSUME NEW vol \in VolatilityRegimes, CheckRisk(vol) PROVE PeakInv'
  <2>1. reading \in Nat \ {0} /\ now \in Nat
    BY <1>10, FundedIsPositive DEF CheckRisk, RiskInv
  <2>2. /\ cs' \in CoreStates /\ cs'.peak >= cs.peak
        /\ cs'.cb # "open" => ~LossOver(cs'.peak, cs'.current, DrawdownLimit)
    BY <1>0, <1>10, <2>1, CheckIsSound DEF CheckRisk
  <2>3. cs'.peak >= top
    BY <1>0, <1>10, <2>2 DEF CheckRisk, CoreStates
  <2>4. QED
    BY <1>10, <2>2, <2>3 DEF CheckRisk, diskVars, obsVars
<1>11. CASE SaleFilled
  BY <1>11 DEF SaleFilled, diskVars, obsVars
<1>12. ASSUME NEW won \in BOOLEAN, SaleBooked(won) \/ StopSold(won) PROVE PeakInv'
  <2>1. cs'.peak = cs.peak /\ cs'.current = cs.current
    BY <1>0, <1>12, TradeIsSound DEF SaleBooked, StopSold
  <2>2. QED
    BY <1>12, <2>1 DEF SaleBooked, StopSold, diskVars, obsVars
<1>13. CASE StopBooked
  BY <1>13 DEF StopBooked
<1>14. CASE EndOfTrading
  BY <1>14 DEF EndOfTrading, diskVars, obsVars
<1>15. CASE SaveWritten
  BY <1>15 DEF SaveWritten, WriteTmp, obsVars, RiskInv
<1>16. CASE SaveFails
  BY <1>16 DEF SaveFails, TearTmp, RiskInv
<1>17. CASE SaveReplaced
  <2>1. riskFile'.main = <<cs>>
    BY <1>17 DEF SaveReplaced, Replace
  <2>2. top' \in Nat /\ cs.peak >= top'
    BY <1>0, <1>17 DEF SaveReplaced, HigherOf, CoreStates, Sound
  <2>3. QED
    BY <1>17, <2>1, <2>2 DEF SaveReplaced, Unreadable
<1>18. CASE UNCHANGED vars
  BY <1>18 DEF vars
<1>19. QED
  BY <1>1, <1>2, <1>3, <1>4, <1>5, <1>6, <1>7, <1>8, <1>9, <1>10, <1>11, <1>12, <1>13, <1>14,
     <1>15, <1>16, <1>17, <1>18 DEF Next, Bot

LEMMA RiskInvariant == Spec => [](RiskInv /\ PeakInv)
<1>1. RiskInv /\ PeakInv /\ [Next]_vars => (RiskInv /\ PeakInv)'
  BY StepKeepsRisk, StepKeepsPeak
<1>2. QED
  BY <1>1, InitRisk, PTL DEF Spec

\* A drawdown under the limit from a peak is under it from anything lower.
LEMMA LossFromLower ==
    ASSUME NEW a \in Nat, NEW b \in Nat, a <= b, NEW c \in Nat, NEW p \in 0 .. 100,
           ~LossOver(b, c, p)
    PROVE  ~LossOver(a, c, p)
<1>1. (b - c) * 100 <= p * b
  BY DEF LossOver
<1>2. (100 - p) * (b - a) >= 0
  OBVIOUS
<1>3. (100 - p) * (b - a) = (100 * b - 100 * a) - (p * b - p * a)
  OBVIOUS
<1>4. p * a \in Int /\ p * b \in Int
  OBVIOUS
<1>5. (a - c) * 100 <= p * a
  BY <1>1, <1>2, <1>3, <1>4
<1>6. QED
  BY <1>4, <1>5 DEF LossOver

-----------------------------------------------------------------------------
\* The variables keep their types, and no baseline is ever zero, whatever the
\* account is read to hold.
THEOREM RiskTypeCorrect == Spec => []TypeOK
<1>1. RiskInv => TypeOK
  BY DocumentFacts DEF RiskInv, TypeOK, SoundStates, Sound, CoreStates
<1>2. QED
  BY <1>1, RiskInvariant, PTL

\* A tick that may trade is within the drawdown limit of the highest equity any
\* saved tick of any life has seen, for any limits and any number of crashes:
\* restarting the process does not disarm the breaker.
THEOREM DrawdownSafety == Spec => []TradesWithinDrawdown
<1>1. RiskInv /\ PeakInv => TradesWithinDrawdown
  <2> SUFFICES ASSUME RiskInv, PeakInv, pc \in Trading
               PROVE  ~LossOver(top, cs.current, DrawdownLimit)
    BY DEF TradesWithinDrawdown
  <2>1. /\ cs.peak \in Nat /\ cs.current \in Nat /\ top \in Nat
        /\ top <= cs.peak /\ DrawdownLimit \in 0 .. 100
    BY LimitAssumption DEF RiskInv, PeakInv, SoundStates, CoreStates, Trading, Sales
  <2>2. ~LossOver(cs.peak, cs.current, DrawdownLimit)
    BY DEF PeakInv
  <2>3. QED
    BY <2>1, <2>2, LossFromLower
<1>2. QED
  BY <1>1, RiskInvariant, PTL

\* The baselines of a day and of a week never exceed the peak, on the disk as in
\* memory.
THEOREM BaselineSafety == Spec => []BaselinesUnderPeak
<1>1. RiskInv => BaselinesUnderPeak
  BY DocumentFacts DEF RiskInv, BaselinesUnderPeak, SoundStates, Sound
<1>2. QED
  BY <1>1, RiskInvariant, PTL

\* An open breaker sizes every order at nothing and no other state does, in
\* whatever a restart may find.
THEOREM BlockedSizingSafety == Spec => []BlockedSizesNothing
<1>1. RiskInv => BlockedSizesNothing
  BY DocumentFacts DEF RiskInv, BlockedSizesNothing, SoundStates, Sound
<1>2. QED
  BY <1>1, RiskInvariant, PTL

\* A process whose appends have not failed has told its journal, last of all
\* transitions, that the account is not funded whenever it acts on it.
THEOREM FundingNotice == Spec => []UnfundedIsJournaled
<1> DEFINE Inv == faults \in Nat /\ UnfundedIsJournaled
<1>1. Init => Inv
  BY DEF Init, UnfundedIsJournaled, NoClass
<1>2. Inv /\ [Next]_vars => Inv'
  <2> SUFFICES ASSUME Inv, [Next]_vars
               PROVE  Inv'
    OBVIOUS
  <2> USE DEF UnfundedIsJournaled
  <2>1. CASE ReadEquity
    BY <2>1 DEF ReadEquity, Noteworthy, obsVars
  <2>2. CASE Noted
    BY <2>2 DEF Noted
  <2>3. CASE Crash
    BY <2>3 DEF Crash, NoClass
  <2>4. CASE AppendFails \/ SaveFails
    BY <2>4 DEF AppendFails, SaveFails
  <2>5. CASE Boot \/ Unfunded \/ Implausible \/ SaleFilled \/ StopBooked \/ EndOfTrading
             \/ SaveWritten \/ SaveReplaced \/ Tick
    BY <2>5 DEF Boot, Unfunded, Implausible, SaleFilled, StopBooked, EndOfTrading,
       SaveWritten, SaveReplaced, Tick, obsVars
  <2>6. ASSUME NEW vol \in VolatilityRegimes, CheckRisk(vol) PROVE Inv'
    BY <2>6 DEF CheckRisk, obsVars
  <2>7. ASSUME NEW won \in BOOLEAN, SaleBooked(won) \/ StopSold(won) PROVE Inv'
    BY <2>7 DEF SaleBooked, StopSold, obsVars
  <2>8. ASSUME NEW v \in Readings, Move(v) PROVE Inv'
    BY <2>8 DEF Move, obsVars
  <2>9. CASE UNCHANGED vars
    BY <2>9 DEF vars
  <2>10. QED
    BY <2>1, <2>2, <2>3, <2>4, <2>5, <2>6, <2>7, <2>8, <2>9 DEF Next, Bot
<1>3. QED
  BY <1>1, <1>2, PTL DEF Spec

-----------------------------------------------------------------------------
(* The journal: records acknowledged, cut short and glued together.          *)

Pieces == [rec : [event : Appending, n : Nat], whole : BOOLEAN]

Journals == [lines : Seq(Seq(Pieces)), terminated : BOOLEAN]

\* Whether a line is read, and what would be, depend on its first piece.
FirstOf(line) == line[1].rec.n

ReadNow == {ReadAll(journal)[i].n : i \in DOMAIN ReadAll(journal)}

Lost == acked \ ReadNow

(* CutCostsOneRecord is not inductive: a line that was cut short costs nothing yet, but *)
(* will cost the next record.  So it is counted with those that are lost; and what   *)
(* it holds has not been acknowledged, so nothing more is lost with it.              *)
JournalInv ==
    /\ pc \in {"down", "idle", "gate", "save", "replace", "note"} \cup Trading
    /\ journal \in Journals /\ appends \in Nat /\ cuts \in Nat
    /\ acked \subseteq 1 .. appends
    /\ \A i \in DOMAIN journal.lines :
         journal.lines[i] # <<>> /\ FirstOf(journal.lines[i]) \in 1 .. appends
    /\ \A i, j \in DOMAIN journal.lines :
         i < j => FirstOf(journal.lines[i]) < FirstOf(journal.lines[j])
    /\ ~journal.terminated =>
         /\ journal.lines # <<>>
         /\ FirstOf(journal.lines[Len(journal.lines)]) \notin acked
    /\ Cardinality(Lost) + (IF journal.terminated THEN 0 ELSE 1) <= cuts

LEMMA ReadNowIs ==
    ASSUME NEW m
    PROVE  m \in ReadNow <=> \E i \in DOMAIN journal.lines :
                               Parses(journal.lines[i]) /\ m = FirstOf(journal.lines[i])
BY DEF ReadNow, ReadAll, FirstOf

\* A piece opens a line, or spoils the one that was not terminated.
LEMMA PutLines ==
    ASSUME NEW j \in Journals, NEW piece \in Pieces, ~j.terminated => j.lines # <<>>,
           \A i \in DOMAIN j.lines : j.lines[i] # <<>>
    PROVE  /\ Put(j, piece) \in Journals /\ Put(j, piece).terminated = FALSE
           /\ j.terminated =>
                /\ Len(Put(j, piece).lines) = Len(j.lines) + 1
                /\ Put(j, piece).lines[Len(j.lines) + 1] = <<piece>>
                /\ \A i \in 1 .. Len(j.lines) : Put(j, piece).lines[i] = j.lines[i]
           /\ ~j.terminated =>
                /\ Len(Put(j, piece).lines) = Len(j.lines)
                /\ Put(j, piece).lines[Len(j.lines)] = Append(j.lines[Len(j.lines)], piece)
                /\ \A i \in 1 .. Len(j.lines) - 1 : Put(j, piece).lines[i] = j.lines[i]
<1> DEFINE lines == j.lines
<1>1. lines \in Seq(Seq(Pieces)) /\ j.terminated \in BOOLEAN /\ DOMAIN lines = 1 .. Len(lines)
      /\ Len(lines) \in Nat
  BY DEF Journals
<1>2. CASE j.terminated
  <2>1. Put(j, piece) = [lines |-> Append(lines, <<piece>>), terminated |-> FALSE]
    BY <1>2 DEF Put
  <2>2. <<piece>> \in Seq(Pieces)
    OBVIOUS
  <2>3. Append(lines, <<piece>>) \in Seq(Seq(Pieces))
    BY <1>1, <2>2
  <2> QED
    BY <1>1, <1>2, <2>1, <2>3 DEF Journals
<1>3. CASE ~j.terminated
  <2> DEFINE last == Append(lines[Len(lines)], piece)
  <2>1. Len(lines) \in 1 .. Len(lines) /\ lines[Len(lines)] \in Seq(Pieces)
    BY <1>1, <1>3
  <2>2. last \in Seq(Pieces)
    BY <2>1
  <2>3. Put(j, piece) = [j EXCEPT !.lines = [lines EXCEPT ![Len(lines)] = last]]
    BY <1>1, <1>3 DEF Put, Journals
  <2> DEFINE more == [lines EXCEPT ![Len(lines)] = last]
  <2>4. more \in Seq(Seq(Pieces)) /\ Len(more) = Len(lines)
        /\ more[Len(lines)] = last
        /\ \A i \in 1 .. Len(lines) - 1 : more[i] = lines[i]
    BY <1>1, <2>1, <2>2
  <2> HIDE DEF last
  <2>5. Put(j, piece) = [lines |-> more, terminated |-> FALSE]
    BY <1>3, <2>3 DEF Journals, more
  <2> HIDE DEF more
  <2>6. Put(j, piece).lines = more /\ Put(j, piece).terminated = FALSE
        /\ Put(j, piece) \in Journals
    BY <2>4, <2>5 DEF Journals
  <2> QED
    BY <1>3, <2>4, <2>6 DEF last
<1> QED
  BY <1>2, <1>3

\* What a write of one record may leave, with n the number of the record.
LEMMA WriteKeepsJournalInv ==
    ASSUME JournalInv, NEW r \in [event : Appending, n : Nat], r.n = appends + 1,
           pc' \in {"down", "idle", "gate", "save", "replace", "note"} \cup Trading,
           appends' = appends + 1,
           \/ /\ journal' \in TornAppends(journal, r)
              /\ acked' = acked /\ cuts' = cuts + 1
           \/ /\ journal' = AppendRecord(journal, r)
              /\ acked' = acked \cup {r.n} /\ cuts' = cuts
    PROVE  JournalInv'
<1> DEFINE lines == journal.lines  lines2 == journal'.lines  n == r.n
<1>1. /\ journal \in Journals /\ appends \in Nat /\ cuts \in Nat /\ acked \subseteq 1 .. appends
      /\ lines \in Seq(Seq(Pieces)) /\ DOMAIN lines = 1 .. Len(lines) /\ Len(lines) \in Nat
      /\ \A i \in 1 .. Len(lines) : lines[i] # <<>> /\ FirstOf(lines[i]) \in 1 .. appends
      /\ \A i, k \in 1 .. Len(lines) : i < k => FirstOf(lines[i]) < FirstOf(lines[k])
      /\ ~journal.terminated => lines # <<>> /\ FirstOf(lines[Len(lines)]) \notin acked
      /\ n = appends + 1 /\ n \in Nat
  BY SMTT(30) DEF JournalInv, Journals
<1> HIDE DEF n
<1>2. PICK piece \in Pieces :
        /\ piece.rec = r
        /\ \/ journal' = journal /\ acked' = acked /\ cuts' = cuts + 1
           \/ /\ lines2 = Put(journal, piece).lines /\ journal' \in Journals
              /\ \/ acked' = acked /\ cuts' = cuts + 1
                 \/ /\ acked' = acked \cup {n} /\ cuts' = cuts
                    /\ piece.whole /\ journal'.terminated
  <2>1. Whole(r) \in Pieces /\ TornPiece(r) \in Pieces /\ Whole(r).rec = r /\ TornPiece(r).rec = r
        /\ Whole(r).whole
    BY DEF Whole, TornPiece, Pieces
  <2>2. \A piece \in Pieces : Put(journal, piece) \in Journals
    BY <1>1, PutLines
  <2>3. /\ AppendRecord(journal, r).lines = Put(journal, Whole(r)).lines
        /\ AppendRecord(journal, r).terminated = TRUE
        /\ AppendRecord(journal, r) \in Journals
    BY <2>1, <2>2 DEF AppendRecord, Journals
  <2>4. CASE journal' = AppendRecord(journal, r)
    BY <2>1, <2>3, <2>4 DEF n
  <2>5. CASE journal' = journal /\ acked' = acked /\ cuts' = cuts + 1
    BY <2>1, <2>5
  <2>6. CASE journal' = Put(journal, Whole(r)) /\ acked' = acked /\ cuts' = cuts + 1
    BY <2>1, <2>2, <2>6
  <2>7. CASE journal' = Put(journal, TornPiece(r)) /\ acked' = acked /\ cuts' = cuts + 1
    BY <2>1, <2>2, <2>7
  <2> QED
    BY <2>4, <2>5, <2>6, <2>7 DEF TornAppends
<1>3. acked' \subseteq 1 .. appends' /\ appends' \in Nat /\ cuts' \in Nat /\ cuts' >= cuts
  <2>1. \A m \in 1 .. appends : m \in 1 .. appends'
    BY <1>1
  <2>2. n \in 1 .. appends' /\ appends' \in Nat
    BY <1>1
  <2>3. cuts' = cuts \/ cuts' = cuts + 1
    BY <1>2
  <2>4. cuts' \in Nat /\ cuts' >= cuts
    BY <1>1, <2>3
  <2>5. acked' \subseteq acked \cup {n}
    BY <1>2
  <2> QED
    BY <1>1, <2>1, <2>2, <2>4, <2>5
<1>4. IsFiniteSet(Lost) /\ Cardinality(Lost) \in Nat
  <2>1. IsFiniteSet(1 .. appends)
    BY <1>1, FS_Interval
  <2>2. Lost \subseteq 1 .. appends
    BY <1>1 DEF Lost
  <2> QED
    BY <2>1, <2>2, FS_Subset, FS_CardinalityType
<1> DEFINE owed == Cardinality(Lost)  len == Len(lines)
<1>5. /\ journal.terminated => owed <= cuts
      /\ ~journal.terminated => owed + 1 <= cuts
  BY <1>4 DEF JournalInv
<1>6. CASE journal' = journal /\ acked' = acked /\ cuts' = cuts + 1
  <2>1. Lost' = Lost
    BY <1>6 DEF Lost, ReadNow
  <2>2. \A i \in DOMAIN lines : FirstOf(lines[i]) \in 1 .. appends'
    <3>1. \A m \in 1 .. appends : m \in 1 .. appends'
      BY <1>1
    <3> QED
      BY <1>1, <3>1
  <2> DEFINE c == Cardinality(Lost')
  <2>3. c = owed /\ owed \in Nat
    BY <1>4, <2>1
  <2> HIDE DEF c, owed
  <2>4. c + (IF journal.terminated THEN 0 ELSE 1) <= cuts'
    BY <1>1, <1>5, <1>6, <2>3
  <2> QED
    BY <1>1, <1>3, <1>6, <2>2, <2>4 DEF JournalInv, c
<1>7. CASE /\ lines2 = Put(journal, piece).lines /\ journal' \in Journals
           /\ \/ acked' = acked /\ cuts' = cuts + 1
              \/ acked' = acked \cup {n} /\ cuts' = cuts /\ piece.whole /\ journal'.terminated
  <2>1. lines2 \in Seq(Seq(Pieces)) /\ DOMAIN lines2 = 1 .. Len(lines2) /\ Len(lines2) \in Nat
    BY <1>7 DEF Journals
  <2>2. CASE journal.terminated
    <3>1. /\ Len(lines2) = len + 1 /\ lines2[len + 1] = <<piece>>
          /\ \A i \in 1 .. len : lines2[i] = lines[i]
      <4>1. /\ Len(Put(journal, piece).lines) = Len(journal.lines) + 1
            /\ Put(journal, piece).lines[Len(journal.lines) + 1] = <<piece>>
            /\ \A i \in 1 .. Len(journal.lines) :
                 Put(journal, piece).lines[i] = journal.lines[i]
        <5>1. /\ ~journal.terminated => journal.lines # <<>>
              /\ \A i \in DOMAIN journal.lines : journal.lines[i] # <<>>
          BY <1>1
        <5>2. journal \in Journals
          BY <1>1
        <5> HIDE DEF lines, lines2
        <5> QED
          BY <2>2, <5>1, <5>2, PutLines
      <4> QED
        BY <1>7, <4>1
    <3>2. FirstOf(<<piece>>) = n /\ <<piece>> # <<>> /\ (piece.whole => Parses(<<piece>>))
      BY <1>2 DEF FirstOf, Parses, n
    <3>3. /\ len \in Nat /\ appends \in Nat /\ n = appends + 1
          /\ \A i \in 1 .. len : lines[i] # <<>> /\ FirstOf(lines[i]) \in 1 .. appends
          /\ \A i, k \in 1 .. len : i < k => FirstOf(lines[i]) < FirstOf(lines[k])
      BY <1>1
    <3> HIDE DEF len, lines, lines2
    <3>4. \A i \in 1 .. len + 1 :
            \/ i \in 1 .. len /\ lines2[i] = lines[i]
            \/ i = len + 1 /\ lines2[i] = <<piece>>
      BY <3>1, <3>3
    <3>5. \A i \in 1 .. len + 1 : lines2[i] # <<>> /\ FirstOf(lines2[i]) \in 1 .. appends'
      <4>1. \A m \in 1 .. appends : m \in 1 .. appends'
        BY <3>3
      <4>2. n \in 1 .. appends'
        BY <3>3
      <4> QED
        BY <3>2, <3>3, <3>4, <4>1, <4>2
    <3>6. ASSUME NEW i \in 1 .. len + 1, NEW k \in 1 .. len + 1, i < k
          PROVE  FirstOf(lines2[i]) < FirstOf(lines2[k])
      <4>1. i \in 1 .. len /\ lines2[i] = lines[i]
        BY <3>3, <3>4, <3>6
      <4>2. CASE k \in 1 .. len /\ lines2[k] = lines[k]
        BY <3>3, <3>6, <4>1, <4>2
      <4>3. CASE lines2[k] = <<piece>>
        <5> DEFINE f == FirstOf(lines[i])
        <5>1. f \in 1 .. appends /\ FirstOf(lines2[i]) = f /\ FirstOf(lines2[k]) = n
          BY <3>2, <3>3, <4>1, <4>3
        <5> HIDE DEF f
        <5> QED
          BY <3>3, <5>1
      <4> QED
        BY <3>4, <4>2, <4>3
    <3>7. \A m \in ReadNow : m \in ReadNow'
      <4> SUFFICES ASSUME NEW i \in 1 .. len, Parses(lines[i])
                   PROVE  FirstOf(lines[i]) \in ReadNow'
        BY <1>1, ReadNowIs DEF len, lines
      <4>1. i \in DOMAIN lines2 /\ lines2[i] = lines[i]
        BY <2>1, <3>1, <3>3
      <4> QED
        BY <4>1 DEF ReadNow, ReadAll, FirstOf, lines2
    <3>8. piece.whole => n \in ReadNow'
      <4>1. len + 1 \in DOMAIN lines2 /\ lines2[len + 1] = <<piece>>
        BY <2>1, <3>1, <3>3
      <4> QED
        BY <3>2, <4>1 DEF ReadNow, ReadAll, FirstOf, lines2
    <3>9. Lost' \subseteq Lost
      BY <1>7, <3>7, <3>8 DEF Lost
    <3> DEFINE c == Cardinality(Lost')
    <3>10. c \in Nat /\ c <= owed /\ owed \in Nat
      BY <1>4, <3>9, FS_Subset, FS_CardinalityType
    <3> HIDE DEF c, owed
    <3>11. c + (IF journal'.terminated THEN 0 ELSE 1) <= cuts'
      BY <1>1, <1>5, <1>7, <2>2, <3>10
    <3>12. ~journal'.terminated => lines2 # <<>> /\ FirstOf(lines2[Len(lines2)]) \notin acked'
      <4>1. ~journal'.terminated => acked' = acked
        BY <1>7
      <4>2. n \notin acked
        BY <1>1
      <4>3. lines2 # <<>> /\ FirstOf(lines2[Len(lines2)]) = n
        BY <2>1, <3>1, <3>2, <3>3
      <4> QED
        BY <4>1, <4>2, <4>3
    <3> QED
      BY <1>3, <1>7, <2>1, <3>1, <3>5, <3>6, <3>11, <3>12 DEF JournalInv, c, lines2
  <2>3. CASE ~journal.terminated
    <3>1. /\ Len(lines2) = len /\ lines2[len] = Append(lines[len], piece)
          /\ \A i \in 1 .. len - 1 : lines2[i] = lines[i]
      <4>1. /\ Len(Put(journal, piece).lines) = Len(journal.lines)
            /\ Put(journal, piece).lines[Len(journal.lines)]
                 = Append(journal.lines[Len(journal.lines)], piece)
            /\ \A i \in 1 .. Len(journal.lines) - 1 :
                 Put(journal, piece).lines[i] = journal.lines[i]
        BY <1>1, <2>3, PutLines
      <4> QED
        BY <1>7, <4>1
    <3>2. len \in 1 .. len /\ lines[len] \in Seq(Pieces) /\ lines[len] # <<>>
          /\ FirstOf(lines[len]) \notin acked
      BY <1>1, <2>3
    <3>3. lines2[len] # <<>> /\ FirstOf(lines2[len]) = FirstOf(lines[len])
      <4> DEFINE line == lines[len]
      <4>1. line \in Seq(Pieces) /\ line # <<>>
        BY <3>2
      <4> HIDE DEF line
      <4>2. Append(line, piece) # <<>> /\ Append(line, piece)[1] = line[1]
        BY <4>1
      <4> QED
        BY <3>1, <4>2 DEF FirstOf, line
    <3>4. /\ len \in Nat /\ appends \in Nat /\ n = appends + 1
          /\ \A i \in 1 .. len : lines[i] # <<>> /\ FirstOf(lines[i]) \in 1 .. appends
          /\ \A i, k \in 1 .. len : i < k => FirstOf(lines[i]) < FirstOf(lines[k])
      BY <1>1
    <3> HIDE DEF len, lines, lines2
    <3>5. \A i \in 1 .. len : i # len => i \in 1 .. len - 1
      BY <3>4
    <3>6. \A i \in 1 .. len : lines2[i] # <<>> /\ FirstOf(lines2[i]) = FirstOf(lines[i])
      BY <3>1, <3>3, <3>4, <3>5
    <3>7. \A i \in 1 .. len : FirstOf(lines2[i]) \in 1 .. appends'
      <4>1. \A m \in 1 .. appends : m \in 1 .. appends'
        BY <3>4
      <4> QED
        BY <3>4, <3>6, <4>1
    <3>8. \A i, k \in 1 .. len : i < k => FirstOf(lines2[i]) < FirstOf(lines2[k])
      BY <3>4, <3>6
    <3>9. \A m \in ReadNow \cap acked : m \in ReadNow'
      <4> SUFFICES ASSUME NEW i \in 1 .. len, Parses(lines[i]), FirstOf(lines[i]) \in acked
                   PROVE  FirstOf(lines[i]) \in ReadNow'
        BY <1>1, ReadNowIs DEF len, lines
      <4>1. i # len
        BY <3>2
      <4>2. i \in DOMAIN lines2 /\ lines2[i] = lines[i]
        BY <2>1, <3>1, <3>5, <4>1
      <4> QED
        BY <4>2 DEF ReadNow, ReadAll, FirstOf, lines2
    <3>10. ~journal'.terminated => lines2 # <<>> /\ FirstOf(lines2[Len(lines2)]) \notin acked'
      <4>1. ~journal'.terminated => acked' = acked
        BY <1>7
      <4>2. lines2 # <<>> /\ FirstOf(lines2[Len(lines2)]) \notin acked
        BY <2>1, <3>1, <3>2, <3>3
      <4> QED
        BY <4>1, <4>2
    <3> DEFINE c == Cardinality(Lost')
    <3>11. c + (IF journal'.terminated THEN 0 ELSE 1) <= cuts'
      <4>1. CASE acked' = acked /\ cuts' = cuts + 1
        <5>1. Lost' \subseteq Lost
          BY <3>9, <4>1 DEF Lost
        <5>2. c \in Nat /\ c <= owed /\ owed \in Nat
          BY <1>4, <5>1, FS_Subset, FS_CardinalityType
        <5> HIDE DEF c, owed
        <5> QED
          BY <1>1, <1>5, <2>3, <4>1, <5>2
      <4>2. CASE acked' = acked \cup {n} /\ cuts' = cuts /\ journal'.terminated
        <5>1. Lost' \subseteq Lost \cup {n}
          BY <3>9, <4>2 DEF Lost
        <5>2. /\ IsFiniteSet(Lost \cup {n}) /\ Cardinality(Lost \cup {n}) \in Nat
              /\ Cardinality(Lost \cup {n}) <= Cardinality(Lost) + 1
          <6>1. IsFiniteSet(Lost \cup {n})
                /\ (Cardinality(Lost \cup {n}) = Cardinality(Lost)
                    \/ Cardinality(Lost \cup {n}) = Cardinality(Lost) + 1)
            BY <1>4, FS_AddElement
          <6> QED
            BY <1>4, <6>1
        <5>3. IsFiniteSet(Lost') /\ Cardinality(Lost') <= Cardinality(Lost \cup {n})
          BY <5>1, <5>2, FS_Subset
        <5>4. c \in Nat /\ c <= owed + 1 /\ owed \in Nat
          <6>1. c \in Nat /\ owed \in Nat
            BY <1>4, <5>3, FS_CardinalityType
          <6> QED
            BY <5>2, <5>3, <6>1
        <5> HIDE DEF c, owed
        <5> QED
          BY <1>1, <1>5, <2>3, <4>2, <5>4
      <4> QED
        BY <1>7, <4>1, <4>2
    <3> QED
      BY <1>3, <1>7, <2>1, <3>1, <3>6, <3>7, <3>8, <3>10, <3>11 DEF JournalInv, lines2
  <2> QED
    BY <2>2, <2>3
<1> QED
  BY <1>2, <1>6, <1>7

LEMMA NextKeepsJournalInv == JournalInv /\ [Next]_vars => JournalInv'
<1> SUFFICES ASSUME JournalInv, [Next]_vars PROVE JournalInv'
  OBVIOUS
<1>1. pc' \in {"down", "idle", "gate", "save", "replace", "note"} \cup Trading
  BY DEF JournalInv, Next, Bot, Boot, ReadEquity, Noted, Unfunded, Implausible, CheckRisk,
     SaleFilled, SaleBooked, StopSold, StopBooked, EndOfTrading, SaveWritten, SaveReplaced,
     AppendFails, SaveFails, Crash, Tick, Move, Trading, Sales, vars
<1>2. \/ UNCHANGED <<journal, acked, appends, cuts>>
      \/ /\ pc \in Appending /\ appends' = appends + 1
         /\ \/ journal' \in TornAppends(journal, Record) /\ acked' = acked /\ cuts' = cuts + 1
            \/ /\ journal' = AppendRecord(journal, Record)
               /\ acked' = acked \cup {Record.n} /\ cuts' = cuts
  BY DEF Next, Bot, Boot, ReadEquity, Noted, Unfunded, Implausible, CheckRisk,
     SaleFilled, SaleBooked, StopSold, StopBooked, EndOfTrading, SaveWritten, SaveReplaced,
     AppendFails, SaveFails, Crash, Tick, Move, Appended, Appending, diskVars, obsVars, vars
<1>3. CASE UNCHANGED <<journal, acked, appends, cuts>>
  BY <1>1, <1>3 DEF JournalInv, Lost, ReadNow
<1>4. CASE ~(UNCHANGED <<journal, acked, appends, cuts>>)
  <2>1. pc \in Appending => Record \in [event : Appending, n : Nat] /\ Record.n = appends + 1
    BY DEF Record, JournalInv
  <2> QED
    BY <1>1, <1>2, <1>4, <2>1, WriteKeepsJournalInv
<1> QED
  BY <1>3, <1>4

LEMMA InitJournalInv == Init => JournalInv
<1> SUFFICES ASSUME Init PROVE JournalInv
  OBVIOUS
<1>1. /\ journal = [lines |-> <<>>, terminated |-> TRUE] /\ acked = {}
      /\ appends = 0 /\ cuts = 0 /\ pc = "down"
  BY DEF Init, EmptyJournal
<1>2. journal \in Journals
  BY <1>1 DEF Journals
<1>3. Cardinality(Lost) = 0
  BY <1>1, FS_EmptySet DEF Lost
<1> QED
  BY <1>1, <1>2, <1>3 DEF JournalInv

\* "replay tollerante a righe troncate": however crashes and full disks cut its appends
\* short, the journal loses at most one acknowledged record for each, and what is
\* replayed is in the order written, once (storage.py, Journal).
THEOREM ReplaySafety == Spec => []CutCostsOneRecord
<1>1. JournalInv => CutCostsOneRecord
  <2> SUFFICES ASSUME JournalInv PROVE CutCostsOneRecord
    OBVIOUS
  <2> DEFINE replay == ReadAll(journal)
  <2>1. ReadNow = {replay[i].n : i \in DOMAIN replay}
    BY DEF ReadNow
  <2>2. \A i \in DOMAIN replay : i \in DOMAIN journal.lines /\ replay[i].n = FirstOf(journal.lines[i])
    BY DEF ReadAll, FirstOf
  <2>3. \A i, j \in DOMAIN replay : i < j => replay[i].n < replay[j].n
    BY <2>2 DEF JournalInv
  <2>4. Cardinality(acked \ ReadNow) <= cuts
    <3>1. Cardinality(Lost) + (IF journal.terminated THEN 0 ELSE 1) <= cuts /\ cuts \in Nat
      BY DEF JournalInv
    <3>2. appends \in Nat /\ Lost \subseteq 1 .. appends
      BY DEF JournalInv, Lost
    <3>3. Cardinality(Lost) \in Nat
      <4>1. IsFiniteSet(1 .. appends)
        BY <3>2, FS_Interval
      <4> QED
        BY <3>2, <4>1, FS_Subset, FS_CardinalityType
    <3> QED
      BY <3>1, <3>3 DEF Lost
  <2> QED
    BY <2>1, <2>3, <2>4 DEF CutCostsOneRecord
<1> QED
  BY <1>1, InitJournalInv, NextKeepsJournalInv, PTL DEF Spec
=============================================================================
