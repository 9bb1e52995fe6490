------------------------------ MODULE RiskTask ------------------------------
(***************************************************************************)
(* What the risk of a bot rests on across ticks and restarts: the tick of  *)
(* BotTask (denaro/application/orchestrator.py) from the reading of the    *)
(* equity to the save, with the circuit breaker, the journal and the risk  *)
(* file it keeps.  Orders and books are in BotTask.tla; here a tick that   *)
(* may trade books sales, which is what the breaker and the journal see.   *)
(*                                                                         *)
(* Every append and every save runs in a thread of its own while the tick  *)
(* awaits it: a crash cuts it short, and so does a full disk, after which  *)
(* the exception ends the tick and the task goes on with the next one.     *)
(* The state file and the equity file are saved by the same job, each by   *)
(* its own AtomicFile; the risk file stands for them.                      *)
(*                                                                         *)
(* An operator XBug, defined before X, is X with a plausible coding error. *)
(***************************************************************************)
EXTENDS CircuitBreaker, Storage

CONSTANTS
    Amounts,     \* what the account may be worth when it can be read
    Threshold,   \* _soglia_operativa: the smallest order of the venue
    MaxTime,     \* bound: the clock
    MaxMoves,    \* bound: changes of the account's value
    MaxAppends,  \* bound: no sale is booked once the journal has so many records
    MaxFailures  \* bound: crashes, and appends and saves that fail

ASSUME RiskAssumption ==
    /\ Amounts \subseteq Nat \ {0} /\ Initial \in Amounts /\ Threshold \in Nat \ {0}
    /\ {MaxTime, MaxMoves, MaxAppends, MaxFailures} \subseteq Nat

VARIABLES
    market,    \* what get_equity would return now
    moves,     \* bound
    now,       \* the clock
    \* of the process
    pc,        \* where the tick is
    reading,   \* raw_equity, until the tick has used it
    cs,        \* self.risk_state
    funding,   \* self._capitale_stato_prec
    \* of the disk
    journal,
    riskFile,
    \* observers
    acked,     \* numbers of the records whose append returned
    appends,   \* records written so far, each with its number
    cuts,      \* appends cut short by a crash or a full disk
    noted,     \* the last funding record whose append returned
    top,       \* the highest equity of the ticks whose save was completed
    faults, crashes

envVars == <<market, moves, now>>
diskVars == <<journal, riskFile>>
obsVars == <<acked, appends, cuts, noted, top, faults, crashes>>
vars == <<market, moves, now, pc, reading, cs, funding, journal, riskFile,
          acked, appends, cuts, noted, top, faults, crashes>>

\* raw_equity when the reading raised: None.
Unread == -1
Readings == Amounts \cup {Unread, 0}

\* classifica_capitale.
Classify(reale) ==
    IF reale < 0 THEN "illeggibile"
    ELSE IF reale < Threshold THEN "non_finanziato"
    ELSE IF reale * 4 < Initial THEN "sottocapitalizzato"
    ELSE "ok"

NoClass == "none"
Classes == {NoClass, "illeggibile", "non_finanziato", "sottocapitalizzato", "ok"}

NoteworthyBug(prec, new) ==
    prec # NoClass /\ new # prec /\ (new = "non_finanziato" \/ prec = "non_finanziato")

\* _nota_transizione_capitale: the transitions that are journaled.
Noteworthy(prec, new) ==
    /\ new # prec
    /\ new = "non_finanziato" \/ prec = "non_finanziato" \/ new = "sottocapitalizzato"

\* _guard_equity: the range in which a reading needs no second opinion.
Sane(equity) == equity * 20 > Initial /\ equity <= 30 * Initial

Sales == {"sell_filled", "trend_stop_sell"}
Appending == {"note", "sell_filled", "trend_stop_sell"}
Trading == {"trading"} \cup Sales

Init ==
    /\ market \in Amounts /\ moves = 0 /\ now = 0
    /\ pc = "down" /\ reading = Unread /\ cs = Baseline /\ funding = NoClass
    /\ journal = EmptyJournal /\ riskFile = NewFile
    /\ acked = {} /\ appends = 0 /\ cuts = 0 /\ noted = NoClass /\ top = 0
    /\ faults = 0 /\ crashes = 0

-----------------------------------------------------------------------------
\* The world.  A tick reads the clock and the account once, at its start: what
\* changes while it runs is seen by the next one, and is let change between ticks.

\* The account changes its value, or stops being readable.
Move(value) ==
    /\ pc = "idle" /\ value # market /\ moves < MaxMoves
    /\ market' = value /\ moves' = moves + 1
    /\ UNCHANGED <<now, pc, reading, cs, funding, journal, riskFile, obsVars>>

Tick ==
    /\ pc = "idle" /\ now < MaxTime
    /\ now' = now + 1
    /\ UNCHANGED <<market, moves, pc, reading, cs, funding, journal, riskFile, obsVars>>

\* The record the append in progress is writing.
Record == [event |-> pc, n |-> appends + 1]

MayFail == faults + crashes < MaxFailures

\* A crash: memory is lost, an append or a save in progress is cut short.
Crash ==
    /\ pc # "down" /\ MayFail
    /\ crashes' = crashes + 1
    /\ pc' = "down" /\ reading' = Unread /\ cs' = Baseline /\ funding' = NoClass
    /\ IF pc \in Appending
       THEN /\ journal' \in TornAppends(journal, Record)
            /\ appends' = appends + 1 /\ cuts' = cuts + 1
       ELSE UNCHANGED <<journal, appends, cuts>>
    /\ riskFile' = IF pc = "save" THEN TearTmp(riskFile) ELSE riskFile
    /\ UNCHANGED <<envVars, acked, noted, top, faults>>

-----------------------------------------------------------------------------
\* The bot.

\* BotTask.__init__: the baseline, overlaid with what the risk file holds.
Boot ==
    /\ pc = "down"
    /\ cs' = Load(riskFile, Baseline)
    /\ pc' = "idle"
    /\ UNCHANGED <<envVars, reading, funding, diskVars, obsVars>>

\* The tick reads the equity and classifies it; a transition is journaled first.
ReadEquity ==
    /\ pc = "idle"
    /\ reading' = market
    /\ funding' = Classify(market)
    /\ pc' = IF Noteworthy(funding, Classify(market)) THEN "note" ELSE "gate"
    /\ UNCHANGED <<envVars, cs, diskVars, obsVars>>

\* The append returns.
Appended ==
    /\ journal' = AppendRecord(journal, Record)
    /\ appends' = appends + 1
    /\ acked' = acked \cup {Record.n}

Noted ==
    /\ pc = "note"
    /\ Appended
    /\ noted' = funding
    /\ pc' = "gate"
    /\ UNCHANGED <<envVars, reading, cs, funding, riskFile, cuts, top, faults, crashes>>

\* The append raises on a full disk: the tick ends there, with nothing saved.
AppendFails ==
    /\ pc \in Appending /\ MayFail
    /\ journal' \in TornAppends(journal, Record)
    /\ appends' = appends + 1 /\ cuts' = cuts + 1
    /\ faults' = faults + 1
    /\ pc' = "idle"
    /\ reading' = Unread
    /\ UNCHANGED <<envVars, cs, funding, riskFile, acked, noted, top, crashes>>

\* No money or no reading: no check, no baseline, no order.
Unfunded ==
    /\ pc = "gate" /\ funding \in {"non_finanziato", "illeggibile"}
    /\ pc' = "save"
    /\ reading' = Unread
    /\ UNCHANGED <<envVars, cs, funding, diskVars, obsVars>>

\* _guard_equity: out of range, and the account's assets do not explain it.
Implausible ==
    /\ pc = "gate" /\ funding \in {"ok", "sottocapitalizzato"}
    /\ ~Sane(reading)
    /\ pc' = "save"
    /\ reading' = Unread
    /\ UNCHANGED <<envVars, cs, funding, diskVars, obsVars>>

\* The breaker, on a reading in range or explained by the account's assets; the
\* regime is whatever it was last set to.
CheckRisk(vol) ==
    /\ pc = "gate" /\ funding \in {"ok", "sottocapitalizzato"}
    /\ cs' = Check(cs, reading, now, vol)
    /\ pc' = IF cs'.cb = "open" THEN "save" ELSE "trading"
    /\ reading' = Unread
    /\ UNCHANGED <<envVars, funding, diskVars, obsVars>>

\* A tracked sale has filled: it is journaled, then counted.
SaleFilled ==
    /\ pc = "trading" /\ appends < MaxAppends
    /\ pc' = "sell_filled"
    /\ UNCHANGED <<envVars, reading, cs, funding, diskVars, obsVars>>

SaleBooked(won) ==
    /\ pc = "sell_filled"
    /\ Appended
    /\ cs' = Trade(cs, won)
    /\ pc' = "trading"
    /\ UNCHANGED <<envVars, reading, funding, riskFile, cuts, noted, top, faults, crashes>>

\* The monitored stop has sold: it is counted, then journaled.
StopSold(won) ==
    /\ pc = "trading" /\ appends < MaxAppends
    /\ cs' = Trade(cs, won)
    /\ pc' = "trend_stop_sell"
    /\ UNCHANGED <<envVars, reading, funding, diskVars, obsVars>>

StopBooked ==
    /\ pc = "trend_stop_sell"
    /\ Appended
    /\ pc' = "trading"
    /\ UNCHANGED <<envVars, reading, cs, funding, riskFile, cuts, noted, top, faults, crashes>>

EndOfTrading ==
    /\ pc = "trading"
    /\ pc' = "save"
    /\ UNCHANGED <<envVars, reading, cs, funding, diskVars, obsVars>>

\* _save_state: the temporary file is complete and synced, then renamed.
SaveWritten ==
    /\ pc = "save"
    /\ riskFile' = WriteTmp(riskFile, cs)
    /\ pc' = "replace"
    /\ UNCHANGED <<envVars, reading, cs, funding, journal, obsVars>>

SaveFails ==
    /\ pc = "save" /\ MayFail
    /\ riskFile' = TearTmp(riskFile)
    /\ faults' = faults + 1
    /\ pc' = "idle"
    /\ UNCHANGED <<envVars, reading, cs, funding, journal, acked, appends, cuts, noted,
                   top, crashes>>

SaveReplaced ==
    /\ pc = "replace"
    /\ riskFile' = Replace(riskFile)
    /\ top' = HigherOf(top, cs.current)
    /\ pc' = "idle"
    /\ UNCHANGED <<envVars, reading, cs, funding, journal, acked, appends, cuts, noted,
                   faults, crashes>>

Bot ==
    \/ Boot \/ ReadEquity \/ Noted \/ Unfunded \/ Implausible
    \/ \E vol \in VolatilityRegimes : CheckRisk(vol)
    \/ SaleFilled \/ \E won \in BOOLEAN : SaleBooked(won) \/ StopSold(won)
    \/ StopBooked \/ EndOfTrading \/ SaveWritten \/ SaveReplaced

Next ==
    \/ Bot \/ AppendFails \/ SaveFails \/ Crash \/ Tick
    \/ \E value \in Readings : Move(value)

Spec == Init /\ [][Next]_vars

\* The loop of BotTask.run goes round, and the thread jobs it awaits end.
FairSpec == Spec /\ WF_vars(Bot)

-----------------------------------------------------------------------------
\* Properties.

TypeOK ==
    /\ pc \in {"down", "idle", "gate", "save", "replace", "note"} \cup Trading
    /\ cs \in CoreStates /\ cs.sizing <= 20
    /\ {cs.peak, cs.day, cs.week} \subseteq Nat \ {0}
    /\ riskFile.main # Unreadable => riskFile.main[1] \in CoreStates
    /\ funding \in Classes /\ reading \in Readings

\* "il circuit breaker ... poteva essere disarmato riavviando il processo": a
\* tick that may place orders runs on an equity within the drawdown limit of the
\* highest equity any saved tick of any earlier life has seen.
TradesWithinDrawdown == pc \in Trading => ~LossOver(top, cs.current, DrawdownLimit)

\* The baselines of the day and of the week never exceed the peak, on disk as in
\* memory: a period that opens in a drawdown does not hide it.
BaselinesUnderPeak ==
    /\ cs.day <= cs.peak /\ cs.week <= cs.peak
    /\ riskFile.main # Unreadable =>
         /\ riskFile.main[1].day <= riskFile.main[1].peak
         /\ riskFile.main[1].week <= riskFile.main[1].peak

\* An open breaker sizes every order at nothing and a closed one does not, in
\* the state that a restart finds as in memory.
BlockedSizesNothing ==
    /\ cs.cb = "open" <=> cs.sizing = 0
    /\ riskFile.main # Unreadable =>
         (riskFile.main[1].cb = "open" <=> riskFile.main[1].sizing = 0)

\* "replay tollerante a righe troncate": an append cut short costs the replay at
\* most one record that was acknowledged, the one glued to its line, and what is
\* replayed comes in the order written and once.
CutCostsOneRecord ==
    LET replay == ReadAll(journal)
        read == {replay[i].n : i \in DOMAIN replay}
    IN  /\ Cardinality(acked \ read) <= cuts
        /\ \A i, j \in DOMAIN replay : i < j => replay[i].n < replay[j].n

\* "il journal contiene la TRANSIZIONE": while the process lives and no append
\* fails, a bot whose account is not funded has said so in its journal, last.
UnfundedIsJournaled ==
    funding = "non_finanziato" /\ pc # "note" /\ faults = 0 =>
        noted = "non_finanziato"

\* Once the account stays at the highest value it can have, the breaker does not
\* stay open, whatever it went through, restarts included.
Top == CHOOSE a \in Amounts : \A b \in Amounts : b <= a
Unblocks == <>[](market = Top) => <>[](pc = "save" => cs.cb # "open")
=============================================================================
