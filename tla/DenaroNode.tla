----------------------------- MODULE DenaroNode -----------------------------
(***************************************************************************)
(* The process of a node: NodeApp.run (denaro/denaro_node.py), the         *)
(* SafeModeGuardian that watches the RAM (denaro/application/safemode.py)  *)
(* and the tasks of the bots (denaro/application/orchestrator.py) that one *)
(* event loop interleaves, with the thread jobs they wait for.             *)
(*                                                                         *)
(* Cancelling a task that waits for a thread job abandons the job: the     *)
(* task ends and the job goes on, until the interpreter joins its threads  *)
(* at exit.  A tick is reduced to what an emergency or a stop can cut: the *)
(* gate, the buys it sends, each after the journal record of its intent,   *)
(* and the save.  The rest of the tick is in BotTask.tla.                  *)
(*                                                                         *)
(* An operator XBug, defined before X, is X with a plausible coding error. *)
(***************************************************************************)
EXTENDS Naturals, FiniteSets

CONSTANTS
    Bots,
    Levels,         \* buys each bot keeps on the book
    RamReadings,    \* percentages the guardian may read
    CautionPct, SafePct, EmergencyPct,
    MaxOrders,      \* bound: orders each bot ever sends
    MaxMoves,       \* bound: changes of the RAM
    MaxFaults       \* bound: lost replies, refused cancellations, failed flushes

ASSUME NodeAssumption ==
    /\ IsFiniteSet(Bots) /\ Bots # {} /\ RamReadings \subseteq Nat
    /\ Levels \in [Bots -> Nat] /\ MaxOrders \in [Bots -> Nat]
    /\ {CautionPct, SafePct, EmergencyPct, MaxMoves, MaxFaults} \subseteq Nat

VARIABLES
    ram,
    npc,        \* where NodeApp.run is
    stop,       \* the event NodeApp.run waits for
    \* of the guardian
    level, handled,
    gpc,        \* where its loop is
    left,       \* bots whose orders the emergency has still to cancel
    asked,      \* bots whose cancel_all has been sent and has answered
    flushed,    \* rows of the SQLite store, with the buys of each
    complete,   \* the emergency has gone to its end
    \* of each bot
    paused,     \* trading_paused
    triggered,  \* state.stop_loss_triggered
    task,       \* where its task is
    todo,       \* buys its tick has still to send, the one in hand included
    job,        \* the thread job it waits for, or has abandoned
    next,       \* the last order it has tried to send
    tracked,    \* state.open_buys
    intents,    \* order_intent records in the journal
    saved,      \* open_buys of the state file
    live,       \* its orders at the venue
    lost,       \* observer: placements whose reply was lost
    \* bounds
    moves, faults

guardianVars == <<level, handled, gpc, left, asked, flushed, complete>>
tickVars == <<task, todo, job, next, tracked, intents, saved, live, lost>>
vars == <<ram, npc, stop, level, handled, gpc, left, asked, flushed, complete,
          paused, triggered, task, todo, job, next, tracked, intents, saved,
          live, lost, moves, faults>>

RamLevels == {"nominal", "caution", "safe", "emergency"}
\* No row yet.
NoRow == {0}

Init ==
    /\ ram \in RamReadings /\ npc = "starting" /\ stop = FALSE
    /\ level = "nominal" /\ handled = FALSE /\ gpc = "off"
    /\ left = {} /\ asked = {} /\ complete = FALSE
    /\ flushed = [b \in Bots |-> NoRow]
    /\ paused = [b \in Bots |-> FALSE] /\ triggered = [b \in Bots |-> FALSE]
    /\ task = [b \in Bots |-> "absent"] /\ todo = [b \in Bots |-> 0]
    /\ job = [b \in Bots |-> "none"] /\ next = [b \in Bots |-> 0]
    /\ tracked = [b \in Bots |-> {}] /\ intents = [b \in Bots |-> {}]
    /\ saved = [b \in Bots |-> {}] /\ live = [b \in Bots |-> {}]
    /\ lost = [b \in Bots |-> 0]
    /\ moves = 0 /\ faults = 0

-----------------------------------------------------------------------------
\* The machine and its operator.

RamMoves(reading) ==
    /\ npc # "exited" /\ reading # ram /\ moves < MaxMoves
    /\ ram' = reading /\ moves' = moves + 1
    /\ UNCHANGED <<npc, stop, guardianVars, paused, triggered, tickVars, faults>>

\* SIGTERM or SIGINT.
Signal ==
    /\ npc = "running" /\ ~stop
    /\ stop' = TRUE
    /\ UNCHANGED <<ram, npc, guardianVars, paused, triggered, tickVars, moves, faults>>

-----------------------------------------------------------------------------
\* NodeApp.run.

\* start_all and the guardian's task, with no await in between.  The supervisor
\* refuses a worker for lack of RAM or CPU, and nothing asks again.
Start(workers) ==
    /\ npc = "starting"
    /\ task' = [b \in Bots |-> IF b \in workers THEN "sleep" ELSE "absent"]
    /\ gpc' = "sleep"
    /\ npc' = "running"
    /\ UNCHANGED <<ram, stop, level, handled, left, asked, flushed, complete, paused,
                   triggered, todo, job, next, tracked, intents, saved, live, lost,
                   moves, faults>>

\* The event is set: guardian.stop cancels the guardian wherever it waits, a
\* cancel_all of an emergency included, whose abandoned job is here carried out
\* at once or never.
StopGuardian ==
    /\ npc = "running" /\ stop
    /\ gpc' = "ended" /\ left' = {}
    /\ npc' = "stopping"
    /\ \/ UNCHANGED live
       \/ \E b \in left : live' = [live EXCEPT ![b] = {}]
    /\ UNCHANGED <<ram, stop, level, handled, asked, flushed, complete, paused,
                   triggered, task, todo, job, next, tracked, intents, saved, lost,
                   moves, faults>>

StopBotBug(b) ==
    /\ npc = "stopping" /\ task[b] \notin {"absent", "ended"}
    /\ task' = [task EXCEPT ![b] = "ended"] /\ todo' = [todo EXCEPT ![b] = 0]
    /\ UNCHANGED <<ram, npc, stop, guardianVars, paused, triggered, job, next,
                   tracked, intents, saved, live, lost, moves, faults>>

\* stop_all: each task is cancelled at the await where it stands.
StopBot(b) ==
    /\ npc = "stopping" /\ task[b] # "ended"
    /\ task' = [task EXCEPT ![b] = "ended"] /\ todo' = [todo EXCEPT ![b] = 0]
    /\ UNCHANGED <<ram, npc, stop, guardianVars, paused, triggered, job, next,
                   tracked, intents, saved, live, lost, moves, faults>>

\* The interpreter joins the threads before the process ends.
Exit ==
    /\ npc = "stopping"
    /\ \A b \in Bots : task[b] = "ended" /\ job[b] = "none"
    /\ npc' = "exited"
    /\ UNCHANGED <<ram, stop, guardianVars, paused, triggered, tickVars, moves, faults>>

-----------------------------------------------------------------------------
\* The guardian.

\* SafeModeGuardian.check.
Check(reading) ==
    IF reading >= EmergencyPct THEN "emergency"
    ELSE IF reading >= SafePct THEN "safe"
    ELSE IF reading >= CautionPct THEN "caution"
    ELSE "nominal"

PausedAt(l) == l \in {"safe", "emergency"}

\* A poll that finds the level changed: the flags go to every bot, and the first
\* emergency since the last nominal level starts to cancel.
Poll ==
    /\ gpc = "sleep"
    /\ LET new == Check(ram)
           acts == new = "emergency" /\ ~handled
       IN  /\ new # level
           /\ level' = new
           /\ paused' = [b \in Bots |-> PausedAt(new)]
           /\ handled' = (new # "nominal" /\ (handled \/ acts))
           /\ gpc' = IF acts THEN "emergency" ELSE "sleep"
           /\ left' = IF acts THEN Bots ELSE {}
    /\ UNCHANGED <<ram, npc, stop, asked, flushed, complete, triggered, tickVars,
                   moves, faults>>

FinishBug(last) == complete' = last /\ UNCHANGED stop

\* _on_emergency after its last bot: its own row, and the event.
Finish(last) == complete' = last /\ stop' = (stop \/ last)

CancelAllFailsBug(b) == UNCHANGED flushed

\* A cancel_all that raises is logged, and its bot is flushed all the same.
CancelAllFails(b) == flushed' = [flushed EXCEPT ![b] = tracked[b]]

\* cancel_all of a bot, carried out or refused (ok), and the row of the bot.
CancelAll(b, ok) ==
    /\ gpc = "emergency" /\ b \in left
    /\ IF ok
       THEN /\ live' = [live EXCEPT ![b] = {}]
            /\ flushed' = [flushed EXCEPT ![b] = tracked[b]]
            /\ UNCHANGED faults
       ELSE /\ faults < MaxFaults /\ faults' = faults + 1
            /\ CancelAllFails(b)
            /\ UNCHANGED live
    /\ asked' = asked \cup {b} /\ left' = left \ {b}
    /\ gpc' = IF left = {b} THEN "sleep" ELSE "emergency"
    /\ Finish(left = {b})
    /\ UNCHANGED <<ram, npc, level, handled, paused, triggered, task, todo, job, next,
                   tracked, intents, saved, lost, moves>>

\* The flush raises, which no one handles before the loop of the guardian: the
\* rest of the emergency is skipped, and it counts as handled.
FlushFails(b) ==
    /\ gpc = "emergency" /\ b \in left /\ faults < MaxFaults
    /\ faults' = faults + 1
    /\ live' = [live EXCEPT ![b] = {}]
    /\ asked' = asked \cup {b} /\ left' = {}
    /\ gpc' = "sleep"
    /\ UNCHANGED <<ram, npc, stop, level, handled, flushed, complete, paused, triggered,
                   task, todo, job, next, tracked, intents, saved, lost, moves>>

Guardian ==
    \/ Poll
    \/ \E b \in Bots : FlushFails(b) \/ \E ok \in BOOLEAN : CancelAll(b, ok)

-----------------------------------------------------------------------------
\* The bots.

MayTrade(b) == ~paused[b] /\ ~triggered[b]

\* The task waits for a thread job.
Awaits(b, what) ==
    /\ task' = [task EXCEPT ![b] = what]
    /\ job' = [job EXCEPT ![b] = what]

NextBuyBug(b) == next' = [next EXCEPT ![b] = @ + 1] /\ Awaits(b, "send")

\* The next buy of the tick: first the journal record of its intent.
NextBuy(b) == next' = [next EXCEPT ![b] = @ + 1] /\ Awaits(b, "intent")

\* A tick that passes the gate with levels missing.
TickTrades(b) ==
    /\ task[b] = "sleep" /\ MayTrade(b) /\ job[b] = "none"
    /\ Cardinality(tracked[b]) < Levels[b]
    /\ todo' = [todo EXCEPT ![b] = Levels[b] - Cardinality(tracked[b])]
    /\ next[b] + todo'[b] <= MaxOrders[b]
    /\ NextBuy(b)
    /\ UNCHANGED <<ram, npc, stop, guardianVars, paused, triggered, tracked, intents,
                   saved, live, lost, moves, faults>>

\* A tick that has nothing to place, or may not: it resolves what it tracks.
TickResolves(b) ==
    /\ task[b] = "sleep" /\ job[b] = "none"
    /\ MayTrade(b) => Cardinality(tracked[b]) = Levels[b]
    /\ tracked' = [tracked EXCEPT ![b] = @ \cap live[b]]
    /\ Awaits(b, "save")
    /\ UNCHANGED <<ram, npc, stop, guardianVars, paused, triggered, todo, next, intents,
                   saved, live, lost, moves, faults>>

\* The task, if it is still there, after an intent is on the journal.
IntentWritten(b) ==
    /\ job[b] = "intent"
    /\ intents' = [intents EXCEPT ![b] = @ \cup {next[b]}]
    /\ IF task[b] = "intent" THEN Awaits(b, "send")
       ELSE job' = [job EXCEPT ![b] = "none"] /\ UNCHANGED task
    /\ UNCHANGED <<ram, npc, stop, guardianVars, paused, triggered, todo, next, tracked,
                   saved, live, lost, moves, faults>>

TrackBug(b, accepted) == tracked

\* open_buys after the answer to a placement.
Track(b, accepted) ==
    IF accepted THEN [tracked EXCEPT ![b] = @ \cup {next[b]}] ELSE tracked

\* The answer to a placement: accepted, refused, or accepted and lost on the way.
Sent(b, reply) ==
    /\ job[b] = "send"
    /\ live' = IF reply = "refused" THEN live
               ELSE [live EXCEPT ![b] = @ \cup {next[b]}]
    /\ IF reply = "lost"
       THEN /\ faults < MaxFaults /\ faults' = faults + 1
            /\ lost' = [lost EXCEPT ![b] = @ + 1]
       ELSE UNCHANGED <<faults, lost>>
    /\ IF task[b] = "send"
       THEN /\ tracked' = Track(b, reply = "accepted")
            /\ todo' = [todo EXCEPT ![b] = @ - 1]
            /\ IF todo[b] > 1 THEN NextBuy(b) ELSE Awaits(b, "save") /\ UNCHANGED next
       ELSE /\ job' = [job EXCEPT ![b] = "none"]
            /\ UNCHANGED <<tracked, todo, task, next>>
    /\ UNCHANGED <<ram, npc, stop, guardianVars, paused, triggered, intents, saved, moves>>

\* _persist.
Saved(b) ==
    /\ job[b] = "save"
    /\ saved' = [saved EXCEPT ![b] = tracked[b]]
    /\ job' = [job EXCEPT ![b] = "none"]
    /\ task' = IF task[b] = "save" THEN [task EXCEPT ![b] = "sleep"] ELSE task
    /\ UNCHANGED <<ram, npc, stop, guardianVars, paused, triggered, todo, next, tracked,
                   intents, live, lost, moves, faults>>

\* The stop-loss trips: the flag in memory comes first, then what it tracks is
\* canceled and the books are emptied.
StopLossTrips(b) ==
    /\ task[b] = "sleep" /\ job[b] = "none" /\ ~triggered[b]
    /\ paused' = [paused EXCEPT ![b] = TRUE]
    /\ task' = [task EXCEPT ![b] = "stopping"]
    /\ live' = [live EXCEPT ![b] = @ \ tracked[b]]
    /\ tracked' = [tracked EXCEPT ![b] = {}]
    /\ UNCHANGED <<ram, npc, stop, guardianVars, triggered, todo, job, next, intents,
                   saved, lost, moves, faults>>

\* The sale has been made, or is put off to a later tick.
StopLossEnds(b, sold) ==
    /\ task[b] = "stopping"
    /\ triggered' = [triggered EXCEPT ![b] = sold]
    /\ Awaits(b, "save")
    /\ UNCHANGED <<ram, npc, stop, guardianVars, paused, todo, next, tracked, intents,
                   saved, live, lost, moves, faults>>

Job(b) ==
    \/ IntentWritten(b) \/ Saved(b)
    \/ \E reply \in {"accepted", "refused", "lost"} : Sent(b, reply)

Bot(b) ==
    \/ TickTrades(b) \/ TickResolves(b) \/ StopLossTrips(b)
    \/ \E sold \in BOOLEAN : StopLossEnds(b, sold)

Main ==
    \/ \E workers \in SUBSET Bots : Start(workers)
    \/ StopGuardian \/ Exit \/ \E b \in Bots : StopBot(b)

Next ==
    \/ Main \/ Guardian \/ Signal
    \/ \E reading \in RamReadings : RamMoves(reading)
    \/ \E b \in Bots : Job(b) \/ Bot(b)

Spec == Init /\ [][Next]_vars

\* The event loop runs every task that is ready, and the thread jobs end: each
\* has a timeout of its own.
FairSpec ==
    /\ Spec /\ WF_vars(Main) /\ WF_vars(Guardian)
    /\ \A b \in Bots : WF_vars(Job(b))

-----------------------------------------------------------------------------
\* Properties.

TypeOK ==
    /\ level \in RamLevels /\ gpc \in {"off", "sleep", "emergency", "ended"}
    /\ left \subseteq Bots /\ (left # {} <=> gpc = "emergency")
    /\ \A b \in Bots :
         /\ task[b] \in {"absent", "sleep", "intent", "send", "save", "stopping", "ended"}
         /\ task[b] \in {"intent", "send", "save"} => job[b] = task[b]
         /\ todo[b] \in 0 .. Levels[b] /\ next[b] \in 0 .. MaxOrders[b]
         /\ UNION {tracked[b], saved[b], live[b], intents[b]} \subseteq 1 .. next[b]

\* "l'INTENZIONE si journalizza PRIMA dell'invio": wherever a stop cuts a tick,
\* an order at the venue has the record that makes it recognisable.
LiveHasIntent == \A b \in Bots : live[b] \subseteq intents[b]

\* What a stop may leave at the venue unknown to the state is one order a bot,
\* beyond those whose reply was lost.
OneOrderAbandoned ==
    \A b \in Bots : Cardinality(live[b] \ tracked[b]) <= lost[b] + 1

\* A bot whose stop-loss is done sends nothing, however often the guardian
\* rewrites its trading_paused.
StoppedSendsNothing == \A b \in Bots : triggered[b] => todo[b] = 0

\* An emergency that went to its end asked every bot's orders to be canceled and
\* flushed every bot, also those never started and those it could not cancel.
EmergencyCoversAll ==
    complete => \A b \in Bots : b \in asked /\ flushed[b] # NoRow

\* An emergency ends the process, unless its flush fails.
EmergencyExits == [](faults = 0) => (level = "emergency" ~> npc = "exited")

\* A stop ends the process, whatever the bots and an emergency are waiting for.
StopExits == stop ~> npc = "exited"
=============================================================================
