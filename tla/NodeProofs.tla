----------------------------- MODULE NodeProofs -----------------------------
(***************************************************************************)
(* What is proved of the node and of the brain that restarts it.           *)
(*                                                                         *)
(* What an emergency or a stop of the node may not break (DenaroNode), for *)
(* any bots, levels, thresholds and bounds.                                *)
(* The properties of the bots are about one bot each: BotInv is their      *)
(* common invariant.  It says what a task may be waiting for, that the job *)
(* in the thread, whether awaited or abandoned, sends an order whose       *)
(* intent is on the journal, and how many orders can be at the venue that  *)
(* the bot does not track: one for each lost reply, and one more only when *)
(* the task has been cancelled and its last job is over.                   *)
(*                                                                         *)
(* What the strategy cycle and the watchdog keep (StrategyLab), for any    *)
(* candidates, times and failures.                                         *)
(* Each property follows a value through its copies.  The time a candidate *)
(* was put on paper goes to the registry the cycle holds, to the file, and *)
(* back into the next cycle, with a round in between that writes the same  *)
(* file and a process that may end anywhere (PaperInv).  The proof that a  *)
(* candidate has run goes from the overrides to the node (RanInv).  The    *)
(* time of the last restart goes to the limit in memory and its file, and  *)
(* back (SpacedInv).                                                       *)
(***************************************************************************)
EXTENDS DenaroNode, StrategyLab, FiniteSetTheorems, TLAPS

-----------------------------------------------------------------------------
(* The node *)

Tasks == {"absent", "sleep", "intent", "send", "save", "stopping", "ended"}
Jobs == {"none", "intent", "send", "save"}
Sending == {"intent", "send"}

NodeTypes ==
    /\ task \in [Bots -> Tasks] /\ job \in [Bots -> Jobs]
    /\ todo \in [Bots -> Nat] /\ next \in [Bots -> Nat]
    /\ lost \in [Bots -> Nat]
    /\ tracked \in [Bots -> SUBSET Nat] /\ intents \in [Bots -> SUBSET Nat]
    /\ saved \in [Bots -> SUBSET Nat] /\ live \in [Bots -> SUBSET Nat]

TaskInv(b) ==
    /\ npc = "starting" => task[b] = "absent"
    /\ task[b] \in {"intent", "send", "save"} => job[b] = task[b]
    /\ task[b] \in {"absent", "sleep", "stopping"} => job[b] = "none"
    /\ todo[b] <= Levels[b] /\ next[b] <= MaxOrders[b]
    /\ IF task[b] \in Sending THEN todo[b] > 0 /\ next[b] + todo[b] <= MaxOrders[b] + 1
       ELSE todo[b] = 0
    /\ job[b] \in Sending => next[b] > 0

OrdersInv(b) ==
    /\ job[b] = "send" => next[b] \in intents[b]
    /\ \A o \in tracked[b] \cup saved[b] \cup live[b] \cup intents[b] : o > 0 /\ o <= next[b]
    /\ live[b] \subseteq intents[b]

BotInv(b) == TaskInv(b) /\ OrdersInv(b)

Inv == NodeTypes /\ \A b \in Bots : BotInv(b)

LEMMA InitInv == Init => Inv
BY NodeAssumption DEF Init, Inv, NodeTypes, BotInv, TaskInv, OrdersInv, Tasks, Jobs, Sending

\* The ids handed out so far are finitely many.
LEMMA FirstFinite == \A n \in Nat : IsFiniteSet(1 .. n)
<1> SUFFICES ASSUME NEW n \in Nat PROVE IsFiniteSet(1 .. n)
  OBVIOUS
<1>1. 1 \in Int /\ n \in Int
  OBVIOUS
<1>2. \A a, b \in Int : IsFiniteSet(a .. b)
  BY FS_Interval, Zenon
<1> QED
  BY <1>1, <1>2

LEMMA TrackedFinite ==
    ASSUME Inv, NEW b \in Bots
    PROVE  IsFiniteSet(tracked[b]) /\ Cardinality(tracked[b]) \in Nat
<1>1. tracked[b] \in SUBSET (1 .. next[b]) /\ next[b] \in Nat
  BY DEF Inv, NodeTypes, BotInv, OrdersInv
<1>2. IsFiniteSet(1 .. next[b])
  BY <1>1, FirstFinite
<1>3. IsFiniteSet(tracked[b])
  BY <1>1, <1>2, FS_Subset
<1>4. QED
  BY <1>3, FS_CardinalityType

-----------------------------------------------------------------------------
\* What does not touch the bots' ticks.

LEMMA ElsewhereKeepsInv ==
    ASSUME Inv,
           \/ \E reading \in RamReadings : RamMoves(reading)
           \/ Signal \/ Exit \/ Poll \/ UNCHANGED vars
    PROVE  Inv'
<1> SUFFICES ASSUME UNCHANGED tickVars, npc # "starting" => npc' # "starting"
             PROVE  Inv'
  BY DEF RamMoves, Signal, Exit, Poll, vars, tickVars
<1>1. QED
  BY DEF Inv, NodeTypes, BotInv, TaskInv, OrdersInv, tickVars

LEMMA MainKeepsInv ==
    ASSUME Inv, Main
    PROVE  Inv'
<1>1. ASSUME NEW workers \in SUBSET Bots, Start(workers) PROVE Inv'
  <2>1. \A c \in Bots : task[c] = "absent" /\ task'[c] \in {"absent", "sleep"}
    BY <1>1 DEF Start, Inv, BotInv, TaskInv
  <2>2. task' \in [Bots -> Tasks] /\ npc' # "starting"
    BY <1>1 DEF Start, Tasks
  <2>3. UNCHANGED <<todo, job, next, tracked, intents, saved, live, lost>>
    BY <1>1 DEF Start
  <2>4. NodeTypes'
    BY <2>1, <2>2, <2>3 DEF Inv, NodeTypes, Tasks, Jobs
  <2>5. ASSUME NEW c \in Bots PROVE TaskInv(c)'
    <3>1. TaskInv(c) /\ task[c] = "absent" /\ task'[c] \in {"absent", "sleep"}
      BY <2>1 DEF Inv, BotInv
    <3>2. job'[c] = "none" /\ todo'[c] = 0
      BY <2>3, <3>1 DEF TaskInv, Sending
    <3>3. /\ task'[c] \notin {"intent", "send", "save"} /\ todo'[c] <= Levels[c]
          /\ next'[c] <= MaxOrders[c]
      BY <2>3, <3>1 DEF TaskInv
    <3>4. QED
      BY <2>2, <3>2, <3>3 DEF TaskInv, Sending
  <2>6. ASSUME NEW c \in Bots PROVE OrdersInv(c)'
    BY <2>1, <2>2, <2>3 DEF Inv, NodeTypes, BotInv, TaskInv, OrdersInv, Sending
  <2>7. QED
    BY <2>4, <2>5, <2>6 DEF Inv, BotInv
<1>2. CASE StopGuardian
  <2>1. NodeTypes'
    BY <1>2 DEF Inv, NodeTypes, Tasks, Jobs, StopGuardian
  <2>2. ASSUME NEW c \in Bots PROVE TaskInv(c)'
    BY <1>2 DEF Inv, NodeTypes, BotInv, TaskInv, Tasks, Jobs, Sending, StopGuardian
  <2>3. ASSUME NEW c \in Bots PROVE OrdersInv(c)'
    BY <1>2 DEF Inv, NodeTypes, BotInv, TaskInv, OrdersInv, Sending, StopGuardian
  <2>4. QED
    BY <2>1, <2>2, <2>3 DEF Inv, BotInv
<1>3. CASE Exit
  BY <1>3, ElsewhereKeepsInv
<1>4. ASSUME NEW b \in Bots, StopBot(b) PROVE Inv'
  <2>1. NodeTypes'
    BY <1>4 DEF Inv, NodeTypes, Tasks, Jobs, StopBot
  <2>2. ASSUME NEW c \in Bots PROVE TaskInv(c)'
    <3>1. TaskInv(c) /\ Levels[c] \in Nat /\ task \in [Bots -> Tasks] /\ todo \in [Bots -> Nat]
      BY NodeAssumption DEF Inv, BotInv, NodeTypes
    <3>2. /\ npc' = "stopping" /\ UNCHANGED <<job, next>>
          /\ task' = [task EXCEPT ![b] = "ended"] /\ todo' = [todo EXCEPT ![b] = 0]
      BY <1>4 DEF StopBot
    <3>3. CASE c = b
      BY <3>1, <3>2, <3>3 DEF TaskInv, Sending
    <3>4. CASE c # b
      BY <3>1, <3>2, <3>4 DEF TaskInv, Sending
    <3>5. QED
      BY <3>3, <3>4
  <2>3. ASSUME NEW c \in Bots PROVE OrdersInv(c)'
    BY <1>4 DEF Inv, NodeTypes, BotInv, TaskInv, OrdersInv, Sending, StopBot
  <2>4. QED
    BY <2>1, <2>2, <2>3 DEF Inv, BotInv
<1>5. QED
  BY <1>1, <1>2, <1>3, <1>4 DEF Main

LEMMA GuardianKeepsInv ==
    ASSUME Inv, Guardian
    PROVE  Inv'
<1>1. CASE Poll
  BY <1>1, ElsewhereKeepsInv
<1>2. ASSUME NEW b \in Bots,
             live' = [live EXCEPT ![b] = {}] \/ UNCHANGED live,
             UNCHANGED <<npc, task, todo, job, next, tracked, intents, saved, lost>>
      PROVE  Inv'
  BY <1>2 DEF Inv, NodeTypes, BotInv, TaskInv, OrdersInv
<1>3. QED
  BY <1>1, <1>2 DEF Guardian, FlushFails, CancelAll

LEMMA JobKeepsInv ==
    ASSUME Inv, NEW b \in Bots, Job(b)
    PROVE  Inv'
<1>1. CASE IntentWritten(b)
  <2>1. NodeTypes'
    BY <1>1 DEF Inv, NodeTypes, Tasks, Jobs, IntentWritten, Awaits
  <2>2. ASSUME NEW c \in Bots PROVE TaskInv(c)'
    BY <1>1 DEF Inv, NodeTypes, BotInv, TaskInv, Tasks, Jobs, Sending, IntentWritten, Awaits
  <2>3. ASSUME NEW c \in Bots PROVE OrdersInv(c)'
    BY <1>1 DEF Inv, NodeTypes, BotInv, TaskInv, OrdersInv, Sending, IntentWritten, Awaits
  <2>4. QED
    BY <2>1, <2>2, <2>3 DEF Inv, BotInv
<1>2. CASE Saved(b)
  <2>1. NodeTypes'
    BY <1>2 DEF Inv, NodeTypes, Tasks, Jobs, Saved
  <2>2. ASSUME NEW c \in Bots PROVE TaskInv(c)'
    BY <1>2 DEF Inv, NodeTypes, BotInv, TaskInv, Tasks, Jobs, Sending, Saved
  <2>3. ASSUME NEW c \in Bots PROVE OrdersInv(c)'
    BY <1>2 DEF Inv, NodeTypes, BotInv, TaskInv, OrdersInv, Sending, Saved
  <2>4. QED
    BY <2>1, <2>2, <2>3 DEF Inv, BotInv
<1>3. ASSUME NEW reply \in {"accepted", "refused", "lost"}, Sent(b, reply) PROVE Inv'
  <2>1. /\ job[b] = "send" /\ next[b] \in intents[b] /\ next[b] \in Nat /\ next[b] > 0
        /\ todo[b] \in Nat /\ UNCHANGED <<npc, intents, saved>>
    BY <1>3 DEF Sent, Inv, BotInv, TaskInv, OrdersInv, Sending, NodeTypes
  <2>2. \/ UNCHANGED live
        \/ live' = [live EXCEPT ![b] = live[b] \cup {next[b]}]
    BY <1>3 DEF Sent
  <2>3. lost' \in [Bots -> Nat]
    BY <1>3 DEF Sent, Inv, NodeTypes
  <2>4. MaxOrders[b] \in Nat /\ Levels[b] \in Nat
    BY NodeAssumption
  <2>5. CASE task[b] # "send"
    <3>1. /\ job' = [job EXCEPT ![b] = "none"]
          /\ UNCHANGED <<tracked, todo, task, next>>
      BY <1>3, <2>5 DEF Sent
    <3>2. task[b] = "ended"
      BY <2>1, <2>5 DEF Inv, NodeTypes, BotInv, TaskInv, Tasks
    <3>3. NodeTypes'
      BY <2>1, <2>2, <2>3, <3>1, <3>2 DEF Inv, NodeTypes, Tasks, Jobs
    <3>4. ASSUME NEW c \in Bots PROVE TaskInv(c)'
      BY <2>1, <2>2, <2>3, <3>1, <3>2 DEF Inv, NodeTypes, BotInv, TaskInv, Tasks, Jobs, Sending
    <3>5. ASSUME NEW c \in Bots PROVE OrdersInv(c)'
      BY <2>1, <2>2, <2>3, <3>1, <3>2 DEF Inv, NodeTypes, BotInv, TaskInv, OrdersInv, Sending
    <3>6. QED
      BY <3>3, <3>4, <3>5 DEF Inv, BotInv
  <2>6. CASE task[b] = "send"
    <3>1. /\ todo' = [todo EXCEPT ![b] = todo[b] - 1] /\ todo[b] > 0
          /\ \/ UNCHANGED tracked
             \/ tracked' = [tracked EXCEPT ![b] = tracked[b] \cup {next[b]}]
      BY <1>3, <2>6 DEF Sent, Track, Inv, BotInv, TaskInv, Sending
    <3>2. CASE todo[b] > 1
      <4>1. /\ next' = [next EXCEPT ![b] = next[b] + 1]
            /\ task' = [task EXCEPT ![b] = "intent"] /\ job' = [job EXCEPT ![b] = "intent"]
        BY <1>3, <2>6, <3>2 DEF Sent, NextBuy, Awaits
      <4>2. NodeTypes'
        BY <2>1, <2>2, <2>3, <2>6, <3>1, <3>2, <4>1 DEF Inv, NodeTypes, Tasks, Jobs
      <4>3. ASSUME NEW c \in Bots PROVE TaskInv(c)'
        BY <2>1, <2>2, <2>3, <2>6, <3>1, <3>2, <4>1, <2>4 DEF Inv, NodeTypes, BotInv, TaskInv, Tasks, Jobs, Sending
      <4>4. ASSUME NEW c \in Bots PROVE OrdersInv(c)'
        BY <2>1, <2>2, <2>3, <2>6, <3>1, <3>2, <4>1 DEF Inv, NodeTypes, BotInv, TaskInv, OrdersInv, Sending
      <4>5. QED
        BY <4>2, <4>3, <4>4 DEF Inv, BotInv
    <3>3. CASE ~(todo[b] > 1)
      <4>1. /\ UNCHANGED next
            /\ task' = [task EXCEPT ![b] = "save"] /\ job' = [job EXCEPT ![b] = "save"]
        BY <1>3, <2>6, <3>3 DEF Sent, Awaits
      <4>2. NodeTypes'
        BY <2>1, <2>2, <2>3, <2>6, <3>1, <3>3, <4>1 DEF Inv, NodeTypes, Tasks, Jobs
      <4>3. ASSUME NEW c \in Bots PROVE TaskInv(c)'
        BY <2>1, <2>2, <2>3, <2>6, <3>1, <3>3, <4>1, <2>4 DEF Inv, NodeTypes, BotInv, TaskInv, Tasks, Jobs, Sending
      <4>4. ASSUME NEW c \in Bots PROVE OrdersInv(c)'
        BY <2>1, <2>2, <2>3, <2>6, <3>1, <3>3, <4>1 DEF Inv, NodeTypes, BotInv, TaskInv, OrdersInv, Sending
      <4>5. QED
        BY <4>2, <4>3, <4>4 DEF Inv, BotInv
    <3>4. QED
      BY <3>2, <3>3
  <2>7. QED
    BY <2>5, <2>6
<1>4. QED
  BY <1>1, <1>2, <1>3 DEF Job

LEMMA BotKeepsInv ==
    ASSUME Inv, NEW b \in Bots, Bot(b)
    PROVE  Inv'
<1>1. CASE TickTrades(b)
  <2> DEFINE n == Levels[b] - Cardinality(tracked[b])
  <2>1. Cardinality(tracked[b]) \in Nat /\ Levels[b] \in Nat
    BY TrackedFinite, NodeAssumption
  <2>2. n \in Nat /\ n > 0 /\ n <= Levels[b]
    BY <1>1, <2>1 DEF TickTrades
  <2>3. todo' = [todo EXCEPT ![b] = n] /\ next[b] + n <= MaxOrders[b]
    BY <1>1 DEF TickTrades, Inv, NodeTypes
  <2>4. /\ task[b] = "sleep" /\ task' = [task EXCEPT ![b] = "intent"]
        /\ job[b] = "none" /\ job' = [job EXCEPT ![b] = "intent"]
        /\ next' = [next EXCEPT ![b] = next[b] + 1]
        /\ UNCHANGED <<npc, tracked, intents, saved, live, lost>>
    BY <1>1 DEF TickTrades, NextBuy, Awaits
  <2>5. MaxOrders[b] \in Nat
    BY NodeAssumption
  <2> HIDE DEF n
  <2>6. NodeTypes'
    BY <2>1, <2>2, <2>3, <2>4, <2>5 DEF Inv, NodeTypes, Tasks, Jobs
  <2>7. ASSUME NEW c \in Bots PROVE TaskInv(c)'
    BY <2>1, <2>2, <2>3, <2>4, <2>5 DEF Inv, NodeTypes, BotInv, TaskInv, Tasks, Jobs, Sending
  <2>8. ASSUME NEW c \in Bots PROVE OrdersInv(c)'
    BY <2>1, <2>2, <2>3, <2>4, <2>5 DEF Inv, NodeTypes, BotInv, TaskInv, OrdersInv, Sending
  <2>9. QED
    BY <2>6, <2>7, <2>8 DEF Inv, BotInv
<1>2. CASE TickResolves(b)
  <2>1. NodeTypes'
    BY <1>2 DEF Inv, NodeTypes, Tasks, Jobs, TickResolves, Awaits
  <2>2. ASSUME NEW c \in Bots PROVE TaskInv(c)'
    BY <1>2 DEF Inv, NodeTypes, BotInv, TaskInv, Tasks, Jobs, Sending, TickResolves, Awaits
  <2>3. ASSUME NEW c \in Bots PROVE OrdersInv(c)'
    BY <1>2 DEF Inv, NodeTypes, BotInv, TaskInv, OrdersInv, Sending, TickResolves, Awaits
  <2>4. QED
    BY <2>1, <2>2, <2>3 DEF Inv, BotInv
<1>3. CASE StopLossTrips(b)
  <2>1. NodeTypes'
    BY <1>3 DEF Inv, NodeTypes, Tasks, Jobs, StopLossTrips
  <2>2. ASSUME NEW c \in Bots PROVE TaskInv(c)'
    BY <1>3 DEF Inv, NodeTypes, BotInv, TaskInv, Tasks, Jobs, Sending, StopLossTrips
  <2>3. ASSUME NEW c \in Bots PROVE OrdersInv(c)'
    BY <1>3 DEF Inv, NodeTypes, BotInv, TaskInv, OrdersInv, Sending, StopLossTrips
  <2>4. QED
    BY <2>1, <2>2, <2>3 DEF Inv, BotInv
<1>4. ASSUME NEW sold \in BOOLEAN, StopLossEnds(b, sold) PROVE Inv'
  <2>1. NodeTypes'
    BY <1>4 DEF Inv, NodeTypes, Tasks, Jobs, StopLossEnds, Awaits
  <2>2. ASSUME NEW c \in Bots PROVE TaskInv(c)'
    BY <1>4 DEF Inv, NodeTypes, BotInv, TaskInv, Tasks, Jobs, Sending, StopLossEnds, Awaits
  <2>3. ASSUME NEW c \in Bots PROVE OrdersInv(c)'
    BY <1>4 DEF Inv, NodeTypes, BotInv, TaskInv, OrdersInv, Sending, StopLossEnds, Awaits
  <2>4. QED
    BY <2>1, <2>2, <2>3 DEF Inv, BotInv
<1>5. QED
  BY <1>1, <1>2, <1>3, <1>4 DEF Bot

LEMMA StepKeepsInv == Inv /\ [Next]_vars => Inv'
BY ElsewhereKeepsInv, MainKeepsInv, GuardianKeepsInv, JobKeepsInv, BotKeepsInv DEF Next

LEMMA NodeInvariant == Spec => []Inv
BY InitInv, StepKeepsInv, PTL DEF Spec

-----------------------------------------------------------------------------
\* Wherever a stop or an emergency cuts a tick, an order at the venue has the
\* journal record of its intent.
THEOREM IntentSafety == Spec => []LiveHasIntent
<1>1. Inv => LiveHasIntent
  BY DEF Inv, BotInv, OrdersInv, LiveHasIntent
<1>2. QED
  BY <1>1, NodeInvariant, PTL

-----------------------------------------------------------------------------
\* The emergency.

EmergencyInv ==
    /\ level \in RamLevels /\ gpc \in {"off", "sleep", "emergency", "ended"}
    /\ npc = "starting" => gpc = "off"
    /\ asked \subseteq Bots /\ left \subseteq Bots
    /\ left # {} <=> gpc = "emergency"
    /\ flushed \in [Bots -> SUBSET Nat]
    /\ gpc = "emergency" => \A b \in Bots \ left : b \in asked /\ flushed[b] # NoRow
    /\ EmergencyCoversAll

\* A row written holds orders that were sent, and no such set is the missing row.
LEMMA RowsAreRows ==
    ASSUME Inv, NEW b \in Bots
    PROVE  tracked[b] \in SUBSET Nat /\ tracked[b] # NoRow
BY DEF Inv, NodeTypes, BotInv, OrdersInv, NoRow

LEMMA InitEmergency == Init => EmergencyInv
BY DEF Init, EmergencyInv, EmergencyCoversAll, RamLevels, NoRow

LEMMA CancelKeepsEmergency ==
    ASSUME Inv, EmergencyInv, NEW b \in Bots, NEW ok \in BOOLEAN, CancelAll(b, ok)
    PROVE  EmergencyInv'
<1>1. /\ gpc = "emergency" /\ b \in left
      /\ asked' = asked \cup {b} /\ left' = left \ {b} /\ UNCHANGED <<level, npc>>
  BY DEF CancelAll
<1>2. flushed' = [flushed EXCEPT ![b] = tracked[b]]
  BY DEF CancelAll, CancelAllFails
<1>3. gpc' = IF left = {b} THEN "sleep" ELSE "emergency"
  BY DEF CancelAll
<1>4. complete' <=> left = {b}
  BY Zenon DEF CancelAll, Finish
<1>5. flushed' \in [Bots -> SUBSET Nat]
  BY <1>2, RowsAreRows DEF EmergencyInv
<1>6. \A c \in Bots \ left' : c \in asked' /\ flushed'[c] # NoRow
  <2> SUFFICES ASSUME NEW c \in Bots \ left'
               PROVE  c \in asked' /\ flushed'[c] # NoRow
    OBVIOUS
  <2>1. CASE c = b
    BY <1>1, <1>2, <2>1, RowsAreRows DEF EmergencyInv
  <2>2. CASE c # b
    BY <1>1, <1>2, <2>2 DEF EmergencyInv
  <2>3. QED
    BY <2>1, <2>2
<1>7. EmergencyCoversAll'
  BY <1>1, <1>4, <1>6 DEF EmergencyCoversAll
<1>8. /\ asked' \subseteq Bots /\ left' \subseteq Bots /\ level' \in RamLevels
      /\ gpc' \in {"off", "sleep", "emergency", "ended"}
      /\ npc' = "starting" => gpc' = "off"
      /\ left' # {} <=> gpc' = "emergency"
  BY <1>1, <1>3 DEF EmergencyInv
<1>9. QED
  BY <1>5, <1>6, <1>7, <1>8 DEF EmergencyInv

LEMMA StepKeepsEmergency == Inv /\ EmergencyInv /\ [Next]_vars => EmergencyInv'
<1> SUFFICES ASSUME Inv, EmergencyInv, [Next]_vars
             PROVE  EmergencyInv'
  OBVIOUS
<1> DEFINE Same == /\ UNCHANGED <<level, gpc, left, asked, flushed, complete>>
                   /\ npc' = "starting" => npc = "starting"
<1>1. ASSUME Same PROVE EmergencyInv'
  BY <1>1 DEF EmergencyInv, EmergencyCoversAll
<1>2. ASSUME NEW workers \in SUBSET Bots, Start(workers) PROVE EmergencyInv'
  <2>1. gpc = "off" /\ npc' # "starting"
    BY <1>2 DEF Start, EmergencyInv
  <2>2. gpc' = "sleep" /\ UNCHANGED <<level, left, asked, flushed, complete>>
    BY <1>2 DEF Start
  <2>3. QED
    BY <2>1, <2>2 DEF EmergencyInv, EmergencyCoversAll
<1>3. CASE StopGuardian
  BY <1>3 DEF StopGuardian, EmergencyInv, EmergencyCoversAll
<1>4. CASE Poll
  <2>1. /\ gpc = "sleep" /\ level' = Check(ram) /\ UNCHANGED <<npc, asked, flushed, complete>>
        /\ \/ gpc' = "emergency" /\ left' = Bots
           \/ gpc' = "sleep" /\ left' = {}
    BY <1>4 DEF Poll
  <2>2. level' \in RamLevels
    BY <2>1 DEF Check, RamLevels
  <2>3. QED
    BY <2>1, <2>2, NodeAssumption DEF EmergencyInv, EmergencyCoversAll
<1>5. ASSUME NEW b \in Bots, FlushFails(b) PROVE EmergencyInv'
  BY <1>5 DEF FlushFails, EmergencyInv, EmergencyCoversAll
<1>6. ASSUME NEW b \in Bots, NEW ok \in BOOLEAN, CancelAll(b, ok) PROVE EmergencyInv'
  BY <1>6, CancelKeepsEmergency
<1>7. ASSUME NEW b \in Bots, Job(b) \/ Bot(b) PROVE Same
  BY <1>7 DEF Job, IntentWritten, Saved, Sent, Bot, TickTrades, TickResolves, StopLossTrips,
     StopLossEnds, guardianVars
<1>8. ASSUME \/ Exit \/ Signal \/ \E reading \in RamReadings : RamMoves(reading)
             \/ \E b \in Bots : StopBot(b)
             \/ UNCHANGED vars
      PROVE  Same
  BY <1>8 DEF Exit, Signal, RamMoves, StopBot, vars, guardianVars
<1> HIDE DEF Same
<1>9. QED
  BY <1>1, <1>2, <1>3, <1>4, <1>5, <1>6, <1>7, <1>8 DEF Next, Main, Guardian

LEMMA EmergencyInvariant == Spec => [](Inv /\ EmergencyInv)
<1>1. Inv /\ EmergencyInv /\ [Next]_vars => (Inv /\ EmergencyInv)'
  BY StepKeepsInv, StepKeepsEmergency
<1>2. Init => Inv /\ EmergencyInv
  BY InitInv, InitEmergency
<1>3. QED
  BY <1>1, <1>2, PTL DEF Spec

\* An emergency that went to its end has asked for every bot's orders and has
\* flushed every bot, whatever failed, stopped or was placed meanwhile.
THEOREM EmergencySafety == Spec => []EmergencyCoversAll
<1>1. EmergencyInv => EmergencyCoversAll
  BY DEF EmergencyInv
<1>2. QED
  BY <1>1, EmergencyInvariant, PTL

\* The variables keep their types: a task that waits has its job in the thread,
\* and the guardian has bots left to cancel exactly during an emergency.
THEOREM NodeTypeCorrect == Spec => []TypeOK
<1>1. Inv /\ EmergencyInv => TypeOK
  <2> SUFFICES ASSUME Inv, EmergencyInv
               PROVE  TypeOK
    OBVIOUS
  <2>1. ASSUME NEW b \in Bots
        PROVE  /\ task[b] \in Tasks /\ todo[b] \in Nat /\ next[b] \in Nat
               /\ Levels[b] \in Nat /\ MaxOrders[b] \in Nat
    BY NodeAssumption DEF Inv, NodeTypes
  <2>2. ASSUME NEW b \in Bots
        PROVE  /\ task[b] \in {"intent", "send", "save"} => job[b] = task[b]
               /\ todo[b] \in 0 .. Levels[b] /\ next[b] \in 0 .. MaxOrders[b]
    BY <2>1 DEF Inv, BotInv, TaskInv
  <2>3. ASSUME NEW b \in Bots
        PROVE  UNION {tracked[b], saved[b], live[b], intents[b]} \subseteq 1 .. next[b]
    BY <2>1 DEF Inv, NodeTypes, BotInv, OrdersInv
  <2>4. QED
    BY <2>1, <2>2, <2>3 DEF TypeOK, EmergencyInv, Tasks
<1>2. QED
  BY <1>1, EmergencyInvariant, PTL

-----------------------------------------------------------------------------
\* The stop-loss.

StopInv == triggered \in [Bots -> BOOLEAN] /\ StoppedSendsNothing

\* A bot whose stop-loss is done has no order left to send, whatever the guardian
\* writes and however ticks, emergency and stop interleave.
THEOREM StopSafety == Spec => []StoppedSendsNothing
<1>1. Init => StopInv
  BY DEF Init, StopInv, StoppedSendsNothing
<1>2. Inv /\ StopInv /\ [Next]_vars => StopInv'
  <2> SUFFICES ASSUME Inv, StopInv, [Next]_vars
               PROVE  StopInv'
    OBVIOUS
  <2>1. ASSUME UNCHANGED <<triggered, todo>> PROVE StopInv'
    BY <2>1 DEF StopInv, StoppedSendsNothing
  <2>2. ASSUME NEW b \in Bots, StopBot(b) PROVE StopInv'
    BY <2>2 DEF StopBot, StopInv, StoppedSendsNothing, Inv, NodeTypes
  <2>3. ASSUME NEW b \in Bots, TickTrades(b) PROVE StopInv'
    BY <2>3 DEF TickTrades, MayTrade, StopInv, StoppedSendsNothing, Inv, NodeTypes
  <2>4. ASSUME NEW b \in Bots, NEW reply \in {"accepted", "refused", "lost"}, Sent(b, reply)
        PROVE  StopInv'
    <3>1. CASE task[b] = "send"
      <4>1. todo[b] > 0 /\ ~triggered[b]
        BY <3>1 DEF Inv, BotInv, TaskInv, Sending, StopInv, StoppedSendsNothing
      <4>2. todo' = [todo EXCEPT ![b] = todo[b] - 1] /\ UNCHANGED triggered
        BY <2>4, <3>1 DEF Sent
      <4>3. QED
        BY <4>1, <4>2 DEF StopInv, StoppedSendsNothing, Inv, NodeTypes
    <3>2. CASE task[b] # "send"
      BY <2>1, <2>4, <3>2 DEF Sent
    <3>3. QED
      BY <3>1, <3>2
  <2>5. ASSUME NEW b \in Bots, NEW sold \in BOOLEAN, StopLossEnds(b, sold) PROVE StopInv'
    <3>1. todo[b] = 0 /\ UNCHANGED todo
      BY <2>5 DEF StopLossEnds, Inv, BotInv, TaskInv, Sending
    <3>2. triggered' = [triggered EXCEPT ![b] = sold]
      BY <2>5 DEF StopLossEnds
    <3>3. triggered' \in [Bots -> BOOLEAN]
      BY <3>2 DEF StopInv
    <3>4. ASSUME NEW c \in Bots, triggered'[c] PROVE todo'[c] = 0
      BY <3>1, <3>2, <3>4 DEF StopInv, StoppedSendsNothing
    <3>5. QED
      BY <3>3, <3>4 DEF StopInv, StoppedSendsNothing
  <2>6. ASSUME \/ \E workers \in SUBSET Bots : Start(workers)
               \/ StopGuardian \/ Exit \/ Guardian \/ Signal
               \/ \E reading \in RamReadings : RamMoves(reading)
               \/ \E b \in Bots : \/ IntentWritten(b) \/ Saved(b)
                                 \/ TickResolves(b) \/ StopLossTrips(b)
               \/ UNCHANGED vars
        PROVE  UNCHANGED <<triggered, todo>>
    BY <2>6 DEF Start, StopGuardian, Exit, Guardian, Poll, CancelAll, FlushFails, Signal,
       RamMoves, IntentWritten, Saved, TickResolves, StopLossTrips, vars, tickVars
  <2>7. QED
    BY <2>1, <2>2, <2>3, <2>4, <2>5, <2>6 DEF Next, Main, Job, Bot
<1>3. StopInv => StoppedSendsNothing
  BY DEF StopInv
<1>4. QED
  BY <1>1, <1>2, <1>3, NodeInvariant, PTL DEF Spec

-----------------------------------------------------------------------------
\* What a stop may leave at the venue.

Unknown(b) == live[b] \ tracked[b]

\* The order of an abandoned placement, once its job is over.
Abandoned(b) == IF task[b] = "ended" /\ job[b] # "send" THEN 1 ELSE 0

AbandonInv(b) == Cardinality(Unknown(b)) <= lost[b] + Abandoned(b)

LEMMA UnknownFinite ==
    ASSUME Inv, NEW b \in Bots
    PROVE  IsFiniteSet(Unknown(b)) /\ Cardinality(Unknown(b)) \in Nat
<1>1. Unknown(b) \in SUBSET (1 .. next[b]) /\ next[b] \in Nat
  BY DEF Inv, NodeTypes, BotInv, OrdersInv, Unknown
<1>2. IsFiniteSet(1 .. next[b])
  BY <1>1, FirstFinite
<1>3. IsFiniteSet(Unknown(b))
  BY <1>1, <1>2, FS_Subset
<1>4. QED
  BY <1>3, FS_CardinalityType

\* A step that leaves the bot no more unknown orders and as much allowed.
LEMMA FewerUnknown ==
    ASSUME Inv, Inv', NEW b \in Bots, AbandonInv(b), Unknown(b)' \subseteq Unknown(b),
           lost'[b] = lost[b], Abandoned(b) <= Abandoned(b)'
    PROVE  AbandonInv(b)'
<1>1. Cardinality(Unknown(b)') <= Cardinality(Unknown(b))
  BY UnknownFinite, FS_Subset
<1>2. /\ Cardinality(Unknown(b)') \in Nat /\ Cardinality(Unknown(b)) \in Nat
      /\ lost[b] \in Nat /\ Abandoned(b) \in Nat /\ Abandoned(b)' \in Nat
  <2>1. Cardinality(Unknown(b)) \in Nat
    BY UnknownFinite
  <2>2. Cardinality(Unknown(b)') \in Nat
    <3>1. IsFiniteSet(Unknown(b)')
      BY UnknownFinite, FS_Subset
    <3>2. QED
      BY <3>1, FS_CardinalityType
  <2>3. QED
    BY <2>1, <2>2 DEF Inv, NodeTypes, Abandoned
<1>3. QED
  BY <1>1, <1>2 DEF AbandonInv

\* A step that leaves it one more, and allows one more.
LEMMA OneMoreUnknown ==
    ASSUME Inv, NEW b \in Bots, AbandonInv(b), NEW o, Unknown(b)' \subseteq Unknown(b) \cup {o},
           lost'[b] \in Nat, lost[b] + Abandoned(b) < lost'[b] + Abandoned(b)'
    PROVE  AbandonInv(b)'
<1>1. /\ IsFiniteSet(Unknown(b) \cup {o})
      /\ Cardinality(Unknown(b) \cup {o}) <= Cardinality(Unknown(b)) + 1
  <2>1. IsFiniteSet(Unknown(b)) /\ Cardinality(Unknown(b)) \in Nat
    BY UnknownFinite
  <2>2. /\ IsFiniteSet(Unknown(b) \cup {o})
        /\ Cardinality(Unknown(b) \cup {o}) =
             IF o \in Unknown(b) THEN Cardinality(Unknown(b)) ELSE Cardinality(Unknown(b)) + 1
    BY <2>1, FS_AddElement
  <2>3. QED
    BY <2>1, <2>2
<1>2. /\ IsFiniteSet(Unknown(b)')
      /\ Cardinality(Unknown(b)') <= Cardinality(Unknown(b) \cup {o})
  BY <1>1, FS_Subset
<1>3. /\ Cardinality(Unknown(b)') \in Nat /\ Cardinality(Unknown(b) \cup {o}) \in Nat
      /\ Cardinality(Unknown(b)) \in Nat
  BY <1>1, <1>2, UnknownFinite, FS_CardinalityType
<1>4. lost[b] \in Nat /\ Abandoned(b) \in Nat /\ Abandoned(b)' \in Nat
  BY DEF Inv, NodeTypes, Abandoned
<1>5. QED
  BY <1>1, <1>2, <1>3, <1>4 DEF AbandonInv

LEMMA StepKeepsAbandon ==
    Inv /\ EmergencyInv /\ Inv' /\ (\A b \in Bots : AbandonInv(b)) /\ [Next]_vars
        => \A b \in Bots : AbandonInv(b)'
<1> SUFFICES ASSUME Inv, EmergencyInv, Inv', \A b \in Bots : AbandonInv(b), [Next]_vars,
                    NEW c \in Bots
             PROVE  AbandonInv(c)'
  OBVIOUS
<1> DEFINE Fewer == /\ Unknown(c)' \subseteq Unknown(c) /\ lost'[c] = lost[c]
                    /\ Abandoned(c) <= Abandoned(c)'
<1>1. ASSUME Fewer PROVE AbandonInv(c)'
  BY <1>1, FewerUnknown
<1>2. ASSUME live' = live \/ \E b \in Bots : live' = [live EXCEPT ![b] = {}],
             UNCHANGED <<tracked, lost, task, job>>
      PROVE  Fewer
  BY <1>2 DEF Unknown, Abandoned, Inv, NodeTypes
<1>3. ASSUME \/ Guardian \/ StopGuardian \/ Exit \/ Signal
             \/ \E reading \in RamReadings : RamMoves(reading)
             \/ UNCHANGED vars
      PROVE  Fewer
  <2>1. UNCHANGED <<tracked, lost, task, job>>
    BY <1>3 DEF Guardian, Poll, CancelAll, FlushFails, StopGuardian, Exit, Signal, RamMoves,
       vars, tickVars
  <2>2. live' = live \/ \E b \in Bots : live' = [live EXCEPT ![b] = {}]
    <3>1. CASE StopGuardian
      BY <3>1 DEF StopGuardian, EmergencyInv
    <3>2. CASE Guardian
      BY <3>2 DEF Guardian, Poll, CancelAll, FlushFails, tickVars
    <3>3. CASE \/ Exit \/ Signal \/ \E reading \in RamReadings : RamMoves(reading)
               \/ UNCHANGED vars
      BY <3>3 DEF Exit, Signal, RamMoves, vars, tickVars
    <3>4. QED
      BY <1>3, <3>1, <3>2, <3>3
  <2>3. QED
    BY <1>2, <2>1, <2>2
<1>4. ASSUME NEW workers \in SUBSET Bots, Start(workers) PROVE Fewer
  <2>1. task[c] = "absent" /\ UNCHANGED <<live, tracked, lost>>
    BY <1>4 DEF Start, Inv, BotInv, TaskInv
  <2>2. QED
    BY <2>1 DEF Unknown, Abandoned
<1>5. ASSUME NEW b \in Bots, StopBot(b) PROVE Fewer
  BY <1>5 DEF StopBot, Unknown, Abandoned, Inv, NodeTypes
<1>6. ASSUME NEW b \in Bots, IntentWritten(b) \/ Saved(b) PROVE Fewer
  BY <1>6 DEF IntentWritten, Saved, Awaits, Unknown, Abandoned, Inv, NodeTypes
<1>7. ASSUME NEW b \in Bots, Bot(b) PROVE Fewer
  <2>1. CASE TickTrades(b)
    BY <2>1 DEF TickTrades, NextBuy, Awaits, Unknown, Abandoned, Inv, NodeTypes
  <2>2. CASE TickResolves(b)
    BY <2>2 DEF TickResolves, Awaits, Unknown, Abandoned, Inv, NodeTypes
  <2>3. CASE StopLossTrips(b)
    BY <2>3 DEF StopLossTrips, Unknown, Abandoned, Inv, NodeTypes
  <2>4. ASSUME NEW sold \in BOOLEAN, StopLossEnds(b, sold) PROVE Fewer
    BY <2>4 DEF StopLossEnds, Awaits, Unknown, Abandoned, Inv, NodeTypes
  <2>5. QED
    BY <1>7, <2>1, <2>2, <2>3, <2>4 DEF Bot
<1>8. ASSUME NEW b \in Bots, NEW reply \in {"accepted", "refused", "lost"}, Sent(b, reply)
      PROVE  AbandonInv(c)'
  <2>1. CASE c # b
    <3>1. Fewer
      BY <1>8, <2>1 DEF Sent, Track, NextBuy, Awaits, Unknown, Abandoned, Inv, NodeTypes
    <3>2. QED
      BY <1>1, <3>1
  <2>2. CASE c = b
    <3>1. /\ job[b] = "send" /\ Abandoned(b) = 0 /\ Abandoned(b)' \in {0, 1}
          /\ lost'[b] \in Nat /\ lost[b] \in Nat
      BY <1>8 DEF Sent, Abandoned, Inv, NodeTypes
    <3>2. Unknown(b)' \subseteq Unknown(b) \cup {next[b]}
      BY <1>8 DEF Sent, Track, Unknown, Inv, NodeTypes
    <3>3. CASE reply = "lost"
      <4>1. lost'[b] = lost[b] + 1
        BY <1>8, <3>3 DEF Sent, Inv, NodeTypes
      <4>2. QED
        BY <2>2, <3>1, <3>2, <4>1, OneMoreUnknown
    <3>4. CASE reply # "lost" /\ task[b] = "send"
      <4>1. lost'[b] = lost[b] /\ Unknown(b)' \subseteq Unknown(b)
        BY <1>8, <3>4 DEF Sent, Track, Unknown, Inv, NodeTypes
      <4>2. QED
        BY <1>1, <2>2, <3>1, <4>1
    <3>5. CASE reply # "lost" /\ task[b] # "send"
      <4>1. task[b] = "ended"
        BY <3>1, <3>5 DEF Inv, NodeTypes, BotInv, TaskInv, Tasks
      <4>2. lost'[b] = lost[b] /\ Abandoned(b)' = 1
        BY <1>8, <3>5, <4>1 DEF Sent, Abandoned, Inv, NodeTypes
      <4>3. QED
        BY <2>2, <3>1, <3>2, <4>2, OneMoreUnknown
    <3>6. QED
      BY <3>3, <3>4, <3>5
  <2>3. QED
    BY <2>1, <2>2
<1> HIDE DEF Fewer
<1>9. QED
  BY <1>1, <1>3, <1>4, <1>5, <1>6, <1>7, <1>8 DEF Next, Main, Job

\* Beyond the orders whose reply was lost, a stop leaves at the venue at most one
\* order that the state of its bot does not know, for any ladder of any depth.
THEOREM AbandonSafety == Spec => []OneOrderAbandoned
<1> DEFINE Few == \A b \in Bots : AbandonInv(b)
<1>1. Init => Few
  <2> SUFFICES ASSUME Init, NEW b \in Bots
               PROVE  AbandonInv(b)
    OBVIOUS
  <2>1. Unknown(b) = {} /\ lost[b] = 0 /\ Abandoned(b) \in {0, 1}
    BY DEF Init, Unknown, Abandoned
  <2>2. QED
    BY <2>1, FS_EmptySet DEF AbandonInv
<1>2. Inv /\ Few => OneOrderAbandoned
  <2> SUFFICES ASSUME Inv, Few, NEW b \in Bots
               PROVE  Cardinality(Unknown(b)) <= lost[b] + 1
    BY DEF OneOrderAbandoned, Unknown
  <2>1. Cardinality(Unknown(b)) \in Nat /\ lost[b] \in Nat
    BY UnknownFinite DEF Inv, NodeTypes
  <2>2. QED
    BY <2>1 DEF AbandonInv, Abandoned
<1>3. Inv /\ EmergencyInv /\ Inv' /\ Few /\ [Next]_vars => Few'
  BY StepKeepsAbandon
<1> HIDE DEF Few
<1>4. QED
  BY <1>1, <1>2, <1>3, NodeInvariant, EmergencyInvariant, PTL DEF Spec

-----------------------------------------------------------------------------
(* The strategy lab *)

Registries == [best : Strategies, paper : Strategies, started : Int, live : Strategies]
OverrideSets == [paper : Strategies, live : Strategies]
Limits == [last : Int, count : Int, hour : Int]

LabTypes ==
    /\ now \in Int /\ promoted \in Int
    /\ registry \in Registries /\ reg \in Registries
    /\ overrides \in OverrideSets /\ node \in OverrideSets
    /\ limit \in Limits /\ limitFile \in Limits /\ loaded \in Limits
    /\ restarts \in [last : Int, before : Int]
    /\ raced \in BOOLEAN
    /\ lab \in {"idle", "round", "promote", "validate", "write", "save", "restart",
                "restarting"}
    /\ dog \in {"start", "first", "idle", "read", "check", "restarting", "save"}

\* Wherever a paper entry is kept, its start is that of the last promotion; and
\* until the cycle promotes, what it holds is what the file holds.
PaperInv ==
    /\ registry.paper # None => registry.started = promoted
    /\ lab # "idle" /\ reg.paper # None => reg.started = promoted
    /\ lab \in {"round", "promote"} => reg.paper = registry.paper

Validated == aged \cup {None}

LiveInv ==
    /\ registry.live \in Validated /\ reg.live \in Validated
    /\ overrides.live \in Validated /\ node.live \in Validated

-----------------------------------------------------------------------------
LEMMA InitTypes == LabAssumption /\ LabInit => LabTypes
  <1> SUFFICES ASSUME LabAssumption, LabInit PROVE LabTypes
    OBVIOUS
  <1>1. Cooldown \in Int /\ None \in Strategies
    BY DEF LabAssumption, Strategies
  <1>2. registry \in Registries
    BY <1>1 DEF LabInit, NewSymbol, Registries, Strategies
  <1>3. reg \in Registries
    BY <1>1 DEF LabInit, NewSymbol, Registries, Strategies
  <1>4. NoLimit \in Limits /\ Nothing \in OverrideSets
    BY <1>1 DEF NoLimit, Limits, Nothing, OverrideSets
  <1>5. restarts \in [last : Int, before : Int]
    BY <1>1 DEF LabInit
  <1>6. /\ overrides \in OverrideSets /\ node \in OverrideSets
        /\ limit \in Limits /\ limitFile \in Limits /\ loaded \in Limits
    BY <1>4, Zenon DEF LabInit
  <1>7. lab = "idle" /\ dog = "start" /\ raced = FALSE
    BY Zenon DEF LabInit
  <1>8. now \in Int /\ promoted \in Int
    <2>1. now = 0 /\ promoted = 0
      BY Zenon DEF LabInit
    <2>2. QED
      BY <2>1
  <1>9. QED
    BY <1>2, <1>3, <1>5, <1>6, <1>7, <1>8, Zenon DEF LabTypes

\* What a new hour, and a restart, make of the limit.
LEMMA LimitTypes ==
  ASSUME LabAssumption, LabTypes
  PROVE  /\ HourStarted \in Limits /\ HourStarted.last = limit.last
         /\ Marked \in Limits /\ Marked.last = now
  <1>1. /\ now \div Hour \in Int /\ now \in Int
        /\ limit = [last |-> limit.last, count |-> limit.count, hour |-> limit.hour]
        /\ limit.last \in Int /\ limit.count \in Int /\ limit.hour \in Int
    BY DEF LabAssumption, LabTypes, Limits
  <1>2. \/ HourStarted = limit
        \/ HourStarted = [last |-> limit.last, count |-> 0, hour |-> now \div Hour]
    BY <1>1 DEF HourStarted
  <1>3. Marked = [last |-> now, count |-> limit.count + 1, hour |-> limit.hour]
    <2>1. Marked = [limit EXCEPT !.last = now, !.count = limit.count + 1]
      BY DEF Marked
    <2>2. QED
      BY <1>1, <2>1
  <1>4. HourStarted \in Limits /\ HourStarted.last = limit.last
    BY <1>1, <1>2 DEF Limits
  <1>5. limit.count + 1 \in Int
    BY <1>1
  <1>6. Marked \in Limits /\ Marked.last = now
    BY <1>1, <1>3, <1>5 DEF Limits
  <1>7. QED
    BY <1>4, <1>6

\* A restart by either thread: the node, the limits and the times of the restarts.
LEMMA RestartTypes ==
  ASSUME LabAssumption, LabTypes, Restart
  PROVE  /\ node' \in OverrideSets /\ limit' \in Limits /\ limitFile' \in Limits
         /\ restarts' \in [last : Int, before : Int]
  BY LimitTypes DEF Restart, LabTypes

LEMMA LabStepTypes ==
  ASSUME LabAssumption, LabTypes, Lab PROVE LabTypes'
  <1> USE DEF ToLab, diskVars, nodeVars, labVars, dogVars, pastVars
  <1>0. None \in Strategies /\ Candidates \subseteq Strategies
    BY DEF Strategies
  <1>1. CASE LoadRegistry
    BY <1>1 DEF LoadRegistry, LabTypes
  <1>2. CASE RoundFails
    BY <1>2 DEF RoundFails, LabTypes
  <1>3. CASE WriteOverrides
    BY <1>3 DEF WriteOverrides, Overrides, LabTypes, OverrideSets, Registries
  <1>4. CASE CopyFails
    BY <1>4 DEF CopyFails, LabTypes
  <1>5. CASE SaveRegistry
    BY <1>5 DEF SaveRegistry, LabTypes
  <1>6. CASE LabMayRestart
    BY <1>6, LimitTypes DEF LabMayRestart, LabTypes
  <1>7. CASE LabRestarts
    <2>1. CASE Restart
      BY <1>7, <2>1, RestartTypes DEF LabRestarts, LabTypes
    <2>2. CASE RestartFails
      BY <1>7, <2>2 DEF LabRestarts, RestartFails, LabTypes
    <2>3. QED
      BY <1>7, <2>1, <2>2 DEF LabRestarts
  <1>8. ASSUME NEW c \in Candidates, RunRound(c) PROVE LabTypes'
    BY <1>0, <1>8 DEF RunRound, LabTypes, Registries
  <1>9. ASSUME NEW yes \in BOOLEAN, Promote(yes) PROVE LabTypes'
    <2>1. reg' \in Registries /\ promoted' \in Int
      BY <1>9 DEF Promote, LabTypes, Registries
    <2>2. QED
      BY <1>9, <2>1 DEF Promote, LabTypes
  <1>10. ASSUME NEW yes \in BOOLEAN, Validate(yes) PROVE LabTypes'
    <2>1. \/ reg' = reg
          \/ reg' = [reg EXCEPT !.live = reg.paper, !.paper = None, !.started = 0]
          \/ reg' = [reg EXCEPT !.paper = None, !.started = 0]
      <3>1. CASE ~Due
        BY <1>10, <3>1 DEF Validate
      <3>2. CASE Due /\ yes
        BY <1>10, <3>2 DEF Validate
      <3>3. CASE Due /\ ~yes
        BY <1>10, <3>3 DEF Validate
      <3>4. QED
        BY <3>1, <3>2, <3>3
    <2>2. /\ reg = [best |-> reg.best, paper |-> reg.paper, started |-> reg.started,
                    live |-> reg.live]
          /\ {reg.best, reg.paper, reg.live} \subseteq Strategies /\ reg.started \in Int
      BY DEF LabTypes, Registries
    <2>3. \/ reg' = reg
          \/ reg' = [best |-> reg.best, paper |-> None, started |-> 0, live |-> reg.paper]
          \/ reg' = [best |-> reg.best, paper |-> None, started |-> 0, live |-> reg.live]
      BY <2>1, <2>2
    <2>4. reg' \in Registries
      BY <1>0, <2>2, <2>3 DEF Registries
    <2>5. QED
      BY <1>10, <2>4 DEF Validate, LabTypes
  <1>11. QED
    BY <1>1, <1>2, <1>3, <1>4, <1>5, <1>6, <1>7, <1>8, <1>9, <1>10 DEF Lab

LEMMA DogStepTypes ==
  ASSUME LabAssumption, LabTypes, Dog PROVE LabTypes'
  <1> USE DEF ToDog, diskVars, nodeVars, labVars, dogVars, pastVars
  <1>1. CASE DogReads
    BY <1>1 DEF DogReads, LabTypes
  <1>2. CASE DogLoads
    BY <1>2 DEF DogLoads, LabTypes
  <1>3. CASE DogMayRestart
    BY <1>3, LimitTypes DEF DogMayRestart, LabTypes
  <1>4. CASE DogFindsUp
    BY <1>4 DEF DogFindsUp, LabTypes
  <1>5. CASE DogRestarts
    <2>1. CASE Restart
      BY <1>5, <2>1, RestartTypes DEF DogRestarts, LabTypes
    <2>2. CASE RestartFails
      BY <1>5, <2>2 DEF DogRestarts, RestartFails, LabTypes
    <2>3. QED
      BY <1>5, <2>1, <2>2 DEF DogRestarts
  <1>6. CASE DogSaves
    BY <1>6 DEF DogSaves, LabTypes
  <1>7. QED
    BY <1>1, <1>2, <1>3, <1>4, <1>5, <1>6 DEF Dog

LEMMA StepTypes ==
  ASSUME LabAssumption, LabTypes, [LabNext]_brainVars PROVE LabTypes'
  <1> USE DEF diskVars, nodeVars, labVars, dogVars, pastVars
  <1>1. CASE Tick
    BY <1>1 DEF Tick, LabTypes
  <1>2. CASE NodeCrashes
    BY <1>2 DEF NodeCrashes, LabTypes
  <1>3. CASE Dies
    <2>1. NewSymbol \in Registries /\ NoLimit \in Limits
      BY DEF LabAssumption, NewSymbol, NoLimit, Registries, Limits, Strategies
    <2>2. QED
      BY <1>3, <2>1 DEF Dies, ToLab, ToDog, LabTypes
  <1>4. CASE UNCHANGED brainVars
    BY <1>4 DEF brainVars, LabTypes
  <1>5. QED
    BY <1>1, <1>2, <1>3, <1>4, LabStepTypes, DogStepTypes DEF LabNext

LEMMA TypesInvariant == LabSpec => []LabTypes
  <1>1. LabInit => LabTypes
    BY LabAssumption, InitTypes
  <1>2. LabTypes /\ [LabNext]_brainVars => LabTypes'
    BY LabAssumption, StepTypes
  <1>3. QED
    BY <1>1, <1>2, PTL DEF LabSpec

-----------------------------------------------------------------------------
\* The steps that touch neither the registry, nor the strategy thread, nor a
\* live strategy.
LEMMA OtherSteps ==
  ASSUME Tick \/ NodeCrashes \/ Dog \/ UNCHANGED brainVars
  PROVE  /\ UNCHANGED <<registry, overrides, lab, reg, promoted, aged>>
         /\ node' = node \/ node' = overrides
  <1> USE DEF diskVars, nodeVars, labVars, dogVars, pastVars
  <1>1. CASE Dog
    <2>1. CASE DogRestarts
      BY <2>1 DEF DogRestarts, Restart, RestartFails
    <2>2. QED
      BY <1>1, <2>1 DEF Dog, DogReads, DogLoads, DogMayRestart, DogFindsUp, DogSaves
  <1>2. QED
    BY <1>1 DEF Tick, NodeCrashes, brainVars

LEMMA StepPaper ==
  ASSUME LabTypes, PaperInv, [LabNext]_brainVars PROVE PaperInv'
  <1> USE DEF ToLab, diskVars, nodeVars, labVars, dogVars, pastVars
  <1>1. CASE LoadRegistry
    BY <1>1 DEF LoadRegistry, PaperInv
  <1>2. CASE RoundFails
    BY <1>2 DEF RoundFails, PaperInv
  <1>3. CASE WriteOverrides
    BY <1>3 DEF WriteOverrides, PaperInv
  <1>4. CASE CopyFails
    BY <1>4 DEF CopyFails, PaperInv
  <1>5. CASE SaveRegistry
    BY <1>5 DEF SaveRegistry, PaperInv
  <1>6. CASE LabMayRestart
    BY <1>6 DEF LabMayRestart, PaperInv
  <1>7. CASE LabRestarts
    BY <1>7 DEF LabRestarts, PaperInv
  <1>8. ASSUME NEW c \in Candidates, RunRound(c) PROVE PaperInv'
    BY <1>8 DEF RunRound, PaperInv, LabTypes, Registries
  <1>9. ASSUME NEW yes \in BOOLEAN, Promote(yes) PROVE PaperInv'
    BY <1>9 DEF Promote, PaperInv, LabTypes, Registries
  <1>10. ASSUME NEW yes \in BOOLEAN, Validate(yes) PROVE PaperInv'
    <2>1. reg' = reg \/ reg'.paper = None
      BY <1>10 DEF Validate, LabTypes, Registries
    <2>2. QED
      BY <1>10, <2>1 DEF Validate, PaperInv
  <1>11. CASE Dies
    BY <1>11 DEF Dies, PaperInv
  <1>12. CASE Tick \/ NodeCrashes \/ Dog \/ UNCHANGED brainVars
    BY <1>12, OtherSteps DEF PaperInv
  <1>13. QED
    BY <1>1, <1>2, <1>3, <1>4, <1>5, <1>6, <1>7, <1>8, <1>9, <1>10, <1>11, <1>12
       DEF LabNext, Lab

LEMMA StepLive ==
  ASSUME LabTypes, PaperInv, LiveInv, [LabNext]_brainVars PROVE LiveInv'
  <1> USE DEF ToLab, diskVars, nodeVars, labVars, dogVars, pastVars, Validated
  <1>1. CASE LoadRegistry
    BY <1>1 DEF LoadRegistry, LiveInv
  <1>2. CASE RoundFails
    BY <1>2 DEF RoundFails, LiveInv
  <1>3. CASE WriteOverrides
    BY <1>3 DEF WriteOverrides, Overrides, LiveInv
  <1>4. CASE CopyFails
    BY <1>4 DEF CopyFails, LiveInv
  <1>5. CASE SaveRegistry
    BY <1>5 DEF SaveRegistry, LiveInv
  <1>6. CASE LabMayRestart
    BY <1>6 DEF LabMayRestart, LiveInv
  <1>7. CASE LabRestarts
    BY <1>7 DEF LabRestarts, Restart, RestartFails, LiveInv
  <1>8. ASSUME NEW c \in Candidates, RunRound(c) PROVE LiveInv'
    BY <1>8 DEF RunRound, LiveInv, LabTypes, Registries
  <1>9. ASSUME NEW yes \in BOOLEAN, Promote(yes) PROVE LiveInv'
    BY <1>9 DEF Promote, LiveInv, LabTypes, Registries
  <1>10. ASSUME NEW gain \in BOOLEAN, Validate(gain) PROVE LiveInv'
    <2>1. aged \subseteq aged'
      BY <1>10 DEF Validate
    <2>2. reg'.live = reg.live \/ (Due /\ reg'.live = reg.paper)
      BY <1>10 DEF Validate, LabTypes, Registries
    <2>3. Due => reg.paper \in aged'
      <3>1. SUFFICES ASSUME Due PROVE reg.paper \in aged'
        OBVIOUS
      <3>2. now - promoted >= ValidateAge
        BY <1>10, <3>1 DEF Validate, Due, PaperInv
      <3>3. QED
        BY <1>10, <3>1, <3>2 DEF Validate, Due
    <2>4. UNCHANGED <<registry, overrides, node>>
      BY <1>10 DEF Validate
    <2>5. QED
      BY <2>1, <2>2, <2>3, <2>4 DEF LiveInv
  <1>11. CASE Dies
    BY <1>11 DEF Dies, NewSymbol, LiveInv
  <1>12. CASE Tick \/ NodeCrashes \/ Dog \/ UNCHANGED brainVars
    BY <1>12, OtherSteps DEF LiveInv
  <1>13. QED
    BY <1>1, <1>2, <1>3, <1>4, <1>5, <1>6, <1>7, <1>8, <1>9, <1>10, <1>11, <1>12
       DEF LabNext, Lab

\* Whatever stale registry is saved over a newer one, and wherever the brain ends,
\* a strategy is live only if it was found on paper a full validation period after
\* it was put there (strategy_lab.py, validate_paper).
THEOREM ValidationSafety == LabSpec => []LiveWasValidated
  <1>1. LabInit => PaperInv /\ LiveInv
    BY DEF LabInit, PaperInv, LiveInv, Validated, NewSymbol, Nothing
  <1>2. LabTypes /\ PaperInv /\ LiveInv /\ [LabNext]_brainVars => (PaperInv /\ LiveInv)'
    BY StepPaper, StepLive
  <1>3. LiveInv => LiveWasValidated
    BY DEF LiveInv, Validated, LiveWasValidated
  <1>4. QED
    BY <1>1, <1>2, <1>3, TypesInvariant, PTL DEF LabSpec

-----------------------------------------------------------------------------
\* What the node has run on paper, or a step for it has failed.
Tried == ran \cup skipped \cup {None}

\* A candidate is tried before the next cycle looks at it: from the write of the
\* overrides to the restart, the overrides are those of the candidate held.
RanInv ==
    /\ registry.live \in Tried /\ reg.live \in Tried
    /\ \/ registry.paper \in Tried
       \/ lab \in {"restart", "restarting"} /\ registry.paper = reg.paper
    /\ lab \in {"round", "promote"} => reg.paper \in Tried
    /\ lab = "validate" => reg.paper \in Tried \/ reg.started = now
    /\ lab \in {"save", "restart", "restarting"} =>
         reg.paper \in Tried \/ overrides.paper = reg.paper

\* What has been tried stays so.
LEMMA TriedGrows ==
  ASSUME [LabNext]_brainVars PROVE Tried \subseteq Tried'
  <1> USE DEF Skip, diskVars, nodeVars, labVars, dogVars, pastVars
  <1>1. CASE Lab
    BY <1>1 DEF Lab, LoadRegistry, RoundFails, WriteOverrides, CopyFails, SaveRegistry,
                LabMayRestart, LabRestarts, RunRound, Promote, Validate, Restart,
                RestartFails, Tried
  <1>2. CASE Dog
    BY <1>2 DEF Dog, DogReads, DogLoads, DogMayRestart, DogFindsUp, DogRestarts, DogSaves,
                Restart, RestartFails, Tried
  <1>3. QED
    BY <1>1, <1>2 DEF LabNext, Tick, NodeCrashes, Dies, brainVars, Tried

LEMMA StepRan ==
  ASSUME ValidateAge > 0, LabAssumption, LabTypes, RanInv, [LabNext]_brainVars PROVE RanInv'
  <1> USE DEF ToLab, diskVars, nodeVars, labVars, dogVars, pastVars
  <1>0. Tried \subseteq Tried'
    BY TriedGrows
  <1>1. CASE LoadRegistry
    BY <1>0, <1>1 DEF LoadRegistry, RanInv
  <1>2. CASE RoundFails
    BY <1>0, <1>2 DEF RoundFails, RanInv
  <1>3. CASE WriteOverrides
    BY <1>0, <1>3 DEF WriteOverrides, Overrides, Nothing, RanInv, Tried
  <1>4. CASE CopyFails
    <2>1. reg.paper \in Tried'
      BY <1>4 DEF CopyFails, Skip, Tried
    <2>2. QED
      BY <1>0, <1>4, <2>1 DEF CopyFails, RanInv
  <1>5. CASE SaveRegistry
    <2>1. lab' = "idle" => reg.paper = None
      BY <1>5 DEF SaveRegistry, Overrides, Nothing
    <2>2. QED
      BY <1>0, <1>5, <2>1 DEF SaveRegistry, RanInv, Tried
  <1>6. CASE LabMayRestart
    <2>1. lab' = "idle" => reg.paper \in Tried'
      BY <1>6 DEF LabMayRestart, Skip, Tried
    <2>2. QED
      BY <1>0, <1>6, <2>1 DEF LabMayRestart, RanInv
  <1>7. CASE LabRestarts
    <2>1. reg.paper \in Tried'
      <3>1. CASE Restart
        <4>1. overrides.paper \in Tried'
          BY <3>1 DEF Restart, Tried
        <4>2. QED
          BY <1>0, <1>7, <4>1 DEF LabRestarts, RanInv
      <3>2. CASE Skip
        BY <1>7, <3>2 DEF LabRestarts, Skip, Tried
      <3>3. QED
        BY <1>7, <3>1, <3>2 DEF LabRestarts
    <2>2. QED
      BY <1>0, <1>7, <2>1 DEF LabRestarts, RanInv
  <1>8. ASSUME NEW c \in Candidates, RunRound(c) PROVE RanInv'
    BY <1>0, <1>8 DEF RunRound, RanInv, LabTypes, Registries
  <1>9. ASSUME NEW better \in BOOLEAN, Promote(better) PROVE RanInv'
    <2>1. reg'.live = reg.live /\ (reg' = reg \/ reg'.started = now)
      BY <1>9 DEF Promote, LabTypes, Registries
    <2>2. QED
      BY <1>0, <1>9, <2>1 DEF Promote, RanInv
  <1>10. ASSUME NEW gain \in BOOLEAN, Validate(gain) PROVE RanInv'
    <2>1. reg'.live = reg.live \/ (Due /\ reg'.live = reg.paper)
      BY <1>10 DEF Validate, LabTypes, Registries
    <2>2. Due => reg.paper \in Tried
      BY <1>10 DEF Validate, Due, RanInv, LabTypes, LabAssumption
    <2>3. QED
      BY <1>0, <1>10, <2>1, <2>2 DEF Validate, RanInv
  <1>11. CASE Dies
    <2>1. lab # "idle" => reg.paper \in Tried'
      BY <1>11 DEF Dies, Skip, Tried
    <2>2. reg'.live = None /\ lab' = "idle"
      BY <1>11 DEF Dies, NewSymbol
    <2>3. None \in Tried'
      BY DEF Tried
    <2>4. QED
      BY <1>0, <1>11, <2>1, <2>2, <2>3 DEF Dies, RanInv
  <1>12. CASE Tick
    BY <1>0, <1>12 DEF Tick, RanInv
  <1>13. CASE NodeCrashes \/ Dog \/ UNCHANGED brainVars
    <2>1. UNCHANGED <<registry, overrides, lab, reg>>
      BY <1>13, OtherSteps
    <2>2. now' = now
      BY <1>13 DEF NodeCrashes, Dog, DogReads, DogLoads, DogMayRestart, DogFindsUp,
                   DogRestarts, DogSaves, brainVars
    <2>3. QED
      BY <1>0, <2>1, <2>2 DEF RanInv
  <1>14. QED
    BY <1>1, <1>2, <1>3, <1>4, <1>5, <1>6, <1>7, <1>8, <1>9, <1>10, <1>11, <1>12, <1>13
       DEF LabNext, Lab

\* With a validation period of any length, a strategy is promoted to live only if
\* the paper node has run it, or a step that would have made it run it failed, was
\* refused or was cut short (main.py, strategy_cycle).
THEOREM PaperRunSafety == ValidateAge > 0 => (LabSpec => []LiveRanAsPaper)
  <1> SUFFICES ASSUME ValidateAge > 0 PROVE LabSpec => []LiveRanAsPaper
    OBVIOUS
  <1>1. LabInit => RanInv
    BY DEF LabInit, RanInv, Tried, NewSymbol
  <1>2. LabTypes /\ RanInv /\ [LabNext]_brainVars => RanInv'
    BY LabAssumption, StepRan
  <1>3. RanInv => LiveRanAsPaper
    BY DEF RanInv, Tried, LiveRanAsPaper
  <1>4. QED
    BY <1>1, <1>2, <1>3, TypesInvariant, PTL DEF LabSpec

-----------------------------------------------------------------------------
\* Without a race the file of the limit tells of the last restart, and so does the
\* limit in memory once the watchdog has read the file; a restart under way is the
\* only one and has kept the distance.
SpacedInv ==
    ~raced =>
      /\ limitFile.last = restarts.last
      /\ dog \notin {"start", "first"} => limit.last = restarts.last
      /\ dog \in {"start", "first"} => lab = "idle"
      /\ lab = "restarting" \/ dog = "restarting" => now - restarts.last >= Cooldown
      /\ ~(lab = "restarting" /\ dog = "restarting")
      /\ restarts.last - restarts.before >= Cooldown

LEMMA StepSpaced ==
  ASSUME LabAssumption, LabTypes, SpacedInv, [LabNext]_brainVars PROVE SpacedInv'
  <1> USE DEF ToLab, ToDog, diskVars, nodeVars, labVars, dogVars, pastVars
  <1>1. CASE LabMayRestart
    <2>1. limit'.last = limit.last
      BY <1>1, LimitTypes DEF LabMayRestart
    <2>2. Allowed => now - limit.last >= Cooldown
      BY DEF Allowed
    <2>3. QED
      BY <1>1, <2>1, <2>2 DEF LabMayRestart, SpacedInv
  <1>2. CASE DogMayRestart
    <2>1. limit'.last = limit.last
      BY <1>2, LimitTypes DEF DogMayRestart
    <2>2. Allowed => now - limit.last >= Cooldown
      BY DEF Allowed
    <2>3. QED
      BY <1>2, <2>1, <2>2 DEF DogMayRestart, SpacedInv
  <1>3. CASE Restart /\ (LabRestarts \/ DogRestarts)
    <2>1. /\ limit'.last = now /\ limitFile'.last = now
          /\ restarts'.last = now /\ restarts'.before = restarts.last
      BY <1>3, LimitTypes DEF Restart
    <2>2. QED
      BY <1>3, <2>1 DEF LabRestarts, DogRestarts, SpacedInv, LabTypes
  <1>4. CASE RestartFails /\ (LabRestarts \/ DogRestarts)
    BY <1>4 DEF LabRestarts, DogRestarts, RestartFails, SpacedInv
  <1>5. CASE DogReads
    BY <1>5 DEF DogReads, SpacedInv
  <1>6. CASE DogLoads
    BY <1>6 DEF DogLoads, SpacedInv
  <1>7. CASE DogFindsUp
    BY <1>7 DEF DogFindsUp, SpacedInv
  <1>8. CASE DogSaves
    BY <1>8 DEF DogSaves, SpacedInv
  <1>9. CASE Tick
    BY <1>9 DEF Tick, SpacedInv, LabTypes, LabAssumption
  <1>10. CASE Dies
    BY <1>10 DEF Dies, SpacedInv
  <1>11. CASE LoadRegistry
    BY <1>11 DEF LoadRegistry, SpacedInv
  <1>12. CASE RoundFails \/ CopyFails \/ WriteOverrides \/ SaveRegistry
    BY <1>12 DEF RoundFails, CopyFails, WriteOverrides, SaveRegistry, SpacedInv
  <1>13. ASSUME NEW yes \in BOOLEAN, Promote(yes) \/ Validate(yes) PROVE SpacedInv'
    BY <1>13 DEF Promote, Validate, SpacedInv
  <1>14. ASSUME NEW c \in Candidates, RunRound(c) PROVE SpacedInv'
    BY <1>14 DEF RunRound, SpacedInv
  <1>15. CASE NodeCrashes \/ UNCHANGED brainVars
    BY <1>15 DEF NodeCrashes, brainVars, SpacedInv
  <1>16. QED
    BY <1>1, <1>2, <1>3, <1>4, <1>5, <1>6, <1>7, <1>8, <1>9, <1>10, <1>11, <1>12, <1>13,
       <1>14, <1>15 DEF LabNext, Lab, Dog, LabRestarts, DogRestarts

\* The two threads, and a brain that dies and reads its limits again, restart the
\* node at the distance of the cooldown, for any cooldown and any number of deaths,
\* unless they raced on the limit (repair.py, _load and _mark).
THEOREM SpacingSafety == LabSpec => []RestartsSpaced
  <1>1. LabInit => SpacedInv
    BY LabAssumption DEF LabInit, SpacedInv, NoLimit, LabAssumption
  <1>2. LabTypes /\ SpacedInv /\ [LabNext]_brainVars => SpacedInv'
    BY LabAssumption, StepSpaced
  <1>3. SpacedInv => RestartsSpaced
    BY DEF SpacedInv, RestartsSpaced
  <1>4. QED
    BY <1>1, <1>2, <1>3, TypesInvariant, PTL DEF LabSpec
=============================================================================
