---------------------------- MODULE ExchangeCalls ----------------------------
(***************************************************************************)
(* What an adapter makes of a call to the exchange:                        *)
(* denaro/infrastructure/exchanges/okx.py and kraken.py (_call) on the     *)
(* shared TokenBucket of denaro/infrastructure/rate_limiter.py, and the    *)
(* idempotency keys of BotTask.                                            *)
(*                                                                         *)
(* Each caller is a bot, whose calls run one at a time in a thread of the  *)
(* node's pool. The bucket has no lock: a thread can be preempted where    *)
(* try_acquire calls a function (the clock, max, min), so reading the      *)
(* clock, measuring what has elapsed, computing the refill and storing it  *)
(* are steps; the check and the decrement follow the store with no call in *)
(* between.                                                                *)
(*                                                                         *)
(* An operator XBug, defined before X, is X with a plausible coding error. *)
(***************************************************************************)
EXTENDS Integers, FiniteSets

CONSTANTS
    Callers,
    Capacity,       \* of the bucket
    RefillRate,     \* tokens per unit of time
    MaxRetries,     \* attempts of _call
    Backoff,        \* RETRY_BASE_S, in the same unit
    MaxDelay,       \* the longest sleep for a token: 5 s
    MaxTime,        \* bound: the clock; a sleep beyond it ends at it
    MaxPlacements,  \* bound: placements of all callers
    MaxRestarts     \* bound: restarts of the process

ASSUME CallAssumption ==
    /\ IsFiniteSet(Callers)
    /\ {Capacity, RefillRate, MaxRetries, Backoff} \subseteq Nat \ {0}
    /\ {MaxDelay, MaxTime, MaxPlacements, MaxRestarts} \subseteq Nat

VARIABLES
    now,
    tokens, last,   \* of the bucket
    pc,             \* where each caller is
    read,           \* the clock, the time elapsed and the refilled tokens of its
                    \* try_acquire
    wake,           \* when its sleep ends
    attempt,
    key,            \* the clOrdId of the placement in hand
    seq,            \* _id_seq of each bot, which is not persisted
    orders,         \* at the venue: each order with its bot, key and placement
    \* observers
    placement,      \* the placement in hand
    placements,     \* placements begun
    restarts

bucketVars == <<tokens, last>>
callVars == <<wake, attempt, key, seq, orders, placement, placements>>
vars == <<now, tokens, last, pc, read, wake, attempt, key, seq, orders, placement,
          placements, restarts>>

\* States in which _call sleeps.
Asleep == {"waiting", "backoff"}

NotRead == [now |-> 0, elapsed |-> 0, refilled |-> 0]

Init ==
    /\ now = 0 /\ tokens = Capacity /\ last = 0
    /\ pc = [c \in Callers |-> "idle"]
    /\ read = [c \in Callers |-> NotRead]
    /\ wake = [c \in Callers |-> 0] /\ attempt = [c \in Callers |-> 0]
    /\ key = [c \in Callers |-> 0] /\ placement = [c \in Callers |-> 0]
    /\ seq = [c \in Callers |-> 0] /\ orders = {}
    /\ placements = 0 /\ restarts = 0

Tick ==
    /\ now < MaxTime
    /\ now' = now + 1
    /\ UNCHANGED <<bucketVars, pc, read, callVars, restarts>>

LowerOf(a, b) == IF a <= b THEN a ELSE b
HigherOf(a, b) == IF a >= b THEN a ELSE b

Goto(c, where) == pc' = [pc EXCEPT ![c] = where]

\* A placement begins: _nuovo_client_order_id, then create_limit_order.
Place(c) ==
    /\ pc[c] = "idle" /\ placements < MaxPlacements
    /\ seq' = [seq EXCEPT ![c] = @ + 1] /\ placements' = placements + 1
    /\ key' = [key EXCEPT ![c] = seq'[c]]
    /\ placement' = [placement EXCEPT ![c] = placements']
    /\ attempt' = [attempt EXCEPT ![c] = 1]
    /\ Goto(c, "clock")
    /\ UNCHANGED <<now, bucketVars, read, wake, orders, restarts>>

-----------------------------------------------------------------------------
\* TokenBucket.try_acquire and wait_time.

\* time.time().
ReadClock(c) ==
    /\ pc[c] = "clock"
    /\ read' = [read EXCEPT ![c].now = now]
    /\ Goto(c, "elapsed")
    /\ UNCHANGED <<now, bucketVars, callVars, restarts>>

\* _refill, up to the max.
MeasureElapsed(c) ==
    /\ pc[c] = "elapsed"
    /\ read' = [read EXCEPT ![c].elapsed = HigherOf(0, read[c].now - last)]
    /\ Goto(c, "refill")
    /\ UNCHANGED <<now, bucketVars, callVars, restarts>>

RefilledBug(elapsed) == tokens + elapsed * RefillRate

\* _refill, up to the min.
Refilled(elapsed) == LowerOf(Capacity, tokens + elapsed * RefillRate)

ComputeRefill(c) ==
    /\ pc[c] = "refill"
    /\ read' = [read EXCEPT ![c].refilled = Refilled(read[c].elapsed)]
    /\ Goto(c, "settle")
    /\ UNCHANGED <<now, bucketVars, callVars, restarts>>

\* The refill is stored; a token is taken, or the caller sleeps for what
\* wait_time says (its own refill, right after, finds next to nothing to add).
Settle(c) ==
    /\ pc[c] = "settle"
    /\ last' = read[c].now
    /\ IF read[c].refilled >= 1
       THEN /\ tokens' = read[c].refilled - 1
            /\ Goto(c, "call")
            /\ UNCHANGED wake
       ELSE /\ tokens' = read[c].refilled
            /\ LET deficit == 1 - read[c].refilled
                   delay == (deficit + RefillRate - 1) \div RefillRate
               IN  wake' = [wake EXCEPT ![c] = LowerOf(now + LowerOf(delay, MaxDelay), MaxTime)]
            /\ Goto(c, "waiting")
    /\ read' = [read EXCEPT ![c] = NotRead]
    /\ UNCHANGED <<now, attempt, key, seq, orders, placement, placements, restarts>>

\* After the sleep the call goes out, and takes no token.
Waited(c) ==
    /\ pc[c] = "waiting" /\ now >= wake[c]
    /\ Goto(c, "call")
    /\ UNCHANGED <<now, bucketVars, read, callVars, restarts>>

-----------------------------------------------------------------------------
\* The call.

\* The venue takes an order whose key it has not seen, and refuses a duplicate.
Known(c) == \E o \in orders : o.bot = c /\ o.key = key[c]
Accept(c) ==
    orders' = orders \cup {[bot |-> c, key |-> key[c], placement |-> placement[c],
                            attempt |-> attempt[c]]}

\* The order is placed and the answer arrives.
Placed(c) ==
    /\ pc[c] = "call" /\ ~Known(c)
    /\ Accept(c)
    /\ Goto(c, "idle")
    /\ UNCHANGED <<now, bucketVars, read, wake, attempt, key, seq, placement, placements,
                   restarts>>

\* A permanent error: the venue refuses, a duplicate key for one.  That it knows the
\* key is an assumption on the venue: clOrdId is OKX's own parameter, and the
\* Kraken adapter sends the same one and trusts it to be taken for a key.
Refused(c) ==
    /\ pc[c] = "call"
    /\ Goto(c, "idle")
    /\ UNCHANGED <<now, bucketVars, read, callVars, restarts>>

AttemptsBug(c) == FALSE

\* The attempts are used up.
Attempts(c) == attempt[c] >= MaxRetries

NextKeyBug(c) == key' = [key EXCEPT ![c] = (MaxPlacements + 1) * attempt[c] + @]

\* The key of the next attempt: the one before.
NextKey(c) == UNCHANGED key

\* A transient error (a timeout, a 5xx, a rate limit): the order may have been
\* placed all the same.  The backoff comes before the check of the attempts.
Transient(c) ==
    /\ pc[c] = "call"
    /\ (~Known(c) /\ Accept(c)) \/ UNCHANGED orders
    /\ wake' = [wake EXCEPT ![c] = LowerOf(now + Backoff * 2 ^ (attempt[c] - 1), MaxTime)]
    /\ Goto(c, "backoff")
    /\ UNCHANGED <<now, bucketVars, read, attempt, key, seq, placement, placements, restarts>>

\* The next attempt, which asks the bucket again, or the transient error is raised.
Retried(c) ==
    /\ pc[c] = "backoff" /\ now >= wake[c]
    /\ IF Attempts(c)
       THEN Goto(c, "idle") /\ UNCHANGED <<attempt, key>>
       ELSE /\ attempt' = [attempt EXCEPT ![c] = LowerOf(@ + 1, MaxRetries)]
            /\ NextKey(c)
            /\ Goto(c, "clock")
    /\ UNCHANGED <<now, bucketVars, read, wake, seq, orders, placement, placements,
                   restarts>>

\* The process dies, with requests perhaps on their way, and starts again with a
\* full bucket and its keys from the first.
Restart ==
    /\ restarts < MaxRestarts
    /\ restarts' = restarts + 1
    /\ tokens' = Capacity /\ last' = now
    /\ pc' = [c \in Callers |-> "idle"]
    /\ seq' = [c \in Callers |-> 0]
    /\ \/ UNCHANGED orders
       \/ \E c \in Callers : pc[c] = "call" /\ ~Known(c) /\ Accept(c)
    /\ read' = [c \in Callers |-> NotRead]
    /\ UNCHANGED <<now, wake, attempt, key, placement, placements>>

Step(c) ==
    \/ ReadClock(c) \/ MeasureElapsed(c) \/ ComputeRefill(c) \/ Settle(c) \/ Waited(c)
    \/ Placed(c) \/ Refused(c) \/ Transient(c) \/ Retried(c)

Next == Tick \/ Restart \/ \E c \in Callers : Place(c) \/ Step(c)

Spec == Init /\ [][Next]_vars

\* Time goes on and the threads are scheduled; every call has a timeout.
FairSpec == Spec /\ WF_vars(Tick) /\ \A c \in Callers : WF_vars(Step(c))

-----------------------------------------------------------------------------
\* Properties.

\* Preempted refills included, the tokens stay within the capacity and the
\* bucket's clock behind the real one.
TypeOK ==
    /\ tokens \in 0 .. Capacity /\ last \in 0 .. now
    /\ \A c \in Callers : attempt[c] \in 0 .. MaxRetries
    /\ \A o \in orders : o.placement \in 1 .. placements

\* "fallire e' preferibile a duplicare": whatever is lost and retried, a
\* placement leaves one order at the venue at most.
OneOrderPerPlacement ==
    \A o, p \in orders : o.placement = p.placement => o = p

\* What BotTask takes for granted of a placement (OneShotCall): one order or none
\* while its call is in hand, none after it, whatever is lost, retried and refused.
OneShot == INSTANCE OneShotCall WITH
    Callers <- Callers,
    Tags <- 0 .. MaxRetries,
    inHand <- [c \in Callers |-> IF pc[c] = "idle" THEN 0 ELSE placement[c]],
    taken <- {[bot |-> o.bot, placement |-> o.placement, attempt |-> o.attempt] : o \in orders},
    begun <- placements
ImplementsOneShot == OneShot!Spec

\* A call ends: it returns or raises, whatever the venue answers.
CallsEnd == \A c \in Callers : pc[c] # "idle" ~> pc[c] = "idle"
=============================================================================
