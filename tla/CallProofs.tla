----------------------------- MODULE CallProofs -----------------------------
(***************************************************************************)
(* Proofs about ExchangeCalls: the bucket keeps its bounds although the    *)
(* threads that use it hold no lock, and a placement leaves one order at   *)
(* the venue at most, for any number of bots, retries and restarts.        *)
(*                                                                         *)
(* The second rests on the venue's refusal of a key it knows and on the    *)
(* retry that keeps its key.  What makes it inductive is what an order     *)
(* tells of the caller that is still at work on its placement: it carries  *)
(* that caller's key, so the next attempt is a duplicate.  The refinement  *)
(* of OneShotCall rests on the same invariant.                             *)
(***************************************************************************)
EXTENDS ExchangeCalls, TLAPS

States == {"idle", "clock", "elapsed", "refill", "settle", "call"} \cup Asleep

Active(c) == pc[c] # "idle"

\* The types, with what each thread has read of the bucket.
CallTypes ==
    /\ now \in Nat /\ tokens \in 0 .. Capacity /\ last \in 0 .. now
    /\ pc \in [Callers -> States]
    /\ read \in [Callers -> [now : Nat, elapsed : Nat, refilled : 0 .. Capacity]]
    /\ \A c \in Callers : read[c].now <= now
    /\ attempt \in [Callers -> 0 .. MaxRetries]
    /\ key \in [Callers -> Nat] /\ seq \in [Callers -> Nat]
    /\ placement \in [Callers -> Nat] /\ placements \in Nat
    /\ \A c \in Callers : placement[c] <= placements
    /\ \A o \in orders : o.placement \in 1 .. placements
    /\ \A c \in Callers : Active(c) => placement[c] > 0

\* Callers at work are at work on different placements, and an order of such a
\* placement is its caller's, under the key the caller has in hand.
PlacementInv ==
    /\ \A c, d \in Callers :
         Active(c) /\ Active(d) /\ placement[c] = placement[d] => c = d
    /\ \A c \in Callers, o \in orders :
         Active(c) /\ o.placement = placement[c] => o.bot = c /\ o.key = key[c]
    /\ OneOrderPerPlacement

-----------------------------------------------------------------------------
\* The product of a time and a rate, for the provers.
LEMMA ProductNat == ASSUME NEW a \in Nat, NEW b \in Nat PROVE a * b \in Nat
  BY SMT

\* A refill stays within the bucket.
LEMMA RefillBound ==
  ASSUME CallAssumption, tokens \in 0 .. Capacity, NEW e \in Nat
  PROVE  Refilled(e) \in 0 .. Capacity
  <1>1. RefillRate \in Nat /\ Capacity \in Nat
    BY DEF CallAssumption
  <1>2. e * RefillRate \in Nat
    BY <1>1, ProductNat
  <1> DEFINE added == e * RefillRate
  <1> HIDE DEF added
  <1>3. added \in Nat => LowerOf(Capacity, tokens + added) \in 0 .. Capacity
    BY <1>1 DEF LowerOf
  <1>4. QED
    BY <1>2, <1>3 DEF Refilled, added

\* The order an accepted placement leaves carries the caller's key and placement.
LEMMA AcceptTypes ==
  ASSUME CallTypes, NEW c \in Callers, Active(c), Accept(c), UNCHANGED placements
  PROVE  (\A o \in orders : o.placement \in 1 .. placements)'
  BY DEF CallTypes, Accept, Active

\* An accepted order is the first of its placement, and what is said of the
\* orders of the callers at work holds of it too.
LEMMA AcceptOne ==
  ASSUME CallTypes, PlacementInv, NEW c \in Callers, Active(c), ~Known(c), Accept(c)
  PROVE  /\ OneOrderPerPlacement'
         /\ \A d \in Callers, o \in orders' :
              Active(d) /\ o.placement = placement[d] => o.bot = d /\ o.key = key[d]
  <1> DEFINE new == [bot |-> c, key |-> key[c], placement |-> placement[c],
                     attempt |-> attempt[c]]
  <1>1. orders' = orders \cup {new}
    BY DEF Accept
  <1>2. new.bot = c /\ new.key = key[c] /\ new.placement = placement[c]
    OBVIOUS
  <1> HIDE DEF new
  <1>3. \A o \in orders : o.placement # placement[c]
    BY DEF PlacementInv, Known
  <1>4. OneOrderPerPlacement'
    BY <1>1, <1>2, <1>3 DEF PlacementInv, OneOrderPerPlacement
  <1>5. ASSUME NEW d \in Callers, NEW o \in orders', Active(d), o.placement = placement[d]
        PROVE  o.bot = d /\ o.key = key[d]
    <2>1. CASE o \in orders
      BY <1>5, <2>1 DEF PlacementInv
    <2>2. CASE o = new
      <3>1. d = c
        BY <1>2, <1>5, <2>2 DEF PlacementInv
      <3>2. QED
        BY <1>2, <2>2, <3>1
    <2>3. QED
      BY <1>1, <2>1, <2>2
  <1>6. QED
    BY <1>4, <1>5

\* A step that begins no placement, and after which whoever is at work was at work
\* before, keeps what the orders say if it leaves the orders alone.
LEMMA SameOrders ==
  ASSUME PlacementInv, UNCHANGED <<orders, key, placement>>,
         \A d \in Callers : Active(d)' => Active(d)
  PROVE  PlacementInv'
  BY DEF PlacementInv, OneOrderPerPlacement

\* The same if it accepts an order.
LEMMA MoreOrders ==
  ASSUME CallTypes, PlacementInv, UNCHANGED <<key, placement>>,
         \A d \in Callers : Active(d)' => Active(d),
         NEW c \in Callers, Active(c), ~Known(c), Accept(c)
  PROVE  PlacementInv'
  <1>1. /\ OneOrderPerPlacement'
        /\ \A d \in Callers, o \in orders' :
             Active(d) /\ o.placement = placement[d] => o.bot = d /\ o.key = key[d]
    BY AcceptOne
  <1>2. \A d, e \in Callers :
          Active(d) /\ Active(e) /\ placement[d] = placement[e] => d = e
    BY DEF PlacementInv
  <1>3. QED
    BY <1>1, <1>2 DEF PlacementInv

-----------------------------------------------------------------------------
LEMMA InitTypes == CallAssumption /\ Init => CallTypes
  BY DEF CallAssumption, Init, CallTypes, States, Asleep, NotRead, Active

\* The four steps of try_acquire and the sleep.
LEMMA BucketTypes ==
  ASSUME CallAssumption, CallTypes, NEW c \in Callers,
         ReadClock(c) \/ MeasureElapsed(c) \/ ComputeRefill(c) \/ Settle(c) \/ Waited(c)
  PROVE  CallTypes'
  <1> USE DEF Goto, bucketVars, callVars
  <1>1. CASE ReadClock(c)
    BY <1>1 DEF CallTypes, ReadClock, States, Active
  <1>2. CASE MeasureElapsed(c)
    <2>1. HigherOf(0, read[c].now - last) \in Nat
      BY DEF CallTypes, HigherOf
    <2>2. QED
      BY <1>2, <2>1 DEF CallTypes, MeasureElapsed, States, Active
  <1>3. CASE ComputeRefill(c)
    <2>1. Refilled(read[c].elapsed) \in 0 .. Capacity
      BY RefillBound DEF CallTypes
    <2>2. QED
      BY <1>3, <2>1 DEF CallTypes, ComputeRefill, States, Active
  <1>4. CASE Settle(c)
    <2>1. Capacity \in Nat
      BY DEF CallAssumption
    <2>2. /\ last' = read[c].now /\ now' = now
          /\ tokens' = read[c].refilled \/ (read[c].refilled >= 1 /\ tokens' = read[c].refilled - 1)
      BY <1>4 DEF Settle
    <2>3. tokens' \in 0 .. Capacity /\ last' \in 0 .. now'
      BY <2>1, <2>2 DEF CallTypes
    <2>4. pc' \in [Callers -> States]
      BY <1>4 DEF Settle, CallTypes, States, Asleep
    <2>5. /\ read' \in [Callers -> [now : Nat, elapsed : Nat, refilled : 0 .. Capacity]]
          /\ \A d \in Callers : read'[d].now <= now'
      BY <1>4, <2>1, <2>2 DEF Settle, CallTypes, NotRead
    <2>6. \A d \in Callers : Active(d)' => Active(d)
      BY <1>4 DEF Settle, CallTypes, Active
    <2>7. QED
      BY <1>4, <2>2, <2>3, <2>4, <2>5, <2>6 DEF Settle, CallTypes
  <1>5. CASE Waited(c)
    BY <1>5 DEF CallTypes, Waited, States, Active, Asleep
  <1>6. QED
    BY <1>1, <1>2, <1>3, <1>4, <1>5

\* The call, its outcomes and its retries.
LEMMA CallStepTypes ==
  ASSUME CallAssumption, CallTypes, NEW c \in Callers,
         Placed(c) \/ Refused(c) \/ Transient(c) \/ Retried(c)
  PROVE  CallTypes'
  <1> USE DEF Goto, bucketVars, callVars
  <1>1. CASE Placed(c)
    <2>1. (\A o \in orders : o.placement \in 1 .. placements)'
      BY <1>1, AcceptTypes DEF Placed, Active
    <2>2. QED
      BY <1>1, <2>1 DEF CallTypes, Placed, States, Active
  <1>2. CASE Refused(c)
    BY <1>2 DEF CallTypes, Refused, States, Active
  <1>3. CASE Transient(c)
    <2>1. (\A o \in orders : o.placement \in 1 .. placements)'
      <3>1. CASE Accept(c)
        BY <1>3, <3>1, AcceptTypes DEF Transient, Active
      <3>2. CASE UNCHANGED orders
        BY <1>3, <3>2 DEF Transient, CallTypes
      <3>3. QED
        BY <1>3, <3>1, <3>2 DEF Transient
    <2>2. QED
      BY <1>3, <2>1 DEF CallTypes, Transient, States, Active, Asleep
  <1>4. CASE Retried(c)
    <2>1. MaxRetries \in Nat /\ LowerOf(attempt[c] + 1, MaxRetries) \in 0 .. MaxRetries
      BY DEF CallAssumption, CallTypes, LowerOf
    <2>2. attempt' \in [Callers -> 0 .. MaxRetries] /\ UNCHANGED key
      BY <1>4, <2>1 DEF CallTypes, Retried, NextKey
    <2>3. pc' \in [Callers -> States] /\ \A d \in Callers : Active(d)' => Active(d)
      BY <1>4 DEF CallTypes, Retried, States, Active
    <2>4. QED
      BY <1>4, <2>2, <2>3 DEF CallTypes, Retried
  <1>5. QED
    BY <1>1, <1>2, <1>3, <1>4

LEMMA StepTypes ==
  ASSUME CallAssumption, CallTypes, [Next]_vars PROVE CallTypes'
  <1> USE DEF Goto, bucketVars, callVars
  <1>1. CASE Tick
    BY <1>1 DEF CallTypes, Tick, Active
  <1>2. CASE Restart
    <2>1. (\A o \in orders : o.placement \in 1 .. placements)'
      <3>1. CASE UNCHANGED orders
        BY <1>2, <3>1 DEF Restart, CallTypes
      <3>2. ASSUME NEW c \in Callers, pc[c] = "call", Accept(c)
            PROVE  (\A o \in orders : o.placement \in 1 .. placements)'
        BY <1>2, <3>2, AcceptTypes DEF Restart, Active
      <3>3. QED
        BY <1>2, <3>1, <3>2 DEF Restart
    <2>2. Capacity \in Nat
      BY DEF CallAssumption
    <2>3. QED
      BY <1>2, <2>1, <2>2 DEF CallTypes, Restart, States, Active, NotRead
  <1>3. ASSUME NEW c \in Callers, Place(c) PROVE CallTypes'
    <2>1. MaxRetries \in Nat \ {0}
      BY DEF CallAssumption
    <2>2. /\ seq' = [seq EXCEPT ![c] = seq[c] + 1] /\ placements' = placements + 1
          /\ key' = [key EXCEPT ![c] = seq'[c]]
          /\ placement' = [placement EXCEPT ![c] = placements']
          /\ attempt' = [attempt EXCEPT ![c] = 1]
          /\ pc' = [pc EXCEPT ![c] = "clock"]
          /\ UNCHANGED <<now, tokens, last, read, orders>>
      BY <1>3 DEF Place
    <2>3. seq' \in [Callers -> Nat] /\ key' \in [Callers -> Nat]
      BY <2>2 DEF CallTypes
    <2>4. /\ attempt' \in [Callers -> 0 .. MaxRetries] /\ pc' \in [Callers -> States]
          /\ placement' \in [Callers -> Nat] /\ placements' \in Nat
      BY <2>1, <2>2 DEF CallTypes, States
    <2>5. \A d \in Callers : placement'[d] <= placements' /\ (Active(d)' => placement'[d] > 0)
      BY <2>2 DEF CallTypes, Active
    <2>6. QED
      BY <2>2, <2>3, <2>4, <2>5 DEF CallTypes
  <1>4. ASSUME NEW c \in Callers, Step(c) PROVE CallTypes'
    BY <1>4, BucketTypes, CallStepTypes DEF Step
  <1>5. CASE UNCHANGED vars
    BY <1>5 DEF vars, CallTypes, Active
  <1>6. QED
    BY <1>1, <1>2, <1>3, <1>4, <1>5 DEF Next

-----------------------------------------------------------------------------
LEMMA StepPlacements ==
  ASSUME CallTypes, PlacementInv, [Next]_vars PROVE PlacementInv'
  <1> USE DEF Goto, bucketVars, callVars
  <1>1. CASE Tick
    BY <1>1, SameOrders DEF Tick, Active
  <1>2. CASE Restart
    <2>1. \A d \in Callers : ~Active(d)'
      BY <1>2 DEF Restart, Active
    <2>2. CASE UNCHANGED orders
      BY <1>2, <2>1, <2>2, SameOrders DEF Restart
    <2>3. ASSUME NEW c \in Callers, pc[c] = "call", ~Known(c), Accept(c) PROVE PlacementInv'
      BY <1>2, <2>1, <2>3, MoreOrders DEF Restart, Active
    <2>4. QED
      BY <1>2, <2>2, <2>3 DEF Restart
  <1>3. ASSUME NEW c \in Callers, Place(c) PROVE PlacementInv'
    <2>1. /\ placement' = [placement EXCEPT ![c] = placements + 1]
          /\ pc' = [pc EXCEPT ![c] = "clock"]
          /\ UNCHANGED orders
          /\ \A d \in Callers : d # c => key'[d] = key[d]
      BY <1>3 DEF Place, CallTypes
    <2>2. placement'[c] = placements + 1
          /\ \A d \in Callers : d # c => placement'[d] = placement[d] /\ (Active(d)' <=> Active(d))
      BY <2>1 DEF CallTypes, Active
    <2>3. \A d \in Callers : placement[d] # placements + 1
      BY DEF CallTypes
    <2>4. \A o \in orders : o.placement # placements + 1
      BY DEF CallTypes
    <2>5. ASSUME NEW d \in Callers, NEW e \in Callers, Active(d)', Active(e)',
                 placement'[d] = placement'[e]
          PROVE  d = e
      BY <2>2, <2>3, <2>5 DEF PlacementInv
    <2>6. ASSUME NEW d \in Callers, NEW o \in orders', Active(d)', o.placement = placement'[d]
          PROVE  o.bot = d /\ o.key = key'[d]
      BY <2>1, <2>2, <2>4, <2>6 DEF PlacementInv
    <2>7. OneOrderPerPlacement'
      BY <2>1 DEF PlacementInv, OneOrderPerPlacement
    <2>8. QED
      BY <2>5, <2>6, <2>7 DEF PlacementInv
  <1>4. ASSUME NEW c \in Callers, Step(c) PROVE PlacementInv'
    <2>1. CASE ReadClock(c)
      BY <2>1, SameOrders DEF ReadClock, CallTypes, Active
    <2>2. CASE MeasureElapsed(c)
      BY <2>2, SameOrders DEF MeasureElapsed, CallTypes, Active
    <2>3. CASE ComputeRefill(c)
      BY <2>3, SameOrders DEF ComputeRefill, CallTypes, Active
    <2>4. CASE Settle(c)
      BY <2>4, SameOrders DEF Settle, CallTypes, Active
    <2>5. CASE Waited(c)
      BY <2>5, SameOrders DEF Waited, CallTypes, Active
    <2>6. CASE Placed(c)
      BY <2>6, MoreOrders DEF Placed, CallTypes, Active
    <2>7. CASE Refused(c)
      BY <2>7, SameOrders DEF Refused, CallTypes, Active
    <2>8. CASE Transient(c)
      <3>1. (\A d \in Callers : Active(d)' => Active(d)) /\ Active(c) /\ UNCHANGED <<key, placement>>
        BY <2>8 DEF Transient, CallTypes, Active
      <3>2. CASE UNCHANGED orders
        BY <3>1, <3>2, SameOrders
      <3>3. CASE ~Known(c) /\ Accept(c)
        BY <3>1, <3>3, MoreOrders
      <3>4. QED
        BY <2>8, <3>2, <3>3 DEF Transient
    <2>9. CASE Retried(c)
      BY <2>9, SameOrders DEF Retried, NextKey, CallTypes, Active
    <2>10. QED
      BY <1>4, <2>1, <2>2, <2>3, <2>4, <2>5, <2>6, <2>7, <2>8, <2>9 DEF Step
  <1>5. CASE UNCHANGED vars
    BY <1>5, SameOrders DEF vars, Active
  <1>6. QED
    BY <1>1, <1>2, <1>3, <1>4, <1>5 DEF Next

-----------------------------------------------------------------------------
\* The bucket stays within its capacity and behind the clock whatever thread
\* is preempted inside try_acquire, and no attempt is made beyond the last
\* (rate_limiter.py, okx.py).
THEOREM CallTypeCorrect == Spec => []TypeOK
  <1>1. Init => CallTypes
    BY CallAssumption, InitTypes
  <1>2. CallTypes /\ [Next]_vars => CallTypes'
    BY CallAssumption, StepTypes
  <1>3. CallTypes => TypeOK
    BY DEF CallTypes, TypeOK
  <1>4. QED
    BY <1>1, <1>2, <1>3, PTL DEF Spec

LEMMA CallInvHolds == Spec => [](CallTypes /\ PlacementInv)
  <1>1. Init => CallTypes /\ PlacementInv
    <2>1. Init => PlacementInv
      BY DEF Init, PlacementInv, OneOrderPerPlacement, Active
    <2>2. QED
      BY <2>1, CallAssumption, InitTypes
  <1>2. CallTypes /\ PlacementInv /\ [Next]_vars => (CallTypes /\ PlacementInv)'
    BY CallAssumption, StepTypes, StepPlacements
  <1>3. QED
    BY <1>1, <1>2, PTL DEF Spec

\* However many times a placement is retried after a lost answer, and whatever
\* keys a restart repeats, it leaves one order at the venue at most (okx.py).
THEOREM PlacementSafety == Spec => []OneOrderPerPlacement
  <1>1. PlacementInv => OneOrderPerPlacement
    BY DEF PlacementInv
  <1>2. QED
    BY <1>1, CallInvHolds, PTL

-----------------------------------------------------------------------------
(***************************************************************************)
(* The adapter implements OneShotCall.                                     *)
(*                                                                         *)
(* A step of the bucket, of time and of a backoff does not show; what does *)
(* is a placement that begins, an order accepted (the first of its         *)
(* placement, by PlacementInv) and a call that ends.                       *)
(***************************************************************************)

InHand == [c \in Callers |-> IF pc[c] = "idle" THEN 0 ELSE placement[c]]
Taken == {[bot |-> o.bot, placement |-> o.placement, attempt |-> o.attempt] : o \in orders}

\* An order accepted in a call is the first of the placement in hand.
LEMMA AcceptIsFirst ==
  ASSUME CallTypes, PlacementInv, NEW c \in Callers, Active(c), ~Known(c), Accept(c)
  PROVE  OneShot!TakeFirst(c)
  <1>1. InHand[c] = placement[c] /\ InHand[c] # 0
    BY DEF InHand, CallTypes, Active
  <1>2. \A o \in orders : o.placement # placement[c]
    BY DEF PlacementInv, Known
  <1>3. \A o \in Taken : o.placement # InHand[c]
    BY <1>1, <1>2 DEF Taken
  <1>4. Taken' = Taken \cup {[bot |-> c, placement |-> InHand[c], attempt |-> attempt[c]]}
    <2> DEFINE Shown(o) == [bot |-> o.bot, placement |-> o.placement, attempt |-> o.attempt]
               new == [bot |-> c, key |-> key[c], placement |-> placement[c],
                       attempt |-> attempt[c]]
    <2>1. orders' = orders \cup {new}
      BY DEF Accept
    <2>2. Shown(new) = [bot |-> c, placement |-> InHand[c], attempt |-> attempt[c]]
      BY <1>1
    <2>3. Taken = {Shown(o) : o \in orders} /\ Taken' = {Shown(o) : o \in orders'}
      BY DEF Taken
    <2> HIDE DEF Shown, new
    <2>4. QED
      BY <2>1, <2>2, <2>3
  <1>5. attempt[c] \in 0 .. MaxRetries
    BY DEF CallTypes
  <1>6. QED
    BY <1>1, <1>3, <1>4, <1>5 DEF OneShot!TakeFirst, InHand, Taken

\* Nothing of the call shows.
LEMMA NothingShows ==
  ASSUME UNCHANGED <<orders, placement, placements>>,
         \A d \in Callers : Active(d)' <=> Active(d)
  PROVE  UNCHANGED OneShot!vars
  BY DEF OneShot!vars, Active

\* A step of one call: it accepts an order or not, it goes on or ends.
LEMMA CallAnswers ==
  ASSUME CallTypes, PlacementInv, NEW c \in Callers, Active(c),
         UNCHANGED <<placement, placements>>,
         \A d \in Callers \ {c} : pc'[d] = pc[d],
         UNCHANGED orders \/ (~Known(c) /\ Accept(c))
  PROVE  OneShot!Answer(c)
  <1>1. OneShot!TakeFirst(c) \/ Taken' = Taken
    BY AcceptIsFirst DEF Taken
  <1>2. CASE pc'[c] = "idle"
    <2>1. InHand' = [InHand EXCEPT ![c] = 0]
      BY <1>2 DEF InHand
    <2>2. QED
      BY <1>1, <2>1 DEF OneShot!Answer, OneShot!End, InHand, Taken
  <1>3. CASE pc'[c] # "idle"
    <2>1. InHand' = InHand
      BY <1>3 DEF InHand, Active
    <2>2. QED
      BY <1>1, <2>1 DEF OneShot!Answer, InHand, Taken
  <1>4. QED
    BY <1>2, <1>3

LEMMA StepIsOneShot ==
  ASSUME CallTypes, PlacementInv, [Next]_vars PROVE [OneShot!Next]_(OneShot!vars)
  <1> USE DEF Goto, bucketVars, callVars
  <1>1. CASE Tick
    BY <1>1, NothingShows DEF Tick, Active
  <1>2. CASE Restart
    <2>1. InHand' = [c \in Callers |-> 0] /\ UNCHANGED placements
      BY <1>2 DEF Restart, InHand
    <2>2. CASE UNCHANGED orders
      BY <2>1, <2>2 DEF OneShot!Next, OneShot!Die, InHand
    <2>3. ASSUME NEW c \in Callers, pc[c] = "call", ~Known(c), Accept(c)
          PROVE  OneShot!Next
      <3>1. OneShot!TakeFirst(c)
        BY <2>3, AcceptIsFirst DEF Active
      <3>2. QED
        BY <2>1, <3>1 DEF OneShot!Next, OneShot!Die, InHand
    <2>4. QED
      BY <1>2, <2>2, <2>3 DEF Restart
  <1>3. ASSUME NEW c \in Callers, Place(c) PROVE OneShot!Next
    <2>1. /\ pc[c] = "idle" /\ pc' = [pc EXCEPT ![c] = "clock"]
          /\ placement' = [placement EXCEPT ![c] = placements + 1]
          /\ placements' = placements + 1 /\ UNCHANGED orders
      BY <1>3 DEF Place
    <2>2. InHand[c] = 0
      BY <2>1 DEF InHand
    <2>3. InHand' = [InHand EXCEPT ![c] = placements + 1]
      BY <2>1 DEF InHand, CallTypes
    <2>4. OneShot!Begin(c)
      BY <2>1, <2>2, <2>3 DEF OneShot!Begin, InHand
    <2>5. QED
      BY <2>4 DEF OneShot!Next
  <1>4. ASSUME NEW c \in Callers, Step(c) PROVE [OneShot!Next]_(OneShot!vars)
    <2>1. CASE ReadClock(c) \/ MeasureElapsed(c) \/ ComputeRefill(c) \/ Settle(c) \/ Waited(c)
      <3>1. UNCHANGED <<orders, placement, placements>>
        BY <2>1 DEF ReadClock, MeasureElapsed, ComputeRefill, Settle, Waited
      <3>2. \A d \in Callers : Active(d)' <=> Active(d)
        BY <2>1 DEF ReadClock, MeasureElapsed, ComputeRefill, Settle, Waited, CallTypes, Active
      <3>3. QED
        BY <3>1, <3>2, NothingShows
    <2>2. CASE Placed(c) \/ Refused(c) \/ Transient(c) \/ Retried(c)
      <3>1. Active(c) /\ UNCHANGED <<placement, placements>>
        BY <2>2 DEF Placed, Refused, Transient, Retried, Active
      <3>2. \A d \in Callers \ {c} : pc'[d] = pc[d]
        BY <2>2 DEF Placed, Refused, Transient, Retried, CallTypes
      <3>3. UNCHANGED orders \/ (~Known(c) /\ Accept(c))
        BY <2>2 DEF Placed, Refused, Transient, Retried
      <3>4. OneShot!Answer(c)
        BY <3>1, <3>2, <3>3, CallAnswers
      <3>5. QED
        BY <3>4 DEF OneShot!Next
    <2>3. QED
      BY <1>4, <2>1, <2>2 DEF Step
  <1>5. CASE UNCHANGED vars
    BY <1>5, NothingShows DEF vars, Active
  <1>6. QED
    BY <1>1, <1>2, <1>3, <1>4, <1>5 DEF Next

\* Retries, lost answers, duplicate refusals, the races on the bucket and
\* restarts all show as a call that takes one order or none while it lasts, and
\* none afterwards: the single step by which BotTask places an order (okx.py).
THEOREM OneShotRefinement == Spec => ImplementsOneShot
  <1>1. Init => OneShot!Init
    BY DEF Init, OneShot!Init
  <1>2. CallTypes /\ PlacementInv /\ [Next]_vars => [OneShot!Next]_(OneShot!vars)
    BY StepIsOneShot
  <1>3. QED
    BY <1>1, <1>2, CallInvHolds, PTL DEF Spec, ImplementsOneShot, OneShot!Spec
=============================================================================
