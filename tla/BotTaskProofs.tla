---------------------------- MODULE BotTaskProofs ----------------------------
(***************************************************************************)
(* What is proved of BotTask for every value of its constants: its types,  *)
(* that a fill is booked once, that the policy knows of the position, that *)
(* live orders are in the books or asked to be canceled, and bounded, that *)
(* a stop-loss is final, that it implements OrderLedger, and two facts on  *)
(* amounts: no fill is lost, and no more is sold than bought, or so much   *)
(* more as failures and crashes account for.                               *)
(*                                                                         *)
(* Each part has its own invariant and its own hypotheses on the failures  *)
(* that may happen, stated where it begins.  The lemmas take the operators *)
(* first, then one group of actions at a time; the facts on records of     *)
(* States (GoodBooks) are proved once and cited, because the prover loses  *)
(* its way in nested EXCEPTs.                                              *)
(***************************************************************************)
EXTENDS BotTask, Functions, FiniteSetTheorems, WellFoundedInduction, TLAPS

(* The inductive form of TypeOK.  The venue's half adds that an id not yet *)
(* handed out carries nothing: without it, a new order might be born with  *)
(* more filled than it offers.                                             *)
VenueType ==
    /\ status \in [Ids -> {"none", "open", "closed", "canceled"}]
    /\ filled \in [Ids -> Nat] /\ amount \in [Ids -> Nat]
    /\ \A o \in Ids : filled[o] <= amount[o]
    /\ \A o \in Ids : status[o] = "none" => filled[o] = 0 /\ amount[o] = 0
    /\ free \in Nat

BotType ==
    /\ seen \in Nat \cup {NoBalance}
    /\ GoodBooks(st) /\ GoodBooks(disk)
    /\ booked \in [Ids -> Nat]
    /\ pc \in Pcs /\ plan \in Plans
    /\ openIds \subseteq Ids /\ todo \subseteq Ids /\ quotaSells \subseteq SellIds
    /\ rescued \in Nat /\ bought \in Nat /\ sold \in Nat /\ foreign \in Nat
    /\ asked \subseteq Ids
    /\ faults \in Nat /\ crashes \in Nat

FlagsType == paused \in BOOLEAN /\ policyIn \in BOOLEAN

IndType == VenueType /\ BotType

-----------------------------------------------------------------------------
(* The operators of the model keep the types                               *)

LEMMA NoPlanType == NoPlan \in Plans
BY DEF NoPlan, Plans

LEMMA FreshStateGood == GoodBooks(FreshState)
BY DEF GoodBooks, FreshState, States

LEMMA DropBuyType ==
    ASSUME NEW s, GoodBooks(s), NEW o
    PROVE  GoodBooks(DropBuy(s, o))
BY DEF GoodBooks, DropBuy, States

LEMMA DropSellType ==
    ASSUME NEW s, GoodBooks(s), NEW o
    PROVE  GoodBooks(DropSell(s, o))
BY DEF GoodBooks, DropSell, States

LEMMA EmptyBooksType ==
    ASSUME NEW s, GoodBooks(s)
    PROVE  GoodBooks(EmptyBooks(s))
BY DEF GoodBooks, EmptyBooks, States

LEMMA AfterStopType ==
    ASSUME NEW s, GoodBooks(s)
    PROVE  GoodBooks(AfterStop(s))
BY DEF GoodBooks, AfterStop, States

LEMMA AdoptType ==
    ASSUME NEW s, GoodBooks(s), NEW ids
    PROVE  GoodBooks(Adopt(s, ids))
BY DEF GoodBooks, Adopt, States

LEMMA ReconciledType ==
    ASSUME NEW s, GoodBooks(s)
    PROVE  GoodBooks(Reconciled(s))
BY DEF GoodBooks, Reconciled, States

LEMMA LoadedStateType ==
    ASSUME GoodBooks(disk)
    PROVE  GoodBooks(LoadedState)
BY FreshStateGood DEF GoodBooks, LoadedState, States

LEMMA BooksAreIds ==
    ASSUME NEW s, GoodBooks(s)
    PROVE  /\ s.buys \subseteq BuyIds /\ s.sells \subseteq SellIds
           /\ s.pos \in Nat /\ s.latched \in BOOLEAN
BY DEF GoodBooks, States

LEMMA LatchType ==
    ASSUME NEW s, GoodBooks(s)
    PROVE  /\ GoodBooks([s EXCEPT !.latched = TRUE])
           /\ GoodBooks([s EXCEPT !.latched = FALSE])
BY DEF GoodBooks, States

LEMMA PositionType ==
    ASSUME NEW s, GoodBooks(s), NEW p \in Nat
    PROVE  GoodBooks([s EXCEPT !.pos = p])
BY DEF GoodBooks, States

LEMMA NewBuyType ==
    ASSUME NEW s, GoodBooks(s), NEW o \in BuyIds
    PROVE  GoodBooks([s EXCEPT !.buys = @ \cup {o}])
BY DEF GoodBooks, States

LEMMA NewSellType ==
    ASSUME NEW s, GoodBooks(s), NEW o \in SellIds
    PROVE  /\ GoodBooks([s EXCEPT !.sells = @ \cup {o}])
           /\ GoodBooks([s EXCEPT !.sells = @ \cup {o}, !.tp = @ \cup {o}])
BY DEF GoodBooks, States

LEMMA GatedType ==
    ASSUME NEW p \in Plans
    PROVE  Gated(p) \in Plans
BY DEF Gated, Plans

LEMMA PlanOfType ==
    ASSUME GoodBooks(st), BotAssumption, NEW d \in Decisions, NEW snap \in BOOLEAN
    PROVE  PlanOf(d, snap) \in Plans
BY DEF PlanOf, Decisions, Plans, BotAssumption, GoodBooks, States

LEMMA LessToPlaceType ==
    ASSUME NEW p \in Plans
    PROVE  /\ p.place > 0 => [p EXCEPT !.place = p.place - 1] \in Plans
           /\ p.ladder > 0 => [p EXCEPT !.ladder = p.ladder - 1] \in Plans
BY DEF Plans

LEMMA LessToCancelType ==
    ASSUME NEW p \in Plans, NEW o
    PROVE  /\ [p EXCEPT !.cancel = p.cancel \ {o}] \in Plans
           /\ [p EXCEPT !.cancelSell = p.cancelSell \ {o}] \in Plans
BY DEF Plans

LEMMA AfterStopPlanType ==
    ASSUME NEW p \in Plans
    PROVE  [NoPlan EXCEPT !.snap = p.snap, !.cancel = p.cancel] \in Plans
<1>1. p.snap \in BOOLEAN /\ p.cancel \in SUBSET BuyIds
  BY DEF Plans
<1> QED
  BY <1>1 DEF Plans, NoPlan

-----------------------------------------------------------------------------
(* What the calls to the venue do to it                                    *)

LEMMA VenueUnchanged ==
    ASSUME VenueType, UNCHANGED venueVars
    PROVE  VenueType'
BY DEF VenueType, venueVars

LEMMA AcceptBuyType ==
    ASSUME VenueType, BotAssumption, NEW pool, NEW o \in Ids, IsNext(o, pool),
           AcceptBuy(o)
    PROVE  VenueType'
BY DEF VenueType, BotAssumption, AcceptBuy, IsNext

LEMMA AcceptSellType ==
    ASSUME VenueType, NEW pool, NEW o \in Ids, IsNext(o, pool),
           NEW a \in Nat, a <= free, AcceptSell(o, a)
    PROVE  VenueType'
BY DEF VenueType, AcceptSell, IsNext

LEMMA CancelAtVenueType ==
    ASSUME VenueType, NEW o \in Ids, CancelAtVenue(o)
    PROVE  VenueType'
<1>1. free' \in Nat
  BY DEF VenueType, CancelAtVenue
<1>2. status' \in [Ids -> {"none", "open", "closed", "canceled"}]
  BY DEF VenueType, CancelAtVenue
<1>3. \A p \in Ids : status'[p] = "none" => status[p] = "none"
  BY DEF VenueType, CancelAtVenue
<1> QED
  BY <1>1, <1>2, <1>3 DEF VenueType, CancelAtVenue

LEMMA CancelOutcomeType ==
    ASSUME VenueType, NEW o \in Ids, CancelOutcome(o)
    PROVE  VenueType'
BY CancelAtVenueType, VenueUnchanged DEF CancelOutcome

\* A sale at market: only the free units change, and they cover it.
LEMMA MarketSaleType ==
    ASSUME VenueType, NEW a \in 0..free, free' = free - a,
           UNCHANGED <<status, filled, amount>>
    PROVE  VenueType'
BY DEF VenueType

-----------------------------------------------------------------------------
LEMMA EnvironmentKeepsType ==
    ASSUME IndType,
           \/ Environment
           \/ Crash \/ \E o \in BuyIds : CrashInTakeProfit(o)
           \/ Boot \/ Persist
    PROVE  IndType'
<1> USE BotAssumption DEF venueVars, memVars, durVars, tickVars, obsVars,
     NoFault, Fault, IndType, BotType, Ids
<1>1. ASSUME NEW o \in Ids, VenueFill(o) PROVE IndType'
  <2>1. VenueType'
    BY <1>1 DEF VenueFill, VenueType, Live
  <2>2. BotType'
    BY <1>1 DEF VenueFill, VenueType
  <2> QED BY <2>1, <2>2 DEF IndType
<1>2. ASSUME NEW o \in Ids, VenueExpire(o) PROVE IndType'
  <2>1. VenueType'
    BY <1>2, CancelAtVenueType DEF VenueExpire
  <2>2. BotType'
    BY <1>2 DEF VenueExpire, CancelAtVenue
  <2> QED BY <2>1, <2>2 DEF IndType
<1>3. ASSUME Deposit PROVE IndType'
  <2>1. VenueType'
    BY <1>3 DEF Deposit, VenueType
  <2>2. BotType'
    BY <1>3 DEF Deposit
  <2> QED BY <2>1, <2>2 DEF IndType
<1>4. ASSUME SafeMode PROVE IndType'
  <2>1. VenueType'
    BY <1>4, VenueUnchanged DEF SafeMode
  <2>2. BotType'
    BY <1>4 DEF SafeMode
  <2> QED BY <2>1, <2>2 DEF IndType
<1>5. ASSUME Crash PROVE IndType'
  <2>1. VenueType'
    BY <1>5, VenueUnchanged DEF Crash
  <2>2. BotType'
    BY <1>5, BooksAreIds, FreshStateGood, NoPlanType DEF Crash,
       TickReset, NoBalance, Pcs
  <2> QED BY <2>1, <2>2 DEF IndType
<1>6. ASSUME NEW o \in Ids, CrashInTakeProfit(o) PROVE IndType'
  <2>1. PICK n \in SellIds : IsNext(n, SellIds) /\ free >= filled[o]
                               /\ AcceptSell(n, filled[o])
    BY <1>6 DEF CrashInTakeProfit
  <2>2. VenueType'
    <3>1. filled[o] \in Nat /\ filled[o] <= free
      BY <2>1 DEF VenueType
    <3> QED BY <2>1, <3>1, AcceptSellType
  <2>3. BotType'
    BY <1>6, <2>1, FreshStateGood, NoPlanType
       DEF CrashInTakeProfit, AcceptSell, TickReset, NoBalance, Pcs
  <2> QED BY <2>2, <2>3 DEF IndType
<1>7. ASSUME Boot PROVE IndType'
  <2>1. VenueType'
    BY <1>7, VenueUnchanged DEF Boot
  <2>2. /\ GoodBooks(LoadedState) /\ GoodBooks(Adopt(LoadedState, LiveIds))
        /\ GoodBooks(Reconciled(LoadedState))
        /\ GoodBooks(Reconciled(Adopt(LoadedState, LiveIds)))
    BY AdoptType, ReconciledType, LoadedStateType
  <2>3. /\ GoodBooks(st') /\ faults' \in {faults, faults + 1}
        /\ seen' \in {free, NoBalance}
    BY <1>7, <2>2 DEF Boot, SeenAtBoot
  <2>4. /\ pc' = "idle"
        /\ UNCHANGED <<disk, booked, plan, openIds, todo, rescued, quotaSells,
                       bought, sold, foreign, asked, crashes>>
    BY <1>7 DEF Boot
  <2>5. BotType'
    BY <2>3, <2>4 DEF Pcs, VenueType
  <2> QED BY <2>1, <2>5 DEF IndType
<1>8. ASSUME Persist PROVE IndType'
  <2>1. VenueType'
    BY <1>8, VenueUnchanged DEF Persist
  <2>2. BotType'
    BY <1>8, BooksAreIds, NoPlanType DEF Persist, TickReset,
       NoBalance, Pcs
  <2> QED BY <2>1, <2>2 DEF IndType
<1>9. ASSUME NEW o \in Ids, LeftoverSell(o) PROVE IndType'
  <2>1. VenueType'
    BY <1>9 DEF LeftoverSell, IsNext, VenueType
  <2>2. BotType'
    BY <1>9 DEF LeftoverSell
  <2> QED BY <2>1, <2>2 DEF IndType
<1> QED
  BY <1>1, <1>2, <1>3, <1>4, <1>5, <1>6, <1>7, <1>8, <1>9
     DEF Environment

LEMMA TickKeepsType ==
    ASSUME IndType,
           \/ TickBlocked \/ TickDecides
           \/ StopNotSold \/ StopReplyLost \/ StopSold
           \/ BeginFills1 \/ BuysDone \/ EndOfFills2
           \/ PreflightOk \/ PreflightBlocked \/ BeginFills2
    PROVE  IndType'
<1> USE BotAssumption DEF venueVars, memVars, durVars, tickVars, obsVars,
     NoFault, Fault, IndType, BotType, Ids
<1>1. ASSUME TickBlocked PROVE IndType'
  <2>1. VenueType'
    BY <1>1, VenueUnchanged DEF TickBlocked
  <2>2. BotType'
    BY <1>1, BooksAreIds DEF TickBlocked, Pcs
  <2> QED BY <2>1, <2>2 DEF IndType
<1>2. ASSUME TickDecides PROVE IndType'
  <2>1. VenueType'
    BY <1>2, VenueUnchanged DEF TickDecides
  <2>2. PICK snap \in BOOLEAN, d \in Decisions :
           /\ openIds' = IF snap THEN LiveIds ELSE {}
           /\ IF snap THEN NoFault ELSE Fault("fetch")
           /\ IF d.stop
              THEN /\ pc' = "stop" /\ todo' = st.sells
                   /\ plan' = PlanOf(d, snap)
              ELSE /\ pc' = "ladder" /\ todo' = {}
                   /\ plan' = Gated(PlanOf(d, snap))
    BY <1>2 DEF TickDecides
  <2>3. plan' \in Plans
    BY <2>2, PlanOfType, GatedType
  <2>4. /\ pc' \in Pcs /\ openIds' \subseteq Ids /\ todo' \subseteq Ids
        /\ faults' \in Nat
    BY <2>2, BooksAreIds DEF Pcs, LiveIds
  <2>5. /\ seen' \in Nat \cup {NoBalance} /\ GoodBooks(st') /\ GoodBooks(disk')
        /\ booked' = booked /\ quotaSells' = quotaSells /\ rescued' = rescued
        /\ asked' = asked
        /\ UNCHANGED <<bought, sold, foreign, crashes>>
    BY <1>2 DEF TickDecides, Shown, VenueType
  <2> QED BY <2>1, <2>3, <2>4, <2>5 DEF IndType
<1>3. ASSUME StopNotSold PROVE IndType'
  <2>1. VenueType'
    BY <1>3, VenueUnchanged DEF StopNotSold
  <2>2. BotType'
    BY <1>3, BooksAreIds, GatedType DEF StopNotSold, StopDone, Pcs
  <2> QED BY <2>1, <2>2 DEF IndType
<1>4. ASSUME StopReplyLost PROVE IndType'
  <2>1. VenueType'
    BY <1>4, MarketSaleType DEF StopReplyLost
  <2>2. BotType'
    BY <1>4, BooksAreIds, GatedType DEF StopReplyLost, StopDone,
       NoBalance, Pcs, VenueType
  <2> QED BY <2>1, <2>2 DEF IndType
<1>5. ASSUME StopSold PROVE IndType'
  <2>1. VenueType'
    BY <1>5, MarketSaleType DEF StopSold
  <2>2. GoodBooks(st')
    BY <1>5, AfterStopType DEF StopSold
  <2>3. plan' \in Plans
    BY <1>5, AfterStopPlanType DEF StopSold
  <2>4. BotType'
    BY <1>5, <2>2, <2>3
       DEF StopSold, StopDone, NoBalance, Pcs, VenueType
  <2> QED BY <2>1, <2>4 DEF IndType
<1>6. ASSUME BeginFills1 PROVE IndType'
  <2>1. VenueType'
    BY <1>6, VenueUnchanged DEF BeginFills1, FillsBegin
  <2>2. FillsBegin("buys1", plan.snap)
    BY <1>6 DEF BeginFills1
  <2>3. openIds' \subseteq Ids
    BY <2>2 DEF FillsBegin, LiveIds
  <2>4. BotType'
    BY <2>2, <2>3, BooksAreIds DEF FillsBegin, Unresolved, Pcs
  <2> QED BY <2>1, <2>4 DEF IndType
<1>7. ASSUME BuysDone PROVE IndType'
  <2>1. VenueType'
    BY <1>7, VenueUnchanged DEF BuysDone
  <2>2. BotType'
    BY <1>7, BooksAreIds DEF BuysDone, InBuys, Unresolved, Pcs
  <2> QED BY <2>1, <2>2 DEF IndType
<1>8. ASSUME EndOfFills2 PROVE IndType'
  <2>1. VenueType'
    BY <1>8, VenueUnchanged DEF EndOfFills2
  <2>2. BotType'
    BY <1>8, BooksAreIds DEF EndOfFills2, SellsDone, InSells, Pcs
  <2> QED BY <2>1, <2>2 DEF IndType
<1>9. ASSUME PreflightOk PROVE IndType'
  <2>1. VenueType'
    BY <1>9, VenueUnchanged DEF PreflightOk
  <2>2. BotType'
    BY <1>9, BooksAreIds DEF PreflightOk, SellsDone, InSells, Pcs
  <2> QED BY <2>1, <2>2 DEF IndType
<1>10. ASSUME PreflightBlocked PROVE IndType'
  <2>1. VenueType'
    BY <1>10 DEF PreflightBlocked, SellsDone, InSells, VenueType,
       Live
  <2>2. PICK S \in SUBSET BuyIds : st' = [st EXCEPT !.buys = @ \ S]
                                   /\ asked' = asked \cup S
    BY <1>10 DEF PreflightBlocked
  <2>3. GoodBooks(st')
    BY <2>2 DEF GoodBooks, States
  <2>4. BotType'
    BY <1>10, <2>2, <2>3 DEF PreflightBlocked, SellsDone, InSells, Pcs
  <2> QED BY <2>1, <2>4 DEF IndType
<1>11. ASSUME BeginFills2 PROVE IndType'
  <2>1. VenueType'
    BY <1>11, VenueUnchanged DEF BeginFills2, FillsBegin
  <2>2. BotType'
    BY <1>11, BooksAreIds DEF BeginFills2, ExecReady, FillsBegin,
       LiveIds, Unresolved, Pcs
  <2> QED BY <2>1, <2>2 DEF IndType
<1> QED
  BY <1>1, <1>2, <1>3, <1>4, <1>5, <1>6, <1>7, <1>8, <1>9, <1>10, <1>11

LEMMA OrderStepKeepsType ==
    ASSUME IndType, NEW o \in Ids, OrderStep(o)
    PROVE  IndType'
<1> USE BotAssumption DEF venueVars, memVars, durVars, tickVars, obsVars,
     NoFault, Fault, IndType, BotType, Ids
<1>1. ASSUME StopCancel(o) PROVE IndType'
  <2>1. VenueType'
    BY <1>1, CancelOutcomeType DEF StopCancel
  <2>2. BotType'
    <3>1. GoodBooks(st')
      BY <1>1, DropSellType DEF StopCancel
    <3>2. asked' \subseteq Ids /\ todo' \subseteq Ids
      BY <1>1 DEF StopCancel
    <3> QED
      BY <1>1, <3>1, <3>2 DEF StopCancel, CancelOutcome, CancelAtVenue
  <2> QED BY <2>1, <2>2 DEF IndType
<1>2. ASSUME CancelLadder(o) PROVE IndType'
  <2>1. VenueType'
    BY <1>2, CancelOutcomeType DEF CancelLadder
  <2>2. GoodBooks(st') /\ plan' \in Plans
    BY <1>2, DropSellType, LessToCancelType DEF CancelLadder
  <2>3. BotType'
    BY <1>2, <2>2 DEF CancelLadder, CancelOutcome, CancelAtVenue
  <2> QED BY <2>1, <2>3 DEF IndType
<1>3. ASSUME PlaceLadder(o) PROVE IndType'
  <2>1. VenueType'
    BY <1>3, AcceptSellType, VenueUnchanged DEF PlaceLadder
  <2>2. GoodBooks(st')
    <3>1. o \in SellIds
      BY <1>3 DEF PlaceLadder, IsNext
    <3>2. st' = [st EXCEPT !.sells = @ \cup {o}] \/ st' = st
      BY <1>3 DEF PlaceLadder
    <3>3. GoodBooks([st EXCEPT !.sells = @ \cup {o}])
      BY <3>1, NewSellType
    <3> QED BY <3>2, <3>3
  <2>3. plan' \in Plans
    BY <1>3, LessToPlaceType DEF PlaceLadder
  <2>4. BotType'
    BY <1>3, <2>2, <2>3 DEF PlaceLadder, LadderReady, AcceptSell
  <2> QED BY <2>1, <2>4 DEF IndType
<1>4. ASSUME BuyNotFilled(o) PROVE IndType'
  <2>1. VenueType'
    BY <1>4, VenueUnchanged DEF BuyNotFilled
  <2>2. BotType'
    BY <1>4, BooksAreIds, DropBuyType DEF BuyNotFilled, InBuys
  <2> QED BY <2>1, <2>2 DEF IndType
<1>5. ASSUME BuyBecomesPosition(o) PROVE IndType'
  <2>1. VenueType'
    BY <1>5, VenueUnchanged DEF BuyBecomesPosition
  <2>2. BotType'
    BY <1>5, BooksAreIds, DropBuyType, PositionType DEF
       BuyBecomesPosition, InBuys, Book, VenueType
  <2> QED BY <2>1, <2>2 DEF IndType
<1>6. ASSUME BuySendsTakeProfit(o) PROVE IndType'
  <2>1. filled[o] \in Nat
    BY DEF VenueType
  <2>2. UNCHANGED <<disk, pc, plan, openIds, rescued, quotaSells, bought, sold,
                    foreign, asked, crashes>> /\ todo' \subseteq Ids
    BY <1>6 DEF BuySendsTakeProfit
  <2>3. ASSUME NEW n \in SellIds, IsNext(n, SellIds), free >= filled[o],
               AcceptSell(n, filled[o]), NoFault, Book(o),
               st' = [DropBuy(st, o) EXCEPT !.sells = @ \cup {n},
                                            !.tp = @ \cup {n}]
        PROVE  IndType'
    <3>1. VenueType'
      BY <2>1, <2>3, AcceptSellType DEF VenueType
    <3>2. GoodBooks(st')
      BY <2>3, DropBuyType, NewSellType
    <3>3. BotType'
      BY <2>2, <2>3, <3>2 DEF AcceptSell, Book
    <3> QED BY <3>1, <3>3
  <2>4. ASSUME NEW n \in SellIds, IsNext(n, SellIds), free >= filled[o],
               AcceptSell(n, filled[o]), Fault("reply"),
               st' = DropBuy(st, o), UNCHANGED booked
        PROVE  IndType'
    <3>1. VenueType'
      BY <2>1, <2>4, AcceptSellType DEF VenueType
    <3>2. GoodBooks(st')
      BY <2>4, DropBuyType
    <3>3. BotType'
      BY <2>2, <2>4, <3>2 DEF AcceptSell
    <3> QED BY <3>1, <3>3
  <2>5. ASSUME NoFault \/ Fault("send"), st' = DropBuy(st, o),
               UNCHANGED <<venueVars, seen, booked>>
        PROVE  IndType'
    <3>1. VenueType'
      BY <2>5, VenueUnchanged
    <3>2. GoodBooks(st')
      BY <2>5, DropBuyType
    <3>3. BotType'
      BY <2>2, <2>5, <3>2
    <3> QED BY <3>1, <3>3
  <2> QED BY <1>6, <2>3, <2>4, <2>5 DEF BuySendsTakeProfit
<1>7. ASSUME ResolveSell(o) PROVE IndType'
  <2>1. VenueType'
    BY <1>7, VenueUnchanged DEF ResolveSell
  <2>2. BotType'
    BY <1>7, BooksAreIds, DropSellType DEF ResolveSell, InSells,
       Book
  <2> QED BY <2>1, <2>2 DEF IndType
<1>8. ASSUME CancelBuy(o) PROVE IndType'
  <2>1. VenueType'
    BY <1>8, CancelAtVenueType, VenueUnchanged DEF CancelBuy
  <2>2. GoodBooks(st')
    BY <1>8, DropBuyType DEF CancelBuy
  <2>3. plan' \in Plans /\ plan.cancel \subseteq BuyIds
    <3>1. plan.cancel \subseteq BuyIds
      BY DEF Plans
    <3> QED BY <1>8, <3>1, LessToCancelType DEF CancelBuy
  <2>4. BotType'
    BY <1>8, <2>2, <2>3 DEF CancelBuy, CancelAtVenue
  <2> QED BY <2>1, <2>4 DEF IndType
<1>9. ASSUME PlaceBuy(o) PROVE IndType'
  <2>1. VenueType'
    BY <1>9, AcceptBuyType, VenueUnchanged DEF PlaceBuy
  <2>2. GoodBooks(st')
    BY <1>9, NewBuyType DEF PlaceBuy, IsNext
  <2>3. plan' \in Plans
    BY <1>9, LessToPlaceType DEF PlaceBuy
  <2>4. BotType'
    BY <1>9, <2>2, <2>3 DEF PlaceBuy, ExecReady, AcceptBuy
  <2> QED BY <2>1, <2>4 DEF IndType
<1>10. ASSUME SlResolve(o) PROVE IndType'
  <2>1. VenueType'
    BY <1>10, VenueUnchanged DEF SlResolve
  <2>2. GoodBooks(st')
    BY <1>10, DropBuyType DEF SlResolve
  <2>3. booked' \in [Ids -> Nat] /\ rescued' \in Nat
    BY <1>10 DEF SlResolve, Book, VenueType
  <2>4. BotType'
    BY <1>10, <2>2, <2>3 DEF SlResolve
  <2> QED BY <2>1, <2>4 DEF IndType
<1>11. ASSUME SlCancel(o) PROVE IndType'
  <2>1. VenueType'
    BY <1>11, CancelOutcomeType DEF SlCancel
  <2>2. faults' \in Nat
    BY <1>11 DEF SlCancel, CancelOutcome
  <2>3. asked' \subseteq Ids /\ todo' \subseteq Ids
    BY <1>11 DEF SlCancel
  <2>4. BotType'
    BY <1>11, <2>2, <2>3 DEF SlCancel
  <2> QED BY <2>1, <2>4 DEF IndType
<1> QED
  BY <1>1, <1>2, <1>3, <1>4, <1>5, <1>6, <1>7, <1>8, <1>9, <1>10, <1>11
     DEF OrderStep

LEMMA StopLossKeepsType ==
    ASSUME IndType, StopLossTrips \/ SlPhotograph \/ SlNotSold \/ SlSold
    PROVE  IndType'
<1> USE BotAssumption DEF venueVars, memVars, durVars, tickVars, obsVars,
     NoFault, Fault, IndType, BotType, Ids
<1>1. ASSUME StopLossTrips PROVE IndType'
  <2>1. VenueType'
    BY <1>1, VenueUnchanged DEF StopLossTrips
  <2>2. GoodBooks(st')
    BY <1>1, LatchType DEF StopLossTrips
  <2>3. BotType'
    BY <1>1, <2>2, BooksAreIds
       DEF StopLossTrips, Shown, NoBalance, Pcs, VenueType
  <2> QED BY <2>1, <2>3 DEF IndType
<1>2. ASSUME SlPhotograph PROVE IndType'
  <2>1. VenueType'
    BY <1>2, VenueUnchanged DEF SlPhotograph
  <2>2. BotType'
    BY <1>2, BooksAreIds DEF SlPhotograph, Pcs
  <2> QED BY <2>1, <2>2 DEF IndType
<1>3. ASSUME SlNotSold PROVE IndType'
  <2>1. VenueType'
    BY <1>3, VenueUnchanged DEF SlNotSold
  <2>2. GoodBooks(st')
    BY <1>3, EmptyBooksType, LatchType DEF SlNotSold
  <2>3. BotType'
    BY <1>3, <2>2 DEF SlNotSold, SlCanceled, Pcs
  <2> QED BY <2>1, <2>3 DEF IndType
<1>4. ASSUME SlSold PROVE IndType'
  <2>1. VenueType'
    BY <1>4, MarketSaleType DEF SlSold
  <2>2. GoodBooks(st')
    BY <1>4, EmptyBooksType, LatchType DEF SlSold
  <2>3. BotType'
    BY <1>4, <2>2
       DEF SlSold, SlCanceled, NoBalance, Pcs, VenueType
  <2> QED BY <2>1, <2>3 DEF IndType
<1> QED
  BY <1>1, <1>2, <1>3, <1>4

LEMMA InitType == Init => IndType /\ FlagsType
<1> SUFFICES ASSUME Init PROVE IndType /\ FlagsType
  OBVIOUS
<1>1. VenueType
  BY DEF Init, VenueType
<1>2. GoodBooks(st) /\ GoodBooks(disk)
  BY DEF Init, FreshState, GoodBooks, States
<1>3. plan \in Plans
  BY NoPlanType DEF Init
<1>4. BotType
  BY <1>2, <1>3 DEF Init, BotType, Pcs, NoBalance
<1> QED
  BY <1>1, <1>4 DEF IndType, FlagsType, Init

\* Truth values only ever come from constants, negations and disjunctions.
LEMMA NextKeepsFlags ==
    ASSUME FlagsType, Next
    PROVE  FlagsType'
<1> USE DEF FlagsType, memVars
<1>1. ASSUME Environment PROVE FlagsType'
  BY <1>1 DEF Environment, VenueFill, VenueExpire, LeftoverSell, Deposit,
     SafeMode
<1>2. ASSUME Crash \/ \E o \in BuyIds : CrashInTakeProfit(o)
      PROVE  FlagsType'
  BY <1>2 DEF Crash, CrashInTakeProfit
<1>3. ASSUME NEW o \in Ids, OrderStep(o) PROVE FlagsType'
  BY <1>3 DEF OrderStep, StopCancel, CancelLadder, PlaceLadder, BuyNotFilled,
     BuyBecomesPosition, BuySendsTakeProfit, ResolveSell, CancelBuy, PlaceBuy,
     SlResolve, SlCancel
<1>4. ASSUME Boot \/ Persist \/ TickBlocked \/ TickDecides
      PROVE  FlagsType'
  <2>1. CASE Boot
    BY <2>1 DEF Boot, Restored
  <2>2. CASE TickDecides
    BY <2>2 DEF TickDecides
  <2> QED
    BY <1>4, <2>1, <2>2 DEF Persist, TickBlocked
<1>5. ASSUME \/ StopNotSold \/ StopReplyLost \/ StopSold \/ BeginFills1
             \/ BuysDone \/ EndOfFills2 \/ PreflightOk \/ PreflightBlocked
             \/ BeginFills2
      PROVE  FlagsType'
  BY <1>5 DEF StopNotSold, StopReplyLost, StopSold, BeginFills1, BuysDone,
     EndOfFills2, PreflightOk, PreflightBlocked, BeginFills2, FillsBegin
<1>6. ASSUME StopLossTrips \/ SlPhotograph \/ SlNotSold \/ SlSold
      PROVE  FlagsType'
  BY <1>6 DEF StopLossTrips, SlPhotograph, SlNotSold, SlSold
<1> QED
  BY <1>1, <1>2, <1>3, <1>4, <1>5, <1>6 DEF Next, BotStep

LEMMA NextKeepsType ==
    ASSUME IndType, [Next]_vars
    PROVE  IndType'
<1>1. CASE UNCHANGED vars
  <2>1. VenueType'
    BY <1>1, VenueUnchanged DEF vars, IndType
  <2>2. BotType'
    BY <1>1 DEF vars, IndType, BotType, memVars, durVars, tickVars, obsVars
  <2> QED
    BY <2>1, <2>2 DEF IndType
<1>2. CASE \/ Environment
           \/ Crash \/ \E o \in BuyIds : CrashInTakeProfit(o)
           \/ Boot \/ Persist
  BY <1>2, EnvironmentKeepsType
<1>3. CASE \/ TickBlocked \/ TickDecides
           \/ StopNotSold \/ StopReplyLost \/ StopSold
           \/ BeginFills1 \/ BuysDone \/ EndOfFills2
           \/ PreflightOk \/ PreflightBlocked \/ BeginFills2
  BY <1>3, TickKeepsType
<1>4. CASE \E o \in Ids : OrderStep(o)
  BY <1>4, OrderStepKeepsType
<1>5. CASE StopLossTrips \/ SlPhotograph \/ SlNotSold \/ SlSold
  BY <1>5, StopLossKeepsType
<1> QED
  BY <1>1, <1>2, <1>3, <1>4, <1>5 DEF Next, BotStep

LEMMA IndTypeImpliesTypeOK == IndType /\ FlagsType => TypeOK
BY DEF IndType, VenueType, BotType, FlagsType, TypeOK

LEMMA InductiveTypes == Spec => [](IndType /\ FlagsType)
<1>1. IndType /\ FlagsType /\ [Next]_vars => (IndType /\ FlagsType)'
  <2>1. FlagsType /\ UNCHANGED vars => FlagsType'
    BY DEF FlagsType, vars, memVars
  <2> QED
    BY <2>1, NextKeepsType, NextKeepsFlags
<1> QED
  BY <1>1, InitType, PTL DEF Spec

\* Every variable keeps its type, and the dictionaries of the state file and of
\* the memory agree with each other, through every interleaving of ticks,
\* fills, failures and crashes.
THEOREM TypeCorrect == Spec => []TypeOK
BY InductiveTypes, IndTypeImpliesTypeOK, PTL

-----------------------------------------------------------------------------
(***************************************************************************)
(* A fill is booked in the journal at most once per life of the process,   *)
(* whatever fails and whatever the constants are.                          *)
(*                                                                         *)
(* BookedOncePerLife is not inductive: it says nothing of what the bot may *)
(* still book.  The invariant adds that an order the bot can still book in *)
(* this life has not been booked in it, which holds for the tracked orders *)
(* and for the loop the tick is in.  The stop-loss is the exception: it    *)
(* books a partly filled buy and keeps it until it has canceled it, so the *)
(* buys of the book are not bookable while it runs, and it must drop them  *)
(* all before it ends.                                                     *)
(***************************************************************************)
Bookable(o) == booked[o] <= crashes

BookInv ==
    /\ BookedOncePerLife
    /\ pc = "down" => \A o \in Ids : Bookable(o)
    /\ \A o \in Ids : status[o] = "none" => booked[o] = 0
    /\ \A o \in st.sells : Bookable(o)
    /\ pc \notin {"slBuys", "slCancel"} => \A o \in st.buys : Bookable(o)
    /\ pc \in {"buys1", "buys2", "slBuys"} => todo \subseteq BuyIds
    /\ pc \in {"sells1", "sells2"} => todo \subseteq SellIds
    /\ pc \in {"buys1", "buys2", "slBuys", "sells1", "sells2"} =>
         \A o \in todo : Bookable(o)

\* What the argument needs of the types.
BookType ==
    /\ booked \in [Ids -> Nat] /\ crashes \in Nat
    /\ status \in [Ids -> {"none", "open", "closed", "canceled"}]
    /\ \A o \in Ids : status[o] = "none" => filled[o] = 0
    /\ st \in States

LEMMA IndTypeGivesBookType == IndType => BookType
BY DEF IndType, VenueType, BotType, GoodBooks, BookType

LEMMA InitBookInv == Init => BookInv
BY BotAssumption DEF Init, BookInv, BookedOncePerLife, Bookable, FreshState

LEMMA EnvironmentKeepsBookInv ==
    ASSUME BookType, BookType', BookInv,
           \/ Environment
           \/ Crash \/ \E o \in BuyIds : CrashInTakeProfit(o)
           \/ Boot \/ Persist
    PROVE  BookInv'
<1> USE BotAssumption DEF BookType, BookInv, BookedOncePerLife,
     Bookable, venueVars, memVars, durVars, tickVars, NoFault, Fault, Ids
<1>1. ASSUME NEW o \in Ids, VenueFill(o) PROVE BookInv'
  BY <1>1 DEF VenueFill, Live
<1>2. ASSUME NEW o \in Ids, VenueExpire(o) PROVE BookInv'
  BY <1>2 DEF VenueExpire, CancelAtVenue, Live
<1>3. ASSUME Deposit PROVE BookInv'
  BY <1>3 DEF Deposit
<1>4. ASSUME SafeMode PROVE BookInv'
  BY <1>4 DEF SafeMode, obsVars
<1>5. ASSUME Crash PROVE BookInv'
  BY <1>5 DEF Crash, FreshState, TickReset, States
<1>6. ASSUME NEW o \in Ids, CrashInTakeProfit(o) PROVE BookInv'
  BY <1>6 DEF CrashInTakeProfit, InBuys, IsNext, AcceptSell, FreshState,
     TickReset, States
<1>7. ASSUME Boot PROVE BookInv'
  <2>1. \A o \in Ids : Bookable(o)'
    BY <1>7 DEF Boot
  <2> QED
    BY <1>7, <2>1 DEF Boot, States
<1>8. ASSUME Persist PROVE BookInv'
  BY <1>8 DEF Persist, TickReset
<1>9. ASSUME NEW o \in Ids, LeftoverSell(o) PROVE BookInv'
  BY <1>9 DEF LeftoverSell, IsNext
<1> QED
  BY <1>1, <1>2, <1>3, <1>4, <1>5, <1>6, <1>7, <1>8, <1>9
     DEF Environment

LEMMA TickKeepsBookInv ==
    ASSUME BookType, BookType', BookInv,
           \/ TickBlocked \/ TickDecides
           \/ StopNotSold \/ StopReplyLost \/ StopSold
           \/ BeginFills1 \/ BuysDone \/ EndOfFills2
           \/ PreflightOk \/ PreflightBlocked \/ BeginFills2
           \/ StopLossTrips \/ SlPhotograph \/ SlNotSold \/ SlSold
    PROVE  BookInv'
<1> USE BotAssumption DEF BookType, BookInv, BookedOncePerLife,
     Bookable, venueVars, memVars, durVars, tickVars, NoFault, Fault, Ids
<1>1. ASSUME TickBlocked PROVE BookInv'
  BY <1>1 DEF TickBlocked, obsVars
<1>2. ASSUME TickDecides PROVE BookInv'
  BY <1>2 DEF TickDecides, LiveIds, Live, States
<1>3. ASSUME StopNotSold PROVE BookInv'
  BY <1>3 DEF StopNotSold, StopDone
<1>4. ASSUME StopReplyLost PROVE BookInv'
  BY <1>4 DEF StopReplyLost, StopDone
<1>5. ASSUME StopSold PROVE BookInv'
  BY <1>5 DEF StopSold, StopDone, AfterStop, States
<1>6. ASSUME BeginFills1 PROVE BookInv'
  <2>1. pc' = "buys1" /\ todo' \subseteq st.buys
    BY <1>6 DEF BeginFills1, FillsBegin, Unresolved
  <2>2. pc = "ladder" /\ UNCHANGED <<venueVars, st, booked, crashes>>
    BY <1>6 DEF BeginFills1, FillsBegin, LadderReady
  <2> QED
    BY <2>1, <2>2 DEF States
<1>7. ASSUME BuysDone PROVE BookInv'
  BY <1>7 DEF BuysDone, InBuys, Unresolved, States
<1>8. ASSUME EndOfFills2 PROVE BookInv'
  BY <1>8 DEF EndOfFills2, SellsDone, InSells
<1>9. ASSUME PreflightOk PROVE BookInv'
  BY <1>9 DEF PreflightOk, SellsDone, InSells
<1>10. ASSUME PreflightBlocked PROVE BookInv'
  BY <1>10 DEF PreflightBlocked, SellsDone, Live, InSells, States
<1>11. ASSUME BeginFills2 PROVE BookInv'
  <2>1. pc' = "buys2" /\ todo' \subseteq st.buys
    BY <1>11 DEF BeginFills2, FillsBegin, Unresolved
  <2>2. pc = "exec" /\ UNCHANGED <<venueVars, st, booked, crashes>>
    BY <1>11 DEF BeginFills2, FillsBegin, ExecReady
  <2> QED
    BY <2>1, <2>2 DEF States
<1>12. ASSUME StopLossTrips PROVE BookInv'
  BY <1>12 DEF StopLossTrips, obsVars, States
<1>13. ASSUME SlPhotograph PROVE BookInv'
  BY <1>13 DEF SlPhotograph, States
<1>14. ASSUME SlNotSold PROVE BookInv'
  BY <1>14 DEF SlNotSold, SlCanceled, EmptyBooks, States
<1>15. ASSUME SlSold PROVE BookInv'
  BY <1>15, ZenonT(60) DEF SlSold, SlCanceled, EmptyBooks, States
<1> QED
  BY <1>1, <1>2, <1>3, <1>4, <1>5, <1>6, <1>7, <1>8, <1>9, <1>10, <1>11,
     <1>12, <1>13, <1>14, <1>15

LEMMA OrderStepKeepsBookInv ==
    ASSUME BookType, BookType', BookInv, NEW o \in Ids, OrderStep(o)
    PROVE  BookInv'
<1> USE BotAssumption DEF BookType, BookInv, BookedOncePerLife,
     Bookable, venueVars, memVars, durVars, tickVars, NoFault, Fault, Ids
<1>1. ASSUME StopCancel(o) PROVE BookInv'
  BY <1>1 DEF StopCancel, CancelOutcome, DropSell, CancelAtVenue, Live,
     States
<1>2. ASSUME CancelLadder(o) PROVE BookInv'
  BY <1>2 DEF CancelLadder, CancelOutcome, DropSell, CancelAtVenue, Live,
     States
<1>3. ASSUME PlaceLadder(o) PROVE BookInv'
  BY <1>3 DEF PlaceLadder, IsNext, AcceptSell, States
<1>4. ASSUME BuyNotFilled(o) PROVE BookInv'
  BY <1>4 DEF BuyNotFilled, InBuys, DropBuy, States
<1>5. ASSUME BuyBecomesPosition(o) PROVE BookInv'
  BY <1>5 DEF BuyBecomesPosition, InBuys, DropBuy, Book, HasFill, States
<1>6. ASSUME BuySendsTakeProfit(o) PROVE BookInv'
  <2>1. /\ pc \in {"buys1", "buys2"} /\ pc' = pc /\ crashes' = crashes
        /\ o \in todo /\ todo' = todo \ {o} /\ filled[o] > 0
    BY <1>6 DEF BuySendsTakeProfit, InBuys, HasFill
  <2>2. ASSUME NEW n \in SellIds, IsNext(n, SellIds), AcceptSell(n, filled[o]),
               Book(o),
               st' = [DropBuy(st, o) EXCEPT !.sells = @ \cup {n},
                                            !.tp = @ \cup {n}]
        PROVE  BookInv'
    <3>1. st'.buys = st.buys \ {o} /\ st'.sells = st.sells \cup {n}
      BY <2>2 DEF DropBuy, States
    <3>2. booked[n] = 0 /\ \A p \in Ids : status'[p] = "none" => status[p] = "none"
      BY <2>2 DEF IsNext, AcceptSell
    <3>3. o \in BuyIds /\ booked' = [booked EXCEPT ![o] = @ + 1]
      BY <2>1, <2>2 DEF Book
    <3>4. status[o] # "none"
      BY <2>1
    <3> QED
      BY <2>1, <3>1, <3>2, <3>3, <3>4 DEF States
  <2>3. ASSUME NEW n \in SellIds, AcceptSell(n, filled[o]), st' = DropBuy(st, o),
               UNCHANGED booked
        PROVE  BookInv'
    BY <2>1, <2>3 DEF DropBuy, States, AcceptSell
  <2>4. ASSUME st' = DropBuy(st, o), UNCHANGED <<venueVars, booked>>
        PROVE  BookInv'
    BY <2>1, <2>4 DEF DropBuy, States
  <2> QED
    BY <1>6, <2>2, <2>3, <2>4 DEF BuySendsTakeProfit
<1>7. ASSUME ResolveSell(o) PROVE BookInv'
  <2>1. /\ pc \in {"sells1", "sells2"} /\ pc' = pc /\ crashes' = crashes
        /\ o \in todo /\ todo' = todo \ {o} /\ UNCHANGED <<status, filled>>
    BY <1>7 DEF ResolveSell, InSells
  <2>2. ASSUME HasFill(o), Book(o), st' = DropSell(st, o)
        PROVE  BookInv'
    <3>1. st'.buys = st.buys /\ st'.sells = st.sells \ {o}
      BY <2>2 DEF DropSell, States
    <3>2. o \in SellIds /\ booked' = [booked EXCEPT ![o] = @ + 1]
          /\ status[o] # "none"
      BY <2>1, <2>2 DEF Book, HasFill
    <3> QED
      BY <2>1, <3>1, <3>2 DEF States
  <2>3. ASSUME UNCHANGED booked, st' = st \/ st' = DropSell(st, o)
        PROVE  BookInv'
    <3>1. CASE st' = st
      BY <2>1, <2>3, <3>1
    <3>2. CASE st' = DropSell(st, o)
      <4>1. st'.buys = st.buys /\ st'.sells = st.sells \ {o}
        BY <3>2 DEF DropSell, States
      <4> QED
        BY <2>1, <2>3, <4>1
    <3> QED
      BY <2>3, <3>1, <3>2
  <2> QED
    BY <1>7, <2>2, <2>3 DEF ResolveSell
<1>8. ASSUME CancelBuy(o) PROVE BookInv'
  BY <1>8 DEF CancelBuy, CancelAtVenue, DropBuy, Live, States
<1>9. ASSUME PlaceBuy(o) PROVE BookInv'
  BY <1>9 DEF PlaceBuy, ExecReady, IsNext, AcceptBuy, States
<1>10. ASSUME SlResolve(o) PROVE BookInv'
  BY <1>10 DEF SlResolve, Book, DropBuy, HasFill, States
<1>11. ASSUME SlCancel(o) PROVE BookInv'
  BY <1>11 DEF SlCancel, CancelOutcome, CancelAtVenue, Live, States
<1> QED
  BY <1>1, <1>2, <1>3, <1>4, <1>5, <1>6, <1>7, <1>8, <1>9, <1>10, <1>11
     DEF OrderStep

LEMMA NextKeepsBookInv ==
    ASSUME BookType, BookType', BookInv, [Next]_vars
    PROVE  BookInv'
<1>1. CASE UNCHANGED vars
  BY <1>1 DEF BookInv, BookedOncePerLife, Bookable, Ids, vars, venueVars,
     memVars, durVars, tickVars, obsVars
<1>2. CASE Next
  BY <1>2, EnvironmentKeepsBookInv, TickKeepsBookInv, OrderStepKeepsBookInv
     DEF Next, BotStep
<1> QED
  BY <1>1, <1>2

LEMMA BookInvHolds == Spec => [](IndType /\ BookInv)
<1>1. Init => BookInv
  BY InitBookInv
<1>2. IndType /\ IndType' /\ BookInv /\ [Next]_vars => BookInv'
  <2>1. IndType' => BookType'
    BY DEF IndType, VenueType, BotType, GoodBooks, BookType
  <2> QED
    BY <2>1, NextKeepsBookInv, IndTypeGivesBookType
<1> QED
  BY <1>1, <1>2, InductiveTypes, PTL DEF Spec

\* A fill enters the journal, and with it the PnL that the next restart replays,
\* at most once per life of the process; each crash can repeat it once, and
\* nothing else can.
THEOREM BookingSafety == Spec => []BookedOncePerLife
<1>1. BookInv => BookedOncePerLife
  BY DEF BookInv
<1> QED
  BY <1>1, BookInvHolds, PTL

-----------------------------------------------------------------------------
(***************************************************************************)
(* BotTask implements OrderLedger, whatever fails and dies.                *)
(*                                                                         *)
(* The lemmas say which step of the ledger each call to the venue is; then *)
(* every action is a step of the ledger or leaves it alone.  That an order *)
(* is journaled only while its records are fewer than the lives needs the  *)
(* invariant of the bookings, in the state the step leads to; that what is *)
(* placed was never seen before needs the types.                           *)
(***************************************************************************)

\* What the ledger sees of the venue, with an order that can still be placed.
LedgerType ==
    /\ status \in [Ids -> {"none", "open", "closed", "canceled"}]
    /\ filled \in [Ids -> Nat] /\ amount \in [Ids -> Nat]
    /\ \A o \in Ids : filled[o] <= amount[o]
    /\ booked \in [Ids -> Nat] /\ crashes \in Nat

LEMMA IndTypeGivesLedgerType == IndType => LedgerType
BY DEF IndType, VenueType, BotType, LedgerType

LEMMA LedgerUnchanged ==
    ASSUME UNCHANGED <<status, filled, amount>>
    PROVE  UNCHANGED Ledger!orders
BY DEF Ledger!orders

LEMMA LedgerStutters ==
    ASSUME UNCHANGED <<status, filled, amount, booked, crashes>>
    PROVE  UNCHANGED Ledger!vars
BY DEF Ledger!vars

\* An order accepted by the venue is placed, with the quantity it asks for.
LEMMA NewOrderPlaced ==
    ASSUME LedgerType, NEW o \in Ids, NEW a \in Nat, a > 0, status[o] = "none",
           status' = [status EXCEPT ![o] = "open"],
           amount' = [amount EXCEPT ![o] = a],
           UNCHANGED filled
    PROVE  Ledger!Places(o) /\ amount'[o] = a
<1>1. amount'[o] = a
  BY DEF LedgerType
<1> QED
  BY <1>1 DEF Ledger!Places

LEMMA BuyPlaced ==
    ASSUME LedgerType, NEW o \in Ids, IsNext(o, BuyIds), AcceptBuy(o)
    PROVE  Ledger!Places(o)
<1>1. Size \in Nat /\ Size > 0
  BY BotAssumption DEF BotAssumption
<1>2. /\ status[o] = "none"
      /\ status' = [status EXCEPT ![o] = "open"]
      /\ amount' = [amount EXCEPT ![o] = Size]
      /\ UNCHANGED filled
  BY DEF AcceptBuy, IsNext
<1> QED
  BY <1>1, <1>2, NewOrderPlaced

LEMMA SellPlaced ==
    ASSUME LedgerType, NEW o \in SellIds, IsNext(o, SellIds),
           NEW a \in Nat, a > 0, AcceptSell(o, a)
    PROVE  Ledger!Places(o) /\ amount'[o] = a
BY NewOrderPlaced DEF AcceptSell, IsNext, Ids

\* The take-profit of a filled buy, whoever learns of it.
LEMMA TakeProfitPlaced ==
    ASSUME LedgerType, NEW o \in Ids, HasFill(o),
           NEW n \in SellIds, IsNext(n, SellIds), AcceptSell(n, filled[o])
    PROVE  Ledger!TakeProfit(o, n)
<1>1. filled[o] \in Nat /\ filled[o] > 0
  BY DEF LedgerType, HasFill
<1> QED
  BY <1>1, SellPlaced DEF Ledger!TakeProfit

LEMMA CanceledEnds ==
    ASSUME LedgerType, NEW S \in SUBSET Ids, \A o \in S : Live(o),
           status' = [o \in Ids |-> IF o \in S THEN "canceled" ELSE status[o]],
           UNCHANGED <<filled, amount>>
    PROVE  Ledger!Ends(S)
BY DEF Live, Ledger!Ends

LEMMA CanceledAtVenueEnds ==
    ASSUME LedgerType, NEW o \in Ids, CancelAtVenue(o)
    PROVE  Ledger!Ends({o})
<1>1. status' = [p \in Ids |-> IF p \in {o} THEN "canceled" ELSE status[p]]
  BY DEF CancelAtVenue, LedgerType
<1> QED
  BY <1>1, CanceledEnds DEF CancelAtVenue

\* A trade that leaves the journal and the process alone is a step of the ledger.
LEMMA OrdersTrade ==
    ASSUME UNCHANGED <<booked, crashes>>,
           \/ \E o \in Ids : Ledger!Places(o) \/ Ledger!Fills(o)
           \/ \E S \in SUBSET Ids : Ledger!Ends(S)
           \/ UNCHANGED <<status, filled, amount>>
    PROVE  [Ledger!Next]_(Ledger!vars)
<1>1. CASE UNCHANGED <<status, filled, amount>>
  BY <1>1, LedgerStutters
<1>2. CASE \/ \E o \in Ids : Ledger!Places(o) \/ Ledger!Fills(o)
           \/ \E S \in SUBSET Ids : Ledger!Ends(S)
  BY <1>2 DEF Ledger!Next, Ledger!Trade
<1> QED
  BY <1>1, <1>2

LEMMA CancelCallTrades ==
    ASSUME LedgerType, NEW o \in Ids, UNCHANGED <<booked, crashes>>,
           \/ CancelAtVenue(o)
           \/ UNCHANGED venueVars
    PROVE  [Ledger!Next]_(Ledger!vars)
<1>1. CASE CancelAtVenue(o)
  BY <1>1, CanceledAtVenueEnds, OrdersTrade
<1>2. CASE UNCHANGED venueVars
  BY <1>2, OrdersTrade DEF venueVars
<1> QED
  BY <1>1, <1>2

\* A record of a fill, which is the first of this life of the process.
LEMMA FillRecorded ==
    ASSUME LedgerType, LedgerType', BookedOncePerLife', NEW o \in Ids,
           HasFill(o), Book(o), crashes' = crashes,
           \/ UNCHANGED <<status, filled, amount>>
           \/ \E n \in Ids : Ledger!TakeProfit(o, n)
    PROVE  [Ledger!Next]_(Ledger!vars)
<1>1. booked'[o] = booked[o] + 1 /\ booked'[o] <= crashes + 1
  BY DEF LedgerType, Book, BookedOncePerLife
<1>2. booked[o] < crashes + 1
  BY <1>1 DEF LedgerType
<1>3. Ledger!Records(o)
  BY <1>2 DEF Ledger!Records, HasFill, Book
<1>4. UNCHANGED Ledger!orders \/ \E n \in Ids : Ledger!TakeProfit(o, n)
  BY LedgerUnchanged
<1> QED
  BY <1>3, <1>4 DEF Ledger!Next, Ledger!Report

LEMMA VenueFillFills ==
    ASSUME LedgerType, NEW o \in Ids, VenueFill(o)
    PROVE  Ledger!Fills(o)
<1>1. PICK q \in 1..(amount[o] - filled[o]) :
        /\ filled' = [filled EXCEPT ![o] = @ + q]
        /\ status' = [status EXCEPT ![o] =
                        IF filled[o] + q = amount[o] THEN "closed" ELSE @]
  BY DEF VenueFill
<1>2. status[o] = "open" /\ amount' = amount
  BY DEF VenueFill, Live
<1>3. filled'[o] = filled[o] + q /\ filled[o] < filled'[o]
      /\ filled'[o] <= amount[o]
  BY <1>1 DEF LedgerType
<1>4. filled' = [filled EXCEPT ![o] = filled'[o]]
  BY <1>1, <1>3
<1>5. status' = IF filled'[o] = amount[o]
                THEN [status EXCEPT ![o] = "closed"] ELSE status
  BY <1>1, <1>3 DEF LedgerType
<1> QED
  BY <1>2, <1>3, <1>4, <1>5 DEF Ledger!Fills

LEMMA EnvironmentOnLedger ==
    ASSUME LedgerType, Environment \/ Boot \/ Persist
    PROVE  [Ledger!Next]_(Ledger!vars)
<1> USE DEF venueVars, memVars, durVars, obsVars
<1>1. ASSUME NEW o \in Ids, VenueFill(o) PROVE [Ledger!Next]_(Ledger!vars)
  <2>1. UNCHANGED <<booked, crashes>>
    BY <1>1 DEF VenueFill
  <2> QED
    BY <1>1, <2>1, VenueFillFills, OrdersTrade
<1>2. ASSUME NEW o \in Ids, VenueExpire(o) PROVE [Ledger!Next]_(Ledger!vars)
  <2>1. CancelAtVenue(o) /\ UNCHANGED <<booked, crashes>>
    BY <1>2 DEF VenueExpire
  <2> QED
    BY <2>1, CancelCallTrades
<1>3. ASSUME NEW o \in Ids, LeftoverSell(o) PROVE [Ledger!Next]_(Ledger!vars)
  <2>1. Ledger!Places(o)
    <3>1. /\ status[o] = "none"
          /\ status' = [status EXCEPT ![o] = "open"]
          /\ amount' = [amount EXCEPT ![o] = 1]
          /\ UNCHANGED filled
      BY <1>3 DEF LeftoverSell, IsNext
    <3>2. 1 \in Nat /\ 1 > 0
      OBVIOUS
    <3> QED
      BY <3>1, <3>2, NewOrderPlaced, Zenon
  <2>2. UNCHANGED <<booked, crashes>>
    BY <1>3 DEF LeftoverSell
  <2> QED
    BY <2>1, <2>2, OrdersTrade
<1>4. CASE Deposit \/ SafeMode \/ Boot \/ Persist
  <2>1. UNCHANGED <<status, filled, amount, booked, crashes>>
    BY <1>4 DEF Deposit, SafeMode, Boot, Persist
  <2> QED
    BY <2>1, OrdersTrade
<1> QED
  BY <1>1, <1>2, <1>3, <1>4 DEF Environment

LEMMA CrashOnLedger ==
    ASSUME LedgerType, Crash \/ \E o \in BuyIds : CrashInTakeProfit(o)
    PROVE  [Ledger!Next]_(Ledger!vars)
<1>1. (crashes + 1)' = (crashes + 1) + 1 /\ UNCHANGED booked
  BY DEF Crash, CrashInTakeProfit, durVars
<1>2. CASE Crash
  <2>1. UNCHANGED Ledger!orders
    BY <1>2, LedgerUnchanged DEF Crash, venueVars
  <2> QED
    BY <1>1, <2>1 DEF Ledger!Next, Ledger!Restart
<1>3. ASSUME NEW o \in BuyIds, CrashInTakeProfit(o)
      PROVE  [Ledger!Next]_(Ledger!vars)
  <2>1. PICK n \in SellIds : IsNext(n, SellIds) /\ AcceptSell(n, filled[o])
    BY <1>3 DEF CrashInTakeProfit
  <2>2. o \in Ids /\ n \in Ids /\ HasFill(o)
    BY <1>3 DEF CrashInTakeProfit, Ids
  <2>3. Ledger!TakeProfit(o, n)
    BY <2>1, <2>2, TakeProfitPlaced
  <2> QED
    BY <1>1, <2>2, <2>3 DEF Ledger!Next, Ledger!Restart, HasFill
<1> QED
  BY <1>2, <1>3

LEMMA TickOnLedger ==
    ASSUME LedgerType,
           \/ TickBlocked \/ TickDecides
           \/ StopNotSold \/ StopReplyLost \/ StopSold
           \/ BeginFills1 \/ BuysDone \/ EndOfFills2
           \/ PreflightOk \/ PreflightBlocked \/ BeginFills2
           \/ StopLossTrips \/ SlPhotograph \/ SlNotSold \/ SlSold
    PROVE  [Ledger!Next]_(Ledger!vars)
<1> USE DEF venueVars, memVars, durVars, obsVars
<1>1. CASE PreflightBlocked
  <2>1. PICK S \in SUBSET {o \in BuyIds : plan.snap /\ o \in openIds /\ Live(o)} :
          status' = [o \in Ids |-> IF o \in S THEN "canceled" ELSE status[o]]
    BY <1>1 DEF PreflightBlocked
  <2>2. S \in SUBSET Ids /\ \A o \in S : Live(o)
    BY DEF Ids
  <2>3. UNCHANGED <<filled, amount, booked, crashes>>
    BY <1>1 DEF PreflightBlocked
  <2> QED
    BY <2>1, <2>2, <2>3, CanceledEnds, OrdersTrade
<1>2. CASE \/ TickBlocked \/ TickDecides
           \/ StopNotSold \/ StopReplyLost \/ StopSold
           \/ BeginFills1 \/ BuysDone \/ EndOfFills2
           \/ PreflightOk \/ BeginFills2
           \/ StopLossTrips \/ SlPhotograph \/ SlNotSold \/ SlSold
  <2>1. UNCHANGED <<status, filled, amount, booked, crashes>>
    BY <1>2 DEF TickBlocked, TickDecides, StopNotSold, StopReplyLost, StopSold,
       BeginFills1, BuysDone, EndOfFills2, PreflightOk, BeginFills2, FillsBegin,
       StopLossTrips, SlPhotograph, SlNotSold, SlSold
  <2> QED
    BY <2>1, OrdersTrade
<1> QED
  BY <1>1, <1>2

LEMMA OrderStepOnLedger ==
    ASSUME LedgerType, LedgerType', BookedOncePerLife', NEW o \in Ids,
           OrderStep(o)
    PROVE  [Ledger!Next]_(Ledger!vars)
<1> USE DEF venueVars, memVars, durVars, obsVars
<1>0. crashes' = crashes
  BY DEF OrderStep, StopCancel, CancelLadder, PlaceLadder, BuyNotFilled,
     BuyBecomesPosition, BuySendsTakeProfit, ResolveSell, CancelBuy, PlaceBuy,
     SlResolve, SlCancel
<1>1. CASE StopCancel(o) \/ CancelLadder(o) \/ CancelBuy(o) \/ SlCancel(o)
  <2>1. booked' = booked /\ (CancelAtVenue(o) \/ UNCHANGED venueVars)
    BY <1>1 DEF StopCancel, CancelLadder, CancelBuy, SlCancel, CancelOutcome
  <2> QED
    BY <1>0, <2>1, CancelCallTrades
<1>2. CASE PlaceLadder(o)
  <2>1. booked' = booked /\ IsNext(o, SellIds) /\ o \in SellIds
    BY <1>2 DEF PlaceLadder, IsNext
  <2>2. AcceptSell(o, 1) \/ UNCHANGED <<status, filled, amount>>
    BY <1>2 DEF PlaceLadder
  <2>3. CASE AcceptSell(o, 1)
    BY <1>0, <2>1, <2>3, SellPlaced, OrdersTrade
  <2> QED
    BY <1>0, <2>1, <2>2, <2>3, OrdersTrade
<1>3. CASE PlaceBuy(o)
  <2>1. booked' = booked /\ IsNext(o, BuyIds)
    BY <1>3 DEF PlaceBuy
  <2>2. AcceptBuy(o) \/ UNCHANGED <<status, filled, amount>>
    BY <1>3 DEF PlaceBuy
  <2> QED
    BY <1>0, <2>1, <2>2, BuyPlaced, OrdersTrade
<1>4. CASE BuySendsTakeProfit(o)
  <2>1. HasFill(o)
    BY <1>4 DEF BuySendsTakeProfit
  <2>2. CASE booked' = booked /\ UNCHANGED <<status, filled, amount>>
    BY <1>0, <2>2, OrdersTrade
  <2>3. ASSUME NEW n \in SellIds, IsNext(n, SellIds),
               AcceptSell(n, filled[o]), Book(o) \/ booked' = booked
        PROVE  [Ledger!Next]_(Ledger!vars)
    <3>1. n \in Ids /\ Ledger!TakeProfit(o, n)
      BY <2>1, <2>3, TakeProfitPlaced DEF Ids
    <3>2. CASE Book(o)
      BY <1>0, <2>1, <3>1, <3>2, FillRecorded
    <3>3. CASE booked' = booked
      BY <1>0, <3>1, <3>3, OrdersTrade DEF Ledger!TakeProfit
    <3> QED
      BY <2>3, <3>2, <3>3
  <2> QED
    BY <1>4, <2>2, <2>3 DEF BuySendsTakeProfit
<1>5. CASE \/ BuyNotFilled(o) \/ BuyBecomesPosition(o) \/ ResolveSell(o)
           \/ SlResolve(o)
  <2>1. UNCHANGED <<status, filled, amount>>
    BY <1>5 DEF BuyNotFilled, BuyBecomesPosition, ResolveSell, SlResolve
  <2>2. booked' = booked \/ (HasFill(o) /\ Book(o))
    BY <1>5 DEF BuyNotFilled, BuyBecomesPosition, ResolveSell, SlResolve
  <2> QED
    BY <1>0, <2>1, <2>2, OrdersTrade, FillRecorded
<1> QED
  BY <1>1, <1>2, <1>3, <1>4, <1>5 DEF OrderStep

LEMMA NextOnLedger ==
    ASSUME LedgerType, LedgerType', BookedOncePerLife', [Next]_vars
    PROVE  [Ledger!Next]_(Ledger!vars)
<1>1. CASE UNCHANGED vars
  BY <1>1, LedgerStutters DEF vars, venueVars, durVars, obsVars
<1>2. CASE Next
  BY <1>2, EnvironmentOnLedger, CrashOnLedger, TickOnLedger, OrderStepOnLedger
     DEF Next, BotStep
<1> QED
  BY <1>1, <1>2

\* Whatever fails and dies, an order keeps its size and fills up to it, ends for
\* good, and enters the journal for a fill only, at most once for each life of
\* the process; a take-profit, whether or not its answer arrives, is of the size
\* of the fill it belongs to.
THEOREM LedgerRefinement == Spec => ImplementsLedger
<1>1. Init => Ledger!Init
  BY DEF Init, Ledger!Init
<1>2. /\ IndType /\ BookInv /\ (IndType /\ BookInv)' /\ [Next]_vars
      => [Ledger!Next]_(Ledger!vars)
  <2>1. IndType' => LedgerType'
    BY DEF IndType, VenueType, BotType, LedgerType
  <2>2. BookInv' => BookedOncePerLife'
    BY DEF BookInv
  <2> QED
    BY <2>1, <2>2, IndTypeGivesLedgerType, NextOnLedger
<1> QED
  BY <1>1, <1>2, BookInvHolds, PTL DEF Spec, ImplementsLedger, Ledger!Spec

-----------------------------------------------------------------------------
(* The policy knows of the position                                        *)

\* A filled sell makes the trend policy flat, so the argument is that a trend
\* bot sends no limit sell, and that the account holds none of others.
NoLeftover == "leftover" \notin FaultKinds

PolicyInv ==
    /\ PositionKnownToPolicy
    /\ StopMonitorato => plan.ladder = 0 /\ \A o \in SellIds : status[o] = "none"
    /\ ~StopMonitorato => st.pos = 0 /\ disk.pos = 0

\* What the argument needs of the types and of BookInv.
PolicyType ==
    /\ status \in [Ids -> {"none", "open", "closed", "canceled"}]
    /\ \A o \in Ids : status[o] = "none" => filled[o] = 0
    /\ pc \in {"sells1", "sells2"} => todo \subseteq SellIds
    /\ plan \in Plans /\ st \in States /\ disk \in States

LEMMA InitPolicyInv == Init => PolicyInv
BY BotAssumption DEF Init, PolicyInv, PositionKnownToPolicy, FreshState, NoPlan,
   Ids

\* What the operators on the books do to the position.
LEMMA PositionOf ==
    ASSUME NEW s \in States, NEW o, NEW ids
    PROVE  /\ DropBuy(s, o).pos = s.pos /\ DropSell(s, o).pos = s.pos
           /\ EmptyBooks(s).pos = s.pos /\ AfterStop(s).pos = 0
           /\ Adopt(s, ids).pos = s.pos /\ Adopt(s, ids) \in States
           /\ Reconciled(s).pos \in {0, s.pos}
BY DEF DropBuy, DropSell, EmptyBooks, AfterStop, Adopt, Reconciled, States

LEMMA EnvironmentKeepsPolicyInv ==
    ASSUME NoLeftover, PolicyType, PolicyType', PolicyInv,
           \/ Environment
           \/ Crash \/ \E o \in BuyIds : CrashInTakeProfit(o)
           \/ Boot \/ Persist
    PROVE  PolicyInv'
<1> USE BotAssumption DEF PolicyType, PolicyInv, PositionKnownToPolicy,
     venueVars, memVars, durVars, tickVars, NoFault, Fault, Ids
<1>1. ASSUME NEW o \in Ids, VenueFill(o) PROVE PolicyInv'
  BY <1>1 DEF VenueFill, Live
<1>2. ASSUME NEW o \in Ids, VenueExpire(o) PROVE PolicyInv'
  BY <1>2 DEF VenueExpire, CancelAtVenue, Live
<1>3. ASSUME Deposit PROVE PolicyInv'
  BY <1>3 DEF Deposit
<1>4. ASSUME SafeMode PROVE PolicyInv'
  BY <1>4 DEF SafeMode, obsVars
<1>5. ASSUME Crash PROVE PolicyInv'
  BY <1>5 DEF Crash, FreshState, TickReset, NoPlan
<1>6. ASSUME NEW o \in Ids, CrashInTakeProfit(o) PROVE PolicyInv'
  BY <1>6 DEF CrashInTakeProfit, FreshState, TickReset, NoPlan
<1>7. ASSUME Boot PROVE PolicyInv'
  <2>1. UNCHANGED <<status, plan, disk>> /\ policyIn' = (st'.pos > 0)
    BY <1>7 DEF Boot, Restored
  <2>2. LoadedState \in States /\ LoadedState.pos \in {0, disk.pos}
    BY DEF LoadedState, FreshState, States
  <2>3. \/ st' = Reconciled(Adopt(LoadedState, LiveIds))
        \/ st' = Reconciled(LoadedState)
        \/ st' = Adopt(LoadedState, LiveIds)
    BY <1>7 DEF Boot
  <2>4. /\ Adopt(LoadedState, LiveIds) \in States
        /\ Adopt(LoadedState, LiveIds).pos = LoadedState.pos
    BY <2>2, PositionOf
  <2>5. st'.pos \in {0, LoadedState.pos}
    BY <2>2, <2>3, <2>4, PositionOf
  <2> QED
    BY <2>1, <2>2, <2>5
<1>8. ASSUME Persist PROVE PolicyInv'
  BY <1>8 DEF Persist, TickReset, NoPlan
<1>9. ASSUME NEW o \in Ids, LeftoverSell(o) PROVE PolicyInv'
  BY <1>9 DEF LeftoverSell, NoLeftover
<1> QED
  BY <1>1, <1>2, <1>3, <1>4, <1>5, <1>6, <1>7, <1>8, <1>9
     DEF Environment

LEMMA TickKeepsPolicyInv ==
    ASSUME PolicyType, PolicyType', PolicyInv,
           \/ TickBlocked \/ TickDecides
           \/ StopNotSold \/ StopReplyLost \/ StopSold
           \/ BeginFills1 \/ BuysDone \/ EndOfFills2
           \/ PreflightOk \/ PreflightBlocked \/ BeginFills2
           \/ StopLossTrips \/ SlPhotograph \/ SlNotSold \/ SlSold
    PROVE  PolicyInv'
<1> USE BotAssumption DEF PolicyType, PolicyInv, PositionKnownToPolicy,
     venueVars, memVars, durVars, tickVars, NoFault, Fault, Ids
<1>1. ASSUME TickBlocked PROVE PolicyInv'
  BY <1>1 DEF TickBlocked
<1>2. ASSUME TickDecides PROVE PolicyInv'
  <2>1. UNCHANGED <<status, st, disk>> /\ pc # "down"
    BY <1>2 DEF TickDecides
  <2> PICK d \in Decisions, snap \in BOOLEAN, b \in Shown :
             /\ PolicyDecides(d, b)
             /\ policyIn' = (policyIn \/ d.adopt)
             /\ plan' \in {PlanOf(d, snap), Gated(PlanOf(d, snap))}
    BY <1>2, Zenon DEF TickDecides
  <2>2. StopMonitorato => d.ladder = 0
    BY DEF PolicyDecides, TrendDecides
  <2>3. StopMonitorato => plan'.ladder = 0
    <3>1. PlanOf(d, snap).ladder = d.ladder
      BY DEF PlanOf
    <3>2. Gated(PlanOf(d, snap)).ladder \in {0, d.ladder}
      BY DEF PlanOf, Gated
    <3> QED
      BY <2>2, <3>1, <3>2
  <2>4. policyIn => policyIn'
    OBVIOUS
  <2> QED
    BY <2>1, <2>3, <2>4
<1>3. ASSUME StopNotSold PROVE PolicyInv'
  BY <1>3 DEF StopNotSold, StopDone, Gated, Plans
<1>4. ASSUME StopReplyLost PROVE PolicyInv'
  BY <1>4 DEF StopReplyLost, StopDone, Gated, Plans
<1>5. ASSUME StopSold PROVE PolicyInv'
  BY <1>5, PositionOf DEF StopSold, StopDone, NoPlan
<1>6. ASSUME BeginFills1 \/ BeginFills2 PROVE PolicyInv'
  BY <1>6 DEF BeginFills1, BeginFills2, FillsBegin, LadderReady, ExecReady
<1>7. ASSUME BuysDone PROVE PolicyInv'
  BY <1>7 DEF BuysDone, InBuys
<1>8. ASSUME EndOfFills2 \/ PreflightOk PROVE PolicyInv'
  BY <1>8 DEF EndOfFills2, PreflightOk, SellsDone, InSells
<1>9. ASSUME PreflightBlocked PROVE PolicyInv'
  <2>1. /\ \A o \in SellIds : status'[o] = status[o]
        /\ st'.pos = st.pos /\ pc # "down"
    BY <1>9 DEF PreflightBlocked, SellsDone, InSells, States
  <2>2. UNCHANGED <<policyIn, plan, disk>>
    BY <1>9 DEF PreflightBlocked
  <2> QED
    BY <2>1, <2>2
<1>10. ASSUME StopLossTrips PROVE PolicyInv'
  BY <1>10 DEF StopLossTrips, obsVars, States
<1>11. ASSUME SlPhotograph PROVE PolicyInv'
  BY <1>11 DEF SlPhotograph
<1>12. ASSUME SlNotSold \/ SlSold PROVE PolicyInv'
  <2>1. /\ UNCHANGED <<status, policyIn, plan, disk>> /\ pc # "down"
        /\ \/ st' = EmptyBooks(st)
           \/ st' = [EmptyBooks(st) EXCEPT !.latched = FALSE]
    BY <1>12 DEF SlNotSold, SlSold, SlCanceled
  <2>2. st'.pos = st.pos
    BY <2>1, ZenonT(60) DEF EmptyBooks, States
  <2> QED
    BY <2>1, <2>2
<1> QED
  BY <1>1, <1>2, <1>3, <1>4, <1>5, <1>6, <1>7, <1>8, <1>9, <1>10, <1>11,
     <1>12

LEMMA OrderStepKeepsPolicyInv ==
    ASSUME PolicyType, PolicyType', PolicyInv, NEW o \in Ids, OrderStep(o)
    PROVE  PolicyInv'
<1> USE BotAssumption DEF PolicyType, PolicyInv, PositionKnownToPolicy,
     venueVars, memVars, durVars, tickVars, NoFault, Fault, Ids
<1>1. ASSUME StopCancel(o) \/ CancelLadder(o) PROVE PolicyInv'
  <2>1. /\ CancelOutcome(o) /\ st' = DropSell(st, o) /\ pc # "down"
        /\ UNCHANGED <<policyIn, disk>> /\ plan'.ladder = plan.ladder
    BY <1>1 DEF StopCancel, CancelLadder, Plans
  <2>2. \A p \in SellIds : status[p] = "none" => status'[p] = "none"
    BY <2>1 DEF CancelOutcome, CancelAtVenue, Live
  <2> QED
    BY <2>1, <2>2, PositionOf
<1>2. ASSUME PlaceLadder(o) PROVE PolicyInv'
  <2>1. plan.ladder > 0 /\ UNCHANGED <<policyIn, disk>> /\ st'.pos = st.pos
        /\ pc # "down"
    BY <1>2 DEF PlaceLadder, LadderReady, States
  <2> QED
    BY <2>1
<1>3. ASSUME BuyNotFilled(o) PROVE PolicyInv'
  BY <1>3, PositionOf DEF BuyNotFilled, InBuys
<1>4. ASSUME BuyBecomesPosition(o) PROVE PolicyInv'
  BY <1>4 DEF BuyBecomesPosition
<1>5. ASSUME BuySendsTakeProfit(o) PROVE PolicyInv'
  <2>1. ~StopMonitorato /\ pc # "down" /\ UNCHANGED <<policyIn, disk>>
    BY <1>5 DEF BuySendsTakeProfit, InBuys
  <2>2. st'.pos = st.pos
    BY <1>5 DEF BuySendsTakeProfit, DropBuy, States
  <2> QED
    BY <2>1, <2>2
<1>6. ASSUME ResolveSell(o) PROVE PolicyInv'
  <2>1. /\ o \in SellIds /\ pc # "down" /\ UNCHANGED <<status, plan, disk>>
        /\ st'.pos = st.pos
    BY <1>6, PositionOf DEF ResolveSell, InSells
  <2>2. CASE StopMonitorato
    <3>1. ~HasFill(o)
      BY <2>1, <2>2 DEF HasFill
    <3>2. UNCHANGED policyIn
      BY <1>6, <3>1 DEF ResolveSell
    <3> QED
      BY <2>1, <2>2, <3>2
  <2>3. CASE ~StopMonitorato
    BY <2>1, <2>3
  <2> QED
    BY <2>2, <2>3
<1>7. ASSUME CancelBuy(o) PROVE PolicyInv'
  <2>1. \A p \in SellIds : status[p] = "none" => status'[p] = "none"
    BY <1>7 DEF CancelBuy, CancelAtVenue, Live
  <2>2. /\ st'.pos = st.pos /\ plan'.ladder = plan.ladder /\ pc # "down"
        /\ UNCHANGED <<policyIn, disk>>
    BY <1>7, PositionOf DEF CancelBuy, Plans
  <2> QED
    BY <2>1, <2>2
<1>8. ASSUME PlaceBuy(o) PROVE PolicyInv'
  <2>1. \A p \in SellIds : status'[p] = status[p]
    BY <1>8 DEF PlaceBuy, IsNext, AcceptBuy
  <2>2. /\ st'.pos = st.pos /\ plan'.ladder = plan.ladder /\ pc # "down"
        /\ UNCHANGED <<policyIn, disk>>
    BY <1>8 DEF PlaceBuy, ExecReady, States, Plans
  <2> QED
    BY <2>1, <2>2
<1>9. ASSUME SlResolve(o) PROVE PolicyInv'
  BY <1>9, PositionOf DEF SlResolve
<1>10. ASSUME SlCancel(o) PROVE PolicyInv'
  <2>1. \A p \in SellIds : status[p] = "none" => status'[p] = "none"
    BY <1>10 DEF SlCancel, CancelOutcome, CancelAtVenue, Live
  <2> QED
    BY <1>10, <2>1 DEF SlCancel
<1> QED
  BY <1>1, <1>2, <1>3, <1>4, <1>5, <1>6, <1>7, <1>8, <1>9, <1>10
     DEF OrderStep

LEMMA NextKeepsPolicyInv ==
    ASSUME NoLeftover, PolicyType, PolicyType', PolicyInv, [Next]_vars
    PROVE  PolicyInv'
<1>1. CASE UNCHANGED vars
  BY <1>1 DEF PolicyInv, PositionKnownToPolicy, vars, venueVars, memVars,
     durVars, tickVars, obsVars
<1>2. CASE Next
  BY <1>2, EnvironmentKeepsPolicyInv, TickKeepsPolicyInv,
     OrderStepKeepsPolicyInv DEF Next, BotStep
<1> QED
  BY <1>1, <1>2

LEMMA PolicyInvHolds ==
    ASSUME NoLeftover
    PROVE  Spec => [](IndType /\ BookInv /\ PolicyInv)
<1>1. Init => PolicyInv
  BY InitPolicyInv
<1>2. IndType /\ BookInv => PolicyType
  BY DEF IndType, VenueType, BotType, GoodBooks, BookInv, PolicyType
<1>3. IndType' /\ BookInv' => PolicyType'
  BY DEF IndType, VenueType, BotType, GoodBooks, BookInv, PolicyType
<1>4. (IndType /\ BookInv) /\ (IndType' /\ BookInv') /\ PolicyInv /\ [Next]_vars
        => PolicyInv'
  BY <1>2, <1>3, NextKeepsPolicyInv
<1> QED
  BY <1>1, <1>4, BookInvHolds, PTL DEF Spec

\* A position in the books is one the policy knows of, so that it publishes a
\* stop for it and buys no other over it: through any crashes and failures, on
\* an account where nobody else has left a sell order.
THEOREM PolicySafety ==
    ASSUME NoLeftover
    PROVE  Spec => []PositionKnownToPolicy
<1>1. PolicyInv => PositionKnownToPolicy
  BY DEF PolicyInv
<1> QED
  BY <1>1, PolicyInvHolds, PTL

-----------------------------------------------------------------------------
(***************************************************************************)
(* The orders of the bot, when no failure hides one from it: while it is   *)
(* up it tracks every live order and never has more buys than its levels,  *)
(* and with at most one crash a stop-loss that reached the disk leaves no  *)
(* live order and is never followed by a new one.                          *)
(*                                                                         *)
(* The hypotheses are what the code needs.  A lost reply, a cancel that    *)
(* fails and is swallowed, a fill in pieces seen through a stale list, an  *)
(* order list that cannot be read at start, and a sell order placed by     *)
(* somebody else each leave a live order out of the books.  A second crash *)
(* finds a state file whose symbol from_dict dropped, and the latch is     *)
(* forgotten.                                                              *)
(***************************************************************************)
NoSilentOrders ==
    FaultKinds \cap {"reply", "cancel", "partial", "bootfetch", "leftover"} = {}

(* LiveOrdersTracked is not inductive: an order dropped from the books     *)
(* because it has a fill must not be live, hence the second conjunct, and  *)
(* the stop-loss empties the books at once when it has gone through its    *)
(* cancels, hence the third.                                               *)
LiveInv ==
    /\ LiveOrdersTracked
    /\ \A o \in Ids : Live(o) => filled[o] = 0
    /\ pc = "slCancel" => \A o \in Ids : Live(o) => o \in todo

Stopping == pc \in {"slBuys", "slCancel"}

NoPlacing == plan.place = 0 /\ plan.ladder = 0

\* A stop-loss on disk, where every cancellation succeeds.
NothingLive == disk.latched => \A o \in Ids : ~Live(o)

(* What a latched flag means in memory (the stop is done, or is the one    *)
(* running), on disk, and across the one restart: the file that carries it *)
(* must have a name for the restart to read it.                            *)
FlatInv ==
    /\ NothingLive
    /\ disk.latched => disk.buys = {} /\ disk.sells = {}
    /\ disk.latched /\ pc = "down" => disk.named
    /\ disk.latched /\ pc # "down" => st.latched /\ ~Stopping
    /\ crashes = 0 =>
         /\ IF pc = "down" THEN ~disk.named ELSE st.named
         /\ disk.latched => disk.named
    /\ st.latched /\ ~Stopping =>
         /\ st.buys = {} /\ st.sells = {} /\ todo = {}
         /\ \A o \in Ids : ~Live(o)
         /\ pc # "stop" => NoPlacing
    /\ pc \in {"down", "idle"} => todo = {}
    /\ pc \in {"down", "idle"} \/ Stopping => NoPlacing

\* What the argument needs of the types.
OrderType ==
    /\ status \in [Ids -> {"none", "open", "closed", "canceled"}]
    /\ filled \in [Ids -> Nat] /\ amount \in [Ids -> Nat]
    /\ \A o \in Ids : filled[o] <= amount[o]
    /\ \A o \in Ids : status[o] = "none" => filled[o] = 0
    /\ st \in States /\ disk \in States /\ crashes \in Nat
    /\ plan \in Plans

-----------------------------------------------------------------------------
(* Every live order is tracked                                             *)

LEMMA AdoptedBooks ==
    ASSUME NEW s \in States, NEW ids
    PROVE  /\ Adopt(s, ids).buys = s.buys \cup (ids \cap BuyIds)
           /\ Adopt(s, ids).sells = s.sells \cup (ids \cap SellIds)
           /\ Adopt(s, ids).latched = s.latched
           /\ Adopt(s, ids).named = s.named
           /\ Adopt(s, ids) \in States
BY DEF Adopt, States

LEMMA ReconciledBooks ==
    ASSUME NEW s \in States
    PROVE  /\ Reconciled(s).buys = s.buys /\ Reconciled(s).sells = s.sells
           /\ Reconciled(s).latched = s.latched
           /\ Reconciled(s).named = s.named
BY DEF Reconciled, States

\* A start that could list the orders.
LEMMA BootBooks ==
    ASSUME "bootfetch" \notin FaultKinds, disk \in States, Boot
    PROVE  /\ st'.buys = LoadedState.buys \cup (LiveIds \cap BuyIds)
           /\ st'.sells = LoadedState.sells \cup (LiveIds \cap SellIds)
           /\ st'.latched = LoadedState.latched
           /\ st'.named = LoadedState.named
<1>1. LoadedState \in States
  BY DEF LoadedState, FreshState, States
<1>2. \/ st' = Reconciled(Adopt(LoadedState, LiveIds))
      \/ st' = Adopt(LoadedState, LiveIds)
  BY DEF Boot, Fault
<1> QED
  BY <1>1, <1>2, AdoptedBooks, ReconciledBooks

LEMMA InitLiveInv == Init => LiveInv
BY BotAssumption DEF Init, LiveInv, LiveOrdersTracked, Live

LEMMA EnvironmentKeepsLiveInv ==
    ASSUME NoSilentOrders, OrderType, OrderType', LiveInv,
           \/ Environment
           \/ Crash \/ \E o \in BuyIds : CrashInTakeProfit(o)
           \/ Boot \/ Persist
    PROVE  LiveInv'
<1> USE BotAssumption DEF OrderType, LiveInv, LiveOrdersTracked, Live,
     NoSilentOrders, venueVars, memVars, durVars, tickVars, obsVars,
     NoFault, Fault, Ids
<1>1. ASSUME NEW o \in Ids, VenueFill(o) PROVE LiveInv'
  BY <1>1 DEF VenueFill
<1>2. ASSUME NEW o \in Ids, VenueExpire(o) PROVE LiveInv'
  BY <1>2 DEF VenueExpire, CancelAtVenue
<1>3. ASSUME Deposit PROVE LiveInv'
  BY <1>3 DEF Deposit
<1>4. ASSUME SafeMode PROVE LiveInv'
  BY <1>4 DEF SafeMode
<1>5. ASSUME Crash PROVE LiveInv'
  BY <1>5 DEF Crash, FreshState, TickReset, States
<1>6. ASSUME NEW o \in Ids, CrashInTakeProfit(o) PROVE LiveInv'
  BY <1>6 DEF CrashInTakeProfit, InBuys, IsNext, AcceptSell, FreshState,
     TickReset, HasFill, States
<1>7. ASSUME Boot PROVE LiveInv'
  <2>1. /\ st'.buys = LoadedState.buys \cup (LiveIds \cap BuyIds)
        /\ st'.sells = LoadedState.sells \cup (LiveIds \cap SellIds)
        /\ st'.latched = LoadedState.latched
        /\ st'.named = LoadedState.named
    BY <1>7, BootBooks
  <2>2. pc' = "idle" /\ UNCHANGED venueVars
    BY <1>7 DEF Boot
  <2> QED
    BY <2>1, <2>2 DEF LiveIds
<1>8. ASSUME Persist PROVE LiveInv'
  BY <1>8 DEF Persist, TickReset, States
<1>9. ASSUME NEW o \in Ids, LeftoverSell(o) PROVE LiveInv'
  BY <1>9 DEF LeftoverSell
<1> QED
  BY <1>1, <1>2, <1>3, <1>4, <1>5, <1>6, <1>7, <1>8, <1>9
     DEF Environment

LEMMA TickKeepsLiveInv ==
    ASSUME NoSilentOrders, OrderType, OrderType', LiveInv,
           \/ TickBlocked \/ TickDecides
           \/ StopNotSold \/ StopReplyLost \/ StopSold
           \/ BeginFills1 \/ BuysDone \/ EndOfFills2
           \/ PreflightOk \/ PreflightBlocked \/ BeginFills2
           \/ StopLossTrips \/ SlPhotograph \/ SlNotSold \/ SlSold
    PROVE  LiveInv'
<1> USE BotAssumption DEF OrderType, LiveInv, LiveOrdersTracked, Live,
     NoSilentOrders, venueVars, memVars, durVars, tickVars, obsVars,
     NoFault, Fault, Ids
<1>1. ASSUME TickBlocked PROVE LiveInv'
  BY <1>1 DEF TickBlocked
<1>2. ASSUME TickDecides PROVE LiveInv'
  BY <1>2 DEF TickDecides, LiveIds
<1>3. ASSUME StopNotSold PROVE LiveInv'
  BY <1>3 DEF StopNotSold, StopDone, SomeToSell
<1>4. ASSUME StopReplyLost PROVE LiveInv'
  BY <1>4 DEF StopReplyLost, StopDone
<1>5. ASSUME StopSold PROVE LiveInv'
  <2>1. /\ pc = "stop" /\ pc' = "ladder" /\ UNCHANGED <<status, filled>>
        /\ st'.buys = st.buys /\ st'.sells = st.sells
    BY <1>5 DEF StopSold, StopDone, AfterStop, States
  <2> QED
    BY <2>1
<1>6. ASSUME BeginFills1 PROVE LiveInv'
  <2>1. pc = "ladder" /\ pc' = "buys1" /\ UNCHANGED <<venueVars, st>>
    BY <1>6 DEF BeginFills1, FillsBegin, LadderReady
  <2> QED
    BY <2>1
<1>7. ASSUME BuysDone PROVE LiveInv'
  BY <1>7 DEF BuysDone, InBuys, Unresolved
<1>8. ASSUME EndOfFills2 PROVE LiveInv'
  BY <1>8 DEF EndOfFills2, SellsDone, InSells
<1>9. ASSUME PreflightOk PROVE LiveInv'
  BY <1>9 DEF PreflightOk, SellsDone, InSells
<1>10. ASSUME PreflightBlocked PROVE LiveInv'
  BY <1>10 DEF PreflightBlocked, SellsDone, InSells, States
<1>11. ASSUME BeginFills2 PROVE LiveInv'
  <2>1. pc = "exec" /\ pc' = "buys2" /\ UNCHANGED <<venueVars, st>>
    BY <1>11 DEF BeginFills2, FillsBegin, ExecReady
  <2> QED
    BY <2>1
<1>12. ASSUME StopLossTrips PROVE LiveInv'
  BY <1>12 DEF StopLossTrips, States
<1>13. ASSUME SlPhotograph PROVE LiveInv'
  BY <1>13 DEF SlPhotograph
<1>14. ASSUME SlNotSold PROVE LiveInv'
  BY <1>14 DEF SlNotSold, SlCanceled, SomeToSell, EmptyBooks, States
<1>15. ASSUME SlSold PROVE LiveInv'
  BY <1>15 DEF SlSold, SlCanceled, EmptyBooks, States
<1> QED
  BY <1>1, <1>2, <1>3, <1>4, <1>5, <1>6, <1>7, <1>8, <1>9, <1>10, <1>11,
     <1>12, <1>13, <1>14, <1>15

LEMMA OrderStepKeepsLiveInv ==
    ASSUME NoSilentOrders, OrderType, OrderType', LiveInv,
           NEW o \in Ids, OrderStep(o)
    PROVE  LiveInv'
<1> USE BotAssumption DEF OrderType, LiveInv, LiveOrdersTracked, Live,
     NoSilentOrders, venueVars, memVars, durVars, tickVars, obsVars,
     NoFault, Fault, Ids
<1>1. ASSUME StopCancel(o) PROVE LiveInv'
  BY <1>1 DEF StopCancel, CancelOutcome, DropSell, CancelAtVenue, States
<1>2. ASSUME CancelLadder(o) PROVE LiveInv'
  BY <1>2 DEF CancelLadder, CancelOutcome, DropSell, CancelAtVenue, States
<1>3. ASSUME PlaceLadder(o) PROVE LiveInv'
  <2>1. pc = "ladder" /\ pc' = pc
    BY <1>3 DEF PlaceLadder, LadderReady
  <2>2. CASE status[o] = "none" /\ AcceptSell(o, 1)
               /\ st' = [st EXCEPT !.sells = @ \cup {o}]
    BY <2>1, <2>2 DEF AcceptSell, States
  <2>3. CASE UNCHANGED <<venueVars, st>>
    BY <2>1, <2>3
  <2> QED
    BY <1>3, <2>2, <2>3 DEF PlaceLadder, IsNext
<1>4. ASSUME BuyNotFilled(o) PROVE LiveInv'
  BY <1>4 DEF BuyNotFilled, InBuys, DropBuy, HasFill, Terminal, States
<1>5. ASSUME BuyBecomesPosition(o) PROVE LiveInv'
  BY <1>5 DEF BuyBecomesPosition, InBuys, DropBuy, Book, HasFill, States
<1>6. ASSUME BuySendsTakeProfit(o) PROVE LiveInv'
  <2>1. pc \in {"buys1", "buys2"} /\ pc' = pc /\ filled[o] > 0
    BY <1>6 DEF BuySendsTakeProfit, InBuys, HasFill
  <2>2. ASSUME NEW n \in SellIds, status[n] = "none", AcceptSell(n, filled[o]),
               st' = [DropBuy(st, o) EXCEPT !.sells = @ \cup {n},
                                            !.tp = @ \cup {n}]
        PROVE  LiveInv'
    <3>1. st'.buys = st.buys \ {o} /\ st'.sells = st.sells \cup {n}
      BY <2>2 DEF DropBuy, States
    <3>2. status' = [status EXCEPT ![n] = "open"] /\ filled' = filled
      BY <2>2 DEF AcceptSell
    <3> QED
      BY <2>1, <2>2, <3>1, <3>2
  <2>3. ASSUME st' = DropBuy(st, o), UNCHANGED venueVars
        PROVE  LiveInv'
    <3>1. st'.buys = st.buys \ {o} /\ st'.sells = st.sells
      BY <2>3 DEF DropBuy, States
    <3> QED
      BY <2>1, <2>3, <3>1
  <2> QED
    BY <1>6, <2>2, <2>3 DEF BuySendsTakeProfit, IsNext
<1>7. ASSUME ResolveSell(o) PROVE LiveInv'
  <2>1. pc \in {"sells1", "sells2"} /\ pc' = pc /\ UNCHANGED venueVars
    BY <1>7 DEF ResolveSell, InSells
  <2>2. \/ st' = st
        \/ st' = DropSell(st, o) /\ ~Live(o)
    BY <1>7 DEF ResolveSell, HasFill, Terminal
  <2>3. CASE st' = st
    BY <2>1, <2>3
  <2>4. CASE st' = DropSell(st, o) /\ ~Live(o)
    <3>1. st'.buys = st.buys /\ st'.sells = st.sells \ {o}
      BY <2>4 DEF DropSell, States
    <3> QED
      BY <2>1, <2>4, <3>1
  <2> QED
    BY <2>2, <2>3, <2>4
<1>8. ASSUME CancelBuy(o) PROVE LiveInv'
  BY <1>8 DEF CancelBuy, CancelAtVenue, DropBuy, States
<1>9. ASSUME PlaceBuy(o) PROVE LiveInv'
  BY <1>9 DEF PlaceBuy, ExecReady, IsNext, AcceptBuy, States
<1>10. ASSUME SlResolve(o) PROVE LiveInv'
  BY <1>10 DEF SlResolve, Book, DropBuy, HasFill, Terminal, States
<1>11. ASSUME SlCancel(o) PROVE LiveInv'
  <2>1. pc = "slCancel" /\ pc' = pc /\ st' = st /\ todo' = todo \ {o}
    BY <1>11 DEF SlCancel
  <2>2. CASE CancelAtVenue(o)
    BY <2>1, <2>2 DEF CancelAtVenue
  <2>3. CASE ~Live(o) /\ UNCHANGED venueVars
    BY <2>1, <2>3
  <2> QED
    BY <1>11, <2>2, <2>3 DEF SlCancel, CancelOutcome
<1> QED
  BY <1>1, <1>2, <1>3, <1>4, <1>5, <1>6, <1>7, <1>8, <1>9, <1>10, <1>11
     DEF OrderStep

LEMMA NextKeepsLiveInv ==
    ASSUME NoSilentOrders, OrderType, OrderType', LiveInv, [Next]_vars
    PROVE  LiveInv'
<1>1. CASE UNCHANGED vars
  BY <1>1 DEF LiveInv, LiveOrdersTracked, Live, vars, venueVars, memVars,
     durVars, tickVars, obsVars
<1>2. CASE Next
  BY <1>2, EnvironmentKeepsLiveInv, TickKeepsLiveInv, OrderStepKeepsLiveInv
     DEF Next, BotStep
<1> QED
  BY <1>1, <1>2

LEMMA IndTypeGivesOrderType == IndType => OrderType
BY DEF IndType, VenueType, BotType, GoodBooks, OrderType

LEMMA LiveInvHolds ==
    ASSUME NoSilentOrders
    PROVE  Spec => [](IndType /\ LiveInv)
<1>1. Init => LiveInv
  BY InitLiveInv
<1>2. IndType /\ IndType' /\ LiveInv /\ [Next]_vars => LiveInv'
  <2>1. IndType' => OrderType'
    BY DEF IndType, VenueType, BotType, GoodBooks, OrderType
  <2> QED
    BY <2>1, NextKeepsLiveInv, IndTypeGivesOrderType
<1> QED
  BY <1>1, <1>2, InductiveTypes, PTL DEF Spec

\* R3b: whatever crashes, fails or is canceled, the process never runs with an
\* order live at the venue and missing from its books, unless a failure of the
\* excluded kinds hid it.
THEOREM TrackingSafety ==
    ASSUME NoSilentOrders
    PROVE  Spec => []LiveOrdersTracked
<1>1. LiveInv => LiveOrdersTracked
  BY DEF LiveInv
<1> QED
  BY <1>1, LiveInvHolds, PTL

-----------------------------------------------------------------------------
(***************************************************************************)
(* Every live order is tracked or was asked to cancel, also when           *)
(* cancellations fail.                                                     *)
(*                                                                         *)
(* The argument is that of LiveInv with one more place where a live order  *)
(* may be: the ladder and the stops drop an order from the books with the  *)
(* request to cancel it, whatever becomes of that.                         *)
(***************************************************************************)
NoHiddenOrders == FaultKinds \cap {"reply", "partial", "bootfetch", "leftover"} = {}

KnownInv ==
    /\ LiveOrdersKnown
    /\ \A o \in Ids : Live(o) => filled[o] = 0
    /\ pc = "slCancel" => \A o \in Ids : Live(o) => o \in todo \cup asked

LEMMA InitKnownInv == Init => KnownInv
BY BotAssumption DEF Init, KnownInv, LiveOrdersKnown, Live

LEMMA EnvironmentKeepsKnownInv ==
    ASSUME NoHiddenOrders, OrderType, OrderType', KnownInv,
           \/ Environment
           \/ Crash \/ \E o \in BuyIds : CrashInTakeProfit(o)
           \/ Boot \/ Persist
    PROVE  KnownInv'
<1> USE BotAssumption DEF OrderType, KnownInv, LiveOrdersKnown, Live,
     NoHiddenOrders, venueVars, memVars, durVars, tickVars, obsVars,
     NoFault, Fault, Ids
<1>1. ASSUME NEW o \in Ids, VenueFill(o) PROVE KnownInv'
  BY <1>1 DEF VenueFill
<1>2. ASSUME NEW o \in Ids, VenueExpire(o) PROVE KnownInv'
  BY <1>2 DEF VenueExpire, CancelAtVenue
<1>3. ASSUME Deposit PROVE KnownInv'
  BY <1>3 DEF Deposit
<1>4. ASSUME SafeMode PROVE KnownInv'
  BY <1>4 DEF SafeMode
<1>5. ASSUME Crash PROVE KnownInv'
  BY <1>5 DEF Crash, FreshState, TickReset, States
<1>6. ASSUME NEW o \in Ids, CrashInTakeProfit(o) PROVE KnownInv'
  BY <1>6 DEF CrashInTakeProfit, InBuys, IsNext, AcceptSell, FreshState,
     TickReset, HasFill, States
<1>7. ASSUME Boot PROVE KnownInv'
  <2>1. /\ st'.buys = LoadedState.buys \cup (LiveIds \cap BuyIds)
        /\ st'.sells = LoadedState.sells \cup (LiveIds \cap SellIds)
        /\ st'.latched = LoadedState.latched
        /\ st'.named = LoadedState.named
    BY <1>7, BootBooks
  <2>2. pc' = "idle" /\ UNCHANGED venueVars
    BY <1>7 DEF Boot
  <2> QED
    BY <2>1, <2>2 DEF LiveIds
<1>8. ASSUME Persist PROVE KnownInv'
  BY <1>8 DEF Persist, TickReset, States
<1>9. ASSUME NEW o \in Ids, LeftoverSell(o) PROVE KnownInv'
  BY <1>9 DEF LeftoverSell
<1> QED
  BY <1>1, <1>2, <1>3, <1>4, <1>5, <1>6, <1>7, <1>8, <1>9
     DEF Environment

LEMMA TickKeepsKnownInv ==
    ASSUME NoHiddenOrders, OrderType, OrderType', KnownInv,
           \/ TickBlocked \/ TickDecides
           \/ StopNotSold \/ StopReplyLost \/ StopSold
           \/ BeginFills1 \/ BuysDone \/ EndOfFills2
           \/ PreflightOk \/ PreflightBlocked \/ BeginFills2
           \/ StopLossTrips \/ SlPhotograph \/ SlNotSold \/ SlSold
    PROVE  KnownInv'
<1> USE BotAssumption DEF OrderType, KnownInv, LiveOrdersKnown, Live,
     NoHiddenOrders, venueVars, memVars, durVars, tickVars, obsVars,
     NoFault, Fault, Ids
<1>1. ASSUME TickBlocked PROVE KnownInv'
  BY <1>1 DEF TickBlocked
<1>2. ASSUME TickDecides PROVE KnownInv'
  BY <1>2 DEF TickDecides, LiveIds
<1>3. ASSUME StopNotSold PROVE KnownInv'
  BY <1>3 DEF StopNotSold, StopDone, SomeToSell
<1>4. ASSUME StopReplyLost PROVE KnownInv'
  BY <1>4 DEF StopReplyLost, StopDone
<1>5. ASSUME StopSold PROVE KnownInv'
  <2>1. /\ pc = "stop" /\ pc' = "ladder" /\ UNCHANGED <<status, filled, asked>>
        /\ st'.buys = st.buys /\ st'.sells = st.sells
    BY <1>5 DEF StopSold, StopDone, AfterStop, States
  <2> QED
    BY <2>1
<1>6. ASSUME BeginFills1 PROVE KnownInv'
  <2>1. pc = "ladder" /\ pc' = "buys1" /\ UNCHANGED <<venueVars, st, asked>>
    BY <1>6 DEF BeginFills1, FillsBegin, LadderReady
  <2> QED
    BY <2>1
<1>7. ASSUME BuysDone PROVE KnownInv'
  BY <1>7 DEF BuysDone, InBuys, Unresolved
<1>8. ASSUME EndOfFills2 PROVE KnownInv'
  BY <1>8 DEF EndOfFills2, SellsDone, InSells
<1>9. ASSUME PreflightOk PROVE KnownInv'
  BY <1>9 DEF PreflightOk, SellsDone, InSells
<1>10. ASSUME PreflightBlocked PROVE KnownInv'
  BY <1>10 DEF PreflightBlocked, SellsDone, InSells, States
<1>11. ASSUME BeginFills2 PROVE KnownInv'
  <2>1. pc = "exec" /\ pc' = "buys2" /\ UNCHANGED <<venueVars, st, asked>>
    BY <1>11 DEF BeginFills2, FillsBegin, ExecReady
  <2> QED
    BY <2>1
<1>12. ASSUME StopLossTrips PROVE KnownInv'
  BY <1>12 DEF StopLossTrips, States
<1>13. ASSUME SlPhotograph PROVE KnownInv'
  BY <1>13 DEF SlPhotograph
<1>14. ASSUME SlNotSold PROVE KnownInv'
  BY <1>14 DEF SlNotSold, SlCanceled, SomeToSell, EmptyBooks, States
<1>15. ASSUME SlSold PROVE KnownInv'
  BY <1>15 DEF SlSold, SlCanceled, EmptyBooks, States
<1> QED
  BY <1>1, <1>2, <1>3, <1>4, <1>5, <1>6, <1>7, <1>8, <1>9, <1>10, <1>11,
     <1>12, <1>13, <1>14, <1>15

LEMMA OrderStepKeepsKnownInv ==
    ASSUME NoHiddenOrders, OrderType, OrderType', KnownInv,
           NEW o \in Ids, OrderStep(o)
    PROVE  KnownInv'
<1> USE BotAssumption DEF OrderType, KnownInv, LiveOrdersKnown, Live,
     NoHiddenOrders, venueVars, memVars, durVars, tickVars, obsVars,
     NoFault, Fault, Ids
<1>1. ASSUME StopCancel(o) PROVE KnownInv'
  BY <1>1 DEF StopCancel, CancelOutcome, DropSell, CancelAtVenue, States
<1>2. ASSUME CancelLadder(o) PROVE KnownInv'
  BY <1>2 DEF CancelLadder, CancelOutcome, DropSell, CancelAtVenue, States
<1>3. ASSUME PlaceLadder(o) PROVE KnownInv'
  <2>1. pc = "ladder" /\ pc' = pc /\ asked' = asked
    BY <1>3 DEF PlaceLadder, LadderReady
  <2>2. CASE status[o] = "none" /\ AcceptSell(o, 1)
               /\ st' = [st EXCEPT !.sells = @ \cup {o}]
    BY <2>1, <2>2 DEF AcceptSell, States
  <2>3. CASE UNCHANGED <<venueVars, st>>
    BY <2>1, <2>3
  <2> QED
    BY <1>3, <2>2, <2>3 DEF PlaceLadder, IsNext
<1>4. ASSUME BuyNotFilled(o) PROVE KnownInv'
  BY <1>4 DEF BuyNotFilled, InBuys, DropBuy, HasFill, Terminal, States
<1>5. ASSUME BuyBecomesPosition(o) PROVE KnownInv'
  BY <1>5 DEF BuyBecomesPosition, InBuys, DropBuy, Book, HasFill, States
<1>6. ASSUME BuySendsTakeProfit(o) PROVE KnownInv'
  <2>1. pc \in {"buys1", "buys2"} /\ pc' = pc /\ filled[o] > 0 /\ asked' = asked
    BY <1>6 DEF BuySendsTakeProfit, InBuys, HasFill
  <2>2. ASSUME NEW n \in SellIds, status[n] = "none", AcceptSell(n, filled[o]),
               st' = [DropBuy(st, o) EXCEPT !.sells = @ \cup {n},
                                            !.tp = @ \cup {n}]
        PROVE  KnownInv'
    <3>1. st'.buys = st.buys \ {o} /\ st'.sells = st.sells \cup {n}
      BY <2>2 DEF DropBuy, States
    <3>2. status' = [status EXCEPT ![n] = "open"] /\ filled' = filled
      BY <2>2 DEF AcceptSell
    <3> QED
      BY <2>1, <2>2, <3>1, <3>2
  <2>3. ASSUME st' = DropBuy(st, o), UNCHANGED venueVars
        PROVE  KnownInv'
    <3>1. st'.buys = st.buys \ {o} /\ st'.sells = st.sells
      BY <2>3 DEF DropBuy, States
    <3> QED
      BY <2>1, <2>3, <3>1
  <2> QED
    BY <1>6, <2>2, <2>3 DEF BuySendsTakeProfit, IsNext
<1>7. ASSUME ResolveSell(o) PROVE KnownInv'
  <2>1. pc \in {"sells1", "sells2"} /\ pc' = pc /\ UNCHANGED <<venueVars, asked>>
    BY <1>7 DEF ResolveSell, InSells
  <2>2. \/ st' = st
        \/ st' = DropSell(st, o) /\ ~Live(o)
    BY <1>7 DEF ResolveSell, HasFill, Terminal
  <2>3. CASE st' = st
    BY <2>1, <2>3
  <2>4. CASE st' = DropSell(st, o) /\ ~Live(o)
    <3>1. st'.buys = st.buys /\ st'.sells = st.sells \ {o}
      BY <2>4 DEF DropSell, States
    <3> QED
      BY <2>1, <2>4, <3>1
  <2> QED
    BY <2>2, <2>3, <2>4
<1>8. ASSUME CancelBuy(o) PROVE KnownInv'
  BY <1>8 DEF CancelBuy, CancelAtVenue, DropBuy, States
<1>9. ASSUME PlaceBuy(o) PROVE KnownInv'
  BY <1>9 DEF PlaceBuy, ExecReady, IsNext, AcceptBuy, States
<1>10. ASSUME SlResolve(o) PROVE KnownInv'
  BY <1>10 DEF SlResolve, Book, DropBuy, HasFill, Terminal, States
<1>11. ASSUME SlCancel(o) PROVE KnownInv'
  <2>1. pc = "slCancel" /\ pc' = pc /\ st' = st /\ todo' = todo \ {o}
        /\ asked' = asked \cup {o}
    BY <1>11 DEF SlCancel
  <2>2. CASE CancelAtVenue(o)
    BY <2>1, <2>2 DEF CancelAtVenue
  <2>3. CASE UNCHANGED venueVars
    BY <2>1, <2>3
  <2> QED
    BY <1>11, <2>2, <2>3 DEF SlCancel, CancelOutcome
<1> QED
  BY <1>1, <1>2, <1>3, <1>4, <1>5, <1>6, <1>7, <1>8, <1>9, <1>10, <1>11
     DEF OrderStep

LEMMA NextKeepsKnownInv ==
    ASSUME NoHiddenOrders, OrderType, OrderType', KnownInv, [Next]_vars
    PROVE  KnownInv'
<1>1. CASE UNCHANGED vars
  BY <1>1 DEF KnownInv, LiveOrdersKnown, Live, vars, venueVars, memVars,
     durVars, tickVars, obsVars
<1>2. CASE Next
  BY <1>2, EnvironmentKeepsKnownInv, TickKeepsKnownInv, OrderStepKeepsKnownInv
     DEF Next, BotStep
<1> QED
  BY <1>1, <1>2

LEMMA KnownInvHolds ==
    ASSUME NoHiddenOrders
    PROVE  Spec => [](IndType /\ KnownInv)
<1>1. Init => KnownInv
  BY InitKnownInv
<1>2. IndType /\ IndType' /\ KnownInv /\ [Next]_vars => KnownInv'
  <2>1. IndType' => OrderType'
    BY DEF IndType, VenueType, BotType, GoodBooks, OrderType
  <2> QED
    BY <2>1, NextKeepsKnownInv, IndTypeGivesOrderType
<1> QED
  BY <1>1, <1>2, InductiveTypes, PTL DEF Spec

\* Whatever crashes and whichever cancellations fail, an order that is live and in
\* no book is one that the bot has asked the venue to cancel.
THEOREM KnownSafety ==
    ASSUME NoHiddenOrders
    PROVE  Spec => []LiveOrdersKnown
<1>1. KnownInv => LiveOrdersKnown
  BY DEF KnownInv
<1> QED
  BY <1>1, KnownInvHolds, PTL

-----------------------------------------------------------------------------
(* A stop-loss on disk                                                     *)

LEMMA InitFlatInv == Init => FlatInv
BY BotAssumption DEF Init, FlatInv, NothingLive, Stopping, NoPlacing, Live,
   FreshState, NoPlan

LEMMA EnvironmentKeepsFlatInv ==
    ASSUME NoSilentOrders, MaxCrashes <= 1, OrderType, OrderType',
           LiveInv, LiveInv', FlatInv,
           \/ Environment
           \/ Crash \/ \E o \in BuyIds : CrashInTakeProfit(o)
           \/ Boot \/ Persist
    PROVE  FlatInv'
<1> USE BotAssumption DEF OrderType, LiveInv, FlatInv,
     NothingLive, Stopping, NoPlacing, Live, NoSilentOrders,
     venueVars, memVars, durVars, tickVars, obsVars, NoFault, Fault, Ids
<1>1. ASSUME NEW o \in Ids, VenueFill(o) PROVE FlatInv'
  BY <1>1 DEF VenueFill
<1>2. ASSUME NEW o \in Ids, VenueExpire(o) PROVE FlatInv'
  BY <1>2 DEF VenueExpire, CancelAtVenue
<1>3. ASSUME Deposit PROVE FlatInv'
  BY <1>3 DEF Deposit
<1>4. ASSUME SafeMode PROVE FlatInv'
  BY <1>4 DEF SafeMode
<1>5. ASSUME Crash PROVE FlatInv'
  BY <1>5 DEF Crash, FreshState, TickReset, NoPlan, States
<1>6. ASSUME NEW o \in Ids, CrashInTakeProfit(o) PROVE FlatInv'
  BY <1>6 DEF CrashInTakeProfit, InBuys, IsNext, AcceptSell, FreshState,
     TickReset, HasFill, NoPlan, States
<1>7. ASSUME Boot PROVE FlatInv'
  <2>1. /\ st'.buys = LoadedState.buys \cup (LiveIds \cap BuyIds)
        /\ st'.sells = LoadedState.sells \cup (LiveIds \cap SellIds)
        /\ st'.latched = LoadedState.latched
        /\ st'.named = LoadedState.named
    BY <1>7, BootBooks
  <2>2. /\ pc = "down" /\ pc' = "idle"
        /\ UNCHANGED <<venueVars, disk, plan, crashes, todo>>
    BY <1>7 DEF Boot
  <2>3. CASE disk.named
    <3>1. /\ LoadedState.buys = disk.buys /\ LoadedState.sells = disk.sells
          /\ LoadedState.latched = disk.latched
      BY <2>3 DEF LoadedState, States
    <3>2. crashes # 0
      BY <2>2, <2>3
    <3> QED
      BY <2>1, <2>2, <3>1, <3>2 DEF LiveIds
  <2>4. CASE ~disk.named
    <3>1. ~LoadedState.latched /\ LoadedState.named
      BY <2>4 DEF LoadedState, FreshState
    <3> QED
      BY <2>1, <2>2, <2>4, <3>1
  <2> QED
    BY <2>3, <2>4
<1>8. ASSUME Persist PROVE FlatInv'
  BY <1>8 DEF Persist, TickReset, NoPlan, States
<1>9. ASSUME NEW o \in Ids, LeftoverSell(o) PROVE FlatInv'
  BY <1>9 DEF LeftoverSell
<1> QED
  BY <1>1, <1>2, <1>3, <1>4, <1>5, <1>6, <1>7, <1>8, <1>9
     DEF Environment

LEMMA TickKeepsFlatInv ==
    ASSUME NoSilentOrders, MaxCrashes <= 1, OrderType, OrderType',
           LiveInv, LiveInv', FlatInv,
           \/ TickBlocked \/ TickDecides
           \/ StopNotSold \/ StopReplyLost \/ StopSold
           \/ BeginFills1 \/ BuysDone \/ EndOfFills2
           \/ PreflightOk \/ PreflightBlocked \/ BeginFills2
           \/ StopLossTrips \/ SlPhotograph \/ SlNotSold \/ SlSold
    PROVE  FlatInv'
<1> USE BotAssumption DEF OrderType, LiveInv, FlatInv,
     NothingLive, Stopping, NoPlacing, Live, NoSilentOrders,
     venueVars, memVars, durVars, tickVars, obsVars, NoFault, Fault, Ids
<1>1. ASSUME TickBlocked PROVE FlatInv'
  BY <1>1 DEF TickBlocked
<1>2. ASSUME TickDecides PROVE FlatInv'
  <2>1. /\ pc = "idle" /\ pc' \in {"stop", "ladder"}
        /\ todo' = {} \/ todo' = st.sells
        /\ UNCHANGED <<venueVars, st, disk, crashes>>
    BY <1>2 DEF TickDecides
  <2>2. st.latched /\ pc' = "ladder" => NoPlacing'
    BY <1>2, ZenonT(60) DEF TickDecides, Gated, MayTrade, PlanOf
  <2> QED
    BY <2>1, <2>2
<1>3. ASSUME StopNotSold PROVE FlatInv'
  BY <1>3 DEF StopNotSold, StopDone, SomeToSell, Gated, MayTrade
<1>4. ASSUME StopReplyLost PROVE FlatInv'
  BY <1>4 DEF StopReplyLost, StopDone, Gated, MayTrade
<1>5. ASSUME StopSold PROVE FlatInv'
  <2>1. /\ pc = "stop" /\ pc' = "ladder"
        /\ UNCHANGED <<status, disk, crashes, todo>> /\ NoPlacing'
        /\ st' = [st EXCEPT !.pos = 0]
    BY <1>5 DEF StopSold, StopDone, AfterStop, NoPlan
  <2>2. /\ st'.buys = st.buys /\ st'.sells = st.sells
        /\ st'.latched = st.latched /\ st'.named = st.named
    BY <2>1 DEF States
  <2> QED
    BY <2>1, <2>2
<1>6. ASSUME BeginFills1 PROVE FlatInv'
  <2>1. /\ pc = "ladder" /\ pc' = "buys1" /\ todo' \subseteq st.buys
        /\ UNCHANGED <<venueVars, st, disk, crashes, plan>>
    BY <1>6 DEF BeginFills1, FillsBegin, LadderReady, Unresolved
  <2> QED
    BY <2>1
<1>7. ASSUME BuysDone PROVE FlatInv'
  BY <1>7 DEF BuysDone, InBuys, Unresolved
<1>8. ASSUME EndOfFills2 PROVE FlatInv'
  BY <1>8 DEF EndOfFills2, SellsDone, InSells
<1>9. ASSUME PreflightOk PROVE FlatInv'
  BY <1>9 DEF PreflightOk, SellsDone, InSells
<1>10. ASSUME PreflightBlocked PROVE FlatInv'
  BY <1>10 DEF PreflightBlocked, SellsDone, InSells, States
<1>11. ASSUME BeginFills2 PROVE FlatInv'
  <2>1. /\ pc = "exec" /\ pc' = "buys2" /\ todo' \subseteq st.buys
        /\ UNCHANGED <<venueVars, st, disk, crashes, plan>>
    BY <1>11 DEF BeginFills2, FillsBegin, ExecReady, Unresolved
  <2> QED
    BY <2>1
<1>12. ASSUME StopLossTrips PROVE FlatInv'
  BY <1>12 DEF StopLossTrips, States
<1>13. ASSUME SlPhotograph PROVE FlatInv'
  BY <1>13 DEF SlPhotograph
<1>14. ASSUME SlNotSold PROVE FlatInv'
  BY <1>14 DEF SlNotSold, SlCanceled, SomeToSell, EmptyBooks, States
<1>15. ASSUME SlSold PROVE FlatInv'
  <2>1. /\ pc = "slCancel" /\ pc' = "persist" /\ todo = {}
        /\ UNCHANGED <<status, disk, crashes, plan, todo>>
        /\ st' = EmptyBooks(st)
    BY <1>15 DEF SlSold, SlCanceled
  <2>2. /\ st'.buys = {} /\ st'.sells = {} /\ st'.named = st.named
    BY <2>1 DEF EmptyBooks, States
  <2>3. \A o \in Ids : ~Live(o)
    BY <2>1
  <2> QED
    BY <2>1, <2>2, <2>3
<1> QED
  BY <1>1, <1>2, <1>3, <1>4, <1>5, <1>6, <1>7, <1>8, <1>9, <1>10, <1>11,
     <1>12, <1>13, <1>14, <1>15

LEMMA OrderStepKeepsFlatInv ==
    ASSUME NoSilentOrders, MaxCrashes <= 1, OrderType, OrderType',
           LiveInv, LiveInv', FlatInv,
           NEW o \in Ids, OrderStep(o)
    PROVE  FlatInv'
<1> USE BotAssumption DEF OrderType, LiveInv, FlatInv,
     NothingLive, Stopping, NoPlacing, Live, NoSilentOrders,
     venueVars, memVars, durVars, tickVars, obsVars, NoFault, Fault, Ids
<1>1. ASSUME StopCancel(o) PROVE FlatInv'
  BY <1>1 DEF StopCancel, CancelOutcome, DropSell, CancelAtVenue, States
<1>2. ASSUME CancelLadder(o) PROVE FlatInv'
  BY <1>2 DEF CancelLadder, CancelOutcome, DropSell, CancelAtVenue, States
<1>3. ASSUME PlaceLadder(o) PROVE FlatInv'
  <2>1. /\ pc = "ladder" /\ pc' = pc /\ plan.ladder # 0
        /\ UNCHANGED <<disk, crashes, todo>>
        /\ st' = st \/ st' = [st EXCEPT !.sells = @ \cup {o}]
    BY <1>3 DEF PlaceLadder, LadderReady
  <2>2. ~st.latched /\ ~disk.latched
    BY <2>1
  <2>3. st'.latched = st.latched /\ st'.named = st.named
    BY <2>1 DEF States
  <2> QED
    BY <2>1, <2>2, <2>3
<1>4. ASSUME BuyNotFilled(o) PROVE FlatInv'
  BY <1>4 DEF BuyNotFilled, InBuys, DropBuy, HasFill, Terminal, States
<1>5. ASSUME BuyBecomesPosition(o) PROVE FlatInv'
  BY <1>5 DEF BuyBecomesPosition, InBuys, DropBuy, Book, HasFill, States
<1>6. ASSUME BuySendsTakeProfit(o) PROVE FlatInv'
  BY <1>6, ZenonT(60) DEF BuySendsTakeProfit, InBuys, IsNext, AcceptSell, DropBuy,
     Book, HasFill, States
<1>7. ASSUME ResolveSell(o) PROVE FlatInv'
  BY <1>7, ZenonT(60) DEF ResolveSell, InSells, DropSell, Book, HasFill, Terminal,
     States
<1>8. ASSUME CancelBuy(o) PROVE FlatInv'
  BY <1>8 DEF CancelBuy, CancelAtVenue, DropBuy, States
<1>9. ASSUME PlaceBuy(o) PROVE FlatInv'
  BY <1>9 DEF PlaceBuy, ExecReady, IsNext, AcceptBuy, States
<1>10. ASSUME SlResolve(o) PROVE FlatInv'
  BY <1>10 DEF SlResolve, Book, DropBuy, HasFill, Terminal, States
<1>11. ASSUME SlCancel(o) PROVE FlatInv'
  BY <1>11 DEF SlCancel, CancelOutcome, CancelAtVenue
<1> QED
  BY <1>1, <1>2, <1>3, <1>4, <1>5, <1>6, <1>7, <1>8, <1>9, <1>10, <1>11
     DEF OrderStep

LEMMA NextKeepsFlatInv ==
    ASSUME NoSilentOrders, MaxCrashes <= 1, OrderType, OrderType',
           LiveInv, LiveInv', FlatInv, [Next]_vars
    PROVE  FlatInv'
<1>1. CASE UNCHANGED vars
  BY <1>1 DEF FlatInv, NothingLive, Stopping, NoPlacing, Live, vars,
     venueVars, memVars, durVars, tickVars, obsVars
<1>2. CASE Next
  BY <1>2, EnvironmentKeepsFlatInv, TickKeepsFlatInv, OrderStepKeepsFlatInv
     DEF Next, BotStep
<1> QED
  BY <1>1, <1>2

LEMMA FlatInvHolds ==
    ASSUME NoSilentOrders, MaxCrashes <= 1
    PROVE  Spec => []FlatInv
<1>1. Init => FlatInv
  BY InitFlatInv
<1>2. IndType /\ IndType' /\ LiveInv /\ LiveInv' /\ FlatInv /\ [Next]_vars
        => FlatInv'
  <2>1. IndType' => OrderType'
    BY DEF IndType, VenueType, BotType, GoodBooks, OrderType
  <2> QED
    BY <2>1, NextKeepsFlatInv, IndTypeGivesOrderType
<1> QED
  BY <1>1, <1>2, LiveInvHolds, PTL DEF Spec

\* With at most one crash, the bot whose state file says that its stop-loss is
\* done has no order live at the venue: the stop canceled them all, and nothing
\* since, in this process or the next, opened another.
THEOREM StopLeavesNoOrder ==
    ASSUME NoSilentOrders, MaxCrashes <= 1
    PROVE  Spec => [](NothingLive /\ StoppedBookIsFlat)
<1>1. FlatInv => NothingLive /\ StoppedBookIsFlat
  BY DEF FlatInv, NothingLive, StoppedBookIsFlat
<1> QED
  BY <1>1, FlatInvHolds, PTL

\* The state file is written by Persist alone, which talks to no venue.
LEMMA DiskOrVenue ==
    ASSUME [Next]_vars
    PROVE  disk' = disk \/ status' = status
<1> USE DEF venueVars, memVars, durVars, obsVars
<1>1. CASE UNCHANGED vars
  BY <1>1 DEF vars
<1>2. CASE Environment
  BY <1>2 DEF Environment, VenueFill, VenueExpire, LeftoverSell, Deposit,
     SafeMode
<1>3. CASE Crash \/ (\E o \in BuyIds : CrashInTakeProfit(o)) \/ Boot
  BY <1>3 DEF Crash, CrashInTakeProfit, Boot
<1>4. CASE Persist
  BY <1>4 DEF Persist
<1>5. CASE \/ TickBlocked \/ TickDecides
           \/ StopNotSold \/ StopReplyLost \/ StopSold
           \/ BeginFills1 \/ BuysDone \/ EndOfFills2
           \/ PreflightOk \/ PreflightBlocked \/ BeginFills2
           \/ StopLossTrips \/ SlPhotograph \/ SlNotSold \/ SlSold
  BY <1>5 DEF TickBlocked, TickDecides, StopNotSold, StopReplyLost, StopSold,
     BeginFills1, BuysDone, EndOfFills2, PreflightOk, PreflightBlocked,
     BeginFills2, FillsBegin, StopLossTrips, SlPhotograph, SlNotSold, SlSold
<1>6. CASE \E o \in Ids : OrderStep(o)
  BY <1>6 DEF OrderStep, StopCancel, CancelLadder, PlaceLadder, BuyNotFilled,
     BuyBecomesPosition, BuySendsTakeProfit, ResolveSell, CancelBuy, PlaceBuy,
     SlResolve, SlCancel
<1> QED
  BY <1>1, <1>2, <1>3, <1>4, <1>5, <1>6 DEF Next, BotStep

\* With at most one crash, once the stop-loss is on disk no order is opened any
\* more.  Two crashes refute it (README, section 4): this bound is exactly
\* what the state file without its symbol costs.
THEOREM StopPersistence ==
    ASSUME NoSilentOrders, MaxCrashes <= 1
    PROVE  Spec => StopIsPersistent
<1>1. ASSUME FlatInv', [Next]_vars, disk.latched, NEW o \in Ids, Live(o)'
      PROVE  Live(o)
  <2>1. CASE disk' = disk
    BY <1>1, <2>1 DEF FlatInv, NothingLive
  <2>2. CASE status' = status
    BY <1>1, <2>2 DEF Live
  <2> QED
    BY <1>1, <2>1, <2>2, DiskOrVenue
<1>2. FlatInv' /\ [Next]_vars =>
        [disk.latched => \A o \in Ids : Live(o)' => Live(o)]_vars
  BY <1>1
<1> QED
  BY <1>2, FlatInvHolds, PTL DEF Spec, StopIsPersistent

-----------------------------------------------------------------------------
(* The grid never exceeds its levels                                       *)

(* A placement is counted when the tick decides it, in the books of then,  *)
(* without the buys it is to cancel: one whose cancellation fails stays in *)
(* the books, but has been asked.  The bound holds because every live buy  *)
(* is in the books or was asked to be canceled, and because nothing but a  *)
(* placement adds to them until the plan is carried out.                   *)
Kept == st.buys \ (plan.cancel \cup asked)

LevelInv ==
    /\ LiveBuysWithinLevels
    /\ pc = "down" => plan.place = 0
    /\ plan.place > 0 => Cardinality(Kept) + plan.place <= Levels

LEMMA SubsetsOfBuys ==
    ASSUME NEW B \in SUBSET BuyIds, NEW A \in SUBSET B
    PROVE  /\ Cardinality(A) \in Nat /\ Cardinality(B) \in Nat
           /\ Cardinality(A) <= Cardinality(B)
<1>1. IsFiniteSet(B)
  BY BotAssumption, FS_Subset
<1> QED
  BY <1>1, FS_Subset, FS_CardinalityType

LEMMA OneMoreBuy ==
    ASSUME NEW B \in SUBSET BuyIds, NEW o \in BuyIds
    PROVE  Cardinality(B \cup {o}) <= Cardinality(B) + 1
<1>1. IsFiniteSet(B)
  BY BotAssumption, FS_Subset
<1>2. Cardinality(B) \in Nat
  BY <1>1, FS_CardinalityType
<1>3. Cardinality(B \cup {o}) \in {Cardinality(B), Cardinality(B) + 1}
  BY <1>1, FS_AddElement
<1> QED
  BY <1>2, <1>3

\* A step that makes no buy live, and leaves no more to place nor in the books
\* beside what it is to cancel.
LEMMA NothingAdded ==
    ASSUME OrderType, OrderType', LevelInv, asked \subseteq asked',
           \A o \in BuyIds : Live(o)' => Live(o),
           \/ plan'.place = 0
           \/ /\ pc' = "down" => pc = "down"
              /\ Kept' \subseteq Kept
              /\ plan'.place <= plan.place
    PROVE  LevelInv'
<1>1. LiveBuysWithinLevels'
  <2> DEFINE before == {o \in BuyIds : Live(o)} \ asked
             after == {o \in BuyIds : Live(o)'} \ asked'
  <2>1. after \subseteq before /\ before \in SUBSET BuyIds
    OBVIOUS
  <2>2. /\ Cardinality(after) <= Cardinality(before)
        /\ Cardinality(after) \in Nat /\ Cardinality(before) \in Nat
    BY <2>1, SubsetsOfBuys
  <2> QED
    BY <2>2, BotAssumption DEF LevelInv, LiveBuysWithinLevels
<1>2. plan.place \in Nat /\ plan'.place \in Nat
  BY DEF OrderType, Plans
<1>3. CASE plan'.place = 0
  BY <1>1, <1>3 DEF LevelInv
<1>4. CASE /\ pc' = "down" => pc = "down"
           /\ Kept' \subseteq Kept
           /\ plan'.place <= plan.place
  <2>1. Kept \in SUBSET BuyIds
    BY DEF OrderType, States, Kept
  <2>2. /\ Cardinality(Kept') <= Cardinality(Kept)
        /\ Cardinality(Kept') \in Nat /\ Cardinality(Kept) \in Nat
    BY <1>4, <2>1, SubsetsOfBuys
  <2> QED
    BY <1>1, <1>2, <1>4, <2>2, BotAssumption DEF LevelInv
<1> QED
  BY <1>3, <1>4

LEMMA SamePlan ==
    ASSUME OrderType, OrderType', LevelInv, asked \subseteq asked',
           UNCHANGED plan, pc' = "down" => pc = "down",
           \A o \in BuyIds : Live(o)' => Live(o),
           st'.buys \subseteq st.buys
    PROVE  LevelInv'
<1>1. plan'.place <= plan.place
  BY DEF OrderType, Plans
<1>2. Kept' \subseteq Kept
  BY DEF Kept
<1> QED
  BY <1>1, <1>2, NothingAdded

\* What was asked stays asked.
LEMMA AskedGrows ==
    ASSUME [Next]_vars
    PROVE  asked \subseteq asked'
<1> USE DEF obsVars
<1>1. CASE UNCHANGED vars
  BY <1>1 DEF vars
<1>2. CASE Environment
  BY <1>2 DEF Environment, VenueFill, VenueExpire, LeftoverSell, Deposit,
     SafeMode
<1>3. CASE Crash \/ (\E o \in BuyIds : CrashInTakeProfit(o)) \/ Boot \/ Persist
  BY <1>3 DEF Crash, CrashInTakeProfit, Boot, Persist
<1>4. CASE \/ TickBlocked \/ TickDecides
           \/ StopNotSold \/ StopReplyLost \/ StopSold
           \/ BeginFills1 \/ BuysDone \/ EndOfFills2
           \/ PreflightOk \/ PreflightBlocked \/ BeginFills2
           \/ StopLossTrips \/ SlPhotograph \/ SlNotSold \/ SlSold
  BY <1>4 DEF TickBlocked, TickDecides, StopNotSold, StopReplyLost, StopSold,
     BeginFills1, BuysDone, EndOfFills2, PreflightOk, PreflightBlocked,
     BeginFills2, FillsBegin, StopLossTrips, SlPhotograph, SlNotSold, SlSold
<1>5. CASE \E o \in Ids : OrderStep(o)
  BY <1>5 DEF OrderStep, StopCancel, CancelLadder, PlaceLadder, BuyNotFilled,
     BuyBecomesPosition, BuySendsTakeProfit, ResolveSell, CancelBuy, PlaceBuy,
     SlResolve, SlCancel
<1> QED
  BY <1>1, <1>2, <1>3, <1>4, <1>5 DEF Next, BotStep

LEMMA InitLevelInv == Init => LevelInv
<1> SUFFICES ASSUME Init PROVE LevelInv
  OBVIOUS
<1>1. {o \in BuyIds : Live(o)} = {}
  BY DEF Init, Live, Ids
<1> QED
  BY <1>1, FS_EmptySet, BotAssumption, SMTT(30)
     DEF Init, LevelInv, LiveBuysWithinLevels, NoPlan

LEMMA EnvironmentKeepsLevelInv ==
    ASSUME OrderType, OrderType', LevelInv, asked \subseteq asked',
           \/ Environment
           \/ Crash \/ \E o \in BuyIds : CrashInTakeProfit(o)
           \/ Boot \/ Persist
    PROVE  LevelInv'
<1> USE BotAssumption DEF OrderType, Live, venueVars, memVars, durVars,
     tickVars, Ids, Kept
<1>1. ASSUME NEW o \in Ids, VenueFill(o) \/ VenueExpire(o) \/ LeftoverSell(o)
      PROVE  LevelInv'
  <2>1. UNCHANGED <<pc, st, plan>>
    BY <1>1 DEF VenueFill, VenueExpire, LeftoverSell
  <2>2. \A p \in BuyIds : Live(p)' => Live(p)
    BY <1>1 DEF VenueFill, VenueExpire, CancelAtVenue, LeftoverSell, IsNext
  <2> QED
    BY <2>1, <2>2, SamePlan
<1>2. ASSUME Deposit \/ SafeMode PROVE LevelInv'
  <2>1. UNCHANGED <<pc, st, plan, status>>
    BY <1>2 DEF Deposit, SafeMode, obsVars
  <2> QED
    BY <2>1, SamePlan
<1>3. ASSUME Crash \/ Persist PROVE LevelInv'
  <2>1. plan'.place = 0 /\ UNCHANGED status
    BY <1>3 DEF Crash, Persist, TickReset, NoPlan
  <2> QED
    BY <2>1, NothingAdded
<1>4. ASSUME NEW o \in BuyIds, CrashInTakeProfit(o) PROVE LevelInv'
  <2>1. plan'.place = 0
    BY <1>4 DEF CrashInTakeProfit, TickReset, NoPlan
  <2>2. \A p \in BuyIds : Live(p)' => Live(p)
    BY <1>4 DEF CrashInTakeProfit, IsNext, AcceptSell
  <2> QED
    BY <2>1, <2>2, NothingAdded
<1>5. ASSUME Boot PROVE LevelInv'
  <2>1. plan'.place = 0 /\ UNCHANGED status
    BY <1>5 DEF Boot, LevelInv
  <2> QED
    BY <2>1, NothingAdded
<1> QED
  BY <1>1, <1>2, <1>3, <1>4, <1>5 DEF Environment

LEMMA TickKeepsLevelInv ==
    ASSUME OrderType, OrderType', LevelInv, asked \subseteq asked',
           \/ TickBlocked \/ TickDecides
           \/ StopNotSold \/ StopReplyLost \/ StopSold
           \/ BeginFills1 \/ BuysDone \/ EndOfFills2
           \/ PreflightOk \/ PreflightBlocked \/ BeginFills2
           \/ StopLossTrips \/ SlPhotograph \/ SlNotSold \/ SlSold
    PROVE  LevelInv'
<1> USE BotAssumption DEF OrderType, Live, venueVars, memVars, durVars,
     tickVars, Ids, Kept
<1>1. ASSUME \/ TickBlocked \/ BeginFills1 \/ BuysDone \/ EndOfFills2
             \/ PreflightOk \/ BeginFills2 \/ StopLossTrips \/ SlPhotograph
      PROVE  LevelInv'
  <2>1. pc' # "down" /\ UNCHANGED <<plan, status>> /\ st'.buys = st.buys
    BY <1>1 DEF TickBlocked, BeginFills1, BuysDone, EndOfFills2, PreflightOk,
       BeginFills2, FillsBegin, LadderReady, ExecReady, InBuys, SellsDone,
       InSells, StopLossTrips, obsVars, SlPhotograph, States
  <2> QED
    BY <2>1, SamePlan
<1>2. ASSUME TickDecides PROVE LevelInv'
  <2> PICK d \in Decisions, snap \in BOOLEAN, b \in Shown :
             /\ PolicyDecides(d, b)
             /\ plan' \in {PlanOf(d, snap), Gated(PlanOf(d, snap))}
    BY <1>2, Zenon DEF TickDecides
  <2>1. /\ pc' # "down" /\ UNCHANGED <<status, st>>
        /\ d.place \in Nat /\ d.place <= Levels
    BY <1>2 DEF TickDecides, Decisions
  <2>2. plan'.place > 0 => plan'.place = d.place /\ plan'.cancel = d.cancel
    <3>1. PlanOf(d, snap).place = d.place /\ PlanOf(d, snap).cancel = d.cancel
      BY DEF PlanOf
    <3>2. /\ Gated(PlanOf(d, snap)).place \in {0, d.place}
          /\ Gated(PlanOf(d, snap)).cancel = d.cancel
      BY DEF PlanOf, Gated
    <3> QED
      BY <3>1, <3>2
  <2>3. d.place > 0 => Cardinality(st.buys \ d.cancel) + d.place <= Levels
    <3>1. Cardinality(st.buys \ d.cancel) \in Nat
      <4>1. st.buys \ d.cancel \in SUBSET BuyIds
        BY DEF States
      <4> QED
        BY <4>1, SubsetsOfBuys
    <3>2. CASE StopMonitorato
      <4>1. d.place > 0 => st.buys = {}
        BY <3>2 DEF PolicyDecides, TrendDecides
      <4>2. st.buys = {} => Cardinality(st.buys \ d.cancel) = 0
        <5>1. {} \ d.cancel = {}
          OBVIOUS
        <5> QED
          BY <5>1, FS_EmptySet
      <4> QED
        BY <2>1, <4>1, <4>2
    <3>3. CASE ~StopMonitorato
      <4>1. d.place \in 0 .. Missing(d.cancel)
        BY <3>3 DEF PolicyDecides, GridDecides
      <4> QED
        BY <2>1, <3>1, <4>1 DEF Missing
    <3> QED
      BY <3>2, <3>3
  <2>4. LiveBuysWithinLevels'
    BY <1>2, <2>1 DEF TickDecides, LevelInv, LiveBuysWithinLevels
  <2>5. plan'.place > 0 => Cardinality(Kept') <= Cardinality(st.buys \ d.cancel)
    <3>1. plan'.place > 0 => Kept' \subseteq st.buys \ d.cancel
      BY <2>1, <2>2
    <3>2. st.buys \ d.cancel \in SUBSET BuyIds
      BY DEF States
    <3> HIDE DEF Kept
    <3> QED
      BY <3>1, <3>2, SubsetsOfBuys
  <2>6. plan'.place > 0 => Cardinality(Kept') + plan'.place <= Levels
    <3>1. Kept' \in SUBSET BuyIds /\ st.buys \ d.cancel \in SUBSET BuyIds
      BY <2>1 DEF States
    <3>2. Cardinality(Kept') \in Nat /\ Cardinality(st.buys \ d.cancel) \in Nat
      BY <3>1, SubsetsOfBuys
    <3> HIDE DEF Kept
    <3> QED
      BY <2>1, <2>2, <2>3, <2>5, <3>2
  <2> QED
    BY <2>1, <2>4, <2>6 DEF LevelInv
<1>3. ASSUME StopNotSold \/ StopReplyLost PROVE LevelInv'
  <2>1. plan' = Gated(plan) /\ pc' # "down" /\ UNCHANGED <<status, st>>
    BY <1>3 DEF StopNotSold, StopReplyLost, StopDone
  <2>2. plan'.place \in {0, plan.place} /\ plan'.cancel = plan.cancel
    BY <2>1 DEF Gated, Plans
  <2> QED
    BY <2>1, <2>2, NothingAdded DEF Plans
<1>4. ASSUME StopSold PROVE LevelInv'
  <2>1. plan'.place = 0 /\ UNCHANGED status
    BY <1>4 DEF StopSold, NoPlan
  <2> QED
    BY <2>1, NothingAdded
<1>5. ASSUME PreflightBlocked PROVE LevelInv'
  <2>1. /\ pc' # "down" /\ UNCHANGED plan
        /\ \A p \in BuyIds : Live(p)' => Live(p)
    BY <1>5 DEF PreflightBlocked
  <2>2. st'.buys \subseteq st.buys
    BY <1>5 DEF PreflightBlocked, States
  <2> QED
    BY <2>1, <2>2, NothingAdded DEF Plans
<1>6. ASSUME SlNotSold \/ SlSold PROVE LevelInv'
  <2>1. pc' # "down" /\ UNCHANGED <<plan, status>> /\ st'.buys = {}
    BY <1>6, ZenonT(60) DEF SlNotSold, SlSold, SlCanceled, EmptyBooks, States
  <2> QED
    BY <2>1, NothingAdded DEF Plans
<1> QED
  BY <1>1, <1>2, <1>3, <1>4, <1>5, <1>6

LEMMA OrderStepKeepsLevelInv ==
    ASSUME NoHiddenOrders, OrderType, OrderType', KnownInv', LevelInv,
           asked \subseteq asked',
           NEW o \in Ids, OrderStep(o)
    PROVE  LevelInv'
<1> USE BotAssumption DEF OrderType, Live, venueVars, memVars, durVars,
     tickVars, Ids, Kept
<1>1. ASSUME StopCancel(o) \/ CancelLadder(o) PROVE LevelInv'
  <2>1. /\ pc' # "down" /\ st'.buys = st.buys
        /\ plan'.place = plan.place /\ plan'.cancel = plan.cancel
    BY <1>1, ZenonT(60) DEF StopCancel, CancelLadder, DropSell, States, Plans
  <2>2. \A p \in BuyIds : Live(p)' => Live(p)
    BY <1>1 DEF StopCancel, CancelLadder, CancelOutcome, CancelAtVenue
  <2> QED
    BY <2>1, <2>2, NothingAdded DEF Plans
<1>2. ASSUME PlaceLadder(o) PROVE LevelInv'
  <2>1. /\ pc' # "down" /\ st'.buys = st.buys
        /\ plan'.place = plan.place /\ plan'.cancel = plan.cancel
    BY <1>2 DEF PlaceLadder, LadderReady, States, Plans
  <2>2. \A p \in BuyIds : Live(p)' => Live(p)
    BY <1>2 DEF PlaceLadder, IsNext, AcceptSell
  <2> QED
    BY <2>1, <2>2, NothingAdded DEF Plans
<1>3. ASSUME \/ BuyNotFilled(o) \/ BuyBecomesPosition(o) \/ ResolveSell(o)
             \/ SlResolve(o)
      PROVE  LevelInv'
  <2>1. UNCHANGED <<pc, plan, status>>
    BY <1>3 DEF BuyNotFilled, BuyBecomesPosition, ResolveSell, SlResolve
  <2>2. st'.buys \subseteq st.buys
    <3>1. \/ st' \in {st, DropBuy(st, o), DropSell(st, o)}
          \/ st' = [DropBuy(st, o) EXCEPT !.pos = filled[o]]
      BY <1>3 DEF BuyNotFilled, BuyBecomesPosition, ResolveSell, SlResolve
    <3>2. /\ DropBuy(st, o).buys = st.buys \ {o}
          /\ DropSell(st, o).buys = st.buys
          /\ [DropBuy(st, o) EXCEPT !.pos = filled[o]].buys = st.buys \ {o}
      BY DEF DropBuy, DropSell, States
    <3> QED
      BY <3>1, <3>2
  <2> QED
    BY <2>1, <2>2, SamePlan
<1>4. ASSUME BuySendsTakeProfit(o) PROVE LevelInv'
  <2>1. UNCHANGED <<pc, plan>>
    BY <1>4 DEF BuySendsTakeProfit
  <2>2. st'.buys \subseteq st.buys
    <3>1. DropBuy(st, o).buys = st.buys \ {o}
      BY DEF DropBuy, States
    <3>2. \A n : [DropBuy(st, o) EXCEPT !.sells = @ \cup {n},
                                       !.tp = @ \cup {n}].buys = st.buys \ {o}
      BY DEF DropBuy, States
    <3>3. \/ st' = DropBuy(st, o)
          \/ \E n \in SellIds : st' = [DropBuy(st, o) EXCEPT !.sells = @ \cup {n},
                                                            !.tp = @ \cup {n}]
      BY <1>4 DEF BuySendsTakeProfit
    <3> QED
      BY <3>1, <3>2, <3>3
  <2>3. \A p \in BuyIds : Live(p)' => Live(p)
    BY <1>4, ZenonT(60) DEF BuySendsTakeProfit, IsNext, AcceptSell
  <2> QED
    BY <2>1, <2>2, <2>3, SamePlan
<1>5. ASSUME CancelBuy(o) PROVE LevelInv'
  <2>1. /\ pc' # "down" /\ plan'.place = plan.place
        /\ plan'.cancel = plan.cancel \ {o} /\ st'.buys \subseteq st.buys
        /\ asked' = asked \cup {o}
    BY <1>5 DEF CancelBuy, DropBuy, States, Plans
  <2>2. \A p \in BuyIds : Live(p)' => Live(p)
    BY <1>5 DEF CancelBuy, CancelAtVenue
  <2> QED
    BY <2>1, <2>2, NothingAdded DEF Plans
<1>6. ASSUME PlaceBuy(o) PROVE LevelInv'
  <2>1. /\ pc' = pc /\ pc = "exec" /\ o \in BuyIds
        /\ plan.cancel = {} /\ plan'.cancel = {}
        /\ plan.place > 0 /\ plan'.place = plan.place - 1
        /\ plan.place \in Nat
    BY <1>6 DEF PlaceBuy, ExecReady, IsNext, Plans
  <2>2. st'.buys \subseteq st.buys \cup {o}
    BY <1>6 DEF PlaceBuy, States
  <2> DEFINE live == {p \in BuyIds : Live(p)'} \ asked'
  <2>3. live \subseteq Kept'
    BY <2>1 DEF KnownInv, LiveOrdersKnown, States
  <2>4. Cardinality(Kept') <= Cardinality(Kept) + 1
        /\ Cardinality(Kept') \in Nat /\ Cardinality(Kept) \in Nat
    <3>1. Kept \in SUBSET BuyIds /\ Kept \cup {o} \in SUBSET BuyIds
      BY <2>1 DEF States
    <3>2. Kept' \subseteq Kept \cup {o}
      BY <2>1, <2>2
    <3> HIDE DEF Kept
    <3>3. /\ Cardinality(Kept') <= Cardinality(Kept \cup {o})
          /\ Cardinality(Kept') \in Nat /\ Cardinality(Kept \cup {o}) \in Nat
      BY <3>1, <3>2, SubsetsOfBuys
    <3>4. /\ Cardinality(Kept \cup {o}) <= Cardinality(Kept) + 1
          /\ Cardinality(Kept) \in Nat
      BY <2>1, <3>1, OneMoreBuy, SubsetsOfBuys
    <3> QED
      BY <3>3, <3>4
  <2> HIDE DEF Kept
  <2>6. Cardinality(Kept') + plan'.place <= Levels /\ Cardinality(Kept') <= Levels
    BY <2>1, <2>4 DEF LevelInv
  <2>7. LiveBuysWithinLevels'
    <3>1. Kept' \in SUBSET BuyIds
      BY DEF States, Kept
    <3>2. Cardinality(live) <= Cardinality(Kept') /\ Cardinality(live) \in Nat
      BY <2>3, <3>1, SubsetsOfBuys
    <3> QED
      BY <2>4, <2>6, <3>2 DEF LiveBuysWithinLevels
  <2> QED
    BY <2>1, <2>6, <2>7 DEF LevelInv
<1>7. ASSUME SlCancel(o) PROVE LevelInv'
  <2>1. pc' # "down" /\ UNCHANGED <<plan, st>>
    BY <1>7 DEF SlCancel
  <2>2. \A p \in BuyIds : Live(p)' => Live(p)
    BY <1>7 DEF SlCancel, CancelOutcome, CancelAtVenue
  <2> QED
    BY <2>1, <2>2, SamePlan
<1> QED
  BY <1>1, <1>2, <1>3, <1>4, <1>5, <1>6, <1>7 DEF OrderStep

LEMMA NextKeepsLevelInv ==
    ASSUME NoHiddenOrders, OrderType, OrderType', KnownInv', LevelInv,
           [Next]_vars
    PROVE  LevelInv'
<1>1. CASE UNCHANGED vars
  BY <1>1 DEF LevelInv, Kept, LiveBuysWithinLevels, Live, vars, venueVars,
     memVars, tickVars, obsVars
<1>2. CASE Next
  BY <1>2, AskedGrows, EnvironmentKeepsLevelInv, TickKeepsLevelInv,
     OrderStepKeepsLevelInv DEF Next, BotStep
<1> QED
  BY <1>1, <1>2

\* grid.py 14, "piazza SOLO i livelli mancanti": the bot never has more buys live
\* than its levels, those whose cancellation failed aside, whatever fills, crashes
\* and is placed again, as long as no failure of the excluded kinds hides an order
\* from its books.
THEOREM LevelSafety ==
    ASSUME NoHiddenOrders
    PROVE  Spec => []LiveBuysWithinLevels
<1>1. Init => LevelInv
  BY InitLevelInv
<1>2. (IndType /\ KnownInv) /\ (IndType' /\ KnownInv') /\ LevelInv /\ [Next]_vars
        => LevelInv'
  <2>1. IndType' => OrderType'
    BY DEF IndType, VenueType, BotType, GoodBooks, OrderType
  <2> QED
    BY <2>1, NextKeepsLevelInv, IndTypeGivesOrderType
<1>3. LevelInv => LiveBuysWithinLevels
  BY DEF LevelInv
<1> QED
  BY <1>1, <1>2, <1>3, KnownInvHolds, PTL DEF Spec

-----------------------------------------------------------------------------
(* Sums over finite sets of orders.  The model writes them with the folds of  *)
(* the library, of which only their definition by CHOOSE is known.            *)

\* Of some subsets of a finite set, one contains no other.
LEMMA LeastSubset ==
    ASSUME NEW S, IsFiniteSet(S), NEW T \in SUBSET SUBSET S, T # {}
    PROVE  \E s \in T : \A r \in T : r \subseteq s => r = s
<1>1. T \subseteq FiniteSubsetsOf(S)
  BY FS_FiniteSubsetsOfFinite
<1>2. \E s \in T : \A r \in T : ~ (<<r, s>> \in StrictSubsetOrdering(S))
  BY <1>1, FS_StrictSubsetOrderingWellFounded, WFMin
<1> QED BY <1>2 DEF StrictSubsetOrdering

\* A sum is the number of these units.
Units(f, S) == UNION {{i} \X (1 .. f[i]) : i \in S}

LEMMA UnitsOf ==
    ASSUME NEW f, NEW S, NEW u
    PROVE  u \in Units(f, S) <=> \E i \in S : \E k \in 1 .. f[i] : u = <<i, k>>
BY DEF Units

LEMMA UnitsFinite ==
    ASSUME NEW S, IsFiniteSet(S), NEW f, \A i \in S : f[i] \in Nat
    PROVE  IsFiniteSet(Units(f, S)) /\ Cardinality(Units(f, S)) \in Nat
<1> DEFINE rows == {{i} \X (1 .. f[i]) : i \in S}
           rowOf == [i \in S |-> {i} \X (1 .. f[i])]
<1>1. rowOf \in Surjection(S, rows)
  BY DEF Surjection
<1>2. \A T \in rows : IsFiniteSet(T)
  <2> SUFFICES ASSUME NEW i \in S PROVE IsFiniteSet({i} \X (1 .. f[i]))
    OBVIOUS
  <2> DEFINE n == f[i]
  <2>1. n \in Nat
    OBVIOUS
  <2> HIDE DEF n
  <2>2. IsFiniteSet(1 .. n)
    BY <2>1, FS_Interval
  <2>3. IsFiniteSet({i})
    BY FS_Singleton
  <2> QED BY <2>2, <2>3, FS_Product DEF n
<1>3. IsFiniteSet(UNION rows)
  BY <1>1, <1>2, FS_Surjection, FS_UNION
<1> QED BY <1>3, FS_CardinalityType DEF Units

LEMMA UnitsSplit ==
    ASSUME NEW S, IsFiniteSet(S), NEW f, \A i \in S : f[i] \in Nat, NEW x \in S
    PROVE  Cardinality(Units(f, S)) = f[x] + Cardinality(Units(f, S \ {x}))
<1> DEFINE rest == Units(f, S \ {x})
           row == {x} \X (1 .. f[x])
<1>1. IsFiniteSet(rest) /\ Cardinality(rest) \in Nat
  BY FS_RemoveElement, UnitsFinite
<1>2. IsFiniteSet(row) /\ Cardinality(row) = f[x]
  <2>0. f[x] \in Nat
    OBVIOUS
  <2>1. IsFiniteSet(1 .. f[x]) /\ Cardinality(1 .. f[x]) = f[x]
    <3> DEFINE n == f[x]
    <3>1. n \in Nat
      BY <2>0
    <3> HIDE DEF n
    <3>2. IsFiniteSet(1 .. n) /\ Cardinality(1 .. n) = n
      BY <3>1, FS_Interval
    <3> QED BY <3>2 DEF n
  <2>2. IsFiniteSet({x}) /\ Cardinality({x}) = 1
    BY FS_Singleton
  <2> QED BY <2>0, <2>1, <2>2, FS_Product, SMTT(30)
<1>3. Units(f, S) = rest \cup row
  BY DEF Units
<1>4. rest \cap row = {}
  BY UnitsOf
<1>5. Cardinality(rest \cap row) = 0
  BY <1>4, FS_EmptySet
<1>6. Cardinality(Units(f, S)) = Cardinality(rest) + Cardinality(row) - Cardinality(rest \cap row)
  BY <1>1, <1>2, <1>3, FS_Union
<1> QED BY <1>1, <1>2, <1>5, <1>6

\* The equation by which the library chooses the function that folds the subsets of S.
Folded(f, S, g) ==
  g = [s \in SUBSET S |-> IF s = {} THEN 0
                          ELSE f[CHOOSE x \in s : TRUE] + g[s \ {CHOOSE x \in s : TRUE}]]

LEMMA SumIs == ASSUME NEW f, NEW S
  PROVE SumFunctionOnSet(f, S) = (CHOOSE g : Folded(f, S, g))[S]
BY DEF SumFunctionOnSet, FoldFunctionOnSet, MapThenFoldSet, Folded

(* The count of the units satisfies the equation, so some function does; and *)
(* one that does agrees with the count everywhere, or there would be a least *)
(* subset on which it does not.                                              *)
LEMMA SumIsUnits ==
    ASSUME NEW S, IsFiniteSet(S), NEW f, \A i \in S : f[i] \in Nat
    PROVE  SumFunctionOnSet(f, S) = Cardinality(Units(f, S))
<1> DEFINE count == [s \in SUBSET S |-> Cardinality(Units(f, s))]
           one(s) == CHOOSE x \in s : TRUE
<1>0. \A s \in SUBSET S : s # {} => one(s) \in s
  OBVIOUS
<1>1. \A s \in SUBSET S : s # {} =>
        Cardinality(Units(f, s)) = f[one(s)] + Cardinality(Units(f, s \ {one(s)}))
  <2> SUFFICES ASSUME NEW s \in SUBSET S, s # {}
               PROVE  Cardinality(Units(f, s)) = f[one(s)] + Cardinality(Units(f, s \ {one(s)}))
    OBVIOUS
  <2> HIDE DEF one
  <2> QED BY <1>0, UnitsSplit, FS_Subset
<1>2. Cardinality(Units(f, {})) = 0
  <2>1. Units(f, {}) = {}
    BY DEF Units
  <2> QED BY <2>1, FS_EmptySet
<1>3. Folded(f, S, count)
  BY <1>0, <1>1, <1>2 DEF Folded
<1> DEFINE g == CHOOSE h : Folded(f, S, h)
<1>4. Folded(f, S, g)
  BY <1>3
<1> HIDE DEF g, count
<1>5. \A s \in SUBSET S : g[s] = IF s = {} THEN 0 ELSE f[one(s)] + g[s \ {one(s)}]
  BY <1>4 DEF Folded
<1> DEFINE bad == {s \in SUBSET S : g[s] # Cardinality(Units(f, s))}
<1>6. bad = {}
  <2> SUFFICES ASSUME bad # {} PROVE FALSE
    OBVIOUS
  <2>0. bad \in SUBSET SUBSET S
    OBVIOUS
  <2> HIDE DEF bad, one
  <2>1. PICK s \in bad : \A r \in bad : r \subseteq s => r = s
    BY <2>0, LeastSubset
  <2> USE DEF bad
  <2>2. s \in SUBSET S /\ s # {}
    BY <1>2, <1>5, <2>1
  <2>3. s \ {one(s)} \in SUBSET S /\ s \ {one(s)} # s
    BY <1>0, <2>2
  <2>4. g[s \ {one(s)}] = Cardinality(Units(f, s \ {one(s)}))
    BY <2>1, <2>3
  <2>5. g[s] = f[one(s)] + g[s \ {one(s)}]
    BY <1>5, <2>2
  <2>6. g[s] = Cardinality(Units(f, s))
    BY <1>1, <2>2, <2>4, <2>5
  <2> QED BY <2>6
<1>7. g[S] = Cardinality(Units(f, S))
  BY <1>6
<1> QED BY <1>7, SumIs DEF g

LEMMA SumNat ==
    ASSUME NEW S, IsFiniteSet(S), NEW f, \A i \in S : f[i] \in Nat
    PROVE  SumFunctionOnSet(f, S) \in Nat
BY SumIsUnits, UnitsFinite

\* One element is taken out of the sum.
LEMMA SumStep ==
    ASSUME NEW S, IsFiniteSet(S), NEW f, \A i \in S : f[i] \in Nat, NEW x \in S
    PROVE  /\ SumFunctionOnSet(f, S) = f[x] + SumFunctionOnSet(f, S \ {x})
           /\ SumFunctionOnSet(f, S \ {x}) \in Nat
<1>1. IsFiniteSet(S \ {x}) /\ \A i \in S \ {x} : f[i] \in Nat
  BY FS_RemoveElement
<1>2. SumFunctionOnSet(f, S \ {x}) = Cardinality(Units(f, S \ {x}))
  BY <1>1, SumIsUnits
<1> QED BY <1>1, <1>2, SumIsUnits, SumNat, UnitsSplit

\* Fewer elements with less each do not add up to more.
LEMMA SumOrder ==
    ASSUME NEW S, IsFiniteSet(S), NEW f, \A i \in S : f[i] \in Nat,
           NEW R \in SUBSET S, NEW g, \A i \in R : g[i] \in Nat /\ g[i] <= f[i]
    PROVE  SumFunctionOnSet(g, R) <= SumFunctionOnSet(f, S)
<1>1. IsFiniteSet(R)
  BY FS_Subset
<1>2. Units(g, R) \subseteq Units(f, S)
  <2> SUFFICES ASSUME NEW i \in R, NEW k \in 1 .. g[i] PROVE <<i, k>> \in Units(f, S)
    BY UnitsOf
  <2>1. g[i] \in Nat /\ f[i] \in Nat /\ g[i] <= f[i] /\ i \in S
    OBVIOUS
  <2>2. k \in 1 .. f[i]
    BY <2>1
  <2> QED BY <2>1, <2>2, UnitsOf
<1>3. IsFiniteSet(Units(f, S))
  BY UnitsFinite
<1>4. Cardinality(Units(g, R)) <= Cardinality(Units(f, S))
  BY <1>2, <1>3, FS_Subset
<1> QED BY <1>1, <1>4, SumIsUnits

LEMMA SumSame ==
    ASSUME NEW S, IsFiniteSet(S), NEW f, \A i \in S : f[i] \in Nat,
           NEW g, \A i \in S : g[i] = f[i]
    PROVE  SumFunctionOnSet(g, S) = SumFunctionOnSet(f, S)
<1>1. Units(g, S) = Units(f, S)
  BY DEF Units
<1>2. \A i \in S : g[i] \in Nat
  OBVIOUS
<1> QED BY <1>1, <1>2, SumIsUnits

\* The value of one element changes.
LEMMA SumReplace ==
    ASSUME NEW S, IsFiniteSet(S), NEW f, \A i \in S : f[i] \in Nat,
           NEW x \in S, NEW g, g[x] \in Nat, \A i \in S \ {x} : g[i] = f[i]
    PROVE  SumFunctionOnSet(g, S) = SumFunctionOnSet(f, S) - f[x] + g[x]
<1>1. IsFiniteSet(S \ {x}) /\ \A i \in S : g[i] \in Nat
  BY FS_RemoveElement
<1>2. SumFunctionOnSet(g, S \ {x}) = SumFunctionOnSet(f, S \ {x})
  BY <1>1, SumSame
<1>3. /\ SumFunctionOnSet(g, S) = g[x] + SumFunctionOnSet(g, S \ {x})
      /\ SumFunctionOnSet(f, S) = f[x] + SumFunctionOnSet(f, S \ {x})
      /\ SumFunctionOnSet(f, S \ {x}) \in Nat
  BY <1>1, SumStep
<1> QED BY <1>2, <1>3

\* One element is added to the sum.
LEMMA SumAddOne ==
    ASSUME NEW S, IsFiniteSet(S), NEW f, \A i \in S : f[i] \in Nat,
           NEW x, x \notin S, f[x] \in Nat
    PROVE  SumFunctionOnSet(f, S \cup {x}) = SumFunctionOnSet(f, S) + f[x]
<1> DEFINE more == S \cup {x}
<1>1. IsFiniteSet(more) /\ x \in more /\ more \ {x} = S
  BY FS_AddElement
<1>2. \A i \in more : f[i] \in Nat
  OBVIOUS
<1> HIDE DEF more
<1>3. SumFunctionOnSet(f, more) = f[x] + SumFunctionOnSet(f, more \ {x})
  BY <1>1, <1>2, SumStep
<1> QED BY <1>1, <1>3, SumNat DEF more

\* A sum is that of a part and that of the rest.
LEMMA SumSplit ==
    ASSUME NEW S, IsFiniteSet(S), NEW f, \A i \in S : f[i] \in Nat,
           NEW R \in SUBSET S
    PROVE  /\ SumFunctionOnSet(f, S)
                = SumFunctionOnSet(f, R) + SumFunctionOnSet(f, S \ R)
           /\ SumFunctionOnSet(f, R) \in Nat /\ SumFunctionOnSet(f, S \ R) \in Nat
<1> DEFINE rest == S \ R
<1>1. IsFiniteSet(R) /\ IsFiniteSet(rest)
  BY FS_Subset
<1>2. R \cap rest = {} /\ S = R \cup rest
  OBVIOUS
<1> HIDE DEF rest
<1>3. (\A i \in R : f[i] \in Nat) /\ (\A i \in rest : f[i] \in Nat)
  BY <1>2
<1>4. Units(f, S) = Units(f, R) \cup Units(f, rest)
  BY <1>2 DEF Units
<1>5. Units(f, R) \cap Units(f, rest) = {}
  BY <1>2, UnitsOf
<1>6. /\ IsFiniteSet(Units(f, R)) /\ Cardinality(Units(f, R)) \in Nat
      /\ IsFiniteSet(Units(f, rest)) /\ Cardinality(Units(f, rest)) \in Nat
  BY <1>1, <1>3, UnitsFinite
<1>7. Cardinality(Units(f, R) \cap Units(f, rest)) = 0
  BY <1>5, FS_EmptySet
<1>8. Cardinality(Units(f, S)) = Cardinality(Units(f, R)) + Cardinality(Units(f, rest))
  <2> DEFINE A == Units(f, R)  B == Units(f, rest)
  <2> HIDE DEF A, B
  <2>1. IsFiniteSet(A) /\ IsFiniteSet(B) =>
          Cardinality(A \cup B) = Cardinality(A) + Cardinality(B) - Cardinality(A \cap B)
    BY FS_Union
  <2> USE DEF A, B
  <2> QED BY <1>4, <1>6, <1>7, <2>1
<1>9. /\ SumFunctionOnSet(f, R) = Cardinality(Units(f, R))
      /\ SumFunctionOnSet(f, rest) = Cardinality(Units(f, rest))
      /\ SumFunctionOnSet(f, S) = Cardinality(Units(f, S))
  BY <1>1, <1>3, SumIsUnits
<1> QED BY <1>6, <1>8, <1>9 DEF rest

LEMMA SumOfZeros ==
    ASSUME NEW S, IsFiniteSet(S), NEW f, \A i \in S : f[i] = 0
    PROVE  SumFunctionOnSet(f, S) = 0
<1>1. \A i \in S : f[i] \in Nat
  OBVIOUS
<1>2. Units(f, S) = {}
  BY DEF Units
<1>3. Cardinality(Units(f, S)) = 0
  BY <1>2, FS_EmptySet
<1> QED BY <1>1, <1>3, SumIsUnits

-----------------------------------------------------------------------------
(* No fill is lost: a trend bot that stays up and gets its replies.  A      *)
(* reply that is lost leaves a buy nobody tracks; a crash leaves what was   *)
(* filled while the process was down, after the last save; a grid drops the *)
(* buy whose take-profit the venue refuses (README, section 4).             *)

TrendUp == StopMonitorato /\ "reply" \notin FaultKinds /\ MaxCrashes = 0

Accounted(o) == o \in st.buys \/ booked[o] > 0 \/ (Terminal(o) /\ filled[o] = 0)

(* UncanceledFillAccounted is not inductive: it says nothing of the buys    *)
(* that have not filled yet.  They are in the books until the venue is      *)
(* through with them; the stop-loss empties the books, but only of buys it  *)
(* has asked the venue to cancel.                                           *)
AccountedInv ==
    /\ pc = "down" => \A o \in BuyIds : status[o] = "none"
    /\ pc # "down" => \A o \in BuyIds \ asked : status[o] # "none" => Accounted(o)
    /\ pc = "slCancel" => st.buys \subseteq todo \cup asked

\* What the argument needs of the types.
FillType ==
    /\ status \in [Ids -> {"none", "open", "closed", "canceled"}]
    /\ filled \in [Ids -> Nat] /\ amount \in [Ids -> Nat]
    /\ \A o \in Ids : filled[o] <= amount[o]
    /\ \A o \in Ids : status[o] = "none" => filled[o] = 0
    /\ booked \in [Ids -> Nat] /\ asked \subseteq Ids
    /\ st \in States /\ disk \in States /\ crashes \in Nat

LEMMA IndTypeGivesFillType == IndType => FillType
BY DEF IndType, VenueType, BotType, GoodBooks, FillType

LEMMA InitAccountedInv == Init => AccountedInv
BY BotAssumption DEF Init, AccountedInv, Ids

LEMMA EnvironmentKeepsAccountedInv ==
    ASSUME TrendUp, FillType, FillType', AccountedInv,
           \/ Environment
           \/ Crash \/ \E o \in BuyIds : CrashInTakeProfit(o)
           \/ Boot \/ Persist
    PROVE  AccountedInv'
<1> USE BotAssumption DEF FillType, AccountedInv, Accounted, Terminal, TrendUp,
     venueVars, memVars, durVars, tickVars, NoFault, Fault, Ids
<1>1. ASSUME NEW o \in Ids, VenueFill(o) PROVE AccountedInv'
  BY <1>1 DEF VenueFill, Live
<1>2. ASSUME NEW o \in Ids, VenueExpire(o) PROVE AccountedInv'
  BY <1>2 DEF VenueExpire, CancelAtVenue, Live
<1>3. ASSUME Deposit PROVE AccountedInv'
  BY <1>3 DEF Deposit
<1>4. ASSUME SafeMode PROVE AccountedInv'
  BY <1>4 DEF SafeMode, obsVars
<1>5. ASSUME Crash PROVE AccountedInv'
  BY <1>5 DEF Crash
<1>6. ASSUME NEW o \in BuyIds, CrashInTakeProfit(o) PROVE AccountedInv'
  BY <1>6 DEF CrashInTakeProfit
<1>7. ASSUME Boot PROVE AccountedInv'
  <2>1. pc = "down" /\ pc' = "idle" /\ UNCHANGED status
    BY <1>7 DEF Boot
  <2> QED
    BY <2>1
<1>8. ASSUME Persist PROVE AccountedInv'
  BY <1>8 DEF Persist
<1>9. ASSUME NEW o \in Ids, LeftoverSell(o) PROVE AccountedInv'
  BY <1>9 DEF LeftoverSell, IsNext
<1> QED
  BY <1>1, <1>2, <1>3, <1>4, <1>5, <1>6, <1>7, <1>8, <1>9
     DEF Environment

LEMMA TickKeepsAccountedInv ==
    ASSUME FillType, FillType', AccountedInv,
           \/ TickBlocked \/ TickDecides
           \/ StopNotSold \/ StopReplyLost \/ StopSold
           \/ BeginFills1 \/ BuysDone \/ EndOfFills2
           \/ PreflightOk \/ PreflightBlocked \/ BeginFills2
           \/ StopLossTrips \/ SlPhotograph \/ SlNotSold \/ SlSold
    PROVE  AccountedInv'
<1> USE BotAssumption DEF FillType, AccountedInv, Accounted, Terminal,
     venueVars, memVars, durVars, tickVars, obsVars, NoFault, Fault, Ids
<1>1. ASSUME \/ TickBlocked \/ TickDecides \/ StopNotSold \/ StopReplyLost
             \/ StopSold \/ BeginFills1 \/ BuysDone \/ EndOfFills2
             \/ PreflightOk \/ BeginFills2 \/ StopLossTrips
      PROVE  AccountedInv'
  <2>1. pc # "down" /\ pc' \notin {"down", "slCancel"}
    BY <1>1 DEF TickBlocked, TickDecides, StopNotSold, StopReplyLost, StopSold,
       StopDone, BeginFills1, LadderReady, BuysDone, InBuys, EndOfFills2,
       PreflightOk, SellsDone, InSells, BeginFills2, ExecReady, FillsBegin,
       StopLossTrips
  <2>2. UNCHANGED <<status, filled, booked, asked>>
    BY <1>1 DEF TickBlocked, TickDecides, StopNotSold, StopReplyLost, StopSold,
       BeginFills1, BuysDone, EndOfFills2, PreflightOk, BeginFills2, FillsBegin,
       StopLossTrips
  <2>3. st'.buys = st.buys
    BY <1>1 DEF TickBlocked, TickDecides, StopNotSold, StopReplyLost, StopSold,
       AfterStop, BeginFills1, BuysDone, EndOfFills2, PreflightOk, BeginFills2,
       FillsBegin, StopLossTrips, States
  <2> QED
    BY <2>1, <2>2, <2>3
<1>2. ASSUME PreflightBlocked PROVE AccountedInv'
  <2>1. pc \in {"sells1", "sells2"} /\ pc' = "persist" /\ UNCHANGED <<filled, booked>>
    BY <1>2 DEF PreflightBlocked, SellsDone, InSells
  <2>2. PICK S \in SUBSET BuyIds :
           /\ status' = [o \in Ids |-> IF o \in S THEN "canceled" ELSE status[o]]
           /\ st' = [st EXCEPT !.buys = @ \ S] /\ asked' = asked \cup S
    BY <1>2 DEF PreflightBlocked
  <2>3. st'.buys = st.buys \ S
    BY <2>2 DEF States
  <2> QED
    BY <2>1, <2>2, <2>3
<1>3. ASSUME SlPhotograph PROVE AccountedInv'
  BY <1>3 DEF SlPhotograph
<1>4. ASSUME SlNotSold \/ SlSold PROVE AccountedInv'
  <2>1. /\ pc = "slCancel" /\ todo = {} /\ pc' = "persist"
        /\ UNCHANGED <<status, filled, booked, asked>>
    BY <1>4 DEF SlNotSold, SlSold, SlCanceled
  <2>2. st.buys \subseteq asked
    BY <2>1
  <2> QED
    BY <2>1, <2>2
<1> QED
  BY <1>1, <1>2, <1>3, <1>4

LEMMA OrderStepKeepsAccountedInv ==
    ASSUME TrendUp, FillType, FillType', AccountedInv, NEW o \in Ids, OrderStep(o)
    PROVE  AccountedInv'
<1> USE BotAssumption DEF FillType, AccountedInv, Accounted, Terminal, TrendUp,
     venueVars, memVars, durVars, tickVars, obsVars, NoFault, Fault, Ids
<1>1. ASSUME StopCancel(o) PROVE AccountedInv'
  BY <1>1 DEF StopCancel, CancelOutcome, DropSell, CancelAtVenue, Live, States
<1>2. ASSUME CancelLadder(o) PROVE AccountedInv'
  BY <1>2 DEF CancelLadder, CancelOutcome, DropSell, CancelAtVenue, Live, States
<1>3. ASSUME PlaceLadder(o) PROVE AccountedInv'
  BY <1>3 DEF PlaceLadder, LadderReady, IsNext, AcceptSell, States
<1>4. ASSUME BuyNotFilled(o) PROVE AccountedInv'
  BY <1>4 DEF BuyNotFilled, InBuys, HasFill, DropBuy, States
<1>5. ASSUME BuyBecomesPosition(o) PROVE AccountedInv'
  BY <1>5 DEF BuyBecomesPosition, InBuys, DropBuy, Book, HasFill, States
<1>6. ASSUME BuySendsTakeProfit(o) PROVE AccountedInv'
  BY <1>6 DEF BuySendsTakeProfit
<1>7. ASSUME ResolveSell(o) PROVE AccountedInv'
  <2>1. /\ pc \in {"sells1", "sells2"} /\ pc' = pc
        /\ UNCHANGED <<status, filled, asked>>
    BY <1>7 DEF ResolveSell, InSells
  <2>2. st' = st \/ st' = DropSell(st, o)
    BY <1>7 DEF ResolveSell
  <2>3. st'.buys = st.buys
    <3>1. DropSell(st, o).buys = st.buys
      BY DEF DropSell, States
    <3> QED
      BY <2>2, <3>1
  <2>4. \A p \in BuyIds : booked[p] > 0 => booked'[p] > 0
    BY <1>7 DEF ResolveSell, Book
  <2> QED
    BY <2>1, <2>3, <2>4
<1>8. ASSUME CancelBuy(o) PROVE AccountedInv'
  BY <1>8 DEF CancelBuy, CancelAtVenue, DropBuy, Live, States
<1>9. ASSUME PlaceBuy(o) PROVE AccountedInv'
  <2>1. pc = "exec" /\ pc' = pc /\ UNCHANGED <<filled, booked, asked>>
    BY <1>9 DEF PlaceBuy, ExecReady, AcceptBuy
  <2>2. \/ /\ status' = [status EXCEPT ![o] = "open"] /\ st'.buys = st.buys \cup {o}
           /\ status[o] = "none"
        \/ UNCHANGED <<status, st>>
    BY <1>9 DEF PlaceBuy, IsNext, AcceptBuy, States
  <2> QED
    BY <2>1, <2>2
<1>10. ASSUME SlResolve(o) PROVE AccountedInv'
  BY <1>10 DEF SlResolve, Book, DropBuy, HasFill, States
<1>11. ASSUME SlCancel(o) PROVE AccountedInv'
  BY <1>11 DEF SlCancel, CancelOutcome, CancelAtVenue, Live, States
<1> QED
  BY <1>1, <1>2, <1>3, <1>4, <1>5, <1>6, <1>7, <1>8, <1>9, <1>10, <1>11
     DEF OrderStep

\* Q4 for the trend bot, in every interleaving of its ticks with the fills: a
\* fill of a buy that it never asked to cancel is in its books or its journal,
\* although fetches fail, orders fill in pieces and the venue expires them.
THEOREM FillSafety ==
    ASSUME TrendUp
    PROVE  Spec => []UncanceledFillAccounted
<1>1. Init => AccountedInv
  BY InitAccountedInv
<1>2. IndType /\ IndType' /\ AccountedInv /\ [Next]_vars => AccountedInv'
  <2> SUFFICES ASSUME IndType, IndType', AccountedInv, [Next]_vars
               PROVE  AccountedInv'
    OBVIOUS
  <2>1. FillType /\ FillType'
    BY IndTypeGivesFillType DEF IndType, VenueType, BotType, GoodBooks, FillType
  <2>2. CASE UNCHANGED vars
    BY <2>2 DEF AccountedInv, Accounted, Terminal, vars, venueVars, memVars, durVars,
       tickVars, obsVars
  <2>3. CASE Next
    BY <2>1, <2>3, EnvironmentKeepsAccountedInv, TickKeepsAccountedInv,
       OrderStepKeepsAccountedInv DEF Next, BotStep
  <2> QED
    BY <2>2, <2>3
<1>3. IndType /\ AccountedInv => UncanceledFillAccounted
  BY IndTypeGivesFillType DEF AccountedInv, Accounted, UncanceledFillAccounted,
     FillType, Ids
<1> QED
  BY <1>1, <1>2, <1>3, InductiveTypes, PTL DEF Spec

-----------------------------------------------------------------------------
(* No more is sold than bought: a trend bot without a stop-loss of its own, *)
(* whose sales are those of the monitored stop.  A lost reply repeats a     *)
(* sale, a crash adopts a position twice, the bot's stop-loss keeps the     *)
(* position it has sold (README, section 4); an account with sell orders of *)
(* others is left out.                                                      *)

OneSeller ==
    /\ StopMonitorato /\ ~StopLossOn /\ MaxCrashes = 0
    /\ FaultKinds \cap {"reply", "leftover"} = {}

(* SoldWithinBought and PositionBacked are not inductive: the position is   *)
(* overwritten by each booked buy.  What is sold or still in the position   *)
(* comes from the buys that have left the books, and a buy leaves them with *)
(* what it has filled by then, or later; what was bought and not sold is    *)
(* free, together with what others have brought.                            *)
TrendMoney ==
    /\ bought = SumFunctionOnSet(filled, BuyIds)
    /\ free + sold = bought + foreign
    /\ sold + st.pos <= SumFunctionOnSet(filled, BuyIds \ st.buys)
    /\ pc \in {"buys1", "buys2"} => todo \subseteq st.buys
    /\ pc = "down" => sold = 0 /\ st.pos = 0 /\ disk.pos = 0
    /\ ~Stopping

\* What the argument needs of the types and of PolicyInv.
TrendType ==
    /\ FillType
    /\ free \in Nat /\ bought \in Nat /\ sold \in Nat /\ foreign \in Nat
    /\ plan.ladder = 0 /\ \A o \in SellIds : status[o] = "none"

LEMMA InvariantsGiveTrendType ==
    ASSUME StopMonitorato
    PROVE  IndType /\ PolicyInv => TrendType
BY IndTypeGivesFillType DEF IndType, VenueType, BotType, PolicyInv, TrendType

LEMMA BuysAreFinite ==
    ASSUME NEW S \in SUBSET BuyIds, FillType
    PROVE  /\ IsFiniteSet(S) /\ IsFiniteSet(BuyIds \ S)
           /\ SumFunctionOnSet(filled, S) \in Nat
           /\ SumFunctionOnSet(filled, BuyIds \ S) \in Nat
           /\ SumFunctionOnSet(filled, S) <= SumFunctionOnSet(filled, BuyIds)
           /\ \A o \in BuyIds : filled[o] \in Nat
<1>1. IsFiniteSet(BuyIds) /\ \A o \in BuyIds : filled[o] \in Nat
  BY BotAssumption DEF FillType, Ids
<1>2. \A o \in S : filled[o] \in Nat /\ filled[o] <= filled[o]
  BY <1>1
<1> QED
  BY <1>1, <1>2, FS_Subset, SumNat, SumSplit, SumOrder

\* A step that fills nothing, and sells at most what was tracked.
LEMMA NothingFilled ==
    ASSUME TrendType, TrendType', TrendMoney, UNCHANGED <<filled, bought>>,
           free' + sold' - foreign' = free + sold - foreign,
           sold' + st'.pos <= sold + st.pos, st'.buys \subseteq st.buys,
           pc' \in {"buys1", "buys2"} => todo' \subseteq st'.buys,
           pc' \notin {"down", "slBuys", "slCancel"}
    PROVE  TrendMoney'
<1>1. st.buys \in SUBSET BuyIds /\ st.pos \in Nat /\ st'.pos \in Nat
  BY DEF TrendType, FillType, States
<1>2. BuyIds \ st.buys \in SUBSET (BuyIds \ st'.buys) /\ st'.buys \in SUBSET BuyIds
  BY <1>1
<1>3. /\ IsFiniteSet(BuyIds \ st'.buys)
      /\ SumFunctionOnSet(filled, BuyIds \ st.buys) \in Nat
      /\ SumFunctionOnSet(filled, BuyIds \ st'.buys) \in Nat
      /\ \A o \in BuyIds : filled[o] \in Nat
  BY <1>1, <1>2, BuysAreFinite DEF TrendType
<1>4. SumFunctionOnSet(filled, BuyIds \ st.buys)
        <= SumFunctionOnSet(filled, BuyIds \ st'.buys)
  <2>1. \A o \in BuyIds : filled[o] <= filled[o]
    BY <1>3
  <2> QED
    BY <1>2, <1>3, <2>1, SumOrder
<1>5. sold' + st'.pos <= SumFunctionOnSet(filled, BuyIds \ st'.buys)
  BY <1>1, <1>3, <1>4 DEF TrendMoney, TrendType
<1>6. free' + sold' = bought' + foreign'
  BY DEF TrendMoney, TrendType
<1> QED
  BY <1>5, <1>6 DEF TrendMoney, Stopping

LEMMA InitTrendMoney == Init => TrendMoney
<1> SUFFICES ASSUME Init PROVE TrendMoney
  OBVIOUS
<1>1. \A o \in BuyIds : filled[o] = 0
  BY DEF Init, Ids
<1>2. SumFunctionOnSet(filled, BuyIds) = 0
  BY <1>1, BotAssumption, SumOfZeros
<1>3. BuyIds \ st.buys = BuyIds /\ st.pos = 0
  BY DEF Init, FreshState
<1> QED
  BY <1>2, <1>3 DEF Init, TrendMoney, Stopping, FreshState

LEMMA EnvironmentKeepsTrendMoney ==
    ASSUME OneSeller, TrendType, TrendType', TrendMoney,
           \/ Environment
           \/ Crash \/ \E o \in BuyIds : CrashInTakeProfit(o)
           \/ Boot \/ Persist
    PROVE  TrendMoney'
<1> USE DEF OneSeller, venueVars, memVars, durVars, tickVars, NoFault, Fault
<1>0. st.pos \in Nat /\ st.buys \in SUBSET BuyIds /\ free \in Nat /\ sold \in Nat
      /\ foreign \in Nat
  BY DEF TrendType, FillType, States
<1>1. ASSUME NEW o \in Ids, VenueFill(o) PROVE TrendMoney'
  <2>1. o \in BuyIds
    BY <1>1 DEF VenueFill, Live, TrendType, Ids
  <2>2. PICK q \in Nat : /\ filled' = [filled EXCEPT ![o] = @ + q]
                         /\ free' = free + q /\ bought' = bought + q /\ sold' = sold
    <3>1. o \notin SellIds /\ amount[o] \in Nat /\ filled[o] \in Nat
      BY <2>1, BotAssumption DEF TrendType, FillType, Ids
    <3>2. 1 .. (amount[o] - filled[o]) \subseteq Nat
      BY <3>1
    <3> QED
      BY <1>1, <2>1, <3>1, <3>2 DEF VenueFill
  <2>3. UNCHANGED <<st, disk, pc, todo, foreign>>
    BY <1>1 DEF VenueFill
  <2>4. /\ \A p \in BuyIds : filled[p] \in Nat /\ filled'[p] \in Nat
        /\ \A p \in BuyIds : filled[p] <= filled'[p]
        /\ filled'[o] = filled[o] + q /\ \A p \in BuyIds \ {o} : filled'[p] = filled[p]
    BY <2>1, <2>2 DEF TrendType, FillType, Ids
  <2>5. SumFunctionOnSet(filled', BuyIds)
          = SumFunctionOnSet(filled, BuyIds) - filled[o] + filled'[o]
    <3>1. IsFiniteSet(BuyIds) /\ filled'[o] \in Nat
      BY <2>1, <2>4, BotAssumption
    <3> QED
      BY <2>1, <2>4, <3>1, SumReplace
  <2>6. SumFunctionOnSet(filled, BuyIds) \in Nat /\ filled[o] \in Nat
    BY <2>1, <2>4, BotAssumption, SumNat
  <2>7. SumFunctionOnSet(filled, BuyIds \ st.buys)
          <= SumFunctionOnSet(filled', BuyIds \ st.buys)
    <3>1. IsFiniteSet(BuyIds \ st.buys)
      BY <1>0, BuysAreFinite DEF TrendType
    <3> QED
      BY <2>4, <3>1, SumOrder
  <2>8. /\ SumFunctionOnSet(filled, BuyIds \ st.buys) \in Nat
        /\ SumFunctionOnSet(filled', BuyIds \ st.buys) \in Nat
    <3>1. IsFiniteSet(BuyIds \ st.buys)
      BY <1>0, BuysAreFinite DEF TrendType
    <3> QED
      BY <2>4, <3>1, SumNat
  <2> QED
    BY <1>0, <2>2, <2>3, <2>4, <2>5, <2>6, <2>7, <2>8 DEF TrendMoney, Stopping
<1>2. ASSUME NEW o \in Ids, VenueExpire(o) PROVE TrendMoney'
  <2>1. o \notin SellIds
    BY <1>2 DEF VenueExpire, CancelAtVenue, Live, TrendType
  <2> QED
    BY <1>2, <2>1 DEF VenueExpire, CancelAtVenue, TrendMoney, Stopping
<1>3. ASSUME Deposit PROVE TrendMoney'
  BY <1>0, <1>3 DEF Deposit, TrendMoney, Stopping, TrendType
<1>4. ASSUME SafeMode PROVE TrendMoney'
  BY <1>4 DEF SafeMode, obsVars, TrendMoney, Stopping
<1>5. ASSUME Crash \/ \E o \in BuyIds : CrashInTakeProfit(o) PROVE TrendMoney'
  BY <1>5 DEF Crash, CrashInTakeProfit, TrendType, FillType
<1>7. ASSUME Boot PROVE TrendMoney'
  <2>1. pc = "down" /\ pc' = "idle" /\ UNCHANGED <<filled, free, bought, sold, foreign>>
    BY <1>7 DEF Boot
  <2>2. sold = 0 /\ st'.pos = 0
    <3>1. LoadedState \in States /\ LoadedState.pos = 0
      BY <2>1 DEF LoadedState, FreshState, States, TrendMoney, TrendType, FillType
    <3>2. st'.pos \in {0, LoadedState.pos}
      BY <1>7, <3>1, PositionOf DEF Boot
    <3> QED
      BY <2>1, <3>1, <3>2 DEF TrendMoney
  <2>3. SumFunctionOnSet(filled, BuyIds \ st'.buys) \in Nat
    BY BuysAreFinite DEF TrendType, FillType, States
  <2> QED
    BY <2>1, <2>2, <2>3 DEF TrendMoney, Stopping
<1>8. ASSUME Persist PROVE TrendMoney'
  <2>1. /\ pc' = "idle" /\ UNCHANGED <<filled, free, bought, sold, foreign, st>>
    BY <1>8 DEF Persist
  <2> QED
    BY <1>0, <2>1, NothingFilled
<1>9. ASSUME NEW o \in Ids, LeftoverSell(o) PROVE TrendMoney'
  BY <1>9 DEF LeftoverSell
<1> QED
  BY <1>1, <1>2, <1>3, <1>4, <1>5, <1>7, <1>8, <1>9 DEF Environment

LEMMA TickKeepsTrendMoney ==
    ASSUME OneSeller, TrendType, TrendType', TrendMoney,
           \/ TickBlocked \/ TickDecides
           \/ StopNotSold \/ StopReplyLost \/ StopSold
           \/ BeginFills1 \/ BuysDone \/ EndOfFills2
           \/ PreflightOk \/ PreflightBlocked \/ BeginFills2
           \/ StopLossTrips \/ SlPhotograph \/ SlNotSold \/ SlSold
    PROVE  TrendMoney'
<1> USE DEF OneSeller, venueVars, memVars, durVars, tickVars, NoFault, Fault
<1>0. st.pos \in Nat /\ st.buys \in SUBSET BuyIds /\ free \in Nat /\ sold \in Nat
      /\ foreign \in Nat /\ st \in States
  BY DEF TrendType, FillType, States
<1>1. ASSUME \/ TickBlocked \/ TickDecides \/ StopNotSold \/ BuysDone
             \/ EndOfFills2 \/ PreflightOk
      PROVE  TrendMoney'
  <2>1. pc' \notin {"down", "slBuys", "slCancel", "buys1", "buys2"}
    BY <1>1 DEF TickBlocked, TickDecides, StopNotSold, StopDone, BuysDone, InBuys,
       EndOfFills2, PreflightOk
  <2>2. UNCHANGED <<filled, free, bought, sold, foreign, st>>
    BY <1>1 DEF TickBlocked, TickDecides, StopNotSold, BuysDone, EndOfFills2,
       PreflightOk, obsVars
  <2> QED
    BY <1>0, <2>1, <2>2, NothingFilled
<1>2. ASSUME StopSold PROVE TrendMoney'
  <2>1. PICK a \in 0 .. free : /\ a <= st.pos /\ free' = free - a /\ sold' = sold + a
    BY <1>0, <1>2 DEF StopSold, SmallerOf
  <2>2. /\ pc' = "ladder" /\ UNCHANGED <<filled, bought, foreign>>
        /\ st' = AfterStop(st)
    BY <1>2 DEF StopSold, StopDone
  <2>3. st'.pos = 0 /\ st'.buys = st.buys
    BY <1>0, <2>2 DEF AfterStop, States
  <2>4. /\ free' + sold' - foreign' = free + sold - foreign
        /\ sold' + st'.pos <= sold + st.pos
    BY <1>0, <2>1, <2>2, <2>3
  <2> QED
    BY <2>2, <2>3, <2>4, NothingFilled
<1>3. ASSUME BeginFills1 \/ BeginFills2 PROVE TrendMoney'
  <2>1. /\ pc' \in {"buys1", "buys2"} /\ todo' \subseteq st.buys
        /\ UNCHANGED <<filled, free, bought, sold, foreign, st>>
    BY <1>3 DEF BeginFills1, BeginFills2, FillsBegin, Unresolved
  <2> QED
    BY <1>0, <2>1, NothingFilled
<1>4. ASSUME PreflightBlocked PROVE TrendMoney'
  <2>1. pc' = "persist" /\ UNCHANGED <<filled, free, bought, sold, foreign>>
    BY <1>4 DEF PreflightBlocked
  <2>2. PICK S : st' = [st EXCEPT !.buys = @ \ S]
    BY <1>4 DEF PreflightBlocked
  <2>3. st'.buys \subseteq st.buys /\ st'.pos = st.pos
    BY <1>0, <2>2 DEF States
  <2> QED
    BY <1>0, <2>1, <2>3, NothingFilled
<1>5. ASSUME StopReplyLost \/ StopLossTrips PROVE TrendMoney'
  BY <1>5 DEF StopReplyLost, StopLossTrips
<1>6. ASSUME SlPhotograph \/ SlNotSold \/ SlSold PROVE TrendMoney'
  BY <1>6 DEF SlPhotograph, SlNotSold, SlSold, SlCanceled, TrendMoney, Stopping
<1> QED
  BY <1>1, <1>2, <1>3, <1>4, <1>5, <1>6

LEMMA OrderStepKeepsTrendMoney ==
    ASSUME OneSeller, TrendType, TrendType', TrendMoney, NEW o \in Ids, OrderStep(o)
    PROVE  TrendMoney'
<1> USE DEF OneSeller, venueVars, memVars, durVars, tickVars, NoFault, Fault
<1>0. st.pos \in Nat /\ st.buys \in SUBSET BuyIds /\ free \in Nat /\ sold \in Nat
      /\ foreign \in Nat /\ st \in States
  BY DEF TrendType, FillType, States
<1>1. ASSUME StopCancel(o) \/ CancelLadder(o) PROVE TrendMoney'
  <2>1. /\ pc' \in {"stop", "ladder"} /\ st' = DropSell(st, o)
        /\ UNCHANGED <<filled, bought, sold, foreign>>
    BY <1>1 DEF StopCancel, CancelLadder, CancelOutcome, CancelAtVenue
  <2>2. free' = free
    BY <1>1 DEF StopCancel, CancelLadder, CancelOutcome, CancelAtVenue, Live, TrendType
  <2>3. st'.buys = st.buys /\ st'.pos = st.pos
    BY <1>0, <2>1 DEF DropSell, States
  <2> QED
    BY <1>0, <2>1, <2>2, <2>3, NothingFilled
<1>2. ASSUME BuyNotFilled(o) PROVE TrendMoney'
  <2>1. /\ UNCHANGED <<filled, free, bought, sold, foreign, pc>>
        /\ pc \in {"buys1", "buys2"} /\ todo' = todo \ {o}
        /\ st' \in {st, DropBuy(st, o)}
    BY <1>2 DEF BuyNotFilled, InBuys
  <2>2. DropBuy(st, o).buys = st.buys \ {o} /\ DropBuy(st, o).pos = st.pos
    BY <1>0 DEF DropBuy, States
  <2>3. todo \subseteq st.buys
    BY <2>1 DEF TrendMoney
  <2>4. /\ st'.buys \subseteq st.buys /\ st'.pos = st.pos /\ todo' \subseteq st'.buys
    BY <2>1, <2>2, <2>3
  <2> QED
    BY <1>0, <2>1, <2>4, NothingFilled
<1>3. ASSUME BuyBecomesPosition(o) PROVE TrendMoney'
  <2>1. /\ UNCHANGED <<filled, free, bought, sold, foreign, pc>>
        /\ pc \in {"buys1", "buys2"} /\ o \in todo /\ todo' = todo \ {o}
        /\ st' = [DropBuy(st, o) EXCEPT !.pos = filled[o]]
    BY <1>3 DEF BuyBecomesPosition, InBuys
  <2>2. st'.buys = st.buys \ {o} /\ st'.pos = filled[o]
    BY <1>0, <2>1 DEF DropBuy, States
  <2>3. todo \subseteq st.buys /\ o \in st.buys /\ o \in BuyIds
    BY <1>0, <2>1 DEF TrendMoney
  <2>4. /\ IsFiniteSet(BuyIds \ st.buys) /\ filled[o] \in Nat
        /\ SumFunctionOnSet(filled, BuyIds \ st.buys) \in Nat
        /\ \A p \in BuyIds \ st.buys : filled[p] \in Nat
    BY <1>0, <2>3, BuysAreFinite DEF TrendType
  <2>5. SumFunctionOnSet(filled, (BuyIds \ st.buys) \cup {o})
          = SumFunctionOnSet(filled, BuyIds \ st.buys) + filled[o]
    BY <2>3, <2>4, SumAddOne
  <2>6. (BuyIds \ st.buys) \cup {o} = BuyIds \ st'.buys
    BY <2>2, <2>3
  <2>7. sold' + st'.pos <= SumFunctionOnSet(filled, BuyIds \ st'.buys)
    BY <1>0, <2>1, <2>2, <2>4, <2>5, <2>6 DEF TrendMoney
  <2> QED
    BY <2>1, <2>2, <2>3, <2>7 DEF TrendMoney, Stopping
<1>4. ASSUME ResolveSell(o) PROVE TrendMoney'
  <2>1. /\ UNCHANGED <<filled, free, bought, sold, foreign, pc>>
        /\ pc \in {"sells1", "sells2"} /\ st' \in {st, DropSell(st, o)}
    BY <1>4 DEF ResolveSell, InSells
  <2>2. DropSell(st, o).buys = st.buys /\ DropSell(st, o).pos = st.pos
    BY <1>0 DEF DropSell, States
  <2> QED
    BY <1>0, <2>1, <2>2, NothingFilled
<1>5. ASSUME CancelBuy(o) PROVE TrendMoney'
  <2>1. /\ UNCHANGED <<filled, bought, sold, foreign, pc>> /\ pc = "exec"
        /\ st' \in {st, DropBuy(st, o)}
    BY <1>5 DEF CancelBuy, CancelAtVenue
  <2>2. free' = free
    BY <1>5 DEF CancelBuy, CancelAtVenue, Live, TrendType
  <2>3. DropBuy(st, o).buys = st.buys \ {o} /\ DropBuy(st, o).pos = st.pos
    BY <1>0 DEF DropBuy, States
  <2> QED
    BY <1>0, <2>1, <2>2, <2>3, NothingFilled
<1>6. ASSUME PlaceBuy(o) PROVE TrendMoney'
  <2>1. /\ UNCHANGED <<filled, free, bought, sold, foreign, pc>> /\ pc = "exec"
        /\ o \in BuyIds /\ status[o] = "none"
        /\ st' = st \/ st' = [st EXCEPT !.buys = @ \cup {o}]
    BY <1>6 DEF PlaceBuy, ExecReady, IsNext, AcceptBuy
  <2>2. [st EXCEPT !.buys = @ \cup {o}].buys = st.buys \cup {o}
        /\ [st EXCEPT !.buys = @ \cup {o}].pos = st.pos
    BY <1>0 DEF States
  <2>3. st'.pos = st.pos /\ (st'.buys = st.buys \/ st'.buys = st.buys \cup {o})
    BY <2>1, <2>2
  <2>4. CASE st'.buys \subseteq st.buys
    BY <1>0, <2>1, <2>4, <2>3, NothingFilled
  <2>5. CASE o \notin st.buys /\ st'.buys = st.buys \cup {o}
    <3>1. /\ IsFiniteSet(BuyIds \ st.buys) /\ o \in BuyIds \ st.buys
          /\ \A p \in BuyIds \ st.buys : filled[p] \in Nat
      BY <1>0, <2>1, <2>5, BuysAreFinite DEF TrendType
    <3>2. SumFunctionOnSet(filled, BuyIds \ st.buys)
            = filled[o] + SumFunctionOnSet(filled, (BuyIds \ st.buys) \ {o})
          /\ SumFunctionOnSet(filled, (BuyIds \ st.buys) \ {o}) \in Nat
      BY <3>1, SumStep
    <3>3. (BuyIds \ st.buys) \ {o} = BuyIds \ st'.buys
      BY <2>5
    <3>4. filled[o] = 0
      BY <2>1 DEF TrendType, FillType, Ids
    <3>5. SumFunctionOnSet(filled, BuyIds \ st'.buys)
            = SumFunctionOnSet(filled, BuyIds \ st.buys)
      BY <3>2, <3>3, <3>4
    <3> QED
      BY <2>1, <2>3, <3>5 DEF TrendMoney, Stopping
  <2> QED
    BY <2>3, <2>4, <2>5
<1>7. ASSUME PlaceLadder(o) \/ BuySendsTakeProfit(o) PROVE TrendMoney'
  <2>1. ~PlaceLadder(o)
    BY DEF PlaceLadder, TrendType
  <2>2. ~BuySendsTakeProfit(o)
    BY DEF BuySendsTakeProfit
  <2> QED
    BY <1>7, <2>1, <2>2
<1>8. ASSUME SlResolve(o) \/ SlCancel(o) PROVE TrendMoney'
  BY <1>8 DEF SlResolve, SlCancel, TrendMoney, Stopping
<1> QED
  BY <1>1, <1>2, <1>3, <1>4, <1>5, <1>6, <1>7, <1>8 DEF OrderStep

LEMMA TrendMoneyHolds ==
    ASSUME OneSeller
    PROVE  Spec => [](IndType /\ TrendMoney)
<1>1. Init => TrendMoney
  BY InitTrendMoney
<1>2. (IndType /\ PolicyInv) /\ (IndType' /\ PolicyInv') /\ TrendMoney /\ [Next]_vars
        => TrendMoney'
  <2> SUFFICES ASSUME IndType, PolicyInv, IndType', PolicyInv', TrendMoney, [Next]_vars
               PROVE  TrendMoney'
    OBVIOUS
  <2>1. TrendType
    BY InvariantsGiveTrendType DEF OneSeller
  <2>2. TrendType'
    BY DEF OneSeller, IndType, VenueType, BotType, GoodBooks, PolicyInv, FillType,
       TrendType
  <2>3. CASE UNCHANGED vars
    BY <2>3 DEF TrendMoney, Stopping, vars, venueVars, memVars, durVars, tickVars,
       obsVars
  <2>4. CASE Next
    BY <2>1, <2>2, <2>4, EnvironmentKeepsTrendMoney, TickKeepsTrendMoney,
       OrderStepKeepsTrendMoney DEF Next, BotStep
  <2> QED
    BY <2>3, <2>4
<1>3. NoLeftover
  BY DEF OneSeller, NoLeftover
<1> QED
  BY <1>1, <1>2, <1>3, PolicyInvHolds, PTL DEF Spec

\* What the sums of TrendMoney say together.
LEMMA TrendMoneyBounds ==
    ASSUME IndType, TrendMoney
    PROVE  sold + st.pos <= bought /\ st.pos <= free
<1>1. FillType /\ st.buys \in SUBSET BuyIds /\ st.pos \in Nat
      /\ sold \in Nat /\ free \in Nat /\ bought \in Nat /\ foreign \in Nat
  BY IndTypeGivesFillType DEF IndType, BotType, VenueType, GoodBooks, States
<1>2. /\ SumFunctionOnSet(filled, BuyIds \ st.buys) \in Nat
      /\ SumFunctionOnSet(filled, BuyIds \ st.buys) <= SumFunctionOnSet(filled, BuyIds)
  BY <1>1, BuysAreFinite
<1> QED
  BY <1>1, <1>2 DEF TrendMoney

\* "Non si vende mai piu' di cio' che il bot ha comprato": through partial fills,
\* stale balances, fills that overwrite the position and foreign units on the
\* account, the units the bot sells never exceed those it bought.
THEOREM SaleSafety ==
    ASSUME OneSeller
    PROVE  Spec => []SoldWithinBought
<1>1. IndType /\ TrendMoney => SoldWithinBought
  BY TrendMoneyBounds DEF SoldWithinBought, IndType, BotType, GoodBooks, States
<1> QED
  BY <1>1, TrendMoneyHolds, PTL

\* The position the stop would sell is on the account, free of other orders.
THEOREM PositionSafety ==
    ASSUME OneSeller
    PROVE  Spec => []PositionBacked
<1>1. IndType /\ TrendMoney => PositionBacked
  BY TrendMoneyBounds DEF PositionBacked
<1> QED
  BY <1>1, TrendMoneyHolds, PTL

-----------------------------------------------------------------------------
(***************************************************************************)
(* What failures and crashes can add to the sales of the monitored stop:   *)
(* a position each.                                                        *)
(*                                                                         *)
(* A reply that is lost leaves in the state a position that was sold, and  *)
(* a crash brings back the one of the state file.  RepeatInv says what may *)
(* still be sold from each of the two: the position and the fills of the   *)
(* buys the books hold, to become positions.  What the state file would    *)
(* repeat is a sale of the tick since it was written, at most; a save      *)
(* that fails, and a crash before it, pay for that one.                    *)
(***************************************************************************)
StopSeller ==
    /\ StopMonitorato /\ ~StopLossOn
    /\ FaultKinds \cap {"partial", "leftover"} = {}

Left(f, S) == SumFunctionOnSet(f, BuyIds \ S)
Allowed(n) == Size * n

\* The places of the bot at which the running tick has sold nothing.
Unsold == {"down", "idle", "stop"}

RepeatInv ==
    /\ bought = SumFunctionOnSet(filled, BuyIds)
    /\ \A o \in BuyIds : amount[o] <= Size /\ (Live(o) => filled[o] = 0)
    /\ st.pos <= Size /\ disk.pos <= Size
    /\ pc # "down" =>
         sold + st.pos <= Left(filled, st.buys) + Allowed(faults + crashes)
    /\ sold + disk.pos <= Left(filled, disk.buys) + Allowed(faults + crashes) + Size
    /\ pc \in Unsold =>
         sold + disk.pos <= Left(filled, disk.buys) + Allowed(faults + crashes)
    /\ pc \in {"buys1", "buys2"} => todo \subseteq st.buys
    /\ ~Stopping

RepeatType ==
    /\ TrendType
    /\ st.buys \in SUBSET BuyIds /\ disk.buys \in SUBSET BuyIds
    /\ st.pos \in Nat /\ disk.pos \in Nat
    /\ faults \in Nat /\ crashes \in Nat

LEMMA InvariantsGiveRepeatType ==
    ASSUME StopMonitorato
    PROVE  IndType /\ PolicyInv => RepeatType
BY InvariantsGiveTrendType DEF IndType, BotType, GoodBooks, States, RepeatType

LEMMA AllowedGrows ==
    ASSUME NEW n \in Nat, NEW m \in Nat
    PROVE  /\ Allowed(n) \in Nat
           /\ n <= m => Allowed(n) <= Allowed(m)
           /\ n + 1 <= m => Allowed(n) + Size <= Allowed(m)
<1>1. Size \in Nat
  BY BotAssumption DEF BotAssumption
<1> QED
  BY <1>1 DEF Allowed

LEMMA LeftIsNat ==
    ASSUME FillType, NEW S \in SUBSET BuyIds
    PROVE  /\ IsFiniteSet(BuyIds \ S) /\ \A o \in BuyIds : filled[o] \in Nat
           /\ Left(filled, S) \in Nat
           /\ Left(filled, S) <= SumFunctionOnSet(filled, BuyIds)
<1>1. BuyIds \ S \in SUBSET BuyIds
  OBVIOUS
<1> QED
  BY <1>1, BuysAreFinite DEF Left

\* The fewer buys are in the books, the more fills are left to the others.
LEMMA LeftOrder ==
    ASSUME FillType, NEW S \in SUBSET BuyIds, NEW R \in SUBSET S
    PROVE  Left(filled, S) <= Left(filled, R)
<1>1. /\ BuyIds \ S \in SUBSET (BuyIds \ R) /\ R \in SUBSET BuyIds
      /\ \A o \in BuyIds \ S : filled[o] <= filled[o]
  BY DEF FillType, Ids
<1>2. IsFiniteSet(BuyIds \ R) /\ \A o \in BuyIds : filled[o] \in Nat
  BY <1>1, LeftIsNat
<1> QED
  BY <1>1, <1>2, SumOrder DEF Left

LEMMA LeftWithout ==
    ASSUME FillType, NEW S \in SUBSET BuyIds, NEW o \in S
    PROVE  Left(filled, S \ {o}) = Left(filled, S) + filled[o]
<1>1. /\ IsFiniteSet(BuyIds \ S) /\ filled[o] \in Nat /\ o \notin BuyIds \ S
      /\ \A p \in BuyIds \ S : filled[p] \in Nat
  BY LeftIsNat
<1>2. (BuyIds \ S) \cup {o} = BuyIds \ (S \ {o})
  OBVIOUS
<1> QED
  BY <1>1, <1>2, SumAddOne DEF Left

\* Buys with no fill make no difference.
LEMMA LeftWithUnfilled ==
    ASSUME FillType, NEW S \in SUBSET BuyIds, NEW Z \in SUBSET BuyIds,
           \A o \in Z : filled[o] = 0
    PROVE  Left(filled, S \cup Z) = Left(filled, S)
<1> DEFINE all == BuyIds \ S
           none == all \cap Z
<1>1. IsFiniteSet(all) /\ (\A o \in all : filled[o] \in Nat) /\ none \in SUBSET all
  BY LeftIsNat
<1>2. IsFiniteSet(none) /\ \A o \in none : filled[o] = 0
  BY <1>1, FS_Subset
<1>3. SumFunctionOnSet(filled, none) = 0
  BY <1>2, SumOfZeros
<1>4. /\ SumFunctionOnSet(filled, all)
           = SumFunctionOnSet(filled, none) + SumFunctionOnSet(filled, all \ none)
      /\ SumFunctionOnSet(filled, all \ none) \in Nat
  BY <1>1, SumSplit
<1>5. all \ none = BuyIds \ (S \cup Z)
  OBVIOUS
<1> QED
  BY <1>3, <1>4, <1>5 DEF Left

\* A step that fills and sells nothing and takes no buy into the books.
LEMMA CalmStep ==
    ASSUME RepeatType, RepeatType', RepeatInv,
           UNCHANGED <<filled, amount, bought, sold, disk, crashes>>,
           faults <= faults', st'.pos <= st.pos, st'.buys \subseteq st.buys,
           \A o \in BuyIds : status'[o] = "open" => status[o] = "open",
           pc # "down", pc' \notin {"down", "slBuys", "slCancel"},
           pc' \in {"idle", "stop"} => pc \in Unsold,
           pc' \in {"buys1", "buys2"} => todo' \subseteq st'.buys
    PROVE  RepeatInv'
<1>1. /\ Left(filled, st.buys) \in Nat /\ Left(filled, st'.buys) \in Nat
      /\ Left(filled, disk.buys) \in Nat
      /\ Left(filled, st.buys) <= Left(filled, st'.buys)
  BY LeftIsNat, LeftOrder DEF RepeatType, TrendType
<1>2. /\ Allowed(faults + crashes) \in Nat /\ Allowed(faults' + crashes') \in Nat
      /\ Allowed(faults + crashes) <= Allowed(faults' + crashes')
  BY AllowedGrows DEF RepeatType
<1>3. st.pos \in Nat /\ st'.pos \in Nat /\ disk.pos \in Nat /\ sold \in Nat
      /\ Size \in Nat
  BY BotAssumption DEF RepeatType, TrendType, BotAssumption
<1>4. sold' + st'.pos <= Left(filled', st'.buys) + Allowed(faults' + crashes')
  BY <1>1, <1>2, <1>3 DEF RepeatInv
<1>5. sold' + disk'.pos <= Left(filled', disk'.buys) + Allowed(faults' + crashes') + Size
  BY <1>1, <1>2, <1>3 DEF RepeatInv
<1>6. pc' \in Unsold =>
        sold' + disk'.pos <= Left(filled', disk'.buys) + Allowed(faults' + crashes')
  BY <1>1, <1>2, <1>3 DEF RepeatInv, Unsold
<1>7. st'.pos <= Size /\ disk'.pos <= Size
  BY <1>3 DEF RepeatInv
<1> QED
  BY <1>4, <1>5, <1>6, <1>7 DEF RepeatInv, Stopping, Live

\* The monitored stop sells at most the position, which it closes or, when the
\* reply is lost, keeps.
LEMMA StopSale ==
    ASSUME RepeatType, RepeatType', RepeatInv, NEW a \in Nat, a <= st.pos,
           sold' = sold + a,
           UNCHANGED <<status, filled, amount, bought, disk, crashes>>,
           st'.buys = st.buys, pc = "stop", pc' = "ladder",
           \/ st'.pos = 0 /\ faults' = faults
           \/ st'.pos = st.pos /\ faults' = faults + 1
    PROVE  RepeatInv'
<1>1. Left(filled, st.buys) \in Nat /\ Left(filled, disk.buys) \in Nat
  BY LeftIsNat DEF RepeatType, TrendType
<1>2. /\ Allowed(faults + crashes) \in Nat /\ Allowed(faults' + crashes') \in Nat
      /\ Allowed(faults + crashes) <= Allowed(faults' + crashes')
      /\ faults' = faults + 1 =>
           Allowed(faults + crashes) + Size <= Allowed(faults' + crashes')
  BY AllowedGrows DEF RepeatType
<1>3. st.pos \in Nat /\ disk.pos \in Nat /\ sold \in Nat /\ Size \in Nat
      /\ st.pos <= Size
  BY BotAssumption DEF RepeatType, TrendType, BotAssumption, RepeatInv
<1>4. sold' + st'.pos <= Left(filled', st'.buys) + Allowed(faults' + crashes')
  BY <1>1, <1>2, <1>3 DEF RepeatInv
<1>5. sold' + disk'.pos <= Left(filled', disk'.buys) + Allowed(faults' + crashes') + Size
  BY <1>1, <1>2, <1>3 DEF RepeatInv, Unsold
<1>6. st'.pos <= Size /\ disk'.pos <= Size
  BY <1>3 DEF RepeatInv
<1> QED
  BY <1>4, <1>5, <1>6 DEF RepeatInv, Stopping, Live, Unsold

LEMMA InitRepeatInv == Init => RepeatInv
<1> SUFFICES ASSUME Init PROVE RepeatInv
  OBVIOUS
<1>1. \A o \in BuyIds : filled[o] = 0 /\ amount[o] = 0 /\ ~Live(o)
  BY DEF Init, Ids, Live
<1>2. SumFunctionOnSet(filled, BuyIds) = 0
  BY <1>1, BotAssumption, SumOfZeros
<1>3. Left(filled, {}) = 0
  <2>1. BuyIds \ {} = BuyIds
    OBVIOUS
  <2> QED
    BY <1>2, <2>1 DEF Left
<1>4. disk.buys = {} /\ disk.pos = 0 /\ st.pos = 0
  BY DEF Init, FreshState
<1>5. Size \in Nat /\ Allowed(0) = 0 /\ Allowed(faults + crashes) = 0
  BY BotAssumption DEF BotAssumption, Allowed, Init
<1>6. pc = "down" /\ sold = 0 /\ bought = 0
  BY DEF Init
<1>7. sold + disk.pos <= Left(filled, disk.buys) + Allowed(faults + crashes)
      /\ sold + disk.pos <= Left(filled, disk.buys) + Allowed(faults + crashes) + Size
      /\ st.pos <= Size /\ disk.pos <= Size
  BY <1>3, <1>4, <1>5, <1>6
<1>8. \A o \in BuyIds : amount[o] <= Size /\ (Live(o) => filled[o] = 0)
  BY <1>1, <1>5
<1>9. bought = SumFunctionOnSet(filled, BuyIds)
  BY <1>2, <1>6
<1> QED
  BY <1>6, <1>7, <1>8, <1>9 DEF RepeatInv, Stopping

LEMMA FillKeepsRepeatInv ==
    ASSUME StopSeller, RepeatType, RepeatType', RepeatInv, NEW o \in Ids, VenueFill(o)
    PROVE  RepeatInv'
<1>1. o \in BuyIds
  BY DEF VenueFill, Live, RepeatType, TrendType, Ids
<1>2. PICK q \in Nat : /\ filled' = [filled EXCEPT ![o] = @ + q]
                       /\ filled[o] + q = amount[o]
                       /\ bought' = bought + q /\ sold' = sold
                       /\ status' = [status EXCEPT ![o] = "closed"]
  <2>1. o \notin SellIds /\ amount[o] \in Nat /\ filled[o] \in Nat
    BY <1>1, BotAssumption DEF BotAssumption, RepeatType, TrendType, FillType, Ids
  <2>2. 1 .. (amount[o] - filled[o]) \subseteq Nat
    BY <2>1
  <2>3. PICK q \in 1 .. (amount[o] - filled[o]) :
          /\ q = amount[o] - filled[o]
          /\ filled' = [filled EXCEPT ![o] = @ + q]
          /\ status' = [status EXCEPT ![o] =
                          IF filled[o] + q = amount[o] THEN "closed" ELSE @]
          /\ bought' = bought + q /\ sold' = sold
    BY <1>1, <2>1 DEF VenueFill, StopSeller
  <2>4. filled[o] + q = amount[o]
    BY <2>1, <2>3
  <2> QED
    BY <2>2, <2>3, <2>4
<1>3. UNCHANGED <<st, disk, pc, todo, amount, faults, crashes>>
  BY DEF VenueFill, memVars, durVars, tickVars
<1>4. /\ \A p \in BuyIds : filled[p] \in Nat /\ filled'[p] \in Nat
      /\ \A p \in BuyIds : filled[p] <= filled'[p]
      /\ filled'[o] = filled[o] + q /\ \A p \in BuyIds \ {o} : filled'[p] = filled[p]
  BY <1>1, <1>2 DEF RepeatType, TrendType, FillType, Ids
<1>5. SumFunctionOnSet(filled', BuyIds)
        = SumFunctionOnSet(filled, BuyIds) - filled[o] + filled'[o]
  <2>1. IsFiniteSet(BuyIds) /\ filled'[o] \in Nat
    BY <1>1, <1>4, BotAssumption DEF BotAssumption
  <2> QED
    BY <1>1, <1>4, <2>1, SumReplace
<1>6. SumFunctionOnSet(filled, BuyIds) \in Nat /\ filled[o] \in Nat
  BY <1>1, <1>4, BotAssumption, SumNat DEF BotAssumption
<1>7. ASSUME NEW S \in SUBSET BuyIds
      PROVE  Left(filled, S) <= Left(filled', S)
             /\ Left(filled, S) \in Nat /\ Left(filled', S) \in Nat
  <2>1. IsFiniteSet(BuyIds \ S)
    BY LeftIsNat DEF RepeatType, TrendType
  <2>2. BuyIds \ S \in SUBSET (BuyIds \ S)
    OBVIOUS
  <2> QED
    BY <1>4, <2>1, <2>2, SumOrder, SumNat DEF Left
<1>8. bought' = SumFunctionOnSet(filled', BuyIds)
  BY <1>2, <1>4, <1>5, <1>6 DEF RepeatInv
<1>9. \A p \in BuyIds : amount'[p] <= Size /\ (Live(p)' => filled'[p] = 0)
  BY <1>1, <1>2, <1>3, <1>4 DEF RepeatInv, Live, RepeatType, TrendType, FillType, Ids
<1>10. /\ st.buys \in SUBSET BuyIds /\ disk.buys \in SUBSET BuyIds
       /\ st.pos \in Nat /\ disk.pos \in Nat /\ sold \in Nat /\ Size \in Nat
       /\ Allowed(faults + crashes) \in Nat
  BY BotAssumption, AllowedGrows DEF RepeatType, TrendType, BotAssumption
<1>11. pc # "down" =>
         sold + st.pos <= Left(filled', st.buys) + Allowed(faults + crashes)
  BY <1>7, <1>10 DEF RepeatInv
<1>12. /\ sold + disk.pos <= Left(filled', disk.buys) + Allowed(faults + crashes) + Size
       /\ pc \in Unsold =>
            sold + disk.pos <= Left(filled', disk.buys) + Allowed(faults + crashes)
  BY <1>7, <1>10 DEF RepeatInv
<1> QED
  BY <1>2, <1>3, <1>8, <1>9, <1>11, <1>12 DEF RepeatInv, Stopping

\* A start: the position and the buys are those of the state file, or none; the
\* buys it adopts have no fill yet.
LEMMA BootKeepsRepeatInv ==
    ASSUME RepeatType, RepeatType', RepeatInv, Boot
    PROVE  RepeatInv'
<1>1. /\ pc = "down" /\ pc' = "idle"
      /\ UNCHANGED <<status, filled, amount, bought, sold, disk, crashes>>
      /\ faults' = faults \/ faults' = faults + 1
  BY DEF Boot, venueVars, durVars, NoFault, Fault
<1>2. /\ disk \in States /\ FreshState \in States
      /\ LoadedState \in States
      /\ LoadedState.buys \subseteq disk.buys /\ LoadedState.pos <= disk.pos
      /\ LoadedState.pos \in Nat
  <2>1. disk \in States /\ disk.pos \in Nat
    BY DEF RepeatType, TrendType, FillType
  <2>2. FreshState \in States /\ FreshState.buys = {} /\ FreshState.pos = 0
    BY DEF FreshState, States
  <2>3. CASE disk.named
    <3>1. LoadedState = [disk EXCEPT !.named = FALSE]
      BY <2>3 DEF LoadedState
    <3>2. /\ [disk EXCEPT !.named = FALSE] \in States
          /\ [disk EXCEPT !.named = FALSE].buys = disk.buys
          /\ [disk EXCEPT !.named = FALSE].pos = disk.pos
      BY <2>1 DEF States
    <3> QED
      BY <2>1, <2>2, <3>1, <3>2
  <2>4. CASE ~disk.named
    <3>1. LoadedState = FreshState
      BY <2>4 DEF LoadedState
    <3> QED
      BY <2>1, <2>2, <3>1
  <2> QED
    BY <2>3, <2>4
<1>3. /\ st'.pos \in Nat /\ st'.pos <= LoadedState.pos
      /\ st'.buys \subseteq LoadedState.buys \cup (LiveIds \cap BuyIds)
  <2>1. /\ Adopt(LoadedState, LiveIds) \in States
        /\ Adopt(LoadedState, LiveIds).pos = LoadedState.pos
        /\ Adopt(LoadedState, LiveIds).buys = LoadedState.buys \cup (LiveIds \cap BuyIds)
    BY <1>2, PositionOf, AdoptedBooks
  <2>2. \/ st' = Reconciled(Adopt(LoadedState, LiveIds))
        \/ st' = Reconciled(LoadedState)
        \/ st' = Adopt(LoadedState, LiveIds)
    BY DEF Boot
  <2>3. /\ Reconciled(LoadedState).pos \in {0, LoadedState.pos}
        /\ Reconciled(LoadedState).buys = LoadedState.buys
        /\ Reconciled(Adopt(LoadedState, LiveIds)).pos \in {0, LoadedState.pos}
        /\ Reconciled(Adopt(LoadedState, LiveIds)).buys
             = LoadedState.buys \cup (LiveIds \cap BuyIds)
    BY <1>2, <2>1, PositionOf, ReconciledBooks
  <2> QED
    BY <1>2, <2>1, <2>2, <2>3
<1> DEFINE adopted == disk.buys \cup (LiveIds \cap BuyIds)
<1>4. /\ disk.buys \in SUBSET BuyIds /\ adopted \in SUBSET BuyIds
      /\ st'.buys \in SUBSET adopted
  BY <1>2, <1>3 DEF RepeatType
<1>5. Left(filled, adopted) = Left(filled, disk.buys)
  <2>1. LiveIds \cap BuyIds \in SUBSET BuyIds
        /\ \A o \in LiveIds \cap BuyIds : filled[o] = 0
    BY DEF LiveIds, RepeatInv
  <2> QED
    BY <1>4, <2>1, LeftWithUnfilled DEF RepeatType, TrendType
<1>6. Left(filled, disk.buys) <= Left(filled, st'.buys)
      /\ Left(filled, disk.buys) \in Nat /\ Left(filled, st'.buys) \in Nat
  <2>1. st'.buys \in SUBSET BuyIds
    BY <1>4
  <2> QED
    BY <1>4, <1>5, <2>1, LeftOrder, LeftIsNat DEF RepeatType, TrendType
<1>7. /\ Allowed(faults + crashes) \in Nat /\ Allowed(faults' + crashes') \in Nat
      /\ Allowed(faults + crashes) <= Allowed(faults' + crashes')
  <2>1. faults \in Nat /\ crashes \in Nat /\ crashes' = crashes
    BY <1>1 DEF RepeatType
  <2>2. faults + crashes \in Nat /\ faults' + crashes' \in Nat
        /\ faults + crashes <= faults' + crashes'
    BY <1>1, <2>1
  <2> QED
    BY <2>2, AllowedGrows
<1>8. disk.pos \in Nat /\ sold \in Nat /\ Size \in Nat /\ disk.pos <= Size
      /\ sold + disk.pos <= Left(filled, disk.buys) + Allowed(faults + crashes)
  BY <1>1, BotAssumption DEF RepeatType, TrendType, BotAssumption, RepeatInv, Unsold
<1>9. /\ sold + st'.pos <= Left(filled, st'.buys) + Allowed(faults' + crashes')
      /\ sold + disk.pos <= Left(filled, disk.buys) + Allowed(faults' + crashes')
      /\ st'.pos <= Size
  BY <1>2, <1>3, <1>6, <1>7, <1>8
<1>10. sold + disk.pos <= Left(filled, disk.buys) + Allowed(faults' + crashes') + Size
  BY <1>6, <1>7, <1>8, <1>9
<1> QED
  BY <1>1, <1>8, <1>9, <1>10 DEF RepeatInv, Stopping, Live

\* A crash pays for the sale that the state file does not know of.
LEMMA CrashKeepsRepeatInv ==
    ASSUME RepeatType, RepeatType', RepeatInv, Crash
    PROVE  RepeatInv'
<1>1. /\ pc' = "down" /\ crashes' = crashes + 1
      /\ UNCHANGED <<status, filled, amount, bought, sold, disk, faults>>
  BY DEF Crash, venueVars, durVars
<1>2. st'.pos = 0
  BY DEF Crash, FreshState
<1>3. /\ Allowed(faults + crashes) \in Nat /\ Allowed(faults' + crashes') \in Nat
      /\ Allowed(faults + crashes) + Size <= Allowed(faults' + crashes')
  <2>1. faults + crashes \in Nat /\ faults' + crashes' \in Nat
        /\ (faults + crashes) + 1 <= faults' + crashes'
    BY <1>1 DEF RepeatType
  <2> QED
    BY <2>1, AllowedGrows
<1>4. Left(filled, disk.buys) \in Nat /\ disk.pos \in Nat /\ sold \in Nat
      /\ Size \in Nat
  BY LeftIsNat, BotAssumption DEF RepeatType, TrendType, BotAssumption
<1>5. /\ sold + disk.pos <= Left(filled, disk.buys) + Allowed(faults' + crashes')
      /\ sold + disk.pos <= Left(filled, disk.buys) + Allowed(faults' + crashes') + Size
  BY <1>3, <1>4 DEF RepeatInv
<1> QED
  BY <1>1, <1>2, <1>4, <1>5 DEF RepeatInv, Stopping, Live

\* A save that fails pays for it too; one that does not writes what is in memory.
LEMMA PersistKeepsRepeatInv ==
    ASSUME RepeatType, RepeatType', RepeatInv, Persist
    PROVE  RepeatInv'
<1>1. /\ pc = "persist" /\ pc' = "idle"
      /\ UNCHANGED <<status, filled, amount, bought, sold, st, crashes>>
      /\ \/ faults' = faults /\ disk' = st
         \/ faults' = faults + 1 /\ disk' = disk
  BY DEF Persist, venueVars, NoFault, Fault
<1>2. /\ Allowed(faults + crashes) \in Nat /\ Allowed(faults' + crashes') \in Nat
      /\ Allowed(faults + crashes) <= Allowed(faults' + crashes')
      /\ faults' = faults + 1 =>
           Allowed(faults + crashes) + Size <= Allowed(faults' + crashes')
  <2>1. /\ faults + crashes \in Nat /\ faults' + crashes' \in Nat
        /\ faults + crashes <= faults' + crashes'
        /\ faults' = faults + 1 => (faults + crashes) + 1 <= faults' + crashes'
    <3>1. faults \in Nat /\ crashes \in Nat /\ crashes' = crashes
      BY <1>1 DEF RepeatType
    <3> QED
      BY <1>1, <3>1
  <2>2. /\ Allowed(faults + crashes) \in Nat /\ Allowed(faults' + crashes') \in Nat
        /\ Allowed(faults + crashes) <= Allowed(faults' + crashes')
    BY <2>1, AllowedGrows
  <2>3. ASSUME faults' = faults + 1
        PROVE  Allowed(faults + crashes) + Size <= Allowed(faults' + crashes')
    <3>1. (faults + crashes) + 1 <= faults' + crashes'
      BY <2>1, <2>3
    <3> QED
      BY <2>1, <3>1, AllowedGrows
  <2> QED
    BY <2>2, <2>3
<1>3. /\ Left(filled, st.buys) \in Nat /\ Left(filled, disk.buys) \in Nat
      /\ st.pos \in Nat /\ disk.pos \in Nat /\ sold \in Nat /\ Size \in Nat
  BY LeftIsNat, BotAssumption DEF RepeatType, TrendType, BotAssumption
<1>4. sold + st.pos <= Left(filled, st.buys) + Allowed(faults' + crashes')
  BY <1>1, <1>2, <1>3 DEF RepeatInv
<1>5. /\ sold + disk'.pos <= Left(filled, disk'.buys) + Allowed(faults' + crashes')
      /\ disk'.pos <= Size
  <2>1. CASE disk' = st
    BY <1>4, <2>1 DEF RepeatInv
  <2>2. CASE faults' = faults + 1 /\ disk' = disk
    BY <1>2, <1>3, <2>2 DEF RepeatInv
  <2> QED
    BY <1>1, <2>1, <2>2
<1>6. Left(filled, disk'.buys) \in Nat /\ disk'.pos \in Nat
  BY <1>1, <1>3
<1>7. sold + disk'.pos <= Left(filled, disk'.buys) + Allowed(faults' + crashes') + Size
  BY <1>2, <1>3, <1>5, <1>6
<1> QED
  BY <1>1, <1>4, <1>5, <1>7 DEF RepeatInv, Stopping, Live

LEMMA EnvironmentKeepsRepeatInv ==
    ASSUME StopSeller, RepeatType, RepeatType', RepeatInv,
           \/ Environment
           \/ Crash \/ \E o \in BuyIds : CrashInTakeProfit(o)
           \/ Boot \/ Persist
    PROVE  RepeatInv'
<1> USE DEF venueVars, memVars, durVars, tickVars, obsVars
<1>1. ASSUME NEW o \in Ids, VenueFill(o) PROVE RepeatInv'
  BY <1>1, FillKeepsRepeatInv
<1>2. ASSUME NEW o \in Ids, VenueExpire(o) PROVE RepeatInv'
  <2>1. /\ UNCHANGED <<filled, amount, bought, sold, disk, crashes, st, pc, todo>>
        /\ faults' = faults + 1 /\ status' = [status EXCEPT ![o] = "canceled"]
    BY <1>2 DEF VenueExpire, CancelAtVenue, Fault
  <2>2. \A p \in BuyIds : status'[p] = "open" => status[p] = "open"
    BY <2>1 DEF RepeatType, TrendType, FillType, Ids
  <2>3. /\ Allowed(faults + crashes) \in Nat /\ Allowed(faults' + crashes') \in Nat
        /\ Allowed(faults + crashes) <= Allowed(faults' + crashes')
    <3>1. faults + crashes \in Nat /\ faults' + crashes' \in Nat
          /\ faults + crashes <= faults' + crashes'
      BY <2>1 DEF RepeatType
    <3> QED
      BY <3>1, AllowedGrows
  <2>4. /\ Left(filled, st.buys) \in Nat /\ Left(filled, disk.buys) \in Nat
        /\ st.pos \in Nat /\ disk.pos \in Nat /\ sold \in Nat /\ Size \in Nat
    BY LeftIsNat, BotAssumption DEF RepeatType, TrendType, BotAssumption
  <2>5. pc # "down" =>
          sold + st.pos <= Left(filled, st.buys) + Allowed(faults' + crashes')
    BY <2>3, <2>4 DEF RepeatInv
  <2>6. /\ sold + disk.pos <= Left(filled, disk.buys) + Allowed(faults' + crashes') + Size
        /\ pc \in Unsold =>
             sold + disk.pos <= Left(filled, disk.buys) + Allowed(faults' + crashes')
    BY <2>3, <2>4 DEF RepeatInv
  <2> QED
    BY <2>1, <2>2, <2>5, <2>6 DEF RepeatInv, Stopping, Live
<1>3. ASSUME Deposit \/ SafeMode PROVE RepeatInv'
  <2>1. UNCHANGED <<status, filled, amount, bought, sold, st, disk, faults, crashes,
                    pc, todo>>
    BY <1>3 DEF Deposit, SafeMode
  <2> QED
    BY <2>1 DEF RepeatInv, Stopping, Live
<1>4. ASSUME NEW o \in Ids, LeftoverSell(o) PROVE RepeatInv'
  BY <1>4 DEF LeftoverSell, Fault, StopSeller
<1>5. ASSUME NEW o \in BuyIds, CrashInTakeProfit(o) PROVE RepeatInv'
  BY <1>5 DEF CrashInTakeProfit, StopSeller
<1> QED
  BY <1>1, <1>2, <1>3, <1>4, <1>5, CrashKeepsRepeatInv, BootKeepsRepeatInv,
     PersistKeepsRepeatInv DEF Environment

LEMMA TickKeepsRepeatInv ==
    ASSUME StopSeller, RepeatType, RepeatType', RepeatInv,
           \/ TickBlocked \/ TickDecides
           \/ StopNotSold \/ StopReplyLost \/ StopSold
           \/ BeginFills1 \/ BuysDone \/ EndOfFills2
           \/ PreflightOk \/ PreflightBlocked \/ BeginFills2
           \/ StopLossTrips \/ SlPhotograph \/ SlNotSold \/ SlSold
    PROVE  RepeatInv'
<1> USE DEF venueVars, memVars, durVars, tickVars, obsVars, NoFault, Fault
<1>0. /\ st.pos \in Nat /\ st.buys \in SUBSET BuyIds /\ st \in States /\ free \in Nat
      /\ faults \in Nat /\ faults <= faults /\ faults <= faults + 1
      /\ st.pos <= st.pos
  BY DEF RepeatType, TrendType, FillType
<1>1. ASSUME \/ TickBlocked \/ TickDecides \/ StopNotSold \/ BuysDone
             \/ EndOfFills2 \/ PreflightOk
      PROVE  RepeatInv'
  <2>1. /\ pc # "down"
        /\ pc' \notin {"down", "slBuys", "slCancel", "buys1", "buys2"}
        /\ pc' \in {"idle", "stop"} => pc = "idle"
    BY <1>1 DEF TickBlocked, TickDecides, StopNotSold, StopDone, BuysDone, InBuys,
       EndOfFills2, PreflightOk
  <2>2. /\ UNCHANGED <<status, filled, amount, bought, sold, disk, crashes, st>>
        /\ faults' = faults \/ faults' = faults + 1
    BY <1>1 DEF TickBlocked, TickDecides, StopNotSold, BuysDone, EndOfFills2,
       PreflightOk
  <2> QED
    BY <1>0, <2>1, <2>2, CalmStep DEF Unsold
<1>2. ASSUME StopSold \/ StopReplyLost PROVE RepeatInv'
  <2>1. PICK a \in Nat : a <= st.pos /\ sold' = sold + a
    BY <1>0, <1>2 DEF StopSold, StopReplyLost, SmallerOf
  <2>2. /\ pc = "stop" /\ pc' = "ladder"
        /\ UNCHANGED <<status, filled, amount, bought, disk, crashes>>
    BY <1>2 DEF StopSold, StopReplyLost, StopDone
  <2>3. \/ st' = AfterStop(st) /\ faults' = faults
        \/ st' = st /\ faults' = faults + 1
    BY <1>2 DEF StopSold, StopReplyLost
  <2>4. AfterStop(st).pos = 0 /\ AfterStop(st).buys = st.buys
    BY <1>0 DEF AfterStop, States
  <2>5. /\ st'.buys = st.buys
        /\ \/ st'.pos = 0 /\ faults' = faults
           \/ st'.pos = st.pos /\ faults' = faults + 1
    BY <2>3, <2>4
  <2> QED
    BY <2>1, <2>2, <2>5, StopSale
<1>3. ASSUME BeginFills1 \/ BeginFills2 PROVE RepeatInv'
  <2>1. /\ pc \in {"ladder", "exec"}
        /\ pc' \in {"buys1", "buys2"} /\ todo' \subseteq st.buys
        /\ UNCHANGED <<status, filled, amount, bought, sold, disk, crashes, st>>
        /\ faults' = faults \/ faults' = faults + 1
    BY <1>3 DEF BeginFills1, BeginFills2, FillsBegin, Unresolved, LadderReady, ExecReady
  <2> QED
    BY <1>0, <2>1, CalmStep
<1>4. ASSUME PreflightBlocked PROVE RepeatInv'
  <2>1. /\ pc = "sells1" /\ pc' = "persist"
        /\ UNCHANGED <<filled, amount, bought, sold, disk, crashes, faults>>
    BY <1>4 DEF PreflightBlocked
  <2>2. PICK S : /\ st' = [st EXCEPT !.buys = @ \ S]
                 /\ status' = [o \in Ids |-> IF o \in S THEN "canceled" ELSE status[o]]
    BY <1>4 DEF PreflightBlocked
  <2>3. st'.buys \subseteq st.buys /\ st'.pos = st.pos
    BY <1>0, <2>2 DEF States
  <2>4. \A p \in BuyIds : status'[p] = "open" => status[p] = "open"
    BY <2>2 DEF Ids
  <2> QED
    BY <1>0, <2>1, <2>3, <2>4, CalmStep
<1>5. ASSUME StopLossTrips PROVE RepeatInv'
  BY <1>5 DEF StopLossTrips, StopSeller
<1>6. ASSUME SlPhotograph \/ SlNotSold \/ SlSold PROVE RepeatInv'
  BY <1>6 DEF SlPhotograph, SlNotSold, SlSold, SlCanceled, RepeatInv, Stopping
<1> QED
  BY <1>1, <1>2, <1>3, <1>4, <1>5, <1>6

LEMMA OrderStepKeepsRepeatInv ==
    ASSUME StopSeller, RepeatType, RepeatType', RepeatInv, NEW o \in Ids, OrderStep(o)
    PROVE  RepeatInv'
<1> USE DEF venueVars, memVars, durVars, tickVars, NoFault, Fault
<1>0. /\ st.pos \in Nat /\ st.buys \in SUBSET BuyIds /\ st \in States /\ free \in Nat
      /\ faults \in Nat /\ faults <= faults /\ faults <= faults + 1
      /\ st.pos <= st.pos
  BY DEF RepeatType, TrendType, FillType
<1>1. ASSUME StopCancel(o) \/ CancelLadder(o) PROVE RepeatInv'
  <2>1. /\ pc \in {"stop", "ladder"} /\ pc' = pc /\ st' = DropSell(st, o)
        /\ UNCHANGED <<filled, amount, bought, sold, disk, crashes>>
        /\ faults' = faults \/ faults' = faults + 1
    BY <1>1 DEF StopCancel, CancelLadder, CancelOutcome, CancelAtVenue
  <2>2. \A p \in BuyIds : status'[p] = "open" => status[p] = "open"
    BY <1>1 DEF StopCancel, CancelLadder, CancelOutcome, CancelAtVenue, RepeatType,
       TrendType, FillType, Ids
  <2>3. st'.buys = st.buys /\ st'.pos = st.pos
    BY <1>0, <2>1 DEF DropSell, States
  <2> QED
    BY <1>0, <2>1, <2>2, <2>3, CalmStep DEF Unsold
<1>2. ASSUME BuyNotFilled(o) PROVE RepeatInv'
  <2>1. /\ UNCHANGED <<status, filled, amount, bought, sold, disk, crashes, pc>>
        /\ pc \in {"buys1", "buys2"} /\ todo' = todo \ {o}
        /\ st' \in {st, DropBuy(st, o)}
        /\ faults' = faults \/ faults' = faults + 1
    BY <1>2 DEF BuyNotFilled, InBuys
  <2>2. DropBuy(st, o).buys = st.buys \ {o} /\ DropBuy(st, o).pos = st.pos
    BY <1>0 DEF DropBuy, States
  <2>3. todo \subseteq st.buys
    BY <2>1 DEF RepeatInv
  <2>4. /\ st'.buys \subseteq st.buys /\ st'.pos = st.pos /\ todo' \subseteq st'.buys
    BY <2>1, <2>2, <2>3
  <2> QED
    BY <1>0, <2>1, <2>4, CalmStep
<1>3. ASSUME BuyBecomesPosition(o) PROVE RepeatInv'
  <2>1. /\ UNCHANGED <<status, filled, amount, bought, sold, disk, crashes, faults, pc>>
        /\ pc \in {"buys1", "buys2"} /\ o \in todo /\ todo' = todo \ {o}
        /\ st' = [DropBuy(st, o) EXCEPT !.pos = filled[o]]
    BY <1>3 DEF BuyBecomesPosition, InBuys
  <2>2. st'.buys = st.buys \ {o} /\ st'.pos = filled[o]
    BY <1>0, <2>1 DEF DropBuy, States
  <2>3. todo \subseteq st.buys /\ o \in st.buys /\ o \in BuyIds
    BY <1>0, <2>1 DEF RepeatInv
  <2>4. /\ Left(filled, st'.buys) = Left(filled, st.buys) + filled[o]
        /\ Left(filled, st.buys) \in Nat /\ filled[o] \in Nat
    BY <1>0, <2>2, <2>3, LeftWithout, LeftIsNat DEF RepeatType, TrendType
  <2>5. /\ sold \in Nat /\ Size \in Nat /\ Allowed(faults + crashes) \in Nat
        /\ filled[o] <= amount[o] /\ amount[o] <= Size /\ amount[o] \in Nat
    BY <2>3, AllowedGrows, BotAssumption
       DEF RepeatType, TrendType, FillType, RepeatInv, BotAssumption, Ids
  <2>6. sold + st'.pos <= Left(filled, st'.buys) + Allowed(faults + crashes)
    BY <1>0, <2>1, <2>2, <2>4, <2>5 DEF RepeatInv
  <2>7. st'.pos <= Size
    BY <2>2, <2>4, <2>5
  <2> QED
    BY <2>1, <2>2, <2>3, <2>6, <2>7 DEF RepeatInv, Stopping, Live, Unsold
<1>4. ASSUME ResolveSell(o) PROVE RepeatInv'
  <2>1. /\ UNCHANGED <<status, filled, amount, bought, sold, disk, crashes, pc>>
        /\ pc \in {"sells1", "sells2"} /\ st' \in {st, DropSell(st, o)}
        /\ faults' = faults \/ faults' = faults + 1
    BY <1>4 DEF ResolveSell, InSells
  <2>2. DropSell(st, o).buys = st.buys /\ DropSell(st, o).pos = st.pos
    BY <1>0 DEF DropSell, States
  <2> QED
    BY <1>0, <2>1, <2>2, CalmStep
<1>5. ASSUME CancelBuy(o) PROVE RepeatInv'
  <2>1. /\ UNCHANGED <<filled, amount, bought, sold, disk, crashes, pc>> /\ pc = "exec"
        /\ st' \in {st, DropBuy(st, o)}
        /\ faults' = faults \/ faults' = faults + 1
    BY <1>5 DEF CancelBuy, CancelAtVenue
  <2>2. \A p \in BuyIds : status'[p] = "open" => status[p] = "open"
    BY <1>5 DEF CancelBuy, CancelAtVenue, RepeatType, TrendType, FillType, Ids
  <2>3. DropBuy(st, o).buys = st.buys \ {o} /\ DropBuy(st, o).pos = st.pos
    BY <1>0 DEF DropBuy, States
  <2> QED
    BY <1>0, <2>1, <2>2, <2>3, CalmStep
<1>6. ASSUME PlaceBuy(o) PROVE RepeatInv'
  <2>1. /\ UNCHANGED <<filled, bought, sold, disk, crashes, pc>> /\ pc = "exec"
        /\ o \in BuyIds /\ status[o] = "none"
        /\ st' = st \/ st' = [st EXCEPT !.buys = @ \cup {o}]
        /\ faults' = faults \/ faults' = faults + 1
    BY <1>6 DEF PlaceBuy, ExecReady, IsNext, AcceptBuy
  <2>2. \/ UNCHANGED <<status, amount>>
        \/ /\ status' = [status EXCEPT ![o] = "open"]
           /\ amount' = [amount EXCEPT ![o] = Size]
    BY <1>6 DEF PlaceBuy, AcceptBuy
  <2>3. filled[o] = 0 /\ Size \in Nat
    BY <2>1, BotAssumption DEF RepeatType, TrendType, FillType, Ids, BotAssumption
  <2>4. \A p \in BuyIds : amount'[p] <= Size /\ (Live(p)' => filled'[p] = 0)
    BY <2>1, <2>2, <2>3 DEF RepeatInv, Live, RepeatType, TrendType, FillType, Ids
  <2>5. [st EXCEPT !.buys = @ \cup {o}].buys = st.buys \cup {o}
        /\ [st EXCEPT !.buys = @ \cup {o}].pos = st.pos
    BY <1>0 DEF States
  <2>6. st'.pos = st.pos /\ (st'.buys = st.buys \/ st'.buys = st.buys \cup {o})
    BY <2>1, <2>5
  <2>7. Left(filled, st.buys \cup {o}) = Left(filled, st.buys)
        /\ Left(filled, st.buys) \in Nat /\ Left(filled, disk.buys) \in Nat
    <3>1. {o} \in SUBSET BuyIds /\ \A p \in {o} : filled[p] = 0
      BY <2>1, <2>3
    <3> QED
      BY <1>0, <3>1, LeftWithUnfilled, LeftIsNat DEF RepeatType, TrendType
  <2>8. /\ Allowed(faults + crashes) \in Nat /\ Allowed(faults' + crashes') \in Nat
        /\ Allowed(faults + crashes) <= Allowed(faults' + crashes')
    <3>1. faults + crashes \in Nat /\ faults' + crashes' \in Nat
          /\ faults + crashes <= faults' + crashes'
      BY <2>1 DEF RepeatType
    <3> QED
      BY <3>1, AllowedGrows
  <2>9. disk.pos \in Nat /\ sold \in Nat
    BY DEF RepeatType, TrendType
  <2>10. sold + st'.pos <= Left(filled, st'.buys) + Allowed(faults' + crashes')
    <3>1. Left(filled, st'.buys) = Left(filled, st.buys)
      BY <2>6, <2>7
    <3>2. sold + st.pos <= Left(filled, st.buys) + Allowed(faults + crashes)
      BY <2>1 DEF RepeatInv
    <3>3. st.pos \in Nat
      BY DEF RepeatType
    <3> QED
      BY <2>6, <2>7, <2>8, <2>9, <3>1, <3>2, <3>3
  <2>11. sold + disk.pos <= Left(filled, disk.buys) + Allowed(faults' + crashes') + Size
    BY <2>3, <2>7, <2>8, <2>9 DEF RepeatInv
  <2> QED
    BY <2>1, <2>4, <2>6, <2>10, <2>11 DEF RepeatInv, Stopping, Unsold
<1>7. ASSUME PlaceLadder(o) \/ BuySendsTakeProfit(o) PROVE RepeatInv'
  <2>1. ~PlaceLadder(o)
    BY DEF PlaceLadder, RepeatType, TrendType
  <2>2. ~BuySendsTakeProfit(o)
    BY DEF BuySendsTakeProfit, StopSeller
  <2> QED
    BY <1>7, <2>1, <2>2
<1>8. ASSUME SlResolve(o) \/ SlCancel(o) PROVE RepeatInv'
  BY <1>8 DEF SlResolve, SlCancel, RepeatInv, Stopping
<1> QED
  BY <1>1, <1>2, <1>3, <1>4, <1>5, <1>6, <1>7, <1>8 DEF OrderStep

LEMMA RepeatInvHolds ==
    ASSUME StopSeller
    PROVE  Spec => [](IndType /\ PolicyInv /\ RepeatInv)
<1>1. Init => RepeatInv
  BY InitRepeatInv
<1>2. (IndType /\ PolicyInv) /\ (IndType' /\ PolicyInv') /\ RepeatInv /\ [Next]_vars
        => RepeatInv'
  <2> SUFFICES ASSUME IndType, PolicyInv, IndType', PolicyInv', RepeatInv, [Next]_vars
               PROVE  RepeatInv'
    OBVIOUS
  <2>1. RepeatType
    BY InvariantsGiveRepeatType DEF StopSeller
  <2>2. RepeatType'
    BY DEF StopSeller, IndType, VenueType, BotType, GoodBooks, States, PolicyInv,
       FillType, TrendType, RepeatType
  <2>3. CASE UNCHANGED vars
    BY <2>3 DEF RepeatInv, Stopping, Live, vars, venueVars, memVars, durVars, tickVars,
       obsVars
  <2>4. CASE Next
    BY <2>1, <2>2, <2>4, EnvironmentKeepsRepeatInv, TickKeepsRepeatInv,
       OrderStepKeepsRepeatInv DEF Next, BotStep
  <2> QED
    BY <2>3, <2>4
<1>3. NoLeftover
  BY DEF StopSeller, NoLeftover
<1> QED
  BY <1>1, <1>2, <1>3, PolicyInvHolds, PTL DEF Spec

\* Through lost replies, saves that fail and any number of restarts, on an account
\* with units of others to sell, what the monitored stop takes out beyond what the
\* bot bought is one position for each failure or crash at most.
THEOREM RepeatSafety ==
    ASSUME StopSeller
    PROVE  Spec => []ExcessSalesHaveCause
<1>1. IndType /\ PolicyInv /\ RepeatInv => ExcessSalesHaveCause
  <2> SUFFICES ASSUME IndType, PolicyInv, RepeatInv
               PROVE  ExcessSalesHaveCause
    OBVIOUS
  <2>1. RepeatType
    BY InvariantsGiveRepeatType DEF StopSeller
  <2>2. /\ Left(filled, st.buys) \in Nat /\ Left(filled, st.buys) <= bought
        /\ Left(filled, disk.buys) \in Nat /\ Left(filled, disk.buys) <= bought
    BY <2>1, LeftIsNat DEF RepeatType, TrendType, RepeatInv
  <2>3. /\ Allowed(faults + crashes) \in Nat /\ sold \in Nat /\ bought \in Nat
        /\ st.pos \in Nat /\ disk.pos \in Nat
    BY <2>1, AllowedGrows DEF RepeatType, TrendType
  <2>4. sold <= bought + Allowed(faults + crashes)
    BY <2>2, <2>3 DEF RepeatInv, Unsold
  <2> QED
    BY <2>4 DEF ExcessSalesHaveCause, Allowed
<1> QED
  BY <1>1, RepeatInvHolds, PTL

=============================================================================
