--------------------------- MODULE ExposureProofs ---------------------------
(***************************************************************************)
(* The exposure cap, proved for any number of bots, any declared caps, any *)
(* capital and any number of restarts.                                     *)
(*                                                                         *)
(* The sum of the commitments is the cardinality of a set of tokens, so    *)
(* the arithmetic of the registry (replace one entry, compare two totals)  *)
(* follows from the theorems on finite sets.                               *)
(***************************************************************************)
EXTENDS AccountExposure, FiniteSetTheorems, TLAPS

-----------------------------------------------------------------------------
(***************************************************************************)
(* Sums.                                                                   *)
(***************************************************************************)

\* A sum over finitely many bots is a natural number.
LEMMA TotalFinite ==
    ASSUME NEW S, IsFiniteSet(S), NEW f \in [S -> Nat]
    PROVE  IsFiniteSet(Tokens(f)) /\ Total(f) \in Nat
<1> DEFINE rows == {{b} \X (1 .. f[b]) : b \in S}
<1>1. IsFiniteSet(rows)
  <2> DEFINE rowOf == [b \in S |-> {b} \X (1 .. f[b])]
  <2>1. rowOf \in Surjection(S, rows)
    BY DEF Surjection
  <2> QED BY <2>1, FS_Surjection
<1>2. \A T \in rows : IsFiniteSet(T)
  <2> SUFFICES ASSUME NEW b \in S PROVE IsFiniteSet({b} \X (1 .. f[b]))
    OBVIOUS
  <2>1. IsFiniteSet(1 .. f[b])
    BY FS_Interval
  <2> QED BY <2>1, FS_Singleton, FS_Product
<1>3. IsFiniteSet(UNION rows)
  BY <1>1, <1>2, FS_UNION
<1>4. Tokens(f) = UNION rows
  BY DEF Tokens
<1> QED BY <1>3, <1>4, FS_CardinalityType DEF Total

\* A sum grows with its terms.
LEMMA TotalMonotone ==
    ASSUME NEW S, IsFiniteSet(S), NEW f \in [S -> Nat],
           NEW R \in SUBSET S, NEW g \in [R -> Nat],
           \A b \in R : g[b] <= f[b]
    PROVE  Total(g) <= Total(f)
<1>1. IsFiniteSet(Tokens(f))
  BY TotalFinite
<1>2. Tokens(g) \subseteq Tokens(f)
  <2> SUFFICES ASSUME NEW b \in R, NEW i \in 1 .. g[b]
               PROVE  <<b, i>> \in Tokens(f)
    BY DEF Tokens
  <2>1. b \in S /\ g[b] <= f[b] /\ g[b] \in Nat /\ f[b] \in Nat
    OBVIOUS
  <2>2. i \in 1 .. f[b]
    BY <2>1
  <2> QED BY <2>1, <2>2 DEF Tokens
<1> QED BY <1>1, <1>2, FS_Subset DEF Total

\* One term can be taken out of a sum.
LEMMA TotalSplit ==
    ASSUME NEW S, IsFiniteSet(S), NEW f \in [S -> Nat], NEW b \in S
    PROVE  Total(f) = Total([f EXCEPT ![b] = 0]) + f[b]
<1> DEFINE g == [f EXCEPT ![b] = 0]
           row == {b} \X (1 .. f[b])
<1>1. g \in [S -> Nat]
  OBVIOUS
<1>2. IsFiniteSet(Tokens(g)) /\ Total(g) \in Nat
  BY <1>1, TotalFinite
<1>3. IsFiniteSet(row) /\ Cardinality(row) = f[b]
  <2>1. f[b] \in Nat /\ IsFiniteSet(1 .. f[b]) /\ Cardinality(1 .. f[b]) = f[b]
    BY FS_Interval
  <2>2. IsFiniteSet({b}) /\ Cardinality({b}) = 1
    BY FS_Singleton
  <2> QED BY <2>1, <2>2, FS_Product
<1>4. Tokens(f) = Tokens(g) \cup row
  <2>1. \A a \in S : a # b => g[a] = f[a]
    OBVIOUS
  <2>2. g[b] = 0 /\ DOMAIN g = S /\ DOMAIN f = S
    OBVIOUS
  <2>3. Tokens(f) \subseteq Tokens(g) \cup row
    BY <2>1, <2>2 DEF Tokens
  <2>4. Tokens(g) \subseteq Tokens(f)
    <3> SUFFICES ASSUME NEW a \in S, NEW i \in 1 .. g[a]
                 PROVE  <<a, i>> \in Tokens(f)
      BY <2>2 DEF Tokens
    <3>1. a # b
      BY <2>2
    <3> QED BY <3>1, <2>1, <2>2 DEF Tokens
  <2>5. row \subseteq Tokens(f)
    BY <2>2 DEF Tokens
  <2> QED BY <2>3, <2>4, <2>5
<1>5. Tokens(g) \cap row = {}
  <2>1. g[b] = 0 /\ DOMAIN g = S
    OBVIOUS
  <2>2. \A t \in Tokens(g) : t[1] # b
    <3> SUFFICES ASSUME NEW a \in S, NEW i \in 1 .. g[a] PROVE a # b
      BY <2>1 DEF Tokens
    <3> QED BY <2>1
  <2> QED BY <2>2
<1>6. Cardinality(Tokens(g) \cap row) = 0
  BY <1>5, FS_EmptySet
<1>7. Cardinality(Tokens(f))
        = Cardinality(Tokens(g)) + Cardinality(row) - Cardinality(Tokens(g) \cap row)
  BY <1>2, <1>3, <1>4, FS_Union
<1>8. Cardinality(Tokens(f)) = Cardinality(Tokens(g)) + f[b]
  <2>1. Cardinality(Tokens(g)) \in Nat /\ f[b] \in Nat
    BY <1>2 DEF Total
  <2> QED BY <2>1, <1>3, <1>6, <1>7
<1> QED BY <1>8 DEF Total

\* commit: the sum with one entry replaced is the sum can_open computes.
LEMMA TotalReplace ==
    ASSUME NEW S, IsFiniteSet(S), NEW f \in [S -> Nat], NEW b \in S,
           NEW n \in Nat
    PROVE  Total([f EXCEPT ![b] = n]) = Total(f) - f[b] + n
<1> DEFINE h == [f EXCEPT ![b] = n]
<1>1. h \in [S -> Nat] /\ h[b] = n
  OBVIOUS
<1>2. Total(h) = Total([h EXCEPT ![b] = 0]) + n
  BY <1>1, TotalSplit
<1>3. [h EXCEPT ![b] = 0] = [f EXCEPT ![b] = 0]
  OBVIOUS
<1>4. Total(f) = Total([f EXCEPT ![b] = 0]) + f[b]
  BY TotalSplit
<1>5. [f EXCEPT ![b] = 0] \in [S -> Nat]
  OBVIOUS
<1>6. Total([f EXCEPT ![b] = 0]) \in Nat
  BY <1>5, TotalFinite
<1> QED BY <1>2, <1>3, <1>4, <1>6

-----------------------------------------------------------------------------
(***************************************************************************)
(* Covered commitments.                                                    *)
(*                                                                         *)
(* ReservationCovers alone is not inductive: a tick may only start with    *)
(* nothing left of the plan of the one before, or the reservation, which   *)
(* replaces the entry of the bot, would not count it.                      *)
(***************************************************************************)

PlanDone == \A b \in Bots : pc[b] \in {"idle", "settle"} => plan[b] = 0

CoverInv == TypeOK /\ PlanDone /\ ReservationCovers

LEMMA InitCoverInv == Init => CoverInv
BY ExposureAssumption DEF Init, CoverInv, TypeOK, PlanDone, ReservationCovers

LEMMA TickKeepsCoverInv ==
    ASSUME CoverInv, NEW b \in Bots, Tick(b)
    PROVE  CoverInv'
<1> USE DEF CoverInv, TypeOK, PlanDone, ReservationCovers, Book, Goto, bookVars
<1> Registered \subseteq Bots
  BY DEF Registered
<1>1. ASSUME MonitoredStop(b) PROVE CoverInv'
  BY <1>1 DEF MonitoredStop
<1>2. ASSUME DecideNothing(b) PROVE CoverInv'
  BY <1>2 DEF DecideNothing
<1>3. ASSUME NEW n \in 1 .. Capital, Decide(b, n) PROVE CoverInv'
  <2>1. n \in Nat
    BY ExposureAssumption
  <2> QED BY <1>3, <2>1 DEF Decide, Commit
<1>4. ASSUME NEW n \in 1 .. Capital, DecideBlocked(b, n) PROVE CoverInv'
  BY <1>4 DEF DecideBlocked
<1>5. ASSUME BuyFilled(b) PROVE CoverInv'
  BY <1>5 DEF BuyFilled
<1>6. ASSUME BuyGone(b) PROVE CoverInv'
  BY <1>6 DEF BuyGone
<1>7. ASSUME SellGone(b) PROVE CoverInv'
  BY <1>7 DEF SellGone
<1>8. ASSUME NEW k \in 0 .. Capital, PreflightBlocked(b, k) PROVE CoverInv'
  <2>1. k \in Nat
    BY ExposureAssumption
  <2> QED BY <1>8, <2>1 DEF PreflightBlocked, Reconcile, Commit
<1>9. ASSUME NEW k \in 0 .. Capital, PreflightOk(b, k) PROVE CoverInv'
  <2>1. k \in Nat
    BY ExposureAssumption
  <2> QED BY <1>9, <2>1 DEF PreflightOk
<1>10. ASSUME CancelBuy(b) PROVE CoverInv'
  BY <1>10 DEF CancelBuy
<1>11. ASSUME PlaceBuy(b) PROVE CoverInv'
  BY <1>11 DEF PlaceBuy
<1>12. ASSUME BuyRefused(b) PROVE CoverInv'
  BY <1>12 DEF BuyRefused
<1>13. ASSUME AllPlaced(b) PROVE CoverInv'
  BY <1>13 DEF AllPlaced
<1>14. ASSUME EndTick(b) PROVE CoverInv'
  BY <1>14 DEF EndTick, Reconcile, Commit
<1>15. ASSUME TickFails(b) PROVE CoverInv'
  BY <1>15 DEF TickFails
<1>16. ASSUME StopLoss(b) PROVE CoverInv'
  BY <1>16 DEF StopLoss
<1> QED BY <1>1, <1>2, <1>3, <1>4, <1>5, <1>6, <1>7, <1>8, <1>9, <1>10,
           <1>11, <1>12, <1>13, <1>14, <1>15, <1>16 DEF Tick

LEMMA NextKeepsCoverInv == CoverInv /\ [Next]_vars => CoverInv'
<1> SUFFICES ASSUME CoverInv, [Next]_vars PROVE CoverInv'
  OBVIOUS
<1>1. CASE Restart
  BY <1>1 DEF Restart, bookVars, CoverInv, TypeOK, PlanDone, ReservationCovers
<1>2. CASE \E b \in Bots : Tick(b)
  BY <1>2, TickKeepsCoverInv
<1>3. CASE UNCHANGED vars
  BY <1>3 DEF vars, bookVars, CoverInv, TypeOK, PlanDone, ReservationCovers, Book
<1> QED BY <1>1, <1>2, <1>3 DEF Next

\* The registry, the books and the plans keep their types.
THEOREM ExposureTypeCorrect == Spec => []TypeOK
<1>1. CoverInv => TypeOK
  BY DEF CoverInv
<1> QED BY <1>1, InitCoverInv, NextKeepsCoverInv, PTL DEF Spec

\* Whatever a bot has open or is about to open is in the registry, for any
\* interleaving of the ticks of any number of bots and any number of restarts.
THEOREM CoverSafety == Spec => []ReservationCovers
<1>1. CoverInv => ReservationCovers
  BY DEF CoverInv
<1> QED BY <1>1, InitCoverInv, NextKeepsCoverInv, PTL DEF Spec

-----------------------------------------------------------------------------
(***************************************************************************)
(* The registry implements ExposureCap.                                    *)
(*                                                                         *)
(* A reservation is an Open: can_open admits it against the commitments,   *)
(* which cover what every known bot really has (CoverInv), so the real     *)
(* total fits too.  The first reconciliation of a bot after a restart is   *)
(* its Report; every other step leaves a bot's exposure or reduces it.     *)
(***************************************************************************)

LEMMA FitsMonotone ==
    ASSUME NEW m \in Int, NEW n \in Int, m <= n, Fits(n)
    PROVE  Fits(m)
<1>1. Caps \subseteq Nat
  BY ExposureAssumption DEF Caps, CapOf, Registered
<1> QED BY <1>1 DEF Fits

LEMMA DeclaredType == TypeOK => Declared \in [Registered -> Nat]
BY DEF TypeOK, Declared, Book, Registered

LEMMA DeclaredCovered ==
    CoverInv => Total(Declared) \in Nat /\ Total(Declared) <= Total(impegnato)
<1> SUFFICES ASSUME CoverInv
             PROVE  Total(Declared) \in Nat /\ Total(Declared) <= Total(impegnato)
  OBVIOUS
<1>1. Registered \in SUBSET Bots /\ IsFiniteSet(Bots) /\ IsFiniteSet(Registered)
  BY ExposureAssumption, FS_Subset DEF Registered
<1>2. impegnato \in [Bots -> Nat] /\ Declared \in [Registered -> Nat]
  BY DeclaredType DEF CoverInv, TypeOK
<1>3. \A b \in Registered : Declared[b] <= impegnato[b]
  BY <1>1, <1>2 DEF Declared, CoverInv, ReservationCovers
<1> QED BY <1>1, <1>2, <1>3, TotalFinite, TotalMonotone

LEMMA ReservationIsOpen ==
    ASSUME CoverInv, CoverInv', NEW b \in Registered, NEW n \in 1 .. Capital,
           Decide(b, n)
    PROVE  Ledger!Open(b)
<1>1. b \in Bots /\ n \in Nat /\ n > 0 /\ Registered \subseteq Bots
  BY ExposureAssumption DEF Registered
<1>2. TypeOK /\ TypeOK'
  BY DEF CoverInv
<1>3. Declared' \in [Registered -> Nat] /\ Declared \in [Registered -> Nat]
  <2>1. TypeOK' => Declared' \in [Registered -> Nat]
    BY DEF TypeOK, Declared, Book, Registered
  <2> QED BY <1>2, <2>1, DeclaredType
<1>4. \A a \in Registered \ {b} : Declared'[a] = Declared[a]
  BY <1>1, <1>2 DEF Decide, Declared, Commit, Book, bookVars, TypeOK
<1>5. Declared'[b] > Declared[b]
  BY <1>1, <1>2 DEF Decide, Declared, Commit, Book, bookVars, TypeOK, CoverInv, PlanDone
<1>6. Fits(Total(Declared'))
  <2>1. impegnato' = [impegnato EXCEPT ![b] = Book(b) + n]
    BY DEF Decide, Commit
  <2>2. Book(b) + n \in Nat /\ impegnato \in [Bots -> Nat]
    BY <1>1, <1>2 DEF TypeOK, Book
  <2>3. Total(impegnato') = Total(impegnato) - impegnato[b] + (Book(b) + n)
    BY <1>1, <2>1, <2>2, TotalReplace, ExposureAssumption
  <2>4. Fits(Total(impegnato'))
    BY <2>3 DEF Decide, CanOpen
  <2>5. impegnato' \in [Bots -> Nat]
    BY <1>2 DEF TypeOK
  <2>6. Total(impegnato') \in Nat
    BY <2>5, TotalFinite, ExposureAssumption
  <2>7. Total(Declared') \in Nat /\ Total(Declared') <= Total(impegnato')
    <3>1. (Total(Declared) \in Nat /\ Total(Declared) <= Total(impegnato))'
      BY DeclaredCovered, PTL
    <3> QED BY <3>1
  <2> QED BY <2>4, <2>6, <2>7, FitsMonotone
<1>7. known' = known \cup {b}
  BY DEF Decide, Commit
<1>8. Ledger!Total(Declared') = Total(Declared')
  BY DEF Ledger!Total, Ledger!Tokens, Total, Tokens, Ledger!Cardinality, Cardinality
<1> QED BY <1>3, <1>4, <1>5, <1>6, <1>7, <1>8
        DEF Ledger!Open, Ledger!Others, Ledger!Fits, Fits

\* A quiet step leaves the exposure of the bot or reduces it.
Quiet(b) ==
    /\ \A a \in Bots \ {b} : /\ buys'[a] = buys[a] /\ held'[a] = held[a]
                             /\ plan'[a] = plan[a]
    /\ Book(b)' + plan'[b] <= Book(b) + plan[b]

\* The actions of a tick but the reservation and the reconciliation are
\* quiet and leave the registry alone.
LEMMA TickIsQuiet ==
    ASSUME TypeOK, NEW b \in Bots,
           \/ MonitoredStop(b) \/ DecideNothing(b)
           \/ \E n \in 1 .. Capital : DecideBlocked(b, n)
           \/ BuyFilled(b) \/ BuyGone(b) \/ SellGone(b)
           \/ \E k \in 0 .. Capital : PreflightOk(b, k)
           \/ CancelBuy(b) \/ PlaceBuy(b) \/ BuyRefused(b) \/ AllPlaced(b)
           \/ TickFails(b) \/ StopLoss(b)
    PROVE  Quiet(b) /\ UNCHANGED <<impegnato, known>>
<1> USE DEF Quiet, Book, bookVars, TypeOK
<1>1. CASE \/ MonitoredStop(b) \/ DecideNothing(b)
           \/ \E n \in 1 .. Capital : DecideBlocked(b, n)
           \/ AllPlaced(b) \/ TickFails(b) \/ StopLoss(b)
  BY <1>1 DEF MonitoredStop, DecideNothing, DecideBlocked, AllPlaced,
     TickFails, StopLoss
<1>2. CASE \/ BuyFilled(b) \/ BuyGone(b) \/ SellGone(b) \/ CancelBuy(b)
           \/ PlaceBuy(b) \/ BuyRefused(b)
  BY <1>2 DEF BuyFilled, BuyGone, SellGone, CancelBuy, PlaceBuy, BuyRefused
<1>3. ASSUME NEW k \in 0 .. Capital, PreflightOk(b, k)
      PROVE  Quiet(b) /\ UNCHANGED <<impegnato, known>>
  <2>1. k \in Nat
    BY ExposureAssumption
  <2> QED BY <1>3, <2>1 DEF PreflightOk
<1> QED BY <1>1, <1>2, <1>3

LEMMA ReconcilingTickIsQuiet ==
    ASSUME TypeOK, NEW b \in Bots,
           EndTick(b) \/ \E k \in 0 .. Capital : PreflightBlocked(b, k)
    PROVE  /\ Quiet(b)
           /\ \E bks, hld \in Nat : /\ Reconcile(b, bks, hld)
                                    /\ bks + hld <= Book(b)
                                    /\ bks + hld = Book(b)'
<1> USE DEF Quiet, Book, bookVars, TypeOK
<1>1. CASE EndTick(b)
  BY <1>1 DEF EndTick
<1>2. ASSUME NEW k \in 0 .. Capital, PreflightBlocked(b, k)
      PROVE  /\ Quiet(b)
             /\ \E bks, hld \in Nat : /\ Reconcile(b, bks, hld)
                                      /\ bks + hld <= Book(b)
                                      /\ bks + hld = Book(b)'
  <2>1. k \in Nat /\ k <= buys[b]
    BY <1>2, ExposureAssumption DEF PreflightBlocked
  <2>2. buys'[b] = buys[b] - k /\ held' = held
    BY <1>2 DEF PreflightBlocked
  <2>3. buys'[b] \in Nat /\ held[b] \in Nat /\ Reconcile(b, buys'[b], held[b])
    BY <1>2, <2>1, <2>2 DEF PreflightBlocked
  <2>4. Quiet(b)
    BY <1>2, <2>1, <2>2 DEF PreflightBlocked
  <2> QED BY <2>1, <2>2, <2>3, <2>4
<1> QED BY <1>1, <1>2

LEMMA QuietStep ==
    ASSUME CoverInv, CoverInv', NEW b \in Bots, Quiet(b), UNCHANGED known
    PROVE  (b \in Registered /\ Ledger!Reduce(b)) \/ UNCHANGED Ledger!vars
<1>1. TypeOK /\ TypeOK' /\ Registered \subseteq Bots
  BY DEF CoverInv, Registered
<1>2. Declared \in [Registered -> Nat] /\ Declared' \in [Registered -> Nat]
  <2>1. TypeOK' => Declared' \in [Registered -> Nat]
    BY DEF TypeOK, Declared, Book, Registered
  <2> QED BY <1>1, <2>1, DeclaredType
<1>3. \A a \in Registered \ {b} : Declared'[a] = Declared[a]
  BY <1>1 DEF Declared, Book, Quiet
<1>4. b \in Registered => Declared'[b] <= Declared[b]
  BY <1>1 DEF Declared, Book, TypeOK, Quiet
<1>5. CASE b \in Registered /\ Declared'[b] < Declared[b]
  BY <1>2, <1>3, <1>5 DEF Ledger!Reduce, Ledger!Others
<1>6. CASE ~(b \in Registered /\ Declared'[b] < Declared[b])
  <2>1. \A a \in Registered : Declared'[a] = Declared[a]
    BY <1>2, <1>3, <1>4, <1>6
  <2>2. Declared' = Declared
    BY <1>2, <2>1
  <2> QED BY <2>2 DEF Ledger!vars
<1> QED BY <1>5, <1>6

\* A reconciliation is the report of a bot that was not known, or quiet.
LEMMA ReconcileStep ==
    ASSUME CoverInv, CoverInv', NEW b \in Bots, Quiet(b),
           NEW bks, NEW hld, Reconcile(b, bks, hld)
    PROVE  \/ b \in Registered /\ (Ledger!Reduce(b) \/ Ledger!Report(b))
           \/ UNCHANGED Ledger!vars
<1>1. CASE b \in Registered /\ b \notin known
  <2>1. TypeOK /\ TypeOK' /\ Registered \subseteq Bots
    BY DEF CoverInv, Registered
  <2>2. Declared' \in [Registered -> Nat]
    BY <2>1 DEF TypeOK, Declared, Book, Registered
  <2>3. known' = known \cup {b}
    BY <1>1 DEF Reconcile, Commit
  <2>4. \A a \in Registered \ {b} : Declared'[a] = Declared[a]
    BY <2>1, <2>3 DEF Declared, Book, Quiet
  <2> QED BY <1>1, <2>2, <2>3, <2>4 DEF Ledger!Report, Ledger!Others
<1>2. CASE ~(b \in Registered /\ b \notin known)
  <2>1. UNCHANGED known
    BY <1>2 DEF Reconcile, Commit
  <2> QED BY <2>1, QuietStep
<1> QED BY <1>1, <1>2

LEMMA TickImplements ==
    ASSUME CoverInv, CoverInv', NEW b \in Bots, Tick(b)
    PROVE  [Ledger!Next]_(Ledger!vars)
<1>0. TypeOK
  BY DEF CoverInv
<1>1. ASSUME NEW n \in 1 .. Capital, Decide(b, n)
      PROVE  [Ledger!Next]_(Ledger!vars)
  <2>1. CASE b \in Registered
    BY <1>1, <2>1, ReservationIsOpen DEF Ledger!Next
  <2>2. CASE b \notin Registered
    <3>1. Declared' = Declared /\ known' = known
      BY <1>0, <1>1, <2>2 DEF Decide, Declared, Book, bookVars, TypeOK, Registered
    <3> QED BY <3>1 DEF Ledger!vars
  <2> QED BY <2>1, <2>2
<1>2. CASE EndTick(b) \/ \E k \in 0 .. Capital : PreflightBlocked(b, k)
  BY <1>0, <1>2, ReconcilingTickIsQuiet, ReconcileStep DEF Ledger!Next
<1>3. CASE Quiet(b) /\ UNCHANGED <<impegnato, known>>
  BY <1>3, QuietStep DEF Ledger!Next
<1> QED BY <1>0, <1>1, <1>2, <1>3, TickIsQuiet DEF Tick

\* The bots of the account keep the promise of ExposureCap: an opening never
\* takes what is known of the account over its cap, whatever ticks run at the
\* same time, fail half-way or are cut by a restart.
THEOREM CapRefinement == Spec => ImplementsCap
<1>1. Init => Ledger!Init
  BY DEF Init, Ledger!Init, Declared, Registered
<1>2. CoverInv /\ CoverInv' /\ [Next]_vars => [Ledger!Next]_(Ledger!vars)
  <2> SUFFICES ASSUME CoverInv, CoverInv', [Next]_vars
               PROVE  [Ledger!Next]_(Ledger!vars)
    OBVIOUS
  <2>1. CASE Restart
    BY <2>1 DEF Restart, Declared, Ledger!Next, Ledger!Restart
  <2>2. CASE \E b \in Bots : Tick(b)
    BY <2>2, TickImplements
  <2>3. CASE UNCHANGED vars
    BY <2>3 DEF vars, Declared, Book, Ledger!vars
  <2> QED BY <2>1, <2>2, <2>3 DEF Next
<1> QED BY <1>1, <1>2, InitCoverInv, NextKeepsCoverInv, PTL
        DEF Spec, ImplementsCap, Ledger!Spec

-----------------------------------------------------------------------------
(***************************************************************************)
(* The cap itself.                                                         *)
(*                                                                         *)
(* While the process lives, a bot the registry has not heard of has        *)
(* nothing open, so the commitments cover all there is, and each step      *)
(* keeps their sum within the cap: only a reservation can raise it.  A     *)
(* restart breaks the first half.                                          *)
(***************************************************************************)

UnknownIsFlat == \A b \in Registered \ known : Book(b) = 0 /\ plan[b] = 0
CapInv == CoverInv /\ crashes = 0 /\ UnknownIsFlat /\ Fits(Total(impegnato))

LEMMA CapInvGivesCap == CapInv => WithinCap
<1> SUFFICES ASSUME CapInv PROVE WithinCap
  OBVIOUS
<1>1. \A b \in Registered : Declared[b] = Book(b) + plan[b]
  BY DEF CapInv, UnknownIsFlat, Declared, CoverInv, TypeOK, Book, Registered
<1>2. Declared = [b \in Registered |-> Book(b) + plan[b]]
  BY <1>1 DEF Declared
<1>3. Total(Declared) \in Nat /\ Total(Declared) <= Total(impegnato)
  BY DeclaredCovered DEF CapInv
<1>4. Total(impegnato) \in Nat
  BY TotalFinite, ExposureAssumption DEF CapInv, CoverInv, TypeOK
<1>5. Fits(Total(Declared))
  BY <1>3, <1>4, FitsMonotone DEF CapInv
<1> QED BY <1>2, <1>5 DEF WithinCap

\* Replacing a commitment by a smaller one keeps the sum within the cap.
LEMMA SmallerCommitFits ==
    ASSUME TypeOK, Fits(Total(impegnato)), NEW b \in Bots, NEW n \in Nat,
           n <= impegnato[b]
    PROVE  Fits(Total([impegnato EXCEPT ![b] = n]))
<1>1. impegnato \in [Bots -> Nat]
  BY DEF TypeOK
<1>2. Total([impegnato EXCEPT ![b] = n]) = Total(impegnato) - impegnato[b] + n
  BY <1>1, TotalReplace, ExposureAssumption
<1>3. Total(impegnato) \in Nat /\ impegnato[b] \in Nat
  BY <1>1, TotalFinite, ExposureAssumption
<1> QED BY <1>2, <1>3, FitsMonotone

\* A reconciliation never raises a commitment.
LEMMA ReconcileKeepsCap ==
    ASSUME CapInv, NEW b \in Bots, NEW bks \in Nat, NEW hld \in Nat,
           bks + hld <= Book(b), Reconcile(b, bks, hld)
    PROVE  Fits(Total(impegnato'))
<1>1. CASE b \in Registered
  <2>1. impegnato' = [impegnato EXCEPT ![b] = bks + hld]
    BY <1>1 DEF Reconcile, Commit
  <2>2. bks + hld <= impegnato[b]
    BY <1>1 DEF CapInv, UnknownIsFlat, CoverInv, ReservationCovers, TypeOK, Book
  <2>3. bks + hld \in Nat
    OBVIOUS
  <2> QED BY <2>1, <2>2, <2>3, SmallerCommitFits DEF CapInv, CoverInv
<1>2. CASE b \notin Registered
  BY <1>2 DEF Reconcile, CapInv
<1> QED BY <1>1, <1>2

LEMMA QuietKeepsUnknownFlat ==
    ASSUME TypeOK, TypeOK', UnknownIsFlat, NEW b \in Bots, Quiet(b),
           known \subseteq known'
    PROVE  UnknownIsFlat'
<1> SUFFICES ASSUME NEW a \in Registered, a \notin known'
             PROVE  (Book(a) = 0 /\ plan[a] = 0)'
  BY DEF UnknownIsFlat
<1>1. a \in Bots /\ Book(a) = 0 /\ plan[a] = 0
  BY DEF Registered, UnknownIsFlat
<1>2. CASE a # b
  BY <1>1, <1>2 DEF Quiet, Book
<1>3. CASE a = b
  <2>1. buys'[b] \in Nat /\ held'[b] \in Nat /\ plan'[b] \in Nat
    BY DEF TypeOK
  <2>2. (buys'[b] + held'[b]) + plan'[b] <= 0
    BY <1>1, <1>3 DEF Quiet, Book
  <2>3. buys'[b] + held'[b] = 0 /\ plan'[b] = 0
    BY <2>1, <2>2
  <2> QED BY <1>3, <2>3 DEF Book
<1> QED BY <1>2, <1>3

LEMMA TickKeepsCapInv ==
    ASSUME CapInv, CoverInv', NEW b \in Bots, Tick(b)
    PROVE  UnknownIsFlat' /\ Fits(Total(impegnato'))
<1>0. TypeOK /\ TypeOK' /\ UnknownIsFlat /\ Registered \subseteq Bots
  BY DEF CapInv, CoverInv, Registered
<1>1. ASSUME NEW n \in 1 .. Capital, Decide(b, n)
      PROVE  UnknownIsFlat' /\ Fits(Total(impegnato'))
  <2>1. n \in Nat /\ Book(b) + n \in Nat
    BY <1>0, ExposureAssumption DEF TypeOK, Book
  <2>2. UnknownIsFlat'
    BY <1>0, <1>1 DEF Decide, Commit, bookVars, Book, UnknownIsFlat, TypeOK
  <2>3. CASE b \in Registered
    <3>1. impegnato' = [impegnato EXCEPT ![b] = Book(b) + n]
      BY <1>1, <2>3 DEF Decide, Commit
    <3>2. impegnato \in [Bots -> Nat] /\ IsFiniteSet(Bots)
      BY <1>0, ExposureAssumption DEF TypeOK
    <3>3. Total([impegnato EXCEPT ![b] = Book(b) + n])
            = Total(impegnato) - impegnato[b] + (Book(b) + n)
      BY <2>1, <3>2, TotalReplace
    <3>4. Fits(Total(impegnato) - impegnato[b] + (Book(b) + n))
      BY <1>1, <2>3 DEF Decide, CanOpen
    <3> QED BY <2>2, <3>1, <3>3, <3>4
  <2>4. CASE b \notin Registered
    BY <1>1, <2>2, <2>4 DEF Decide, CapInv
  <2> QED BY <2>3, <2>4
<1>2. CASE EndTick(b) \/ \E k \in 0 .. Capital : PreflightBlocked(b, k)
  <2>1. PICK bks, hld \in Nat : Reconcile(b, bks, hld) /\ bks + hld <= Book(b)
    BY <1>0, <1>2, ReconcilingTickIsQuiet
  <2>2. known \subseteq known'
    BY <2>1 DEF Reconcile, Commit
  <2>3. Quiet(b)
    BY <1>0, <1>2, ReconcilingTickIsQuiet
  <2> QED BY <1>0, <2>1, <2>2, <2>3, QuietKeepsUnknownFlat, ReconcileKeepsCap
<1>3. CASE Quiet(b) /\ UNCHANGED <<impegnato, known>>
  BY <1>0, <1>3, QuietKeepsUnknownFlat DEF CapInv
<1> QED BY <1>0, <1>1, <1>2, <1>3, TickIsQuiet DEF Tick

\* As long as the process lives, the bots of the account together never have
\* more open, or about to be placed, than the lowest declared cap.
THEOREM CapSafety ==
    ASSUME MaxCrashes = 0
    PROVE  Spec => []WithinCap
<1>1. Init => CapInv
  <2> SUFFICES ASSUME Init PROVE CapInv
    OBVIOUS
  <2>1. CoverInv
    BY InitCoverInv
  <2>2. Tokens(impegnato) = {}
    BY DEF Init, Tokens
  <2>3. Total(impegnato) = 0
    BY <2>2, FS_EmptySet DEF Total
  <2>4. Fits(0)
    BY ExposureAssumption DEF Fits, Caps, CapOf, Registered
  <2> QED BY <2>1, <2>3, <2>4 DEF Init, CapInv, UnknownIsFlat, Book, Registered
<1>2. CapInv /\ [Next]_vars => CapInv'
  <2> SUFFICES ASSUME CapInv, [Next]_vars PROVE CapInv'
    OBVIOUS
  <2>0. CoverInv'
    BY NextKeepsCoverInv DEF CapInv
  <2>1. CASE Restart
    BY <2>1 DEF Restart, CapInv
  <2>2. ASSUME NEW b \in Bots, Tick(b) PROVE CapInv'
    <3>1. crashes' = crashes
      BY <2>2 DEF Tick, MonitoredStop, DecideNothing, Decide, DecideBlocked,
         BuyFilled, BuyGone, SellGone, PreflightBlocked, PreflightOk, CancelBuy,
         PlaceBuy, BuyRefused, AllPlaced, EndTick, TickFails, StopLoss
    <3> QED BY <2>0, <2>2, <3>1, TickKeepsCapInv DEF CapInv
  <2>3. CASE UNCHANGED vars
    BY <2>0, <2>3 DEF vars, CapInv, UnknownIsFlat, Book
  <2> QED BY <2>1, <2>2, <2>3 DEF Next
<1> QED BY <1>1, <1>2, CapInvGivesCap, PTL DEF Spec
=============================================================================
