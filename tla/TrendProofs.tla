----------------------------- MODULE TrendProofs -----------------------------
(***************************************************************************)
(* What is proved of the trend bot for any candles, prices, values of the  *)
(* ATR, crashes and failures.                                              *)
(*                                                                         *)
(* Two invariants, of two halves of the state: BarInv says when the closed *)
(* bars can have begun, FloorInv how the stop of a position goes           *)
(* together in the policy, in the books and on the disk.                   *)
(***************************************************************************)
EXTENDS TrendTask, FiniteSetTheorems, WellFoundedInduction, TLAPS

-----------------------------------------------------------------------------
(* The bars                                                                *)

Indices == Nat \cup {NoDay}

\* The bar that the next tick to decide adds to, or ends.
Building == IF giorno # NoDay THEN giorno
            ELSE IF pc = "reading" THEN Index(now, offset) ELSE Index(clock, offset)

(* BarsInOrder is not inductive: a bar is appended when the period ends,    *)
(* so the bars there are must begin before the one under construction, or  *)
(* before the one a tick that has read the clock will begin.               *)
BarInv ==
    /\ clock \in Nat \ {0} /\ now \in Nat \cup {NoTime} /\ now <= clock
    /\ giorno \in Indices /\ offset \in {0, Phase}
    /\ IsFiniteSet(fetch) /\ fetch \subseteq Nat /\ barre \in Seq(Nat)
    /\ pc = "reading" => now \in Nat \ {0}
    /\ pc = "down" => giorno = NoDay /\ offset = 0
    \* without the venue's phase and without a tick, there are no bars
    /\ offset # Phase /\ giorno = NoDay => barre = <<>>
    /\ ~outOfStep => /\ Increasing(barre)
                     /\ \A i \in DOMAIN barre : barre[i] < Start(Building, offset)
                     /\ giorno <= Index(clock, offset)
                     /\ pc = "reading" => giorno <= Index(now, offset)

LEMMA TrendBounds ==
    /\ MaxBarre \in Nat \ {0} /\ Prices \subseteq Nat \ {0} /\ Atrs \subseteq Nat \ {0}
    /\ MinHistory \in Nat /\ Slip \in Nat /\ StopMult \in Nat /\ TrailMult \in Nat
    /\ Phase \in {0, 1} /\ FirstClock \in Nat \ {0}
BY TrendAssumption

\* Of some subsets of a finite set, one contains no other.
LEMMA LeastSubset ==
    ASSUME NEW S, IsFiniteSet(S), NEW T, T \subseteq SUBSET S, T # {}
    PROVE  \E s \in T : \A r \in T : r \subseteq s => r = s
<1>1. T \subseteq FiniteSubsetsOf(S)
  BY FS_FiniteSubsetsOfFinite
<1>2. \E s \in T : \A r \in T : ~ (<<r, s>> \in StrictSubsetOrdering(S))
  BY <1>1, FS_StrictSubsetOrderingWellFounded, WFMin
<1> QED BY <1>2 DEF StrictSubsetOrdering

LEMMA LeastOf ==
    ASSUME NEW T, \A n \in T : n \in Nat, IsFiniteSet(T), T # {}
    PROVE  \E m \in T : \A n \in T : m <= n
<1> DEFINE below == {{n \in T : n <= m} : m \in T}
<1>1. below \subseteq SUBSET T /\ below # {}
  OBVIOUS
<1>2. PICK s \in below : \A r \in below : r \subseteq s => r = s
  <2> HIDE DEF below
  <2> QED
    BY <1>1, LeastSubset
<1>3. PICK m \in T : s = {n \in T : n <= m}
  OBVIOUS
<1>4. ASSUME NEW n \in T PROVE m <= n
  <2>1. {i \in T : i <= n} \in below
    OBVIOUS
  <2>2. n \in Nat /\ m \in Nat /\ \A i \in T : i \in Nat
    OBVIOUS
  <2>3. ASSUME n < m PROVE FALSE
    <3>1. {i \in T : i <= n} \subseteq s
      <4> SUFFICES ASSUME NEW i \in T, i <= n PROVE i <= m
        BY <1>3
      <4> QED
        BY <2>2, <2>3
    <3>2. m \in s /\ ~ (m \in {i \in T : i <= n})
      BY <1>3, <2>2, <2>3
    <3> QED
      BY <1>2, <2>1, <3>1, <3>2
  <2> QED
    BY <2>2, <2>3
<1> QED
  BY <1>4

Enumerations(T) == {s \in [1 .. Cardinality(T) -> T] : Increasing(s)}

\* The least period comes first, and the others follow in order.
LEMMA Enumerable ==
    ASSUME NEW S, \A n \in S : n \in Nat, IsFiniteSet(S)
    PROVE  Enumerations(S) # {}
<1> DEFINE bad == {T \in SUBSET S : Enumerations(T) = {}}
<1> SUFFICES ASSUME S \in bad PROVE FALSE
  OBVIOUS
<1>1. PICK T \in bad : \A U \in bad : U \subseteq T => U = T
  <2>1. bad \subseteq SUBSET S /\ bad # {}
    OBVIOUS
  <2> HIDE DEF bad
  <2> QED
    BY <2>1, LeastSubset
<1>2. IsFiniteSet(T) /\ \A n \in T : n \in Nat
  BY FS_Subset
<1>3. T # {}
  <2> SUFFICES ASSUME T = {} PROVE FALSE
    OBVIOUS
  <2>1. Cardinality(T) = 0
    BY FS_EmptySet
  <2>2. [i \in 1 .. 0 |-> 0] \in Enumerations(T)
    BY <2>1 DEF Enumerations, Increasing
  <2> QED
    BY <2>2
<1>4. PICK m \in T : \A n \in T : m <= n
  BY <1>2, <1>3, LeastOf
<1> DEFINE rest == T \ {m}  k == Cardinality(rest)
<1>5. IsFiniteSet(rest) /\ k \in Nat /\ Cardinality(T) = k + 1
  <2>1. IsFiniteSet(rest) /\ Cardinality(rest) = Cardinality(T) - 1
    BY <1>2, FS_RemoveElement
  <2>2. k \in Nat /\ Cardinality(T) \in Nat
    BY <1>2, <2>1, FS_CardinalityType
  <2> QED
    BY <2>1, <2>2
<1>6. PICK s \in Enumerations(rest) : TRUE
  BY <1>1
<1>7. s \in [1 .. k -> rest] /\ Increasing(s)
  BY <1>6 DEF Enumerations
<1> HIDE DEF k
<1> DEFINE first == [i \in 1 .. k + 1 |-> IF i = 1 THEN m ELSE s[i - 1]]
<1>8. first \in [1 .. k + 1 -> T]
  BY <1>5, <1>7
<1>9. Increasing(first)
  <2> SUFFICES ASSUME NEW i \in 1 .. k + 1, NEW j \in 1 .. k + 1, i < j
               PROVE  first[i] < first[j]
    BY DEF Increasing
  <2>1. j - 1 \in 1 .. k /\ s[j - 1] \in rest /\ first[j] = s[j - 1]
    BY <1>5, <1>7
  <2>2. CASE i = 1
    <3>1. first[i] = m /\ s[j - 1] \in T /\ s[j - 1] # m
      BY <1>5, <2>1, <2>2
    <3>2. m <= s[j - 1] /\ m \in Nat /\ s[j - 1] \in Nat
      BY <1>2, <1>4, <3>1
    <3> QED
      BY <2>1, <3>1, <3>2
  <2>3. CASE i # 1
    <3>1. i - 1 \in 1 .. k /\ i - 1 < j - 1 /\ first[i] = s[i - 1]
      BY <1>5, <2>3
    <3> QED
      BY <1>7, <2>1, <3>1 DEF Increasing
  <2> QED
    BY <2>2, <2>3
<1> QED
  BY <1>1, <1>5, <1>8, <1>9 DEF Enumerations

\* A time is in the period of its index, and a later one in none before.
LEMMA IndexOf ==
    ASSUME NEW time \in Nat \ {0}, NEW phase \in {0, 1}
    PROVE  /\ Index(time, phase) \in Nat
           /\ Start(Index(time, phase), phase) <= time
           /\ time < Start(Index(time, phase), phase) + 2
BY DEF Index, Start

LEMMA IndexGrows ==
    ASSUME NEW time \in Nat \ {0}, NEW later \in Nat \ {0}, time <= later,
           NEW phase \in {0, 1}
    PROVE  Index(time, phase) <= Index(later, phase)
BY DEF Index

LEMMA StartGrows ==
    ASSUME NEW i \in Nat, NEW j \in Nat, NEW phase \in {0, 1}
    PROVE  /\ Start(i, phase) \in Nat
           /\ i <= j => Start(i, phase) <= Start(j, phase)
           /\ i < j => Start(i, phase) < Start(j, phase)
BY DEF Start

LEMMA CandlesType ==
    ASSUME NEW time \in Nat \ {0}
    PROVE  /\ Candles(time) \in SUBSET Nat /\ IsFiniteSet(Candles(time))
           /\ Forming(time) \in Nat
<1>1. Phase \in {0, 1}
  BY TrendBounds
<1>2. Index(time, Phase) \in Nat
  BY <1>1, IndexOf
<1>3. Forming(time) \in Nat
  BY <1>1, <1>2, StartGrows DEF Forming
<1>4. \A i \in 0 .. Index(time, Phase) : Start(i, Phase) \in 0 .. Forming(time)
  BY <1>1, <1>2, <1>3, StartGrows DEF Forming
<1>5. Candles(time) \subseteq 0 .. Forming(time)
  BY <1>4 DEF Candles
<1>6. IsFiniteSet(0 .. Forming(time))
  BY <1>3, FS_Interval
<1> QED
  BY <1>3, <1>5, <1>6, FS_Subset

\* The candles that the policy takes, whatever the venue sent.
LEMMA ClosedBars ==
    ASSUME NEW candles \in SUBSET Nat, IsFiniteSet(candles)
    PROVE  /\ Closed(candles) \in Seq(Nat) /\ Increasing(Closed(candles))
           /\ \A i \in DOMAIN Closed(candles) : Closed(candles)[i] < Forming(clock)
<1> DEFINE S == {s \in candles : s < Forming(clock)}  k == Cardinality(S)
<1>1. IsFiniteSet(S) /\ S \in SUBSET Nat /\ k \in Nat
  BY FS_Subset, FS_CardinalityType
<1>2. Enumerations(S) # {}
  BY <1>1, Enumerable
<1>3. InOrder(S) \in [1 .. k -> S] /\ Increasing(InOrder(S))
  BY <1>2 DEF InOrder, Enumerations
<1>4. Closed(candles) = InOrder(S)
  BY DEF Closed
<1> HIDE DEF k
<1>5. InOrder(S) \in Seq(Nat)
  BY <1>1, <1>3
<1> QED
  BY <1>3, <1>4, <1>5

\* A deque keeps the last bars.
LEMMA KeptBars ==
    ASSUME NEW s \in Seq(Nat)
    PROVE  /\ Kept(s) \in Seq(Nat)
           /\ Increasing(s) => Increasing(Kept(s))
           /\ \A b : (\A i \in DOMAIN s : s[i] < b) => \A i \in DOMAIN Kept(s) : Kept(s)[i] < b
<1> DEFINE m == Larger(1, Len(s) - MaxBarre + 1)  n == Len(s)
<1>1. m \in Nat /\ n \in Nat /\ 1 <= m /\ m <= n + 1
  BY TrendBounds DEF Larger
<1> HIDE DEF m
<1>2. Kept(s) = SubSeq(s, m, n)
  BY DEF Kept, m
<1>3. DOMAIN s = 1 .. n
  OBVIOUS
<1> HIDE DEF n
<1>4. Kept(s) = [i \in 1 .. n - m + 1 |-> s[i + m - 1]]
  BY <1>1, <1>2, <1>3
<1>5. \A i \in 1 .. n - m + 1 : i + m - 1 \in DOMAIN s /\ s[i + m - 1] \in Nat
  BY <1>1, <1>3
<1>6. Kept(s) \in Seq(Nat) /\ DOMAIN Kept(s) = 1 .. n - m + 1
  <2>1. n - m + 1 \in Nat
    BY <1>1
  <2>2. Kept(s) \in [1 .. n - m + 1 -> Nat]
    BY <1>4, <1>5
  <2> DEFINE k == n - m + 1
  <2> HIDE DEF k
  <2>3. Kept(s) \in [1 .. k -> Nat] /\ k \in Nat
    BY <2>1, <2>2 DEF k
  <2> QED
    BY <2>3 DEF k
<1>7. ASSUME Increasing(s) PROVE Increasing(Kept(s))
  <2> SUFFICES ASSUME NEW i \in 1 .. n - m + 1, NEW j \in 1 .. n - m + 1, i < j
               PROVE  Kept(s)[i] < Kept(s)[j]
    BY <1>6 DEF Increasing
  <2>1. i + m - 1 < j + m - 1
    BY <1>1
  <2> QED
    BY <1>4, <1>5, <1>7, <2>1 DEF Increasing
<1> QED
  BY <1>4, <1>5, <1>6, <1>7

-----------------------------------------------------------------------------
LEMMA InitBars == Init => BarInv
BY TrendBounds, FS_EmptySet
   DEF Init, BarInv, Indices, NoDay, NoTime, Increasing, Index

\* A step that neither begins nor ends the reads of a tick.
LEMMA BarFrame ==
    ASSUME BarInv, UNCHANGED <<clock, fetch, outOfStep, barre, giorno, offset>>,
           now' \in {now, NoTime}, pc # "reading", pc' # "reading",
           pc' = "down" => pc = "down"
    PROVE  BarInv'
BY DEF BarInv, Building, NoTime

\* The bar under construction and the one to come, as time goes on.
LEMMA LaterBuilding ==
    ASSUME BarInv, UNCHANGED <<giorno, offset>>, clock' \in Nat \ {0}, clock <= clock',
           \/ pc = "reading" /\ pc' # "reading"
           \/ UNCHANGED <<pc, now>>
    PROVE  /\ Building \in Nat /\ Building' \in Nat /\ Building <= Building'
           /\ Start(Building, offset) <= Start(Building', offset)
           /\ Index(clock, offset) <= Index(clock', offset)
<1>1. offset \in {0, 1} /\ clock \in Nat \ {0}
  BY TrendBounds DEF BarInv
<1>2. /\ Index(clock, offset) \in Nat /\ Index(clock', offset) \in Nat
      /\ Index(clock, offset) <= Index(clock', offset)
  BY <1>1, IndexOf, IndexGrows
<1>3. ASSUME pc = "reading"
      PROVE  /\ Index(now, offset) \in Nat
             /\ Index(now, offset) <= Index(clock, offset)
  BY <1>1, <1>3, IndexOf, IndexGrows DEF BarInv
<1>4. Building \in Nat /\ Building' \in Nat /\ Building <= Building'
  BY <1>2, <1>3 DEF BarInv, Building, Indices
<1> QED
  BY <1>1, <1>2, <1>4, StartGrows

LEMMA EnvironmentKeepsBars ==
    ASSUME BarInv, Turn \/ Move \/ Fill \/ Age PROVE BarInv'
<1>1. /\ UNCHANGED <<fetch, barre, giorno, offset, outOfStep, pc, now>>
      /\ clock' \in {clock, clock + 1}
  BY DEF Turn, Move, Fill, Age, Around, clockVars, barVars, tickVars
<1>2. clock' \in Nat \ {0} /\ clock <= clock' /\ now' <= clock'
  BY <1>1 DEF BarInv, NoTime
<1>3. /\ Start(Building, offset) <= Start(Building', offset)
      /\ Start(Building, offset) \in Nat /\ Start(Building', offset) \in Nat
      /\ Index(clock, offset) <= Index(clock', offset)
      /\ Index(clock, offset) \in Nat /\ Index(clock', offset) \in Nat
  BY <1>1, <1>2, LaterBuilding, StartGrows, IndexOf, TrendBounds DEF BarInv
<1>4. ~outOfStep => \A i \in DOMAIN barre : barre[i] < Start(Building', offset)
  BY <1>3 DEF BarInv
<1>5. ~outOfStep => giorno <= Index(clock', offset)
  BY <1>3 DEF BarInv, Indices, NoDay
<1> QED
  BY <1>1, <1>2, <1>4, <1>5 DEF BarInv

LEMMA RequestKeepsBars ==
    ASSUME BarInv, Request PROVE BarInv'
<1>1. /\ UNCHANGED <<clock, barre, giorno, offset, outOfStep, pc, now>>
      /\ fetch' \in {Candles(clock), {Forming(clock)}}
  BY DEF Request, clockVars, barVars, tickVars, seenVars
<1>2. IsFiniteSet(fetch') /\ fetch' \subseteq Nat
  <2>1. clock \in Nat \ {0}
    BY DEF BarInv
  <2>2. IsFiniteSet({Forming(clock)}) /\ {Forming(clock)} \subseteq Nat
    BY <2>1, CandlesType, FS_Singleton
  <2> QED
    BY <1>1, <2>1, <2>2, CandlesType
<1> QED
  BY <1>1, <1>2 DEF BarInv, Building

\* In step, the policy builds the bar of the venue's current period.
LEMMA InStepBuilds ==
    ASSUME BarInv, InStep, offset' = Phase, UNCHANGED <<clock, giorno, pc, now>>
    PROVE  /\ Start(Building', offset') = Forming(clock)
           /\ giorno <= Index(clock, Phase)
           /\ pc = "reading" => giorno <= Index(now, Phase)
<1>1. Index(clock, Phase) \in Nat
  BY IndexOf, TrendBounds DEF BarInv
<1> QED
  BY <1>1 DEF InStep, BarInv, Building, Forming, Indices, NoDay

LEMMA AnswerKeepsBars ==
    ASSUME BarInv, Answer PROVE BarInv'
<1>1. /\ UNCHANGED <<clock, giorno, pc, now>> /\ offset' = Phase
      /\ fetch' = {} /\ IsFiniteSet(fetch') /\ pc # "down"
  BY FS_EmptySet DEF Answer, clockVars, tickVars, Up
<1>2. CASE barre' = barre /\ outOfStep' = (outOfStep \/ (offset # Phase /\ ~InStep))
  <2>1. CASE outOfStep'
    BY <1>1, <1>2, <2>1 DEF BarInv
  <2>2. CASE ~outOfStep' /\ offset = Phase
    BY <1>1, <1>2, <2>2 DEF BarInv, Building
  <2>3. CASE ~outOfStep' /\ offset # Phase
    <3>1. InStep /\ ~outOfStep /\ offset = 0 /\ Phase = 1
      BY <1>2, <2>3, TrendBounds DEF BarInv
    <3>2. /\ Start(Building', offset') = Forming(clock)
          /\ giorno <= Index(clock, Phase)
          /\ pc = "reading" => giorno <= Index(now, Phase)
      BY <1>1, <3>1, InStepBuilds
    <3>3. \A i \in DOMAIN barre' : barre'[i] < Start(Building', offset')
      <4>1. CASE giorno = NoDay
        <5>1. barre' = <<>>
          BY <1>2, <2>3, <4>1 DEF BarInv
        <5> QED
          BY <5>1
      <4>2. CASE giorno # NoDay
        <5>1. Building' = giorno /\ Building = giorno /\ giorno \in Nat
          BY <1>1, <4>2 DEF Building, BarInv, Indices
        <5>2. Start(giorno, 0) < Start(giorno, 1)
          BY <5>1 DEF Start
        <5>3. \A i \in DOMAIN barre : barre[i] < Start(giorno, 0) /\ barre[i] \in Nat
          BY <3>1, <5>1 DEF BarInv
        <5>4. Start(giorno, 0) \in Nat /\ Start(giorno, 1) \in Nat
          BY <5>1, StartGrows
        <5> QED
          BY <1>1, <1>2, <3>1, <5>1, <5>2, <5>3, <5>4
      <4> QED
        BY <4>1, <4>2
    <3> QED
      BY <1>1, <1>2, <3>1, <3>2, <3>3 DEF BarInv
  <2> QED
    BY <2>1, <2>2, <2>3
<1>3. CASE barre' = Kept(Closed(fetch)) /\ outOfStep' = ~InStep
  <2>1. /\ Closed(fetch) \in Seq(Nat) /\ Increasing(Closed(fetch))
        /\ \A i \in DOMAIN Closed(fetch) : Closed(fetch)[i] < Forming(clock)
    BY ClosedBars DEF BarInv
  <2>2. /\ barre' \in Seq(Nat) /\ Increasing(barre')
        /\ \A i \in DOMAIN barre' : barre'[i] < Forming(clock)
    BY <1>3, <2>1, KeptBars
  <2>3. ~outOfStep' => /\ Start(Building', offset') = Forming(clock)
                       /\ giorno <= Index(clock, Phase)
                       /\ pc = "reading" => giorno <= Index(now, Phase)
    BY <1>1, <1>3, InStepBuilds
  <2> QED
    BY <1>1, <2>2, <2>3 DEF BarInv
<1> QED
  BY <1>2, <1>3 DEF Answer

LEMMA ReadsBegin ==
    ASSUME BarInv, TickStarts PROVE BarInv'
BY DEF TickStarts, At, GoTo, BarInv, Building, clockVars, barVars

LEMMA BlockedKeepsBars ==
    ASSUME BarInv, TickBlocked PROVE BarInv'
<1>1. /\ UNCHANGED <<clock, fetch, outOfStep, barre, giorno, offset, now>>
      /\ pc = "reading" /\ pc' = "save"
  BY DEF TickBlocked, At, GoTo, clockVars, barVars, tickVars
<1>2. /\ Building \in Nat /\ Building' \in Nat
      /\ Start(Building, offset) <= Start(Building', offset)
  <2>1. clock' \in Nat \ {0} /\ clock <= clock' /\ pc' # "reading"
    BY <1>1 DEF BarInv
  <2> QED
    BY <1>1, <2>1, LaterBuilding
<1>3. offset \in {0, 1}
  BY TrendBounds DEF BarInv
<1>4. Start(Building, offset) \in Nat /\ Start(Building', offset) \in Nat
  BY <1>2, <1>3, StartGrows
<1>5. ~outOfStep => \A i \in DOMAIN barre : barre[i] < Start(Building', offset)
  BY <1>2, <1>4 DEF BarInv
<1> QED
  BY <1>1, <1>5 DEF BarInv

\* The bar that ends is of a period before that of the tick.
LEMMA DecisionKeepsBars ==
    ASSUME BarInv, Decides, pc' \notin {"reading", "down"} PROVE BarInv'
<1>1. /\ UNCHANGED <<clock, fetch, outOfStep, now, offset>> /\ giorno' = Reached
      /\ pc = "reading" /\ now \in Nat \ {0} /\ now <= clock /\ clock \in Nat \ {0}
      /\ giorno \in Indices /\ offset \in {0, Phase} /\ offset \in {0, 1}
      /\ fetch \subseteq Nat /\ IsFiniteSet(fetch) /\ barre \in Seq(Nat)
  BY TrendBounds DEF Decides, At, Reads, Builds, BarInv, clockVars
<1>2. /\ Reached \in Nat /\ Reached <= Index(clock, offset)
      /\ Index(now, offset) = Reached
  BY <1>1, IndexOf, IndexGrows DEF Reached
<1> DEFINE next == Start(Reached, offset)
<1>3. Building' = Reached /\ Start(Building', offset') = next /\ next \in Nat
  <2>1. giorno' # NoDay
    BY <1>1, <1>2 DEF NoDay
  <2>2. Building' = Reached
    BY <1>1, <2>1 DEF Building
  <2> QED
    BY <1>1, <1>2, <2>2, StartGrows
<1> HIDE DEF next
<1>4. /\ barre' \in Seq(Nat)
      /\ ~outOfStep => Increasing(barre') /\ \A i \in DOMAIN barre' : barre'[i] < next
  <2>1. CASE NewBar
    <3> DEFINE ended == Start(giorno, offset)
               s == Append(barre, ended)
    <3>1. giorno \in Nat /\ giorno # Reached /\ Building = giorno
      BY <1>1, <2>1 DEF NewBar, Indices, Building
    <3>2. ended \in Nat
      BY <1>1, <3>1, StartGrows
    <3>3. ASSUME ~outOfStep
          PROVE  ended < next /\ Increasing(barre) /\ \A i \in DOMAIN barre : barre[i] < ended
      <4>1. giorno <= Reached
        BY <1>1, <1>2, <3>3 DEF BarInv
      <4>2. giorno < Reached
        BY <1>2, <3>1, <4>1
      <4>3. ended < next
        BY <1>1, <1>2, <3>1, <4>2, StartGrows DEF next
      <4> QED
        BY <3>1, <3>3, <4>3 DEF BarInv
    <3> HIDE DEF ended
    <3>4. s \in Seq(Nat) /\ DOMAIN s = 1 .. Len(barre) + 1
      BY <1>1, <3>2
    <3>5. ASSUME ~outOfStep PROVE Increasing(s) /\ \A i \in DOMAIN s : s[i] < next
      <4>1. \A i \in DOMAIN s : s[i] <= ended /\ s[i] \in Nat
        BY <1>1, <3>2, <3>3, <3>5
      <4>2. \A i, j \in DOMAIN s : i < j => s[i] < s[j]
        BY <1>1, <3>2, <3>3, <3>5 DEF Increasing
      <4> QED
        <5>1. \A i \in DOMAIN s : s[i] < next
          BY <1>3, <3>2, <3>3, <3>5, <4>1
        <5> QED
          BY <4>2, <5>1 DEF Increasing
    <3>6. barre' = Kept(s)
      BY <2>1 DEF Decides, Builds, ended
    <3> HIDE DEF s
    <3> QED
      BY <3>4, <3>5, <3>6, KeptBars
  <2>2. CASE ~NewBar
    <3>1. Building = Reached /\ barre' = barre
      BY <1>1, <1>2, <2>2 DEF NewBar, Building, Decides, Builds
    <3> QED
      BY <1>1, <3>1 DEF BarInv, next
  <2> QED
    BY <2>1, <2>2
<1>5. giorno' \in Nat /\ giorno' # NoDay
  BY <1>1, <1>2 DEF NoDay
<1>6. now' <= clock' /\ now' \in Nat
  BY <1>1
<1> QED
  BY <1>1, <1>2, <1>3, <1>4, <1>5, <1>6 DEF BarInv, Indices

LEMMA TickKeepsBars ==
    ASSUME BarInv, Tick PROVE BarInv'
<1>1. CASE TickStarts
  BY <1>1, ReadsBegin
<1>2. CASE TickBlocked
  BY <1>2, BlockedKeepsBars
<1>3. CASE Holds \/ Adopts \/ GivesUp \/ Enters \/ Waits
  <2>1. Decides /\ pc' \in {"stop", "fills1"}
    BY <1>3 DEF Holds, Adopts, GivesUp, Enters, Waits, Flat, Publishes, GoTo
  <2> QED
    BY <2>1, DecisionKeepsBars
<1>4. CASE StopNotSold \/ StopSold
  <2>1. UNCHANGED <<clock, fetch, outOfStep, barre, giorno, offset, now>> /\ pc = "stop" /\ pc' = "fills1"
    BY <1>4 DEF StopNotSold, StopSold, At, GoTo, clockVars, barVars, tickVars
  <2> QED
    BY <2>1, BarFrame
<1>5. CASE Resolve \/ Notify
  <2>1. /\ UNCHANGED <<clock, fetch, outOfStep, barre, giorno, offset, now>>
        /\ pc \in {"fills1", "fills2", "notify1", "notify2"}
        /\ pc' \in {"exec", "save", "notify1", "notify2"}
    BY <1>5 DEF Resolve, NoNews, Gone, Booked, Notify, AfterFills, At, GoTo, clockVars,
                barVars, tickVars
  <2> QED
    BY <2>1, BarFrame
<1>6. CASE PreflightCancels \/ PreflightBlocked \/ NothingToDo \/ Cancel \/ Place
  <2>1. /\ UNCHANGED <<clock, fetch, outOfStep, barre, giorno, offset, now>>
        /\ pc = "exec" /\ pc' \in {"save", "fills2"}
    BY <1>6 DEF PreflightCancels, PreflightBlocked, NothingToDo, Cancel, Place, PreflightOk,
                Exec, At, GoTo, clockVars, barVars, tickVars
  <2> QED
    BY <2>1, BarFrame
<1>7. CASE Save
  <2>1. /\ UNCHANGED <<clock, fetch, outOfStep, barre, giorno, offset>> /\ now' = NoTime
        /\ pc = "save" /\ pc' = "idle"
    BY <1>7 DEF Save, NoTick, At, GoTo, clockVars, barVars
  <2> QED
    BY <2>1, BarFrame
<1> QED
  BY <1>1, <1>2, <1>3, <1>4, <1>5, <1>6, <1>7 DEF Tick

LEMMA BootKeepsBars ==
    ASSUME BarInv, Boot PROVE BarInv'
<1>1. /\ UNCHANGED <<clock, fetch, outOfStep, giorno, now>> /\ pc = "down" /\ pc' = "idle"
      /\ \/ barre' = Kept(Closed(Candles(clock))) /\ offset' = Phase
         \/ barre' = <<>> /\ offset' = offset
  BY DEF Boot, GoTo, clockVars, tickVars
<1>2. clock \in Nat \ {0} /\ giorno = NoDay /\ offset' \in {0, Phase} /\ offset' \in {0, 1}
  BY <1>1, TrendBounds DEF BarInv
<1>3. /\ Building' = Index(clock, offset') /\ Index(clock, offset') \in Nat
      /\ giorno <= Index(clock, offset')
  BY <1>1, <1>2, IndexOf DEF Building, NoDay
<1>4. IsFiniteSet(Candles(clock)) /\ Candles(clock) \in SUBSET Nat
  BY <1>2, CandlesType
<1> DEFINE closed == Closed(Candles(clock))
<1>5. closed \in Seq(Nat) /\ Increasing(closed)
      /\ \A i \in DOMAIN closed : closed[i] < Forming(clock)
  BY <1>4, ClosedBars
<1>6. /\ Kept(closed) \in Seq(Nat) /\ Increasing(Kept(closed))
      /\ \A i \in DOMAIN Kept(closed) : Kept(closed)[i] < Forming(clock)
  <2> HIDE DEF closed
  <2> QED
    BY <1>5, KeptBars
<1>7. <<>> \in Seq(Nat) /\ Increasing(<<>>) /\ DOMAIN <<>> = {}
  BY DEF Increasing
<1>8. CASE barre' = <<>>
  BY <1>1, <1>2, <1>3, <1>7, <1>8 DEF BarInv
<1>9. CASE barre' = Kept(closed) /\ offset' = Phase
  <2>1. Start(Building', offset') = Forming(clock)
    BY <1>3, <1>9 DEF Forming
  <2> HIDE DEF closed
  <2> QED
    BY <1>1, <1>2, <1>3, <1>6, <1>9, <2>1 DEF BarInv
<1> QED
  BY <1>1, <1>8, <1>9

LEMMA DeathKeepsBars ==
    ASSUME BarInv, Dies PROVE BarInv'
<1>1. <<>> \in Seq(Nat) /\ Increasing(<<>>) /\ DOMAIN <<>> = {} /\ IsFiniteSet({})
  BY FS_EmptySet DEF Increasing
<1>2. /\ clock' = clock /\ pc' = "down" /\ fetch' = {} /\ barre' = <<>> /\ giorno' = NoDay
      /\ now' = NoTime /\ offset' = 0
  BY DEF Dies, NoTick, clockVars
<1>3. Index(clock, 0) \in Nat /\ NoDay <= Index(clock, 0) /\ NoTime <= clock
  BY IndexOf DEF BarInv, NoDay, NoTime
<1> QED
  BY <1>1, <1>2, <1>3 DEF BarInv, Indices

LEMMA StutterKeepsBars ==
    ASSUME BarInv, UNCHANGED vars PROVE BarInv'
BY DEF BarInv, Building, vars, clockVars, barVars, tickVars, seenVars

\* precarica_barre and _aggiorna: whatever candles come and whenever they
\* come, before or after the ticks that end the bars and whether or not the
\* preload failed, the bars the policy computes on are of different periods and
\* in order, as long as the candles find the policy building the bar of the
\* venue's current period.
THEOREM BarSafety == Spec => []BarsInOrder
<1>1. Init => BarInv
  BY InitBars
<1>2. BarInv /\ [Next]_vars => BarInv'
  <2> SUFFICES ASSUME BarInv, [Next]_vars PROVE BarInv'
    OBVIOUS
  <2>1. CASE Crash \/ CrashInPlace
    BY <2>1, DeathKeepsBars DEF Crash, CrashInPlace
  <2>2. CASE Turn \/ Move \/ Fill \/ Age
    BY <2>2, EnvironmentKeepsBars
  <2> QED
    BY <2>1, <2>2, RequestKeepsBars, AnswerKeepsBars, TickKeepsBars, BootKeepsBars,
       StutterKeepsBars DEF Next
<1>3. BarInv => BarsInOrder
  BY DEF BarInv, BarsInOrder
<1> QED
  BY <1>1, <1>2, <1>3, PTL DEF Spec

-----------------------------------------------------------------------------
(* The stop                                                                *)

Books(s) ==
    /\ s.buy.limit \in Nat /\ s.pos.entry \in Nat /\ s.pos.stop \in Int
    /\ s \in [buy : [limit : Nat, old : BOOLEAN], pos : [entry : Nat, stop : Int],
              named : BOOLEAN]

StopTypes ==
    /\ price \in Prices /\ mark \in Nat /\ atr \in Nat
    /\ order \in [status : {"none", "open", "filled", "canceled"}, limit : Nat]
    /\ decision \in [stop : Int, cancel : BOOLEAN, place : Nat]
    /\ inPosizione \in BOOLEAN /\ entrata \in Nat /\ stop \in Int
    /\ Books(st) /\ Books(disk) /\ floor \in Nat

Notifying == pc \in {"notify1", "notify2"}

\* A stop in force that was saved, below the entry.
Floored(entry) == 0 < floor /\ floor < entry

\* The stop a restart finds is the floor at least.
InFile ==
    Owns(disk) /\ disk.named /\ Floored(disk.pos.entry) =>
        floor <= disk.pos.stop /\ disk.pos.stop < disk.pos.entry

\* The books follow the policy.
InBooks ==
    Up =>
      /\ ~Owns(st) => floor = 0
      /\ Owns(st) /\ ~Notifying =>
           /\ inPosizione /\ entrata = st.pos.entry
           /\ Floored(entrata) => floor <= st.pos.stop
           /\ st.named /\ st.pos.stop >= entrata => stop >= entrata \/ floor >= entrata

InPolicy == Up /\ inPosizione /\ Floored(entrata) => floor <= stop

\* Between the tick's decision and the sale, between a fill and its news.
Midway ==
    /\ pc = "stop" => decision.stop = stop
    /\ Notifying => /\ Owns(st) /\ Tracked
                    /\ st.pos.stop < st.pos.entry

(* StopSurvives is not inductive: it says nothing of what a restart will   *)
(* find.  The stop in the books follows that of the policy; only a file of *)
(* the first life gives the position back, and the stop it has is then the *)
(* floor at least, unless the floor had risen to the entry.                *)
FloorInv == StopTypes /\ InFile /\ InBooks /\ InPolicy /\ Midway

LEMMA AtrTypes == \A bars : NewAtr(bars) \subseteq Nat
BY TrendBounds DEF NewAtr

LEMMA StopBounds ==
    ASSUME NEW entry \in Nat, NEW a \in Nat
    PROVE  /\ InitialStop(entry, a) \in Int /\ BookedStop(entry, a) \in Int
           /\ entry > 0 => BookedStop(entry, a) < entry
<1>1. InitialStop(entry, a) \in Int
  BY TrendBounds DEF InitialStop
<1> QED
  BY <1>1 DEF BookedStop

LEMMA TrailingBounds ==
    ASSUME NEW s \in Int, NEW a \in Nat, mark' \in Nat
    PROVE  Trailing(s, a) \in Int /\ Trailing(s, a) >= s
<1>1. mark' - TrailMult * a \in Int
  BY TrendBounds
<1> QED
  BY <1>1 DEF Trailing, Larger

LEMMA UnnamedBooks ==
    ASSUME NEW s, Books(s)
    PROVE  LET u == [s EXCEPT !.named = FALSE]
           IN  Books(u) /\ u.pos = s.pos /\ ~u.named
BY DEF Books

LEMMA FreshBooks ==
    /\ Books(FreshState) /\ Books([FreshState EXCEPT !.named = FALSE])
    /\ ~Owns(FreshState)
<1>1. NoBuy \in [limit : Nat, old : BOOLEAN] /\ NoBuy.limit = 0
  BY DEF NoBuy
<1>2. NoPosition \in [entry : Nat, stop : Int] /\ NoPosition.entry = 0
  BY DEF NoPosition
<1>3. FreshState.buy = NoBuy /\ FreshState.pos = NoPosition /\ FreshState.named = TRUE
  BY DEF FreshState
<1>4. FreshState \in [buy : [limit : Nat, old : BOOLEAN], pos : [entry : Nat, stop : Int],
                      named : BOOLEAN]
  BY <1>1, <1>2 DEF FreshState
<1>5. Books(FreshState)
  BY <1>1, <1>2, <1>3, <1>4 DEF Books
<1>6. ~Owns(FreshState)
  BY <1>2, <1>3 DEF Owns
<1> QED
  BY <1>5, <1>6, UnnamedBooks

LEMMA NoDecisionType == NoDecision \in [stop : Int, cancel : BOOLEAN, place : Nat]
BY DEF NoDecision

LEMMA DecisionEdits ==
    /\ NoDecision \in [stop : Int, cancel : BOOLEAN, place : Nat]
    /\ [NoDecision EXCEPT !.cancel = TRUE] \in [stop : Int, cancel : BOOLEAN, place : Nat]
    /\ \A n \in Nat :
         [NoDecision EXCEPT !.place = n] \in [stop : Int, cancel : BOOLEAN, place : Nat]
BY NoDecisionType

LEMMA DroppedBooks ==
    ASSUME NEW s, Books(s)
    PROVE  /\ Books(Dropped(s)) /\ Dropped(s).pos = s.pos /\ Dropped(s).named = s.named
<1>1. NoBuy \in [limit : Nat, old : BOOLEAN] /\ NoBuy.limit = 0
  BY DEF NoBuy
<1> QED
  BY <1>1 DEF Books, Dropped

LEMMA InitFloor == Init => FloorInv
<1> SUFFICES ASSUME Init PROVE FloorInv
  OBVIOUS
<1>1. StopTypes
  <2>1. NoOrder \in [status : {"none", "open", "filled", "canceled"}, limit : Nat]
    BY DEF NoOrder
  <2>2. /\ st = FreshState /\ disk = [FreshState EXCEPT !.named = FALSE]
        /\ order = NoOrder /\ decision = NoDecision
        /\ price \in Prices /\ mark = 0 /\ atr = 0 /\ inPosizione = FALSE /\ entrata = 0
        /\ stop = 0 /\ floor = 0
    BY DEF Init
  <2>3. Books(st) /\ Books(disk) /\ inPosizione \in BOOLEAN
    BY <2>2, FreshBooks
  <2> QED
    BY <2>1, <2>2, <2>3, FreshBooks, NoDecisionType DEF StopTypes
<1> QED
  BY <1>1 DEF Init, FloorInv, InFile, InBooks, InPolicy, Midway, Up, Owns, Floored,
              FreshState, NoPosition, Notifying

\* A step that leaves the stops alone.
LEMMA SameStops ==
    ASSUME FloorInv, StopTypes', UNCHANGED <<posVars, floor>>,
           st'.pos = st.pos, st'.named = st.named,
           disk'.pos = disk.pos, disk'.named = disk.named,
           \/ UNCHANGED <<pc, decision>> /\ st'.buy.limit = st.buy.limit
           \/ Up /\ ~Notifying /\ pc' \notin {"stop", "notify1", "notify2"}
    PROVE  FloorInv'
<1>1. InFile'
  BY DEF FloorInv, InFile, Owns, Floored
<1>2. (Up' => Up) /\ (Up' /\ ~Notifying' => ~Notifying)
  BY DEF Up, Notifying
<1>3. InBooks' /\ InPolicy'
  BY <1>2 DEF FloorInv, InBooks, InPolicy, Owns, Floored, posVars
<1>4. Midway'
  BY DEF FloorInv, Midway, Notifying, Owns, Tracked, posVars
<1> QED
  BY <1>1, <1>3, <1>4 DEF FloorInv

LEMMA EnvironmentKeepsFloor ==
    ASSUME FloorInv, Turn \/ Move \/ Fill \/ Request \/ Answer PROVE FloorInv'
<1>1. /\ UNCHANGED <<posVars, floor, st, disk, pc, decision, mark>>
      /\ price' \in Prices \cup {price}
      /\ order' \in {order, [order EXCEPT !.status = "filled"]}
      /\ atr' = atr \/ \E bars : atr' \in NewAtr(bars)
  BY DEF Turn, Move, Fill, Request, Answer, Around, clockVars, venueVars, barVars, tickVars,
         seenVars
<1>2. atr' \in Nat
  BY <1>1, AtrTypes DEF FloorInv, StopTypes
<1>3. order' \in [status : {"none", "open", "filled", "canceled"}, limit : Nat]
  BY <1>1 DEF FloorInv, StopTypes
<1>4. StopTypes'
  BY <1>1, <1>2, <1>3 DEF FloorInv, StopTypes, Books, posVars
<1> QED
  BY <1>1, <1>4, SameStops

LEMMA AgeKeepsFloor ==
    ASSUME FloorInv, Age PROVE FloorInv'
<1>1. /\ UNCHANGED <<posVars, floor, pc, decision, mark, price, order, atr>>
      /\ st' = Aged(st) /\ disk' = Aged(disk)
  BY DEF Age, Around, clockVars, venueVars, barVars, tickVars
<1>2. ASSUME NEW s, Books(s)
      PROVE  /\ Books(Aged(s)) /\ Aged(s).pos = s.pos /\ Aged(s).named = s.named
             /\ Aged(s).buy.limit = s.buy.limit
  BY <1>2 DEF Books, Aged
<1>3. /\ Books(st') /\ st'.pos = st.pos /\ st'.named = st.named
      /\ st'.buy.limit = st.buy.limit
      /\ Books(disk') /\ disk'.pos = disk.pos /\ disk'.named = disk.named
  BY <1>1, <1>2 DEF FloorInv, StopTypes
<1>4. StopTypes'
  BY <1>1, <1>3 DEF FloorInv, StopTypes, Books, posVars
<1> QED
  BY <1>1, <1>3, <1>4, SameStops

LEMMA TickBeginsKeepsFloor ==
    ASSUME FloorInv, TickStarts \/ TickBlocked PROVE FloorInv'
<1>1. /\ UNCHANGED <<posVars, floor, st, disk, decision, mark, price, order, atr>>
      /\ pc \in {"idle", "reading"} /\ pc' \in {"reading", "save"}
  BY DEF TickStarts, TickBlocked, At, GoTo, clockVars, barVars, tickVars
<1>2. StopTypes'
  BY <1>1 DEF FloorInv, StopTypes, Books, posVars
<1> QED
  BY <1>1, <1>2, SameStops DEF Up, Notifying

\* A tick decides: the stop of a position goes up, or a position is adopted
\* whose stop nobody has saved.
LEMMA DecisionTypes ==
    ASSUME FloorInv, Decides
    PROVE  /\ UNCHANGED <<price, order, disk, floor>>
           /\ mark' \in Nat /\ atr' \in Nat /\ pc = "reading"
<1>1. /\ UNCHANGED <<price, order, disk, floor>> /\ mark' = price /\ pc = "reading"
      /\ atr' = atr \/ \E bars : atr' \in NewAtr(bars)
  BY DEF Decides, At, Reads, Builds, clockVars
<1> QED
  BY <1>1, AtrTypes, TrendBounds DEF FloorInv, StopTypes

LEMMA PublishesTypes ==
    ASSUME FloorInv, Decides, Publishes, stop' \in Int, inPosizione' \in BOOLEAN,
           entrata' \in Nat
    PROVE  /\ StopTypes' /\ decision'.stop = stop' /\ pc' \in {"stop", "fills1"}
           /\ st'.pos.entry = st.pos.entry /\ st'.named = st.named
           /\ st'.pos.stop = st.pos.stop \/ (Owns(st) /\ stop' > 0 /\ st'.pos.stop = stop')
<1>1. decision' \in [stop : Int, cancel : BOOLEAN, place : Nat] /\ decision'.stop = stop'
  BY DEF Publishes, NoDecision
<1>2. Books(st)
  BY DEF FloorInv, StopTypes
<1>3. \/ st' = st
      \/ Owns(st) /\ stop' > 0 /\ st' = [st EXCEPT !.pos.stop = stop']
  BY DEF Publishes
<1>4. /\ Books(st') /\ st'.pos.entry = st.pos.entry /\ st'.named = st.named
      /\ st'.pos.stop = st.pos.stop \/ (Owns(st) /\ stop' > 0 /\ st'.pos.stop = stop')
  <2>1. CASE st' = st
    BY <1>2, <2>1
  <2>2. CASE Owns(st) /\ stop' > 0 /\ st' = [st EXCEPT !.pos.stop = stop']
    BY <1>2, <2>2 DEF Books
  <2> QED
    BY <1>3, <2>1, <2>2
<1>5. StopTypes'
  BY <1>1, <1>4, DecisionTypes DEF FloorInv, StopTypes, Books
<1> QED
  BY <1>1, <1>4, <1>5 DEF Publishes, GoTo

LEMMA HoldsKeepsFloor ==
    ASSUME FloorInv, Holds PROVE FloorInv'
<1>1. /\ Decides /\ inPosizione /\ UNCHANGED <<inPosizione, entrata>>
      /\ stop' = Trailing(stop, atr') /\ Publishes
  BY DEF Holds
<1>2. stop \in Int /\ entrata \in Nat /\ floor \in Nat /\ st.pos.stop \in Int
  BY DEF FloorInv, StopTypes, Books
<1>3. stop' \in Int /\ stop' >= stop
  BY <1>1, <1>2, DecisionTypes, TrailingBounds
<1>4. /\ StopTypes' /\ decision'.stop = stop' /\ pc' \in {"stop", "fills1"}
      /\ st'.pos.entry = st.pos.entry /\ st'.named = st.named
      /\ st'.pos.stop = st.pos.stop \/ (Owns(st) /\ stop' > 0 /\ st'.pos.stop = stop')
      /\ UNCHANGED <<disk, floor>> /\ pc = "reading"
  <2>1. inPosizione' \in BOOLEAN /\ entrata' \in Nat
    BY <1>1 DEF FloorInv, StopTypes
  <2> QED
    BY <1>1, <1>3, <2>1, PublishesTypes, DecisionTypes
<1>5. InFile'
  BY <1>4 DEF FloorInv, InFile, Owns, Floored
<1>6. InPolicy'
  BY <1>1, <1>2, <1>3, <1>4 DEF FloorInv, InPolicy, Floored, Up
<1>7. InBooks'
  <2>1. Up /\ ~Notifying
    BY <1>4 DEF Up, Notifying
  <2> QED
    BY <1>1, <1>2, <1>3, <1>4, <2>1 DEF FloorInv, InBooks, InPolicy, Floored, Owns
<1>8. Midway'
  BY <1>4 DEF Midway, Notifying
<1> QED
  BY <1>4, <1>5, <1>6, <1>7, <1>8 DEF FloorInv

LEMMA AdoptsKeepsFloor ==
    ASSUME FloorInv, Adopts PROVE FloorInv'
<1>1. /\ Decides /\ ~inPosizione /\ inPosizione' = TRUE /\ entrata' = mark'
      /\ stop' = mark' - StopMult * atr' /\ Publishes
  BY DEF Adopts, Unexplained
<1>2. mark' \in Nat /\ atr' \in Nat /\ pc = "reading" /\ UNCHANGED <<disk, floor>>
  BY <1>1, DecisionTypes
<1>3. stop' \in Int /\ entrata' \in Nat /\ inPosizione' \in BOOLEAN
  BY <1>1, <1>2, TrendBounds
<1>4. /\ StopTypes' /\ decision'.stop = stop' /\ pc' \in {"stop", "fills1"}
      /\ st'.pos.entry = st.pos.entry
  BY <1>1, <1>3, PublishesTypes
<1>5. ~Owns(st) /\ floor = 0
  BY <1>1, <1>2 DEF FloorInv, InBooks, Up, Notifying
<1>6. ~Owns(st)' /\ floor' = 0
  BY <1>2, <1>4, <1>5 DEF Owns
<1> QED
  BY <1>2, <1>4, <1>6 DEF FloorInv, InFile, InBooks, InPolicy, Midway, Notifying, Floored

LEMMA FlatKeepsFloor ==
    ASSUME FloorInv, GivesUp \/ Enters \/ Waits PROVE FloorInv'
<1>1. /\ Decides /\ UNCHANGED <<posVars, st>> /\ pc' = "fills1"
      /\ decision' \in {[NoDecision EXCEPT !.cancel = TRUE],
                        [NoDecision EXCEPT !.place = mark' + Slip], NoDecision}
  BY DEF GivesUp, Enters, Waits, Flat, GoTo
<1>2. /\ mark' \in Nat /\ atr' \in Nat /\ pc = "reading"
      /\ UNCHANGED <<price, order, disk, floor>>
  BY <1>1, DecisionTypes
<1>3. decision' \in [stop : Int, cancel : BOOLEAN, place : Nat]
  <2>1. \A m \in Nat : m + Slip \in Nat
    BY TrendBounds
  <2>2. mark' + Slip \in Nat
    BY <1>2, <2>1, Zenon
  <2> QED
    BY <1>1, <2>2, DecisionEdits
<1>4. StopTypes'
  BY <1>1, <1>2, <1>3 DEF FloorInv, StopTypes, Books, posVars
<1> QED
  BY <1>1, <1>2, <1>4, SameStops DEF Up, Notifying

LEMMA StopNotSoldKeepsFloor ==
    ASSUME FloorInv, StopNotSold PROVE FloorInv'
<1>1. /\ UNCHANGED <<posVars, floor, disk, decision, mark, price, order, atr>>
      /\ pc = "stop" /\ pc' = "fills1"
      /\ IF Owns(st) THEN st' = [st EXCEPT !.pos.stop = decision.stop] ELSE st' = st
  BY DEF StopNotSold, At, GoTo, clockVars, barVars, tickVars
<1>2. decision.stop = stop /\ stop \in Int /\ Books(st)
  BY <1>1 DEF FloorInv, Midway, StopTypes
<1>3. CASE ~Owns(st)
  <2>1. StopTypes'
    BY <1>1, <1>3 DEF FloorInv, StopTypes, Books, posVars
  <2> QED
    BY <1>1, <1>3, <2>1, SameStops DEF Up, Notifying
<1>4. CASE Owns(st)
  <2>1. /\ Books(st') /\ st'.pos.entry = st.pos.entry /\ st'.pos.stop = stop
        /\ st'.named = st.named
    BY <1>1, <1>2, <1>4 DEF Books
  <2>2. StopTypes'
    BY <1>1, <2>1 DEF FloorInv, StopTypes, Books, posVars
  <2>3. InBooks'
    BY <1>1, <1>4, <2>1 DEF FloorInv, InBooks, InPolicy, Up, Notifying, Owns, Floored, posVars
  <2>4. InFile' /\ InPolicy' /\ Midway'
    BY <1>1 DEF FloorInv, InFile, InPolicy, Midway, Up, Notifying, Owns, Floored, posVars
  <2> QED
    BY <2>2, <2>3, <2>4 DEF FloorInv
<1> QED
  BY <1>3, <1>4

\* No position, no floor.
LEMMA FloorGone ==
    ASSUME StopTypes', floor' = 0, ~Owns(st)', pc' \notin {"stop", "notify1", "notify2"}
    PROVE  FloorInv'
BY DEF FloorInv, InFile, InBooks, InPolicy, Midway, Notifying, Floored

LEMMA StopSoldKeepsFloor ==
    ASSUME FloorInv, StopSold PROVE FloorInv'
<1>1. /\ UNCHANGED <<disk, decision, mark, price, order, atr>> /\ pc' = "fills1"
      /\ st' = [st EXCEPT !.pos = NoPosition]
      /\ inPosizione' = FALSE /\ entrata' = 0 /\ stop' = 0 /\ floor' = 0
  BY DEF StopSold, FlatPolicy, At, GoTo, clockVars, barVars, tickVars
<1>2. NoPosition \in [entry : Nat, stop : Int] /\ NoPosition.entry = 0
      /\ NoPosition.stop = 0
  BY DEF NoPosition
<1>3. Books(st') /\ ~Owns(st)'
  BY <1>1, <1>2 DEF FloorInv, StopTypes, Books, Owns
<1>4. Books(disk') /\ inPosizione' \in BOOLEAN
  BY <1>1 DEF FloorInv, StopTypes
<1>5. StopTypes'
  BY <1>1, <1>3, <1>4 DEF FloorInv, StopTypes
<1> QED
  BY <1>1, <1>3, <1>5, FloorGone

LEMMA ResolveKeepsFloor ==
    ASSUME FloorInv, Resolve PROVE FloorInv'
<1>1. /\ UNCHANGED <<posVars, floor, disk, decision, mark, price, order, atr>>
      /\ pc \in {"fills1", "fills2"} /\ (NoNews \/ Gone \/ Booked)
  BY DEF Resolve, At, clockVars, barVars, tickVars
<1>2. Books(st) /\ atr \in Nat /\ floor \in Nat
  BY DEF FloorInv, StopTypes
<1>3. CASE NoNews \/ Gone
  <2>1. st' \in {st, Dropped(st)} /\ pc' \in {"exec", "save"}
    BY <1>3 DEF NoNews, Gone, AfterFills, GoTo
  <2>2. Books(st') /\ st'.pos = st.pos /\ st'.named = st.named
    BY <1>2, <2>1, DroppedBooks
  <2>3. StopTypes'
    BY <1>1, <2>2 DEF FloorInv, StopTypes, Books, posVars
  <2> QED
    BY <1>1, <2>1, <2>2, <2>3, SameStops DEF Up, Notifying
<1>4. CASE Booked
  <2> DEFINE limit == st.buy.limit
  <2>1. /\ Tracked /\ pc' \in {"notify1", "notify2"}
        /\ st' = [st EXCEPT !.pos = [entry |-> limit, stop |-> BookedStop(limit, atr)]]
    BY <1>4 DEF Booked, GoTo
  <2>2. limit \in Nat /\ limit > 0
    BY <1>2, <2>1 DEF Tracked, Books
  <2>3. BookedStop(limit, atr) \in Int /\ BookedStop(limit, atr) < limit
    BY <1>2, <2>2, StopBounds
  <2>4. /\ Books(st') /\ st'.pos.entry = limit /\ st'.pos.stop < limit
        /\ st'.buy.limit = limit
    BY <1>2, <2>1, <2>2, <2>3 DEF Books
  <2>5. Owns(st)' /\ Tracked'
    BY <2>2, <2>4 DEF Owns, Tracked
  <2>6. StopTypes'
    BY <1>1, <2>4 DEF FloorInv, StopTypes, Books, posVars
  <2>7. InFile' /\ InPolicy'
    BY <1>1, <2>1 DEF FloorInv, InFile, InPolicy, Up, Owns, Floored, posVars
  <2>8. InBooks' /\ Midway'
    BY <2>1, <2>4, <2>5 DEF InBooks, Midway, Notifying
  <2> QED
    BY <2>6, <2>7, <2>8 DEF FloorInv
<1> QED
  BY <1>1, <1>3, <1>4

LEMMA NotifyKeepsFloor ==
    ASSUME FloorInv, Notify PROVE FloorInv'
<1>1. /\ UNCHANGED <<disk, decision, mark, price, order, atr>>
      /\ pc \in {"notify1", "notify2"} /\ pc' \in {"exec", "save"}
      /\ inPosizione' = TRUE /\ entrata' = st.pos.entry
      /\ stop' = InitialStop(st.pos.entry, atr) /\ st' = Dropped(st) /\ floor' = 0
  BY DEF Notify, AfterFills, At, GoTo, clockVars, barVars, tickVars
<1>2. Books(st) /\ atr \in Nat
  BY DEF FloorInv, StopTypes
<1>3. stop' \in Int
  BY <1>1, <1>2, StopBounds DEF Books
<1>4. Books(st') /\ st'.pos = st.pos
  BY <1>1, <1>2, DroppedBooks
<1>5. StopTypes'
  BY <1>1, <1>3, <1>4 DEF FloorInv, StopTypes, Books
<1>6. st.pos.stop < st.pos.entry /\ st.pos.stop \in Int /\ st.pos.entry \in Nat
  BY <1>1, <1>2 DEF FloorInv, Midway, Notifying, Books
<1>7. InBooks'
  BY <1>1, <1>4, <1>6 DEF InBooks, Owns, Floored
<1> QED
  BY <1>1, <1>5, <1>7 DEF FloorInv, InFile, InPolicy, Midway, Notifying, Floored

LEMMA ExecKeepsFloor ==
    ASSUME FloorInv,
           PreflightCancels \/ PreflightBlocked \/ NothingToDo \/ Cancel \/ Place
    PROVE  FloorInv'
<1>1. /\ UNCHANGED <<posVars, floor, disk, decision, mark, price, atr>>
      /\ pc = "exec" /\ pc' \in {"save", "fills2"}
      /\ order' \in {order, CancelOpen(order), [status |-> "open", limit |-> decision.place]}
      /\ st' \in {st, Dropped(st),
                  [st EXCEPT !.buy = [limit |-> decision.place, old |-> FALSE]]}
  BY DEF PreflightCancels, PreflightBlocked, NothingToDo, Cancel, Place, PreflightOk, Exec,
         Sends, At, GoTo, clockVars, barVars, tickVars
<1>2. Books(st) /\ decision.place \in Nat
  BY DEF FloorInv, StopTypes
<1>3. Books(st') /\ st'.pos = st.pos /\ st'.named = st.named
  <2>1. CASE st' \in {st, Dropped(st)}
    BY <1>2, <2>1, DroppedBooks
  <2>2. CASE st' = [st EXCEPT !.buy = [limit |-> decision.place, old |-> FALSE]]
    BY <1>2, <2>2 DEF Books
  <2> QED
    BY <1>1, <2>1, <2>2
<1>4. order' \in [status : {"none", "open", "filled", "canceled"}, limit : Nat]
  BY <1>1, <1>2 DEF FloorInv, StopTypes, CancelOpen
<1>5. StopTypes'
  BY <1>1, <1>3, <1>4 DEF FloorInv, StopTypes, Books, posVars
<1> QED
  BY <1>1, <1>3, <1>5, SameStops DEF Up, Notifying

\* What is saved is what the policy holds: the file has the new floor.
LEMMA SaveKeepsFloor ==
    ASSUME FloorInv, Save PROVE FloorInv'
<1>1. /\ UNCHANGED <<posVars, st, price, order, atr>>
      /\ pc = "save" /\ pc' = "idle" /\ mark' = 0 /\ decision' = NoDecision
      /\ \/ UNCHANGED <<disk, floor>>
         \/ /\ disk' = st
            /\ floor' = IF Owns(st) THEN Larger(floor, Smaller(st.pos.stop, stop)) ELSE 0
  BY DEF Save, NoTick, At, GoTo, clockVars, barVars
<1>2. /\ Books(st) /\ floor \in Nat /\ stop \in Int /\ entrata \in Nat
      /\ st.pos.stop \in Int /\ st.pos.entry \in Nat
      /\ decision' \in [stop : Int, cancel : BOOLEAN, place : Nat]
  BY <1>1 DEF FloorInv, StopTypes, Books, NoDecision
<1>3. CASE UNCHANGED <<disk, floor>>
  <2>1. StopTypes'
    BY <1>1, <1>2, <1>3 DEF FloorInv, StopTypes, Books, posVars
  <2> QED
    BY <1>1, <1>3, <2>1, SameStops DEF Up, Notifying
<1>4. CASE disk' = st /\ ~Owns(st) /\ floor' = 0
  <2>1. StopTypes'
    BY <1>1, <1>2, <1>4 DEF FloorInv, StopTypes, Books, posVars
  <2> QED
    BY <1>1, <1>4, <2>1, FloorGone DEF Owns
<1>5. CASE disk' = st /\ Owns(st) /\ floor' = Larger(floor, Smaller(st.pos.stop, stop))
  <2>1. /\ inPosizione /\ entrata = st.pos.entry
        /\ Floored(entrata) => floor <= st.pos.stop /\ floor <= stop
        /\ st.named /\ st.pos.stop >= entrata => stop >= entrata \/ floor >= entrata
    BY <1>1, <1>5 DEF FloorInv, InBooks, InPolicy, Up, Notifying
  <2>2. /\ floor' \in Nat /\ floor' >= floor
        /\ Floored(entrata)' => floor' <= st.pos.stop /\ floor' <= stop
        /\ stop >= entrata /\ st.pos.stop >= entrata => floor' >= entrata
    BY <1>1, <1>2, <1>5, <2>1 DEF Floored, Larger, Smaller, posVars
  <2>3. StopTypes'
    BY <1>1, <1>2, <1>5, <2>2 DEF FloorInv, StopTypes, Books, posVars
  <2>4. InFile'
    BY <1>1, <1>2, <1>5, <2>1, <2>2 DEF InFile, Owns, Floored, posVars
  <2>5. InBooks' /\ InPolicy'
    BY <1>1, <1>2, <1>5, <2>1, <2>2 DEF InBooks, InPolicy, Owns, Floored, posVars
  <2> QED
    BY <1>1, <2>3, <2>4, <2>5 DEF FloorInv, Midway, Notifying
<1> QED
  BY <1>1, <1>3, <1>4, <1>5

\* A restart takes the stop of the file, which is under the entry.
LEMMA BootKeepsFloor ==
    ASSUME FloorInv, Boot PROVE FloorInv'
<1>1. /\ UNCHANGED <<disk, decision, mark, price, order>> /\ pc' = "idle"
      /\ \E bars : atr' \in NewAtr(bars)
      /\ \E found \in {Loaded, Rebuilt(Loaded)} : st' \in {found, Reconciled(found)}
      /\ IF Owns(st') THEN /\ inPosizione' = TRUE /\ entrata' = st'.pos.entry
                           /\ stop' = RestoredStop(st'.pos.entry, st'.pos.stop, atr')
                           /\ floor' = floor
                      ELSE FlatPolicy /\ floor' = 0
  BY DEF Boot, Restored, GoTo, clockVars, venueVars, tickVars
<1>2. atr' \in Nat /\ Books(disk) /\ order.limit \in Nat /\ floor \in Nat
  BY <1>1, AtrTypes DEF FloorInv, StopTypes
<1>3. /\ Books(Loaded)
      /\ Owns(Loaded) => /\ disk.named /\ Loaded.pos = disk.pos /\ ~Loaded.named
  <2>1. CASE disk.named
    BY <1>2, <2>1, UnnamedBooks DEF Loaded, Owns
  <2>2. CASE ~disk.named
    BY <2>2, FreshBooks DEF Loaded
  <2> QED
    BY <2>1, <2>2
<1>4. /\ Books(Rebuilt(Loaded)) /\ Rebuilt(Loaded).pos = Loaded.pos
      /\ Rebuilt(Loaded).named = Loaded.named
  BY <1>2, <1>3 DEF Rebuilt, Books
<1>5. \A s : Books(s) => /\ Books(Reconciled(s))
                         /\ Owns(Reconciled(s)) => Reconciled(s) = s
  BY DEF Reconciled, Books, NoPosition, Owns
<1>6. /\ Books(st')
      /\ Owns(st') => disk.named /\ st'.pos = disk.pos /\ ~st'.named
  BY <1>1, <1>3, <1>4, <1>5 DEF Owns
<1>7. CASE ~Owns(st')
  <2>1. StopTypes'
    <3>1. inPosizione' \in BOOLEAN /\ entrata' = 0 /\ stop' = 0 /\ floor' = 0
      BY <1>1, <1>7 DEF FlatPolicy
    <3>2. Books(disk')
      BY <1>1, <1>2
    <3> QED
      BY <1>1, <1>2, <1>6, <3>1, <3>2 DEF FloorInv, StopTypes
  <2> QED
    BY <1>1, <1>7, <2>1, FloorGone DEF Owns
<1>8. CASE Owns(st')
  <2> DEFINE e == disk.pos.entry  s == disk.pos.stop
  <2>1. e \in Nat /\ s \in Int /\ entrata' = e /\ stop' = RestoredStop(e, s, atr')
    BY <1>1, <1>2, <1>6, <1>8 DEF Books
  <2>2. stop' \in Int
    BY <1>2, <2>1, StopBounds DEF RestoredStop
  <2>3. Floored(e) => floor <= s /\ s < e /\ stop' = s
    <3>1. Owns(disk) /\ disk.named
      BY <1>6, <1>8 DEF Owns
    <3>2. Floored(e) => floor <= s /\ s < e /\ 0 < s
      BY <1>2, <2>1, <3>1 DEF FloorInv, InFile, Floored
    <3> QED
      BY <2>1, <3>2 DEF RestoredStop
  <2>4. StopTypes'
    BY <1>1, <1>2, <1>6, <1>8, <2>1, <2>2 DEF FloorInv, StopTypes, Books
  <2>5. InFile'
    BY <1>1, <1>8, <2>3 DEF InFile, Floored
  <2>6. InBooks' /\ InPolicy'
    BY <1>1, <1>6, <1>8, <2>1, <2>3 DEF InBooks, InPolicy, Floored, Owns
  <2> QED
    BY <1>1, <2>4, <2>5, <2>6 DEF FloorInv, Midway, Notifying
<1> QED
  BY <1>7, <1>8

LEMMA DeathKeepsFloor ==
    ASSUME FloorInv, Crash \/ CrashInPlace PROVE FloorInv'
<1>1. /\ pc' = "down" /\ inPosizione' = FALSE /\ entrata' = 0 /\ stop' = 0 /\ atr' = 0
      /\ st' = FreshState /\ mark' = 0 /\ decision' = NoDecision
      /\ UNCHANGED <<price, disk, floor>>
      /\ order' \in {order, [status |-> "open", limit |-> decision.place]}
  BY DEF Crash, CrashInPlace, Dies, Sends, NoTick, FlatPolicy, clockVars
<1>2. /\ Books(FreshState) /\ NoDecision \in [stop : Int, cancel : BOOLEAN, place : Nat]
      /\ decision.place \in Nat
  BY FreshBooks, NoDecisionType DEF FloorInv, StopTypes
<1>3. StopTypes'
  <2>1. Books(st') /\ Books(disk') /\ inPosizione' \in BOOLEAN
    BY <1>1, <1>2 DEF FloorInv, StopTypes
  <2>2. order' \in [status : {"none", "open", "filled", "canceled"}, limit : Nat]
    BY <1>1, <1>2 DEF FloorInv, StopTypes
  <2> QED
    BY <1>1, <1>2, <2>1, <2>2 DEF FloorInv, StopTypes
<1> QED
  BY <1>1, <1>3 DEF FloorInv, InFile, InBooks, InPolicy, Midway, Up, Notifying, Floored, Owns

LEMMA StutterKeepsFloor ==
    ASSUME FloorInv, UNCHANGED vars PROVE FloorInv'
BY DEF FloorInv, StopTypes, Books, InFile, InBooks, InPolicy, Midway, Up, Notifying, Floored,
       Owns, Tracked, vars, clockVars, venueVars, barVars, posVars, tickVars, seenVars

\* trailing_stop and ripristina_posizione: whatever the market, the candles,
\* the failures and the restarts, a stop below the entry that was in force and
\* in the file is never undercut while the position lasts.
THEOREM StopSafety == Spec => []StopSurvives
<1>1. Init => FloorInv
  BY InitFloor
<1>2. FloorInv /\ [Next]_vars => FloorInv'
  <2> SUFFICES ASSUME FloorInv, [Next]_vars PROVE FloorInv'
    OBVIOUS
  <2>1. CASE Turn \/ Move \/ Fill \/ Request \/ Answer
    BY <2>1, EnvironmentKeepsFloor
  <2>2. CASE Tick
    <3>1. CASE TickStarts \/ TickBlocked
      BY <3>1, TickBeginsKeepsFloor
    <3>2. CASE GivesUp \/ Enters \/ Waits
      BY <3>2, FlatKeepsFloor
    <3>3. CASE PreflightCancels \/ PreflightBlocked \/ NothingToDo \/ Cancel \/ Place
      BY <3>3, ExecKeepsFloor
    <3> QED
      BY <2>2, <3>1, <3>2, <3>3, HoldsKeepsFloor, AdoptsKeepsFloor, StopNotSoldKeepsFloor,
         StopSoldKeepsFloor, ResolveKeepsFloor, NotifyKeepsFloor, SaveKeepsFloor DEF Tick
  <2>3. CASE Crash \/ CrashInPlace
    BY <2>3, DeathKeepsFloor
  <2> QED
    BY <2>1, <2>2, <2>3, AgeKeepsFloor, BootKeepsFloor, StutterKeepsFloor DEF Next
<1>3. FloorInv => StopSurvives
  BY DEF FloorInv, InPolicy, Floored, StopSurvives, StopTypes
<1> QED
  BY <1>1, <1>2, <1>3, PTL DEF Spec
=============================================================================
