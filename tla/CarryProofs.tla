----------------------------- MODULE CarryProofs -----------------------------
(***************************************************************************)
(* What is proved of the carry canary for any size of the purchase, of a   *)
(* contract and of the least spot to hedge, and any number of commands.    *)
(*                                                                         *)
(* The orders that a command has left behind and the one it polls count    *)
(* together: Live[l] is what is still on offer of a leg.  CarryInv says    *)
(* what they can add up to at each place of a command.                     *)
(***************************************************************************)
EXTENDS CanaryCarry, TLAPS

\* What is still on offer of a leg.
Polled == [l \in Legs |-> IF cur.leg = l THEN cur.left ELSE 0]
Live == [l \in Legs |-> stale[l] + Polled[l]]

\* The leg that a command polls at each place.
LegsAt(p) ==
    CASE p \in {"spot", "cancel_spot", "last_spot"} -> {"buy_spot"}
      [] p \in {"perp", "last_perp"} -> {"sell_perp"}
      [] p = "close_perp" -> {"buy_perp"}
      [] p = "closing_spot" -> {"sell_spot"}
      [] p = "unwind" -> {"sell_spot", "none"}
      [] OTHER -> {"none"}

Course ==
    /\ cur.leg \in LegsAt(pc)
    /\ cur.leg = "none" => cur.left = 0
    /\ pc \in {"spot", "cancel_spot"} => cur.size = Q

\* NeverLong is not inductive: nothing may be on offer to buy back once the short is
\* gone, for the venue cancels what may only reduce it.
OnlyReduces == pos >= 0 /\ (pos = 0 => Live["buy_perp"] = 0)

Most == Contracts(2 * Q)

\* What an opening may hold at most at each place, if all that is on offer is filled.
BuyBound(p) == IF p \in {"spot", "cancel_spot", "rest"} THEN Q ELSE 2 * Q

SellBound(p) ==
    IF p \in {"spot", "cancel_spot", "rest", "last_spot", "qty"} THEN 0
    ELSE IF p \in {"perp", "perp_again"} THEN Most ELSE 2 * Most

Bounded ==
    blind = 0 =>
        /\ spot + Live["buy_spot"] <= BuyBound(pc)
        /\ pos + Live["sell_perp"] <= SellBound(pc)
        /\ pc \in {"perp", "perp_again"} => ct <= Most

Clean == faults = 0 /\ deaths = 0 /\ ~nothingLeft /\ ~closed

\* As long as nothing has gone wrong and nothing is closed, only sales of spot are left
\* behind, what is to be hedged is all the spot, and what is left is too little.
CleanCourse ==
    Clean =>
        /\ \A l \in Legs \ {"sell_spot"} : stale[l] = 0
        /\ pc # "idle" => stale["sell_spot"] = 0
        /\ pc \notin {"close_perp", "close_spot", "closing_spot", "record"}
        /\ pc \in {"perp", "perp_again", "last_perp", "position"} => spot = qty
        /\ pc = "idle" => pos >= 1 \/ Free < MinSpot
        /\ pc = "unwind" => Free = 0

CarryInv == TypeOK /\ Course /\ OnlyReduces /\ Bounded /\ CleanCourse

-----------------------------------------------------------------------------
(* Lemmas                                                                  *)

LEMMA CarryBounds ==
    /\ CtVal \in Nat /\ CtVal > 0 /\ MinSpot \in Nat /\ MinSpot > 0 /\ Q \in Nat
    /\ MinSpot <= Q /\ MaxRuns \in Nat /\ MaxFaults \in Nat /\ MaxDeaths \in Nat
BY CarryAssumption

LEMMA ContractsOf ==
    ASSUME NEW n \in Nat
    PROVE  Contracts(n) \in Nat
BY CarryBounds DEF Contracts

\* More units are never fewer contracts.
LEMMA ContractsMonotone ==
    ASSUME NEW n \in Nat, NEW m \in Nat, m <= n
    PROVE  Contracts(m) <= Contracts(n)
<1> DEFINE c == m \div CtVal  d == n \div CtVal  r == m % CtVal  s == n % CtVal
<1>1. /\ c \in Nat /\ d \in Nat /\ r \in 0 .. CtVal - 1 /\ s \in 0 .. CtVal - 1
      /\ m = CtVal * c + r /\ n = CtVal * d + s
  BY CarryBounds
<1>2. Contracts(m) = (IF 2 * r > CtVal \/ (2 * r = CtVal /\ c % 2 = 1) THEN c + 1 ELSE c)
  BY DEF Contracts
<1>3. Contracts(n) = (IF 2 * s > CtVal \/ (2 * s = CtVal /\ d % 2 = 1) THEN d + 1 ELSE d)
  BY DEF Contracts
<1> HIDE DEF c, d, r, s
<1>4. c <= d
  <2>1. ASSUME c >= d + 1 PROVE FALSE
    <3>1. CtVal * c >= CtVal * (d + 1)
      BY <1>1, <2>1, CarryBounds
    <3>2. CtVal * (d + 1) = CtVal * d + CtVal
      BY <1>1, CarryBounds
    <3> DEFINE x == CtVal * c  y == CtVal * d
    <3>3. x \in Nat /\ y \in Nat /\ x >= y + CtVal /\ m = x + r /\ n = y + s
      BY <1>1, <3>1, <3>2, CarryBounds
    <3> HIDE DEF x, y
    <3> QED
      BY <1>1, <3>3, CarryBounds
  <2> QED
    BY <1>1, <2>1
<1>5. c = d => r <= s
  <2> DEFINE x == CtVal * c  y == CtVal * d
  <2>1. c = d => x = y
    OBVIOUS
  <2>2. x \in Nat /\ y \in Nat /\ m = x + r /\ n = y + s
    BY <1>1, CarryBounds
  <2> HIDE DEF x, y
  <2> QED
    BY <1>1, <2>1, <2>2
<1> QED
  BY <1>1, <1>2, <1>3, <1>4, <1>5, CarryBounds

LEMMA MostType == Most \in Nat
<1>1. 2 * Q \in Nat
  BY CarryBounds
<1> QED
  BY <1>1, ContractsOf DEF Most

LEMMA LiveType ==
    ASSUME TypeOK
    PROVE  /\ Live \in [Legs -> Nat] /\ Polled \in [Legs -> Nat]
           /\ \A l \in Legs : Live[l] = stale[l] + Polled[l] /\ stale[l] <= Live[l]
<1>1. stale \in [Legs -> Nat] /\ Polled \in [Legs -> Nat]
  BY DEF TypeOK, Polled
<1>2. \A m, n \in Nat : m + n \in Nat /\ m <= m + n
  OBVIOUS
<1> QED
  BY <1>1, <1>2 DEF Live

LEMMA FreeIs == TypeOK => Free = spot - Live["sell_spot"] /\ Free \in Nat
<1> SUFFICES ASSUME TypeOK PROVE Free = spot - Live["sell_spot"] /\ Free \in Nat
  OBVIOUS
<1>1. stale["sell_spot"] \in Nat /\ Polled["sell_spot"] \in Nat /\ spot \in Nat /\ Free >= 0
  BY LiveType DEF TypeOK, Legs
<1>2. Free = spot - stale["sell_spot"] - Polled["sell_spot"]
  BY DEF Free, Polled, Legs
<1>3. Live["sell_spot"] = stale["sell_spot"] + Polled["sell_spot"]
  BY LiveType DEF Legs
<1> QED
  BY <1>1, <1>2, <1>3

\* What belongs to the venue, and the order polled.
OfferTypes ==
    /\ spot \in Nat /\ pos \in Int /\ stale \in [Legs -> Nat]
    /\ cur \in [leg : Legs \cup {"none"}, size : Nat, left : Nat] /\ cur.left <= cur.size
    /\ Free >= 0

RestTypes ==
    /\ prev \in 0 .. Q /\ qty \in Nat /\ ct \in Nat
    /\ {file, loaded} \subseteq {"none", "open", "closed"}
    /\ monitor \in {"idle", "loaded", "read"}
    /\ runs \in 0 .. MaxRuns /\ faults \in 0 .. MaxFaults /\ deaths \in 0 .. MaxDeaths
    /\ blind \in Nat /\ {nothingLeft, closed} \subseteq BOOLEAN


\* The order polled is no longer polled: canceled, done, or left behind.
Drops ==
    /\ UNCHANGED <<spot, pos>> /\ cur' = NoOrder
    /\ stale' = stale \/ stale' = LeftBehind

\* An order is sent while none is polled.
Places(order) ==
    /\ UNCHANGED <<spot, pos, stale>> /\ cur.left = 0
    /\ cur' = order /\ order.left = order.size
    /\ order.leg \in Legs /\ order \in [leg : Legs, size : Nat, left : Nat]
    /\ order.leg = "sell_spot" => order.size <= Free

LEMMA DropsLess ==
    ASSUME TypeOK, Course, Drops
    PROVE  /\ OfferTypes' /\ Free' >= Free
           /\ Live' \in [Legs -> Nat] /\ \A l \in Legs : Live'[l] <= Live[l]
           /\ Live' = stale'
<1>1. /\ cur' = NoOrder /\ cur'.leg = "none" /\ cur'.left = 0 /\ cur'.size = 0
      /\ cur.left \in Nat /\ cur.leg \in Legs \cup {"none"} /\ UNCHANGED <<spot, pos>>
      /\ stale \in [Legs -> Nat] /\ spot \in Nat /\ pos \in Int
  BY DEF Drops, NoOrder, TypeOK
<1>2. Live \in [Legs -> Nat] /\ \A l \in Legs : stale[l] <= Live[l]
  BY LiveType
<1>3. stale' \in [Legs -> Nat] /\ \A l \in Legs : stale'[l] <= Live[l]
  <2>1. CASE stale' = stale
    BY <1>1, <1>2, <2>1
  <2>2. CASE stale' = LeftBehind /\ cur.left = 0
    BY <1>1, <1>2, <2>2 DEF LeftBehind
  <2>3. CASE stale' = LeftBehind /\ cur.left > 0
    <3>1. cur.leg \in Legs /\ stale' = [stale EXCEPT ![cur.leg] = stale[cur.leg] + cur.left]
      BY <1>1, <2>3 DEF Course, LeftBehind
    <3>2. Live[cur.leg] = stale[cur.leg] + cur.left
      BY <3>1, LiveType DEF Polled
    <3>3. \A l \in Legs : stale'[l] = IF l = cur.leg THEN Live[l] ELSE stale[l]
      BY <1>1, <3>1, <3>2
    <3>4. stale' \in [Legs -> Nat]
      BY <1>1, <1>2, <3>1, <3>2
    <3> QED
      BY <1>2, <3>3, <3>4
  <2> QED
    BY <1>1, <2>1, <2>2, <2>3 DEF Drops
<1>4. Live' = stale'
  <2>1. \A l \in Legs : Polled'[l] = 0
    BY <1>1 DEF Polled, Legs
  <2>2. \A n \in Nat : n + 0 = n
    OBVIOUS
  <2>3. Live' = [l \in Legs |-> stale'[l]]
    BY <1>3, <2>1, <2>2 DEF Live
  <2> QED
    BY <1>3, <2>3
<1>5. Free' >= Free /\ Free' >= 0
  <2>1. stale'["sell_spot"] \in Nat /\ Live["sell_spot"] \in Nat
        /\ stale'["sell_spot"] <= Live["sell_spot"]
    BY <1>2, <1>3 DEF Legs
  <2>2. Free' = spot - stale'["sell_spot"] - 0 /\ Free = spot - Live["sell_spot"] /\ Free \in Nat
    BY <1>1, FreeIs DEF Free
  <2> QED
    BY <1>1, <2>1, <2>2
<1> QED
  BY <1>1, <1>3, <1>4, <1>5 DEF OfferTypes, NoOrder

LEMMA PlacesMore ==
    ASSUME TypeOK, NEW order, Places(order)
    PROVE  /\ OfferTypes' /\ cur' = order
           /\ \A l \in Legs : Live'[l] = IF l = order.leg THEN Live[l] + order.size ELSE Live[l]
<1>1. /\ cur' = order /\ cur.left = 0 /\ order.left = order.size
      /\ order.leg \in Legs /\ order.size \in Nat /\ UNCHANGED <<spot, pos, stale>>
      /\ stale \in [Legs -> Nat] /\ spot \in Nat
  BY DEF Places, TypeOK
<1>2. Live \in [Legs -> Nat] /\ \A l \in Legs : Live[l] = stale[l]
  <2>1. \A l \in Legs : Polled[l] = 0
    BY <1>1 DEF Polled
  <2> QED
    BY <1>1, <2>1, LiveType
<1>3. \A l \in Legs : Live'[l] = IF l = order.leg THEN Live[l] + order.size ELSE Live[l]
  <2>1. \A l \in Legs : Polled'[l] = IF l = order.leg THEN order.size ELSE 0
    BY <1>1 DEF Polled
  <2>2. \A l \in Legs : Live'[l] = stale[l] + Polled'[l]
    BY <1>1 DEF Live
  <2> QED
    BY <1>1, <1>2, <2>1, <2>2
<1>4. Free' >= 0
  <2>1. Free' = spot - stale["sell_spot"] - (IF order.leg = "sell_spot" THEN order.size ELSE 0)
    BY <1>1 DEF Free
  <2>2. Free = spot - stale["sell_spot"] /\ Free \in Nat /\ stale["sell_spot"] \in Nat
    BY <1>1, <1>2, FreeIs DEF Legs
  <2>3. order.leg = "sell_spot" => order.size <= Free
    BY DEF Places
  <2> QED
    BY <1>1, <2>1, <2>2, <2>3
<1> QED
  BY <1>1, <1>3, <1>4 DEF OfferTypes, TypeOK, Places

\* A unit of a leg is traded; what may only reduce the position ends with it.
Fills(l) ==
    /\ Trade(l) /\ Live[l] > 0
    /\ Live' \in [Legs -> Nat]
    /\ \A k \in Legs : Live'[k] = IF k = "buy_perp" /\ pos' = 0 THEN 0
                                  ELSE IF k = l THEN Live[k] - 1 ELSE Live[k]
    /\ stale' \in [Legs -> Nat] /\ \A k \in Legs : stale'[k] <= stale[k]
    /\ cur'.leg = cur.leg /\ cur'.size = cur.size /\ cur'.left <= cur.left
    /\ cur' \in [leg : Legs \cup {"none"}, size : Nat, left : Nat]

LEMMA FillCurrentFills ==
    ASSUME TypeOK, Course, FillCurrent
    PROVE  cur.leg \in Legs /\ Fills(cur.leg)
<1>1. /\ cur.leg \in Legs /\ cur.left \in Nat /\ cur.left > 0 /\ stale \in [Legs -> Nat]
      /\ cur \in [leg : Legs \cup {"none"}, size : Nat, left : Nat]
  BY DEF FillCurrent, TypeOK, Course
<1>2. /\ Trade(cur.leg)
      /\ cur' = [cur EXCEPT !.left = IF cur.leg = "buy_perp" /\ pos' = 0 THEN 0 ELSE cur.left - 1]
      /\ stale' = IF pos' = 0 THEN [stale EXCEPT !["buy_perp"] = 0] ELSE stale
  BY DEF FillCurrent, Trimmed, Over, ReduceOnly
<1>3. /\ cur' \in [leg : Legs \cup {"none"}, size : Nat, left : Nat]
      /\ cur'.leg = cur.leg /\ cur'.size = cur.size /\ cur'.left <= cur.left
      /\ cur'.left = IF cur.leg = "buy_perp" /\ pos' = 0 THEN 0 ELSE cur.left - 1
  BY <1>1, <1>2
<1>4. /\ stale' \in [Legs -> Nat]
      /\ \A k \in Legs : stale'[k] = IF k = "buy_perp" /\ pos' = 0 THEN 0 ELSE stale[k]
  BY <1>1, <1>2 DEF Legs
<1>5. \A k \in Legs : /\ Live[k] = stale[k] + (IF cur.leg = k THEN cur.left ELSE 0)
                      /\ Live'[k] = stale'[k] + (IF cur'.leg = k THEN cur'.left ELSE 0)
  BY DEF Live, Polled
<1>6. ASSUME NEW k \in Legs
      PROVE  /\ Live'[k] = IF k = "buy_perp" /\ pos' = 0 THEN 0
                           ELSE IF k = cur.leg THEN Live[k] - 1 ELSE Live[k]
             /\ Live'[k] \in Nat /\ stale'[k] <= stale[k]
  BY <1>1, <1>3, <1>4, <1>5
<1>7. Live' = [k \in Legs |-> Live'[k]]
  BY DEF Live
<1>8. Live[cur.leg] > 0
  BY <1>1, <1>5
<1> QED
  BY <1>1, <1>2, <1>3, <1>4, <1>6, <1>7, <1>8 DEF Fills

LEMMA FillStaleFills ==
    ASSUME TypeOK, NEW l \in Legs, FillStale(l)
    PROVE  Fills(l)
<1>1. /\ cur.left \in Nat /\ stale \in [Legs -> Nat] /\ stale[l] > 0
      /\ cur \in [leg : Legs \cup {"none"}, size : Nat, left : Nat]
  BY DEF FillStale, TypeOK
<1> DEFINE less == [stale EXCEPT ![l] = @ - 1]
<1>2. /\ Trade(l)
      /\ cur' = IF cur.leg = "buy_perp" /\ pos' = 0 THEN [cur EXCEPT !.left = 0] ELSE cur
      /\ stale' = IF pos' = 0 THEN [less EXCEPT !["buy_perp"] = 0] ELSE less
  BY DEF FillStale, Trimmed, Over, ReduceOnly
<1>3. /\ less \in [Legs -> Nat]
      /\ \A k \in Legs : less[k] = IF k = l THEN stale[k] - 1 ELSE stale[k]
  BY <1>1
<1> HIDE DEF less
<1>4. /\ cur' \in [leg : Legs \cup {"none"}, size : Nat, left : Nat]
      /\ cur'.leg = cur.leg /\ cur'.size = cur.size /\ cur'.left <= cur.left
      /\ cur'.left = IF cur.leg = "buy_perp" /\ pos' = 0 THEN 0 ELSE cur.left
  BY <1>1, <1>2
<1>5. /\ stale' \in [Legs -> Nat]
      /\ \A k \in Legs : stale'[k] = IF k = "buy_perp" /\ pos' = 0 THEN 0
                                     ELSE IF k = l THEN stale[k] - 1 ELSE stale[k]
  BY <1>2, <1>3 DEF Legs
<1>6. \A k \in Legs : /\ Live[k] = stale[k] + (IF cur.leg = k THEN cur.left ELSE 0)
                      /\ Live'[k] = stale'[k] + (IF cur'.leg = k THEN cur'.left ELSE 0)
  BY DEF Live, Polled
<1>7. ASSUME NEW k \in Legs
      PROVE  /\ Live'[k] = IF k = "buy_perp" /\ pos' = 0 THEN 0
                           ELSE IF k = l THEN Live[k] - 1 ELSE Live[k]
             /\ Live'[k] \in Nat /\ stale'[k] <= stale[k]
  BY <1>1, <1>4, <1>5, <1>6
<1>8. Live' = [k \in Legs |-> Live'[k]]
  BY DEF Live
<1>9. Live[l] > 0
  BY <1>1, <1>6
<1> QED
  BY <1>2, <1>4, <1>5, <1>7, <1>8, <1>9 DEF Fills

-----------------------------------------------------------------------------
(* The venue's steps                                                       *)

\* Whatever is filled, in whatever order, nothing is bought back that was not sold, and
\* what an opening may hold does not grow.
LEMMA FillsKeepCarryInv ==
    ASSUME CarryInv, NEW l \in Legs, Fills(l),
           UNCHANGED <<pc, prev, qty, ct, fileVars, pastVars>>
    PROVE  CarryInv'
<1>1. /\ Live \in [Legs -> Nat] /\ Live' \in [Legs -> Nat] /\ spot \in Nat /\ pos \in Int
      /\ stale \in [Legs -> Nat] /\ stale' \in [Legs -> Nat]
  BY LiveType DEF CarryInv, TypeOK, Fills
<1>2. \A k \in Legs : Live'[k] = IF k = "buy_perp" /\ pos' = 0 THEN 0
                                 ELSE IF k = l THEN Live[k] - 1 ELSE Live[k]
  BY DEF Fills
<1>3. /\ l = "buy_spot" => spot' = spot + 1 /\ pos' = pos
      /\ l = "sell_spot" => spot' = spot - 1 /\ pos' = pos
      /\ l = "sell_perp" => spot' = spot /\ pos' = pos + 1
      /\ l = "buy_perp" => spot' = spot /\ pos' = pos - 1
      /\ Live[l] > 0 /\ l \in {"buy_spot", "sell_perp", "buy_perp", "sell_spot"}
  BY DEF Fills, Trade, Legs
<1>4. Free = spot - Live["sell_spot"] /\ Free \in Nat
  BY FreeIs DEF CarryInv
<1>5. Free' = spot' - Live'["sell_spot"]
  <2>1. /\ Live'["sell_spot"] = stale'["sell_spot"]
                                + (IF cur'.leg = "sell_spot" THEN cur'.left ELSE 0)
        /\ stale'["sell_spot"] \in Nat /\ cur'.left \in Nat
    BY <1>1 DEF Live, Polled, Legs, Fills
  <2>2. Free' = spot' - stale'["sell_spot"] - (IF cur'.leg = "sell_spot" THEN cur'.left ELSE 0)
    BY DEF Free
  <2>3. spot' \in Int
    BY <1>1, <1>3
  <2> QED
    BY <2>1, <2>2, <2>3
<1>6. /\ spot' \in Nat /\ pos' \in Int
      /\ Free' = IF l = "buy_spot" THEN Free + 1 ELSE Free
  BY <1>1, <1>2, <1>3, <1>4, <1>5 DEF Legs
<1>7. TypeOK'
  <2>1. cur'.left <= cur'.size
    BY DEF Fills, CarryInv, TypeOK
  <2> QED
    BY <1>1, <1>4, <1>6, <2>1 DEF CarryInv, TypeOK, Fills, fileVars, pastVars
<1>8. Course'
  BY DEF CarryInv, TypeOK, Course, Fills
<1>9. OnlyReduces'
  BY <1>1, <1>2, <1>3 DEF CarryInv, OnlyReduces, Legs
<1>10. Bounded'
  <2>1. spot' + Live'["buy_spot"] <= spot + Live["buy_spot"]
        /\ pos' + Live'["sell_perp"] <= pos + Live["sell_perp"]
    BY <1>1, <1>2, <1>3 DEF Legs
  <2> QED
    BY <1>1, <1>6, <2>1, MostType, CarryBounds
       DEF CarryInv, Bounded, BuyBound, SellBound, pastVars, Legs
<1>11. CleanCourse'
  <2> SUFFICES ASSUME Clean PROVE CleanCourse'
    BY DEF CleanCourse, Clean, pastVars
  <2>1. Live[l] = stale[l] + (IF cur.leg = l THEN cur.left ELSE 0)
    BY DEF Live, Polled
  <2>2. l = cur.leg \/ stale[l] > 0
    BY <1>1, <1>3, <2>1
  <2>3. \A k \in Legs : stale[k] = 0 => stale'[k] = 0
    BY <1>1 DEF Fills
  <2>4. CASE pc = "idle"
    <3>1. l = "sell_spot"
      BY <1>3, <2>2, <2>4 DEF CarryInv, Course, LegsAt, CleanCourse, Legs
    <3> QED
      BY <1>3, <1>6, <2>3, <2>4, <3>1 DEF CarryInv, CleanCourse
  <2>5. CASE pc # "idle"
    <3>1. l = cur.leg /\ l \in LegsAt(pc)
      BY <1>1, <2>2, <2>5 DEF CarryInv, Course, CleanCourse, Legs
    <3>2. pc \in {"perp", "last_perp", "perp_again", "position"} => spot' = spot
      BY <1>3, <3>1 DEF LegsAt
    <3>3. pc = "unwind" => Free' = Free
      BY <1>3, <1>6, <3>1 DEF LegsAt
    <3> QED
      BY <2>3, <2>5, <3>2, <3>3 DEF CarryInv, CleanCourse, Legs
  <2> QED
    BY <2>4, <2>5
<1> QED
  BY <1>7, <1>8, <1>9, <1>10, <1>11 DEF CarryInv

-----------------------------------------------------------------------------
(* The script's steps                                                      *)

LEMMA EndsSame ==
    ASSUME TypeOK, Course, UNCHANGED spot, cur' = NoOrder, stale' = LeftBehind
    PROVE  stale' = Live /\ Free' = Free
<1>1. /\ cur'.leg = "none" /\ cur.left \in Nat /\ cur.leg \in Legs \cup {"none"}
      /\ stale \in [Legs -> Nat]
  BY DEF NoOrder, TypeOK
<1>2. \A l \in Legs : Live[l] = stale[l] + (IF cur.leg = l THEN cur.left ELSE 0)
  BY DEF Live, Polled
<1>3. stale' \in [Legs -> Nat] /\ \A l \in Legs : stale'[l] = Live[l]
  <2>1. CASE cur.left = 0
    BY <1>1, <1>2, <2>1 DEF LeftBehind
  <2>2. CASE cur.left > 0
    <3>1. cur.leg \in Legs /\ stale' = [stale EXCEPT ![cur.leg] = stale[cur.leg] + cur.left]
      BY <1>1, <2>2 DEF Course, LeftBehind
    <3> QED
      BY <1>1, <1>2, <3>1
  <2> QED
    BY <1>1, <2>1, <2>2
<1>4. stale' = Live
  BY <1>3, LiveType
<1>5. Free = spot - Live["sell_spot"] /\ Free' = spot - stale'["sell_spot"] - 0
      /\ Live["sell_spot"] \in Nat /\ spot \in Nat
  BY <1>1, FreeIs, LiveType DEF Free, Legs, TypeOK
<1> QED
  BY <1>4, <1>5

\* An order that is dropped takes nothing away from what the invariants allow.
LEMMA DropsKeep ==
    ASSUME CarryInv, Drops, RestTypes', "none" \in LegsAt(pc'),
           pc' \notin {"spot", "cancel_spot"}, blind' = blind,
           BuyBound(pc) <= BuyBound(pc'), SellBound(pc) <= SellBound(pc'),
           pc' \in {"perp", "perp_again"} => pc = "perp" /\ ct' = ct
    PROVE  TypeOK' /\ Course' /\ OnlyReduces' /\ Bounded'
<1>1. /\ OfferTypes' /\ Live' \in [Legs -> Nat] /\ Live \in [Legs -> Nat]
      /\ \A l \in Legs : Live'[l] <= Live[l]
  BY DropsLess, LiveType DEF CarryInv
<1>2. UNCHANGED <<spot, pos>> /\ cur' = NoOrder /\ spot \in Nat /\ pos \in Int
  BY DEF Drops, CarryInv, TypeOK
<1>3. TypeOK'
  BY <1>1 DEF TypeOK, OfferTypes, RestTypes
<1>4. Course'
  BY <1>2 DEF Course, NoOrder
<1>5. OnlyReduces'
  BY <1>1, <1>2 DEF CarryInv, OnlyReduces, Legs
<1>6. Bounded'
  <2>1. BuyBound(pc) \in Nat /\ SellBound(pc) \in Nat /\ BuyBound(pc') \in Nat
        /\ SellBound(pc') \in Nat
    BY MostType, CarryBounds DEF BuyBound, SellBound
  <2>2. spot' + Live'["buy_spot"] <= spot + Live["buy_spot"]
        /\ pos' + Live'["sell_perp"] <= pos + Live["sell_perp"]
        /\ spot' + Live'["buy_spot"] \in Int /\ pos' + Live'["sell_perp"] \in Int
        /\ spot + Live["buy_spot"] \in Int /\ pos + Live["sell_perp"] \in Int
    BY <1>1, <1>2 DEF Legs
  <2> QED
    BY <2>1, <2>2 DEF CarryInv, Bounded
<1> QED
  BY <1>3, <1>4, <1>5, <1>6

LEMMA PlacesKeep ==
    ASSUME CarryInv, NEW order, Places(order), RestTypes', order.leg \in LegsAt(pc'),
           pc' \in {"spot", "cancel_spot"} => order.size = Q,
           order.leg = "buy_perp" => pos >= 1
    PROVE  TypeOK' /\ Course' /\ OnlyReduces'
<1>1. /\ OfferTypes' /\ cur' = order /\ Live \in [Legs -> Nat]
      /\ \A l \in Legs : Live'[l] = IF l = order.leg THEN Live[l] + order.size ELSE Live[l]
  BY PlacesMore, LiveType DEF CarryInv
<1>2. TypeOK'
  BY <1>1 DEF TypeOK, OfferTypes, RestTypes
<1>3. Course'
  BY <1>1 DEF Course, Places, Legs
<1>4. OnlyReduces'
  BY <1>1 DEF CarryInv, OnlyReduces, Places, Legs
<1> QED
  BY <1>2, <1>3, <1>4

\* The steps in which an opening or a close goes from one order to the next.
MidDrop ==
    \/ \E outcome \in Outcomes : SpotDone(outcome) \/ PerpDone(outcome)
    \/ \E works \in BOOLEAN : CancelSpot(works) \/ LastLate(works) \/ PerpLate(works)
    \/ LastDone

\* The places of such a step.
Onward ==
    \/ pc = "spot" /\ pc' = "qty"
    \/ pc = "perp" /\ pc' = "position"
    \/ pc = "cancel_spot" /\ pc' = "rest"
    \/ pc = "perp" /\ pc' = "perp_again"
    \/ pc = "last_spot" /\ pc' = "qty"
    \/ pc = "last_perp" /\ pc' = "position"
    \/ pc = "close_perp" /\ pc' = "close_spot"
    \/ pc = "closing_spot" /\ pc' = "record"

LEMMA MidDropKeepsCarryInv ==
    ASSUME CarryInv, MidDrop
    PROVE  CarryInv'
<1>1. /\ UNCHANGED <<spot, pos, prev, qty, ct, fileVars, runs, deaths, blind, nothingLeft,
                     closed>>
      /\ cur' = NoOrder
  BY DEF MidDrop, SpotDone, PerpDone, CancelSpot, LastLate, PerpLate, LastDone, Cancel,
     venueVars, pastVars
<1>2. \/ UNCHANGED <<faults, stale>>
      \/ /\ faults < MaxFaults /\ faults' = faults + 1
         /\ stale' = stale \/ stale' = LeftBehind
  BY DEF MidDrop, SpotDone, PerpDone, CancelSpot, LastLate, PerpLate, LastDone, Cancel,
     venueVars, pastVars, Seen, Fault
<1>3. Onward
  <2>1. (pc \in DOMAIN After /\ pc' = After[pc]) => Onward
    BY DEF Onward, After
  <2> QED
    BY <2>1 DEF MidDrop, SpotDone, PerpDone, CancelSpot, LastLate, PerpLate, LastDone, Goto,
       Onward
<1>4. Drops
  BY <1>1, <1>2 DEF Drops
<1>5. RestTypes'
  <2>1. faults' \in 0 .. MaxFaults
    BY <1>2, CarryBounds DEF CarryInv, TypeOK
  <2> QED
    BY <1>1, <2>1 DEF CarryInv, TypeOK, RestTypes, fileVars
<1>6. "none" \in LegsAt(pc') /\ pc' \notin {"spot", "cancel_spot"}
      /\ (pc' \in {"perp", "perp_again"} => pc = "perp")
  BY <1>3 DEF Onward, LegsAt
<1>7. BuyBound(pc) <= BuyBound(pc') /\ SellBound(pc) <= SellBound(pc')
  BY <1>3, MostType, CarryBounds DEF Onward, BuyBound, SellBound
<1>8. TypeOK' /\ Course' /\ OnlyReduces' /\ Bounded'
  BY <1>1, <1>4, <1>5, <1>6, <1>7, DropsKeep
<1>9. CleanCourse'
  <2> SUFFICES ASSUME Clean' PROVE CleanCourse'
    BY DEF CleanCourse
  <2>1. Clean /\ stale' = stale
    BY <1>1, <1>2, CarryBounds DEF Clean, CarryInv, TypeOK
  <2> QED
    BY <1>1, <1>3, <2>1 DEF CarryInv, CleanCourse, Onward
<1> QED
  BY <1>8, <1>9 DEF CarryInv

\* The steps with which a command ends, or is ended.
EndStep ==
    \/ NothingToBuy \/ Hedged \/ Unwound \/ Record \/ Dies
    \/ \E read \in BOOLEAN : Qty(read) /\ SpotQty(read) < MinSpot

LEMMA EndKeepsCarryInv ==
    ASSUME CarryInv, EndStep
    PROVE  CarryInv'
<1>1. /\ UNCHANGED <<spot, pos, blind, runs, closed, monitor, loaded>>
      /\ cur' = NoOrder /\ stale' = LeftBehind /\ pc' = "idle"
      /\ prev' = 0 /\ qty' = 0 /\ ct' = 0
  BY DEF EndStep, NothingToBuy, Hedged, Unwound, Record, Dies, Qty, Ends, Goto, fileVars,
     pastVars
<1>2. /\ file' \in {file, "open", "closed"}
      /\ deaths' = deaths \/ (deaths < MaxDeaths /\ deaths' = deaths + 1)
      /\ faults' = faults \/ (faults < MaxFaults /\ faults' = faults + 1)
      /\ nothingLeft' \in BOOLEAN
  BY DEF EndStep, NothingToBuy, Hedged, Unwound, Record, Dies, Qty, Reading, Fault, fileVars,
     pastVars, CarryInv, TypeOK
<1>3. RestTypes'
  <2>1. deaths' \in 0 .. MaxDeaths /\ faults' \in 0 .. MaxFaults
    BY <1>2, CarryBounds DEF CarryInv, TypeOK
  <2>2. 0 \in 0 .. Q /\ file' \in {"none", "open", "closed"} /\ 0 \in Nat
    BY <1>2, CarryBounds DEF CarryInv, TypeOK
  <2> QED
    BY <1>1, <1>2, <2>1, <2>2 DEF CarryInv, TypeOK, RestTypes
<1>4. Drops
  BY <1>1 DEF Drops
<1>5. "none" \in LegsAt(pc') /\ pc' \notin {"spot", "cancel_spot", "perp", "perp_again"}
  BY <1>1 DEF LegsAt
<1>6. BuyBound(pc) <= BuyBound(pc') /\ SellBound(pc) <= SellBound(pc')
  BY <1>1, MostType, CarryBounds DEF BuyBound, SellBound
<1>7. TypeOK' /\ Course' /\ OnlyReduces' /\ Bounded'
  BY <1>1, <1>3, <1>4, <1>5, <1>6, DropsKeep
<1>8. CleanCourse'
  <2> SUFFICES ASSUME Clean' PROVE CleanCourse'
    BY DEF CleanCourse
  <2>1. stale' = Live /\ Free' = Free /\ Free \in Nat
    BY <1>1, EndsSame, FreeIs DEF CarryInv
  <2>2. faults' = faults /\ faults = 0 /\ deaths' = deaths /\ deaths = 0 /\ ~closed
    BY <1>1, <1>2, CarryBounds DEF Clean, CarryInv, TypeOK
  <2>3. /\ ~Dies /\ ~NothingToBuy
    BY <2>2, CarryBounds DEF Clean, Dies, NothingToBuy, CarryInv, TypeOK
  <2>4. nothingLeft' = nothingLeft
    BY <2>3 DEF EndStep, Hedged, Unwound, Record, Qty, pastVars
  <2>5. Clean
    BY <2>2, <2>4 DEF Clean
  <2>6. pos >= 1 \/ Free < MinSpot
    <3>1. CASE Hedged
      BY <3>1 DEF Hedged
    <3>2. CASE Unwound
      BY <2>5, <3>2, CarryBounds DEF Unwound, CarryInv, CleanCourse
    <3>3. CASE Record
      BY <2>5, <3>3 DEF Record, CarryInv, CleanCourse
    <3>4. ASSUME NEW read \in BOOLEAN, Qty(read), SpotQty(read) < MinSpot PROVE Free < MinSpot
      <4>1. read
        BY <2>2, <3>4 DEF Qty, Reading, Fault
      <4> QED
        BY <3>4, <4>1 DEF SpotQty
    <3> QED
      BY <2>3, <3>1, <3>2, <3>3, <3>4 DEF EndStep
  <2>7. pc \in {"position", "unwind", "qty"}
    BY <2>3, <2>5 DEF EndStep, Hedged, Unwound, Record, Qty, CarryInv, CleanCourse
  <2>8. \A l \in Legs \ {"sell_spot"} : stale'[l] = 0
    <3>1. cur.leg \in {"none", "sell_spot"}
      BY <2>7 DEF CarryInv, Course, LegsAt
    <3>2. \A l \in Legs \ {"sell_spot"} : Polled[l] = 0 /\ stale[l] = 0
      BY <2>5, <3>1 DEF Polled, CarryInv, CleanCourse, Legs
    <3>3. \A l \in Legs \ {"sell_spot"} : Live[l] = 0 + 0
      BY <3>2, LiveType DEF CarryInv
    <3> QED
      BY <2>1, <3>3
  <2> QED
    BY <1>1, <2>1, <2>6, <2>8 DEF CleanCourse
<1> QED
  BY <1>7, <1>8 DEF CarryInv

\* A step that sends and drops nothing.
Looks ==
    /\ UNCHANGED <<venueVars, cur, blind, deaths, nothingLeft>>
    /\ \/ \E read \in BOOLEAN : SpotLate(read)
       \/ \E read \in BOOLEAN : CloseSpot(read) /\ ~(SpotQty(read) > 0)
       \/ Close /\ ~(pos >= 1)
       \/ Monitor

LEMMA LooksKeepCarryInv ==
    ASSUME CarryInv, Looks
    PROVE  CarryInv'
<1>1. /\ UNCHANGED <<spot, pos, stale, cur, blind, deaths, nothingLeft, qty, ct>>
      /\ \/ pc = "spot" /\ pc' = "cancel_spot" /\ closed' = closed
         \/ pc = "close_spot" /\ pc' = "record" /\ closed' = closed
         \/ pc = "idle" /\ pc' = "close_spot" /\ closed' = TRUE
         \/ pc' = pc /\ UNCHANGED <<prev, closed, faults, runs>>
  BY DEF Looks, SpotLate, CloseSpot, Close, Monitor, MonitorLoads, MonitorReads, MonitorSaves,
     Begin, Goto, venueVars, localVars, pastVars, fileVars
<1>2. /\ faults' = faults \/ (faults < MaxFaults /\ faults' = faults + 1)
      /\ runs' = runs \/ (runs < MaxRuns /\ runs' = runs + 1)
      /\ prev' = prev \/ prev' = 0 \/ (pc = "spot" /\ prev' = cur.size - cur.left)
  BY DEF Looks, SpotLate, CloseSpot, Close, Monitor, MonitorLoads, MonitorReads, MonitorSaves,
     Begin, Reading, Fault, venueVars, localVars, pastVars
<1>3. {file', loaded'} \subseteq {"none", "open", "closed"} /\ monitor' \in {"idle", "loaded", "read"}
  BY DEF Looks, SpotLate, CloseSpot, Close, Monitor, MonitorLoads, MonitorReads, MonitorSaves,
     Found, fileVars, CarryInv, TypeOK
<1>4. prev' \in 0 .. Q
  <2>1. cur.size \in Nat /\ cur.left \in Nat /\ cur.left <= cur.size /\ prev \in 0 .. Q
        /\ (pc = "spot" => cur.size = Q)
    BY DEF CarryInv, TypeOK, Course
  <2>2. CASE prev' = prev
    BY <2>1, <2>2
  <2>3. CASE prev' = 0
    BY <2>3, CarryBounds
  <2>4. CASE pc = "spot" /\ prev' = cur.size - cur.left
    <3> DEFINE size == cur.size  left == cur.left
    <3>1. /\ size \in Nat /\ left \in Nat /\ left <= size /\ size = Q
          /\ prev' = size - left
      BY <2>1, <2>4
    <3> HIDE DEF size, left
    <3>2. size - left \in 0 .. Q
      BY <3>1, CarryBounds
    <3> QED
      BY <3>1, <3>2
  <2> QED
    BY <1>2, <2>2, <2>3, <2>4
<1>5. TypeOK'
  <2>1. faults' \in 0 .. MaxFaults
    <3>1. faults' = faults \/ (faults < MaxFaults /\ faults' = faults + 1)
      BY <1>2
    <3> QED
      BY <3>1, CarryBounds DEF CarryInv, TypeOK
  <2>2. runs' \in 0 .. MaxRuns
    <3>1. runs' = runs \/ (runs < MaxRuns /\ runs' = runs + 1)
      BY <1>2
    <3> QED
      BY <3>1, CarryBounds DEF CarryInv, TypeOK
  <2>3. closed' \in BOOLEAN
    BY <1>1 DEF CarryInv, TypeOK
  <2>4. Free' = Free
    BY <1>1 DEF Free
  <2> QED
    BY <1>1, <1>3, <1>4, <2>1, <2>2, <2>3, <2>4 DEF CarryInv, TypeOK
<1>6. Course'
  BY <1>1 DEF CarryInv, Course, LegsAt
<1>7. Live' = Live /\ Free' = Free
  BY <1>1 DEF Live, Polled, Free
<1>8. OnlyReduces'
  BY <1>1, <1>7 DEF CarryInv, OnlyReduces
<1>9. Bounded'
  <2>1. BuyBound(pc') = BuyBound(pc) /\ (SellBound(pc') = SellBound(pc))
        /\ (pc' \in {"perp", "perp_again"} => pc \in {"perp", "perp_again"})
    BY <1>1 DEF BuyBound, SellBound
  <2> QED
    BY <1>1, <1>7, <2>1 DEF CarryInv, Bounded
<1>10. CleanCourse'
  <2>1. Clean' => Clean /\ pc' # "close_spot"
    BY <1>1, <1>2, CarryBounds DEF Clean, CarryInv, TypeOK, CleanCourse
  <2> QED
    BY <1>1, <1>7, <2>1 DEF CarryInv, CleanCourse
<1> QED
  BY <1>5, <1>6, <1>8, <1>9, <1>10 DEF CarryInv

\* An opening starts over an account without a position, an order or, unless the
\* balance could not be read, spot.
LEMMA OpenKeepsCarryInv ==
    ASSUME CarryInv, NEW read \in BOOLEAN, Open(read)
    PROVE  CarryInv'
<1> DEFINE order == [leg |-> "buy_spot", size |-> Q, left |-> Q]
<1>1. /\ UNCHANGED <<spot, pos, stale, prev, qty, ct, fileVars, deaths, nothingLeft, closed>>
      /\ pc = "idle" /\ pc' = "spot" /\ cur' = order
      /\ runs < MaxRuns /\ runs' = runs + 1
      /\ stale = NoStale /\ pos = 0 /\ SpotQty(read) <= 0
      /\ IF read THEN faults' = faults ELSE faults < MaxFaults /\ faults' = faults + 1
      /\ blind' = IF read THEN blind ELSE blind + 1
  BY DEF Open, Begin, Preflight, Reading, Fault, Goto, Order, venueVars
<1>2. cur.leg = "none" /\ cur.left = 0 /\ cur.left \in Nat
  BY <1>1 DEF CarryInv, Course, LegsAt, TypeOK
<1>3. Places(order)
  BY <1>1, <1>2, CarryBounds DEF Places, Legs
<1>4. RestTypes'
  <2>1. faults' \in 0 .. MaxFaults /\ runs' \in 0 .. MaxRuns /\ blind' \in Nat
    BY <1>1, CarryBounds DEF CarryInv, TypeOK
  <2> QED
    BY <1>1, <2>1 DEF CarryInv, TypeOK, RestTypes, fileVars
<1>5. TypeOK' /\ Course' /\ OnlyReduces'
  <2>1. order.leg \in LegsAt(pc') /\ order.size = Q /\ order.leg # "buy_perp"
    BY <1>1 DEF LegsAt
  <2> QED
    BY <1>3, <1>4, <2>1, PlacesKeep
<1>6. /\ Live["sell_spot"] = 0 /\ Live["buy_spot"] = 0 /\ Live["sell_perp"] = 0
  BY <1>1, <1>2 DEF Live, Polled, NoStale, Legs
<1>7. \A l \in Legs : Live'[l] = IF l = "buy_spot" THEN Live[l] + Q ELSE Live[l]
  BY <1>3, PlacesMore DEF CarryInv
<1>8. Bounded'
  <2> SUFFICES ASSUME blind' = 0 PROVE Bounded'
    BY DEF Bounded
  <2>1. read
    BY <1>1 DEF CarryInv, TypeOK
  <2>2. Free <= 0 /\ Free = spot - Live["sell_spot"] /\ Free \in Nat /\ spot \in Nat
    BY <1>1, <2>1, FreeIs DEF SpotQty, CarryInv, TypeOK
  <2>3. spot = 0
    BY <1>6, <2>2
  <2>4. spot' + Live'["buy_spot"] = Q /\ pos' + Live'["sell_perp"] = 0
    BY <1>1, <1>6, <1>7, <2>3, CarryBounds DEF Legs
  <2> QED
    BY <1>1, <2>4, CarryBounds DEF Bounded, BuyBound, SellBound
<1>9. CleanCourse'
  BY <1>1 DEF CleanCourse, NoStale, Legs
<1> QED
  BY <1>5, <1>8, <1>9 DEF CarryInv

\* The rest of the spot: at most the whole purchase again.
LEMMA BuyRestKeepsCarryInv ==
    ASSUME CarryInv, BuyRest
    PROVE  CarryInv'
<1> DEFINE order == [leg |-> "buy_spot", size |-> Q - prev, left |-> Q - prev]
<1>1. /\ UNCHANGED <<spot, pos, stale, qty, ct, fileVars, pastVars>>
      /\ pc = "rest" /\ pc' = "last_spot" /\ cur' = order /\ prev' = 0
  BY DEF BuyRest, Goto, Order, Rest, venueVars
<1>2. cur.leg = "none" /\ cur.left = 0 /\ prev \in 0 .. Q
  BY <1>1 DEF CarryInv, Course, LegsAt, TypeOK
<1>3. Q - prev \in Nat /\ Q - prev <= Q
  BY <1>2, CarryBounds
<1>4. Places(order)
  BY <1>1, <1>2, <1>3 DEF Places, Legs
<1>5. RestTypes'
  <2>1. 0 \in 0 .. Q
    BY CarryBounds
  <2> QED
    BY <1>1, <2>1 DEF CarryInv, TypeOK, RestTypes, fileVars, pastVars
<1>6. TypeOK' /\ Course' /\ OnlyReduces'
  <2>1. order.leg \in LegsAt(pc') /\ order.leg # "buy_perp"
    BY <1>1 DEF LegsAt
  <2> QED
    BY <1>1, <1>4, <1>5, <2>1, PlacesKeep
<1>7. \A l \in Legs : Live'[l] = IF l = "buy_spot" THEN Live[l] + (Q - prev) ELSE Live[l]
  BY <1>4, PlacesMore DEF CarryInv
<1>8. Bounded'
  <2> DEFINE n == Q - prev
  <2>1. Live'["buy_spot"] = Live["buy_spot"] + n /\ Live'["sell_perp"] = Live["sell_perp"]
    BY <1>7 DEF Legs
  <2>2. n \in Nat /\ n <= Q
    BY <1>3
  <2> HIDE DEF n
  <2>3. Live["buy_spot"] \in Nat /\ Live["sell_perp"] \in Nat /\ spot \in Nat /\ pos \in Int
    BY LiveType DEF CarryInv, TypeOK, Legs
  <2>4. blind = 0 => spot + Live["buy_spot"] <= Q /\ pos + Live["sell_perp"] <= 0
    BY <1>1 DEF CarryInv, Bounded, BuyBound, SellBound
  <2>5. blind = 0 => /\ spot' + Live'["buy_spot"] <= 2 * Q
                     /\ pos' + Live'["sell_perp"] <= 0
    BY <1>1, <2>1, <2>2, <2>3, <2>4, CarryBounds
  <2> QED
    BY <1>1, <2>5 DEF Bounded, BuyBound, SellBound, pastVars
<1>9. CleanCourse'
  BY <1>1 DEF CarryInv, CleanCourse, Clean, pastVars
<1> QED
  BY <1>6, <1>8, <1>9 DEF CarryInv

\* The second leg: for what is free of the spot, never more than an opening buys.
LEMMA HedgeKeepsCarryInv ==
    ASSUME CarryInv, NEW read \in BOOLEAN, Qty(read), ~(SpotQty(read) < MinSpot)
    PROVE  CarryInv'
<1> DEFINE order == [leg |-> "sell_perp", size |-> ct', left |-> ct']
<1>1. /\ UNCHANGED <<spot, pos, stale, prev, fileVars, runs, deaths, blind, nothingLeft, closed>>
      /\ pc = "qty" /\ pc' = "perp" /\ cur' = order
      /\ qty' = SpotQty(read) /\ ct' = Contracts(SpotQty(read))
      /\ IF read THEN faults' = faults ELSE faults < MaxFaults /\ faults' = faults + 1
  BY DEF Qty, Reading, Fault, Goto, Order
<1>2. cur.leg = "none" /\ cur.left = 0
  BY <1>1 DEF CarryInv, Course, LegsAt
<1>3. read
  BY CarryBounds DEF SpotQty
<1>4. /\ qty' = Free /\ ct' = Contracts(Free) /\ faults' = faults
  BY <1>1, <1>3 DEF SpotQty
<1>5. Free \in Nat /\ ct' \in Nat
  BY <1>4, FreeIs, ContractsOf DEF CarryInv
<1>6. Places(order)
  BY <1>1, <1>2, <1>5 DEF Places, Legs
<1>7. RestTypes'
  BY <1>1, <1>4, <1>5 DEF CarryInv, TypeOK, RestTypes, fileVars
<1>8. TypeOK' /\ Course' /\ OnlyReduces'
  <2>1. order.leg \in LegsAt(pc') /\ order.leg # "buy_perp" /\ pc' \notin {"spot", "cancel_spot"}
    BY <1>1 DEF LegsAt
  <2> QED
    BY <1>6, <1>7, <2>1, PlacesKeep
<1>9. \A l \in Legs : Live'[l] = IF l = "sell_perp" THEN Live[l] + ct' ELSE Live[l]
  BY <1>6, PlacesMore DEF CarryInv
<1>10. Bounded'
  <2> SUFFICES ASSUME blind = 0 PROVE Bounded'
    BY <1>1 DEF Bounded
  <2>1. /\ Live["buy_spot"] \in Nat /\ Live["sell_perp"] \in Nat /\ Live["sell_spot"] \in Nat
        /\ spot \in Nat /\ pos \in Int /\ 2 * Q \in Nat
    BY LiveType, CarryBounds DEF CarryInv, TypeOK, Legs
  <2>2. spot + Live["buy_spot"] <= 2 * Q /\ pos + Live["sell_perp"] <= 0
    BY <1>1 DEF CarryInv, Bounded, BuyBound, SellBound
  <2>3. Free <= 2 * Q
    BY <1>5, <2>1, <2>2, FreeIs DEF CarryInv
  <2>4. ct' <= Most
    BY <1>4, <1>5, <2>1, <2>3, ContractsMonotone DEF Most
  <2>5. Live'["buy_spot"] = Live["buy_spot"] /\ Live'["sell_perp"] = Live["sell_perp"] + ct'
    BY <1>9 DEF Legs
  <2>6. spot' + Live'["buy_spot"] <= 2 * Q /\ pos' + Live'["sell_perp"] <= Most
    BY <1>1, <1>5, <2>1, <2>2, <2>4, <2>5, MostType
  <2> QED
    BY <1>1, <2>4, <2>6 DEF Bounded, BuyBound, SellBound
<1>11. CleanCourse'
  <2>1. Free = spot - Live["sell_spot"] /\ spot \in Nat
    BY FreeIs DEF CarryInv, TypeOK
  <2>2. Live["sell_spot"] = stale["sell_spot"] + 0
    BY <1>2, LiveType DEF Polled, Legs, CarryInv
  <2>3. Clean' => Clean
    BY <1>1, <1>4 DEF Clean
  <2> QED
    BY <1>1, <1>4, <2>1, <2>2, <2>3 DEF CarryInv, CleanCourse
<1> QED
  BY <1>8, <1>10, <1>11 DEF CarryInv

\* The contracts are sold a second time.
LEMMA PerpAgainKeepsCarryInv ==
    ASSUME CarryInv, PerpAgain
    PROVE  CarryInv'
<1> DEFINE order == [leg |-> "sell_perp", size |-> ct, left |-> ct]
<1>1. /\ UNCHANGED <<spot, pos, stale, prev, qty, ct, fileVars, pastVars>>
      /\ pc = "perp_again" /\ pc' = "last_perp" /\ cur' = order
  BY DEF PerpAgain, Goto, Order, venueVars
<1>2. cur.leg = "none" /\ cur.left = 0 /\ ct \in Nat
  BY <1>1 DEF CarryInv, Course, LegsAt, TypeOK
<1>3. Places(order)
  BY <1>1, <1>2 DEF Places, Legs
<1>4. RestTypes'
  BY <1>1 DEF CarryInv, TypeOK, RestTypes, fileVars, pastVars
<1>5. TypeOK' /\ Course' /\ OnlyReduces'
  <2>1. order.leg \in LegsAt(pc') /\ order.leg # "buy_perp" /\ pc' \notin {"spot", "cancel_spot"}
    BY <1>1 DEF LegsAt
  <2> QED
    BY <1>3, <1>4, <2>1, PlacesKeep
<1>6. \A l \in Legs : Live'[l] = IF l = "sell_perp" THEN Live[l] + ct ELSE Live[l]
  BY <1>3, PlacesMore DEF CarryInv
<1>7. Bounded'
  <2>1. Live'["buy_spot"] = Live["buy_spot"] /\ Live'["sell_perp"] = Live["sell_perp"] + ct
    BY <1>6 DEF Legs
  <2>2. Live["sell_perp"] \in Nat /\ pos \in Int
    BY LiveType DEF CarryInv, TypeOK, Legs
  <2>3. blind = 0 => /\ spot + Live["buy_spot"] <= 2 * Q
                     /\ pos + Live["sell_perp"] <= Most /\ ct <= Most
    BY <1>1 DEF CarryInv, Bounded, BuyBound, SellBound
  <2>4. blind = 0 => /\ spot' + Live'["buy_spot"] <= 2 * Q
                     /\ pos' + Live'["sell_perp"] <= 2 * Most
    BY <1>1, <1>2, <2>1, <2>2, <2>3, MostType
  <2> QED
    BY <1>1, <2>4 DEF Bounded, BuyBound, SellBound, pastVars
<1>8. CleanCourse'
  BY <1>1 DEF CarryInv, CleanCourse, Clean, pastVars
<1> QED
  BY <1>5, <1>7, <1>8 DEF CarryInv

\* Without a position the spot is for sale again, all of it if nothing went wrong.
LEMMA NotHedgedKeepsCarryInv ==
    ASSUME CarryInv, NotHedged
    PROVE  CarryInv'
<1> DEFINE order == [leg |-> "sell_spot", size |-> qty, left |-> qty]
<1>1. /\ UNCHANGED <<spot, pos, stale, prev, qty, ct, fileVars, pastVars>>
      /\ pc = "position" /\ pc' = "unwind"
      /\ cur' = IF qty <= Free THEN order ELSE NoOrder
  BY DEF NotHedged, Goto, Order, Unwind, venueVars
<1>2. cur.leg = "none" /\ cur.left = 0 /\ qty \in Nat /\ Free \in Nat
      /\ spot \in Nat /\ stale["sell_spot"] \in Nat
  BY <1>1, FreeIs DEF CarryInv, Course, LegsAt, TypeOK, Legs
<1>3. RestTypes'
  BY <1>1 DEF CarryInv, TypeOK, RestTypes, fileVars, pastVars
<1>4. /\ "none" \in LegsAt(pc') /\ "sell_spot" \in LegsAt(pc')
      /\ pc' \notin {"spot", "cancel_spot", "perp", "perp_again"}
      /\ BuyBound(pc') = BuyBound(pc) /\ SellBound(pc') = SellBound(pc)
      /\ BuyBound(pc) = 2 * Q /\ SellBound(pc) = 2 * Most
  BY <1>1 DEF LegsAt, BuyBound, SellBound
<1>5. Clean => /\ stale["sell_spot"] = 0 /\ spot = qty /\ Free = spot - 0 - 0
               /\ \A l \in Legs \ {"sell_spot"} : stale[l] = 0
  BY <1>1, <1>2 DEF CarryInv, CleanCourse, Free
<1>6. CASE qty <= Free
  <2>1. cur' = order /\ order.leg = "sell_spot" /\ order.size = qty
    BY <1>1, <1>6
  <2>2. Places(order)
    BY <1>1, <1>2, <1>6, <2>1 DEF Places, Legs
  <2>3. TypeOK' /\ Course' /\ OnlyReduces'
    BY <1>3, <1>4, <2>1, <2>2, PlacesKeep
  <2>4. \A l \in Legs : Live'[l] = IF l = "sell_spot" THEN Live[l] + qty ELSE Live[l]
    BY <2>1, <2>2, PlacesMore DEF CarryInv
  <2>5. Bounded'
    <3>1. Live'["buy_spot"] = Live["buy_spot"] /\ Live'["sell_perp"] = Live["sell_perp"]
      BY <2>4 DEF Legs
    <3> QED
      BY <1>1, <1>4, <3>1 DEF CarryInv, Bounded, pastVars
  <2>6. CleanCourse'
    <3> SUFFICES ASSUME Clean PROVE CleanCourse'
      BY <1>1 DEF CleanCourse, Clean, pastVars
    <3>1. Free' = spot - stale["sell_spot"] - qty
      BY <1>1, <2>1 DEF Free
    <3>2. Free' = 0
      BY <1>2, <1>5, <3>1
    <3> QED
      BY <1>1, <1>5, <3>2 DEF CleanCourse
  <2> QED
    BY <2>3, <2>5, <2>6 DEF CarryInv
<1>7. CASE ~(qty <= Free)
  <2>1. Drops
    BY <1>1, <1>7 DEF Drops
  <2>2. TypeOK' /\ Course' /\ OnlyReduces' /\ Bounded'
    <3>1. BuyBound(pc) <= BuyBound(pc') /\ SellBound(pc) <= SellBound(pc')
      BY <1>4, MostType, CarryBounds
    <3>2. blind' = blind
      BY <1>1 DEF pastVars
    <3> QED
      BY <1>3, <1>4, <2>1, <3>1, <3>2, DropsKeep
  <2>3. ~Clean
    BY <1>2, <1>5, <1>7
  <2>4. CleanCourse'
    BY <1>1, <2>3 DEF CleanCourse, Clean, pastVars
  <2> QED
    BY <2>2, <2>4 DEF CarryInv
<1> QED
  BY <1>6, <1>7

\* A close buys back the position it has read.
LEMMA CloseKeepsCarryInv ==
    ASSUME CarryInv, Close, pos >= 1
    PROVE  CarryInv'
<1> DEFINE order == [leg |-> "buy_perp", size |-> pos, left |-> pos]
<1>1. /\ UNCHANGED <<spot, pos, stale, prev, qty, ct, fileVars, faults, deaths, blind, nothingLeft>>
      /\ pc = "idle" /\ pc' = "close_perp" /\ cur' = order
      /\ runs < MaxRuns /\ runs' = runs + 1 /\ closed' = TRUE
  BY DEF Close, Begin, Goto, Order, venueVars
<1>2. cur.leg = "none" /\ cur.left = 0 /\ pos \in Nat
  BY <1>1 DEF CarryInv, Course, LegsAt, TypeOK
<1>3. Places(order)
  BY <1>1, <1>2 DEF Places, Legs
<1>4. RestTypes'
  <2>1. runs' \in 0 .. MaxRuns /\ closed' \in BOOLEAN
    BY <1>1, CarryBounds DEF CarryInv, TypeOK
  <2> QED
    BY <1>1, <2>1 DEF CarryInv, TypeOK, RestTypes, fileVars
<1>5. TypeOK' /\ Course' /\ OnlyReduces'
  <2>1. order.leg \in LegsAt(pc') /\ pc' \notin {"spot", "cancel_spot"}
    BY <1>1 DEF LegsAt
  <2> QED
    BY <1>3, <1>4, <2>1, PlacesKeep
<1>6. \A l \in Legs : Live'[l] = IF l = "buy_perp" THEN Live[l] + pos ELSE Live[l]
  BY <1>3, PlacesMore DEF CarryInv
<1>7. Bounded'
  <2>1. Live'["buy_spot"] = Live["buy_spot"] /\ Live'["sell_perp"] = Live["sell_perp"]
    BY <1>6 DEF Legs
  <2> QED
    BY <1>1, <2>1 DEF CarryInv, Bounded, BuyBound, SellBound
<1>8. CleanCourse'
  BY <1>1 DEF CleanCourse, Clean
<1> QED
  BY <1>5, <1>7, <1>8 DEF CarryInv

\* A close sells the free spot it has read.
LEMMA CloseSpotKeepsCarryInv ==
    ASSUME CarryInv, NEW read \in BOOLEAN, CloseSpot(read), SpotQty(read) > 0
    PROVE  CarryInv'
<1> DEFINE order == [leg |-> "sell_spot", size |-> Free, left |-> Free]
<1>1. read
  BY DEF SpotQty
<1>2. /\ UNCHANGED <<spot, pos, stale, prev, qty, ct, fileVars, pastVars>>
      /\ pc = "close_spot" /\ pc' = "closing_spot" /\ cur' = order
  BY <1>1 DEF CloseSpot, Reading, SpotQty, Goto, Order, venueVars, pastVars
<1>3. cur.leg = "none" /\ cur.left = 0 /\ Free \in Nat
  BY <1>2, FreeIs DEF CarryInv, Course, LegsAt
<1>4. Places(order)
  BY <1>2, <1>3 DEF Places, Legs
<1>5. RestTypes'
  BY <1>2 DEF CarryInv, TypeOK, RestTypes, fileVars, pastVars
<1>6. TypeOK' /\ Course' /\ OnlyReduces'
  <2>1. order.leg \in LegsAt(pc') /\ order.leg # "buy_perp" /\ pc' \notin {"spot", "cancel_spot"}
    BY <1>2 DEF LegsAt
  <2> QED
    BY <1>4, <1>5, <2>1, PlacesKeep
<1>7. \A l \in Legs : Live'[l] = IF l = "sell_spot" THEN Live[l] + Free ELSE Live[l]
  BY <1>4, PlacesMore DEF CarryInv
<1>8. Bounded'
  <2>1. Live'["buy_spot"] = Live["buy_spot"] /\ Live'["sell_perp"] = Live["sell_perp"]
    BY <1>7 DEF Legs
  <2> QED
    BY <1>2, <2>1 DEF CarryInv, Bounded, BuyBound, SellBound, pastVars
<1>9. CleanCourse'
  BY <1>2 DEF CarryInv, CleanCourse, Clean, pastVars
<1> QED
  BY <1>6, <1>8, <1>9 DEF CarryInv

-----------------------------------------------------------------------------
(* The theorems                                                            *)

LEMMA InitCarryInv == Init => CarryInv
<1> SUFFICES ASSUME Init PROVE CarryInv
  OBVIOUS
<1>1. /\ spot = 0 /\ pos = 0 /\ pc = "idle" /\ cur = [leg |-> "none", size |-> 0, left |-> 0]
      /\ stale \in [Legs -> Nat] /\ \A l \in Legs : stale[l] = 0
  BY DEF Init, NoOrder, NoStale
<1>2. Free = 0 /\ \A l \in Legs : Live[l] = 0
  BY <1>1 DEF Free, Live, Polled, Legs
<1>3. TypeOK
  <2>1. OfferTypes
    BY <1>1, <1>2 DEF OfferTypes
  <2>2. {nothingLeft, closed} \subseteq BOOLEAN /\ {file, loaded} \subseteq {"none", "open", "closed"}
    BY DEF Init
  <2>3. RestTypes
    <3>1. 0 \in 0 .. Q /\ 0 \in 0 .. MaxRuns /\ 0 \in 0 .. MaxFaults /\ 0 \in 0 .. MaxDeaths
          /\ 0 \in Nat
      BY CarryBounds
    <3> QED
      BY <2>2, <3>1 DEF RestTypes, Init
  <2> QED
    BY <2>1, <2>3 DEF TypeOK, OfferTypes, RestTypes
<1>4. Course /\ OnlyReduces /\ Bounded /\ CleanCourse
  BY <1>1, <1>2, MostType, CarryBounds
     DEF Course, LegsAt, OnlyReduces, Bounded, BuyBound, SellBound, CleanCourse, Legs
<1> QED
  BY <1>3, <1>4 DEF CarryInv

LEMMA NextKeepsCarryInv == CarryInv /\ [Next]_vars => CarryInv'
<1> SUFFICES ASSUME CarryInv, [Next]_vars PROVE CarryInv'
  OBVIOUS
<1>1. CASE UNCHANGED vars
  <2>1. UNCHANGED <<spot, pos, stale, pc, cur, prev, qty, ct, file, monitor, loaded, runs,
                    faults, deaths, blind, nothingLeft, closed>>
    BY <1>1 DEF vars
  <2>2. Free' = Free /\ Live' = Live
    BY <2>1 DEF Free, Live, Polled
  <2> QED
    BY <2>1, <2>2 DEF CarryInv, TypeOK, Course, OnlyReduces, Bounded, CleanCourse, Clean
<1>2. CASE FillCurrent
  BY <1>2, FillCurrentFills, FillsKeepCarryInv DEF FillCurrent, CarryInv
<1>3. ASSUME NEW l \in Legs, FillStale(l) PROVE CarryInv'
  BY <1>3, FillStaleFills, FillsKeepCarryInv DEF FillStale, CarryInv
<1>4. CASE Monitor
  <2>1. Looks
    BY <1>4 DEF Looks, Monitor, MonitorLoads, MonitorReads, MonitorSaves, localVars, pastVars
  <2> QED
    BY <2>1, LooksKeepCarryInv
<1>5. ASSUME NEW ok \in BOOLEAN, SpotLate(ok) PROVE CarryInv'
  <2>1. Looks
    BY <1>5 DEF Looks, SpotLate
  <2> QED
    BY <2>1, LooksKeepCarryInv
<1>6. ASSUME NEW ok \in BOOLEAN, CloseSpot(ok) PROVE CarryInv'
  <2>1. CASE SpotQty(ok) > 0
    BY <1>6, <2>1, CloseSpotKeepsCarryInv
  <2>2. CASE ~(SpotQty(ok) > 0)
    <3>1. Looks
      BY <1>6, <2>2 DEF Looks, CloseSpot
    <3> QED
      BY <3>1, LooksKeepCarryInv
  <2> QED
    BY <2>1, <2>2
<1>7. CASE Close
  <2>1. CASE pos >= 1
    BY <1>7, <2>1, CloseKeepsCarryInv
  <2>2. CASE ~(pos >= 1)
    <3>1. Looks
      BY <1>7, <2>2 DEF Looks, Close
    <3> QED
      BY <3>1, LooksKeepCarryInv
  <2> QED
    BY <2>1, <2>2
<1>8. ASSUME NEW ok \in BOOLEAN, Qty(ok) PROVE CarryInv'
  <2>1. CASE SpotQty(ok) < MinSpot
    <3>1. EndStep
      BY <1>8, <2>1 DEF EndStep
    <3> QED
      BY <3>1, EndKeepsCarryInv
  <2>2. CASE ~(SpotQty(ok) < MinSpot)
    BY <1>8, <2>2, HedgeKeepsCarryInv
  <2> QED
    BY <2>1, <2>2
<1>9. CASE MidDrop
  BY <1>9, MidDropKeepsCarryInv
<1>10. CASE NothingToBuy \/ Hedged \/ Unwound \/ Record \/ Dies
  BY <1>10, EndKeepsCarryInv DEF EndStep
<1>11. ASSUME NEW ok \in BOOLEAN, Open(ok) PROVE CarryInv'
  BY <1>11, OpenKeepsCarryInv
<1>12. CASE BuyRest
  BY <1>12, BuyRestKeepsCarryInv
<1>13. CASE PerpAgain
  BY <1>13, PerpAgainKeepsCarryInv
<1>14. CASE NotHedged
  BY <1>14, NotHedgedKeepsCarryInv
<1>15. Script => CarryInv'
  BY <1>5, <1>6, <1>7, <1>8, <1>9, <1>10, <1>11, <1>12, <1>13, <1>14 DEF Script, MidDrop
<1> QED
  BY <1>1, <1>2, <1>3, <1>4, <1>15 DEF Next

LEMMA CarryInvHolds == Spec => []CarryInv
BY InitCarryInv, NextKeepsCarryInv, PTL DEF Spec

\* The variables keep their types, and no order offers spot that is not held: the code
\* sells what it reads as free (canary_carry.py, spot_qty, unwind and close).
THEOREM CarryTypes == Spec => []TypeOK
<1>1. CarryInv => TypeOK
  BY DEF CarryInv
<1> QED
  BY <1>1, CarryInvHolds, PTL

\* However many closes run over the orders that earlier ones left behind, they never
\* turn the short into a long position (canary_carry.py, close).
THEOREM CloseSafety == Spec => []NeverLong
<1>1. CarryInv => NeverLong
  BY DEF CarryInv, OnlyReduces, NeverLong
<1> QED
  BY <1>1, CarryInvHolds, PTL

\* For any size of the purchase and of a contract, what is held is twice one opening at
\* worst, as long as every preflight could read the balance (canary_carry.py, preflight).
THEOREM OpeningSafety == Spec => []OneOpeningAtATime
<1>1. CarryInv => OneOpeningAtATime
  <2> SUFFICES ASSUME CarryInv, blind = 0
               PROVE  spot <= 2 * Q /\ pos <= 2 * Most
    BY DEF OneOpeningAtATime, Most
  <2>1. Live["buy_spot"] \in Nat /\ Live["sell_perp"] \in Nat /\ spot \in Nat /\ pos \in Int
    BY LiveType DEF CarryInv, TypeOK, Legs
  <2>2. BuyBound(pc) <= 2 * Q /\ SellBound(pc) <= 2 * Most
        /\ BuyBound(pc) \in Nat /\ SellBound(pc) \in Nat /\ 2 * Q \in Nat /\ 2 * Most \in Nat
    BY MostType, CarryBounds DEF BuyBound, SellBound
  <2>3. spot + Live["buy_spot"] <= BuyBound(pc) /\ pos + Live["sell_perp"] <= SellBound(pc)
    BY DEF CarryInv, Bounded
  <2>4. spot <= BuyBound(pc) /\ pos <= SellBound(pc)
    BY <2>1, <2>2, <2>3
  <2> QED
    BY <2>1, <2>2, <2>4
<1> QED
  BY <1>1, CarryInvHolds, PTL

\* An opening either hedges the spot it has bought or sells it again, unless a read or a
\* cancellation failed, it ended at an exception, or it repriced an order that was full
\* (canary_carry.py, open).
THEOREM HedgeSafety == Spec => []NakedSpotHasCause
<1>1. CarryInv => NakedSpotHasCause
  <2> SUFFICES ASSUME CarryInv, pc = "idle", stale = NoStale, spot >= MinSpot, pos = 0, Clean
               PROVE  FALSE
    BY DEF NakedSpotHasCause, Clean, CarryInv, TypeOK
  <2>1. Free < MinSpot
    BY DEF CarryInv, CleanCourse
  <2>2. cur.leg = "none" /\ stale["sell_spot"] = 0
    BY DEF CarryInv, Course, LegsAt, NoStale, Legs
  <2>3. Free = spot - 0 - 0
    BY <2>2 DEF Free
  <2> QED
    BY <2>1, <2>3, CarryBounds DEF CarryInv, TypeOK
<1> QED
  BY <1>1, CarryInvHolds, PTL
=============================================================================
