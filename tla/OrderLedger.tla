----------------------------- MODULE OrderLedger -----------------------------
(***************************************************************************)
(* What a bot promises of its orders and of its journal, whatever fails:   *)
(* an order is placed once, with the size it keeps, fills up to it and     *)
(* ends; the journal records fills only, and an order at most once in a    *)
(* life of the process.  An order placed in the step that records a fill   *)
(* is the take-profit of that fill.                                        *)
(*                                                                         *)
(* It says nothing of the books, of the files, of what is read and of when *)
(* it fails.  BotTask implements it (BotTask!ImplementsLedger).            *)
(***************************************************************************)
EXTENDS Integers

CONSTANT Orders

VARIABLES
    stage, size, fills,     \* of each order, at the venue
    records,                \* of each order, in the journal
    lives                   \* of the process, so far

orders == <<stage, size, fills>>
vars == <<stage, size, fills, records, lives>>

Init ==
    /\ stage = [o \in Orders |-> "none"]
    /\ size = [o \in Orders |-> 0] /\ fills = [o \in Orders |-> 0]
    /\ records = [o \in Orders |-> 0]
    /\ lives = 1

Places(o) ==
    /\ stage[o] = "none"
    /\ size'[o] > 0
    /\ stage' = [stage EXCEPT ![o] = "open"]
    /\ size' = [size EXCEPT ![o] = size'[o]]
    /\ UNCHANGED fills

Fills(o) ==
    /\ stage[o] = "open"
    /\ fills[o] < fills'[o] /\ fills'[o] <= size[o]
    /\ fills' = [fills EXCEPT ![o] = fills'[o]]
    /\ stage' = IF fills'[o] = size[o] THEN [stage EXCEPT ![o] = "closed"] ELSE stage
    /\ UNCHANGED size

\* Cancellations, by the bot or the venue.
Ends(S) ==
    /\ \A o \in S : stage[o] = "open"
    /\ stage' = [o \in Orders |-> IF o \in S THEN "canceled" ELSE stage[o]]
    /\ UNCHANGED <<size, fills>>

Records(o) ==
    /\ fills[o] > 0 /\ records[o] < lives
    /\ records' = [records EXCEPT ![o] = records[o] + 1]

TakeProfit(o, n) == Places(n) /\ size'[n] = fills[o]

Trade ==
    /\ \/ \E o \in Orders : Places(o) \/ Fills(o)
       \/ \E S \in SUBSET Orders : Ends(S)
    /\ UNCHANGED <<records, lives>>

Report ==
    /\ \E o \in Orders :
         Records(o) /\ (UNCHANGED orders \/ \E n \in Orders : TakeProfit(o, n))
    /\ UNCHANGED lives

\* The process may die just after the venue has taken an order.
Restart ==
    /\ lives' = lives + 1
    /\ UNCHANGED orders \/ \E o, n \in Orders : fills[o] > 0 /\ TakeProfit(o, n)
    /\ UNCHANGED records

Next == Trade \/ Report \/ Restart

Spec == Init /\ [][Next]_vars
=============================================================================
