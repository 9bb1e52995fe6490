----------------------------- MODULE OneShotCall -----------------------------
(***************************************************************************)
(* What a bot may assume of create_limit_order, however the adapter        *)
(* retries: while the call of a placement is in hand the venue takes one   *)
(* order for it or none, in the name of the bot that called; once the call *)
(* has ended, or the process has died, it takes none.                      *)
(*                                                                         *)
(* It says nothing of keys, of attempts, of time and of the bucket.  That  *)
(* is the call as BotTask has it, one step with an outcome; ExchangeCalls  *)
(* implements it (ExchangeCalls!ImplementsOneShot).                        *)
(***************************************************************************)
EXTENDS Integers

CONSTANTS
    Callers,
    Tags            \* what tells two orders of a placement apart

VARIABLES
    inHand,         \* the placement of each caller, 0 if it has none
    taken,          \* orders at the venue
    begun           \* placements so far

vars == <<inHand, taken, begun>>

Init ==
    /\ inHand = [c \in Callers |-> 0]
    /\ taken = {}
    /\ begun = 0

Begin(c) ==
    /\ inHand[c] = 0
    /\ begun' = begun + 1
    /\ inHand' = [inHand EXCEPT ![c] = begun + 1]
    /\ UNCHANGED taken

TakeFirst(c) ==
    /\ inHand[c] # 0
    /\ \A o \in taken : o.placement # inHand[c]
    /\ \E n \in Tags :
         taken' = taken \cup {[bot |-> c, placement |-> inHand[c], attempt |-> n]}

End(c) == inHand' = [inHand EXCEPT ![c] = 0]

\* The answer arrives with the order, later, or never.
Answer(c) ==
    /\ TakeFirst(c) \/ UNCHANGED taken
    /\ End(c) \/ UNCHANGED inHand
    /\ UNCHANGED begun

\* One request may be on its way.
Die ==
    /\ inHand' = [c \in Callers |-> 0]
    /\ UNCHANGED taken \/ \E c \in Callers : TakeFirst(c)
    /\ UNCHANGED begun

Next == Die \/ \E c \in Callers : Begin(c) \/ Answer(c)

Spec == Init /\ [][Next]_vars
=============================================================================
