----------------------------- MODULE OnceLedger -----------------------------
(***************************************************************************)
(* What the ledger promises to everything that writes to it: a payment,    *)
(* refund or payout of Stripe is entered once, whoever reports it and how  *)
(* often, and a refund only after the payment it gives back.               *)
(***************************************************************************)
EXTENDS Naturals

CONSTANTS
  Payment, Refund, Payout,   \* external ids at Stripe
  PaidBy                     \* PaidBy[r]: the payment that refund r gives back

VARIABLE postings            \* postings[x]: the ledger transactions of x

Object == Payment \cup Refund \cup Payout

Init == postings = [x \in Object |-> 0]

Enter(x) ==
  /\ postings[x] = 0
  /\ x \in Refund => postings[PaidBy[x]] = 1
  /\ postings' = [postings EXCEPT ![x] = 1]

Next == \E x \in Object : Enter(x)

Spec == Init /\ [][Next]_postings
=============================================================================
