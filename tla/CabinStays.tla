----------------------------- MODULE CabinStays -----------------------------
(***************************************************************************)
(* What the club promises of its cabins, without inventory tables, locks,  *)
(* versions or processes: a stay is granted at one moment, when it clashes *)
(* with no stay that is granted and its guests find places on all of its   *)
(* nights; it is then paid for, released, given back or deleted, and never *)
(* comes back.                                                             *)
(***************************************************************************)
EXTENDS Naturals, FiniteSetsExt

CONSTANTS
  Booking,
  Clash,      \* the pairs of stays that exclude each other
  Party,      \* Party[b]: how many guests
  Shared,     \* Shared[b]: the nights on which they take places beside others
  Places      \* Places[n]: the places of a night

VARIABLE status

Live(b) == status[b] \in {"hold", "complete"}
Taken(n) == SumFunctionOnSet(Party, {b \in Booking : Live(b) /\ n \in Shared[b]})

Init == status = [b \in Booking |-> "none"]

Grant(b) ==
  /\ status[b] = "none"
  /\ \A a \in Booking : Live(a) => <<a, b>> \notin Clash
  /\ \A n \in Shared[b] : Taken(n) + Party[b] <= Places[n]
  /\ status' = [status EXCEPT ![b] = "hold"]

Pay(b) ==
  /\ status[b] = "hold"
  /\ status' = [status EXCEPT ![b] = "complete"]

\* A hold is released; a paid stay is given back, with or without the money.
GiveBack(b) ==
  \/ status[b] = "hold" /\ status' = [status EXCEPT ![b] = "canceled"]
  \/ status[b] = "complete" /\ \E s \in {"canceled", "refunded"} : status' = [status EXCEPT ![b] = s]

Delete(b) ==
  /\ status[b] # "none"
  /\ status' = [status EXCEPT ![b] = "deleted"]

Next == \E b \in Booking : Grant(b) \/ Pay(b) \/ GiveBack(b) \/ Delete(b)

Spec == Init /\ [][Next]_status
=============================================================================
