--------------------------- MODULE MCTicketSales ---------------------------
(* Small instances of TicketSales for TLC. *)
EXTENDS TicketSales, TLC

CONSTANTS o1, o2, o3, u1, u2, t1, gift

Buys(user, n, g, free) ==
  [user |-> user, sel |-> [t \in Tier |-> IF t = gift THEN g ELSE n], free |-> free]

\* Three checkouts for a tier of three places: two of the member who holds a
\* reservation, the second with a gift, and one of a member who holds none, free of
\* charge.
MCWant ==
  o1 :> Buys(u1, 2, 0, FALSE) @@
  o2 :> Buys(u2, 1, 0, TRUE) @@
  o3 :> Buys(u1, 2, 1, FALSE)
SalesWant == [o \in Order |-> MCWant[o]]

\* Quantity 0 means a tier without a limit.
MCQuantity == [t \in Tier |-> IF t = gift THEN 0 ELSE 3]
SmallQuantity == [t \in Tier |-> IF t = gift THEN 0 ELSE 2]

\* A reservation smaller than what its holder buys.
OneReserved == [r \in Resv |-> [user |-> u1, tier |-> t1, qty |-> 1]]
\* One that covers it.  No run uses it: put in Oversell with one order, Resv = {1} and
\* MaxSellers = 1, it violates NeverOversold without a race.
TwoReserved == [r \in Resv |-> [user |-> u1, tier |-> t1, qty |-> 2]]
=============================================================================
