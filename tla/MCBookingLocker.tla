-------------------------- MODULE MCBookingLocker --------------------------
(* Workloads and small instances of BookingLocker for TLC. *)
EXTENDS BookingLocker, TLC

CONSTANTS b1, b2, b3, b4, u1, u2, r1, r2, p1, p2, p3

Req(prop, mode, user, days, rooms, guests) ==
  [property |-> prop, mode |-> mode, user |-> user, days |-> days,
   rooms |-> rooms, guests |-> guests]

MCCapacity == [tahoe |-> 0, clear_lake |-> 4]
NoBlackout == [prop \in Property |-> {}]

\* Clear Lake, capacity 4: two parties that fit together on night 1, a third
\* party that does not, and a request to buy the place out.
LakeAsk ==
  b1 :> Req("clear_lake", "day", u1, {1}, {}, 2) @@
  b2 :> Req("clear_lake", "day", u2, {1}, {}, 2) @@
  b3 :> Req("clear_lake", "day", u1, {1}, {}, 1) @@
  b4 :> Req("clear_lake", "buyout", u2, {1}, {}, 4)

\* Tahoe: overlapping stays in two rooms.
RoomAsk ==
  b1 :> Req("tahoe", "room", u1, {1, 2}, {r1}, 2) @@
  b2 :> Req("tahoe", "room", u2, {2}, {r1, r2}, 2) @@
  b3 :> Req("tahoe", "room", u1, {1}, {r2}, 1)
\* One night, one room each.
SingleRoomAsk ==
  b1 :> Req("tahoe", "room", u1, {1}, {r1}, 2) @@
  b2 :> Req("tahoe", "room", u2, {1}, {r1}, 1) @@
  b3 :> Req("tahoe", "room", u1, {1}, {r2}, 1)
\* A room and a buyout of the same nights.
TahoeAsk ==
  b1 :> Req("tahoe", "room", u1, {1, 2}, {r1}, 2) @@
  b2 :> Req("tahoe", "buyout", u2, {2}, {}, 4)
\* Both cabins, every kind of booking.
BothCabinsAsk ==
  b1 :> Req("tahoe", "room", u1, {1, 2}, {r1}, 2) @@
  b2 :> Req("tahoe", "buyout", u2, {2}, {}, 4) @@
  b3 :> Req("clear_lake", "day", u1, {1, 2}, {}, 3) @@
  b4 :> Req("clear_lake", "day", u1, {2}, {}, 1)

Member == Lifecycle \ {"reconfirm"}

\* Two members book at the same time; one process at a time works on the
\* bookings that exist.
TwoCreators == (p1 :> Creation) @@ (p2 :> Creation) @@ (p3 :> Lifecycle \cup {"sweep"})
\* That one process includes the admin's refund form.
WithRefundForm ==
  (p1 :> Creation) @@ (p2 :> Creation) @@
  (p3 :> Lifecycle \cup {"sweep", "mark_refunded"})
TwoCreatorsOnce == (p1 :> Creation) @@ (p2 :> Creation) @@ (p3 :> Member \cup {"sweep"})
\* What the processes of the code really do: nothing keeps the checkout page
\* and the expiry worker off one booking.  No run uses it: put in LakeHolds for
\* WithRefundForm, it breaks every property of the run but TypeOK.
Unrestricted == (p1 :> Creation) @@ (p2 :> Member) @@ (p3 :> {"sweep"})
\* Admins book directly and delete bookings, beside the members.
WithAdmin ==
  (p1 :> Creation) @@
  (p2 :> {"admin", "delete", "confirm", "reconfirm", "release", "sweep"})
\* Everything one after the other.
OneProcess == p1 :> Creation \cup Member \cup {"sweep"}
=============================================================================
