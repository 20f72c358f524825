------------------------- MODULE TicketSalesProofs -------------------------
(***************************************************************************)
(* Theorems about the ticket sales of an event, for every set of orders,   *)
(* tiers and reservations, any number of checkouts at once and any         *)
(* environment: no theorem assumes Orderly.  What the code does not rule   *)
(* out, a confirmation that revives tickets which were given back, is the  *)
(* premise of the one theorem it would break, the last.                    *)
(***************************************************************************)
EXTENDS TicketSales, Sums

-----------------------------------------------------------------------------
(* The arithmetic of the model *)

LEMMA MaxWithZero ==
  ASSUME NEW n \in Int
  PROVE  Max({0, n}) = IF n >= 0 THEN n ELSE 0
  <1>1. \E x \in {0, n} : \A y \in {0, n} : x >= y
    <2>1. n >= 0 \/ n < 0
      OBVIOUS
    <2> QED
      BY <2>1
  <1>2. Max({0, n}) \in {0, n} /\ \A y \in {0, n} : Max({0, n}) >= y
    BY <1>1 DEF Max
  <1> QED
    BY <1>2

LEMMA MinOfTwo ==
  ASSUME NEW n \in Int, NEW m \in Int
  PROVE  Min({n, m}) = IF n <= m THEN n ELSE m
  <1>1. \E x \in {n, m} : \A y \in {n, m} : x <= y
    <2>1. n <= m \/ m <= n
      OBVIOUS
    <2> QED
      BY <2>1
  <1>2. Min({n, m}) \in {n, m} /\ \A y \in {n, m} : Min({n, m}) <= y
    BY <1>1 DEF Min
  <1> QED
    BY <1>2

LEMMA PlacesType ==
  ASSUME NEW R \in SUBSET Resv
  PROVE  Places(R) \in Nat
  <1> DEFINE f == [r \in Resv |-> Held[r].qty]
  <1>1. IsFiniteSet(R) /\ \A r \in R : f[r] \in Nat
    BY SalesAssumption, FS_Subset
  <1>2. SumFunctionOnSet(f, R) \in Nat
    <2> HIDE DEF f
    <2> QED
      BY <1>1, SumType
  <1> QED
    BY <1>2 DEF Places

LEMMA WantType ==
  ASSUME NEW o \in Order
  PROVE  /\ Want[o].user \in User
         /\ Want[o].sel \in [Tier -> Nat]
         /\ Selected(o) \subseteq Tier
  <1>1. Want[o] \in [user: User, sel: [Tier -> Nat], free: BOOLEAN]
    BY SalesAssumption
  <1> QED
    BY <1>1 DEF Selected

\* What create_tickets_atomic inserts for a tier is a number of tickets.  Where
\* the reserved places do not cover what was asked for, it is what was asked for.
LEMMA IssuedType ==
  ASSUME NEW o \in Order, NEW t \in Tier, NEW R \in SUBSET Resv
  PROVE  Issued(o, t, R) \in Nat
  <1> DEFINE places == Places({r \in R : Held[r].tier = t})
             asked  == IF t \in Donation THEN 1 ELSE Want[o].sel[t]
             rest   == Max({0, asked - places})
  <1>1. places \in Nat
    BY PlacesType
  <1>2. asked \in Nat
    BY WantType
  <1> HIDE DEF places, asked
  <1>3. rest \in Nat
    BY <1>1, <1>2, MaxWithZero
  <1> HIDE DEF rest
  <1>4. RangeLength(rest) \in Nat
    BY <1>3 DEF RangeLength
  <1>5. places + RangeLength(rest) \in Nat
    BY <1>1, <1>4
  <1>6. Issued(o, t, R) = IF t \notin Selected(o) THEN 0 ELSE places + RangeLength(rest)
    BY DEF Issued, places, asked, rest
  <1> QED
    BY <1>5, <1>6

LEMMA IssuedAsAsked ==
  ASSUME NEW o \in Order, NEW t \in Tier \ Donation, NEW R \in SUBSET Resv,
         t \in Selected(o) => Places({r \in R : Held[r].tier = t}) < Want[o].sel[t]
  PROVE  Issued(o, t, R) = IF t \in Selected(o) THEN Want[o].sel[t] ELSE 0
  <1> DEFINE places == Places({r \in R : Held[r].tier = t})
             asked  == Want[o].sel[t]
             rest   == Max({0, asked - places})
  <1>1. places \in Nat
    BY PlacesType
  <1>2. asked \in Nat
    BY WantType
  <1>3. t \in Selected(o) => places < asked
    OBVIOUS
  <1>4. Issued(o, t, R) = IF t \notin Selected(o) THEN 0 ELSE places + RangeLength(rest)
    BY DEF Issued
  <1>5. SUFFICES ASSUME t \in Selected(o)
                 PROVE  places + RangeLength(rest) = asked
    BY <1>4
  <1> HIDE DEF places, asked
  <1>6. rest = asked - places /\ rest > 0
    BY <1>1, <1>2, <1>3, <1>5, MaxWithZero
  <1> HIDE DEF rest
  <1> QED
    BY <1>1, <1>2, <1>6 DEF RangeLength

\* A refund of at most the live tickets of a row leaves the rest of them live.
LEMMA RefundedRow ==
  ASSUME NEW row \in Ticket, NEW n \in Nat, n <= row.pending + row.confirmed
  PROVE  /\ Refunded(row, n) \in Ticket
         /\ Refunded(row, n).pending + Refunded(row, n).confirmed
              = row.pending + row.confirmed - n
  <1> DEFINE c == Min({n, row.confirmed})
  <1>1. row.pending \in Nat /\ row.confirmed \in Nat /\ row.void \in Nat
    BY DEF Ticket
  <1>2. c = IF n <= row.confirmed THEN n ELSE row.confirmed
    BY <1>1, MinOfTwo
  <1>3. Refunded(row, n) = [pending |-> row.pending - (n - c), confirmed |-> row.confirmed - c,
                            void |-> row.void + n]
    BY DEF Refunded
  <1> HIDE DEF c
  <1>4. row.pending - (n - c) \in Nat /\ row.confirmed - c \in Nat /\ row.void + n \in Nat
    BY <1>1, <1>2
  <1> QED
    BY <1>1, <1>2, <1>3, <1>4 DEF Ticket

LEMMA TakenIsOwn ==
  ASSUME NEW o \in Order
  PROVE  Taken(o) \subseteq {r \in Resv : resv[r] = "active" /\ Held[r].user = Want[o].user}
  <1>1. Taken(o) \subseteq ActiveOf(Want[o].user)
    BY DEF Taken
  <1> QED
    BY <1>1 DEF ActiveOf

-----------------------------------------------------------------------------
(* Types *)

\* The writers of ticket rows: the insert, the confirmation, the two ways in
\* which all tickets of an order are given back, and the refund.
TicketsMove ==
  \/ UNCHANGED tickets
  \/ \E o \in Order :
       \/ CommitOrder(o)
       \/ ConfirmTickets(o)
       \/ tickets' = Voided(o)
       \/ o \in recorded /\ \E t \in Tier : \E n \in 1 .. Live(o, t) : Refund(o, t, n)

LEMMA TicketsMoveSo ==
  ASSUME [Next]_vars
  PROVE  TicketsMove
  <1>1. ASSUME NEW o \in Order,
               \/ BeginCheckout(o) \/ ReadTiers(o) \/ ReadEvent(o) \/ ReadReservations(o)
               \/ RollBack(o) \/ CreateIntent(o) \/ SubmitPayment(o) \/ StripeSettles(o)
               \/ RecordPayment(o) \/ ConfirmFree(o) \/ CompleteOrder(o) \/ LoseCheckout(o)
               \/ ResumeCheckout(o) \/ ShowMyTickets(o) \/ TimePasses(o)
        PROVE  UNCHANGED tickets
    BY <1>1
    DEF BeginCheckout, ReadTiers, ReadEvent, ReadReservations, RollBack, CreateIntent,
        SubmitPayment, StripeSettles, RecordPayment, ConfirmFree, CompleteOrder, LoseCheckout,
        ResumeCheckout, ShowMyTickets, TimePasses
  <1>2. ASSUME NEW o \in Order,
               \/ CloseCheckout(o) \/ CancelListed(o) \/ AdminCancels(o)
               \/ CountdownEnds(o) \/ TimeoutJob(o) \/ SweepExpires(o)
        PROVE  tickets' = Voided(o)
    BY <1>2 DEF CloseCheckout, CancelListed, AdminCancels, CountdownEnds, TimeoutJob,
                SweepExpires, Cancel, Expire
  <1>3. ASSUME NEW o \in Order, RefundTickets(o)
        PROVE  o \in recorded /\ \E t \in Tier : \E n \in 1 .. Live(o, t) : Refund(o, t, n)
    BY <1>3 DEF RefundTickets
  <1>4. CASE SweepReads \/ UNCHANGED vars \/ \E r \in Resv : Reserve(r) \/ CancelReservation(r)
    BY <1>4 DEF SweepReads, Reserve, CancelReservation, vars, TicketsMove
  <1>5. CASE \E o \in Order : Works(o) \/ Acts(o) \/ TimePasses(o) \/ TimeoutJob(o)
                                \/ SweepExpires(o)
    BY <1>1, <1>2, <1>3, <1>5 DEF Works, Acts, TicketsMove
  <1> QED
    BY <1>4, <1>5 DEF Next

\* What the rows of an order are after each of them.
LEMMA CommittedRows ==
  ASSUME TypeOK, NEW o \in Order, CommitOrder(o)
  PROVE  /\ tickets' \in [Order -> [Tier -> Ticket]]
         /\ \A p \in Order \ {o} : tickets'[p] = tickets[p]
         /\ \A t \in Tier : /\ Live(o, t)' = Issued(o, t, found[o])
                            /\ tickets'[o][t].void = 0
  <1> DEFINE row(t) == [pending |-> Issued(o, t, found[o]), confirmed |-> 0, void |-> 0]
  <1>1. \A t \in Tier : Issued(o, t, found[o]) \in Nat
    BY IssuedType DEF TypeOK
  <1>2. \A t \in Tier : row(t) \in Ticket
    BY <1>1 DEF Ticket
  <1>3. tickets' = [tickets EXCEPT ![o] = [t \in Tier |-> row(t)]]
    BY DEF CommitOrder
  <1>4. \A t \in Tier : tickets'[o][t] = row(t)
    BY <1>3 DEF TypeOK
  <1>5. \A t \in Tier :
          row(t).pending + row(t).confirmed = Issued(o, t, found[o]) /\ row(t).void = 0
    BY <1>1
  <1> HIDE DEF row
  <1>6. /\ tickets' \in [Order -> [Tier -> Ticket]]
        /\ \A p \in Order \ {o} : tickets'[p] = tickets[p]
    BY <1>2, <1>3 DEF TypeOK
  <1> QED
    BY <1>4, <1>5, <1>6 DEF Live

LEMMA ConfirmedRows ==
  ASSUME TypeOK, NEW o \in Order, ConfirmTickets(o)
  PROVE  /\ tickets' \in [Order -> [Tier -> Ticket]]
         /\ \A p \in Order \ {o} : tickets'[p] = tickets[p]
         /\ \A t \in Tier : /\ Live(o, t)' = Live(o, t) + tickets[o][t].void
                            /\ tickets'[o][t].void = 0
  <1> DEFINE all(t) == tickets[o][t].pending + tickets[o][t].confirmed + tickets[o][t].void
             row(t) == [pending |-> 0, void |-> 0, confirmed |-> all(t)]
  <1>1. \A t \in Tier : tickets[o][t] \in Ticket
    BY DEF TypeOK
  <1>2. \A t \in Tier : all(t) \in Nat /\ row(t) \in Ticket
    BY <1>1 DEF Ticket
  <1>3. tickets' = [tickets EXCEPT ![o] = [t \in Tier |-> row(t)]]
    BY DEF ConfirmTickets
  <1>4. \A t \in Tier : tickets'[o][t] = row(t)
    BY <1>3 DEF TypeOK
  <1>5. \A t \in Tier : /\ row(t).pending + row(t).confirmed = Live(o, t) + tickets[o][t].void
                        /\ row(t).void = 0
    <2> TAKE t \in Tier
    <2>1. /\ tickets[o][t].pending \in Nat /\ tickets[o][t].confirmed \in Nat
          /\ tickets[o][t].void \in Nat
      BY <1>1 DEF Ticket
    <2>2. row(t).pending = 0 /\ row(t).confirmed = all(t) /\ row(t).void = 0
      OBVIOUS
    <2> HIDE DEF row
    <2> QED
      BY <2>1, <2>2 DEF Live
  <1> HIDE DEF row
  <1>6. /\ tickets' \in [Order -> [Tier -> Ticket]]
        /\ \A p \in Order \ {o} : tickets'[p] = tickets[p]
    BY <1>2, <1>3 DEF TypeOK
  <1> QED
    BY <1>4, <1>5, <1>6 DEF Live

LEMMA VoidedRows ==
  ASSUME TypeOK, NEW o \in Order, tickets' = Voided(o)
  PROVE  /\ tickets' \in [Order -> [Tier -> Ticket]]
         /\ \A p \in Order \ {o} : tickets'[p] = tickets[p]
         /\ \A t \in Tier : Live(o, t)' = 0
  <1> DEFINE all(t) == tickets[o][t].pending + tickets[o][t].confirmed + tickets[o][t].void
             row(t) == [pending |-> 0, confirmed |-> 0, void |-> all(t)]
  <1>1. \A t \in Tier : tickets[o][t] \in Ticket
    BY DEF TypeOK
  <1>2. \A t \in Tier : all(t) \in Nat /\ row(t) \in Ticket
    BY <1>1 DEF Ticket
  <1>3. tickets' = [tickets EXCEPT ![o] = [t \in Tier |-> row(t)]]
    BY DEF Voided
  <1>4. \A t \in Tier : tickets'[o][t] = row(t)
    BY <1>3 DEF TypeOK
  <1>5. \A t \in Tier : row(t).pending + row(t).confirmed = 0
    OBVIOUS
  <1> HIDE DEF row
  <1>6. /\ tickets' \in [Order -> [Tier -> Ticket]]
        /\ \A p \in Order \ {o} : tickets'[p] = tickets[p]
    BY <1>2, <1>3 DEF TypeOK
  <1> QED
    BY <1>4, <1>5, <1>6 DEF Live

LEMMA RefundedRows ==
  ASSUME TypeOK, NEW o \in Order, NEW t \in Tier, NEW n \in 1 .. Live(o, t), Refund(o, t, n)
  PROVE  /\ tickets' \in [Order -> [Tier -> Ticket]]
         /\ \A p \in Order \ {o} : tickets'[p] = tickets[p]
         /\ Live(o, t)' = Live(o, t) - n
         /\ \A s \in Tier \ {t} : tickets'[o][s] = tickets[o][s]
  <1>1. tickets[o][t] \in Ticket
    BY DEF TypeOK
  <1>2. n \in Nat /\ n <= tickets[o][t].pending + tickets[o][t].confirmed
    BY <1>1 DEF Live, Ticket
  <1> DEFINE row == Refunded(tickets[o][t], n)
  <1>3. /\ row \in Ticket
        /\ row.pending + row.confirmed = tickets[o][t].pending + tickets[o][t].confirmed - n
    BY <1>1, <1>2, RefundedRow
  <1>4. tickets' = [tickets EXCEPT ![o][t] = row]
    BY DEF Refund
  <1> HIDE DEF row
  <1>5. /\ tickets' \in [Order -> [Tier -> Ticket]]
        /\ \A p \in Order \ {o} : tickets'[p] = tickets[p]
        /\ tickets'[o][t] = row
        /\ \A s \in Tier \ {t} : tickets'[o][s] = tickets[o][s]
    BY <1>3, <1>4 DEF TypeOK
  <1>6. Live(o, t)' = row.pending + row.confirmed
    BY <1>5 DEF Live
  <1>7. Live(o, t) = tickets[o][t].pending + tickets[o][t].confirmed
    BY DEF Live
  <1>8. Live(o, t)' = Live(o, t) - n
    BY <1>1, <1>2, <1>3, <1>6, <1>7 DEF Ticket
  <1> QED
    BY <1>5, <1>8

LEMMA TypeInit == Init => TypeOK
  BY DEF Init, TypeOK, NoTickets, Ticket, Steps, Ended

LEMMA TypeStep ==
  ASSUME TypeOK, [Next]_vars
  PROVE  TypeOK'
  <1>1. tickets' \in [Order -> [Tier -> Ticket]]
    <2>1. ASSUME UNCHANGED tickets
          PROVE  tickets' \in [Order -> [Tier -> Ticket]]
      BY <2>1 DEF TypeOK
    <2> QED
      BY <2>1, TicketsMoveSo, CommittedRows, ConfirmedRows, VoidedRows, RefundedRows
      DEF TicketsMove
  <1> USE DEF TypeOK, Steps, Ended
  <1>2. ASSUME NEW o \in Order,
               BeginCheckout(o) \/ ReadTiers(o) \/ ReadEvent(o) \/ RollBack(o)
                 \/ LoseCheckout(o) \/ ConfirmFree(o) \/ CompleteOrder(o) \/ RecordPayment(o)
        PROVE  TypeOK'
    BY <1>1, <1>2 DEF BeginCheckout, ReadTiers, ReadEvent, RollBack, LoseCheckout, ConfirmFree,
                      CompleteOrder, RecordPayment
  <1>3. ASSUME NEW o \in Order, ReadReservations(o)
        PROVE  TypeOK'
    BY <1>1, <1>3, TakenIsOwn DEF ReadReservations
  <1>4. ASSUME NEW o \in Order, CommitOrder(o) \/ ConfirmTickets(o)
        PROVE  TypeOK'
    <2>1. /\ \E c \in {"pending", order[o]} : order' = [order EXCEPT ![o] = c]
          /\ \E v \in {"open", "closed"} : view' = [view EXCEPT ![o] = v]
          /\ step' = [step EXCEPT ![o] = "idle"]
          /\ UNCHANGED <<found, intent, recorded, due, sweep, listed>>
      BY <1>4 DEF CommitOrder, ConfirmTickets
    <2>2. resv' \in [Resv -> {"none", "active", "fulfilled", "cancelled"}]
      BY <1>4 DEF CommitOrder, ConfirmTickets
    <2>3. /\ order' \in [Order -> {"none", "pending", "completed"} \cup Ended]
          /\ view' \in [Order -> {"open", "paying", "closed"}]
          /\ step' \in [Order -> Steps]
      BY <2>1
    <2> QED
      BY <1>1, <2>1, <2>2, <2>3
  <1>5. ASSUME NEW o \in Order,
               CreateIntent(o) \/ SubmitPayment(o) \/ StripeSettles(o) \/ ResumeCheckout(o)
                 \/ ShowMyTickets(o) \/ TimePasses(o)
        PROVE  TypeOK'
    <2>1. /\ UNCHANGED <<order, resv, step, found, recorded, sweep>>
          /\ \E i \in {"open", "processing", "succeeded", intent[o]} :
               intent' = [intent EXCEPT ![o] = i]
          /\ \E v \in {"open", "paying", view[o]} : view' = [view EXCEPT ![o] = v]
          /\ due' \subseteq due \cup {o} /\ listed' \subseteq listed \cup {o}
      BY <1>5 DEF CreateIntent, SubmitPayment, StripeSettles, ResumeCheckout, ShowMyTickets,
                  TimePasses
    <2>2. intent' \in [Order -> {"none", "open", "processing", "succeeded", "canceled"}]
      BY <2>1
    <2>3. view' \in [Order -> {"open", "paying", "closed"}]
      BY <2>1
    <2> QED
      BY <1>1, <2>1, <2>2, <2>3
  <1>6. ASSUME NEW o \in Order, CloseCheckout(o) \/ CancelListed(o) \/ AdminCancels(o)
        PROVE  TypeOK'
    BY <1>1, <1>6 DEF CloseCheckout, CancelListed, AdminCancels, Cancel
  <1>7. ASSUME NEW o \in Order, RefundTickets(o)
        PROVE  TypeOK'
    <2>1. /\ \E c \in {"cancelled", order[o]} : order' = [order EXCEPT ![o] = c]
          /\ UNCHANGED <<resv, step, found, view, intent, recorded, due, sweep, listed>>
      BY <1>7 DEF RefundTickets, Refund
    <2>2. order' \in [Order -> {"none", "pending", "completed"} \cup Ended]
      BY <2>1
    <2> QED
      BY <1>1, <2>1, <2>2
  <1>8. ASSUME NEW o \in Order, CountdownEnds(o) \/ TimeoutJob(o) \/ SweepExpires(o)
        PROVE  TypeOK'
    <2>1. /\ order' = [order EXCEPT ![o] = "expired"]
          /\ \E i \in {"canceled", intent[o]} : intent' = [intent EXCEPT ![o] = i]
          /\ \E v \in {"closed", view[o]} : view' = [view EXCEPT ![o] = v]
          /\ UNCHANGED <<resv, step, found, recorded, due, listed>>
          /\ sweep' \subseteq sweep
      BY <1>8 DEF CountdownEnds, TimeoutJob, SweepExpires, Expire
    <2>2. order' \in [Order -> {"none", "pending", "completed"} \cup Ended]
      BY <2>1
    <2>3. intent' \in [Order -> {"none", "open", "processing", "succeeded", "canceled"}]
      BY <2>1
    <2>4. view' \in [Order -> {"open", "paying", "closed"}]
      BY <2>1
    <2> QED
      BY <1>1, <2>1, <2>2, <2>3, <2>4
  <1>9. CASE SweepReads \/ \E r \in Resv : Reserve(r) \/ CancelReservation(r)
    BY <1>1, <1>9 DEF SweepReads, Reserve, CancelReservation
  <1>10. CASE UNCHANGED vars
    BY <1>10 DEF vars
  <1> QED
    BY <1>2, <1>3, <1>4, <1>5, <1>6, <1>7, <1>8, <1>9, <1>10 DEF Next, Works, Acts

\* Whatever the interleaving, the rows stay rows: in particular no ticket count
\* becomes negative when tickets are refunded.
THEOREM TypesHold == Spec => []TypeOK
  <1> QED
    BY TypeInit, TypeStep, PTL DEF Spec

-----------------------------------------------------------------------------
(* Completed orders are not expired *)

\* What is paid, shown, due or read by the sweep has been inserted.
Inserted == \A o \in recorded \cup listed \cup due \cup sweep : order[o] # "none"

\* A checkout has no page before its insert, a payment is processed by an open
\* page, and an open page that is doing nothing shows no completed order.
PageIsTrue ==
  \A o \in Order :
    /\ order[o] = "none" => view[o] = "closed"
    /\ o \in Selling => order[o] = "none"
    /\ step[o] \in {"complete", "confirm"} => view[o] # "closed"
    /\ view[o] # "closed" /\ step[o] = "idle" => order[o] # "completed"

PageInv == TypeOK /\ Inserted /\ PageIsTrue

LEMMA PageInit == Init => PageInv
  BY TypeInit DEF Init, PageInv, Inserted, PageIsTrue, Selling

LEMMA PageStep ==
  ASSUME PageInv, [Next]_vars
  PROVE  PageInv'
  <1>0. TypeOK /\ TypeOK'
    BY TypeStep DEF PageInv
  <1> USE <1>0 DEF PageInv, TypeOK, Inserted, PageIsTrue, Selling, Steps, Ended
  <1>1. ASSUME NEW o \in Order,
               BeginCheckout(o) \/ ReadTiers(o) \/ ReadEvent(o) \/ ReadReservations(o)
                 \/ RollBack(o)
        PROVE  PageInv'
    <2>1. /\ UNCHANGED <<order, view, recorded, due, sweep, listed>>
          /\ order[o] = "none"
          /\ \E s \in {"idle", "tiers", "event", "fulfil", "insert"} :
               step' = [step EXCEPT ![o] = s]
      BY <1>1 DEF BeginCheckout, ReadTiers, ReadEvent, ReadReservations, RollBack
    <2> QED
      BY <2>1
  <1>2. ASSUME NEW o \in Order, CommitOrder(o)
        PROVE  PageInv'
    <2>1. /\ order' = [order EXCEPT ![o] = "pending"]
          /\ step' = [step EXCEPT ![o] = "idle"]
          /\ view' = [view EXCEPT ![o] = "open"]
          /\ UNCHANGED <<recorded, due, sweep, listed>>
      BY <1>2 DEF CommitOrder
    <2> QED
      BY <2>1
  <1>3. ASSUME NEW o \in Order, CreateIntent(o) \/ SubmitPayment(o) \/ StripeSettles(o)
        PROVE  PageInv'
    <2>1. /\ UNCHANGED <<order, step, recorded, due, sweep, listed>>
          /\ \/ UNCHANGED view
             \/ view[o] # "closed" /\ \E v \in {"open", "paying"} : view' = [view EXCEPT ![o] = v]
      BY <1>3 DEF CreateIntent, SubmitPayment, StripeSettles
    <2> QED
      BY <2>1
  <1>4. ASSUME NEW o \in Order, RecordPayment(o) \/ ConfirmFree(o)
        PROVE  PageInv'
    <2>1. /\ UNCHANGED <<order, view, due, sweep, listed>>
          /\ view[o] # "closed" /\ recorded' \subseteq recorded \cup {o}
          /\ step' = [step EXCEPT ![o] = "complete"]
      BY <1>4 DEF RecordPayment, ConfirmFree
    <2> QED
      BY <2>1
  <1>5. ASSUME NEW o \in Order, CompleteOrder(o) \/ ConfirmTickets(o)
        PROVE  PageInv'
    <2>1. CASE CompleteOrder(o)
      BY <2>1 DEF CompleteOrder
    <2>2. CASE ConfirmTickets(o)
      <3>1. /\ UNCHANGED <<order, recorded, due, sweep, listed>>
            /\ step' = [step EXCEPT ![o] = "idle"] /\ view' = [view EXCEPT ![o] = "closed"]
        BY <2>2 DEF ConfirmTickets
      <3> QED
        BY <3>1
    <2> QED
      BY <1>5, <2>1, <2>2
  <1>6. ASSUME NEW o \in Order, CloseCheckout(o) \/ CountdownEnds(o)
        PROVE  PageInv'
    <2>1. /\ view[o] # "closed" /\ step[o] = "idle"
          /\ \E c \in Ended : order' = [order EXCEPT ![o] = c]
          /\ view' = [view EXCEPT ![o] = "closed"]
          /\ UNCHANGED <<step, recorded, due, sweep, listed>>
      BY <1>6 DEF CloseCheckout, CountdownEnds, Cancel, Expire
    <2> QED
      BY <2>1
  <1>7. ASSUME NEW o \in Order, CancelListed(o) \/ AdminCancels(o) \/ RefundTickets(o)
                 \/ TimeoutJob(o) \/ SweepExpires(o)
        PROVE  PageInv'
    <2>1. /\ order[o] # "none"
          /\ \E c \in Ended \cup {order[o]} : order' = [order EXCEPT ![o] = c]
          /\ UNCHANGED <<step, view, recorded, due>>
          /\ sweep' \subseteq sweep /\ listed' \subseteq listed
      <3>1. CASE RefundTickets(o)
        BY <3>1, Zenon DEF RefundTickets, Refund
      <3>2. CASE CancelListed(o) \/ AdminCancels(o)
        BY <3>2 DEF CancelListed, AdminCancels, Cancel
      <3>3. CASE TimeoutJob(o) \/ SweepExpires(o)
        BY <3>3 DEF TimeoutJob, SweepExpires, Expire
      <3> QED
        BY <1>7, <3>1, <3>2, <3>3
    <2> QED
      BY <2>1
  <1>8. ASSUME NEW o \in Order, LoseCheckout(o) \/ ResumeCheckout(o)
        PROVE  PageInv'
    BY <1>8 DEF LoseCheckout, ResumeCheckout
  <1>9. ASSUME NEW o \in Order, ShowMyTickets(o) \/ TimePasses(o)
        PROVE  PageInv'
    BY <1>9 DEF ShowMyTickets, TimePasses
  <1>10. CASE SweepReads \/ UNCHANGED vars \/ \E r \in Resv : Reserve(r) \/ CancelReservation(r)
    BY <1>10 DEF SweepReads, Reserve, CancelReservation, vars
  <1> QED
    BY <1>1, <1>2, <1>3, <1>4, <1>5, <1>6, <1>7, <1>8, <1>9, <1>10 DEF Next, Works, Acts

\* However late a payment is, whatever a second tab, an admin or a crash does to the
\* order meanwhile: the job scheduled for an order and the page's countdown expire
\* no completed order.  Only the cron job can, by expiring what it read before.
THEOREM CompletedNotExpired == Spec => PaidOrdersStay
  <1>1. PageInv /\ [Next]_vars =>
          [\A o \in Order : order[o] = "completed" /\ order'[o] = "expired" =>
             o \in sweep \ sweep']_vars
    <2> SUFFICES ASSUME PageInv, Next, ~UNCHANGED vars, NEW o \in Order,
                        order[o] = "completed", order'[o] = "expired",
                        o \notin sweep \ sweep'
                 PROVE  FALSE
      OBVIOUS
    <2>0. TypeOK /\ PageIsTrue
      BY DEF PageInv
    <2>1. ASSUME NEW q \in Order, CountdownEnds(q) \/ TimeoutJob(q)
          PROVE  order[q] # "completed" /\ order' = [order EXCEPT ![q] = "expired"]
      BY <2>0, <2>1 DEF PageIsTrue, CountdownEnds, TimeoutJob, Expire
    <2>8. ASSUME NEW q \in Order, SweepExpires(q)
          PROVE  q \in sweep \ sweep' /\ order' = [order EXCEPT ![q] = "expired"]
      BY <2>8 DEF SweepExpires, Expire
    <2>2. ASSUME NEW q \in Order, CountdownEnds(q) \/ TimeoutJob(q) \/ SweepExpires(q)
          PROVE  FALSE
      BY <2>0, <2>1, <2>2, <2>8 DEF TypeOK
    <2>3. ASSUME NEW q \in Order, NEW c \in {"pending", "completed", "cancelled", order[q]},
                 order' = [order EXCEPT ![q] = c]
          PROVE  FALSE
      BY <2>0, <2>3 DEF TypeOK
    <2>4. order' # order
      OBVIOUS
    <2>5. ASSUME NEW q \in Order,
                 CommitOrder(q) \/ CompleteOrder(q) \/ CloseCheckout(q) \/ CancelListed(q)
                   \/ AdminCancels(q) \/ RefundTickets(q)
          PROVE  FALSE
      <3>1. \E c \in {"pending", "completed", "cancelled", order[q]} :
              order' = [order EXCEPT ![q] = c]
        BY <2>5 DEF CommitOrder, CompleteOrder, CloseCheckout, CancelListed, AdminCancels,
                    RefundTickets, Refund, Cancel
      <3> QED
        BY <2>3, <3>1
    <2>6. ASSUME NEW q \in Order,
                 \/ BeginCheckout(q) \/ ReadTiers(q) \/ ReadEvent(q) \/ ReadReservations(q)
                 \/ RollBack(q) \/ CreateIntent(q) \/ SubmitPayment(q) \/ StripeSettles(q)
                 \/ RecordPayment(q) \/ ConfirmFree(q) \/ ConfirmTickets(q) \/ LoseCheckout(q)
                 \/ ResumeCheckout(q) \/ ShowMyTickets(q) \/ TimePasses(q)
          PROVE  FALSE
      BY <2>4, <2>6
      DEF BeginCheckout, ReadTiers, ReadEvent, ReadReservations, RollBack, CreateIntent,
          SubmitPayment, StripeSettles, RecordPayment, ConfirmFree, ConfirmTickets,
          LoseCheckout, ResumeCheckout, ShowMyTickets, TimePasses
    <2>7. CASE SweepReads \/ \E r \in Resv : Reserve(r) \/ CancelReservation(r)
      BY <2>4, <2>7 DEF SweepReads, Reserve, CancelReservation
    <2> QED
      BY <2>2, <2>5, <2>6, <2>7 DEF Next, Works, Acts
  <1>2. PageInv /\ [Next]_vars => PageInv'
    BY PageStep
  <1> QED
    BY <1>1, <1>2, PageInit, PTL DEF Spec, PaidOrdersStay

-----------------------------------------------------------------------------
(* Reservations are used up *)

\* What a checkout has read before its insert are reservations of its buyer.
FoundIsOwn ==
  \A o \in Order : step[o] = "insert" => \A r \in found[o] : Held[r].user = Want[o].user

ReservationInv == PageInv /\ FoundIsOwn /\ ReservationsUsedUp

LEMMA ReservationStep ==
  ASSUME ReservationInv, [Next]_vars
  PROVE  ReservationInv'
  <1>0. PageInv /\ PageInv'
    BY PageStep DEF ReservationInv
  <1> USE <1>0 DEF ReservationInv, PageInv, TypeOK, PageIsTrue, Inserted, FoundIsOwn,
                   ReservationsUsedUp, Selling, Steps, Ended
  <1>1. ASSUME UNCHANGED <<resv, found>>,
               \A q \in Order : /\ step'[q] = "insert" => step[q] = "insert"
                                /\ order'[q] # "none" => order[q] # "none"
        PROVE  ReservationInv'
    BY <1>1
  <1>2. ASSUME NEW o \in Order,
               \/ BeginCheckout(o) \/ ReadTiers(o) \/ ReadEvent(o) \/ RollBack(o)
               \/ RecordPayment(o) \/ ConfirmFree(o) \/ ConfirmTickets(o) \/ LoseCheckout(o)
        PROVE  ReservationInv'
    <2>1. /\ UNCHANGED <<order, resv, found>>
          /\ \E s \in Steps \ {"insert"} : step' = [step EXCEPT ![o] = s]
      BY <1>2 DEF BeginCheckout, ReadTiers, ReadEvent, RollBack, RecordPayment, ConfirmFree,
                  ConfirmTickets, LoseCheckout
    <2> QED
      BY <1>1, <2>1
  <1>3. ASSUME NEW o \in Order, ReadReservations(o)
        PROVE  ReservationInv'
    <2>1. /\ order[o] = "none" /\ UNCHANGED <<order, resv>>
          /\ step' = [step EXCEPT ![o] = "insert"]
          /\ found' = [found EXCEPT ![o] = Taken(o)]
      BY <1>3 DEF ReadReservations
    <2>2. \A r \in Taken(o) : resv[r] = "active" /\ Held[r].user = Want[o].user
      BY TakenIsOwn
    <2> QED
      BY <2>1, <2>2
  <1>4. ASSUME NEW o \in Order, CommitOrder(o)
        PROVE  ReservationInv'
    <2>1. /\ order' = [order EXCEPT ![o] = "pending"]
          /\ resv' = [r \in Resv |-> IF r \in found[o] THEN "fulfilled" ELSE resv[r]]
          /\ step' = [step EXCEPT ![o] = "idle"] /\ step[o] = "insert"
          /\ UNCHANGED found
      BY <1>4 DEF CommitOrder
    <2> QED
      BY <2>1
  <1>5. ASSUME NEW o \in Order, CompleteOrder(o)
        PROVE  ReservationInv'
    <2>1. /\ order[o] # "none" /\ UNCHANGED <<resv, found>>
          /\ step' = [step EXCEPT ![o] = "confirm"]
          /\ order' = [order EXCEPT ![o] = "completed"]
      BY <1>5 DEF CompleteOrder
    <2> QED
      BY <1>1, <2>1
  <1>6. ASSUME NEW o \in Order, CreateIntent(o) \/ SubmitPayment(o) \/ StripeSettles(o)
                 \/ TimePasses(o) \/ ShowMyTickets(o) \/ ResumeCheckout(o)
        PROVE  ReservationInv'
    BY <1>1, <1>6 DEF CreateIntent, SubmitPayment, StripeSettles, TimePasses, ShowMyTickets,
                      ResumeCheckout
  <1>7. ASSUME NEW o \in Order,
               \/ CloseCheckout(o) \/ CancelListed(o) \/ AdminCancels(o) \/ RefundTickets(o)
               \/ CountdownEnds(o) \/ TimeoutJob(o) \/ SweepExpires(o)
        PROVE  ReservationInv'
    <2>1. /\ order[o] # "none"
          /\ \E c \in Ended \cup {order[o]} : order' = [order EXCEPT ![o] = c]
          /\ UNCHANGED <<resv, found, step>>
      <3>1. CASE RefundTickets(o)
        BY <3>1, Zenon DEF RefundTickets, Refund
      <3>2. CASE CloseCheckout(o) \/ CancelListed(o) \/ AdminCancels(o)
        BY <3>2 DEF CloseCheckout, CancelListed, AdminCancels, Cancel
      <3>3. CASE CountdownEnds(o) \/ TimeoutJob(o) \/ SweepExpires(o)
        BY <3>3 DEF CountdownEnds, TimeoutJob, SweepExpires, Expire
      <3> QED
        BY <1>7, <3>1, <3>2, <3>3
    <2> QED
      BY <1>1, <2>1
  <1>8. ASSUME NEW r \in Resv, Reserve(r) \/ CancelReservation(r)
        PROVE  ReservationInv'
    <2>1. /\ resv[r] \in {"none", "active"}
          /\ \E c \in {"active", "cancelled"} : resv' = [resv EXCEPT ![r] = c]
          /\ UNCHANGED <<order, found, step>>
      BY <1>8 DEF Reserve, CancelReservation
    <2> QED
      BY <2>1
  <1>9. CASE SweepReads \/ UNCHANGED vars
    BY <1>1, <1>9 DEF SweepReads, vars
  <1> QED
    BY <1>2, <1>3, <1>4, <1>5, <1>6, <1>7, <1>8, <1>9 DEF Next, Works, Acts

\* However many checkouts run at once, and whatever an admin does to the reservations
\* during them: what an order was issued on was its buyer's, and stays used up.
THEOREM ReservationsStayUsed == Spec => []ReservationsUsedUp
  <1>1. Init => ReservationInv
    BY PageInit DEF Init, ReservationInv, FoundIsOwn, ReservationsUsedUp
  <1>2. ReservationInv /\ [Next]_vars => ReservationInv'
    BY ReservationStep
  <1>3. ReservationInv => ReservationsUsedUp
    BY DEF ReservationInv
  <1> QED
    BY <1>1, <1>2, <1>3, PTL DEF Spec

-----------------------------------------------------------------------------
(* Seats come back *)

LEMMA LiveType ==
  ASSUME TypeOK, NEW o \in Order, NEW t \in Tier
  PROVE  Live(o, t) \in Nat
  <1>1. tickets[o][t] \in Ticket
    BY DEF TypeOK
  <1> QED
    BY <1>1 DEF Live, Ticket

LEMMA LiveTypeNext ==
  ASSUME TypeOK', NEW o \in Order, NEW t \in Tier
  PROVE  Live(o, t)' \in Nat
  <1>1. tickets'[o][t] \in Ticket
    BY DEF TypeOK
  <1> QED
    BY <1>1 DEF Live, Ticket

\* A refund that covers all live tickets of the order was one of a tier that had
\* all of them.
LEMMA RefundOfAll ==
  ASSUME TypeOK, NEW o \in Order, NEW t \in Tier, NEW n \in 1 .. Live(o, t),
         SumFunction([s \in Tier |-> Live(o, s)]) = n
  PROVE  Live(o, t) = n /\ \A s \in Tier \ {t} : Live(o, s) = 0
  <1> DEFINE f == [s \in Tier |-> Live(o, s)]
             others == Tier \ {t}
             rest == SumFunctionOnSet(f, others)
  <1>1. IsFiniteSet(Tier) /\ IsFiniteSet(others)
    BY SalesAssumption, FS_RemoveElement
  <1>2. \A s \in Tier : f[s] \in Nat
    BY LiveType
  <1>3. SumFunctionOnSet(f, Tier) = n /\ f[t] = Live(o, t)
    BY DEF SumFunction
  <1> HIDE DEF f
  <1>4. SumFunctionOnSet(f, Tier) = f[t] + rest
    BY <1>1, <1>2, SumRemove
  <1>5. rest \in Nat
    BY <1>1, <1>2, SumType
  <1>6. rest = 0 /\ Live(o, t) = n
    BY <1>2, <1>3, <1>4, <1>5
  <1>7. ASSUME NEW s \in others
        PROVE  f[s] = 0
    <2>1. IsFiniteSet(others \ {s})
      BY <1>1, FS_RemoveElement
    <2>2. SumFunctionOnSet(f, others) = f[s] + SumFunctionOnSet(f, others \ {s})
      BY <1>1, <1>2, SumRemove
    <2>3. SumFunctionOnSet(f, others \ {s}) \in Nat
      BY <1>2, <2>1, SumType
    <2> QED
      BY <1>2, <1>6, <2>2, <2>3
  <1> QED
    BY <1>6, <1>7 DEF f

\* An ended order whose seats of a tier are not gone had them before, or its
\* confirmation was under way.
SeatKept(o, t) ==
  order'[o] \in Ended /\ Live(o, t)' > 0 =>
    order[o] \in Ended /\ (Live(o, t) > 0 \/ step[o] = "confirm")

LEMMA SeatsStep ==
  ASSUME TypeOK, [Next]_vars, NEW p \in Order, NEW s \in Tier
  PROVE  SeatKept(p, s)
  <1>0. TypeOK' /\ Live(p, s) \in Nat /\ Live(p, s)' \in Nat
    BY TypeStep, LiveType, LiveTypeNext
  <1>1. ASSUME order'[p] = order[p], tickets'[p] = tickets[p]
        PROVE  SeatKept(p, s)
    BY <1>1 DEF SeatKept, Live
  <1>2. ASSUME NEW o \in Order,
               \/ BeginCheckout(o) \/ ReadTiers(o) \/ ReadEvent(o) \/ ReadReservations(o)
               \/ RollBack(o) \/ CreateIntent(o) \/ SubmitPayment(o) \/ StripeSettles(o)
               \/ RecordPayment(o) \/ ConfirmFree(o) \/ LoseCheckout(o)
               \/ ResumeCheckout(o) \/ ShowMyTickets(o) \/ TimePasses(o)
        PROVE  SeatKept(p, s)
    <2>1. UNCHANGED <<order, tickets>>
      BY <1>2 DEF BeginCheckout, ReadTiers, ReadEvent, ReadReservations, RollBack, CreateIntent,
                  SubmitPayment, StripeSettles, RecordPayment, ConfirmFree, LoseCheckout,
                  ResumeCheckout, ShowMyTickets, TimePasses
    <2> QED
      BY <1>1, <2>1
  <1>3. ASSUME NEW o \in Order, CommitOrder(o)
        PROVE  SeatKept(p, s)
    <2>1. /\ order' = [order EXCEPT ![o] = "pending"]
          /\ \A q \in Order \ {o} : tickets'[q] = tickets[q]
      BY <1>0, <1>3, CommittedRows DEF CommitOrder
    <2> QED
      BY <1>1, <2>1 DEF TypeOK, Ended, SeatKept
  <1>4. ASSUME NEW o \in Order, CompleteOrder(o)
        PROVE  SeatKept(p, s)
    <2>1. order' = [order EXCEPT ![o] = "completed"] /\ UNCHANGED tickets
      BY <1>4 DEF CompleteOrder
    <2> QED
      BY <1>1, <2>1 DEF TypeOK, Ended, SeatKept
  <1>5. ASSUME NEW o \in Order, ConfirmTickets(o)
        PROVE  SeatKept(p, s)
    <2>1. /\ UNCHANGED order /\ step[o] = "confirm"
          /\ \A q \in Order \ {o} : tickets'[q] = tickets[q]
      BY <1>0, <1>5, ConfirmedRows DEF ConfirmTickets
    <2> QED
      BY <1>1, <2>1 DEF SeatKept
  <1>6. ASSUME NEW o \in Order,
               \/ CloseCheckout(o) \/ CancelListed(o) \/ AdminCancels(o)
               \/ CountdownEnds(o) \/ TimeoutJob(o) \/ SweepExpires(o)
        PROVE  SeatKept(p, s)
    <2>1. /\ tickets' = Voided(o)
          /\ \E c \in Ended : order' = [order EXCEPT ![o] = c]
      BY <1>6 DEF CloseCheckout, CancelListed, AdminCancels, CountdownEnds, TimeoutJob,
                  SweepExpires, Cancel, Expire, Ended
    <2>2. /\ \A q \in Order \ {o} : order'[q] = order[q] /\ tickets'[q] = tickets[q]
          /\ \A t \in Tier : Live(o, t)' = 0
      BY <1>0, <2>1, VoidedRows DEF TypeOK
    <2> QED
      BY <1>1, <2>2 DEF SeatKept
  <1>7. ASSUME NEW o \in Order, RefundTickets(o)
        PROVE  SeatKept(p, s)
    <2>0. PICK t \in Tier : \E n \in 1 .. Live(o, t) : Refund(o, t, n)
      BY <1>7 DEF RefundTickets
    <2>1. PICK n \in 1 .. Live(o, t) : Refund(o, t, n)
      BY <2>0
    <2>2. order' = [order EXCEPT ![o] =
                      IF SumFunction([q \in Tier |-> Live(o, q)]) = n THEN "cancelled"
                                                                     ELSE order[o]]
      BY <2>1 DEF Refund
    <2>3. /\ \A q \in Order \ {o} : tickets'[q] = tickets[q]
          /\ Live(o, t)' = Live(o, t) - n
          /\ \A q \in Tier \ {t} : Live(o, q)' = Live(o, q)
      BY <1>0, <2>1, RefundedRows DEF Live
    <2>4. /\ \A q \in Order \ {o} : order'[q] = order[q]
          /\ order'[o] \in {"cancelled", order[o]}
      BY <2>2 DEF TypeOK
    <2>5. CASE p # o
      BY <1>1, <2>3, <2>4, <2>5
    <2>6. CASE p = o /\ order[o] \in Ended
      <3>1. Live(o, s)' > 0 => Live(o, s) > 0
        BY <1>0, <2>1, <2>3, <2>6
      <3> QED
        BY <2>6, <3>1 DEF SeatKept
    <2>7. CASE p = o /\ order[o] \notin Ended
      <3>1. ASSUME order'[o] \in Ended
            PROVE  Live(o, s)' = 0
        <4>1. SumFunction([q \in Tier |-> Live(o, q)]) = n
          BY <2>2, <2>7, <3>1 DEF TypeOK
        <4>2. Live(o, t) = n /\ \A q \in Tier \ {t} : Live(o, q) = 0
          BY <2>1, <4>1, RefundOfAll
        <4>3. n - n = 0
          OBVIOUS
        <4> QED
          BY <2>3, <4>2, <4>3
      <3> QED
        BY <2>7, <3>1 DEF SeatKept
    <2> QED
      BY <2>5, <2>6, <2>7
  <1>8. CASE SweepReads \/ UNCHANGED vars \/ \E r \in Resv : Reserve(r) \/ CancelReservation(r)
    <2>1. UNCHANGED <<order, tickets>>
      BY <1>8 DEF SweepReads, Reserve, CancelReservation, vars
    <2> QED
      BY <1>1, <2>1
  <1> QED
    BY <1>2, <1>3, <1>4, <1>5, <1>6, <1>7, <1>8 DEF Next, Works, Acts

\* Whatever ends an order takes all its seats, also when it is paid late and when pages,
\* tabs, jobs and admins act on it in any order: only a confirmation that was under way
\* when the order ended gives seats to an ended order.
THEOREM EndsTakeTheSeats == Spec => EndsGiveSeatsBack
  <1>1. TypeOK /\ [Next]_vars =>
          [\A o \in Order, t \in Tier : order'[o] \in Ended /\ Live(o, t)' > 0 =>
             order[o] \in Ended /\ (Live(o, t) > 0 \/ step[o] = "confirm")]_vars
    BY SeatsStep DEF SeatKept
  <1> QED
    BY <1>1, TypesHold, PTL DEF Spec, EndsGiveSeatsBack

-----------------------------------------------------------------------------
(* How far a tier is oversold *)

\* The checkouts past the validation of the tiers, and what they will still take.
Cleared == {o \in Order : step[o] \in {"event", "fulfil", "insert"}}
Pledged(o, t) == IF o \in Cleared THEN Want[o].sel[t] ELSE 0
Booked(o, t) == Live(o, t) + Pledged(o, t)
BookedPlain(t) == SumFunctionOnSet([o \in Order |-> Booked(o, t)], Plain)

\* No order of a buyer without reservations is larger than that of o.
Largest(o, t) == \A p \in Plain : Want[p].sel[t] <= Want[o].sel[t]
Bound(o, t) == Quantity[t] + (MaxSellers - 1) * Want[o].sel[t]

BookedAtMost ==
  \A t \in Tier \ Donation, o \in Order :
    Quantity[t] # 0 /\ Largest(o, t) => BookedPlain(t) <= Bound(o, t)

\* The pool has no more transactions than connections, and a buyer for whom nothing
\* is reserved finds nothing.
InThePool ==
  /\ Cardinality(Selling) <= MaxSellers
  /\ \A o \in Plain : step[o] = "insert" => found[o] = {}

OversoldInv == TypeOK /\ InThePool /\ BookedAtMost

\* No confirmation brings back tickets that were given back.
NothingRevived == \A o \in Order : ConfirmTickets(o) => \A t \in Tier : tickets[o][t].void = 0

LEMMA PlainFinite ==
  /\ IsFiniteSet(Plain) /\ Plain \subseteq Order
  /\ Nat \in {Nat, Int} /\ Int \in {Nat, Int}
  BY SalesAssumption, FS_Subset DEF Plain

LEMMA SellingFinite ==
  ASSUME TypeOK
  PROVE  IsFiniteSet(Selling) /\ Cardinality(Selling) \in Nat
  BY SalesAssumption, FS_Subset, FS_CardinalityType DEF Selling

LEMMA BookedType ==
  ASSUME TypeOK, NEW o \in Order, NEW t \in Tier
  PROVE  /\ Live(o, t) \in Nat /\ Pledged(o, t) \in Nat /\ Booked(o, t) \in Nat
         /\ Pledged(o, t) <= Want[o].sel[t]
  <1>1. Live(o, t) \in Nat /\ Want[o].sel[t] \in Nat
    BY LiveType, WantType
  <1>2. Pledged(o, t) \in Nat /\ Pledged(o, t) <= Want[o].sel[t]
    BY <1>1 DEF Pledged
  <1> QED
    BY <1>1, <1>2 DEF Booked

LEMMA BookedTypeNext ==
  ASSUME TypeOK', NEW o \in Order, NEW t \in Tier
  PROVE  /\ Live(o, t)' \in Nat /\ Pledged(o, t)' \in Nat /\ Booked(o, t)' \in Nat
         /\ Pledged(o, t)' <= Want[o].sel[t]
  <1>1. Live(o, t)' \in Nat /\ Want[o].sel[t] \in Nat
    BY LiveTypeNext, WantType
  <1>2. Pledged(o, t)' \in Nat /\ Pledged(o, t)' <= Want[o].sel[t]
    BY <1>1 DEF Pledged
  <1> QED
    BY <1>1, <1>2 DEF Booked

LEMMA BoundType ==
  ASSUME NEW o \in Order, NEW t \in Tier
  PROVE  /\ Bound(o, t) \in Nat /\ Quantity[t] <= Bound(o, t)
         /\ (MaxSellers - 1) * Want[o].sel[t] \in Nat
  <1>1. Want[o].sel[t] \in Nat /\ Quantity[t] \in Nat /\ MaxSellers - 1 \in Nat
    BY WantType, SalesAssumption
  <1>2. (MaxSellers - 1) * Want[o].sel[t] \in Nat
    BY <1>1
  <1> QED
    BY <1>1, <1>2 DEF Bound

\* Seats are sold by the insert of an order only.
LEMMA LiveShrinks ==
  ASSUME TypeOK, NothingRevived, [Next]_vars, NEW o \in Order, ~CommitOrder(o), NEW t \in Tier
  PROVE  Live(o, t)' <= Live(o, t)
  <1>1. TypeOK /\ Live(o, t) \in Nat
    BY LiveType
  <1>2. CASE tickets'[o] = tickets[o]
    BY <1>1, <1>2 DEF Live
  <1>3. CASE ConfirmTickets(o)
    <2>1. tickets[o][t].void = 0
      BY <1>3 DEF NothingRevived
    <2>2. Live(o, t)' = Live(o, t) + 0
      BY <1>1, <1>3, <2>1, ConfirmedRows
    <2> QED
      BY <1>1, <2>2
  <1>4. CASE tickets' = Voided(o)
    <2>1. Live(o, t)' = 0
      BY <1>1, <1>4, VoidedRows
    <2> QED
      BY <1>1, <2>1
  <1>5. ASSUME NEW s \in Tier, NEW n \in 1 .. Live(o, s), Refund(o, s, n)
        PROVE  Live(o, t)' <= Live(o, t)
    <2>1. Live(o, s)' = Live(o, s) - n /\ \A z \in Tier \ {s} : tickets'[o][z] = tickets[o][z]
      BY <1>1, <1>5, RefundedRows
    <2>2. CASE s = t
      <3>1. n \in Int /\ n >= 1
        BY <1>1, <2>2
      <3> QED
        BY <1>1, <2>1, <2>2, <3>1
    <2>3. CASE s # t
      BY <1>1, <2>1, <2>3 DEF Live
    <2> QED
      BY <2>2, <2>3
  <1>6. ASSUME NEW p \in Order \ {o},
               \/ CommitOrder(p) \/ ConfirmTickets(p) \/ tickets' = Voided(p)
               \/ \E s \in Tier : \E n \in 1 .. Live(p, s) : Refund(p, s, n)
        PROVE  tickets'[o] = tickets[o]
    BY <1>1, <1>6, CommittedRows, ConfirmedRows, VoidedRows, RefundedRows
  <1> QED
    BY <1>2, <1>3, <1>4, <1>5, <1>6, TicketsMoveSo DEF TicketsMove

\* Only the validation of the tiers clears a checkout.
LEMMA ClearedBy ==
  ASSUME TypeOK, [Next]_vars, NEW o \in Order, ~ReadTiers(o), o \in Cleared'
  PROVE  o \in Cleared
  <1>1. ASSUME NEW q \in Order, NEW c \in {"tiers", "idle", "complete", "confirm"},
               step' = [step EXCEPT ![q] = c]
        PROVE  o \in Cleared
    BY <1>1 DEF TypeOK, Cleared
  <1>2. ASSUME NEW q \in Order,
               \/ BeginCheckout(q) \/ RollBack(q) \/ CommitOrder(q) \/ RecordPayment(q)
               \/ ConfirmFree(q) \/ CompleteOrder(q) \/ ConfirmTickets(q) \/ LoseCheckout(q)
        PROVE  o \in Cleared
    <2>1. \E c \in {"tiers", "idle", "complete", "confirm"} : step' = [step EXCEPT ![q] = c]
      BY <1>2 DEF BeginCheckout, RollBack, CommitOrder, RecordPayment, ConfirmFree,
                  CompleteOrder, ConfirmTickets, LoseCheckout
    <2> QED
      BY <1>1, <2>1
  <1>3. ASSUME NEW q \in Order, ReadTiers(q) \/ ReadEvent(q) \/ ReadReservations(q)
        PROVE  o \in Cleared
    BY <1>3 DEF ReadTiers, ReadEvent, ReadReservations, TypeOK, Cleared
  <1>4. ASSUME NEW q \in Order,
               \/ CreateIntent(q) \/ SubmitPayment(q) \/ StripeSettles(q) \/ ResumeCheckout(q)
               \/ ShowMyTickets(q) \/ TimePasses(q) \/ CloseCheckout(q) \/ CancelListed(q)
               \/ AdminCancels(q) \/ CountdownEnds(q) \/ TimeoutJob(q) \/ SweepExpires(q)
               \/ RefundTickets(q)
        PROVE  UNCHANGED step
    BY <1>4 DEF CreateIntent, SubmitPayment, StripeSettles, ResumeCheckout, ShowMyTickets,
                TimePasses, CloseCheckout, CancelListed, AdminCancels, CountdownEnds,
                TimeoutJob, SweepExpires, RefundTickets, Refund, Cancel, Expire
  <1>5. CASE SweepReads \/ UNCHANGED vars \/ \E r \in Resv : Reserve(r) \/ CancelReservation(r)
    BY <1>5 DEF SweepReads, Reserve, CancelReservation, vars, Cleared
  <1> QED
    BY <1>2, <1>3, <1>4, <1>5 DEF Next, Works, Acts, Cleared

\* The insert of a buyer without reservations takes what was pledged.
LEMMA CommitBooks ==
  ASSUME TypeOK, InThePool, NEW o \in Plain, CommitOrder(o), NEW t \in Tier \ Donation
  PROVE  Booked(o, t)' <= Booked(o, t)
  <1>1. o \in Order /\ step[o] = "insert" /\ found[o] = {} /\ step'[o] = "idle"
    BY DEF InThePool, CommitOrder, Plain, TypeOK
  <1>2. Want[o].sel[t] \in Nat /\ Live(o, t) \in Nat
    BY <1>1, WantType, LiveType
  <1>3. Live(o, t)' = Want[o].sel[t]
    <2>1. {r \in {} : Held[r].tier = t} = {} /\ Places({}) = 0 /\ {} \in SUBSET Resv
      BY SumEmpty DEF Places
    <2>2. t \in Selected(o) => Places({r \in {} : Held[r].tier = t}) < Want[o].sel[t]
      BY <2>1 DEF Selected
    <2>3. Issued(o, t, {}) = IF t \in Selected(o) THEN Want[o].sel[t] ELSE 0
      BY <1>1, <2>1, <2>2, IssuedAsAsked
    <2>4. t \notin Selected(o) => Want[o].sel[t] = 0
      BY <1>2 DEF Selected
    <2> QED
      BY <1>1, <2>3, <2>4, CommittedRows
  <1>4. Pledged(o, t)' = 0 /\ Pledged(o, t) = Want[o].sel[t]
    BY <1>1 DEF Pledged, Cleared
  <1> QED
    BY <1>2, <1>3, <1>4 DEF Booked

\* No other step but the validation of the tiers books anything.
LEMMA BookedShrinks ==
  ASSUME TypeOK, TypeOK', InThePool, NothingRevived, [Next]_vars, NEW o \in Plain, ~ReadTiers(o),
         NEW t \in Tier \ Donation
  PROVE  Booked(o, t)' <= Booked(o, t)
  <1>1. CASE CommitOrder(o)
    BY <1>1, CommitBooks
  <1>2. CASE ~CommitOrder(o)
    <2>1. o \in Order /\ Live(o, t)' <= Live(o, t)
      BY <1>2, LiveShrinks DEF Plain
    <2>2. Pledged(o, t)' <= Pledged(o, t)
      <3>1. Pledged(o, t)' \in Nat /\ Pledged(o, t) \in Nat /\ Want[o].sel[t] \in Nat
        BY <2>1, BookedType, BookedTypeNext, WantType
      <3> QED
        BY <2>1, <3>1, ClearedBy DEF Pledged
    <2>3. /\ Live(o, t)' \in Nat /\ Live(o, t) \in Nat
          /\ Pledged(o, t)' \in Nat /\ Pledged(o, t) \in Nat
      BY <2>1, BookedType, BookedTypeNext
    <2> QED
      BY <2>1, <2>2, <2>3 DEF Booked
  <1> QED
    BY <1>1, <1>2

\* A buyer without reservations is let through if all that is sold leaves room.
LEMMA ValidatedFits ==
  ASSUME TypeOK, NEW o \in Plain, TiersFit(o), NEW t \in Selected(o) \ Donation, Quantity[t] # 0
  PROVE  SoldPlain(t) + Want[o].sel[t] <= Quantity[t]
  <1> DEFINE f   == [q \in Order |-> Live(q, t)]
             sel == Want[o].sel[t]
             all == Places(Active(t))
             own == Places(Active(t) \cap ActiveOf(Want[o].user))
             n   == Quantity[t] - Sold(t) - all
  <1>1. o \in Order /\ t \in Tier /\ sel \in Nat /\ sel > 0 /\ Quantity[t] \in Nat
    <2>1. o \in Order
      BY DEF Plain
    <2> QED
      BY <2>1, WantType, SalesAssumption DEF Selected
  <1>2. all \in Nat
    BY PlacesType DEF Active
  <1>3. own = 0
    <2>1. Active(t) \cap ActiveOf(Want[o].user) = {}
      BY DEF Plain, ActiveOf
    <2> QED
      BY <2>1, SumEmpty DEF Places
  <1>4. sel <= Max({0, n}) + own
    BY <1>1 DEF TiersFit, OpenTo, Available
  <1>5. \A q \in Order : f[q] \in Nat
    BY <1>1, LiveType
  <1>6. Sold(t) = SumFunctionOnSet(f, Order) /\ SoldPlain(t) = SumFunctionOnSet(f, Plain)
    BY DEF Sold, SumFunction, SoldPlain
  <1> HIDE DEF f, sel, all, own
  <1>7. /\ SoldPlain(t) <= Sold(t) /\ SoldPlain(t) \in Nat /\ Sold(t) \in Nat
    <2>1. IsFiniteSet(Order)
      BY SalesAssumption
    <2>2. SumFunctionOnSet(f, Plain) <= SumFunctionOnSet(f, Order)
      BY <1>5, <2>1, PlainFinite, SumSubset
    <2>3. SumFunctionOnSet(f, Plain) \in Nat /\ SumFunctionOnSet(f, Order) \in Nat
      BY <1>5, <2>1, PlainFinite, SumType
    <2> QED
      BY <1>6, <2>2, <2>3
  <1>8. Max({0, n}) = IF n >= 0 THEN n ELSE 0
    BY <1>1, <1>2, <1>7, MaxWithZero
  <1>9. SoldPlain(t) + sel <= Quantity[t]
    BY <1>1, <1>2, <1>3, <1>4, <1>7, <1>8
  <1> QED
    BY <1>9 DEF sel

\* At that moment the others in flight have pledged at most one largest order each.
LEMMA ClearedFits ==
  ASSUME TypeOK, TypeOK', InThePool, NEW p \in Plain, ReadTiers(p),
         NEW t \in Selected(p) \ Donation, p \in Cleared', Quantity[t] # 0,
         NEW o \in Order, Largest(o, t)
  PROVE  BookedPlain(t)' <= Bound(o, t)
  <1> DEFINE f == [q \in Order |-> Live(q, t)]
             g == [q \in Order |-> Pledged(q, t)']
             h == [q \in Order |-> Booked(q, t)']
             T == Plain \cap Cleared'
             R == T \ {p}
             m == Want[o].sel[t]
  <1>1. /\ p \in Order /\ t \in Tier /\ step[p] = "tiers" /\ UNCHANGED tickets /\ TiersFit(p)
        /\ step' = [step EXCEPT ![p] = "event"]
    BY DEF ReadTiers, Plain, TypeOK, Selected, Cleared
  <1>2. Cleared' \ {p} \subseteq Selling \ {p} /\ p \in Selling
    BY <1>1 DEF Cleared, Selling, TypeOK
  <1>3. IsFiniteSet(R) /\ Cardinality(R) \in Nat /\ Cardinality(R) <= MaxSellers - 1
    <2>1. /\ IsFiniteSet(Selling \ {p})
          /\ Cardinality(Selling \ {p}) = Cardinality(Selling) - 1
      BY <1>2, SellingFinite, FS_RemoveElement
    <2>2. R \subseteq Selling \ {p}
      BY <1>2
    <2>3. /\ IsFiniteSet(R) /\ Cardinality(R) <= Cardinality(Selling \ {p})
          /\ Cardinality(R) \in Nat
      BY <2>1, <2>2, FS_Subset, FS_CardinalityType
    <2> QED
      BY <2>1, <2>3, SellingFinite, SalesAssumption DEF InThePool
  <1>4. \A q \in Order : f[q] \in Nat /\ g[q] \in Nat /\ h[q] \in Nat /\ h[q] = f[q] + g[q]
    <2> TAKE q \in Order
    <2>1. Live(q, t)' = Live(q, t)
      BY <1>1 DEF Live
    <2> QED
      BY <1>1, <2>1, BookedTypeNext DEF Booked
  <1>5. \A q \in Plain \ T : g[q] = 0
    BY PlainFinite DEF Pledged
  <1>6. g[p] = Want[p].sel[t] /\ g[p] \in Nat /\ p \in T
    BY <1>1, <1>4 DEF Pledged
  <1>7. \A q \in R : g[q] \in Nat /\ g[q] <= m
    <2> TAKE q \in R
    <2>1. q \in Plain /\ q \in Order
      BY DEF Plain
    <2>2. g[q] <= Want[q].sel[t] /\ g[q] \in Nat
      BY <1>1, <2>1, BookedTypeNext
    <2>3. Want[q].sel[t] <= m /\ Want[q].sel[t] \in Nat /\ m \in Nat
      BY <1>1, <2>1, WantType DEF Largest
    <2> HIDE DEF g, m
    <2> QED
      BY <2>2, <2>3
  <1>8. m \in Nat /\ Quantity[t] \in Nat /\ MaxSellers - 1 \in Nat
    BY <1>1, WantType, SalesAssumption
  <1>9. SoldPlain(t) + g[p] <= Quantity[t]
    BY <1>1, <1>6, ValidatedFits
  <1>10. BookedPlain(t)' = SumFunctionOnSet(h, Plain) /\ SoldPlain(t) = SumFunctionOnSet(f, Plain)
    BY DEF BookedPlain, SoldPlain, Plain
  <1> HIDE DEF f, g, h, m
  <1>11. SumFunctionOnSet(h, Plain) <= SumFunctionOnSet(f, Plain) + SumFunctionOnSet(g, T)
    <2>1. /\ \A q \in Plain : f[q] \in Int /\ h[q] \in Int
          /\ \A q \in T : g[q] \in Int /\ h[q] <= f[q] + g[q]
          /\ \A q \in Plain \ T : h[q] <= f[q]
      BY <1>4, <1>5, PlainFinite
    <2> QED
      BY <2>1, PlainFinite, SumGrows
  <1>12. SumFunctionOnSet(g, T) = g[p] + SumFunctionOnSet(g, R)
    <2>1. IsFiniteSet(T) /\ \A q \in T : g[q] \in Int
      BY <1>4, PlainFinite, FS_Subset
    <2> QED
      BY <1>6, <2>1, SumRemove
  <1>13. SumFunctionOnSet(g, R) <= (MaxSellers - 1) * m
    <2>1. SumFunctionOnSet(g, R) <= Cardinality(R) * m
      BY <1>3, <1>7, <1>8, SumBounded
    <2>2. Cardinality(R) * m <= (MaxSellers - 1) * m
      <3> DEFINE c == Cardinality(R)
                 d == MaxSellers - 1
      <3>1. c \in Nat /\ d \in Nat /\ c <= d /\ m \in Nat
        BY <1>3, <1>8
      <3> HIDE DEF c, d
      <3>2. (d - c) * m \in Nat /\ d * m = c * m + (d - c) * m /\ c * m \in Nat
        BY <3>1
      <3>3. c * m <= d * m
        BY <3>2
      <3> QED
        BY <3>3 DEF c, d
    <2>3. /\ SumFunctionOnSet(g, R) \in Nat /\ Cardinality(R) * m \in Nat
          /\ (MaxSellers - 1) * m \in Nat
      BY <1>3, <1>7, <1>8, PlainFinite, SumType
    <2> QED
      BY <2>1, <2>2, <2>3
  <1>14. /\ SumFunctionOnSet(h, Plain) \in Nat /\ SumFunctionOnSet(f, Plain) \in Nat
         /\ SumFunctionOnSet(g, R) \in Nat /\ (MaxSellers - 1) * m \in Nat
    BY <1>3, <1>4, <1>7, <1>8, PlainFinite, SumType
  <1>15. SumFunctionOnSet(h, Plain) <= Quantity[t] + (MaxSellers - 1) * m
    BY <1>6, <1>8, <1>9, <1>10, <1>11, <1>12, <1>13, <1>14
  <1> QED
    BY <1>10, <1>15 DEF Bound, m

LEMMA BookedStep ==
  ASSUME OversoldInv, TypeOK', NothingRevived, [Next]_vars
  PROVE  BookedAtMost'
  <1>0. TypeOK /\ InThePool /\ BookedAtMost
    BY DEF OversoldInv
  <1> SUFFICES ASSUME NEW t \in Tier \ Donation, NEW o \in Order, Quantity[t] # 0, Largest(o, t)
               PROVE  BookedPlain(t)' <= Bound(o, t)
    BY DEF BookedAtMost, Largest, Bound, Plain
  <1> DEFINE f == [q \in Order |-> Booked(q, t)]
             g == [q \in Order |-> Booked(q, t)']
  <1>1. ASSUME \A q \in Plain : Booked(q, t)' <= Booked(q, t)
        PROVE  BookedPlain(t)' <= Bound(o, t)
    <2>1. \A q \in Plain : g[q] \in Nat /\ f[q] \in Nat /\ g[q] <= f[q]
      BY <1>0, <1>1, PlainFinite, BookedType, BookedTypeNext
    <2>2. BookedPlain(t)' = SumFunctionOnSet(g, Plain) /\ BookedPlain(t) = SumFunctionOnSet(f, Plain)
      BY DEF BookedPlain, Plain
    <2>3. BookedPlain(t) <= Bound(o, t) /\ Bound(o, t) \in Nat
      BY <1>0, BoundType DEF BookedAtMost
    <2> HIDE DEF f, g
    <2>4. SumFunctionOnSet(g, Plain) <= SumFunctionOnSet(f, Plain)
      BY <2>1, PlainFinite, SumAtMost
    <2>5. SumFunctionOnSet(g, Plain) \in Nat /\ SumFunctionOnSet(f, Plain) \in Nat
      BY <2>1, PlainFinite, SumType
    <2> QED
      BY <2>2, <2>3, <2>4, <2>5
  <1>2. ASSUME NEW p \in Plain, ReadTiers(p), t \in Selected(p), p \in Cleared'
        PROVE  BookedPlain(t)' <= Bound(o, t)
    BY <1>0, <1>2, ClearedFits
  <1>3. ASSUME NEW p \in Plain, ReadTiers(p), t \notin Selected(p) \/ p \notin Cleared'
        PROVE  Booked(p, t)' <= Booked(p, t)
    <2>1. p \in Order /\ Live(p, t) \in Nat /\ Pledged(p, t) \in Nat
      BY <1>0, PlainFinite, BookedType
    <2>2. Live(p, t)' = Live(p, t)
      BY <1>3 DEF ReadTiers, Live
    <2>3. Pledged(p, t)' = 0
      <3>1. t \notin Selected(p) => Want[p].sel[t] = 0
        <4>1. Want[p].sel[t] \in Nat
          BY <2>1, WantType
        <4> QED
          BY <4>1 DEF Selected
      <3> QED
        BY <1>3, <3>1 DEF Pledged
    <2> QED
      BY <2>1, <2>2, <2>3 DEF Booked
  <1>4. CASE \E p \in Plain : ReadTiers(p) /\ t \in Selected(p) /\ p \in Cleared'
    BY <1>2, <1>4
  <1>5. CASE \A p \in Plain : ~ReadTiers(p) \/ t \notin Selected(p) \/ p \notin Cleared'
    <2>1. \A q \in Plain : Booked(q, t)' <= Booked(q, t)
      BY <1>0, <1>3, <1>5, BookedShrinks
    <2> QED
      BY <1>1, <2>1
  <1> QED
    BY <1>4, <1>5

\* A checkout begins only if a connection is free.
LEMMA PoolStep ==
  ASSUME TypeOK, InThePool, [Next]_vars
  PROVE  InThePool'
  <1>0. TypeOK' /\ IsFiniteSet(Selling) /\ Cardinality(Selling) \in Nat /\ MaxSellers \in Nat
    BY TypeStep, SellingFinite, SalesAssumption
  <1>1. ASSUME Selling' \subseteq Selling
        PROVE  Cardinality(Selling)' <= MaxSellers
    <2>1. Cardinality(Selling') <= Cardinality(Selling) /\ Cardinality(Selling') \in Nat
      BY <1>0, <1>1, FS_Subset, FS_CardinalityType
    <2> QED
      BY <1>0, <2>1 DEF InThePool
  <1>2. ASSUME UNCHANGED <<step, found>>
        PROVE  InThePool'
    BY <1>2 DEF InThePool, Selling, Plain
  <1>3. ASSUME NEW o \in Order, BeginCheckout(o)
        PROVE  InThePool'
    <2>1. /\ step' = [step EXCEPT ![o] = "tiers"] /\ UNCHANGED found
          /\ Cardinality(Selling) < MaxSellers
      BY <1>3 DEF BeginCheckout
    <2>2. Selling' = Selling \cup {o}
      BY <2>1 DEF Selling, TypeOK
    <2>3. Cardinality(Selling') <= Cardinality(Selling) + 1
      <3>1. \/ Cardinality(Selling') = Cardinality(Selling)
            \/ Cardinality(Selling') = Cardinality(Selling) + 1
        BY <1>0, <2>2, FS_AddElement
      <3> QED
        BY <1>0, <3>1
    <2>4. Cardinality(Selling') \in Nat
      BY <1>0, <2>2, FS_AddElement, FS_CardinalityType
    <2>5. Cardinality(Selling)' <= MaxSellers
      BY <1>0, <2>1, <2>3, <2>4
    <2> QED
      BY <2>1, <2>5 DEF InThePool, Plain, TypeOK
  <1>4. ASSUME NEW o \in Order, ReadReservations(o)
        PROVE  InThePool'
    <2>1. /\ step[o] = "fulfil" /\ step' = [step EXCEPT ![o] = "insert"]
          /\ found' = [found EXCEPT ![o] = Taken(o)]
      BY <1>4 DEF ReadReservations
    <2>2. o \in Plain => Taken(o) = {}
      BY TakenIsOwn DEF Plain
    <2>3. Selling' \subseteq Selling
      BY <2>1 DEF Selling, TypeOK
    <2> QED
      BY <1>1, <2>1, <2>2, <2>3 DEF InThePool, Plain, TypeOK
  <1>5. ASSUME NEW o \in Order,
               \/ ReadTiers(o) \/ ReadEvent(o) \/ RollBack(o) \/ CommitOrder(o)
               \/ RecordPayment(o) \/ ConfirmFree(o) \/ CompleteOrder(o) \/ ConfirmTickets(o)
               \/ LoseCheckout(o)
        PROVE  InThePool'
    <2>1. /\ UNCHANGED found
          /\ \/ \E c \in {"idle", "complete", "confirm"} : step' = [step EXCEPT ![o] = c]
             \/ o \in Selling /\ \E c \in {"event", "fulfil"} : step' = [step EXCEPT ![o] = c]
      BY <1>5 DEF ReadTiers, ReadEvent, RollBack, CommitOrder, RecordPayment, ConfirmFree,
                  CompleteOrder, ConfirmTickets, LoseCheckout, Selling
    <2>2. Selling' \subseteq Selling
      BY <2>1 DEF Selling, TypeOK
    <2>3. \A q \in Order : step'[q] = "insert" => step[q] = "insert"
      BY <2>1 DEF TypeOK
    <2> QED
      BY <1>1, <2>1, <2>2, <2>3 DEF InThePool, Plain
  <1>6. ASSUME NEW o \in Order,
               \/ CreateIntent(o) \/ SubmitPayment(o) \/ StripeSettles(o) \/ ResumeCheckout(o)
               \/ ShowMyTickets(o) \/ TimePasses(o) \/ CloseCheckout(o) \/ CancelListed(o)
               \/ AdminCancels(o) \/ CountdownEnds(o) \/ TimeoutJob(o) \/ SweepExpires(o)
               \/ RefundTickets(o)
        PROVE  UNCHANGED <<step, found>>
    BY <1>6 DEF CreateIntent, SubmitPayment, StripeSettles, ResumeCheckout, ShowMyTickets,
                TimePasses, CloseCheckout, CancelListed, AdminCancels, CountdownEnds,
                TimeoutJob, SweepExpires, RefundTickets, Refund, Cancel, Expire
  <1>7. CASE SweepReads \/ UNCHANGED vars \/ \E r \in Resv : Reserve(r) \/ CancelReservation(r)
    BY <1>2, <1>7 DEF SweepReads, Reserve, CancelReservation, vars
  <1> QED
    BY <1>2, <1>3, <1>4, <1>5, <1>6, <1>7 DEF Next, Works, Acts

LEMMA OversoldInit == Init => OversoldInv
  <1> SUFFICES ASSUME Init
               PROVE  OversoldInv
    OBVIOUS
  <1>1. Selling = {} /\ InThePool
    <2>1. Selling = {}
      BY DEF Init, Selling
    <2>2. Cardinality(Selling) = 0 /\ 0 <= MaxSellers
      BY <2>1, FS_EmptySet, SalesAssumption
    <2> QED
      BY <2>1, <2>2 DEF Init, InThePool, Plain
  <1>2. ASSUME NEW t \in Tier, NEW o \in Order
        PROVE  BookedPlain(t) <= Bound(o, t)
    <2> DEFINE f == [q \in Order |-> Booked(q, t)]
    <2>1. \A q \in Plain : f[q] = 0
      BY PlainFinite DEF Init, Booked, Live, Pledged, Cleared, NoTickets
    <2>2. BookedPlain(t) = SumFunctionOnSet(f, Plain)
      BY DEF BookedPlain
    <2> HIDE DEF f
    <2>3. SumFunctionOnSet(f, Plain) = 0
      BY <2>1, PlainFinite, SumZero
    <2> QED
      BY <2>2, <2>3, BoundType
  <1> QED
    BY <1>1, <1>2, TypeInit DEF OversoldInv, BookedAtMost

\* Nothing is locked while a checkout counts, so a tier can be sold beyond its quantity.
\* How far is bounded by the pool: buyers for whom nothing is reserved never hold more
\* than the quantity and one largest order for every other transaction that may run at
\* the same time, whatever is paid, cancelled, refunded or expires meanwhile, as long as
\* no confirmation brings tickets back that were given back.
THEOREM OversoldWithinPool == Spec /\ [][NothingRevived]_vars => []OversoldAtMost
  <1>1. OversoldInv /\ [Next]_vars /\ [NothingRevived]_vars => OversoldInv'
    <2> SUFFICES ASSUME OversoldInv, [Next]_vars, [NothingRevived]_vars
                 PROVE  OversoldInv'
      OBVIOUS
    <2>1. TypeOK' /\ InThePool'
      BY TypeStep, PoolStep DEF OversoldInv
    <2>2. CASE NothingRevived
      BY <2>1, <2>2, BookedStep DEF OversoldInv
    <2>3. CASE UNCHANGED vars
      <3>1. BookedAtMost'
        BY <2>3 DEF OversoldInv, BookedAtMost, BookedPlain, Booked, Live, Pledged, Cleared,
                    Largest, Bound, Plain, vars
      <3> QED
        BY <2>1, <3>1 DEF OversoldInv
    <2> QED
      BY <2>2, <2>3
  <1>2. OversoldInv => OversoldAtMost
    <2> SUFFICES ASSUME OversoldInv, NEW t \in Tier \ Donation, NEW o \in Order,
                        Quantity[t] # 0, Largest(o, t)
                 PROVE  SoldPlain(t) <= Bound(o, t)
      BY DEF OversoldAtMost, Largest, Bound
    <2> DEFINE f == [q \in Order |-> Live(q, t)]
               g == [q \in Order |-> Booked(q, t)]
    <2>0. TypeOK /\ BookedPlain(t) <= Bound(o, t) /\ Bound(o, t) \in Nat
      BY BoundType DEF OversoldInv, BookedAtMost
    <2>1. \A q \in Plain : f[q] \in Nat /\ g[q] \in Nat /\ f[q] <= g[q]
      <3> TAKE q \in Plain
      <3>1. Live(q, t) \in Nat /\ Pledged(q, t) \in Nat /\ q \in Order
        BY <2>0, PlainFinite, BookedType
      <3> QED
        BY <3>1 DEF Booked
    <2>2. SoldPlain(t) = SumFunctionOnSet(f, Plain) /\ BookedPlain(t) = SumFunctionOnSet(g, Plain)
      BY DEF SoldPlain, BookedPlain
    <2> HIDE DEF f, g
    <2>3. SumFunctionOnSet(f, Plain) <= SumFunctionOnSet(g, Plain)
      BY <2>1, PlainFinite, SumAtMost
    <2>4. SumFunctionOnSet(f, Plain) \in Nat /\ SumFunctionOnSet(g, Plain) \in Nat
      BY <2>1, PlainFinite, SumType
    <2> QED
      BY <2>0, <2>2, <2>3, <2>4
  <1> QED
    BY <1>1, <1>2, OversoldInit, PTL DEF Spec

=============================================================================
