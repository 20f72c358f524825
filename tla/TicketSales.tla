---------------------------- MODULE TicketSales ----------------------------
(***************************************************************************)
(* Ticket sales for one event: lib/ysc/tickets/booking_locker.ex (the      *)
(* checkout transaction), lib/ysc/tickets.ex (payment, cancellation,       *)
(* refund, expiry), the timeout worker, the checkout page of               *)
(* event_details_live.ex, and the reservations an admin makes.             *)
(*                                                                         *)
(* atomic_booking is one PostgreSQL transaction at READ COMMITTED that     *)
(* takes no row lock: each of its validations is a step that sees what     *)
(* others have committed, and its writes are one step at the commit.       *)
(* Processing a payment is three transactions of one LiveView process.     *)
(*                                                                         *)
(* Stripe is external: a payment intent is open, processing, succeeded or  *)
(* canceled.  Amounts, discounts, e-mails and PubSub are left out.         *)
(***************************************************************************)
EXTENDS Integers, FiniteSets, FiniteSetsExt, Functions

CONSTANTS
  Order,          \* the checkouts that may be started
  Want,           \* Want[o]: who buys how many of which tier, and if it is free
  User, Tier,
  Donation,       \* the tiers of type :donation
  Quantity,       \* Quantity[t]: ticket_tiers.quantity, 0 (or nil) for unlimited
  MaxAttendees,   \* events.max_attendees, NoLimit for nil
  Resv,           \* ticket reservations, numbered in the order of inserted_at
  Held,           \* Held[r]: for whom, on which tier, how many
  MaxSellers,     \* how many atomic_booking transactions run at once: the Repo's
                  \* pool_size (config/runtime.exs, 10 unless POOL_SIZE is set)
  Orderly         \* environment: payments are made in time, nobody else touches
                  \* an order whose page is open, nobody reserves what is sold

NoLimit == -1

ASSUME SalesAssumption ==
  /\ Want \in [Order -> [user: User, sel: [Tier -> Nat], free: BOOLEAN]]
  /\ Donation \subseteq Tier
  /\ Quantity \in [Tier -> Nat]
  /\ MaxAttendees \in Nat \cup {NoLimit}
  /\ Resv \subseteq Nat /\ IsFiniteSet(Resv) /\ IsFiniteSet(Order) /\ IsFiniteSet(Tier)
  /\ Held \in [Resv -> [user: User, tier: Tier, qty: Nat \ {0}]]
  /\ MaxSellers \in Nat \ {0}
  /\ Orderly \in BOOLEAN

VARIABLES
  order,     \* ticket_orders.status, "none" before the insert
  tickets,   \* tickets[o][t]: how many of the order's tickets are in which status
  resv,      \* ticket_reservations.status
  step,      \* where the LiveView process of the checkout is in its work
  found,     \* the reservations the checkout has read, then used
  view,      \* the checkout page: open, paying (submitted to Stripe), closed
  intent,    \* the order's Stripe payment intent
  recorded,  \* orders whose payment is in the ledger
  due,       \* orders whose expires_at has passed
  sweep,     \* orders the periodic timeout job has read and not yet expired
  listed     \* orders a My Tickets page shows with a cancel button

vars == <<order, tickets, resv, step, found, view, intent, recorded, due, sweep, listed>>

Ticket == [pending: Nat, confirmed: Nat, void: Nat]
NoTickets == [t \in Tier |-> [pending |-> 0, confirmed |-> 0, void |-> 0]]

Init ==
  /\ order = [o \in Order |-> "none"]
  /\ tickets = [o \in Order |-> NoTickets]
  /\ resv \in [Resv -> {"none", "active"}]
  /\ step = [o \in Order |-> "idle"]
  /\ found = [o \in Order |-> {}]
  /\ view = [o \in Order |-> "closed"]
  /\ intent = [o \in Order |-> "none"]
  /\ recorded = {} /\ due = {} /\ sweep = {} /\ listed = {}

-----------------------------------------------------------------------------
(* What the SELECTs count *)

Live(o, t) == tickets[o][t].pending + tickets[o][t].confirmed
Sold(t) == SumFunction([o \in Order |-> Live(o, t)])
EventSold == SumFunction([t \in Tier |-> Sold(t)])

Active(t) == {r \in Resv : resv[r] = "active" /\ Held[r].tier = t}
ActiveOf(u) == {r \in Resv : resv[r] = "active" /\ Held[r].user = u}
Places(R) == SumFunctionOnSet([r \in Resv |-> Held[r].qty], R)

\* get_available_tier_quantity_locked, plus what the buyer has reserved.
Available(t) == Max({0, Quantity[t] - Sold(t) - Places(Active(t))})
OpenTo(u, t) == Available(t) + Places(Active(t) \cap ActiveOf(u))

Selected(o) == {t \in Tier : Want[o].sel[t] > 0}

\* Mutants: pending tickets, or reservations, do not count.
TiersFitConfirmedOnly(o) ==
  \A t \in Selected(o) \ Donation : Quantity[t] # 0 =>
    Want[o].sel[t] <= Quantity[t]
                        - SumFunction([q \in Order |-> tickets[q][t].confirmed])

TiersFit(o) ==
  \A t \in Selected(o) \ Donation :
    Quantity[t] # 0 => Want[o].sel[t] <= OpenTo(Want[o].user, t)

\* The event's limit counts every ticket, but lets reservation holders pass.
EventFits(o) ==
  \/ MaxAttendees = NoLimit
  \/ ActiveOf(Want[o].user) # {}
  \/ EventSold + SumFunctionOnSet(Want[o].sel, Selected(o) \ Donation)
       <= MaxAttendees

\* Mutant: every active reservation of the tier, whoever holds it.
TakenOfAnyone(o) ==
  {r \in Resv : /\ resv[r] = "active" /\ Held[r].tier \in Selected(o)
                /\ Places({q \in Active(Held[r].tier) : q < r}) < Want[o].sel[Held[r].tier]}

\* fulfill_reservations_for_tier: the buyer's reservations in order, until they
\* cover what is asked for; the last one is taken whole.
Taken(o) ==
  LET mine == ActiveOf(Want[o].user) IN
  {r \in mine : /\ Held[r].tier \in Selected(o)
                /\ Places({q \in mine : q < r /\ Held[q].tier = Held[r].tier})
                     < Want[o].sel[Held[r].tier]}

\* Enum.map(1..n, _) runs over 1 and 0 when n is 0.
RangeLength(n) == IF n = 0 THEN 2 ELSE n

\* create_tickets_atomic: one ticket per reserved place, and the rest.
Issued(o, t, R) ==
  LET places == Places({r \in R : Held[r].tier = t})
      asked == IF t \in Donation THEN 1 ELSE Want[o].sel[t]
  IN IF t \notin Selected(o) THEN 0
     ELSE places + RangeLength(Max({0, asked - places}))

-----------------------------------------------------------------------------
(* atomic_booking *)

Selling == {o \in Order : step[o] \in {"tiers", "event", "fulfil", "insert"}}

BeginCheckout(o) ==
  /\ order[o] = "none" /\ step[o] = "idle"
  /\ Cardinality(Selling) < MaxSellers
  /\ step' = [step EXCEPT ![o] = "tiers"]
  /\ UNCHANGED <<order, tickets, resv, found, view, intent, recorded, due, sweep, listed>>

ReadTiers(o) ==
  /\ step[o] = "tiers"
  /\ step' = [step EXCEPT ![o] = IF TiersFit(o) THEN "event" ELSE "idle"]
  /\ UNCHANGED <<order, tickets, resv, found, view, intent, recorded, due, sweep, listed>>

ReadEvent(o) ==
  /\ step[o] = "event"
  /\ step' = [step EXCEPT ![o] = IF EventFits(o) THEN "fulfil" ELSE "idle"]
  /\ UNCHANGED <<order, tickets, resv, found, view, intent, recorded, due, sweep, listed>>

ReadReservations(o) ==
  /\ step[o] = "fulfil"
  /\ found' = [found EXCEPT ![o] = Taken(o)]
  /\ step' = [step EXCEPT ![o] = "insert"]
  /\ UNCHANGED <<order, tickets, resv, view, intent, recorded, due, sweep, listed>>

\* Membership, the dates and the state of the event and of its tiers are left
\* to the environment: any checkout may be refused, or die, and rolls back.
RollBack(o) ==
  /\ o \in Selling
  /\ step' = [step EXCEPT ![o] = "idle"]
  /\ UNCHANGED <<order, tickets, resv, found, view, intent, recorded, due, sweep, listed>>

CommitOrder(o) ==
  /\ step[o] = "insert"
  /\ order' = [order EXCEPT ![o] = "pending"]
  /\ tickets' = [tickets EXCEPT ![o] =
                   [t \in Tier |-> [pending |-> Issued(o, t, found[o]),
                                    confirmed |-> 0, void |-> 0]]]
  /\ resv' = [r \in Resv |-> IF r \in found[o] THEN "fulfilled" ELSE resv[r]]
  /\ step' = [step EXCEPT ![o] = "idle"]
  /\ view' = [view EXCEPT ![o] = "open"]
  /\ UNCHANGED <<found, intent, recorded, due, sweep, listed>>

-----------------------------------------------------------------------------
(* Payment: Stripe, and the LiveView that reacts to it *)

\* create_payment_intent; its idempotency key yields one intent per order.
CreateIntent(o) ==
  /\ view[o] = "open" /\ step[o] = "idle"
  /\ ~Want[o].free /\ intent[o] = "none"
  /\ intent' = [intent EXCEPT ![o] = "open"]
  /\ UNCHANGED <<order, tickets, resv, step, found, view, recorded, due, sweep, listed>>

\* The buyer's browser submits the payment to Stripe.
SubmitPayment(o) ==
  /\ view[o] = "open" /\ step[o] = "idle" /\ intent[o] = "open"
  /\ Orderly => o \notin due
  /\ intent' = [intent EXCEPT ![o] = "processing"]
  /\ view' = [view EXCEPT ![o] = "paying"]
  /\ UNCHANGED <<order, tickets, resv, step, found, recorded, due, sweep, listed>>

StripeSettles(o) ==
  /\ intent[o] = "processing"
  /\ \/ /\ intent' = [intent EXCEPT ![o] = "succeeded"]
        /\ UNCHANGED view
     \/ /\ intent' = [intent EXCEPT ![o] = "open"]
        /\ view' = [view EXCEPT ![o] = IF @ = "paying" THEN "open" ELSE @]
  /\ UNCHANGED <<order, tickets, resv, step, found, recorded, due, sweep, listed>>

\* process_successful_payment: validate the intent, write the ledger.  The
\* status of the order is not looked at.
RecordPayment(o) ==
  /\ view[o] = "paying" /\ step[o] = "idle"
  /\ intent[o] = "succeeded"
  /\ recorded' = recorded \cup {o}
  /\ step' = [step EXCEPT ![o] = "complete"]
  /\ UNCHANGED <<order, tickets, resv, found, view, intent, due, sweep, listed>>

\* confirm-free-tickets: completes the order the page shows without a payment.
\* The page offers it for the step named in its URL; the price is not looked at.
ConfirmFree(o) ==
  /\ view[o] = "open" /\ step[o] = "idle"
  /\ Orderly => o \notin due
  /\ step' = [step EXCEPT ![o] = "complete"]
  /\ UNCHANGED <<order, tickets, resv, found, view, intent, recorded, due, sweep, listed>>

CompleteOrder(o) ==
  /\ step[o] = "complete"
  /\ order' = [order EXCEPT ![o] = "completed"]
  /\ step' = [step EXCEPT ![o] = "confirm"]
  /\ UNCHANGED <<tickets, resv, found, view, intent, recorded, due, sweep, listed>>

\* confirm_tickets: every ticket of the order that is not confirmed.
ConfirmTickets(o) ==
  /\ step[o] = "confirm"
  /\ tickets' = [tickets EXCEPT ![o] =
       [t \in Tier |-> [pending |-> 0, void |-> 0,
          confirmed |-> @[t].pending + @[t].confirmed + @[t].void]]]
  /\ step' = [step EXCEPT ![o] = "idle"]
  /\ view' = [view EXCEPT ![o] = "closed"]
  /\ UNCHANGED <<order, resv, found, intent, recorded, due, sweep, listed>>

-----------------------------------------------------------------------------
(* The ends of an order *)

\* Mutant: only the tickets that are still pending are given back.
VoidedPending(o) ==
  [tickets EXCEPT ![o] =
     [t \in Tier |-> [pending |-> 0, confirmed |-> @[t].confirmed,
                      void |-> @[t].pending + @[t].void]]]

Voided(o) ==
  [tickets EXCEPT ![o] =
     [t \in Tier |-> [pending |-> 0, confirmed |-> 0,
                      void |-> @[t].pending + @[t].confirmed + @[t].void]]]

\* cancel_ticket_order: the order and all its tickets, not the payment intent.
Cancel(o) ==
  /\ order' = [order EXCEPT ![o] = "cancelled"]
  /\ tickets' = Voided(o)
  /\ UNCHANGED <<resv, step, found, recorded, due, sweep>>

\* Mutant: an intent Stripe will not cancel leaves the order as it is.
ExpireNeedsStripe(o) ==
  /\ intent[o] \notin {"processing", "succeeded"}
  /\ intent' = [intent EXCEPT ![o] = IF @ = "open" THEN "canceled" ELSE @]
  /\ order' = [order EXCEPT ![o] = "expired"]
  /\ tickets' = Voided(o)
  /\ UNCHANGED <<resv, step, found, recorded, listed>>

\* expire_ticket_order: cancel the intent (going on if Stripe does not answer, or
\* if the order was read before it had one), then the order and all its tickets,
\* whatever their status.
Expire(o) ==
  /\ \/ intent' = [intent EXCEPT ![o] = IF @ = "open" THEN "canceled" ELSE @]
     \/ UNCHANGED intent
  /\ order' = [order EXCEPT ![o] = "expired"]
  /\ tickets' = Voided(o)
  /\ UNCHANGED <<resv, step, found, recorded, listed>>

\* The close buttons of the checkout page, and terminate when the buyer leaves it.
CloseCheckout(o) ==
  /\ view[o] # "closed" /\ step[o] = "idle"
  /\ Cancel(o)
  /\ view' = [view EXCEPT ![o] = "closed"]
  /\ UNCHANGED <<intent, listed>>

\* The page crashes, the buyer is sent to another site to pay, or terminate finds
\* a payment under way: nothing is cancelled.
LoseCheckout(o) ==
  /\ view[o] # "closed"
  /\ view' = [view EXCEPT ![o] = "closed"]
  /\ step' = [step EXCEPT ![o] = "idle"]
  /\ UNCHANGED <<order, tickets, resv, found, intent, recorded, due, sweep, listed>>

ResumeCheckout(o) ==
  /\ view[o] = "closed" /\ order[o] = "pending" /\ o \notin due
  /\ view' = [view EXCEPT ![o] = "open"]
  /\ UNCHANGED <<order, tickets, resv, step, found, intent, recorded, due, sweep, listed>>

\* The page's own countdown.
CountdownEnds(o) ==
  /\ view[o] # "closed" /\ step[o] = "idle" /\ o \in due
  /\ Expire(o)
  /\ view' = [view EXCEPT ![o] = "closed"]
  /\ UNCHANGED <<due, sweep>>

\* Nobody else acts on an order while its checkout page is open.
Undisturbed(o) == Orderly => step[o] = "idle" /\ view[o] = "closed"

ShowMyTickets(o) ==
  /\ order[o] = "pending" /\ o \notin listed
  /\ listed' = listed \cup {o}
  /\ UNCHANGED <<order, tickets, resv, step, found, view, intent, recorded, due, sweep>>

\* The handler does not check that the order is still pending.
CancelListed(o) ==
  /\ o \in listed /\ Undisturbed(o)
  /\ Cancel(o)
  /\ listed' = listed \ {o}
  /\ UNCHANGED <<view, intent>>

\* n tickets of a row are refunded, the confirmed ones first.
Refunded(row, n) ==
  LET c == Min({n, row.confirmed})
  IN [pending |-> row.pending - (n - c), confirmed |-> row.confirmed - c, void |-> row.void + n]

Refund(o, t, n) ==
  /\ tickets' = [tickets EXCEPT ![o][t] = Refunded(@, n)]
  /\ order' = [order EXCEPT ![o] =
       IF SumFunction([s \in Tier |-> Live(o, s)]) = n THEN "cancelled" ELSE @]
  /\ UNCHANGED <<resv, step, found, view, intent, recorded, due, sweep, listed>>

\* Mutant: the tickets that were given back already are not left out.
RefundTicketsAgain(o) ==
  /\ o \in recorded /\ order[o] # "pending" /\ Undisturbed(o)
  /\ \E t \in Tier : \E n \in 1 .. Live(o, t) + tickets[o][t].void : Refund(o, t, n)

\* Admin, money screen, which finds an order by its payment: refund some of the
\* tickets, or refund it all and release the availability.
RefundTickets(o) ==
  /\ o \in recorded /\ order[o] # "pending" /\ Undisturbed(o)
  /\ \E t \in Tier : \E n \in 1 .. Live(o, t) : Refund(o, t, n)

AdminCancels(o) ==
  /\ o \in recorded /\ order[o] = "completed" /\ Undisturbed(o)
  /\ Cancel(o)
  /\ UNCHANGED <<view, intent, listed>>

-----------------------------------------------------------------------------
(* TimeoutWorker *)

\* Thirty minutes pass.
TimePasses(o) ==
  /\ order[o] # "none" /\ o \notin due
  /\ Orderly => /\ step[o] = "idle"
                /\ order[o] = "pending" => intent[o] \notin {"processing", "succeeded"}
  /\ due' = due \cup {o}
  /\ UNCHANGED <<order, tickets, resv, step, found, view, intent, recorded, sweep, listed>>

\* Mutant: the status is not checked again under the lock.
TimeoutJobBlind(o) ==
  /\ o \in due /\ order[o] # "none"
  /\ Expire(o)
  /\ UNCHANGED <<view, due, sweep>>

\* The job scheduled for one order: FOR UPDATE, and the status checked again.
TimeoutJob(o) ==
  /\ o \in due /\ order[o] = "pending"
  /\ Expire(o)
  /\ UNCHANGED <<view, due, sweep>>

\* The job cron starts: FOR UPDATE SKIP LOCKED outside a transaction, so the
\* locks are gone when it expires what it has read, one order after the other.
SweepReads ==
  LET late == {o \in due : order[o] = "pending"} IN
  /\ sweep = {} /\ late # {}
  /\ sweep' = late
  /\ UNCHANGED <<order, tickets, resv, step, found, view, intent, recorded, due, listed>>

SweepExpires(o) ==
  /\ o \in sweep
  /\ Expire(o)
  /\ sweep' = sweep \ {o}
  /\ UNCHANGED <<view, due>>

-----------------------------------------------------------------------------
(* Reservations, made by an admin for a member *)

\* No capacity check; an orderly admin does not promise what is sold.
Reserve(r) ==
  /\ resv[r] = "none"
  /\ Orderly => /\ Selling = {}
                /\ Quantity[Held[r].tier] # 0 => Held[r].qty <= Available(Held[r].tier)
  /\ resv' = [resv EXCEPT ![r] = "active"]
  /\ UNCHANGED <<order, tickets, step, found, view, intent, recorded, due, sweep, listed>>

CancelReservation(r) ==
  /\ resv[r] = "active"
  /\ Orderly => Selling = {}
  /\ resv' = [resv EXCEPT ![r] = "cancelled"]
  /\ UNCHANGED <<order, tickets, step, found, view, intent, recorded, due, sweep, listed>>

-----------------------------------------------------------------------------
\* The steps of a process that has started something, of Stripe and of Oban.
Works(o) ==
  \/ ReadTiers(o) \/ ReadEvent(o) \/ ReadReservations(o) \/ CommitOrder(o) \/ RollBack(o)
  \/ StripeSettles(o) \/ RecordPayment(o) \/ CompleteOrder(o) \/ ConfirmTickets(o)

Acts(o) ==
  \/ BeginCheckout(o) \/ CreateIntent(o) \/ SubmitPayment(o) \/ ConfirmFree(o)
  \/ CloseCheckout(o) \/ LoseCheckout(o) \/ ResumeCheckout(o) \/ CountdownEnds(o)
  \/ ShowMyTickets(o) \/ CancelListed(o) \/ RefundTickets(o) \/ AdminCancels(o)

Next ==
  \/ \E o \in Order : Works(o) \/ Acts(o) \/ TimePasses(o) \/ TimeoutJob(o) \/ SweepExpires(o)
  \/ SweepReads
  \/ \E r \in Resv : Reserve(r) \/ CancelReservation(r)

Spec == Init /\ [][Next]_vars

\* The BEAM runs processes that have work, Stripe answers, the clock runs on
\* and Oban runs the timeout jobs that are due.
Fairness ==
  /\ \A o \in Order : /\ WF_vars(Works(o)) /\ WF_vars(TimePasses(o))
                      /\ WF_vars(TimeoutJob(o)) /\ WF_vars(SweepExpires(o))
  /\ WF_vars(SweepReads)

FairSpec == Spec /\ Fairness

-----------------------------------------------------------------------------
(* Properties *)

Steps == {"idle", "tiers", "event", "fulfil", "insert", "complete", "confirm"}
Ended == {"cancelled", "expired"}

TypeOK ==
  /\ order \in [Order -> {"none", "pending", "completed"} \cup Ended]
  /\ tickets \in [Order -> [Tier -> Ticket]]
  /\ resv \in [Resv -> {"none", "active", "fulfilled", "cancelled"}]
  /\ step \in [Order -> Steps]
  /\ found \in [Order -> SUBSET Resv]
  /\ view \in [Order -> {"open", "paying", "closed"}]
  /\ intent \in [Order -> {"none", "open", "processing", "succeeded", "canceled"}]
  /\ recorded \subseteq Order /\ due \subseteq Order
  /\ sweep \subseteq Order /\ listed \subseteq Order

\* No tier with a quantity is sold beyond it.
NeverOversold == \A t \in Tier \ Donation : Quantity[t] # 0 => Sold(t) <= Quantity[t]

\* The orders of buyers for whom nothing is reserved, and the seats they take.
Plain == {o \in Order : \A r \in Resv : Held[r].user # Want[o].user}
SoldPlain(t) == SumFunctionOnSet([o \in Order |-> Live(o, t)], Plain)

\* Checkouts that count before the others commit sell a tier beyond its quantity,
\* but by no more than one largest order for each of the others in flight: what
\* does not yet show in the tickets when atomic_booking counts them.
OversoldAtMost ==
  \A t \in Tier \ Donation, o \in Order :
    /\ Quantity[t] # 0
    /\ \A p \in Plain : Want[p].sel[t] <= Want[o].sel[t]
    => SoldPlain(t) <= Quantity[t] + (MaxSellers - 1) * Want[o].sel[t]

\* Whatever ends an order, jobs, admins, other tabs and late payments in any order,
\* takes all its seats; only the confirmation of an order that was ended meanwhile
\* gives seats to an ended order (confirm_tickets looks at no status).
EndsGiveSeatsBack ==
  [][\A o \in Order, t \in Tier : order'[o] \in Ended /\ Live(o, t)' > 0 =>
       order[o] \in Ended /\ (Live(o, t) > 0 \/ step[o] = "confirm")]_vars

\* The reservations an order was issued on are its buyer's, and they stay used up,
\* whatever an admin and other checkouts do while it is made: otherwise a place is
\* sold and still kept free, or given to another member.
ReservationsUsedUp ==
  \A o \in Order : order[o] # "none" =>
    \A r \in found[o] : Held[r].user = Want[o].user /\ resv[r] = "fulfilled"

\* However late a payment completes, the job scheduled for an order and the page's
\* countdown leave a completed order alone; the cron job expires it only if it has
\* read it before (its locks are gone by then).
PaidOrdersStay ==
  [][\A o \in Order : order[o] = "completed" /\ order'[o] = "expired" =>
       o \in sweep \ sweep']_vars

\* An order does not stay pending for ever: its seats are sold or come back.
OrdersEnd == \A o \in Order : order[o] = "pending" ~> order[o] # "pending"
=============================================================================
