---------------------------- MODULE WebhookInbox ----------------------------
(***************************************************************************)
(* Stripe's webhook events and the ledger they write to:                   *)
(* lib/ysc/webhooks.ex (the table of events), stripe/webhook_handler.ex    *)
(* (storing, locking, handling), webhooks/reprocessor.ex (the operator's   *)
(* mix task) and the idempotency of lib/ysc/ledgers.ex.                    *)
(*                                                                         *)
(* A request is a process that runs one statement after the other, each    *)
(* its own transaction unless said otherwise.  SELECT ... FOR UPDATE SKIP  *)
(* LOCKED runs outside of a transaction, so its lock ends with it.         *)
(*                                                                         *)
(* Stripe is external: it delivers every event any number of times and in  *)
(* any order.  Amounts, fees, ledger entries, e-mails, QuickBooks jobs and *)
(* the events that write nothing to the ledger are left out.               *)
(***************************************************************************)
EXTENDS Naturals, FiniteSets

CONSTANTS
  Event, Request,
  Invoice,        \* membership payments, recorded under their invoice's id
  Intent,         \* booking and ticket payments, recorded by their pages
  Refund, Payout,
  PaidBy,         \* PaidBy[r]: the payment that refund r gives back
  Settles,        \* Settles[po]: the charges and refunds payout po is made of
  Kind, About,    \* Kind[e]: the type of event e; About[e]: the objects in it
  Initial,        \* the invoices that do not name their subscription
  NoEvent, Nothing,   \* what an idle process works on
  MaxEvents,          \* bound: how many of the events come
  MaxCrashes          \* bound: how many processes die

Payment == Invoice \cup Intent
Object == Payment \cup Refund \cup Payout
RefundKind == {"refund.created", "charge.refunded"}

ASSUME InboxAssumption ==
  /\ Invoice \cap Intent = {} /\ Payment \cap Refund = {}
  /\ Payment \cap Payout = {} /\ Refund \cap Payout = {}
  /\ PaidBy \in [Refund -> Payment]
  /\ Settles \in [Payout -> SUBSET (Payment \cup Refund)]
  /\ Kind \in [Event -> {"invoice", "payout"} \cup RefundKind]
  /\ About \in [Event -> SUBSET Object]
  /\ \A e \in Event :
       /\ Kind[e] = "invoice" => \E x \in Invoice : About[e] = {x}
       /\ Kind[e] = "payout" => \E x \in Payout : About[e] = {x}
       /\ Kind[e] \in RefundKind => About[e] \subseteq Refund
  /\ Initial \subseteq Invoice
  /\ NoEvent \notin Event /\ Nothing \notin Object
  /\ MaxEvents \in Nat /\ MaxCrashes \in Nat

VARIABLES
  store,      \* store[e]: webhook_events.state, "none" before the insert
  req,        \* req[p]: what the process is doing
  postings,   \* postings[x]: the ledger transactions recorded for x
  linked,     \* linked[po]: payout_payments and payout_refunds
  crashes

vars == <<store, req, postings, linked, crashes>>

\* Where a process is that runs the handler of an event.
Handling == {"look", "post", "link", "raised"}
Places == {"idle", "lock", "claim", "reset"} \cup Handling

\* todo: what the handler still has to go through; item: what it is about to
\* record; again: whether the operator's task runs it on the stored payload.
Idle == [at |-> "idle", ev |-> NoEvent, todo |-> {}, item |-> Nothing, again |-> FALSE]

Start(e, at, again) ==
  [at |-> at, ev |-> e, todo |-> About[e], item |-> Nothing, again |-> again]

Init ==
  /\ store = [e \in Event |-> "none"]
  /\ req = [p \in Request |-> Idle]
  /\ postings = [x \in Object |-> 0]
  /\ linked = [po \in Payout |-> {}]
  /\ crashes = 0

Goes(p, at) == req' = [req EXCEPT ![p].at = at]
Ends(p) == req' = [req EXCEPT ![p] = Idle]

Recorded(x) == postings[x] > 0

\* get_payment_by_external_id, given the payment intent of a charge or refund.
\* Membership payments are recorded under the id of their invoice instead.
Found(x) == x \in Intent /\ Recorded(x)

-----------------------------------------------------------------------------
(* handle_event: store the event, lock it, handle it *)

\* The events that Stripe has sent.
Seen == {e \in Event : store[e] # "none" \/ \E p \in Request : req[p].ev = e}

\* Stripe delivers an event, for the first time or again; create_webhook_event!
\* takes every failure of the insert for a duplicate.
Deliver(p, e) ==
  /\ req[p].at = "idle"
  /\ Cardinality(Seen \cup {e}) <= MaxEvents
  /\ \/ store[e] = "none" /\ store' = [store EXCEPT ![e] = "pending"]
     \/ UNCHANGED store
  /\ req' = [req EXCEPT ![p] = Start(e, "lock", FALSE)]
  /\ UNCHANGED <<postings, linked, crashes>>

\* The SELECT finds the event pending; or the request has nothing to do.
LockEvent(p) ==
  /\ req[p].at = "lock"
  /\ IF store[req[p].ev] = "pending" THEN Goes(p, "claim") ELSE Ends(p)
  /\ UNCHANGED <<store, postings, linked, crashes>>

\* Another request's statement has the row: it is skipped, and when the second
\* query finds it pending no clause of the case matches.
LockSkips(p) ==
  /\ req[p].at = "lock" /\ store[req[p].ev] = "pending"
  /\ \E q \in Request \ {p} : req[q].ev = req[p].ev /\ req[q].at = "claim"
  /\ Ends(p)
  /\ UNCHANGED <<store, postings, linked, crashes>>

\* The UPDATE goes by the primary key, whatever the state is by now.
ClaimEvent(p) ==
  /\ req[p].at = "claim"
  /\ store' = [store EXCEPT ![req[p].ev] = "processing"]
  /\ Goes(p, "look")
  /\ UNCHANGED <<postings, linked, crashes>>

\* The handler has returned, whatever it returned.
MarkProcessed(p) ==
  /\ req[p].at \in {"look", "link"} /\ req[p].todo = {}
  /\ store' = [store EXCEPT ![req[p].ev] = "processed"]
  /\ Ends(p)
  /\ UNCHANGED <<postings, linked, crashes>>

\* Mutant: an exception is swallowed inside the handler.
MarkFailedAsProcessed(p) ==
  /\ req[p].at = "raised"
  /\ store' = [store EXCEPT ![req[p].ev] = "processed"]
  /\ Ends(p)
  /\ UNCHANGED <<postings, linked, crashes>>

\* Mutant: no rescue, the exception ends the request.
MarkFailedNot(p) ==
  /\ req[p].at = "raised"
  /\ Ends(p)
  /\ UNCHANGED <<store, postings, linked, crashes>>

\* An exception: the handler of requests marks the event, the task leaves it.
MarkFailed(p) ==
  /\ req[p].at = "raised"
  /\ store' = IF req[p].again THEN store ELSE [store EXCEPT ![req[p].ev] = "failed"]
  /\ Ends(p)
  /\ UNCHANGED <<postings, linked, crashes>>

-----------------------------------------------------------------------------
(* The handlers *)

\* The handler goes on to record x, or is done with it.
TakesUp(p, x) == req' = [req EXCEPT ![p].at = "post", ![p].item = x]
IsDone(p, x) == req' = [req EXCEPT ![p].at = "look", ![p].todo = @ \ {x}]
Decides(p, x, record) == IF record THEN TakesUp(p, x) ELSE IsDone(p, x)

\* After its insert a payout goes on with its balance transactions.
AfterInsert(p, x) ==
  IF x \in Payout
  THEN req' = [req EXCEPT ![p].at = "link", ![p].todo = Settles[x]]
  ELSE IsDone(p, x)

\* Mutant: no unique index on the external id.
PostUnchecked(p) ==
  /\ req[p].at = "post"
  /\ postings' = [postings EXCEPT ![req[p].item] = @ + 1]
  /\ AfterInsert(p, req[p].item)
  /\ UNCHANGED <<store, linked, crashes>>

\* Mutant: a payout that is there already is taken for one's own.
PostAdopts(p) ==
  /\ req[p].at = "post"
  /\ postings' = [postings EXCEPT ![req[p].item] = 1]
  /\ AfterInsert(p, req[p].item)
  /\ UNCHANGED <<store, linked, crashes>>

\* process_payment, process_refund and process_stripe_payout: the record, its
\* transaction and its entries in one database transaction.  When somebody else
\* has recorded x by now, the unique index on the external id makes the insert
\* raise, unless the second look at payments and refunds has found it.
Post(p) ==
  LET x == req[p].item IN
  /\ req[p].at = "post"
  /\ \/ ~Recorded(x) /\ postings' = [postings EXCEPT ![x] = @ + 1] /\ AfterInsert(p, x)
     \/ Recorded(x) /\ Goes(p, "raised") /\ UNCHANGED postings
     \/ Recorded(x) /\ x \notin Payout /\ IsDone(p, x) /\ UNCHANGED postings
  /\ UNCHANGED <<store, linked, crashes>>

\* An invoice that names no subscription is taken to the customer's latest one
\* here, if there is one yet; the operator's task has lost the billing reason
\* that this depends on.
LookAtInvoice(p) ==
  /\ req[p].at = "look" /\ Kind[req[p].ev] = "invoice"
  /\ \E x \in req[p].todo, resolved \in BOOLEAN :
       /\ x \notin Initial => resolved
       /\ x \in Initial /\ req[p].again => ~resolved
       /\ Decides(p, x, resolved /\ ~Recorded(x))
  /\ UNCHANGED <<store, postings, linked, crashes>>

\* Mutant: the payment is not looked for before the refund is recorded.
LookAtRefundBlindly(p) ==
  /\ req[p].at = "look" /\ Kind[req[p].ev] \in RefundKind
  /\ \E x \in req[p].todo : TakesUp(p, x)
  /\ UNCHANGED <<store, postings, linked, crashes>>

\* A refund of a payment that is not found is skipped.  The stored payload of a
\* charge is a map, for which there is no handler.
LookAtRefund(p) ==
  /\ req[p].at = "look" /\ Kind[req[p].ev] \in RefundKind
  /\ \E x \in req[p].todo :
       Decides(p, x, /\ Found(PaidBy[x])
                     /\ ~(Kind[req[p].ev] = "charge.refunded" /\ req[p].again))
  /\ UNCHANGED <<store, postings, linked, crashes>>

LookAtPayout(p) ==
  /\ req[p].at = "look" /\ Kind[req[p].ev] = "payout"
  /\ \E x \in req[p].todo : Decides(p, x, ~Recorded(x))
  /\ UNCHANGED <<store, postings, linked, crashes>>

\* link_balance_transaction_to_payout, one line after the other.  A line whose
\* payment or refund is not found is skipped, and so is one for which Stripe does
\* not answer or the database raises.
LinkLine(p) ==
  LET po == req[p].item IN
  /\ req[p].at = "link"
  /\ \E x \in req[p].todo :
       /\ req' = [req EXCEPT ![p].todo = @ \ {x}]
       /\ \/ /\ IF x \in Refund THEN Found(PaidBy[x]) /\ Recorded(x) ELSE Found(x)
             /\ linked' = [linked EXCEPT ![po] = @ \cup {x}]
          \/ UNCHANGED linked
  /\ UNCHANGED <<store, postings, crashes>>

\* There is no such customer, or the database or Stripe's library raises.
Raise(p) ==
  /\ req[p].at \in {"look", "post", "link"}
  /\ Goes(p, "raised")
  /\ UNCHANGED <<store, postings, linked, crashes>>

-----------------------------------------------------------------------------
(* The operator's task *)

Reprocess(p, e) ==
  /\ req[p].at = "idle" /\ store[e] = "failed"
  /\ req' = [req EXCEPT ![p] = Start(e, "look", TRUE)]
  /\ UNCHANGED <<store, postings, linked, crashes>>

BeginReset(p, e) ==
  /\ req[p].at = "idle" /\ store[e] = "failed"
  /\ req' = [req EXCEPT ![p] = Start(e, "reset", FALSE)]
  /\ UNCHANGED <<store, postings, linked, crashes>>

FinishReset(p) ==
  /\ req[p].at = "reset"
  /\ store' = [store EXCEPT ![req[p].ev] = "pending"]
  /\ Ends(p)
  /\ UNCHANGED <<postings, linked, crashes>>

-----------------------------------------------------------------------------
(* Who else writes *)

\* The checkout page of a booking or ticket order, with process_payment.
PageRecordsPayment(x) ==
  /\ ~Recorded(x)
  /\ postings' = [postings EXCEPT ![x] = @ + 1]
  /\ UNCHANGED <<store, req, linked, crashes>>

\* An admin's refund of a booking, made at Stripe and recorded at once.
PageRecordsRefund(r) ==
  /\ Found(PaidBy[r]) /\ ~Recorded(r)
  /\ postings' = [postings EXCEPT ![r] = @ + 1]
  /\ UNCHANGED <<store, req, linked, crashes>>

\* The process dies, or the database fails it where nothing is rescued.
Crash(p) ==
  /\ req[p].at # "idle" /\ crashes < MaxCrashes
  /\ Ends(p)
  /\ crashes' = crashes + 1
  /\ UNCHANGED <<store, postings, linked>>

-----------------------------------------------------------------------------
Work(p) ==
  \/ LockEvent(p) \/ LockSkips(p) \/ ClaimEvent(p)
  \/ LookAtInvoice(p) \/ LookAtRefund(p) \/ LookAtPayout(p) \/ Post(p) \/ LinkLine(p)
  \/ Raise(p) \/ MarkProcessed(p) \/ MarkFailed(p) \/ FinishReset(p)

Next ==
  \/ \E p \in Request : Work(p) \/ Crash(p)
  \/ \E p \in Request, e \in Event : Deliver(p, e) \/ Reprocess(p, e) \/ BeginReset(p, e)
  \/ \E x \in Intent : PageRecordsPayment(x)
  \/ \E r \in Refund : PageRecordsRefund(r)

Spec == Init /\ [][Next]_vars

\* A process that has work is scheduled, and Stripe and PostgreSQL answer or
\* fail.  Stripe need not deliver anything, nor an operator do anything.
FairSpec == Spec /\ \A p \in Request : WF_vars(Work(p))

-----------------------------------------------------------------------------
(* Properties *)

\* What a process remembers.
RequestState ==
  [at: Places, ev: Event \cup {NoEvent}, todo: SUBSET Object,
   item: Object \cup {Nothing}, again: BOOLEAN]

\* Types; nothing has two payments, refunds or payouts in the ledger, and so two
\* ledger transactions (ledgers.ex, the unique indexes on the external ids).
TypeOK ==
  /\ store \in [Event -> {"none", "pending", "processing", "processed", "failed"}]
  /\ req \in [Request -> RequestState]
  /\ postings \in [Object -> {0, 1}]
  /\ linked \in [Payout -> SUBSET Object]
  /\ crashes \in 0 .. MaxCrashes

\* The ledger is one that enters everything once, and a refund only after its
\* payment, although the lock on events does not keep two deliveries apart, two
\* kinds of events report a refund, and pages and the operator's task write too.
Once == INSTANCE OnceLedger WITH Payment <- Invoice \cup Intent, postings <- postings
EntersOnce == Once!Spec

\* A membership payment is in the ledger when invoice.payment_succeeded is marked
\* as processed, provided the invoice names the subscription: whatever goes wrong
\* leaves an event that is not marked so, and the mix task can find it.
ProcessedInvoicesAreRecorded ==
  \A e \in Event, x \in Invoice \ Initial :
    Kind[e] = "invoice" /\ x \in About[e] /\ store[e] = "processed" => Recorded(x)

\* A refund whose payment was in the ledger when refund.created came is in the
\* ledger once the event is marked as processed, whoever marks it and whenever
\* (process_refund_from_refund_object skips a refund whose payment is missing).
RefundsAreNotLost ==
  \A e \in Event, r \in Refund :
    Kind[e] = "refund.created" /\ r \in About[e] =>
      []((store[e] = "none" /\ Found(PaidBy[r]))
           => [](store[e] = "processed" => Recorded(r)))

\* A payout is linked by one request at a time: link_payment_to_payout and
\* link_refund_to_payout look for the row before they insert it, without a lock.
OneLinker ==
  \A p, q \in Request :
    req[p].at = "link" /\ req[q].at = "link" /\ req[p].item = req[q].item => p = q

\* An event that a process has taken up is processed or fails, unless that
\* process dies: nobody takes over an event that is being processed.
TakenUp(e) ==
  \/ store[e] = "processing"
  \/ store[e] = "pending" /\ \E p \in Request : req[p].ev = e /\ req[p].at \in {"lock", "claim"}

EventsSettle ==
  \A e \in Event : TakenUp(e) ~> store[e] \in {"processed", "failed"} \/ crashes > 0
=============================================================================
