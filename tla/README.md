# Formal models of the YSC application

TLA+ modules, TLC configurations and TLAPS proofs for the Elixir/Phoenix
application of this repository: cabin bookings, event tickets, memberships,
money and messages of the club. Paths below are relative to the repository.

## 1. The system

The program is one Phoenix application. Its core is `lib/ysc`; `lib/ysc_web`
holds the pages, which call the core, and some of the Oban workers. What runs
concurrently:

* **LiveViews**, one BEAM process per open page. A process handles its messages
  one at a time and may die between two of them, or inside a handler.
* **The browser**: one event loop per tab, on which the JavaScript hooks of
  `assets/js` run. A hook is atomic up to its next `await` or timer; its events
  reach the LiveView, and the LiveView's diffs reach the DOM, in order over one
  channel, which may drop and rejoin with a new LiveView behind it.
* **Oban jobs**, at least once, retried on error. Cron starts the hold expiry and
  the ticket timeout jobs every five minutes (`config/config.exs:92-105`), the
  subscription expiration, reconciliation and QuickBooks retry jobs more rarely;
  a checkout schedules a job of its own for the end of its thirty minutes.
* **Webhooks** of Stripe and QuickBooks: HTTP requests that are repeated, late and
  out of order.
* **PostgreSQL** at READ COMMITTED, the only shared state (the Cachex and ETS
  caches apart). A SELECT sees what is committed when it runs; an UPDATE waits
  for a locked row and re-evaluates its WHERE clause on the new version.
* **Stripe**, QuickBooks, the mail and SMS gateways: external.

### Inventory

| Component | State | Operations | Interacts with | Hard behaviour |
|---|---|---|---|---|
| Cabin inventory (`bookings/booking_locker.ex`, `hold_expiry_worker.ex`) | `property_inventory`, `room_inventory`, `bookings.status` | create (buyout, rooms, day guests), confirm, release, cancel, refund, admin creation, sweep of expired holds | booking pages, admin screens, Oban | optimistic versions, checks across two tables, status read without lock, partial batches |
| Ticket sales (`tickets/*`, `tickets.ex`, `event_details_live.ex`) | orders, tickets, reservations, payment intents | checkout, pay, confirm, cancel, refund, expire, reserve | Stripe, ledger, Oban, the checkout page | capacity counted without locks, three-step payment, late payments, two expiry jobs and a countdown |
| Booking rules and refunds (`bookings.ex`) | bookings, pending refunds | cancel, refund at once or after approval, approve, reject | booking locker, Stripe, ledger | double approval, payment after expiry |
| Webhook inbox (`webhooks.ex`, `stripe/webhook_handler.ex`, `webhooks/reprocessor.ex`) | `webhook_events.state` | store, lock, process, mark, reprocess | Stripe, ledger, subscriptions | duplicates, crash while processing, errors marked as done |
| Ledger (`ledgers.ex`) | payments, refunds, payouts, transactions, entries | record payment, refund, payout, credit; link to payouts | everything with money | check-then-insert idempotency, balanced entries |
| Reconciliation | none of its own | compare ledger with payments | ledger | read only |
| Subscriptions and membership (`subscriptions.ex`, `accounts/membership_cache.ex`) | subscriptions, cache | create, update, cancel, expire; cached lookup | Stripe webhooks, bookings, tickets | stale cache, events out of order |
| Payment methods (`payments.ex`) | payment methods, default | sync, set default | Stripe | exactly one default |
| QuickBooks sync (`quickbooks/*`, workers) | sync status of payments, refunds, payouts, reports | enqueue, sync, fail, retry | QuickBooks | retry of what was already done |
| Expense reports | report status, bill status | submit, approve, reject, sync, pay | QuickBooks webhooks | duplicated bills |
| Messages (`messages.ex`, notifiers) | idempotency keys, jobs | send, retry, requeue | mail and SMS gateways | at most once under retries |
| Rate limiters | counters per window | hit, reset | pages, workers | window edges |
| Accounts, invites, tokens | users, tokens, invites | register, invite, accept, verify | membership | single use, family size |
| Events (`events.ex`) | events, tiers, reservations | edit, publish, reserve | ticket sales | publication by a worker |
| Payment form (`stripe_elements.js`, `checkout_timer.js`, the two checkout pages) | the hook's secret, elements and calls; order, dialog and address of the page | proceed, close, submit, report, expire, rejoin | ticket sales, booking locker, Stripe | state read after `await`, notices without an order, a report only the browser can make |
| Passkeys (`passkey_auth.js`, login and registration pages) | challenge, dialogs, button | press, sign, refuse, verify | the browser's credentials | older dialogs answered late |
| Phone number field (`live_phone.js`, `live_phone.ex`) | two inputs, the list, the component's assigns, the form | type, blur, choose a country, validate | LiveView's input handling | diffs against typing |
| Receipt uploads (`auto_consume_upload.js`, `app.js`, `expense_report_live.ex`) | entries, receipts, buttons, timers | upload, press, attach, cancel | S3 | two pollers for one button, duplicate element ids |
| Event map (`radar.js`, `map_component.ex`) | place, marker, pending marker | push a place, click, retry | the map library | events before the library, stale retries |
| Search lists (`autocomplete.js`, `admin_search.js`) | items, selected index | search, arrows, Enter | booking form, admin search | items replaced under the index |
| Stay calendar (`daterange-hover.js`, `availability_calendar.ex`, `clear_lake_booking_live.ex`) | dates of component and of page, availability loaded | pick, hover, month, reset, guests, back | cabin inventory (reads) | one mailbox, two copies |
| Side panel (`panel_resizer.js`, `admin_user_detail_page.ex`) | width in the DOM and at the LiveView | drag, pick, close | | diffs against a drag |
| Other hooks, code entry | none of their own | scroll, colour, focus | | none worth a model |
| Content, settings, outages, gateways, web interface | tables of content | forms and queries | | none worth a model |

What makes the first components correct:

* *Cabin inventory*: no room, bought-out cabin or bed is given to two live
  bookings; the inventory rows say at least what the live bookings hold; a hold
  ends; what ended stays ended; nothing stays blocked for a booking that is gone.
* *Ticket sales*: a tier is not sold beyond its quantity, or as little beyond it as
  can be; what ends an order takes its seats; reservations are their holder's and are used
  up; what is completed is not expired; orders do not stay pending.
* *Webhooks and ledger*: an event takes effect once however often it is delivered,
  every transaction balances, refunds never exceed the payment.
* *Pages*: what the hook, the DOM and the LiveView each hold agree once nothing is
  on its way; a payment is reported for the order it was made for, and settled or its
  member told that it is not; an expired
  checkout is not payable; nothing waits for ever for a timer, a dialog or a poller.
* *Subscriptions*: an ended membership is not honoured longer than the cache allows.

`PROJECT.json` lists every component with its status, and every hazard with its
line and the properties that watch it.

## 2. Plan

In the order of what a fault costs the club:

1. `BookingLocker` with `CabinStays`, the abstract specification it implements,
   `MCBookingLocker`, `BookingLockerProofs` and `BookingGuestsProofs` (done); `Sums`,
   the lemmas on sums its counters need (done).
2. `TicketSales` with `MCTicketSales` and `TicketSalesProofs` (done). It has no abstract
   specification: whoever sells a ticket counts without a lock, and what it promises
   is a bound on what goes wrong.
3. `WebhookInbox` with `OnceLedger`, the abstract specification it implements,
   `MCWebhookInbox` and `WebhookInboxProofs` (done): the states of a stored event,
   delivered any number of times, processed by several request processes and the
   reprocessor, and what enters the ledger.
4. `CheckoutPage` with `MCCheckoutPage` and `CheckoutPageProofs` (done): the browser's
   half of paying, where the order of `TicketSales` is paid and reported.
5. One module for each page whose hook keeps state the LiveView keeps too:
   `PasskeyCeremony`, `PhoneField`, `ReceiptUploads`, `EventMap`, `ResultList`,
   `StayCalendar`, `SidePanel`, put together by `MCBrowser` (done), with proofs for
   those whose property is an invariant of the data.
6. `Ledger`: the entries as signed amounts, credits and the refunded status of a
   payment; every transaction balances. It refines `OnceLedger`.
7. `BookingCheckout`: booking, payment intent, hold expiry, cancellation and
   pending refunds, composed with the lifecycle of `BookingLocker`.
8. `MembershipCache` and `Subscriptions`, `QuickbooksSync`, `ExpenseReports`,
   `MessageIdempotency`, `FamilyInvites`, rate limiters: one small module each.

Theorems: every safety and action property that a passing run checks is proved
(sections 3 to 7), the refinements included, and one liveness property that needs no
fairness (`LoadedMapHasMarker`). Where the code breaks a property, the property itself or
the theorem's premise names the step that breaks it and allows everything else. Worth proving next: for
the ledger that every transaction balances.

## 3. Cabin inventory: `BookingLocker`

### State

| Variable | Code |
|---|---|
| `propInv[prop][day]` | row of `property_inventory`: whether it exists, `capacity_held`, `capacity_booked`, `buyout_held`, `buyout_booked`, `lock_version` |
| `roomInv[room][day]` | row of `room_inventory`: existence, `held`, `booked`, `lock_version` |
| `status[b]` | `bookings.status`; `"none"` before the insert, `"deleted"` after the delete button |
| `expired` | the holds whose `hold_expires_at` has passed |
| `tx[p]` | what process `p` is doing: the operation, where it is in it, the attempt of `retry_on_stale`, the versions and `capacity_held` it has read, the holds it still has to release |

`Ask[b]` says what request `b` is for (property, mode, member, nights, rooms,
guests); `May[p]` says which operations process `p` runs, so that one module
serves several workloads.

### Transactions as steps

A creation is `BeginCreate`, `EnsureAndRead` (the rows, validated), `CheckOther`
(the second table: a Tahoe buyout looks at the rooms, a room booking at the buyout
flags), then `CommitCreate`, `StaleCreate` (an UPDATE hit no row: roll back and
retry) or, for a room without a price, `CommitUnpriced`. Confirm, release, cancel
and refund read the status (`BeginLifecycle`) and write later (`CommitLifecycle`,
`FailLifecycle`); a confirmation then lists and releases the member's other holds
(`ListOtherHolds`, `ReleaseNext`), the same loop the expiry sweep runs.

Why all writes of a transaction may be one step at its commit: PostgreSQL keeps
the row locks of every UPDATE until the end, and an UPDATE that had to wait
evaluates its WHERE clause on the row as it then is. No other writer can come
between a transaction's first write and its commit on the rows it has written, and
no reader sees them before. The reads are separate steps, so every interleaving
that matters (another transaction commits between the read and the write) is there.
Rows inserted by `ensure_..._inventory_row` and not yet committed make others wait
(`NoInsertPending`).

`AdminMark`, `AdminFindsNoRow` and `AdminInsert` are `create_admin_booking`, which
checks nothing; `MarkRefunded` is the refund form and `DeleteBooking` the delete
button of the admin screen, which leave the inventory alone. `Crash` is a process
that dies or a transaction PostgreSQL picks as a deadlock victim.

### Runs

| Run | Instance | Shows |
|---|---|---|
| `LakeHolds` | Clear Lake, capacity 4, three parties and a buyout for one night, two creating processes, one process for everything else with the refund form of the admin screen | the locker implements `CabinStays`; no overbooking, no guests in a bought-out cabin, counters never below the live bookings |
| `TahoeRooms` | three stays over two rooms and two nights, two creating processes, one worker, one crash | no double booking, nothing blocked for nobody, every hold ends |
| `OneAtATime` | both cabins, every mode, one process | the locker implements `CabinStays` with every clash; the counters are exact |
| `AdminScreens` | one night, an admin who books over members and deletes, pricing that fails, one crash | live bookings keep their marks; a mark without a live booking is one of the three that are left behind |
| `TahoeWriteSkew` | a room and a buyout, two processes | **violated**: both are created (`BuyoutExcludesRooms`) |

Bounds: two attempts of `retry_on_stale` instead of the code's (three in
`OneAtATime` and in the violated run), so that success, one retry and giving up all
occur; one crash where crashes matter; two nights and two rooms, the least for which
a stay can conflict in one night or one room only; capacity 4 with parties of 2, 2
and 1, so that two fit and three do not. Existing rows are any subset of the rows
asked for (`Init`), the state earlier bookings leave behind.

In the passing runs one process at a time works on bookings that exist, beside any
creations (`OneAtATime` has one process for both, and the admin of `AdminScreens` is
that process). The code does not guarantee that, and what follows when it fails is
said below.

### What it promises: `CabinStays`

`CabinStays` is the cabin without inventory tables, versions or processes. Its
only variable is the status of each stay. `Grant` gives a stay in one step, if it
clashes with no live stay and its guests find places on each of its nights; `Pay`,
`GiveBack` and `Delete` move it on. `BookingLocker` implements it with the identity on
`status`; the rows, versions and processes have no counterpart. What clashes is a
constant, given in two ways:

* `StaysGranted`: stays clash that ask for the same room, or of which one buys out a
  cabin in which the other has day guests or a buyout. `CommitCreate` is `Grant`
  although it looks at two table rows per night and at no other booking.
* `StaysGrantedApart`: a room and a buyout of Tahoe clash too. This one does not hold
  when a room and a buyout of one night are created at the same moment
  (`TahoeWriteSkew`), and that is the only way to break it (`LockerKeepsStaysApart`).

Reads, retries, sweeps, crashes and a repeated confirmation are stuttering steps.

### What the code does otherwise than its comments say

Besides the violated run, found while modelling; the counterexamples are TLC's:

* Checkout and sweep can both act on one hold (`bookings/booking_locker.ex:1150`): both
  read `:hold`, and the later one writes over the earlier one's status. A paid booking is
  canceled by the sweep, although the comments of `release_hold` (`:1611`) and of the
  worker (`hold_expiry_worker.ex:6`) speak of holds only, or a released one becomes complete
  and its nights are somebody else's. `LakeHolds` with `May <- Unrestricted`, which lets
  the sweep run beside the checkout, violates each of its properties but `TypeOK`:
  `StaysGranted` and `InventoryCoversBookings`, and then `NeverOverCapacity` and
  `BuyoutExcludesGuests`, since both take the guests from `capacity_held` and the places
  of a third party are given away twice. No theorem of this section covers that race,
  except `TypeCorrect`.
* `confirm_booking` is not idempotent (`booking_locker.ex:1154`): its early return is
  not one, and a second call moves the guests of a day booking again
  (`"reconfirm"`). Later releases can then fail the CHECK constraint for ever.
* `capacity_held` is written from the value read, and confirmations do not change
  `lock_version`: the decrement of a confirmation in between is lost, the places
  stay held.
* A room without a price leaves its nights held (`:524`), and the refund form and the
  delete button never free theirs. `NoOrphanClaim` is checked where none of the three
  is used; `MarksHaveOwners` says that there is no fourth.
* `create_admin_booking` marks only existing rows when some exist (`:1367`), although its
  comment (`:1303`) says that it marks the booking's nights: of two nights of which one
  has a row the other stays for sale. `AdminScreens` with `Day = {1, 2}` and
  `Ask <- RoomAsk` violates `ClaimsMarked`, and `NewHoldsConflictFree` when a member takes
  that night, against "No double-booking possible" (`docs/CONCURRENCY_TESTING.md:70`).
* Two bookings that an admin has put on one room and night share its booked mark,
  and canceling one of them clears it (`:1844`): the other stays complete, and its
  night is for sale. In `AdminScreens` with `cancel` added to what `p2` may do, TLC
  finds `ClaimsMarked` violated after two admin bookings and a cancellation.

### Proofs: `BookingLockerProofs`, `BookingGuestsProofs`

All for any members, bookings, rooms, nights, capacities and processes that meet
`BookingAssumption`. Two assumptions on the workload, and two premises about steps:

| Assumption | Says | Why |
|---|---|---|
| `SerialLifecycle` | one process at a time works on existing bookings, no admin creates; any number of members create | without it the properties fail, as shown above |
| `GuestsAtTheLake` | places are booked at Clear Lake only | the one caller of `create_per_guest_booking` with day guests is Clear Lake's page |
| `[]NeverCrossing` | never are a room and a buyout of a common night being created at the same moment | `TahoeWriteSkew` is the counterexample |
| `[][KeepsCount]_vars` | no step writes a `capacity_held` over a later one, confirms a booking again, or is an admin's button on a day booking | each of the three loses count, above |

The last two are no assumption on how many processes there are: any number of
members create at once, and a behaviour leaves the theorem only at the step that
the code gets wrong. The theorem so says that there is no other way to go wrong.

`TypeCorrect`: `Spec => []TypeOK`, with no assumption, admins and races included. It covers that no
counter goes below zero, which rests on the CHECK constraints of the table
(`ChecksHold`) alone, whatever the processes do.

Under `SerialLifecycle`:

* `ExclusionHolds`, `RoomsExclusive`, `ClaimsAreMarked`: `Spec => []ExclusionInv`,
  `[]NoDoubleBooking`, `[]ClaimsMarked`. `NoDoubleBooking` is not inductive: a
  creation could mark a row that a live booking should have marked but did not, and
  a lifecycle step could act on a booking whose status changed since it was read.
  `ExclusionInv` adds `TxSound` (what a process believes about its booking is true:
  nobody else creates the same request, and a booking about to be changed still has
  the status read) and `ClaimsMarked` (every live room or buyout is marked in the
  inventory). A commit re-evaluates availability (`RowUnchanged`), so by
  `ClaimsMarked` no live booking has the rows; it marks its own.
* `InventoryKeepsUp`, `CapacityKept`: `[]InventoryCoversBookings` and
  `[]NeverOverCapacity`. `capacity_held` is written from the value read (`held =
  seen + guests`), so the argument is `SeenIsEnough`: while a row has the version a
  creation read, its counter has not grown above what was read. It may have shrunk
  (a release changes no version): then the creation writes too much, never too
  little, which is the leak described above and why equality needs `KeepsCount`.
* `BuyoutHasTheLake`, `HoldsRespectBookings` (with `GuestsAtTheLake`):
  `[]BuyoutExcludesGuests` and `NewHoldsConflictFree` (a property of no run, which says
  in terms of bookings what `LockerGrantsStays` says of `CabinStays`). Both rest on `NewHoldIsAlone`:
  by `GuestInv`, what a commit finds free nobody has.

* `LockerGrantsStays` (with `GuestsAtTheLake`): `Spec => StaysGranted`. `Init` maps to
  `Init`; `OthersMoveOn` shows that every step but `CommitCreate` is `Pay`,
  `GiveBack`, `Delete` or a stutter, since by `TxSound` a lifecycle step overwrites the
  status it has read; `CommitCreate` is `Grant`, by `NewHoldIsAlone` for the clashes
  and `PlacesLeft` for the places: the row's counters are at least the guests of the
  night (`GuestsCounted`), and the UPDATE's WHERE clause adds the party to the
  counters. `StaysTaken` shows that both sides count the same guests.

* `MarksOwned`: `[]MarksHaveOwners`, with pricing that may fail, the refund form and the
  delete button. `OwnedInv` says which status owns which mark (a hold mark a hold, a
  booked mark a complete booking, either of them one that is left behind) and that
  marked rows exist, so that the UPDATE that clears them finds them. The proof looks at
  every step that makes or ends a booking; that a mark has one owner only is
  `NoDoubleBooking`, and that nobody creates under a mark is `ClaimsMarked`.
* `RoomsAndBuyoutsApart`: with `[]NeverCrossing`, `[]BuyoutExcludesRooms`. A creation looks
  at the other table a step before it writes; `ScreenInv` keeps what it saw true until
  then against every creation but one on the other side, since a room never sets a
  buyout flag and a buyout never marks a room. With `GuestsAtTheLake` the same invariant
  gives `LockerKeepsStaysApart`: `Spec /\ []NeverCrossing => StaysGrantedApart`.
* `CountersExact`: with `[][KeepsCount]_vars`, `[]ExactCounters`. `ExactInv` adds that a
  booked night has its row (`RowsAreThere`), so that a release finds what it takes from.

The counters are sums over sets of bookings. `Sums` proves what the fold of the
community modules computes on every finite set: the recursive function it is made
of exists (`SolutionExists`), does not depend on the set it starts from
(`IterAgrees`), and so a sum changes by one summand when a member is added, removed
or updated (`SumAdd`, `SumRemove`, `SumUpdate`), and is monotonic (`SumSubset`,
`SumAtMost`). The induction is by the smallest set that violates the claim
(`SmallestSubset`), because the induction theorems of the library take an operator,
which the provers cannot instantiate.

Each strengthening was checked with TLC on the instance of its run before it was
proved; only the properties stayed in the runs. `ClaimsMarked` and `MarksHaveOwners` are
proved without an admin who creates bookings: with one (`AdminScreens`) they are checked,
for one night. `NoOrphanClaim` is checked; what is proved of it is `MarksHaveOwners`.

## 4. Ticket sales: `TicketSales`

### State

| Variable | Code |
|---|---|
| `order[o]` | `ticket_orders.status` |
| `tickets[o][t]` | how many tickets of the order and tier are pending, confirmed, or void (cancelled or expired) |
| `resv[r]`, `Held[r]` | `ticket_reservations` |
| `step[o]`, `found[o]` | where the page's process is: in `atomic_booking` (`tiers`, `event`, `fulfil`, `insert`) or in the processing of a payment (`complete`, `confirm`); the reservations it has read |
| `view[o]`, `intent[o]` | the checkout page; the Stripe payment intent |
| `recorded` | payments in the ledger |
| `due`, `sweep`, `listed` | expired by the clock; read by the running cron job; shown with a cancel button on another page |

`atomic_booking` takes no lock although its functions are named `lock_...`: the
tier check, the event check and the reading of reservations are steps, the inserts
are one step at the commit. Payment is `RecordPayment` (ledger), `CompleteOrder`,
`ConfirmTickets`, three transactions of the page's process, which `LoseCheckout`
may end anywhere. `ConfirmFree` is the button of the free confirmation, which completes
and confirms whatever pending order the page holds: the step is named by the address
(`event_details_live.ex:3402`) and nothing looks at the price on the way
(`:4657`, `tickets.ex:706`), so that an order with a price can be confirmed unpaid, and
nothing here promises that it cannot. An order ends by `CloseCheckout` (also the page's
terminate), `CancelListed` (the My Tickets page, which does not look at the status),
`AdminCancels`, `RefundTickets`, `TimeoutJob` (locks and re-checks), `SweepExpires`
(does not) and `CountdownEnds`. Whether an event or tier is open for sale and
whether the member's membership is active is left to `RollBack`: any checkout may
be refused. `MaxSellers` is the number of checkout transactions that can be open at
once, which in the code is the size of the database pool.

`SubmitPayment` and `StripeSettles` are external, modelled from how the code uses
payment intents: submitted, then succeeded or open again; canceled by expiry unless
it is under way.

### Runs

| Run | Instance | Shows |
|---|---|---|
| `ConcurrentSales` | a checkout of a member with a reservation, which is paid, and a free one of another member, at once; not `Orderly`, fair | whatever ends an order takes all its seats; only the cron job can expire a completed order; reservations stay used up; ticket counts stay right under concurrent refunds; no order stays pending |
| `TwoSellers` | three checkouts, a tier of two places and a donation tier, two checkout transactions at once and `Orderly` | a tier is oversold by no more than one order for each other transaction |
| `Oversell` | two checkout transactions at once | **violated**: `NeverOversold` |

`Orderly` is an assumption on the environment: payments are made before the thirty
minutes are over, nobody acts on an order from elsewhere while its page is open,
and an admin reserves only what is left. It keeps the two instances small whose
property speaks of checkouts alone; everything about payments, ends and jobs is checked
without it in `ConcurrentSales`, and no theorem assumes it.

Two properties of `ConcurrentSales` name the one step that the code gets wrong, and say
that there is no other:

* `EndsGiveSeatsBack` lets a confirmation under way give seats to an order that was ended
  meanwhile. TLC reaches that state: the order is cancelled from the My Tickets page
  between its completion and the confirmation, and `confirm_tickets` (`tickets.ex:1304`)
  then confirms every ticket, whatever its status, so that the order stays cancelled and
  holds seats that may be sold again, although the comment of `cancel_ticket_order`
  (`tickets.ex:269`) says that it releases them. (A late payment revives tickets the same
  way, but completes the order too.)
* `PaidOrdersStay` lets the cron job expire what it has read. TLC reaches that state, too:
  its `FOR UPDATE SKIP LOCKED` (`timeout_worker.ex:161`) runs outside a transaction, the
  locks are gone, and an order that is completed after the read is expired.

What two checkouts of one member that run at once do with one reservation is left out of
`ReservationsUsedUp`: both can read it as active and use it.

Bounds: `ConcurrentSales` has the least that gives every end of an order two actors, and
one order that is paid beside one that is not. `TwoSellers` reaches the bound it checks:
two orders of two for two places, and needs the third order for its mutant.

`1..non_reserved_count` (`tickets/booking_locker.ex:764`) counts down when a
reservation covers the whole order, and two extra tickets are issued although the
comment at `:48` speaks of additional ones only: `Oversell` with `Order = {o1}`,
`Resv = {1}`, `Held <- TwoReserved` and `MaxSellers = 1` violates `NeverOversold` with one
buyer and no race. `OversoldAtMost` therefore counts the orders of buyers for whom nothing is reserved.

### Proofs: `TicketSalesProofs`

All for every value of the constants: any number of checkouts, pages, jobs and
transactions at once, `Orderly` or not. Only the last has a premise.

`TypesHold`: `Spec => []TypeOK`; no ticket count becomes negative.

`CompletedNotExpired`: `Spec => PaidOrdersStay`, whatever is paid late or done from a second
tab. `PageInv` adds what the countdown rests on: an open page that does nothing shows no
completed order, and pages exist only for inserted orders (`PageIsTrue`, `Inserted`).

`ReservationsStayUsed`: `Spec => []ReservationsUsedUp`, with any checkouts at once and an
admin making and cancelling reservations meanwhile. `ReservationInv` adds that what a
checkout has read is its buyer's own (`FoundIsOwn`).

`EndsTakeTheSeats`: `Spec => EndsGiveSeatsBack`: every way to end an order gives back every
seat, confirmed ones too, and a refund ends an order exactly when it takes the last
seat (`RefundOfAll`).

`OversoldWithinPool`: `Spec /\ [][NothingRevived]_vars => []OversoldAtMost`: no confirmation
brings back tickets that were given back, as above, for those seats are counted by
nobody when they are sold again. What was sold
is a sum over orders (`Sums`). The invariant counts for each tier what is sold and what
checkouts past the validation will still take (`BookedAtMost`): the checkout that
passes the validation saw everything but what the other transactions in flight
(`InThePool`) will take.

## 5. Webhooks## 5. Webhooks and the ledger: `WebhookInbox`, `OnceLedger`

### State

| Variable | Code |
|---|---|
| `store[e]` | `webhook_events.state`; `"none"` before the insert |
| `req[p]` | the process: where it is (`at`), its event, what its handler still has to go through (`todo`), what it is about to record (`item`), and whether the operator's task runs it on the stored payload (`again`) |
| `postings[x]` | how many ledger transactions there are for the payment, refund or payout `x`, found by its external id |
| `linked[po]` | `payout_payments` and `payout_refunds` |
| `crashes` | processes that have died |

`Kind[e]` and `About[e]` say what event `e` is and which objects it names; `PaidBy`
and `Settles` are facts at Stripe. Payments are `Invoice` (memberships, recorded
by the webhook under the id of the invoice) or `Intent` (bookings and tickets,
recorded by their pages under the id of the payment intent).

### Actions

`Deliver` is the request with `create_webhook_event!`, which takes every failure of
the insert for a duplicate. `LockEvent`, `LockSkips` and `ClaimEvent` are
`lock_webhook_event_by_provider_and_event_id`: its `FOR UPDATE SKIP LOCKED` runs
outside of a transaction, so the lock ends with the statement, and the UPDATE that
claims the event goes by primary key. Two deliveries can both claim an event; the
model has that. `LookAtInvoice`, `LookAtRefund` and `LookAtPayout` are the handlers
up to what they decide to record, `Post` is the database transaction that records
it, `LinkLine` one balance transaction of a payout, `Raise` an exception anywhere
in a handler, `MarkProcessed` and `MarkFailed` the end of `process_webhook_event`.
`Reprocess`, `BeginReset` and `FinishReset` are the operator's task,
`PageRecordsPayment` and `PageRecordsRefund` the pages that write to the same
ledger. The age check at the head of `process_webhook` is left out: a delivery it
rejects changes nothing, and Stripe is not obliged to deliver.

That the lookup before a refund finds only payments recorded by a payment intent
(`Found`) is the code: `get_payment_by_external_id` is asked for the intent, and a
membership payment is stored under its invoice. Refunds are assumed to name their
payment intent, as those of this application's payments do.

### Abstract specification

`OnceLedger` has one action: a payment, refund or payout is entered if it is not
there yet, a refund only when its payment is. `WebhookInbox` implements it with
the identity on `postings` (`EntersOnce`); everything else it does is a stutter.
What makes it true is not the lock on the event but the unique indexes on the
external ids, which `Post` runs into, and the lookup of the payment before a
refund, which nothing can undo because payments are never deleted.

### Runs

| Run | Instance | Shows |
|---|---|---|
| `StripeDeliveries` | any two of five events (a renewal, a first invoice, `refund.created`, `charge.refunded`, a payout), two processes, the pages and the operator's task | the ledger implements `OnceLedger`; an invoice event marked as processed has its payment; a payout is linked by one process |
| `RefundDeliveries` | the two events that report refunds, one of them two refunds of the payment; one crash; fair | a refund whose payment was there in time is not lost; an event taken up is settled unless a process dies |

Bounds: events meet in pairs only (two for one refund, a refund and the payout that
contains it, one event delivered twice), so two of the five at a time, repeated
without bound, show every meeting; two processes are the least that the lock fails
to keep apart, and the proofs have any number. `MaxCrashes` is 0 in the safety
run because a process may also stop at any place by never being scheduled.
The runs do not check deadlock: a run may end when no more events come.

### What the code does otherwise than its comments say

* The lock does not exclude (above). A second delivery is stopped by the unique
  index instead, raises, and marks the event as failed over the first one's mark.
* An event that is claimed when its process dies stays `:processing`: duplicates
  are skipped and the task looks only at failed ones. `EventsSettle` is therefore
  stated up to a crash.
* An event put back to `:pending` by the task waits for a delivery that the age
  check then rejects; a failed `charge.refunded` is replayed as a map, for which
  only the catch-all matches; a replayed invoice has lost its billing reason.
* A refund that arrives before its payment, and a first invoice that arrives before
  its subscription, are skipped and marked as processed. `RefundsAreNotLost` and
  `ProcessedInvoicesAreRecorded` leave out exactly these.
* Refunds of membership payments and the payout lines of memberships are never
  found; a payout whose linking raised is not linked when it is handled again.

### Proofs: `WebhookInboxProofs`

For every value of the constants that meets `InboxAssumption`. `InboxInv` joins
the types, `ProcessesSound` (a process that handles an event has only that event's
objects before it; one that is about to record a refund has its payment in the
ledger, one that links has its payout there; a handler that has let go of an
invoice that names its subscription finds it recorded),
`ProcessedInvoicesAreRecorded` and `OneLinker`. The last two are not inductive alone:
a mark as processed is right only because of what the process did before, and a link
only because of its own insert.

`LedgerEntersOnce`: `Spec => EntersOnce`, by showing that every action is a step of
`OnceLedger` or leaves `postings` alone. `InvoicesRecorded`, `PayoutsLinkedByOne`
and `InboxTypes` follow from the invariant. `RefundsRecorded` is an "always from
then on" formula: once the payment is there and the event is not, an invariant of
its own holds from then on, in which every process that handles the event has the
refund before it or has seen it recorded.

## 6. Paying in the browser: `CheckoutPage`

One tab with the ticket checkout (`event_details_live.ex`) or the booking checkout
(`booking_checkout_live.ex`), from the browser's side. `TicketSales` takes from here
that a payment can be submitted, settled late, lost or reported; this module has
the reasons.

### State

| Variable | Code |
|---|---|
| `page` | which of the two LiveViews |
| `order`, `url`, `dialog`, `redirecting` | its assigns: the order or booking, the order named in the address, `show_payment_modal` or `show_payment_form`, `payment_redirect_in_progress` |
| `status`, `intent`, `late` | the order in the database, its payment intent, whether its `expires_at` has passed |
| `unsettled` | the orders whose payment was reported in vain, which the page says |
| `news` | broadcasts of ended orders that wait in the LiveView's mailbox |
| `up`, `down` | the channel: events to the LiveView, diffs to the DOM (the order whose form they show) |
| `shown`, `mounted`, `content`, `button` | the form in the DOM, the hook instance on it, whether `#payment-element` has content, whether the pay button is enabled |
| `hook[i]` | `clientSecret`, the secret of `elements`, the secret of an `initializeStripe` under way, whether its listener is bound and `destroyed` ran |
| `ticking` | the order that the interval of the checkout timer counts for |
| `call[c]` | a call of `handleSubmit`: whose, for which secret, and where it waits |

### Actions

Every `await` of the hook is the border of two actions: `initializeStripe` is a part
of `Patch` and `FinishInit`; `handleSubmit` is `Submit`, `Remounted`, `Confirm` and
`Confirmed` (or `StripeRefuses`, or the catch clause `Fails`). `Patch` applies one
diff and runs what the two hooks do about it (`mounted`, `updated`, `destroyed`):
`Updated` is the rule that a new secret is taken only while there are no elements.
`Tick` is `updateTimer` when the time is up. The LiveView's handlers are
`HandleProceed` (the click makes the order and its intent), `HandleClose`,
`HandleRedirect`, `HandleSuccess`, `HandleExpired`, `LearnEnded` (the two PubSub
messages), `CheckBooking` (every five seconds), `Touch` (any other handler that
renders again). A reported payment (`HandleSuccess`) is `Settled`, or it is `NotSettled`: Stripe cannot be
asked, the ledger or the confirmation fails, and the order stays pending, on the
ticket page without its dialog (`event_details_live.ex:6026`), on the booking page with
the form as it was (`booking_checkout_live.ex:1753`); or, for tickets whose registration
is missing or cannot be saved, nothing is processed at all (`NotRegistered`). Each says so to the
member, and nothing tries again. `Reconnect` is a lost connection: the old LiveView's `terminate/2`
cancels the order of an open dialog (`Abandons`), unless Stripe does not answer it, the new one
restores the order in the address if it is still pending and Stripe answers, and either may
come first. An order has one intent for good, because `create_payment_intent` passes
the order's reference as its idempotency key (`stripe_service.ex:71`), for which Stripe
returns the intent it has made before. `SweepExpires`
and `OrderTimesOut` are the cron job and the clock; `StripeCharges` is Stripe.

### The run

`CheckoutForm`: two orders, so that one can be on the page when news of the other
comes; two clicks, so that submissions overlap; three forms; at most three orders
and clicks together, one diff or reconnection without cause, one message under way
when the member closes. Its properties:

* `SuccessNamesPaid`: what `payment-success` names was charged, although the hook
  reads its secret only after `confirmPayment` returned (`stripe_elements.js:353`)
  and a double click on "Proceed" may have put another order into the form.
* `NoticeEndsLateOrder`: `checkout-expired` carries no order, and still only ends one
  that is late, for the timer of a form dies with it.
* `PaidIsTold`: a charge is settled, or its member told that it is not, while the form
  stays and the connection lasts. Both exceptions are real losses: nothing else in the
  code recovers the report. That a charge is settled in the end is false of the code.
* `LateFormGoes`: a form does not stay payable once its time is up.

### Proofs: `CheckoutPageProofs`

`CheckoutTypes` and `ReportsArePaid`: `Spec => []TypeOK` and `Spec =>
[]SuccessNamesPaid` for any number of orders, clicks and forms. The inductive
invariant `FormInv` adds `HooksAgree` (a live hook's elements are of the secret it
has; a hook listens to the button only once it has elements), `CallsAgree` (a
submission is that of a hook whose elements are what Stripe was given, unless the
hook is gone) and `FormMounted`. One lemma per action; the channel is dealt with by
`TailOf` and `AppendOf`.

`NoticesEndTheLate`: `Spec => NoticeEndsLateOrder`. The notice names no order, so what
it ends depends on everything it is behind. `NoticeInv` says, for the ticket page:
what the LiveView holds or the address names is late, or else no notice is on its
way and nothing late is shown or will be by the diffs under way; once a diff
empties the page it shows nothing late again (`EmptiedForGood`), hence a click that
opens the next order is sent behind every notice of the last (`ProceedsLast`); the
last diff shows what the LiveView has (`ShowsLast`), so an order that runs out while
no diff is under way is the one shown. On the booking page the timer never runs.
`NoticeInv` was checked with TLC on `CheckoutForm` with both bounds `MaxLag` and
`MaxUpset` at 2 (5 million states) before it was proved.

### Assumed, left out

An order does not run out while the click that opens it or the diff that answers
it is still under way: a hold lasts for minutes. The browser's clock is the
server's; one that is fast ends checkouts early. Tickets that need a registration
form, prices, and payment methods that leave the page are left out, so is a second
Stripe element in one container. No webhook completes an order: that of a payment
only logs it.

## 7. Pages with a hook of their own: `MCBrowser`

Seven modules, each a hook of `assets/js` with its component and its LiveView.
`MCBrowser` opens one of them (`tab`) and lets it run; the pages share nothing. All
have the same shape: events on their way to the LiveView, diffs on their way to
the DOM, and two or three copies of one fact that must agree in the end.

| Module | Two copies of one fact | What happens to them |
|---|---|---|
| `PasskeyCeremony` | `loading` and `challenge` at the LiveView; the button and the browser's dialogs | `PressKey`, `HandlePress` (a challenge), `AskBrowser`, `BrowserSigns`, `BrowserRefuses`, `HandleCredential`, `HandleKeyError`, `HandleSupport`, `RejoinKeys` |
| `PhoneField` | `formatted` of the component, the hidden input, the number in the page's form; the text the member sees | `TypeText`, `Debounced`, `LeaveText`, `FocusText`, the keys of the country list (`ShiftSelected`, `TypeAhead`, `EnterCountry`, ...), `HandleTyping`, `HandleList`, `HandleValidate`, `PatchPhone` |
| `ReceiptUploads` | the upload entries; the receipts of the rows; what the DOM shows of both | `HookChecks` and `IntervalChecks` (the pollers), `Clicks` (their timers), `HandleConsume`, `HandleCancel`, `CancelTooLate` (the LiveView crashes), `DrawUploads` |
| `EventMap` | the place at the LiveView; the marker on the map; the place a retry waits with | `InitRadar`, `MapLoads`, `AddMarker`, `RetryMarker`, `GiveUp`, `ClickMap`, `RemoveMarker`, `PushPlace`, `MovePlace`, `SaveSpot`, `UnknownEvent` |
| `ResultList` | the items at the LiveView and in the DOM; the selected index and the item that looks selected | `TypeQuery`, `ArrowDown`, `ArrowUp`, `Pick`, `Open`, `ClearSelection`, `Escape`, `AskClear`, `HandleSearch`, `HandleSelect`, `HandleClear`, `HandleEscape`, `DrawResults` |
| `StayCalendar` | the dates of the component and of the page; the availability that is loaded | `PickDate`, `CursorMove`, `ShowMonth` (component), `DateChanged`, `ResetDates`, `ChangeGuests`, `HandleParams`, `RejoinCalendar` (page), the mouse |
| `SidePanel` | the width at the LiveView and in the DOM | `Grip`, `Drag`, `Drop`, `ShowPanel`, `PickNotice`, `HandlePick`, `HandleResize`, `RejoinPanel` |

The run `BrowserPages` checks

* `CeremonyEnds`: the passkey button does not stay disabled, whatever dialogs are
  open when it is pressed again;
* `FormHearsNumber`: a number that the component sets is the one the form holds
  once nothing is under way;
* `AttachedOnce`, `UploadSettles`: a file is the receipt of one row at most, and a
  finished one is attached or dropped while a row needs it;
* `LoadedMapHasMarker`: a place that a locked map waits with is marked once the map
  has loaded, also after the retries gave up;
* `LitIsTaken`: Enter takes the item that looks selected, also after the list was
  replaced under the selection;
* `CalendarAgrees`: without a change under way calendar and page have the same dates;
* `PanelAgrees`: with nothing under way the panel is as wide as the LiveView believes.

Bounds (`BrowserPages.cfg`): two presses and one lost connection for the passkey, so
that an older dialog can answer; two letters or keys and one toggle for the phone,
over three country names that share first letters; two rows and two files; two places, one repeated
push and two moves; four searches over lists of lengths zero, one and two, of which
two have the same length; four days in two months, stays of at most two nights and
two numbers of guests, one of which finds a night full, with four actions of the
member; two notices, two widths, two grips and three visits. Each bound is the
least with which the case the property is about occurs; the cases' mutants fail.

Deadlock is not checked here and in `CheckoutForm`: a page may come to rest.

### Assumed, left out

* Every enabled day can be clicked; Tahoe's Saturday rule and the seasons' other
  rules come down to `FreeDays` and `MaxNights`. The branches of `pick-date` for the
  arrival day and for a day before it (`availability_calendar.ex:377-391`) cannot be
  reached: the check at its head has turned both away.
* No page sets `apply_format?`, so the phone field has no masks.
* A map that has loaded stays loaded. There is one mouse, and its button is let go
  in the end. A diff of the side panel follows only a change of its assigns; no width
  at all and the template's 40% are one value, `Template`.
* The country list of the phone field and the hover and months of the calendar are
  modelled as far as they move the data the two properties compare: type-ahead and
  arrows choose a country, which sets the number; a hover re-renders the component and a
  month reloads its availability.
* Conversions between base64 and buffers, the drawing of days, galleries, scrolling,
  colours, and the boxes of the six-digit code.

### Proofs: `StayCalendarProofs`, `HookProofs`

`StayCalendarProofs`: `CalendarAlwaysAgrees`. `CalendarAgrees` says nothing while a
change waits in the mailbox, so it is not inductive; `CalendarInv` adds
`NewestOrPage`: the component has the dates of the newest `dates` message in the
mailbox, or those of the page (a render may have come before the message). Every
change of the component appends one; every handler of the page that changes its
dates renders the component, which then has the page's.

`HookProofs` has six parts, one for each of six hooks:

* `PanelAlwaysAgrees`. `PanelInv` has the types, `LastIsNews` (the last diff under way is
  the LiveView's state) and `Settles` (with no diff under way the DOM has the
  LiveView's width, or the mouse holds the edge, or the newest width on its way to
  the LiveView is that of the DOM).
* `LitIsAlwaysTaken`. `ListInv` says that an index that is set points at an item that is
  shown and lit, and that `Autocomplete` has counted the items that are shown: it
  keeps its index over a new list only when the counts are equal, and then the index
  is still inside.
* `ReceiptsAttachedOnce`. The invariant adds that what a row has is no upload any more
  (`AttachedGone`): the file leaves the uploads in the step that attaches it, so any
  press that comes later finds nothing.
* `FormAlwaysHears`. `FormHearsNumber` speaks of the moment when nothing is under way;
  `PhoneInv` says what leads there: of all announcements under way, in a diff or as
  a change of the form, the last carries the component's number (`Told`), and the
  last diff shows it (`LastPatchShows`). It needs that an announced number has its
  country (`Normal`), for the component would give one without a country another when
  the form returns it. `LastTail`, `LastAppend` and `LastConcat` are the lemmas on the
  last message of a kind in a queue.
* `LoadedMapMarksPlace`: a leads-to that needs no fairness, because its premise asks
  for a map that waits and is loaded in the end. `MapInv` says that a place which
  waits is not overtaken by an event without a place (`PlacedStay`, `NoneBehindWaiting`)
  and waits only while the map has not loaded; the step that loads it takes what
  waits, and a map that has loaded stays loaded.
* `DisabledKeyIsAnswerable`, the safety half of `CeremonyEnds`: a disabled button has a
  dialog, an event or a diff under way. `KeyInv`: the last diff under way shows what the
  LiveView has, and while the LiveView waits a dialog is open, asked for by a diff, or
  answered. That each of these is delivered is the fairness, and stays with TLC.

### What the code does otherwise than one would wish

Not contradictions of a comment, but seen while modelling and left as they are:

* `UnknownEvent`: an `add-marker` pushed before the map library arrived is lost; the
  hook then takes the map of a locked page for an open one, and a click sends that page's
  LiveView an event it has no clause for.
* `CancelTooLate`: a Cancel that meets an attachment raises, and the receipts of the
  whole page are lost.
* After a reconnection the passkey button stays hidden until the page is loaded
  again; a second press makes the answer to the first one's dialog fail.
* `select_country` keeps the number of the old country until the text is typed or
  left; letters typed into the text count for the list's type-ahead; the call
  `setFocus()` after Enter (`live_phone.js:254`) lacks its argument.
* In the admin search, Enter within the debounce opens the first result of the
  query before. Escape pushes `close_results` to the dashboard (`admin_search.js:84`), not to
  the component that has the clause for it (`admin_search.ex:227`): the dashboard has none, and
  the page crashes and mounts anew (`HandleEscape`), which hides the list as well.
* A change of month reloads the days without those around the selection.

## 8. Fairness

`FairSpec` of `BookingLocker`: weak fairness of each process's steps (the BEAM
schedules a process that has work, and PostgreSQL answers), of the sweep (cron
every five minutes) and of the clock. `FairSpec` of `TicketSales`: weak fairness of
the steps of a page's process, of Stripe's answers, of the clock, of the job
scheduled for each order and of the cron job (Oban runs jobs at least once). `FairSpec`
of `WebhookInbox`: weak fairness of each process's work only; Stripe need not
deliver again and no operator need run the task. No member, admin or payment is
assumed to be fair.

`CheckoutPage`: weak fairness of the LiveView's handling of events and of its
five-second check, of applying diffs, of the timer and of the steps of a submission
that depend on the event loop alone. Stripe need not answer, the sweep need not
come, the member need do nothing. `MCBrowser`: the LiveView handles its events and
diffs are applied (passkeys, uploads), the browser's dialog ends (the options carry a
timeout), the interval of `app.js` and the clicks it has scheduled run. The other
pages need none: `LoadedMapHasMarker` holds without fairness once the map has loaded.

## 9. What is only model-checked, and what is not modelled

Liveness (`HoldsEnd`, `OrdersEnd`, `EventsSettle`, `PaidIsTold`, `LateFormGoes`,
`CeremonyEnds`, `UploadSettles`) stays with TLC: fairness and ENABLED are out of the
prover's reach; `LoadedMapHasMarker` needs neither and is proved. Of the safety and
action properties that passing runs check all are proved but `NoOrphanClaim` and, with
an admin who books (`AdminScreens`), `ClaimsMarked` and `MarksHaveOwners`. The two violated
runs and the counterexamples of sections 3 and 4 are where the code breaks a property, and
the premises of those sections leave out no more than the steps that break it.
`SerialLifecycle` alone is larger than its counterexample: what two processes do to one
booking is not covered by a theorem other than `TypeCorrect`.

Left out of the models: amounts of money and the entries of ledger transactions,
the Stripe events that write nothing to the ledger, prices, discounts, e-mails, reminders, PubSub beyond the news
of ended checkouts,
telemetry, registration forms, blackout editing while bookings are made,
the operator's mix tasks. Components not modelled yet are in the plan; content
management, gateways, the outage scraper and the hooks that only display have no
state protocol and will stay out.

Hazards seen in the code that `PROJECT.json` does not list, being of less weight: the
offset of the timeout job's batches advances over a set that shrinks by the batch
just expired, so every second batch waits for the next run; a reservation past its
`expires_at` can be neither fulfilled nor cancelled (`ticket_reservation.ex:87`); every
failure to insert a webhook event is reported as a duplicate (`webhooks.ex:24`); a payout
whose handler raised after recording it is not linked later (`webhook_handler.ex:1162`);
the membership cache may honour a membership that has ended until it is read again.

## 10. Running

    tlc -workers 2 -config LakeHolds.cfg MCBookingLocker.tla
    tlc -workers 2 -config ConcurrentSales.cfg MCTicketSales.tla
    tlc -workers 2 -config StripeDeliveries.cfg MCWebhookInbox.tla
    tlc -workers 2 -config CheckoutForm.cfg MCCheckoutPage.tla
    tlc -workers 2 -config BrowserPages.cfg MCBrowser.tla
    tlapm Sums.tla
    tlapm BookingLockerProofs.tla
    tlapm BookingGuestsProofs.tla
    tlapm TicketSalesProofs.tla
    tlapm WebhookInboxProofs.tla
    tlapm CheckoutPageProofs.tla
    tlapm StayCalendarProofs.tla
    tlapm HookProofs.tla

Each definition marked *Mutant* is a plausible bug in the definition that follows
it; the table `mutants` of `PROJECT.json` says which property finds it.
