----------------------------- MODULE CheckoutPage -----------------------------
(***************************************************************************)
(* The payment form of one browser tab and the LiveView behind it: the     *)
(* Stripe hook (assets/js/stripe_elements.js), the checkout timer          *)
(* (checkout_timer.js), and the handlers of event_details_live.ex and      *)
(* booking_checkout_live.ex that they talk to.  A hook runs on the         *)
(* browser's event loop: it is atomic up to its next await.  Events and    *)
(* diffs travel in order on one channel, which may drop and rejoin.        *)
(***************************************************************************)
EXTENDS Naturals, Sequences, FiniteSets

CONSTANTS
  Order,       \* orders this tab may open, numbered in that order, each with
               \* a payment intent of its own
  Click,       \* the clicks on the pay button, numbered alike
  Form,        \* the payment forms mounted in the tab, numbered alike
  None,
  MaxActs,     \* bound: orders opened and submissions made, together
  MaxLag,      \* bound: messages on their way when the member closes the form
  MaxUpset     \* bound: diffs that change nothing of the form, lost connections

ASSUME NumbersAssumption == /\ Order \subseteq Nat /\ Click \subseteq Nat /\ Form \subseteq Nat
                            /\ None \notin Order \cup Form

VARIABLES
  page,        \* "ticket" or "booking": which LiveView this is
  order,       \* @ticket_order or @booking
  url,         \* the order that the page's address names
  dialog,      \* @show_payment_modal, @show_payment_form
  redirecting, \* @payment_redirect_in_progress
  status,      \* status[o] in the database
  unsettled,   \* orders whose payment was reported in vain: the page says so
  news,        \* orders whose end is broadcast and waits in the mailbox
  up, down,    \* events to the LiveView, forms to show
  intent,      \* Stripe's payment intents
  late,        \* orders past expires_at
  shown,       \* the order of the form in the DOM
  mounted,     \* the form in the DOM, an instance of the Stripe hook
  hook,        \* the instance of each form, see NoHook
  content,     \* #payment-element has content
  button,      \* the pay button is enabled
  ticking,     \* the order the interval of the checkout timer counts for
  call,        \* calls of handleSubmit
  touches, drops \* how many there were of each

server  == <<page, order, url, dialog, redirecting, status, unsettled, news>>
browser == <<shown, mounted, hook, content, button, ticking, call>>
vars    == <<server, up, down, intent, late, browser, touches, drops>>

Maybe == Order \cup {None}

\* this.clientSecret, the secret of this.elements, the local clientSecret of
\* an initializeStripe under way, and whether its listener and destroyed ran.
NoHook == [secret |-> None, elements |-> None, want |-> None,
           bound |-> FALSE, gone |-> FALSE]

Idle == [by |-> None, of |-> None, at |-> "idle"]
Done == [by |-> None, of |-> None, at |-> "done"]

Msg(kind, o) == [kind |-> kind, o |-> o]
Message == [kind : {"proceed", "close", "redirect", "success", "expired"}, o : Maybe]

Awaiting(kind) == up # <<>> /\ Head(up).kind = kind

\* The form the template renders.
View(d, o) == IF d THEN o ELSE None

-----------------------------------------------------------------------------
(* The LiveView *)

HandleProceed(o) ==
  /\ Awaiting("proceed") /\ status[o] = "none"
  /\ \A p \in Order : p < o => status[p] # "none"
  /\ status' = [status EXCEPT ![o] = "pending"]
  /\ order' = o /\ url' = o /\ dialog' = TRUE /\ redirecting' = FALSE
  /\ up' = Tail(up) /\ down' = Append(down, o)
  /\ UNCHANGED <<page, unsettled, news, intent, late, browser, touches, drops>>

\* close-payment-modal cancels the order, not its payment intent;
\* cancel-booking is refused once the hold is gone, and a page that leads
\* away, as a lost booking's does, hears nothing any more.
HandleClose ==
  /\ Awaiting("close")
  /\ IF page = "booking" /\ (order = None \/ status[order] # "pending")
     THEN UNCHANGED <<order, url, dialog, redirecting, status, news>>
     ELSE /\ status' = IF order = None THEN status
                       ELSE [status EXCEPT ![order] = "cancelled"]
          /\ news' = IF page = "ticket" THEN news \cup ({order} \ {None}) ELSE news
          /\ url' = IF page = "ticket" THEN None ELSE url
          /\ order' = IF page = "ticket" THEN None ELSE order
          /\ dialog' = FALSE /\ redirecting' = FALSE
  /\ up' = Tail(up) /\ down' = Append(down, View(dialog', order'))
  /\ UNCHANGED <<page, unsettled, intent, late, browser, touches, drops>>

HandleRedirect ==
  /\ Awaiting("redirect")
  /\ redirecting' = (redirecting \/ page = "ticket")
  /\ up' = Tail(up)
  /\ UNCHANGED <<page, order, url, dialog, status, unsettled, news, down, intent, late,
                 browser, touches, drops>>

\* process_payment_success, then a redirect: a ticket order is completed
\* whatever its status, a booking only while it may still be paid.
Settled(o) ==
  /\ page = "booking" => o \notin late /\ status[o] \notin {"cancelled", "expired"}
  /\ status' = [status EXCEPT ![o] = "completed"]
  /\ dialog' = FALSE
  /\ order' = IF page = "ticket" THEN None ELSE order
  /\ url' = IF page = "ticket" THEN None ELSE url
  /\ UNCHANGED unsettled

\* Stripe cannot be asked, the ledger or the confirmation fails, or the hold
\* is over: the member reads so, on tickets without the dialog, which then
\* belongs to no form but keeps its order, on a booking beside the form.
NotSettled(o) ==
  /\ unsettled' = unsettled \cup {o}
  /\ dialog' = (dialog /\ page = "booking" /\ o \notin late)
  /\ UNCHANGED <<order, url, status>>

\* The tickets' registration is not complete, or not saved: nobody asks Stripe.
NotRegistered(o) ==
  /\ page = "ticket"
  /\ unsettled' = unsettled \cup {o}
  /\ UNCHANGED <<order, url, dialog, status>>

HandleSuccess ==
  /\ Awaiting("success")
  /\ LET o == Head(up).o IN Settled(o) \/ NotSettled(o) \/ NotRegistered(o)
  /\ up' = Tail(up) /\ down' = Append(down, View(dialog', order'))
  /\ UNCHANGED <<page, redirecting, news, intent, late, browser, touches, drops>>

CancelledIntent(o) ==
  IF intent[o] = "paid" THEN intent ELSE [intent EXCEPT ![o] = "cancelled"]

\* checkout-expired: whatever order the LiveView holds now.
HandleExpired ==
  /\ Awaiting("expired")
  /\ IF order = None THEN UNCHANGED <<status, intent, news>>
     ELSE /\ status' = [status EXCEPT ![order] = "expired"]
          /\ intent' = CancelledIntent(order)
          /\ news' = news \cup {order}
  /\ order' = None /\ url' = None /\ dialog' = FALSE
  /\ up' = Tail(up) /\ down' = Append(down, None)
  /\ UNCHANGED <<page, redirecting, unsettled, late, browser, touches, drops>>

\* CheckoutSessionExpired and CheckoutSessionCancelled: for the order on the
\* page and for any other alike, the page forgets the order it holds.  The
\* dialog stays for the page's own order, to say that its time is up, and
\* after an expiry also when there is none.  The address stays.
LearnEnded(o) ==
  /\ o \in news
  /\ news' = news \ {o}
  /\ dialog' \in {dialog /\ order = o, dialog /\ order \in {o, None}}
  /\ order' = None
  /\ down' = Append(down, None)
  /\ UNCHANGED <<page, url, redirecting, status, unsettled, up, intent, late, browser,
                 touches, drops>>

\* check_booking_expiration, every five seconds.
CheckBooking ==
  /\ page = "booking" /\ order \in late /\ dialog
  /\ dialog' = FALSE
  /\ down' = Append(down, None)
  /\ UNCHANGED <<page, order, url, redirecting, status, unsettled, news, up, intent,
                 late, browser, touches, drops>>

\* Any other event that re-renders: availability, price details, a flash.
Touch ==
  /\ touches + drops < MaxUpset
  /\ touches' = touches + 1
  /\ down' = Append(down, View(dialog, order))
  /\ UNCHANGED <<server, up, intent, late, browser, drops>>

-----------------------------------------------------------------------------
(* The connection *)

\* terminate/2 cancels the order of an open dialog, unless a redirect was
\* announced or Stripe has the payment in hand.
Abandons ==
  /\ page = "ticket" /\ dialog /\ order # None /\ ~redirecting
  /\ intent[order] # "paid"
  /\ \A c \in Click : call[c].at = "confirming" => call[c].of # order

\* The new LiveView restores a pending order from the URL; it may do so
\* before or after the old one is told that its socket is gone.  Stripe may be
\* out of reach of either: the old one then cancels nothing (asked), the new
\* one has no form to show (offered).  It never has a second intent for the
\* order: the idempotency key of create_payment_intent is the order's.
Reconnect ==
  /\ touches + drops < MaxUpset
  /\ drops' = drops + 1
  /\ up' = <<>>
  /\ \E before, asked, offered \in BOOLEAN :
       LET leaves == Abandons /\ asked
           after  == IF leaves THEN [status EXCEPT ![order] = "cancelled"] ELSE status
           read   == IF before THEN status ELSE after
           kept   == url # None /\ read[url] = "pending" /\ url \notin late
       IN /\ status' = after
          /\ news' = news \cup (IF leaves /\ before THEN {order} ELSE {})
          /\ order' = IF kept /\ (offered \/ page = "booking") THEN url ELSE None
          /\ url' = order'
          /\ dialog' = (kept /\ offered)
          /\ down' = <<View(dialog', order')>>
  /\ redirecting' = FALSE
  /\ UNCHANGED <<page, unsettled, intent, late, browser, touches>>

-----------------------------------------------------------------------------
(* Time, the sweep and Stripe, whose webhook for a payment only logs it *)

\* A hold lasts for minutes: no order runs out while a click to open one, or
\* the diff that answers it, is still on its way.
OrderTimesOut(o) ==
  /\ status[o] # "none" /\ o \notin late
  /\ down = <<>> /\ \A i \in DOMAIN up : up[i].kind # "proceed"
  /\ late' = late \cup {o}
  /\ UNCHANGED <<server, up, down, intent, browser, touches, drops>>

SweepExpires(o) ==
  /\ o \in late /\ status[o] = "pending"
  /\ status' = [status EXCEPT ![o] = "expired"]
  /\ intent' = CancelledIntent(o)
  /\ news' = IF page = "ticket" THEN news \cup {o} ELSE news
  /\ UNCHANGED <<page, order, url, dialog, redirecting, unsettled, up, down, late,
                 browser, touches, drops>>

StripeCharges(c) ==
  /\ call[c].at = "confirming" /\ intent[call[c].of] = "open"
  /\ intent' = [intent EXCEPT ![call[c].of] = "paid"]
  /\ call' = [call EXCEPT ![c].at = "paid"]
  /\ UNCHANGED <<server, up, down, late, shown, mounted, hook, content, button,
                 ticking, touches, drops>>

-----------------------------------------------------------------------------
(* The hooks *)

\* initializeStripe up to its wait for window.Stripe.
Started(h, o) == [h EXCEPT !.secret = o, !.want = o]

\* Mutant: a new secret is taken by a hook that has elements, too.
UpdatedAlways(h, o) ==
  IF h.want = None /\ o # h.secret THEN Started(h, o) ELSE h

\* updated(): a new secret is taken only while there are no elements.
Updated(h, o) ==
  IF h.want = None /\ o # h.secret /\ h.elements = None THEN Started(h, o) ELSE h

\* The elements are made for the secret initializeStripe began with; what a
\* destroyed hook still makes, nobody reads.
Prepared(h) ==
  IF h.gone THEN [h EXCEPT !.want = None]
  ELSE [h EXCEPT !.want = None, !.bound = TRUE,
          !.elements = IF @ = None THEN h.want ELSE @]

Unprepared(h) == [h EXCEPT !.want = None]

Destroyed(h) == [NoHook EXCEPT !.want = h.want, !.gone = TRUE]

\* Mutant: the interval outlives its element.
TimedOn(now) == IF now = None THEN ticking ELSE now

\* initializeTimer and destroyed of the checkout timer.
Timed(now) == IF page = "ticket" THEN now ELSE None

\* The forms are mounted in order, so that each is a new instance.
Fresh(i) == /\ hook[i] = NoHook
            /\ \A j \in Form : j < i => hook[j] # NoHook

\* A diff is applied: the old form is destroyed, a new one mounted, or the
\* one there updated, which enables the button and starts the timer again.
Patch ==
  /\ down # <<>> /\ down' = Tail(down)
  /\ shown' = Head(down)
  /\ LET now  == Head(down)
         same == shown # None /\ now # None
     IN /\ IF same
           THEN /\ hook' = [hook EXCEPT ![mounted] = Updated(@, now)]
                /\ UNCHANGED mounted
           ELSE IF now = None
           THEN /\ mounted' = None
                /\ hook' = [i \in Form |-> IF i = mounted THEN Destroyed(hook[i])
                                          ELSE hook[i]]
           ELSE \E i \in Form :
                  /\ Fresh(i) /\ mounted' = i
                  /\ hook' = [hook EXCEPT ![i] = Started(@, now)]
        /\ content' = (same /\ content /\ page = "ticket")
        /\ button' = (now # None)
        /\ ticking' = Timed(now)
        /\ up' = IF now \in late /\ page = "ticket"
                 THEN Append(up, Msg("expired", None)) ELSE up
  /\ UNCHANGED <<server, intent, late, call, touches, drops>>

\* The rest of initializeStripe, five seconds later at most; without
\* window.Stripe, its key or the container, it only shows a message.
FinishInit(i) ==
  /\ hook[i].want # None
  /\ \/ /\ shown # None
        /\ content' = TRUE
        /\ hook' = [hook EXCEPT ![i] = Prepared(@)]
     \/ /\ hook' = [hook EXCEPT ![i] = Unprepared(@)]
        /\ UNCHANGED content
  /\ UNCHANGED <<server, up, down, intent, late, shown, mounted, button, ticking,
                 call, touches, drops>>

\* The button is disabled and the LiveView told that a redirect may follow.
Announce(c, i) ==
  /\ call' = [call EXCEPT ![c] = [by |-> i, of |-> None, at |-> "announced"]]
  /\ button' = (button /\ i # mounted)
  /\ up' = Append(up, Msg("redirect", None))

Acts ==
  Cardinality({o \in Order : status[o] # "none"}) +
  Cardinality({i \in DOMAIN up : up[i].kind = "proceed"}) +
  Cardinality({c \in Click : call[c].at # "idle"})

\* handleSubmit: an emptied container is mounted again, and given a moment,
\* before the button is disabled.
Submit(c) ==
  /\ call[c].at = "idle" /\ button /\ Acts < MaxActs
  /\ \A d \in Click : d < c => call[d].at # "idle"
  /\ mounted # None /\ hook[mounted].bound
  /\ IF content
     THEN Announce(c, mounted) /\ UNCHANGED content
     ELSE /\ call' = [call EXCEPT ![c] = [by |-> mounted, of |-> None, at |-> "mounting"]]
          /\ content' = TRUE
          /\ UNCHANGED <<button, up>>
  /\ UNCHANGED <<server, down, intent, late, shown, mounted, hook, ticking, touches, drops>>

Remounted(c) ==
  /\ call[c].at = "mounting"
  /\ Announce(c, call[c].by)
  /\ UNCHANGED <<server, down, intent, late, shown, mounted, hook, content,
                 ticking, touches, drops>>

\* The catch clause and Stripe's refusals give the button back.
Fails(c) ==
  /\ call' = [call EXCEPT ![c] = Done]
  /\ button' = (button \/ call[c].by = mounted)

\* 100 ms later; a destroyed hook has no Stripe object left.
Confirm(c) ==
  /\ call[c].at = "announced"
  /\ IF hook[call[c].by].gone
     THEN Fails(c)
     ELSE /\ call' = [call EXCEPT ![c] =
               [by |-> @.by, of |-> hook[@.by].elements, at |-> "confirming"]]
          /\ UNCHANGED button
  /\ UNCHANGED <<server, up, down, intent, late, shown, mounted, hook, content,
                 ticking, touches, drops>>

StripeRefuses(c) ==
  /\ call[c].at = "confirming"
  /\ Fails(c)
  /\ UNCHANGED <<server, up, down, intent, late, shown, mounted, hook, content,
                 ticking, touches, drops>>

\* Mutant: a success is reported only while the button is disabled.
ConfirmedLocked(c) ==
  /\ call[c].at = "paid"
  /\ call' = [call EXCEPT ![c] = Done]
  /\ up' = IF hook[call[c].by].gone \/ button THEN up
           ELSE Append(up, Msg("success", hook[call[c].by].secret))
  /\ UNCHANGED <<server, down, intent, late, shown, mounted, hook, content,
                 button, ticking, touches, drops>>

\* confirmPayment returns: the secret the hook has by now names the intent.
Confirmed(c) ==
  /\ call[c].at = "paid"
  /\ IF hook[call[c].by].gone
     THEN Fails(c) /\ UNCHANGED up
     ELSE /\ call' = [call EXCEPT ![c] = Done]
          /\ up' = Append(up, Msg("success", hook[call[c].by].secret))
          /\ UNCHANGED button
  /\ UNCHANGED <<server, down, intent, late, shown, mounted, hook, content,
                 ticking, touches, drops>>

\* Mutant: the interval is cleared and nobody told.
TickQuietly ==
  /\ ticking \in late
  /\ ticking' = None
  /\ UNCHANGED <<server, up, down, intent, late, shown, mounted, hook, content,
                 button, call, touches, drops>>

\* updateTimer once the time is up.
Tick ==
  /\ ticking \in late
  /\ ticking' = None
  /\ up' = Append(up, Msg("expired", None))
  /\ UNCHANGED <<server, down, intent, late, shown, mounted, hook, content,
                 button, call, touches, drops>>

\* A double click opens two orders.
Proceed ==
  /\ page = "ticket" /\ shown = None
  /\ Acts < MaxActs
  /\ Cardinality({o \in Order : status[o] = "none"}) >
       Cardinality({i \in DOMAIN up : up[i].kind = "proceed"})
  /\ up' = Append(up, Msg("proceed", None))
  /\ UNCHANGED <<server, down, intent, late, browser, touches, drops>>

Close ==
  /\ shown # None
  /\ Len(up) + Len(down) < MaxLag
  /\ up' = Append(up, Msg("close", None))
  /\ UNCHANGED <<server, down, intent, late, browser, touches, drops>>

-----------------------------------------------------------------------------
Init ==
  /\ page \in {"ticket", "booking"}
  /\ order \in (IF page = "ticket" THEN {None} ELSE Order)
  /\ url = order
  /\ dialog = (page = "booking")
  /\ redirecting = FALSE
  /\ status = [o \in Order |-> IF o = order THEN "pending" ELSE "none"]
  /\ unsettled = {} /\ news = {} /\ up = <<>> /\ late = {}
  /\ down = IF page = "booking" THEN <<order>> ELSE <<>>
  /\ intent = [o \in Order |-> "open"]
  /\ shown = None /\ mounted = None /\ hook = [i \in Form |-> NoHook]
  /\ content = FALSE /\ button = FALSE /\ ticking = None
  /\ call = [c \in Click |-> Idle]
  /\ touches = 0 /\ drops = 0

HandleEvent ==
  \/ \E o \in Order : HandleProceed(o)
  \/ HandleClose \/ HandleRedirect \/ HandleSuccess \/ HandleExpired

LearnNews == \E o \in Order : LearnEnded(o)

LiveView == HandleEvent \/ LearnNews \/ CheckBooking

Submission == \E c \in Click : Remounted(c) \/ Confirm(c) \/ Confirmed(c)

\* What the hooks do without the member.
HookRuns == Patch \/ Tick \/ Submission \/ \E i \in Form : FinishInit(i)

Answer == \E c \in Click : StripeCharges(c) \/ StripeRefuses(c)

Elsewhere ==
  \/ Touch \/ Reconnect
  \/ \E o \in Order : OrderTimesOut(o) \/ SweepExpires(o)

MemberActs == Proceed \/ Close \/ \E c \in Click : Submit(c)

Next == LiveView \/ HookRuns \/ Answer \/ Elsewhere \/ MemberActs

\* The event loop comes to every timer, promise and diff, the LiveView to
\* every message; nobody else is obliged to anything.
Fairness ==
  /\ WF_vars(HandleEvent) /\ WF_vars(CheckBooking)
  /\ WF_vars(Patch) /\ WF_vars(Tick) /\ WF_vars(Submission)

Spec == Init /\ [][Next]_vars /\ Fairness

-----------------------------------------------------------------------------
(* Properties *)

HookType == [secret : Maybe, elements : Maybe, want : Maybe,
             bound : BOOLEAN, gone : BOOLEAN]

CallType == [by : Form \cup {None}, of : Maybe,
             at : {"idle", "mounting", "announced", "confirming", "paid", "done"}]

\* Every variable has its type.
TypeOK ==
  /\ page \in {"ticket", "booking"} /\ order \in Maybe /\ url \in Maybe
  /\ dialog \in BOOLEAN /\ redirecting \in BOOLEAN
  /\ status \in [Order -> {"none", "pending", "completed", "cancelled", "expired"}]
  /\ unsettled \subseteq Order /\ news \subseteq Order /\ late \subseteq Order
  /\ up \in Seq(Message) /\ down \in Seq(Maybe)
  /\ intent \in [Order -> {"open", "paid", "cancelled"}]
  /\ shown \in Maybe /\ mounted \in Form \cup {None}
  /\ hook \in [Form -> HookType]
  /\ content \in BOOLEAN /\ button \in BOOLEAN /\ ticking \in Maybe
  /\ call \in [Click -> CallType]
  /\ touches \in Nat /\ drops \in Nat

\* A payment-success event names an intent that Stripe has charged: although
\* the secret is read only after confirmPayment returns, and updates may have
\* shown another order on the page meanwhile, the hook names what was paid.
SuccessNamesPaid ==
  \A i \in DOMAIN up : up[i].kind = "success" => up[i].o # None /\ intent[up[i].o] = "paid"

\* The browser's checkout-expired carries no order; still it only ever ends
\* one whose time is up, for a timer dies with the form it counts for.
NoticeEndsLateOrder ==
  [][HandleExpired => order = None \/ order \in late]_vars

\* A payment that Stripe took is settled or the member is shown that it is
\* not, unless the form was taken away or the connection was lost.
PaidIsTold ==
  \A o \in Order : intent[o] = "paid"
    ~> \/ status[o] # "pending" \/ o \in unsettled
       \/ drops > 0 \/ \E i \in Form : hook[i].gone

\* A ticket order whose time is up does not stay payable on the page.
LateFormGoes ==
  shown \in late ~> shown \notin late
=============================================================================
