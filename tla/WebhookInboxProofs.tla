------------------------- MODULE WebhookInboxProofs -------------------------
(***************************************************************************)
(* Theorems about the webhook inbox, for any number of events, deliveries, *)
(* requests and objects at Stripe.                                         *)
(***************************************************************************)
EXTENDS WebhookInbox, TLAPS

\* What a process relies on, given the ledger: it has an event; what it is about
\* to record is in that event, and a refund's payment is recorded; it links only a
\* payout that is recorded; and an invoice that names its subscription is dealt
\* with only by recording it.
Sound(r, ledger) ==
  /\ r \in RequestState
  /\ r.at # "idle" => r.ev \in Event
  /\ r.at \in {"lock", "claim"} => r.todo = About[r.ev]
  /\ r.at \in {"look", "post"} => r.todo \subseteq About[r.ev]
  /\ r.at = "post" =>
       /\ r.item \in r.todo
       /\ r.item \in Refund => ledger[PaidBy[r.item]] > 0
  /\ r.at = "link" => r.item \in Payout \cap About[r.ev] /\ ledger[r.item] > 0
  /\ r.at \in {"look", "post"} =>
       \A x \in About[r.ev] \ r.todo : x \in Invoice \ Initial => ledger[x] > 0

ProcessesSound == \A p \in Request : Sound(req[p], postings)

InboxInv == TypeOK /\ ProcessesSound /\ ProcessedInvoicesAreRecorded /\ OneLinker

\* What a step may do to the ledger.
LedgerStep == [Once!Next]_postings

\* Nothing is stored or recorded at first, and nobody works.
LEMMA InboxInit == Init => InboxInv
  <1> SUFFICES ASSUME Init PROVE InboxInv
    OBVIOUS
  <1>1. Idle \in RequestState
    BY DEF Idle, RequestState, Places, Handling
  <1>2. TypeOK
    BY <1>1, InboxAssumption DEF Init, TypeOK
  <1>3. ProcessesSound
    BY <1>1 DEF Init, ProcessesSound, Sound, Idle
  <1>4. ProcessedInvoicesAreRecorded /\ OneLinker
    BY DEF Init, ProcessedInvoicesAreRecorded, OneLinker, Idle
  <1> QED
    BY <1>2, <1>3, <1>4 DEF InboxInv

\* Nothing that is recorded is lost.
LEMMA LedgerGrows ==
  ASSUME TypeOK, LedgerStep
  PROVE  /\ postings' \in [Object -> {0, 1}]
         /\ \A x \in Object : Recorded(x) => Recorded(x)'
  BY DEF TypeOK, LedgerStep, Once!Next, Once!Enter, Once!Object, Recorded, Object, Payment

\* Every step is one of the ledger's, or leaves it alone.
LEMMA StepsEnter ==
  ASSUME InboxInv, [Next]_vars
  PROVE  LedgerStep
  <1>1. ASSUME NEW x \in Object, ~Recorded(x), x \in Refund => Recorded(PaidBy[x]),
               postings' = [postings EXCEPT ![x] = @ + 1]
        PROVE  LedgerStep
    <2>1. postings \in [Object -> {0, 1}]
      BY DEF InboxInv, TypeOK
    <2>2. postings[x] = 0 /\ postings' = [postings EXCEPT ![x] = 1]
      <3>1. postings[x] = 0
        BY <1>1, <2>1 DEF Recorded
      <3>2. postings[x] + 1 = 1
        BY <3>1
      <3> QED
        BY <1>1, <3>1, <3>2
    <2>3. x \in Refund => postings[PaidBy[x]] = 1
      <3>1. x \in Refund => PaidBy[x] \in Object
        BY InboxAssumption DEF Object
      <3> QED
        BY <1>1, <2>1, <3>1 DEF Recorded
    <2> QED
      BY <2>2, <2>3 DEF LedgerStep, Once!Next, Once!Enter, Once!Object, Object, Payment
  <1>2. ASSUME NEW p \in Request, Post(p)
        PROVE  LedgerStep
    <2>1. /\ req[p].item \in Object
          /\ req[p].item \in Refund => Recorded(PaidBy[req[p].item])
      <3>1. req[p].at = "post" /\ Sound(req[p], postings)
        BY <1>2 DEF Post, InboxInv, ProcessesSound
      <3>2. req[p].ev \in Event /\ req[p].item \in About[req[p].ev]
        BY <3>1 DEF Sound
      <3> QED
        BY <3>1, <3>2, InboxAssumption DEF Sound, Recorded
    <2>2. CASE UNCHANGED postings
      BY <2>2 DEF LedgerStep
    <2>3. CASE /\ ~Recorded(req[p].item)
               /\ postings' = [postings EXCEPT ![req[p].item] = @ + 1]
      BY <1>1, <2>1, <2>3
    <2> QED
      BY <1>2, <2>2, <2>3 DEF Post
  <1>3. ASSUME NEW x \in Intent, PageRecordsPayment(x)
        PROVE  LedgerStep
    BY <1>1, <1>3, InboxAssumption DEF PageRecordsPayment, Object, Payment
  <1>4. ASSUME NEW r \in Refund, PageRecordsRefund(r)
        PROVE  LedgerStep
    BY <1>1, <1>4 DEF PageRecordsRefund, Found, Object
  <1>5. CASE UNCHANGED postings
    BY <1>5 DEF LedgerStep
  <1> QED
    BY <1>2, <1>3, <1>4, <1>5 DEF Next, Work, vars, LockEvent, LockSkips, ClaimEvent,
       LookAtInvoice, LookAtRefund, LookAtPayout, LinkLine, Raise, MarkProcessed,
       MarkFailed, FinishReset, Crash, Deliver, Reprocess, BeginReset

\* What a process relies on stays true as the ledger grows.
LEMMA SoundLasts ==
  ASSUME NEW r, NEW before \in [Object -> {0, 1}], NEW after \in [Object -> {0, 1}],
         \A x \in Object : before[x] > 0 => after[x] > 0,
         Sound(r, before)
  PROVE  Sound(r, after)
  <1>1. \A x \in Refund : PaidBy[x] \in Object
    BY InboxAssumption DEF Object
  <1>2. Payout \subseteq Object /\ Invoice \subseteq Object
    BY DEF Object, Payment
  <1> QED
    BY <1>1, <1>2 DEF Sound

\* One process moves.
LEMMA OneMoves ==
  ASSUME InboxInv, LedgerStep, NEW p \in Request, NEW r,
         req' = [req EXCEPT ![p] = r], Sound(r, postings')
  PROVE  req' \in [Request -> RequestState] /\ ProcessesSound'
  <1>1. \A q \in Request : Sound(req[q], postings')
    BY LedgerGrows, SoundLasts DEF InboxInv, ProcessesSound, TypeOK, Recorded
  <1>2. \A q \in Request : req'[q] = IF q = p THEN r ELSE req[q]
    BY DEF InboxInv, TypeOK
  <1>3. \A q \in Request : Sound(req'[q], postings')
    BY <1>1, <1>2
  <1>4. r \in RequestState /\ req \in [Request -> RequestState]
    BY DEF Sound, InboxInv, TypeOK
  <1> QED
    BY <1>3, <1>4 DEF ProcessesSound

\* What a single process can do, as its new record.
LEMMA WorkKeepsSound ==
  ASSUME InboxInv, LedgerStep, NEW p \in Request, Work(p) \/ Crash(p)
  PROVE  req' \in [Request -> RequestState] /\ ProcessesSound'
  <1>1. Sound(req[p], postings) /\ Sound(req[p], postings')
    BY LedgerGrows, SoundLasts DEF InboxInv, ProcessesSound, TypeOK, Recorded
  <1>2. Sound(Idle, postings')
    BY DEF Sound, Idle, RequestState, Places, Handling
  <1>3. ASSUME req' = [req EXCEPT ![p] = Idle]
        PROVE  req' \in [Request -> RequestState] /\ ProcessesSound'
    BY <1>2, <1>3, OneMoves
  <1>4. ASSUME NEW at \in {"claim", "raised"}, Goes(p, at), req[p].at # "idle",
               at = "claim" => req[p].at = "lock"
        PROVE  req' \in [Request -> RequestState] /\ ProcessesSound'
    <2>1. Sound([req[p] EXCEPT !.at = at], postings')
      BY <1>1, <1>4 DEF Sound, RequestState, Places, Handling
    <2> QED
      BY <1>4, <2>1, OneMoves DEF Goes
  <1>5. CASE LockEvent(p)
    BY <1>3, <1>4, <1>5 DEF LockEvent, Ends
  <1>6. CASE LockSkips(p) \/ MarkProcessed(p) \/ MarkFailed(p) \/ FinishReset(p) \/ Crash(p)
    BY <1>3, <1>6 DEF LockSkips, MarkProcessed, MarkFailed, FinishReset, Crash, Ends
  <1>7. CASE Raise(p)
    BY <1>4, <1>7 DEF Raise
  <1>8. CASE ClaimEvent(p)
    <2>1. Sound([req[p] EXCEPT !.at = "look"], postings')
      BY <1>1, <1>8 DEF ClaimEvent, Sound, RequestState, Places, Handling
    <2> QED
      BY <1>8, <2>1, OneMoves DEF ClaimEvent, Goes
  <1>9. ASSUME NEW x \in req[p].todo, req[p].at = "look", TakesUp(p, x),
               x \in Refund => postings'[PaidBy[x]] > 0
        PROVE  req' \in [Request -> RequestState] /\ ProcessesSound'
    <2>1. x \in Object
      BY <1>1, <1>9 DEF Sound, RequestState
    <2>2. Sound([req[p] EXCEPT !.at = "post", !.item = x], postings')
      BY <1>1, <1>9, <2>1 DEF Sound, RequestState, Places, Handling
    <2> QED
      BY <1>9, <2>2, OneMoves DEF TakesUp
  <1>10. ASSUME NEW x \in req[p].todo, req[p].at \in {"look", "post"}, IsDone(p, x),
                x \in Invoice \ Initial => postings'[x] > 0
         PROVE  req' \in [Request -> RequestState] /\ ProcessesSound'
    <2>1. Sound([req[p] EXCEPT !.at = "look", !.todo = @ \ {x}], postings')
      BY <1>1, <1>10 DEF Sound, RequestState, Places, Handling
    <2> QED
      BY <1>10, <2>1, OneMoves DEF IsDone
  <1>11. req[p].at = "look" => req[p].ev \in Event /\ req[p].todo \subseteq About[req[p].ev]
    BY <1>1 DEF Sound
  <1>12. CASE LookAtInvoice(p)
    <2>1. PICK x \in req[p].todo, resolved \in BOOLEAN :
            /\ x \notin Initial => resolved
            /\ Decides(p, x, resolved /\ ~Recorded(x))
      BY <1>12 DEF LookAtInvoice
    <2>2. req[p].at = "look" /\ Kind[req[p].ev] = "invoice"
      BY <1>12 DEF LookAtInvoice
    <2>3. x \notin Refund
      BY <1>11, <2>2, InboxAssumption DEF Payment
    <2>4. CASE resolved /\ ~Recorded(x)
      BY <1>9, <2>1, <2>2, <2>3, <2>4 DEF Decides
    <2>5. CASE ~(resolved /\ ~Recorded(x))
      <3>1. x \in Invoice \ Initial => postings'[x] > 0
        BY <1>12, <2>1, <2>5 DEF LookAtInvoice, Recorded
      <3> QED
        BY <1>10, <2>1, <2>2, <2>5, <3>1 DEF Decides
    <2> QED
      BY <2>4, <2>5
  <1>13. CASE LookAtRefund(p)
    <2>1. PICK x \in req[p].todo :
            Decides(p, x, /\ Found(PaidBy[x])
                          /\ ~(Kind[req[p].ev] = "charge.refunded" /\ req[p].again))
      BY <1>13 DEF LookAtRefund
    <2>2. req[p].at = "look" /\ x \in Refund /\ postings' = postings
      BY <1>11, <1>13, InboxAssumption DEF LookAtRefund
    <2>3. x \notin Invoice
      BY <2>2, InboxAssumption DEF Payment
    <2>4. CASE Found(PaidBy[x]) /\ TakesUp(p, x)
      BY <1>9, <2>2, <2>4 DEF Found, Recorded
    <2>5. CASE IsDone(p, x)
      BY <1>10, <2>2, <2>3, <2>5
    <2> QED
      BY <2>1, <2>4, <2>5 DEF Decides
  <1>14. CASE LookAtPayout(p)
    <2>1. PICK x \in req[p].todo : Decides(p, x, ~Recorded(x))
      BY <1>14 DEF LookAtPayout
    <2>2. req[p].at = "look" /\ x \in Payout
      BY <1>11, <1>14, InboxAssumption DEF LookAtPayout
    <2>3. x \notin Refund /\ x \notin Invoice
      BY <2>2, InboxAssumption DEF Payment
    <2> QED
      BY <1>9, <1>10, <2>1, <2>2, <2>3 DEF Decides
  <1>15. CASE Post(p)
    <2> DEFINE x == req[p].item
    <2>1. /\ req[p].at = "post" /\ x \in req[p].todo /\ x \in Object
          /\ req[p].ev \in Event /\ x \in About[req[p].ev]
      <3>1. req[p].at = "post"
        BY <1>15 DEF Post
      <3>2. req[p].ev \in Event /\ x \in req[p].todo /\ req[p].todo \subseteq About[req[p].ev]
        BY <1>1, <3>1 DEF Sound
      <3> QED
        BY <3>1, <3>2, InboxAssumption
    <2>2. Goes(p, "raised") \/ postings'[x] > 0
      <3>1. postings \in [Object -> {0, 1}]
        BY DEF InboxInv, TypeOK
      <3> QED
        BY <1>15, <2>1, <3>1 DEF Post, Recorded
    <2>3. CASE Goes(p, "raised")
      BY <1>4, <2>1, <2>3
    <2>4. CASE IsDone(p, x) /\ postings'[x] > 0
      BY <1>10, <2>1, <2>4
    <2>5. CASE /\ x \in Payout /\ postings'[x] > 0
               /\ req' = [req EXCEPT ![p].at = "link", ![p].todo = Settles[x]]
      <3>1. Settles[x] \subseteq Object
        BY <2>5, InboxAssumption DEF Object
      <3>2. Sound([req[p] EXCEPT !.at = "link", !.todo = Settles[x]], postings')
        BY <1>1, <2>1, <2>5, <3>1 DEF Sound, RequestState, Places, Handling
      <3> QED
        BY <2>5, <3>2, OneMoves
    <2> QED
      BY <1>15, <2>2, <2>3, <2>4, <2>5 DEF Post, AfterInsert
  <1>16. CASE LinkLine(p)
    <2>1. PICK x \in req[p].todo : req' = [req EXCEPT ![p].todo = @ \ {x}]
      BY <1>16 DEF LinkLine
    <2>2. Sound([req[p] EXCEPT !.todo = @ \ {x}], postings')
      BY <1>1, <1>16 DEF LinkLine, Sound, RequestState
    <2> QED
      BY <2>1, <2>2, OneMoves
  <1> QED
    BY <1>5, <1>6, <1>7, <1>8, <1>12, <1>13, <1>14, <1>15, <1>16 DEF Work

\* So can Stripe and the operator.
LEMMA NewWorkIsSound ==
  ASSUME InboxInv, LedgerStep, NEW p \in Request, NEW e \in Event,
         Deliver(p, e) \/ Reprocess(p, e) \/ BeginReset(p, e)
  PROVE  req' \in [Request -> RequestState] /\ ProcessesSound'
  <1>1. ASSUME NEW at \in {"lock", "look", "reset"}, NEW again \in BOOLEAN,
               req' = [req EXCEPT ![p] = Start(e, at, again)]
        PROVE  req' \in [Request -> RequestState] /\ ProcessesSound'
    <2>1. Sound(Start(e, at, again), postings')
      BY InboxAssumption DEF Sound, Start, RequestState, Places, Handling
    <2> QED
      BY <1>1, <2>1, OneMoves
  <1> QED
    BY <1>1 DEF Deliver, Reprocess, BeginReset

\* No step takes from any process what it relies on.
LEMMA StepsKeepSound ==
  ASSUME InboxInv, [Next]_vars
  PROVE  req' \in [Request -> RequestState] /\ ProcessesSound'
  <1>1. LedgerStep
    BY StepsEnter
  <1>2. CASE UNCHANGED req
    BY <1>1, <1>2, LedgerGrows, SoundLasts DEF InboxInv, ProcessesSound, TypeOK, Recorded
  <1>3. CASE \E p \in Request : Work(p) \/ Crash(p)
    BY <1>1, <1>3, WorkKeepsSound
  <1>4. CASE \E p \in Request, e \in Event : Deliver(p, e) \/ Reprocess(p, e) \/ BeginReset(p, e)
    BY <1>1, <1>4, NewWorkIsSound
  <1> QED
    BY <1>2, <1>3, <1>4 DEF Next, vars, PageRecordsPayment, PageRecordsRefund

\* The types: the object recorded is one of Stripe's, by soundness.
LEMMA StepsKeepTypes ==
  ASSUME InboxInv, [Next]_vars
  PROVE  TypeOK'
  <1>1. req' \in [Request -> RequestState] /\ postings' \in [Object -> {0, 1}]
    BY StepsEnter, StepsKeepSound, LedgerGrows DEF InboxInv
  <1>2. store' \in [Event -> {"none", "pending", "processing", "processed", "failed"}]
    BY DEF InboxInv, TypeOK, Next, Work, vars, LockEvent, LockSkips, ClaimEvent,
       LookAtInvoice, LookAtRefund, LookAtPayout, Post, LinkLine, Raise, MarkProcessed,
       MarkFailed, FinishReset, Crash, Deliver, Reprocess, BeginReset,
       PageRecordsPayment, PageRecordsRefund
  <1>3. linked' \in [Payout -> SUBSET Object]
    <2>1. ASSUME NEW p \in Request, LinkLine(p)
          PROVE  linked' \in [Payout -> SUBSET Object]
      <3>1. req[p].todo \subseteq Object
        BY DEF InboxInv, TypeOK, RequestState
      <3> QED
        BY <2>1, <3>1 DEF LinkLine, InboxInv, TypeOK
    <2> QED
      BY <2>1 DEF InboxInv, TypeOK, Next, Work, vars, LockEvent, LockSkips, ClaimEvent,
         LookAtInvoice, LookAtRefund, LookAtPayout, Post, Raise, MarkProcessed,
         MarkFailed, FinishReset, Crash, Deliver, Reprocess, BeginReset,
         PageRecordsPayment, PageRecordsRefund
  <1>4. crashes' \in 0 .. MaxCrashes
    <2>1. crashes' = crashes \/ (crashes < MaxCrashes /\ crashes' = crashes + 1)
      BY DEF Next, Work, vars, LockEvent, LockSkips, ClaimEvent, LookAtInvoice,
         LookAtRefund, LookAtPayout, Post, LinkLine, Raise, MarkProcessed, MarkFailed,
         FinishReset, Crash, Deliver, Reprocess, BeginReset, PageRecordsPayment,
         PageRecordsRefund
    <2>2. MaxCrashes \in Nat /\ crashes \in 0 .. MaxCrashes
      BY InboxAssumption DEF InboxInv, TypeOK
    <2> QED
      BY <2>1, <2>2
  <1> QED
    BY <1>1, <1>2, <1>3, <1>4 DEF TypeOK

\* Only a handler that returned marks an event as processed.
LEMMA StepsKeepInvoices ==
  ASSUME InboxInv, [Next]_vars
  PROVE  ProcessedInvoicesAreRecorded'
  <1>1. \A x \in Object : Recorded(x) => Recorded(x)'
    BY StepsEnter, LedgerGrows DEF InboxInv
  <1>2. Invoice \subseteq Object
    BY DEF Object, Payment
  <1>3. ASSUME \A e \in Event : store'[e] = "processed" => store[e] = "processed"
        PROVE  ProcessedInvoicesAreRecorded'
    BY <1>1, <1>2, <1>3 DEF InboxInv, ProcessedInvoicesAreRecorded
  <1>4. ASSUME NEW p \in Request, MarkProcessed(p)
        PROVE  ProcessedInvoicesAreRecorded'
    <2>1. Sound(req[p], postings)
      BY DEF InboxInv, ProcessesSound
    <2>2. /\ req[p].at \in {"look", "link"} /\ req[p].todo = {} /\ req[p].ev \in Event
          /\ store' = [store EXCEPT ![req[p].ev] = "processed"]
      BY <1>4, <2>1 DEF MarkProcessed, Sound
    <2>3. ASSUME NEW x \in Invoice \ Initial, Kind[req[p].ev] = "invoice", x \in About[req[p].ev]
          PROVE  Recorded(x)
      <3>1. CASE req[p].at = "look"
        BY <2>1, <2>2, <2>3, <3>1 DEF Sound, Recorded
      <3>2. CASE req[p].at = "link"
        <4>1. req[p].item \in Payout /\ req[p].item \in About[req[p].ev]
          BY <2>1, <3>2 DEF Sound
        <4> QED
          BY <2>2, <2>3, <4>1, InboxAssumption DEF Payment
      <3> QED
        BY <2>2, <3>1, <3>2
    <2>4. \A e \in Event : e # req[p].ev => store'[e] = store[e]
      BY <2>2 DEF InboxInv, TypeOK
    <2> QED
      BY <1>1, <1>2, <2>3, <2>4 DEF InboxInv, ProcessedInvoicesAreRecorded
  <1>5. ASSUME NEW p \in Request, MarkFailed(p) \/ ClaimEvent(p) \/ FinishReset(p)
        PROVE  ProcessedInvoicesAreRecorded'
    <2>1. \A e \in Event : store'[e] = "processed" => store[e] = "processed"
      BY <1>5 DEF MarkFailed, ClaimEvent, FinishReset, InboxInv, TypeOK
    <2> QED
      BY <1>3, <2>1
  <1>6. ASSUME NEW p \in Request, NEW e \in Event, Deliver(p, e)
        PROVE  ProcessedInvoicesAreRecorded'
    <2>1. \A f \in Event : store'[f] = "processed" => store[f] = "processed"
      BY <1>6 DEF Deliver, InboxInv, TypeOK
    <2> QED
      BY <1>3, <2>1
  <1>7. CASE UNCHANGED store
    BY <1>3, <1>7
  <1> QED
    BY <1>4, <1>5, <1>6, <1>7 DEF Next, Work, vars, LockEvent, LockSkips, LookAtInvoice,
       LookAtRefund, LookAtPayout, Post, LinkLine, Raise, Crash, Reprocess, BeginReset,
       PageRecordsPayment, PageRecordsRefund

\* Whoever goes on to link a payout has just recorded it: nobody else links it.
LEMMA StepsKeepLinker ==
  ASSUME InboxInv, [Next]_vars
  PROVE  OneLinker'
  <1>1. ASSUME NEW p \in Request,
               \A q \in Request \ {p} : req'[q] = req[q],
               req'[p].at = "link" =>
                 \/ req[p].at = "link" /\ req'[p].item = req[p].item
                 \/ ~Recorded(req'[p].item)
        PROVE  OneLinker'
    <2>1. \A q \in Request : req[q].at = "link" => Recorded(req[q].item)
      BY DEF InboxInv, ProcessesSound, Sound, Recorded
    <2> QED
      BY <1>1, <2>1 DEF InboxInv, OneLinker
  <1>2. ASSUME NEW p \in Request, NEW r, req' = [req EXCEPT ![p] = r]
        PROVE  /\ \A q \in Request \ {p} : req'[q] = req[q]
               /\ req'[p] = r
    BY <1>2 DEF InboxInv, TypeOK
  <1>3. ASSUME NEW p \in Request, Post(p)
        PROVE  OneLinker'
    <2>1. CASE Recorded(req[p].item)
      <3>1. Goes(p, "raised") \/ IsDone(p, req[p].item)
        BY <1>3, <2>1 DEF Post
      <3>2. /\ \A q \in Request \ {p} : req'[q] = req[q]
            /\ req'[p].at # "link"
        BY <3>1 DEF Goes, IsDone, InboxInv, TypeOK, RequestState
      <3> QED
        BY <1>1, <3>2
    <2>2. CASE ~Recorded(req[p].item)
      <3>1. AfterInsert(p, req[p].item)
        BY <1>3, <2>2 DEF Post
      <3>2. /\ \A q \in Request \ {p} : req'[q] = req[q]
            /\ req'[p].item = req[p].item
        BY <3>1 DEF AfterInsert, IsDone, InboxInv, TypeOK, RequestState
      <3> QED
        BY <1>1, <2>2, <3>2
    <2> QED
      BY <2>1, <2>2
  <1>4. ASSUME NEW p \in Request, LinkLine(p)
        PROVE  OneLinker'
    <2>1. /\ req[p].at = "link"
          /\ \E x : req' = [req EXCEPT ![p].todo = @ \ {x}]
      BY <1>4 DEF LinkLine
    <2>2. /\ \A q \in Request \ {p} : req'[q] = req[q]
          /\ req'[p].item = req[p].item
      BY <2>1 DEF InboxInv, TypeOK, RequestState
    <2> QED
      BY <1>1, <2>1, <2>2
  <1>5. ASSUME NEW p \in Request,
               LookAtInvoice(p) \/ LookAtRefund(p) \/ LookAtPayout(p)
        PROVE  OneLinker'
    <2>1. \E x : TakesUp(p, x) \/ IsDone(p, x)
      BY <1>5 DEF LookAtInvoice, LookAtRefund, LookAtPayout, Decides
    <2>2. \A q \in Request \ {p} : req'[q] = req[q]
      BY <2>1 DEF TakesUp, IsDone, InboxInv, TypeOK
    <2>3. req'[p].at # "link"
      BY <2>1 DEF TakesUp, IsDone, InboxInv, TypeOK, RequestState
    <2> QED
      BY <1>1, <2>2, <2>3
  <1>6. ASSUME NEW p \in Request, NEW at \in {"claim", "look", "raised"}, Goes(p, at)
        PROVE  OneLinker'
    BY <1>1, <1>2, <1>6 DEF Goes, InboxInv, TypeOK, RequestState
  <1>7. ASSUME NEW p \in Request, Ends(p)
        PROVE  OneLinker'
    BY <1>1, <1>2, <1>7 DEF Ends, Idle
  <1>8. ASSUME NEW p \in Request, NEW e \in Event,
               Deliver(p, e) \/ Reprocess(p, e) \/ BeginReset(p, e)
        PROVE  OneLinker'
    BY <1>1, <1>2, <1>8 DEF Deliver, Reprocess, BeginReset, Start
  <1>9. CASE UNCHANGED req
    BY <1>9 DEF InboxInv, OneLinker
  <1> QED
    BY <1>3, <1>4, <1>5, <1>6, <1>7, <1>8, <1>9 DEF Next, Work, vars, LockEvent,
       LockSkips, ClaimEvent, Raise, MarkProcessed, MarkFailed, FinishReset, Crash,
       PageRecordsPayment, PageRecordsRefund

\* The invariant is inductive.
LEMMA InboxStep ==
  ASSUME InboxInv, [Next]_vars
  PROVE  InboxInv'
  BY StepsKeepTypes, StepsKeepSound, StepsKeepInvoices, StepsKeepLinker DEF InboxInv

\* The invariant holds.
LEMMA InboxCorrect == Spec => []InboxInv
  BY InboxInit, InboxStep, PTL DEF Spec

\* The webhook events, the requests that handle them concurrently, the pages and
\* the operator's task implement a ledger that enters everything once, and a
\* refund only after its payment (webhooks.ex, webhook_handler.ex, ledgers.ex).
THEOREM LedgerEntersOnce == Spec => EntersOnce
  <1>1. Init => Once!Init
    BY DEF Init, Once!Init, Once!Object, Object, Payment
  <1>2. InboxInv /\ [Next]_vars => [Once!Next]_postings
    BY StepsEnter DEF LedgerStep
  <1> QED
    BY <1>1, <1>2, InboxCorrect, PTL DEF Spec, EntersOnce, Once!Spec

\* No invoice that names its subscription is marked as processed without its
\* payment, whatever fails, dies or is delivered again.
THEOREM InvoicesRecorded == Spec => []ProcessedInvoicesAreRecorded
  BY InboxCorrect, PTL DEF InboxInv

\* Two requests never link the same payout at the same time.
THEOREM PayoutsLinkedByOne == Spec => []OneLinker
  BY InboxCorrect, PTL DEF InboxInv

\* Types, and one record at most of every payment, refund and payout (the unique
\* indexes on the external ids of ledgers.ex).
THEOREM InboxTypes == Spec => []TypeOK
  BY InboxCorrect, PTL DEF InboxInv

-----------------------------------------------------------------------------
(* Refunds are not lost *)

\* Nobody handles an event that is not stored.
StoredFirst ==
  \A p \in Request, e \in Event : store[e] = "none" /\ req[p].ev = e => req[p].at = "lock"

\* A refund of event e whose payment is recorded is dealt with only by recording it.
RefundKept(e, r) ==
  /\ Recorded(PaidBy[r]) /\ PaidBy[r] \in Intent
  /\ store[e] = "processed" => Recorded(r)
  /\ \A p \in Request :
       req[p].ev = e /\ req[p].at \in {"look", "post"} /\ r \notin req[p].todo => Recorded(r)

\* A request gets past the lock only when the event is stored.
LEMMA StepsStoreFirst ==
  ASSUME InboxInv, StoredFirst, [Next]_vars
  PROVE  StoredFirst'
  <1> USE DEF InboxInv, TypeOK, RequestState, StoredFirst
  <1>1. ASSUME NEW p \in Request, LockEvent(p) \/ LockSkips(p)
        PROVE  StoredFirst'
    BY <1>1, InboxAssumption DEF LockEvent, LockSkips, Goes, Ends, Idle
  <1>2. ASSUME NEW p \in Request,
               ClaimEvent(p) \/ MarkProcessed(p) \/ MarkFailed(p) \/ FinishReset(p)
        PROVE  StoredFirst'
    BY <1>2, InboxAssumption DEF ClaimEvent, MarkProcessed, MarkFailed, FinishReset,
       Goes, Ends, Idle
  <1>3. ASSUME NEW p \in Request,
               LookAtInvoice(p) \/ LookAtRefund(p) \/ LookAtPayout(p) \/ Post(p)
                 \/ LinkLine(p) \/ Raise(p)
        PROVE  StoredFirst'
    <2>1. req[p].at \in {"look", "post", "link"} /\ store' = store
      BY <1>3 DEF LookAtInvoice, LookAtRefund, LookAtPayout, Post, LinkLine, Raise
    <2>2. /\ \A q \in Request \ {p} : req'[q] = req[q]
          /\ req'[p].ev = req[p].ev
      BY <1>3 DEF LookAtInvoice, LookAtRefund, LookAtPayout, Post, LinkLine, Raise,
         Decides, TakesUp, IsDone, AfterInsert, Goes
    <2> QED
      BY <2>1, <2>2
  <1>4. ASSUME NEW p \in Request, NEW e \in Event,
               Deliver(p, e) \/ Reprocess(p, e) \/ BeginReset(p, e)
        PROVE  StoredFirst'
    BY <1>4 DEF Deliver, Reprocess, BeginReset, Start
  <1>5. ASSUME NEW p \in Request, Crash(p)
        PROVE  StoredFirst'
    BY <1>5, InboxAssumption DEF Crash, Ends, Idle
  <1>6. CASE UNCHANGED <<store, req>>
    BY <1>6
  <1> QED
    BY <1>1, <1>2, <1>3, <1>4, <1>5, <1>6 DEF Next, Work, vars, PageRecordsPayment,
       PageRecordsRefund

\* Nobody ever handles an event that is not stored.
LEMMA StoredFirstCorrect == Spec => []StoredFirst
  <1>1. Init => StoredFirst
    BY InboxAssumption DEF Init, StoredFirst, Idle
  <1> QED
    BY <1>1, StepsStoreFirst, InboxCorrect, PTL DEF Spec

\* Once the payment is recorded, no step drops the refund of an event.
LEMMA StepsKeepRefund ==
  ASSUME InboxInv, NEW e \in Event, NEW r \in Refund, Kind[e] = "refund.created",
         r \in About[e], RefundKept(e, r), [Next]_vars
  PROVE  RefundKept(e, r)'
  <1>1. \A x \in Object : Recorded(x) => Recorded(x)'
    BY StepsEnter, LedgerGrows DEF InboxInv
  <1>2. r \in Object /\ PaidBy[r] \in Object
    BY InboxAssumption DEF Object
  <1> DEFINE Passed(q) == q.ev = e /\ q.at \in {"look", "post"} /\ r \notin q.todo
  <1>3. \A p \in Request : Passed(req[p]) => Recorded(r)
    BY DEF RefundKept
  <1>4. ASSUME store'[e] = "processed" => store[e] = "processed" \/ Recorded(r),
               NEW p \in Request, NEW new, req' = [req EXCEPT ![p] = new],
               Passed(new) => Passed(req[p]) \/ Recorded(r)'
        PROVE  RefundKept(e, r)'
    <2>1. \A q \in Request : req'[q] = IF q = p THEN new ELSE req[q]
      BY <1>4 DEF InboxInv, TypeOK
    <2>2. \A q \in Request : Passed(req'[q]) => Recorded(r)'
      BY <1>1, <1>2, <1>3, <1>4, <2>1
    <2> QED
      BY <1>1, <1>2, <1>4, <2>2 DEF RefundKept
  <1>5. ASSUME NEW p \in Request, MarkProcessed(p)
        PROVE  RefundKept(e, r)'
    <2>1. CASE req[p].ev = e
      <3>1. CASE req[p].at = "look"
        BY <1>3, <1>4, <1>5, <2>1, <3>1 DEF MarkProcessed, Ends, Idle
      <3>2. CASE req[p].at = "link"
        <4>1. req[p].item \in Payout \cap About[e]
          BY <2>1, <3>2 DEF InboxInv, ProcessesSound, Sound
        <4> QED
          BY <4>1, InboxAssumption DEF RefundKind
      <3> QED
        BY <1>5, <3>1, <3>2 DEF MarkProcessed
    <2>2. CASE req[p].ev # e
      BY <1>4, <1>5, <2>2 DEF MarkProcessed, Ends, Idle, InboxInv, TypeOK
    <2> QED
      BY <2>1, <2>2
  <1>6. ASSUME NEW p \in Request,
               LockEvent(p) \/ LockSkips(p) \/ MarkFailed(p) \/ FinishReset(p) \/ Crash(p)
                 \/ Raise(p)
        PROVE  RefundKept(e, r)'
    <2>1. store'[e] = "processed" => store[e] = "processed"
      BY <1>6 DEF LockEvent, LockSkips, MarkFailed, FinishReset, Crash, Raise, InboxInv, TypeOK
    <2>2. Ends(p) \/ Goes(p, "claim") \/ Goes(p, "raised")
      BY <1>6 DEF LockEvent, LockSkips, MarkFailed, FinishReset, Crash, Raise
    <2>3. \E new : /\ req' = [req EXCEPT ![p] = new]
                   /\ new.at \notin {"look", "post"}
      BY <2>2 DEF Ends, Goes, Idle, InboxInv, TypeOK, RequestState
    <2> QED
      BY <1>4, <2>1, <2>3
  <1>7. ASSUME NEW p \in Request, ClaimEvent(p)
        PROVE  RefundKept(e, r)'
    <2>1. req[p].todo = About[req[p].ev]
      BY <1>7 DEF ClaimEvent, InboxInv, ProcessesSound, Sound
    <2>2. /\ store'[e] = "processed" => store[e] = "processed"
          /\ req' = [req EXCEPT ![p] = [req[p] EXCEPT !.at = "look"]]
      BY <1>7 DEF ClaimEvent, Goes, InboxInv, TypeOK
    <2>3. ~Passed([req[p] EXCEPT !.at = "look"])
      BY <2>1 DEF InboxInv, TypeOK, RequestState
    <2> QED
      BY <1>4, <2>2, <2>3
  <1>8. ASSUME NEW p \in Request, NEW f \in Event,
               Deliver(p, f) \/ Reprocess(p, f) \/ BeginReset(p, f)
        PROVE  RefundKept(e, r)'
    <2>1. store'[e] = "processed" => store[e] = "processed"
      BY <1>8 DEF Deliver, Reprocess, BeginReset, InboxInv, TypeOK
    <2>2. \E new : req' = [req EXCEPT ![p] = new] /\ ~Passed(new)
      BY <1>8 DEF Deliver, Reprocess, BeginReset, Start
    <2> QED
      BY <1>4, <2>1, <2>2
  <1>9. ASSUME NEW p \in Request, NEW x, TakesUp(p, x), req[p].at = "look", store' = store
        PROVE  RefundKept(e, r)'
    <2>1. Passed([req[p] EXCEPT !.at = "post", !.item = x]) => Passed(req[p])
      BY <1>9 DEF InboxInv, TypeOK, RequestState
    <2> QED
      BY <1>4, <1>9, <2>1 DEF TakesUp
  <1>10. ASSUME NEW p \in Request, NEW x, IsDone(p, x), req[p].at \in {"look", "post"},
                store' = store, req[p].ev = e /\ x = r => Recorded(r)'
         PROVE  RefundKept(e, r)'
    <2>1. Passed([req[p] EXCEPT !.at = "look", !.todo = @ \ {x}])
            => Passed(req[p]) \/ Recorded(r)'
      BY <1>10 DEF InboxInv, TypeOK, RequestState
    <2> QED
      BY <1>4, <1>10, <2>1 DEF IsDone
  <1>11. ASSUME NEW p \in Request, LookAtInvoice(p) \/ LookAtPayout(p)
         PROVE  RefundKept(e, r)'
    <2>1. req[p].at = "look" /\ req[p].ev # e /\ store' = store
      BY <1>11 DEF LookAtInvoice, LookAtPayout
    <2>2. \E x : TakesUp(p, x) \/ IsDone(p, x)
      BY <1>11 DEF LookAtInvoice, LookAtPayout, Decides
    <2> QED
      BY <1>9, <1>10, <2>1, <2>2
  <1>12. ASSUME NEW p \in Request, LookAtRefund(p)
         PROVE  RefundKept(e, r)'
    <2>1. req[p].at = "look" /\ store' = store
      BY <1>12 DEF LookAtRefund
    <2>2. PICK x \in req[p].todo :
            Decides(p, x, /\ Found(PaidBy[x])
                          /\ ~(Kind[req[p].ev] = "charge.refunded" /\ req[p].again))
      BY <1>12 DEF LookAtRefund
    <2>3. TakesUp(p, x) \/ (IsDone(p, x) /\ ~(req[p].ev = e /\ x = r))
      BY <2>2 DEF Decides, RefundKept, Found
    <2> QED
      BY <1>9, <1>10, <2>1, <2>3
  <1>13. ASSUME NEW p \in Request, Post(p)
         PROVE  RefundKept(e, r)'
    <2> DEFINE x == req[p].item
    <2>1. req[p].at = "post" /\ store' = store
      BY <1>13 DEF Post
    <2>2. CASE Goes(p, "raised")
      <3>1. ~Passed([req[p] EXCEPT !.at = "raised"])
        BY DEF InboxInv, TypeOK, RequestState
      <3> QED
        BY <1>4, <2>1, <2>2, <3>1 DEF Goes
    <2>3. CASE req' = [req EXCEPT ![p].at = "link", ![p].todo = Settles[x]]
      <3>1. ~Passed([req[p] EXCEPT !.at = "link", !.todo = Settles[x]])
        BY DEF InboxInv, TypeOK, RequestState
      <3> QED
        BY <1>4, <2>1, <2>3, <3>1
    <2>4. CASE IsDone(p, x) /\ (x = r => Recorded(r)')
      BY <1>10, <2>1, <2>4
    <2>5. Goes(p, "raised") \/ (x = r => Recorded(r)')
      <3>1. postings \in [Object -> {0, 1}]
        BY DEF InboxInv, TypeOK
      <3> QED
        BY <1>2, <1>13, <3>1 DEF Post, Recorded
    <2> QED
      BY <1>13, <2>2, <2>3, <2>4, <2>5 DEF Post, AfterInsert
  <1>14. ASSUME NEW p \in Request, LinkLine(p)
         PROVE  RefundKept(e, r)'
    <2>1. req[p].at = "link" /\ store' = store
      BY <1>14 DEF LinkLine
    <2>2. PICK x : req' = [req EXCEPT ![p] = [req[p] EXCEPT !.todo = @ \ {x}]]
      BY <1>14 DEF LinkLine
    <2>3. ~Passed([req[p] EXCEPT !.todo = @ \ {x}])
      BY <2>1 DEF InboxInv, TypeOK, RequestState
    <2> QED
      BY <1>4, <2>1, <2>2, <2>3
  <1>15. CASE UNCHANGED <<store, req>>
    BY <1>1, <1>2, <1>15 DEF RefundKept
  <1> QED
    BY <1>5, <1>6, <1>7, <1>8, <1>11, <1>12, <1>13, <1>14, <1>15 DEF Next, Work, vars,
       PageRecordsPayment, PageRecordsRefund

\* From any state in which the event is still to come, for one event and refund.
LEMMA OneRefundKept ==
  ASSUME NEW e \in Event, NEW r \in Refund, Kind[e] = "refund.created", r \in About[e]
  PROVE  Spec => []((store[e] = "none" /\ Found(PaidBy[r]))
                      => [](store[e] = "processed" => Recorded(r)))
  <1>1. StoredFirst /\ store[e] = "none" /\ Found(PaidBy[r]) => RefundKept(e, r)
    BY DEF StoredFirst, RefundKept, Found
  <1>2. InboxInv /\ RefundKept(e, r) /\ [Next]_vars => RefundKept(e, r)'
    BY StepsKeepRefund
  <1>3. RefundKept(e, r) => (store[e] = "processed" => Recorded(r))
    BY DEF RefundKept
  <1> QED
    BY <1>1, <1>2, <1>3, InboxCorrect, StoredFirstCorrect, PTL DEF Spec

\* A refund whose payment was recorded when refund.created came is recorded once
\* the event is marked as processed, by whomever (process_refund_from_refund_object
\* and the order in which process_webhook_event marks events).
THEOREM RefundsRecorded == Spec => RefundsAreNotLost
  BY OneRefundKept DEF RefundsAreNotLost
=============================================================================
