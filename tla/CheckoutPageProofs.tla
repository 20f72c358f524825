--------------------------- MODULE CheckoutPageProofs ---------------------------
(***************************************************************************)
(* For any number of orders, forms and clicks: the types of CheckoutPage,  *)
(* that a payment reported to the LiveView is one that Stripe took, and    *)
(* that a notice that the time is up only ends an order that is late.      *)
(***************************************************************************)
EXTENDS CheckoutPage, SequenceTheorems, TLAPS

\* A live hook's elements are of the secret it has, and no hook listens to
\* the button before it has elements.
HooksAgree ==
  \A i \in Form :
    /\ hook[i].elements # None =>
         hook[i].secret = hook[i].elements /\ hook[i].want = None
    /\ hook[i].want # None /\ ~hook[i].gone => hook[i].secret = hook[i].want
    /\ hook[i].gone => hook[i].elements = None
    /\ hook[i].bound => hook[i].elements # None

Running == {"mounting", "announced", "confirming", "paid"}

\* A submission under way is that of a hook that had elements, and Stripe
\* was given the elements the hook still has, unless it is gone.
CallsAgree ==
  \A c \in Click :
    /\ call[c].at \in Running =>
         /\ call[c].by \in Form
         /\ hook[call[c].by].gone \/ hook[call[c].by].elements # None
    /\ call[c].at \in {"confirming", "paid"} =>
         /\ call[c].of \in Order
         /\ hook[call[c].by].gone \/ hook[call[c].by].elements = call[c].of
    /\ call[c].at = "paid" => intent[call[c].of] = "paid"

FormMounted == shown # None => mounted \in Form

FormInv == TypeOK /\ HooksAgree /\ CallsAgree /\ FormMounted /\ SuccessNamesPaid

-----------------------------------------------------------------------------
(* The channel *)

\* What is left of a channel when its first message is taken.
LEMMA TailOf ==
  ASSUME NEW S, NEW q \in Seq(S), q # <<>>
  PROVE  /\ Head(q) \in S /\ Tail(q) \in Seq(S)
         /\ \A i \in DOMAIN Tail(q) : i + 1 \in DOMAIN q /\ Tail(q)[i] = q[i + 1]
  OBVIOUS

\* A channel with a message more.
LEMMA AppendOf ==
  ASSUME NEW S, NEW q \in Seq(S), NEW m \in S
  PROVE  /\ Append(q, m) \in Seq(S)
         /\ \A i \in DOMAIN Append(q, m) :
              (i \in DOMAIN q /\ Append(q, m)[i] = q[i]) \/ Append(q, m)[i] = m
  OBVIOUS

PaidStays == \A o \in Order : intent[o] = "paid" => intent'[o] = "paid"

ChannelStep ==
  \/ up' = up
  \/ up' = <<>>
  \/ /\ up # <<>>
     /\ up' = Tail(up)
  \/ \E m \in Message :
       /\ up' = Append(up, m)
       /\ m.kind = "success" => m.o # None /\ intent'[m.o] = "paid"

\* Whatever a step does to the channel, its reports stay true.
LEMMA ChannelSafe ==
  ASSUME TypeOK, SuccessNamesPaid, PaidStays, ChannelStep
  PROVE  up' \in Seq(Message) /\ SuccessNamesPaid'
  <1>1. up \in Seq(Message)
    BY DEF TypeOK, Message
  <1>6. \A j \in DOMAIN up : up[j].kind = "success" =>
          up[j].o # None /\ intent'[up[j].o] = "paid"
    <2>1. \A j \in DOMAIN up : up[j] \in Message
      BY <1>1
    <2>2. QED
      BY <2>1 DEF SuccessNamesPaid, PaidStays, Message, Maybe
  <1>2. CASE up' = up
    BY <1>1, <1>2, <1>6 DEF SuccessNamesPaid
  <1>3. CASE up' = <<>>
    BY <1>3 DEF SuccessNamesPaid
  <1>4. CASE up # <<>> /\ up' = Tail(up)
    <2>1. /\ up' \in Seq(Message)
          /\ \A i \in DOMAIN up' : i + 1 \in DOMAIN up /\ up'[i] = up[i + 1]
      BY <1>1, <1>4, TailOf
    <2>2. ASSUME NEW i \in DOMAIN up', up'[i].kind = "success"
          PROVE  up'[i].o # None /\ intent'[up'[i].o] = "paid"
      BY <1>1, <2>1, <2>2, <1>6 DEF SuccessNamesPaid
    <2>3. QED
      BY <2>1, <2>2 DEF SuccessNamesPaid
  <1>5. ASSUME NEW m \in Message, up' = Append(up, m),
               m.kind = "success" => m.o # None /\ intent'[m.o] = "paid"
        PROVE  up' \in Seq(Message) /\ SuccessNamesPaid'
    <2>1. /\ up' \in Seq(Message)
          /\ \A i \in DOMAIN up' : (i \in DOMAIN up /\ up'[i] = up[i]) \/ up'[i] = m
      BY <1>1, <1>5, AppendOf
    <2>2. ASSUME NEW i \in DOMAIN up', up'[i].kind = "success"
          PROVE  up'[i].o # None /\ intent'[up'[i].o] = "paid"
      BY <1>5, <1>6, <2>1, <2>2 DEF SuccessNamesPaid
    <2>3. QED
      BY <2>1, <2>2 DEF SuccessNamesPaid
  <1>7. QED
    BY <1>2, <1>3, <1>4, <1>5 DEF ChannelStep

-----------------------------------------------------------------------------
(* Types *)

\* What closing and timing out write: at most the order that the LiveView holds.
LEMMA CloseWrites ==
  ASSUME HandleClose
  PROVE  UNCHANGED status \/ (order # None /\ status' = [status EXCEPT ![order] = "cancelled"])
  <1>1. CASE page = "booking" /\ (order = None \/ status[order] # "pending")
    <2>1. UNCHANGED status
      BY <1>1 DEF HandleClose
    <2> QED
      BY <2>1
  <1>2. CASE ~(page = "booking" /\ (order = None \/ status[order] # "pending"))
    <2>1. status' = IF order = None THEN status ELSE [status EXCEPT ![order] = "cancelled"]
      BY <1>2 DEF HandleClose
    <2> QED
      BY <2>1, Zenon
  <1> QED
    BY <1>1, <1>2, Zenon

LEMMA ExpiredWrites ==
  ASSUME HandleExpired
  PROVE  \/ UNCHANGED <<status, intent>>
         \/ /\ order # None /\ status' = [status EXCEPT ![order] = "expired"]
            /\ intent' = CancelledIntent(order)
  BY Zenon DEF HandleExpired

\* A report settles its order or not; in each case it closes the page's order
\* at most, and a ticket page shows what it showed or nothing.
LEMMA SuccessWrites ==
  ASSUME HandleSuccess
  PROVE  /\ order' \in {order, None} /\ url' \in {url, None} /\ dialog' \in {dialog, FALSE}
         /\ status' = status \/ status' = [status EXCEPT ![Head(up).o] = "completed"]
         /\ unsettled' \in {unsettled, unsettled \cup {Head(up).o}}
         /\ order' = None \/ (order' = order /\ url' = url)
         /\ View(dialog', order') \in {None, View(dialog, order)}
  <1> DEFINE o == Head(up).o
  <1>1. Settled(o) \/ NotSettled(o) \/ NotRegistered(o)
    BY DEF HandleSuccess
  <1> HIDE DEF o
  <1>2. QED
    <2>1. CASE Settled(o)
      BY <2>1 DEF Settled, View, o
    <2>2. CASE NotSettled(o)
      BY <2>2 DEF NotSettled, View, o
    <2>3. CASE NotRegistered(o)
      BY <2>3 DEF NotRegistered, View, o
    <2>4. QED
      BY <1>1, <2>1, <2>2, <2>3

LEMMA TypeStep ==
  ASSUME FormInv, [Next]_vars
  PROVE  TypeOK'
  <1> USE NumbersAssumption DEF FormInv, TypeOK
  <1>m. None \in Maybe /\ Order \subseteq Maybe /\ \A o \in Maybe : o # None => o \in Order
    BY DEF Maybe
  <1>k. \A o \in Maybe :
          /\ Msg("proceed", None) \in Message /\ Msg("close", None) \in Message
          /\ Msg("redirect", None) \in Message /\ Msg("expired", None) \in Message
          /\ Msg("success", o) \in Message
    BY <1>m DEF Msg, Message
  <1>u. /\ up # <<>> => Tail(up) \in Seq(Message) /\ Head(up) \in Message /\ Head(up).o \in Maybe
        /\ \A m \in Message : Append(up, m) \in Seq(Message)
        /\ <<>> \in Seq(Message)
    <2>1. \A m \in Message : m.o \in Maybe
      BY DEF Message
    <2>2. QED
      BY <2>1, TailOf, AppendOf
  <1>d. /\ down # <<>> => Tail(down) \in Seq(Maybe) /\ Head(down) \in Maybe
        /\ \A o \in Maybe : Append(down, o) \in Seq(Maybe) /\ <<o>> \in Seq(Maybe)
    BY TailOf, AppendOf
  <1>h. \A h \in HookType, o \in Maybe :
          /\ Started(h, o) \in HookType /\ Updated(h, o) \in HookType
          /\ Prepared(h) \in HookType /\ Destroyed(h) \in HookType
          /\ Unprepared(h) \in HookType
    BY <1>m DEF HookType, Unprepared, Started, Updated, Prepared, Destroyed, NoHook
  <1>c. \A h \in HookType : h.elements \in Maybe /\ h.secret \in Maybe
    BY DEF HookType
  <1>1. ASSUME NEW o \in Order, HandleProceed(o) PROVE TypeOK'
    BY <1>1, <1>m, <1>k, <1>u, <1>d DEF HandleProceed, server, browser, Awaiting
  <1>2. ASSUME HandleClose PROVE TypeOK'
    <2>a. /\ order' \in {order, None} /\ url' \in {url, None} /\ dialog' \in {dialog, FALSE}
          /\ redirecting' \in {redirecting, FALSE}
      BY <1>2 DEF HandleClose
    <2>b. \A o \in news' : o \in news \/ (o = order /\ o # None)
      BY <1>2 DEF HandleClose
    <2>c. status' \in [Order -> {"none", "pending", "completed", "cancelled", "expired"}]
      BY <1>2, <1>m, CloseWrites
    <2>2. /\ order' \in Maybe /\ url' \in Maybe /\ dialog' \in BOOLEAN /\ redirecting' \in BOOLEAN
          /\ news' \subseteq Order
          /\ status' \in [Order -> {"none", "pending", "completed", "cancelled", "expired"}]
      BY <1>m, <2>a, <2>b, <2>c
    <2>3. up' \in Seq(Message) /\ down' \in Seq(Maybe)
      BY <1>2, <1>m, <1>u, <1>d, <2>2 DEF HandleClose, Awaiting, View
    <2>4. UNCHANGED <<page, unsettled, intent, late, browser, touches, drops>>
      BY <1>2 DEF HandleClose
    <2>5. QED
      BY <2>2, <2>3, <2>4 DEF browser
  <1>3. ASSUME HandleRedirect PROVE TypeOK'
    BY <1>3, <1>m, <1>k, <1>u, <1>d DEF HandleRedirect, server, browser, Awaiting
  <1>4. ASSUME HandleSuccess PROVE TypeOK'
    <2>1. /\ order' \in {order, None} /\ url' \in {url, None} /\ dialog' \in {dialog, FALSE}
          /\ status' = status \/ status' = [status EXCEPT ![Head(up).o] = "completed"]
          /\ unsettled' \in {unsettled, unsettled \cup {Head(up).o}}
      BY <1>4, SuccessWrites
    <2>5. Head(up).o \in Order
      <3>1. up # <<>> /\ Head(up).kind = "success"
        BY <1>4 DEF HandleSuccess, Awaiting
      <3>2. 1 \in DOMAIN up /\ up[1] = Head(up)
        BY <3>1
      <3>3. QED
        BY <1>m, <1>u, <3>1, <3>2 DEF SuccessNamesPaid
    <2>2. /\ order' \in Maybe /\ url' \in Maybe /\ dialog' \in BOOLEAN
          /\ status' \in [Order -> {"none", "pending", "completed", "cancelled", "expired"}]
          /\ unsettled' \subseteq Order
      BY <1>m, <2>1, <2>5
    <2>3. up' \in Seq(Message) /\ down' \in Seq(Maybe)
      <3>1. up # <<>> /\ up' = Tail(up) /\ down' = Append(down, View(dialog', order'))
        BY <1>4 DEF HandleSuccess, Awaiting
      <3>2. View(dialog', order') \in Maybe
        BY <1>m, <2>2 DEF View
      <3>3. QED
        BY <1>u, <1>d, <3>1, <3>2
    <2>4. UNCHANGED <<page, redirecting, news, intent, late, browser, touches, drops>>
      BY <1>4 DEF HandleSuccess
    <2>6. QED
      BY <2>2, <2>3, <2>4 DEF browser
  <1>5. ASSUME HandleExpired PROVE TypeOK'
    <2>a. /\ order' = None /\ url' = None /\ dialog' = FALSE
      BY <1>5 DEF HandleExpired
    <2>d. \A o \in news' : o \in news \/ (o = order /\ o # None)
      BY <1>5 DEF HandleExpired
    <2>b. status' \in [Order -> {"none", "pending", "completed", "cancelled", "expired"}]
      BY <1>5, <1>m, ExpiredWrites
    <2>c. intent' \in [Order -> {"open", "paid", "cancelled"}]
      BY <1>5, <1>m, ExpiredWrites DEF CancelledIntent
    <2>2. /\ news' \subseteq Order
          /\ status' \in [Order -> {"none", "pending", "completed", "cancelled", "expired"}]
          /\ intent' \in [Order -> {"open", "paid", "cancelled"}]
      BY <1>m, <2>b, <2>c, <2>d
    <2>3. up' \in Seq(Message) /\ down' \in Seq(Maybe)
      BY <1>5, <1>m, <1>u, <1>d DEF HandleExpired, Awaiting
    <2>4. UNCHANGED <<page, redirecting, unsettled, late, browser, touches, drops>>
      BY <1>5 DEF HandleExpired
    <2>5. QED
      BY <1>m, <2>a, <2>2, <2>3, <2>4 DEF browser
  <1>6. ASSUME NEW o \in Order, LearnEnded(o) PROVE TypeOK'
    BY <1>6, <1>m, <1>k, <1>u, <1>d DEF LearnEnded, server, browser
  <1>7. ASSUME CheckBooking PROVE TypeOK'
    BY <1>7, <1>m, <1>k, <1>u, <1>d DEF CheckBooking, server, browser
  <1>8. ASSUME Touch PROVE TypeOK'
    <2>1. View(dialog, order) \in Maybe
      BY <1>m DEF View
    <2>2. down' \in Seq(Maybe) /\ touches' \in Nat
      BY <1>8, <1>d, <2>1 DEF Touch
    <2>3. UNCHANGED <<server, up, intent, late, browser, drops>>
      BY <1>8 DEF Touch
    <2>4. QED
      BY <2>2, <2>3 DEF server, browser
  <1>9. ASSUME Reconnect PROVE TypeOK'
    <2>1. url \in Maybe /\ order' \in Maybe /\ url' \in Maybe /\ dialog' \in BOOLEAN
      BY <1>9, <1>m DEF Reconnect
    <2>2. down' \in Seq(Maybe) /\ up' \in Seq(Message)
      <3>1. up' = <<>> /\ down' = <<View(dialog', order')>> /\ View(dialog', order') \in Maybe
        BY <1>9, <1>m, <2>1 DEF Reconnect, View
      <3>2. QED
        BY <3>1, <1>u, <1>d
    <2>3. order # None /\ Abandons => order \in Order
      BY <1>m
    <2>4. /\ status' \in [Order -> {"none", "pending", "completed", "cancelled", "expired"}]
          /\ news' \subseteq Order
      BY <1>9, <2>3 DEF Reconnect, Abandons
    <2>5. /\ drops' = drops + 1 /\ redirecting' = FALSE
          /\ UNCHANGED <<page, unsettled, intent, late, shown, mounted, hook, content,
                         button, ticking, call, touches>>
      BY <1>9 DEF Reconnect, browser
    <2>6. drops' \in Nat
      BY <2>5
    <2>7. QED
      BY <2>1, <2>2, <2>4, <2>5, <2>6
  <1>10. ASSUME NEW o \in Order, OrderTimesOut(o) PROVE TypeOK'
    BY <1>10, <1>m, <1>k, <1>u, <1>d DEF OrderTimesOut, server, browser
  <1>11. ASSUME NEW o \in Order, SweepExpires(o) PROVE TypeOK'
    BY <1>11, <1>m, <1>k, <1>u, <1>d DEF SweepExpires, server, browser, CancelledIntent
  <1>13. ASSUME Proceed PROVE TypeOK'
    BY <1>13, <1>m, <1>k, <1>u, <1>d DEF Proceed, server, browser
  <1>14. ASSUME Close PROVE TypeOK'
    BY <1>14, <1>m, <1>k, <1>u, <1>d DEF Close, server, browser
  <1>15. ASSUME Tick PROVE TypeOK'
    BY <1>15, <1>m, <1>k, <1>u, <1>d DEF Tick, server, browser
  <1>16. ASSUME NEW c \in Click, StripeCharges(c) PROVE TypeOK'
    <2>a. call[c] \in CallType
      OBVIOUS
    <2>b. [call[c] EXCEPT !.at = "paid"] \in CallType
      BY <2>a DEF CallType
    <2>c. /\ call' = [call EXCEPT ![c] = [call[c] EXCEPT !.at = "paid"]]
          /\ intent' = [intent EXCEPT ![call[c].of] = "paid"]
      BY <1>16 DEF StripeCharges
    <2>1. /\ call' \in [Click -> CallType]
          /\ intent' \in [Order -> {"open", "paid", "cancelled"}]
      BY <2>b, <2>c
    <2>2. UNCHANGED <<server, up, down, late, shown, mounted, hook, content, button,
                      ticking, touches, drops>>
      BY <1>16 DEF StripeCharges
    <2>3. QED
      BY <2>1, <2>2 DEF server
  <1>17. ASSUME NEW c \in Click, StripeRefuses(c) PROVE TypeOK'
    BY <1>17, <1>m, <1>k, <1>u, <1>d DEF StripeRefuses, server, browser, CallType, Fails, Done
  <1>18. ASSUME NEW c \in Click, Remounted(c) PROVE TypeOK'
    BY <1>18, <1>m, <1>k, <1>u, <1>d DEF Remounted, server, browser, CallType, Announce, CallsAgree, Running
  <1>19. ASSUME NEW c \in Click, Confirm(c) PROVE TypeOK'
    <2>1. call[c].by \in Form /\ hook[call[c].by] \in HookType
      BY <1>19 DEF Confirm, CallsAgree, Running
    <2>2. hook[call[c].by].elements \in Maybe /\ hook[call[c].by].secret \in Maybe
      BY <2>1, <1>c
    <2>3. call' \in [Click -> CallType]
      BY <1>19, <1>m, <2>2 DEF Confirm, Fails, Done, CallType
    <2>4. button' \in {button, button \/ call[c].by = mounted}
      BY <1>19 DEF Confirm, Fails
    <2>5. button' \in BOOLEAN
      BY <2>4
    <2>6. UNCHANGED <<server, up, down, intent, late, shown, mounted, hook, content,
                      ticking, touches, drops>>
      BY <1>19 DEF Confirm
    <2>7. QED
      BY <2>3, <2>5, <2>6 DEF server
  <1>20. ASSUME NEW c \in Click, Confirmed(c) PROVE TypeOK'
    <2>1. call[c].by \in Form /\ hook[call[c].by] \in HookType
      BY <1>20 DEF Confirmed, CallsAgree, Running
    <2>2. hook[call[c].by].elements \in Maybe /\ hook[call[c].by].secret \in Maybe
      BY <2>1, <1>c
    <2>3. call' \in [Click -> CallType]
      BY <1>20, <1>m DEF Confirmed, Fails, Done, CallType
    <2>a. up' = up \/ up' = Append(up, Msg("success", hook[call[c].by].secret))
      BY <1>20 DEF Confirmed
    <2>4. up' \in Seq(Message)
      BY <1>k, <1>u, <2>2, <2>a
    <2>5. button' \in {button, button \/ call[c].by = mounted}
      BY <1>20 DEF Confirmed, Fails
    <2>6. button' \in BOOLEAN
      BY <2>5
    <2>7. UNCHANGED <<server, down, intent, late, shown, mounted, hook, content,
                      ticking, touches, drops>>
      BY <1>20 DEF Confirmed
    <2>8. QED
      BY <2>3, <2>4, <2>6, <2>7 DEF server
  <1>21. ASSUME NEW c \in Click, Submit(c) PROVE TypeOK'
    <2>1. mounted \in Form
      BY <1>21 DEF Submit
    <2>a. \E k \in {"mounting", "announced"} :
            call' = [call EXCEPT ![c] = [by |-> mounted, of |-> None, at |-> k]]
      BY <1>21 DEF Submit, Announce
    <2>2. call' \in [Click -> CallType]
      BY <1>m, <2>1, <2>a DEF CallType
    <2>3. up' \in Seq(Message)
      BY <1>21, <1>k, <1>u, <1>m DEF Submit, Announce
    <2>4. QED
      BY <1>21, <2>2, <2>3 DEF Submit, Announce, server
  <1>22. ASSUME NEW i \in Form, FinishInit(i) PROVE TypeOK'
    <2>a. \E h \in HookType : hook' = [hook EXCEPT ![i] = h]
      BY <1>22, <1>h, <1>m DEF FinishInit
    <2>1. hook' \in [Form -> HookType]
      BY <2>a
    <2>2. QED
      BY <1>22, <2>1 DEF FinishInit, server
  <1>23. ASSUME Patch PROVE TypeOK'
    <2>1. Head(down) \in Maybe /\ down' \in Seq(Maybe) /\ up' \in Seq(Message)
      BY <1>23, <1>d, <1>k, <1>u, <1>m DEF Patch
    <2>2. mounted' \in Form \cup {None}
      BY <1>23 DEF Patch
    <2>3. hook' \in [Form -> HookType]
      <3>1. CASE shown # None /\ Head(down) # None
        <4>1. mounted \in Form
          BY <3>1 DEF FormMounted
        <4>2. \E h \in HookType : hook' = [hook EXCEPT ![mounted] = h]
          BY <1>23, <2>1, <1>h, <3>1, <4>1 DEF Patch
        <4>3. QED
          BY <4>1, <4>2
      <3>2. CASE Head(down) = None
        BY <1>23, <1>h, <1>m, <3>2 DEF Patch
      <3>3. CASE shown = None /\ Head(down) # None
        <4>1. PICK i \in Form : hook' = [hook EXCEPT ![i] = Started(@, Head(down))]
          BY <1>23, <3>3 DEF Patch
        <4>2. Started(hook[i], Head(down)) \in HookType
          BY <2>1, <1>h
        <4>3. QED
          BY <4>1, <4>2
      <3>4. QED
        BY <3>1, <3>2, <3>3
    <2>4. QED
      BY <1>23, <2>1, <2>2, <2>3, <1>m DEF Patch, Timed, server
  <1>24. CASE UNCHANGED vars
    BY <1>24 DEF vars, server, browser
  <1> QED
    BY <1>1, <1>2, <1>3, <1>4, <1>5, <1>6, <1>7, <1>8, <1>9, <1>10, <1>11, <1>13, <1>14, <1>15, <1>16, <1>17, <1>18, <1>19, <1>20, <1>21, <1>22, <1>23, <1>24
       DEF Next, LiveView, HandleEvent, LearnNews, HookRuns, Submission, Answer,
           Elsewhere, MemberActs

-----------------------------------------------------------------------------
(* The invariant *)

\* A step that leaves the hooks and their calls alone.
LEMMA QuietStep ==
  ASSUME FormInv, TypeOK', PaidStays, ChannelStep,
         UNCHANGED <<shown, mounted, hook, call>>
  PROVE  FormInv'
  <1>1. SuccessNamesPaid'
    BY ChannelSafe DEF FormInv
  <1>2. HooksAgree' /\ FormMounted'
    BY DEF FormInv, HooksAgree, FormMounted
  <1>3. CallsAgree'
    BY DEF FormInv, CallsAgree, PaidStays
  <1>4. QED
    BY <1>1, <1>2, <1>3 DEF FormInv

\* Elements stay what they are until the hook is destroyed.
Continues ==
  \A i \in Form :
    /\ hook[i].gone => hook'[i].gone
    /\ hook[i].elements # None => hook'[i].gone \/ hook'[i].elements = hook[i].elements

\* A step of the hooks that leaves the calls alone.
LEMMA HookStep ==
  ASSUME FormInv, TypeOK', ChannelStep, HooksAgree', FormMounted', Continues,
         UNCHANGED <<intent, call>>
  PROVE  FormInv'
  <1>1. PaidStays
    BY DEF PaidStays
  <1>2. SuccessNamesPaid'
    BY <1>1, ChannelSafe DEF FormInv
  <1>3. CallsAgree'
    <2>1. \A c \in Click : call[c].at \in {"confirming", "paid"} => call[c].at \in Running
      BY DEF Running
    <2>2. QED
      BY <2>1 DEF FormInv, CallsAgree, Continues
  <1>4. QED
    BY <1>2, <1>3 DEF FormInv

LEMMA FormInvStep ==
  ASSUME FormInv, [Next]_vars
  PROVE  FormInv'
  <1>t. TypeOK /\ TypeOK'
    BY TypeStep DEF FormInv
  <1>m. /\ None \in Maybe /\ Msg("proceed", None) \in Message
        /\ Msg("close", None) \in Message /\ Msg("redirect", None) \in Message
        /\ Msg("expired", None) \in Message
        /\ \A o \in Maybe : Msg("success", o) \in Message
        /\ \A k \in {"proceed", "close", "redirect", "expired"} : Msg(k, None).kind # "success"
    BY DEF Maybe, Msg, Message
  <1>p. PaidStays
    <2>1. CASE UNCHANGED intent
      BY <2>1 DEF PaidStays
    <2>2. ASSUME NEW o \in Maybe, intent' = CancelledIntent(o) PROVE PaidStays
      BY <1>t, <2>2 DEF PaidStays, CancelledIntent, TypeOK
    <2>3. ASSUME NEW c \in Click, StripeCharges(c) PROVE PaidStays
      BY <1>t, <2>3 DEF PaidStays, StripeCharges, TypeOK
    <2>4. HandleExpired => UNCHANGED intent \/ intent' = CancelledIntent(order)
      BY DEF HandleExpired
    <2>5. \A o \in Order : SweepExpires(o) => o \in Maybe /\ intent' = CancelledIntent(o)
      BY DEF SweepExpires, Maybe
    <2>6. order \in Maybe
      BY <1>t DEF TypeOK
    <2>7. \/ UNCHANGED intent \/ HandleExpired
          \/ \E o \in Order : SweepExpires(o)
          \/ \E c \in Click : StripeCharges(c)
      BY DEF Next, LiveView, HandleEvent, LearnNews, HookRuns, Submission, Answer,
             Elsewhere, MemberActs, vars, HandleProceed, HandleClose, HandleRedirect,
             HandleSuccess, LearnEnded, CheckBooking, Touch, Reconnect, OrderTimesOut,
             Proceed, Close, Tick, StripeRefuses, Remounted, Confirm,
             Confirmed, Submit, FinishInit, Patch
    <2>8. QED
      BY <2>1, <2>2, <2>3, <2>4, <2>5, <2>6, <2>7
  <1>1. ASSUME NEW o \in Order, HandleProceed(o) PROVE FormInv'
    <2>1. UNCHANGED <<shown, mounted, hook, call>> /\ ChannelStep
      BY <1>1, <1>m DEF ChannelStep, HandleProceed, browser, Awaiting
    <2>2. QED
      BY <2>1, <1>t, <1>p, QuietStep
  <1>2. ASSUME HandleClose PROVE FormInv'
    <2>1. UNCHANGED <<shown, mounted, hook, call>> /\ ChannelStep
      BY <1>2, <1>m DEF ChannelStep, HandleClose, browser, Awaiting
    <2>2. QED
      BY <2>1, <1>t, <1>p, QuietStep
  <1>3. ASSUME HandleRedirect PROVE FormInv'
    <2>1. UNCHANGED <<shown, mounted, hook, call>> /\ ChannelStep
      BY <1>3, <1>m DEF ChannelStep, HandleRedirect, browser, Awaiting
    <2>2. QED
      BY <2>1, <1>t, <1>p, QuietStep
  <1>4. ASSUME HandleSuccess PROVE FormInv'
    <2>1. UNCHANGED <<shown, mounted, hook, call>> /\ ChannelStep
      BY <1>4, <1>m DEF ChannelStep, HandleSuccess, browser, Awaiting
    <2>2. QED
      BY <2>1, <1>t, <1>p, QuietStep
  <1>5. ASSUME HandleExpired PROVE FormInv'
    <2>1. UNCHANGED <<shown, mounted, hook, call>> /\ ChannelStep
      BY <1>5, <1>m DEF ChannelStep, HandleExpired, browser, Awaiting, CancelledIntent
    <2>2. QED
      BY <2>1, <1>t, <1>p, QuietStep
  <1>6. ASSUME NEW o \in Order, LearnEnded(o) PROVE FormInv'
    <2>1. UNCHANGED <<shown, mounted, hook, call>> /\ up' = up
      BY <1>6 DEF LearnEnded, browser
    <2>2. ChannelStep
      BY <2>1 DEF ChannelStep
    <2>3. QED
      BY <2>1, <2>2, <1>t, <1>p, QuietStep
  <1>7. ASSUME CheckBooking PROVE FormInv'
    <2>1. UNCHANGED <<shown, mounted, hook, call>> /\ up' = up
      BY <1>7 DEF CheckBooking, browser
    <2>2. ChannelStep
      BY <2>1 DEF ChannelStep
    <2>3. QED
      BY <2>1, <2>2, <1>t, <1>p, QuietStep
  <1>8. ASSUME Touch PROVE FormInv'
    <2>1. UNCHANGED <<shown, mounted, hook, call>> /\ up' = up
      BY <1>8 DEF Touch, browser
    <2>2. ChannelStep
      BY <2>1 DEF ChannelStep
    <2>3. QED
      BY <2>1, <2>2, <1>t, <1>p, QuietStep
  <1>9. ASSUME Reconnect PROVE FormInv'
    <2>1. UNCHANGED <<shown, mounted, hook, call>> /\ up' = <<>>
      BY <1>9 DEF Reconnect, browser
    <2>2. ChannelStep
      BY <2>1 DEF ChannelStep
    <2>3. QED
      BY <2>1, <2>2, <1>t, <1>p, QuietStep
  <1>10. ASSUME NEW o \in Order, OrderTimesOut(o) PROVE FormInv'
    <2>1. UNCHANGED <<shown, mounted, hook, call>> /\ up' = up
      BY <1>10 DEF OrderTimesOut, browser
    <2>2. ChannelStep
      BY <2>1 DEF ChannelStep
    <2>3. QED
      BY <2>1, <2>2, <1>t, <1>p, QuietStep
  <1>11. ASSUME NEW o \in Order, SweepExpires(o) PROVE FormInv'
    <2>1. UNCHANGED <<shown, mounted, hook, call>> /\ up' = up
      BY <1>11 DEF SweepExpires, browser
    <2>2. ChannelStep
      BY <2>1 DEF ChannelStep
    <2>3. QED
      BY <2>1, <2>2, <1>t, <1>p, QuietStep
  <1>13. ASSUME Proceed PROVE FormInv'
    <2>1. UNCHANGED <<shown, mounted, hook, call>> /\ ChannelStep
      BY <1>13, <1>m DEF ChannelStep, Proceed, browser
    <2>2. QED
      BY <2>1, <1>t, <1>p, QuietStep
  <1>14. ASSUME Close PROVE FormInv'
    <2>1. UNCHANGED <<shown, mounted, hook, call>> /\ ChannelStep
      BY <1>14, <1>m DEF ChannelStep, Close, browser
    <2>2. QED
      BY <2>1, <1>t, <1>p, QuietStep
  <1>15. ASSUME Tick PROVE FormInv'
    <2>1. UNCHANGED <<shown, mounted, hook, call>> /\ ChannelStep
      BY <1>15, <1>m DEF ChannelStep, Tick, browser
    <2>2. QED
      BY <2>1, <1>t, <1>p, QuietStep
  <1>16. ASSUME NEW c \in Click, StripeCharges(c) PROVE FormInv'
    <2>1. UNCHANGED <<shown, mounted, hook>> /\ HooksAgree' /\ FormMounted'
      BY <1>16 DEF StripeCharges, FormInv, HooksAgree, FormMounted
    <2>a. up' = up
      BY <1>16 DEF StripeCharges
    <2>2. ChannelStep
      BY <2>a DEF ChannelStep
    <2>3. CallsAgree'
      BY <1>16, <1>t, <1>p, <2>1 DEF StripeCharges, FormInv, CallsAgree, HooksAgree, Running, PaidStays, TypeOK, CallType
    <2>4. QED
      BY <1>p, <1>t, <2>1, <2>2, <2>3, ChannelSafe DEF FormInv
  <1>17. ASSUME NEW c \in Click, StripeRefuses(c) PROVE FormInv'
    <2>1. UNCHANGED <<shown, mounted, hook>> /\ HooksAgree' /\ FormMounted'
      BY <1>17 DEF StripeRefuses, Fails, Done, FormInv, HooksAgree, FormMounted
    <2>a. up' = up
      BY <1>17 DEF StripeRefuses
    <2>2. ChannelStep
      BY <2>a DEF ChannelStep
    <2>3. CallsAgree'
      BY <1>17, <1>t, <1>p, <2>1 DEF StripeRefuses, Fails, Done, FormInv, CallsAgree, HooksAgree, Running, PaidStays, TypeOK, CallType
    <2>4. QED
      BY <1>p, <1>t, <2>1, <2>2, <2>3, ChannelSafe DEF FormInv
  <1>18. ASSUME NEW c \in Click, Remounted(c) PROVE FormInv'
    <2>1. UNCHANGED <<shown, mounted, hook>> /\ HooksAgree' /\ FormMounted'
      BY <1>18 DEF Remounted, Announce, FormInv, HooksAgree, FormMounted
    <2>2. ChannelStep
      BY <1>18, <1>m, <1>t DEF ChannelStep, Remounted, Announce, FormInv, CallsAgree, TypeOK
    <2>3. CallsAgree'
      BY <1>18, <1>t, <1>p, <2>1 DEF Remounted, Announce, FormInv, CallsAgree, HooksAgree, Running, PaidStays, TypeOK, CallType
    <2>4. QED
      BY <1>p, <1>t, <2>1, <2>2, <2>3, ChannelSafe DEF FormInv
  <1>19. ASSUME NEW c \in Click, Confirm(c) PROVE FormInv'
    <2>1. UNCHANGED <<shown, mounted, hook>> /\ HooksAgree' /\ FormMounted'
      BY <1>19 DEF Confirm, Fails, Done, FormInv, HooksAgree, FormMounted
    <2>a. up' = up
      BY <1>19 DEF Confirm
    <2>2. ChannelStep
      BY <2>a DEF ChannelStep
    <2>3. CallsAgree'
      <3>1. /\ call[c].by \in Form /\ intent' = intent /\ call \in [Click -> CallType]
            /\ hook[call[c].by].gone \/ hook[call[c].by].elements # None
            /\ hook[call[c].by].elements \in Maybe
        BY <1>19, <1>t DEF Confirm, FormInv, CallsAgree, Running, TypeOK, HookType
      <3>2. CASE hook[call[c].by].gone
        <4>1. call' = [call EXCEPT ![c] = Done]
          BY <1>19, <3>2 DEF Confirm, Fails
        <4>2. \A d \in Click : call'[d] = call[d] \/ call'[d].at = "done"
          BY <3>1, <4>1 DEF Done
        <4>3. QED
          BY <2>1, <3>1, <4>2 DEF FormInv, CallsAgree, Running
      <3>3. CASE ~hook[call[c].by].gone
        <4> DEFINE k == [by |-> call[c].by, of |-> hook[call[c].by].elements,
                         at |-> "confirming"]
        <4>1. call' = [call EXCEPT ![c] = k]
          BY <1>19, <3>3 DEF Confirm
        <4>2. k.by \in Form /\ k.of \in Order /\ hook[k.by].elements = k.of
              /\ k.at = "confirming"
          BY <3>1, <3>3 DEF Maybe
        <4> HIDE DEF k
        <4>3. \A d \in Click : call'[d] = IF d = c THEN k ELSE call[d]
          BY <3>1, <4>1
        <4>4. k.at # "paid"
          BY <4>2
        <4>5. ASSUME NEW d \in Click
              PROVE  /\ call'[d].at \in Running =>
                          /\ call'[d].by \in Form
                          /\ hook[call'[d].by].gone \/ hook[call'[d].by].elements # None
                     /\ call'[d].at \in {"confirming", "paid"} =>
                          /\ call'[d].of \in Order
                          /\ hook[call'[d].by].gone \/ hook[call'[d].by].elements = call'[d].of
                     /\ call'[d].at = "paid" => intent[call'[d].of] = "paid"
          <5>1. CASE d = c
            <6>1. call'[d] = k /\ None \notin Order
              BY <4>3, <5>1, NumbersAssumption
            <6>2. QED
              BY <4>2, <4>4, <6>1
          <5>2. CASE d # c
            BY <4>3, <5>2 DEF FormInv, CallsAgree
          <5>3. QED
            BY <5>1, <5>2
        <4>6. QED
          BY <2>1, <3>1, <4>5 DEF CallsAgree
      <3>4. QED
        BY <3>2, <3>3
    <2>4. QED
      BY <1>p, <1>t, <2>1, <2>2, <2>3, ChannelSafe DEF FormInv
  <1>20. ASSUME NEW c \in Click, Confirmed(c) PROVE FormInv'
    <2>1. UNCHANGED <<shown, mounted, hook>> /\ HooksAgree' /\ FormMounted'
      BY <1>20 DEF Confirmed, Fails, Done, FormInv, HooksAgree, FormMounted
    <2>2. ChannelStep
      <3>1. CASE hook[call[c].by].gone
        <4>1. up' = up
          BY <1>20, <3>1 DEF Confirmed
        <4>2. QED
          BY <4>1 DEF ChannelStep
      <3>2. CASE ~hook[call[c].by].gone
        <4> DEFINE s == hook[call[c].by].secret
        <4>1. /\ call[c].by \in Form /\ call[c].of \in Order
              /\ hook[call[c].by].elements = call[c].of
              /\ intent[call[c].of] = "paid" /\ intent' = intent
          BY <1>20, <3>2 DEF Confirmed, FormInv, CallsAgree, Running
        <4>2. call[c].of # None
          BY <4>1, NumbersAssumption
        <4>3. s = call[c].of
          BY <4>1, <4>2 DEF FormInv, HooksAgree
        <4>4. s \in Maybe /\ s # None /\ intent'[s] = "paid"
          BY <4>1, <4>2, <4>3 DEF Maybe
        <4>5. up' = Append(up, Msg("success", s))
          BY <1>20, <3>2 DEF Confirmed
        <4> HIDE DEF s
        <4>6. Msg("success", s).o = s
          BY DEF Msg
        <4>7. QED
          BY <1>m, <4>4, <4>5, <4>6 DEF ChannelStep
      <3>3. QED
        BY <3>1, <3>2
    <2>3. CallsAgree'
      BY <1>20, <1>t, <1>p, <2>1 DEF Confirmed, Fails, Done, FormInv, CallsAgree, HooksAgree, Running, PaidStays, TypeOK, CallType
    <2>4. QED
      BY <1>p, <1>t, <2>1, <2>2, <2>3, ChannelSafe DEF FormInv
  <1>21. ASSUME NEW c \in Click, Submit(c) PROVE FormInv'
    <2>1. UNCHANGED <<shown, mounted, hook>> /\ HooksAgree' /\ FormMounted'
      BY <1>21 DEF Submit, Announce, FormInv, HooksAgree, FormMounted
    <2>2. ChannelStep
      BY <1>21, <1>m, <1>t DEF ChannelStep, Submit, Announce, FormInv, CallsAgree, TypeOK
    <2>3. CallsAgree'
      <3>1. /\ mounted \in Form /\ intent' = intent /\ call \in [Click -> CallType]
            /\ hook[mounted].elements # None
        BY <1>21, <1>t DEF Submit, FormInv, HooksAgree, TypeOK
      <3>2. PICK a \in {"mounting", "announced"} :
              call' = [call EXCEPT ![c] = [by |-> mounted, of |-> None, at |-> a]]
        BY <1>21 DEF Submit, Announce
      <3>3. \A d \in Click :
              call'[d] = IF d = c THEN [by |-> mounted, of |-> None, at |-> a] ELSE call[d]
        BY <3>1, <3>2
      <3>4. QED
        BY <2>1, <3>1, <3>3 DEF FormInv, CallsAgree, Running
    <2>4. QED
      BY <1>p, <1>t, <2>1, <2>2, <2>3, ChannelSafe DEF FormInv
  <1>22. ASSUME NEW i \in Form, FinishInit(i) PROVE FormInv'
    <2>1. up' = up /\ FormMounted' /\ UNCHANGED <<intent, call>>
      BY <1>22 DEF FinishInit, FormInv, FormMounted
    <2>a. ChannelStep
      BY <2>1 DEF ChannelStep
    <2>b. hook[i] \in HookType /\ hook \in [Form -> HookType] /\ hook[i].want # None
      BY <1>22, <1>t DEF TypeOK, FinishInit
    <2>c. PICK h \in {Prepared(hook[i]), Unprepared(hook[i])} : hook' = [hook EXCEPT ![i] = h]
      BY <1>22 DEF FinishInit
    <2>d. /\ h.elements # None => h.secret = h.elements /\ h.want = None
          /\ h.want # None /\ ~h.gone => h.secret = h.want
          /\ h.gone => h.elements = None
          /\ h.bound => h.elements # None
          /\ hook[i].gone => h.gone
          /\ hook[i].elements # None => h.gone \/ h.elements = hook[i].elements
      <3>1. /\ hook[i].elements # None => hook[i].secret = hook[i].elements /\ hook[i].want = None
            /\ ~hook[i].gone => hook[i].secret = hook[i].want
            /\ hook[i].gone => hook[i].elements = None
            /\ hook[i].bound => hook[i].elements # None
        BY <2>b DEF FormInv, HooksAgree
      <3>2. CASE h = Prepared(hook[i])
        BY <2>b, <3>1, <3>2 DEF Prepared, HookType
      <3>3. CASE h = Unprepared(hook[i])
        BY <2>b, <3>1, <3>3 DEF Unprepared, HookType
      <3>4. QED
        BY <2>c, <3>2, <3>3
    <2>2. HooksAgree' /\ Continues
      BY <2>b, <2>c, <2>d DEF FormInv, HooksAgree, Continues
    <2>3. QED
      BY <1>t, <2>1, <2>a, <2>2, HookStep
  <1>23. ASSUME Patch PROVE FormInv'
    <2>a. up' = up \/ up' = Append(up, Msg("expired", None))
      BY <1>23 DEF Patch
    <2>b. ChannelStep
      BY <2>a, <1>m DEF ChannelStep
    <2>c. /\ hook \in [Form -> HookType] /\ shown' = Head(down)
          /\ \A i \in Form : hook[i] \in HookType
      BY <1>23, <1>t DEF Patch, TypeOK
    <2>1. ChannelStep /\ UNCHANGED <<intent, call>>
      BY <1>23, <2>b DEF Patch
    <2>2. FormMounted' /\ HooksAgree' /\ Continues
      <3>1. CASE shown # None /\ Head(down) # None
        <4>1. mounted \in Form /\ mounted' = mounted
          BY <1>23, <3>1 DEF Patch, FormInv, FormMounted
        <4>2. hook' = [hook EXCEPT ![mounted] = Updated(@, Head(down))]
          BY <1>23, <3>1 DEF Patch
        <4>3. LET h == Updated(hook[mounted], Head(down)) IN
              /\ h.elements # None => h.secret = h.elements /\ h.want = None
              /\ h.want # None /\ ~h.gone => h.secret = h.want
              /\ h.gone => h.elements = None
              /\ h.bound => h.elements # None
              /\ hook[mounted].gone => h.gone
              /\ hook[mounted].elements # None => h.elements = hook[mounted].elements
          BY <2>c, <4>1 DEF Updated, Started, FormInv, HooksAgree, HookType
        <4>4. HooksAgree' /\ Continues
          BY <2>c, <4>1, <4>2, <4>3 DEF FormInv, HooksAgree, Continues
        <4>5. QED
          BY <4>1, <4>4 DEF FormMounted
      <3>2. CASE Head(down) = None
        <4>1. hook' = [i \in Form |-> IF i = mounted THEN Destroyed(hook[i]) ELSE hook[i]]
          BY <1>23, <3>2 DEF Patch
        <4>2. \A i \in Form : hook'[i] = hook[i] \/ hook'[i] = Destroyed(hook[i])
          BY <4>1
        <4>3. \A i \in Form : LET h == Destroyed(hook[i]) IN
                h.gone /\ ~h.bound /\ h.elements = None
          BY DEF Destroyed, NoHook
        <4>4. HooksAgree' /\ Continues
          BY <4>2, <4>3 DEF FormInv, HooksAgree, Continues
        <4>5. QED
          BY <2>c, <3>2, <4>4 DEF FormMounted
      <3>3. CASE shown = None /\ Head(down) # None
        <4>1. PICK i \in Form : /\ hook[i] = NoHook /\ mounted' = i
                                /\ hook' = [hook EXCEPT ![i] = Started(@, Head(down))]
          BY <1>23, <3>3 DEF Patch, Fresh
        <4>2. LET h == Started(NoHook, Head(down)) IN
              h.secret = h.want /\ ~h.gone /\ ~h.bound /\ h.elements = None
          BY DEF Started, NoHook
        <4>3. NoHook.elements = None /\ ~NoHook.gone
          BY DEF NoHook
        <4>4. HooksAgree' /\ Continues
          BY <2>c, <4>1, <4>2, <4>3 DEF FormInv, HooksAgree, Continues
        <4>5. QED
          BY <4>1, <4>4 DEF FormMounted
      <3>4. QED
        BY <3>1, <3>2, <3>3
    <2>3. QED
      BY <1>t, <2>1, <2>2, HookStep
  <1>24. CASE UNCHANGED vars
    <2>1. UNCHANGED <<shown, mounted, hook, call>> /\ up' = up
      BY <1>24 DEF vars, browser
    <2>2. ChannelStep
      BY <2>1 DEF ChannelStep
    <2>3. QED
      BY <2>1, <2>2, <1>t, <1>p, QuietStep
  <1> QED
    BY <1>1, <1>2, <1>3, <1>4, <1>5, <1>6, <1>7, <1>8, <1>9, <1>10, <1>11, <1>13, <1>14, <1>15, <1>16, <1>17, <1>18, <1>19, <1>20, <1>21, <1>22, <1>23, <1>24
       DEF Next, LiveView, HandleEvent, LearnNews, HookRuns, Submission, Answer,
           Elsewhere, MemberActs

THEOREM FormInvHolds == Spec => []FormInv
  <1>1. Init => FormInv
    <2>1. ASSUME Init PROVE TypeOK
      <3>1. None \in Maybe /\ Order \subseteq Maybe
        BY DEF Maybe
      <3>2. order \in Maybe /\ up \in Seq(Message) /\ down \in Seq(Maybe)
        <4>1. order \in Maybe
          BY <2>1, <3>1 DEF Init
        <4>2. <<>> \in Seq(Message) /\ <<>> \in Seq(Maybe) /\ <<order>> \in Seq(Maybe)
          BY <4>1
        <4>3. QED
          BY <2>1, <4>1, <4>2 DEF Init
      <3>3. NoHook \in HookType /\ Idle \in CallType
        BY <3>1 DEF NoHook, HookType, Idle, CallType
      <3>4. hook \in [Form -> HookType] /\ call \in [Click -> CallType]
        BY <2>1, <3>3 DEF Init
      <3>5. QED
        BY <2>1, <3>1, <3>2, <3>4 DEF Init, TypeOK
    <2>2. ASSUME Init PROVE HooksAgree /\ CallsAgree /\ FormMounted /\ SuccessNamesPaid
      BY <2>2 DEF Init, NoHook, Idle, Running, HooksAgree, CallsAgree, FormMounted,
                  SuccessNamesPaid
    <2>3. QED
      BY <2>1, <2>2 DEF FormInv
  <1>2. FormInv /\ [Next]_vars => FormInv'
    BY FormInvStep
  <1>3. QED
    BY <1>1, <1>2, PTL DEF Spec

\* Every state of the page has its type.
THEOREM CheckoutTypes == Spec => []TypeOK
  <1>1. FormInv => TypeOK
    BY DEF FormInv
  <1>2. QED
    BY <1>1, FormInvHolds, PTL

\* A payment-success event names an intent that was paid, however clicks,
\* diffs, slow initialisations and lost connections fall.
THEOREM ReportsArePaid == Spec => []SuccessNamesPaid
  <1>1. FormInv => SuccessNamesPaid
    BY DEF FormInv
  <1>2. QED
    BY <1>1, FormInvHolds, PTL
-----------------------------------------------------------------------------
(* Notices.  A checkout-expired carries no order, so the LiveView ends the *)
(* one it holds.  That this is late has its reason in the whole channel:   *)
(* while an order that is not late is held or named by the address, no     *)
(* notice is on its way and none can come of what is shown or is to be     *)
(* shown; and a click that may open another is sent from a page that shows *)
(* none, behind every notice of the last one.                              *)

\* Nothing late is shown, nor will be by the diffs on their way.
NothingLate == shown \notin late /\ \A i \in DOMAIN down : down[i] \notin late

NoNotice == \A i \in DOMAIN up : up[i].kind # "expired"

\* What the page will show once every diff is applied.
ShowsLast ==
  IF down = <<>> THEN shown = View(dialog, order) ELSE down[Len(down)] = View(dialog, order)

\* A page that was emptied shows no late order again.
EmptiedForGood ==
  /\ shown = None => \A i \in DOMAIN down : down[i] \notin late
  /\ \A i, j \in DOMAIN down : i < j /\ down[i] = None => down[j] \notin late

\* Behind a click to open an order there is no notice, nor will be.
ProceedsLast ==
  \A i \in DOMAIN up : up[i].kind = "proceed" =>
    /\ NothingLate
    /\ \A j \in DOMAIN up : i < j => up[j].kind # "expired"

TicketNotices ==
  /\ order \in {None, url}
  /\ ShowsLast /\ EmptiedForGood /\ ProceedsLast
  /\ url \notin late \cup {None} => NothingLate /\ NoNotice

NoticeInv ==
  /\ \A o \in late : status[o] # "none"
  /\ ticking \in {None, shown}
  /\ page = "booking" => ticking = None /\ NoNotice
  /\ page = "ticket" => TicketNotices

\* The places of what is left of a channel, and of a channel with one more.
LEMMA TailPlaces ==
  ASSUME NEW S, NEW q \in Seq(S), q # <<>>
  PROVE  /\ Tail(q) \in Seq(S)
         /\ \A i \in DOMAIN q : i \in Nat
         /\ 1 \in DOMAIN q /\ Head(q) = q[1]
         /\ \A i \in DOMAIN Tail(q) :
              i \in Nat /\ i + 1 \in DOMAIN q /\ 1 < i + 1 /\ Tail(q)[i] = q[i + 1]
         /\ IF Tail(q) = <<>> THEN Len(q) = 1
            ELSE Len(Tail(q)) \in DOMAIN Tail(q) /\ Tail(q)[Len(Tail(q))] = q[Len(q)]
  <1> DEFINE t == Tail(q)
             n == Len(q)
  <1>1. /\ q \in [1..n -> S] /\ n \in Nat /\ n > 0 /\ DOMAIN q = 1..n
        /\ t \in Seq(S) /\ Head(q) = q[1]
        /\ Len(t) = n - 1 /\ DOMAIN t = 1..(n - 1)
        /\ \A i \in 1..(n - 1) : t[i] = q[i + 1]
        /\ t = <<>> <=> n = 1
    <2>1. q \in [1..n -> S] /\ n \in Nat /\ n > 0 /\ DOMAIN q = 1..n
      OBVIOUS
    <2>2. t \in Seq(S) /\ Head(q) = q[1] /\ Len(t) = n - 1
      BY HeadTailProperties
    <2>3. DOMAIN t = 1..(n - 1) /\ \A i \in 1..(n - 1) : t[i] = q[i + 1]
      OBVIOUS
    <2>4. t = <<>> <=> n = 1
      BY <2>1, <2>2, EmptySeq
    <2>5. QED
      BY <2>1, <2>2, <2>3, <2>4
  <1> HIDE DEF t, n
  <1>2. /\ \A i \in DOMAIN q : i \in Nat
        /\ 1 \in DOMAIN q /\ Head(q) = q[1]
        /\ \A i \in DOMAIN t : i \in Nat /\ i + 1 \in DOMAIN q /\ 1 < i + 1 /\ t[i] = q[i + 1]
    BY <1>1
  <1>3. t # <<>> => Len(t) \in DOMAIN t /\ t[Len(t)] = q[n]
    <2>1. t # <<>> => n - 1 \in 1..(n - 1) /\ (n - 1) + 1 = n
      BY <1>1
    <2>2. QED
      BY <1>1, <2>1
  <1>4. QED
    BY <1>1, <1>2, <1>3 DEF t, n

LEMMA AppendPlaces ==
  ASSUME NEW S, NEW q \in Seq(S), NEW m \in S
  PROVE  LET a == Append(q, m) IN
         /\ a \in Seq(S) /\ a # <<>>
         /\ \A i \in DOMAIN q : i \in Nat /\ i \in DOMAIN a /\ a[i] = q[i]
         /\ \A i \in DOMAIN a : \/ i \in DOMAIN q /\ a[i] = q[i] /\ i < Len(a)
                                \/ i = Len(a) /\ a[i] = m
         /\ Len(a) \in DOMAIN a /\ a[Len(a)] = m /\ Len(a) \in Nat
         /\ IF q = <<>> THEN DOMAIN q = {} /\ Len(a) = 1
            ELSE Len(q) \in DOMAIN q /\ \A i \in DOMAIN q : i = Len(q) \/ i < Len(q)
  <1> DEFINE a == Append(q, m)
             n == Len(q)
  <1>1. /\ n \in Nat /\ DOMAIN q = 1..n /\ DOMAIN a = 1..(n + 1)
        /\ a \in Seq(S) /\ a # <<>> /\ Len(a) = n + 1
        /\ a[n + 1] = m /\ \A i \in 1..n : a[i] = q[i]
        /\ q = <<>> <=> n = 0
    OBVIOUS
  <1> HIDE DEF a, n
  <1>2. /\ \A i \in DOMAIN q : i \in Nat /\ i \in DOMAIN a /\ a[i] = q[i]
        /\ \A i \in DOMAIN a : \/ i \in DOMAIN q /\ a[i] = q[i] /\ i < Len(a)
                               \/ i = Len(a) /\ a[i] = m
        /\ Len(a) \in DOMAIN a /\ a[Len(a)] = m /\ Len(a) \in Nat
    BY <1>1
  <1>3. IF q = <<>> THEN DOMAIN q = {} /\ Len(a) = 1
        ELSE n \in DOMAIN q /\ \A i \in DOMAIN q : i = n \/ i < n
    BY <1>1
  <1>4. QED
    BY <1>1, <1>2, <1>3 DEF a, n

LEMMA NoneIsNotLate ==
  ASSUME TypeOK
  PROVE  None \notin late /\ late \subseteq Order /\ order \in Maybe /\ url \in Maybe
         /\ up \in Seq(Message) /\ down \in Seq(Maybe) /\ \A d : View(d, order) \in Maybe
  BY NumbersAssumption DEF TypeOK, View, Maybe

\* A diff that shows what was shown last, or an order that is not late.
LEMMA DiffKeeps ==
  ASSUME TypeOK, ShowsLast, EmptiedForGood, NEW x \in Maybe, down' = Append(down, x),
         x \notin late \/ x = View(dialog, order), x = View(dialog', order'),
         UNCHANGED <<shown, late>>
  PROVE  ShowsLast' /\ EmptiedForGood' /\ (NothingLate => NothingLate')
  <1> DEFINE a == Append(down, x)
             v == View(dialog, order)
  <1>1. down \in Seq(Maybe) /\ None \notin late
    BY NoneIsNotLate
  <1>2. /\ a # <<>>
        /\ \A i \in DOMAIN down : i \in Nat /\ i \in DOMAIN a /\ a[i] = down[i]
        /\ \A i \in DOMAIN a : \/ i \in DOMAIN down /\ a[i] = down[i] /\ i < Len(a)
                               \/ i = Len(a) /\ a[i] = x
        /\ Len(a) \in DOMAIN a /\ a[Len(a)] = x /\ Len(a) \in Nat
        /\ IF down = <<>> THEN DOMAIN down = {} /\ Len(a) = 1
           ELSE Len(down) \in DOMAIN down /\ \A i \in DOMAIN down : i = Len(down) \/ i < Len(down)
    BY <1>1, AppendPlaces
  <1>3. IF down = <<>> THEN shown = v ELSE down[Len(down)] = v
    BY DEF ShowsLast
  <1> HIDE DEF a, v
  <1>4. down' = a /\ (x \notin late \/ x = v)
    BY DEF a, v
  <1>5. ShowsLast'
    BY <1>2, <1>4 DEF ShowsLast
  <1>6. EmptiedForGood'
    <2>1. ASSUME shown = None, NEW i \in DOMAIN a PROVE a[i] \notin late
      <3>1. x \notin late
        BY <1>1, <1>2, <1>3, <1>4, <2>1 DEF EmptiedForGood
      <3>2. QED
        BY <1>2, <2>1, <3>1 DEF EmptiedForGood
    <2>2. ASSUME NEW i \in DOMAIN a, NEW j \in DOMAIN a, i < j, a[i] = None
          PROVE  a[j] \notin late
      <3>1. CASE j \in DOMAIN down
        <4>1. i \in DOMAIN down
          BY <1>2, <2>2, <3>1
        <4>2. QED
          BY <1>2, <2>2, <3>1, <4>1 DEF EmptiedForGood
      <3>2. CASE j \notin DOMAIN down
        <4>1. j = Len(a) /\ a[j] = x
          BY <1>2, <3>2
        <4>2. i \in DOMAIN down /\ down[i] = None
          BY <1>2, <2>2, <4>1
        <4>3. down # <<>> /\ down[Len(down)] \notin late
          BY <1>1, <1>2, <4>2 DEF EmptiedForGood
        <4>4. QED
          BY <1>3, <1>4, <4>1, <4>3
      <3>3. QED
        BY <3>1, <3>2
    <2>3. QED
      BY <1>4, <2>1, <2>2 DEF EmptiedForGood
  <1>7. NothingLate => NothingLate'
    <2> SUFFICES ASSUME NothingLate PROVE NothingLate'
      OBVIOUS
    <2>1. x \notin late
      BY <1>2, <1>3, <1>4 DEF NothingLate
    <2>2. QED
      BY <1>2, <1>4, <2>1 DEF NothingLate
  <1>8. QED
    BY <1>5, <1>6, <1>7

\* What happens to the events, unless one is a notice or opens an order.
QuietUp ==
  \/ up' = up
  \/ up' = <<>>
  \/ up # <<>> /\ up' = Tail(up)
  \/ \E m \in Message : m.kind \notin {"proceed", "expired"} /\ up' = Append(up, m)

LEMMA QuietUpKeeps ==
  ASSUME TypeOK, QuietUp
  PROVE  /\ NoNotice => NoNotice'
         /\ ProceedsLast /\ (NothingLate => NothingLate') => ProceedsLast'
  <1>1. up \in Seq(Message)
    BY NoneIsNotLate
  <1>2. CASE up' = up
    BY <1>2 DEF NoNotice, ProceedsLast
  <1>3. CASE up' = <<>>
    BY <1>3 DEF NoNotice, ProceedsLast
  <1>4. CASE up # <<>> /\ up' = Tail(up)
    <2>1. \A i \in DOMAIN up' : i \in Nat /\ i + 1 \in DOMAIN up /\ up'[i] = up[i + 1]
      BY <1>1, <1>4, TailPlaces
    <2>2. NoNotice => NoNotice'
      BY <2>1 DEF NoNotice
    <2>3. ASSUME ProceedsLast, NothingLate => NothingLate' PROVE ProceedsLast'
      BY <2>1, <2>3 DEF ProceedsLast
    <2>4. QED
      BY <2>2, <2>3
  <1>5. ASSUME NEW m \in Message, m.kind \notin {"proceed", "expired"}, up' = Append(up, m)
        PROVE  /\ NoNotice => NoNotice'
               /\ ProceedsLast /\ (NothingLate => NothingLate') => ProceedsLast'
    <2>1. \A i \in DOMAIN up' : (i \in DOMAIN up /\ up'[i] = up[i]) \/ up'[i] = m
      BY <1>1, <1>5, AppendPlaces
    <2>2. QED
      BY <1>5, <2>1 DEF NoNotice, ProceedsLast
  <1>6. QED
    BY <1>2, <1>3, <1>4, <1>5 DEF QuietUp

StatusKept == \A o \in late : status'[o] # "none"

\* A step that touches the events alone, and none that open or end an order.
LEMMA NoticeRests ==
  ASSUME TypeOK, NoticeInv, QuietUp, StatusKept,
         UNCHANGED <<page, order, url, dialog, down, late, shown, ticking>>
  PROVE  NoticeInv'
  <1>1. NothingLate' = NothingLate /\ ShowsLast' = ShowsLast /\ EmptiedForGood' = EmptiedForGood
    BY DEF NothingLate, ShowsLast, EmptiedForGood
  <1>2. /\ NoNotice => NoNotice'
        /\ ProceedsLast => ProceedsLast'
    BY <1>1, QuietUpKeeps
  <1>3. TicketNotices => TicketNotices'
    BY <1>1, <1>2 DEF TicketNotices
  <1>4. QED
    BY <1>2, <1>3 DEF NoticeInv, StatusKept

\* A step of the LiveView that sends a diff, and opens no order.
LEMMA NoticeDiff ==
  ASSUME TypeOK, NoticeInv, QuietUp, StatusKept,
         NEW x \in Maybe, down' = Append(down, x),
         page = "ticket" => /\ x \notin late \/ x = View(dialog, order)
                            /\ x = View(dialog', order')
                            /\ order' \in {None, url'}
                            /\ url' \in {None, url},
         UNCHANGED <<page, late, shown, ticking>>
  PROVE  NoticeInv'
  <1>1. NoNotice => NoNotice'
    BY QuietUpKeeps
  <1>2. ASSUME page = "ticket" PROVE TicketNotices'
    <2>1. TicketNotices
      BY <1>2 DEF NoticeInv
    <2>2. ShowsLast' /\ EmptiedForGood' /\ (NothingLate => NothingLate')
      BY <1>2, <2>1, DiffKeeps DEF TicketNotices
    <2>3. ProceedsLast'
      BY <2>1, <2>2, QuietUpKeeps DEF TicketNotices
    <2>4. QED
      BY <1>1, <1>2, <2>1, <2>2, <2>3 DEF TicketNotices
  <1>3. QED
    BY <1>1, <1>2 DEF NoticeInv, StatusKept

LEMMA ProceedKeepsNotices ==
  ASSUME FormInv, NoticeInv, NEW o \in Order, HandleProceed(o)
  PROVE  NoticeInv'
  <1>0. TypeOK
    BY DEF FormInv
  <1>1. /\ up # <<>> /\ Head(up).kind = "proceed" /\ status[o] = "none"
        /\ order' = o /\ url' = o /\ dialog' = TRUE
        /\ status' = [status EXCEPT ![o] = "pending"]
        /\ up' = Tail(up) /\ down' = Append(down, o)
        /\ UNCHANGED <<page, late, shown, ticking>>
    BY DEF HandleProceed, Awaiting, browser
  <1>2. o \notin late /\ o \in Maybe
    BY <1>1 DEF NoticeInv, Maybe
  <1>3. StatusKept
    BY <1>0, <1>1 DEF NoticeInv, StatusKept, TypeOK
  <1>4. QuietUp
    BY <1>1 DEF QuietUp
  <1>5. up \in Seq(Message)
    BY <1>0, NoneIsNotLate
  <1>6. /\ 1 \in DOMAIN up /\ up[1].kind = "proceed"
        /\ \A i \in DOMAIN up' : i + 1 \in DOMAIN up /\ 1 < i + 1 /\ up'[i] = up[i + 1]
    BY <1>1, <1>5, TailPlaces
  <1>7. ASSUME page = "ticket" PROVE TicketNotices'
    <2>1. TicketNotices
      BY <1>7 DEF NoticeInv
    <2>2. ShowsLast' /\ EmptiedForGood' /\ (NothingLate => NothingLate')
      <3>1. o = View(dialog', order')
        BY <1>1 DEF View
      <3>2. QED
        BY <1>0, <1>1, <1>2, <2>1, <3>1, DiffKeeps DEF TicketNotices
    <2>3. ProceedsLast'
      BY <1>0, <1>4, <2>1, <2>2, QuietUpKeeps DEF TicketNotices
    <2>4. NothingLate' /\ NoNotice'
      BY <1>6, <2>1, <2>2 DEF TicketNotices, ProceedsLast, NoNotice
    <2>5. QED
      BY <1>1, <2>2, <2>3, <2>4 DEF TicketNotices
  <1>8. NoNotice => NoNotice'
    BY <1>0, <1>4, QuietUpKeeps
  <1>9. QED
    BY <1>1, <1>3, <1>7, <1>8 DEF NoticeInv, StatusKept

LEMMA DiffsKeepNotices ==
  ASSUME FormInv, NoticeInv,
         \/ HandleClose \/ HandleSuccess \/ HandleExpired \/ CheckBooking \/ Touch
         \/ \E o \in Order : LearnEnded(o)
  PROVE  NoticeInv'
  <1>0. /\ TypeOK /\ None \in Maybe /\ None \notin late
        /\ late \subseteq Order /\ order \in Maybe /\ status \in [Order -> {"none", "pending", "completed", "cancelled", "expired"}]
        /\ \A d : View(d, order) \in Maybe /\ View(d, None) = None
        /\ \A y : View(FALSE, y) = None
        /\ \A y \in Maybe : y # None => y \in Order
    BY NoneIsNotLate DEF FormInv, TypeOK, Maybe, View
  <1>1. page = "ticket" => order \in {None, url}
    BY DEF NoticeInv, TicketNotices
  <1>2. up # <<>> /\ up' = Tail(up) => QuietUp
    BY DEF QuietUp
  <1>3. up' = up => QuietUp
    BY DEF QuietUp
  <1>4. status' = status => StatusKept
    BY DEF NoticeInv, StatusKept
  <1>5. \A o \in Order, s \in {"cancelled", "completed", "expired"} :
          status' = [status EXCEPT ![o] = s] => StatusKept
    BY <1>0 DEF NoticeInv, StatusKept
  <1>6. CASE HandleClose
    <2>1. /\ QuietUp /\ UNCHANGED <<page, late, shown, ticking>>
          /\ down' = Append(down, View(dialog', order'))
      BY <1>2, <1>6 DEF HandleClose, Awaiting, browser
    <2>2. StatusKept
      BY <1>0, <1>4, <1>5, <1>6 DEF HandleClose
    <2>3. View(dialog', order') \in Maybe
      BY <1>0, <1>6 DEF HandleClose
    <2>4. page = "ticket" => order' = None /\ url' = None /\ View(dialog', order') = None
      BY <1>0, <1>6 DEF HandleClose
    <2>5. QED
      BY <1>0, <2>1, <2>2, <2>3, <2>4, NoticeDiff
  <1>7. CASE HandleSuccess
    <2>1. /\ QuietUp /\ UNCHANGED <<page, late, shown, ticking>>
          /\ down' = Append(down, View(dialog', order'))
      BY <1>2, <1>7 DEF HandleSuccess, Awaiting, browser
    <2>2. StatusKept
      <3>1. \/ status' = status
            \/ status' = [status EXCEPT ![Head(up).o] = "completed"]
        BY <1>7, SuccessWrites
      <3>2. \A y : \A p \in Order : [status EXCEPT ![y] = "completed"][p] \in {status[p], "completed"}
        BY <1>0
      <3>3. QED
        BY <1>0, <1>4, <3>1, <3>2 DEF NoticeInv, StatusKept
    <2>3. View(dialog', order') \in Maybe /\ View(dialog', order') \in {None, View(dialog, order)}
      BY <1>0, <1>7, SuccessWrites
    <2>4. page = "ticket" => order' \in {None, url'} /\ url' \in {None, url}
      BY <1>1, <1>7, SuccessWrites
    <2>5. QED
      BY <1>0, <2>1, <2>2, <2>3, <2>4, NoticeDiff
  <1>8. CASE HandleExpired
    <2>1. /\ QuietUp /\ UNCHANGED <<page, late, shown, ticking>>
          /\ down' = Append(down, None)
          /\ order' = None /\ url' = None /\ dialog' = FALSE
      BY <1>2, <1>8 DEF HandleExpired, Awaiting, browser
    <2>2. StatusKept
      BY <1>0, <1>4, <1>5, <1>8 DEF HandleExpired
    <2>3. QED
      BY <1>0, <2>1, <2>2, NoticeDiff
  <1>9. CASE CheckBooking
    <2>1. /\ QuietUp /\ StatusKept /\ page # "ticket" /\ UNCHANGED <<page, late, shown, ticking>>
          /\ down' = Append(down, None)
      BY <1>3, <1>4, <1>9 DEF CheckBooking, browser
    <2>2. QED
      BY <1>0, <2>1, NoticeDiff
  <1>10. CASE Touch
    <2>1. /\ QuietUp /\ StatusKept
          /\ UNCHANGED <<page, order, url, dialog, late, shown, ticking>>
          /\ down' = Append(down, View(dialog, order))
      BY <1>3, <1>4, <1>10 DEF Touch, browser, server
    <2>2. QED
      BY <1>0, <1>1, <2>1, NoticeDiff
  <1>11. ASSUME NEW o \in Order, LearnEnded(o) PROVE NoticeInv'
    <2>1. /\ QuietUp /\ StatusKept /\ UNCHANGED <<page, url, late, shown, ticking>>
          /\ down' = Append(down, None) /\ order' = None
      BY <1>3, <1>4, <1>11 DEF LearnEnded, browser
    <2>2. QED
      BY <1>0, <2>1, NoticeDiff
  <1>12. QED
    BY <1>6, <1>7, <1>8, <1>9, <1>10, <1>11

\* A new LiveView holds no order that is late, and the old one's events are
\* lost; what is still shown is of the old one.
LEMMA ReconnectKeepsNotices ==
  ASSUME FormInv, NoticeInv, Reconnect
  PROVE  NoticeInv'
  <1>0. TypeOK /\ None \notin late
    BY NoneIsNotLate DEF FormInv
  <1> DEFINE v == View(dialog', order')
  <1>1. /\ up' = <<>> /\ down' = <<v>> /\ url' = order'
        /\ order' = None \/ (order' = url /\ url # None /\ url \notin late)
        /\ UNCHANGED <<page, late, shown, ticking>>
    BY DEF Reconnect, browser
  <1>2. status' = status \/ (order # None /\ status' = [status EXCEPT ![order] = "cancelled"])
    BY DEF Reconnect, Abandons
  <1>3. StatusKept
    BY <1>0, <1>2 DEF NoticeInv, StatusKept, TypeOK, Maybe
  <1>4. NoNotice' /\ ProceedsLast'
    BY <1>1 DEF NoNotice, ProceedsLast
  <1>5. v \notin late /\ \A i \in DOMAIN down' : down'[i] = v
    <2>1. v \in {None, order'}
      BY DEF View
    <2>2. QED
      BY <1>0, <1>1, <2>1
  <1>6. ShowsLast'
    BY <1>1 DEF ShowsLast
  <1> HIDE DEF v
  <1>7. EmptiedForGood'
    BY <1>1, <1>5 DEF EmptiedForGood
  <1>8. ASSUME page = "ticket", url' \notin late' \cup {None} PROVE NothingLate'
    <2>1. shown \notin late
      BY <1>1, <1>8 DEF NoticeInv, TicketNotices, NothingLate
    <2>2. QED
      BY <1>1, <1>5, <2>1 DEF NothingLate
  <1>9. page = "ticket" => TicketNotices'
    BY <1>1, <1>4, <1>6, <1>7, <1>8 DEF TicketNotices
  <1>10. QED
    BY <1>1, <1>3, <1>4, <1>9 DEF NoticeInv, StatusKept

\* An order runs out while the page shows what the LiveView has.
LEMMA TimeKeepsNotices ==
  ASSUME FormInv, NoticeInv, NEW o \in Order, OrderTimesOut(o)
  PROVE  NoticeInv'
  <1>0. TypeOK /\ None \notin late /\ up \in Seq(Message)
    BY NoneIsNotLate DEF FormInv
  <1>1. /\ status[o] # "none" /\ down = <<>> /\ \A i \in DOMAIN up : up[i].kind # "proceed"
        /\ late' = late \cup {o}
        /\ UNCHANGED <<page, order, url, dialog, status, up, down, shown, ticking>>
    BY DEF OrderTimesOut, server, browser
  <1>2. NoNotice => NoNotice'
    BY <1>1 DEF NoNotice
  <1>3. ASSUME page = "ticket" PROVE TicketNotices'
    <2>1. TicketNotices /\ DOMAIN down = {}
      BY <1>1, <1>3 DEF NoticeInv
    <2>2. ShowsLast' /\ EmptiedForGood' /\ ProceedsLast'
      BY <1>1, <2>1 DEF TicketNotices, ShowsLast, EmptiedForGood, ProceedsLast
    <2>3. shown \in {None, url}
      BY <1>1, <2>1 DEF TicketNotices, ShowsLast, View
    <2>4. None \notin late'
      BY <1>0, <1>1, NumbersAssumption
    <2>5. url \notin late' \cup {None} => NothingLate' /\ NoNotice'
      BY <1>1, <1>2, <2>1, <2>3, <2>4 DEF TicketNotices, NothingLate
    <2>6. QED
      BY <1>1, <2>1, <2>2, <2>5 DEF TicketNotices
  <1>4. QED
    BY <1>1, <1>2, <1>3 DEF NoticeInv

\* An event more, a notice: something late is shown or was to be.
LEMMA NoticeSent ==
  ASSUME TypeOK, ProceedsLast, ~NothingLate, up' = Append(up, Msg("expired", None))
  PROVE  ProceedsLast'
  <1> DEFINE m == Msg("expired", None)
  <1>1. up \in Seq(Message) /\ m \in Message /\ m.kind = "expired"
    BY NoneIsNotLate DEF Msg, Message, Maybe
  <1>2. \A i \in DOMAIN up : up[i].kind # "proceed"
    BY DEF ProceedsLast
  <1> HIDE DEF m
  <1>3. up' = Append(up, m)
    BY DEF m
  <1>4. \A i \in DOMAIN up' : (i \in DOMAIN up /\ up'[i] = up[i]) \/ up'[i] = m
    BY <1>1, <1>3, AppendPlaces
  <1>5. \A i \in DOMAIN up' : up'[i].kind # "proceed"
    BY <1>1, <1>2, <1>4
  <1>6. QED
    BY <1>5 DEF ProceedsLast

LEMMA PatchKeepsNotices ==
  ASSUME FormInv, NoticeInv, Patch
  PROVE  NoticeInv'
  <1>0. TypeOK /\ None \notin late /\ down \in Seq(Maybe)
    BY NoneIsNotLate DEF FormInv
  <1> DEFINE now == Head(down)
  <1>1. /\ down # <<>> /\ down' = Tail(down) /\ shown' = now
        /\ ticking' = Timed(now)
        /\ up' = IF now \in late /\ page = "ticket"
                 THEN Append(up, Msg("expired", None)) ELSE up
        /\ UNCHANGED <<page, order, url, dialog, status, late>>
    BY DEF Patch, server
  <1>2. /\ 1 \in DOMAIN down /\ now = down[1]
        /\ \A i \in DOMAIN down' : i \in Nat /\ i + 1 \in DOMAIN down /\ 1 < i + 1
                                   /\ down'[i] = down[i + 1]
        /\ IF down' = <<>> THEN Len(down) = 1
           ELSE Len(down') \in DOMAIN down' /\ down'[Len(down')] = down[Len(down)]
    BY <1>0, <1>1, TailPlaces
  <1> HIDE DEF now
  <1>3. ticking' \in {None, shown'} /\ (page = "booking" => ticking' = None /\ up' = up)
    BY <1>1 DEF Timed
  <1>4. NothingLate => NothingLate'
    BY <1>1, <1>2 DEF NothingLate
  <1>5. NothingLate => up' = up
    BY <1>1, <1>2 DEF NothingLate
  <1>6. ASSUME page = "ticket" PROVE TicketNotices'
    <2>1. TicketNotices
      BY <1>6 DEF NoticeInv
    <2>2. ShowsLast'
      BY <1>1, <1>2, <2>1 DEF TicketNotices, ShowsLast
    <2>3. EmptiedForGood'
      <3>1. ASSUME shown' = None, NEW i \in DOMAIN down' PROVE down'[i] \notin late
        BY <1>1, <1>2, <2>1, <3>1 DEF TicketNotices, EmptiedForGood
      <3>2. ASSUME NEW i \in DOMAIN down', NEW j \in DOMAIN down', i < j, down'[i] = None
            PROVE  down'[j] \notin late
        <4>1. /\ i + 1 \in DOMAIN down /\ j + 1 \in DOMAIN down /\ i + 1 < j + 1
              /\ down[i + 1] = None /\ down'[j] = down[j + 1]
          BY <1>2, <3>2
        <4>2. QED
          BY <2>1, <4>1 DEF TicketNotices, EmptiedForGood
      <3>3. QED
        BY <1>1, <3>1, <3>2 DEF EmptiedForGood
    <2>4. ProceedsLast'
      <3>1. CASE up' = up
        BY <1>4, <2>1, <3>1 DEF TicketNotices, ProceedsLast
      <3>2. CASE up' = Append(up, Msg("expired", None)) /\ ~NothingLate
        BY <1>0, <2>1, <3>2, NoticeSent DEF TicketNotices
      <3>3. QED
        BY <1>1, <1>5, <3>1, <3>2
    <2>5. url \notin late \cup {None} => NothingLate' /\ NoNotice'
      BY <1>4, <1>5, <2>1 DEF TicketNotices, NoNotice
    <2>6. QED
      BY <1>1, <2>1, <2>2, <2>3, <2>4, <2>5 DEF TicketNotices
  <1>7. page = "booking" => NoNotice'
    BY <1>3 DEF NoticeInv, NoNotice
  <1>8. QED
    BY <1>1, <1>3, <1>6, <1>7 DEF NoticeInv

LEMMA TickKeepsNotices ==
  ASSUME FormInv, NoticeInv, Tick
  PROVE  NoticeInv'
  <1>0. TypeOK /\ None \notin late
    BY NoneIsNotLate DEF FormInv
  <1>1. /\ ticking \in late /\ ticking' = None
        /\ up' = Append(up, Msg("expired", None))
        /\ UNCHANGED <<page, order, url, dialog, status, down, late, shown>>
    BY DEF Tick, server
  <1>2. ~NothingLate /\ page # "booking"
    BY <1>0, <1>1 DEF NoticeInv, NothingLate
  <1>3. ASSUME page = "ticket" PROVE TicketNotices'
    <2>1. TicketNotices
      BY <1>3 DEF NoticeInv
    <2>2. ProceedsLast'
      BY <1>0, <1>1, <1>2, <2>1, NoticeSent DEF TicketNotices
    <2>3. ShowsLast' /\ EmptiedForGood'
      BY <1>1, <2>1 DEF TicketNotices, ShowsLast, EmptiedForGood
    <2>4. QED
      BY <1>1, <1>2, <2>1, <2>2, <2>3 DEF TicketNotices
  <1>4. QED
    BY <1>1, <1>2, <1>3 DEF NoticeInv

LEMMA ClickKeepsNotices ==
  ASSUME FormInv, NoticeInv, Proceed
  PROVE  NoticeInv'
  <1>0. TypeOK /\ None \notin late
    BY NoneIsNotLate DEF FormInv
  <1> DEFINE m == Msg("proceed", None)
  <1>1. /\ page = "ticket" /\ shown = None /\ up' = Append(up, m)
        /\ UNCHANGED <<page, order, url, dialog, status, down, late, shown, ticking>>
    BY DEF Proceed, server, browser
  <1>2. up \in Seq(Message) /\ m \in Message /\ m.kind = "proceed"
    BY <1>0, NoneIsNotLate DEF Msg, Message, Maybe
  <1> HIDE DEF m
  <1>3. /\ \A i \in DOMAIN up' : \/ i \in DOMAIN up /\ up'[i] = up[i] /\ i < Len(up')
                                 \/ i = Len(up') /\ up'[i] = m
        /\ \A i \in DOMAIN up : i \in Nat
        /\ Len(up') \in Nat
    BY <1>1, <1>2, AppendPlaces
  <1>4. TicketNotices
    BY <1>1 DEF NoticeInv
  <1>5. NothingLate /\ NothingLate'
    BY <1>0, <1>1, <1>4 DEF TicketNotices, EmptiedForGood, NothingLate
  <1>6. ProceedsLast'
    <2> SUFFICES ASSUME NEW i \in DOMAIN up', up'[i].kind = "proceed",
                        NEW j \in DOMAIN up', i < j
                 PROVE  up'[j].kind # "expired"
      BY <1>5 DEF ProceedsLast
    <2>1. i \in DOMAIN up /\ up'[i] = up[i]
      BY <1>3
    <2>2. CASE j \in DOMAIN up /\ up'[j] = up[j]
      BY <1>4, <2>1, <2>2 DEF TicketNotices, ProceedsLast
    <2>3. CASE up'[j] = m
      BY <1>2, <2>3
    <2>4. QED
      BY <1>3, <2>2, <2>3
  <1>7. NoNotice => NoNotice'
    BY <1>2, <1>3 DEF NoNotice
  <1>8. ShowsLast' /\ EmptiedForGood'
    BY <1>1, <1>4 DEF TicketNotices, ShowsLast, EmptiedForGood
  <1>9. QED
    BY <1>1, <1>4, <1>5, <1>6, <1>7, <1>8 DEF TicketNotices, NoticeInv

\* The steps that touch the events alone.
LEMMA RestKeepsNotices ==
  ASSUME FormInv, NoticeInv,
         \/ HandleRedirect \/ Close \/ UNCHANGED vars
         \/ \E o \in Order : SweepExpires(o)
         \/ \E c \in Click : \/ StripeCharges(c) \/ StripeRefuses(c) \/ Remounted(c)
                             \/ Confirm(c) \/ Confirmed(c) \/ Submit(c)
         \/ \E i \in Form : FinishInit(i)
  PROVE  NoticeInv'
  <1>0. TypeOK
    BY DEF FormInv
  <1>1. /\ None \in Maybe
        /\ \A k \in {"close", "redirect"} : /\ Msg(k, None) \in Message
                                            /\ Msg(k, None).kind \notin {"proceed", "expired"}
        /\ \A o \in Maybe : /\ Msg("success", o) \in Message
                            /\ Msg("success", o).kind \notin {"proceed", "expired"}
    BY DEF Msg, Message, Maybe
  <1>2. \/ up' = up
        \/ up # <<>> /\ up' = Tail(up)
        \/ \E k \in {"close", "redirect"} : up' = Append(up, Msg(k, None))
        \/ \E c \in Click : /\ call[c].at = "paid" /\ ~hook[call[c].by].gone
                            /\ up' = Append(up, Msg("success", hook[call[c].by].secret))
    BY DEF HandleRedirect, Awaiting, Close, vars, SweepExpires, StripeCharges, StripeRefuses,
           Remounted, Announce, Confirm, Confirmed, Submit, FinishInit
  <1>3. \A c \in Click : call[c].at = "paid" => hook[call[c].by].secret \in Maybe
    <2> SUFFICES ASSUME NEW c \in Click, call[c].at = "paid"
                 PROVE  hook[call[c].by].secret \in Maybe
      OBVIOUS
    <2>1. call[c].by \in Form
      BY DEF FormInv, CallsAgree, Running
    <2>2. hook[call[c].by] \in HookType
      BY <1>0, <2>1 DEF TypeOK
    <2>3. QED
      BY <2>2 DEF HookType
  <1>4. QuietUp
    BY <1>1, <1>2, <1>3 DEF QuietUp
  <1>5. UNCHANGED <<page, order, url, dialog, down, late, shown, ticking>>
    BY DEF HandleRedirect, Close, vars, SweepExpires, StripeCharges, StripeRefuses,
           Remounted, Confirm, Confirmed, Submit, FinishInit, server, browser
  <1>6. status' = status \/ \E o \in Order : status' = [status EXCEPT ![o] = "expired"]
    BY DEF HandleRedirect, Close, vars, SweepExpires, StripeCharges, StripeRefuses,
           Remounted, Confirm, Confirmed, Submit, FinishInit, server, browser
  <1>7. StatusKept
    BY <1>0, <1>6 DEF NoticeInv, StatusKept, TypeOK
  <1>8. QED
    BY <1>0, <1>4, <1>5, <1>7, NoticeRests

\* The browser's notice that the time is up carries no order, and the
\* LiveView ends the one it holds: it is always one whose time is up,
\* whatever clicks, lost connections and news the notice is behind.
THEOREM NoticesEndTheLate == Spec => NoticeEndsLateOrder
  <1>1. Init => NoticeInv
    BY NumbersAssumption DEF Init, NoticeInv, NoNotice, TicketNotices, ShowsLast, EmptiedForGood,
       ProceedsLast, NothingLate, View
  <1>2. FormInv /\ NoticeInv /\ [Next]_vars => NoticeInv'
    BY ProceedKeepsNotices, DiffsKeepNotices, ReconnectKeepsNotices, TimeKeepsNotices,
       PatchKeepsNotices, TickKeepsNotices, ClickKeepsNotices, RestKeepsNotices
       DEF Next, LiveView, HandleEvent, LearnNews, HookRuns, Submission, Answer,
           Elsewhere, MemberActs
  <1>3. FormInv /\ NoticeInv /\ HandleExpired => order = None \/ order \in late
    <2> SUFFICES ASSUME FormInv, NoticeInv, HandleExpired PROVE order \in late \cup {None}
      OBVIOUS
    <2>1. up \in Seq(Message) /\ up # <<>> /\ Head(up).kind = "expired"
      BY NoneIsNotLate DEF FormInv, HandleExpired, Awaiting
    <2>2. 1 \in DOMAIN up /\ up[1].kind = "expired"
      BY <2>1, TailPlaces
    <2>3. page = "ticket"
      BY <2>2 DEF FormInv, TypeOK, NoticeInv, NoNotice
    <2>4. QED
      BY <2>2, <2>3 DEF NoticeInv, TicketNotices, NoNotice
  <1>4. FormInv /\ NoticeInv /\ [Next]_vars => [HandleExpired => order = None \/ order \in late]_vars
    BY <1>3
  <1>5. QED
    BY <1>1, <1>2, <1>4, FormInvHolds, PTL DEF Spec, NoticeEndsLateOrder

=============================================================================
