--------------------------- MODULE StayCalendarProofs ---------------------------
(***************************************************************************)
(* For any calendar, any rules and any number of clicks: the component and *)
(* the page agree on the dates whenever no change is on its way.  That is  *)
(* not inductive: between two changes the page renders the older one into  *)
(* the component, so that the component has either the page's dates or     *)
(* those of the newest change in the mailbox.                              *)
(***************************************************************************)
EXTENDS StayCalendar, TLAPS

Dates == [checkin : Int, checkout : Int]
Kinds == {"pick", "move", "month", "reset", "guests", "params", "dates"}
Message == [kind : Kinds, day : Int, dates : Dates, guests : DOMAIN FreeDays]

CalendarTypes ==
  /\ stay \in Dates /\ chosen \in Dates /\ guests \in DOMAIN FreeDays
  /\ mail \in Seq(Message)
  /\ visited \subseteq [dates : Dates, guests : DOMAIN FreeDays]

\* The k-th message is the newest change of dates in the mailbox q.
Newest(q, k) ==
  /\ k \in DOMAIN q /\ q[k].kind = "dates"
  /\ \A j \in DOMAIN q : j > k => q[j].kind # "dates"

NewestOrPage == \A k \in DOMAIN mail : Newest(mail, k) => stay \in {chosen, mail[k].dates}

CalendarInv == CalendarTypes /\ CalendarAgrees /\ NewestOrPage

-----------------------------------------------------------------------------
\* What is left of a mailbox when its first message is taken.
LEMMA MailTail ==
  ASSUME NEW S, NEW q \in Seq(S), q # <<>>
  PROVE  /\ Head(q) \in S /\ Head(q) = q[1] /\ 1 \in DOMAIN q /\ Tail(q) \in Seq(S)
         /\ DOMAIN q = 1..Len(q) /\ Len(q) \in Nat /\ DOMAIN Tail(q) = 1..(Len(q) - 1)
         /\ \A i \in DOMAIN Tail(q) : Tail(q)[i] = q[i + 1]
  OBVIOUS

\* A mailbox with a message more.
LEMMA MailAppend ==
  ASSUME NEW S, NEW q \in Seq(S), NEW m \in S
  PROVE  /\ Append(q, m) \in Seq(S)
         /\ DOMAIN q = 1..Len(q) /\ Len(q) \in Nat
         /\ DOMAIN Append(q, m) = 1..(Len(q) + 1)
         /\ Append(q, m)[Len(q) + 1] = m
         /\ \A i \in DOMAIN q : Append(q, m)[i] = q[i]
  OBVIOUS

\* The newest change of what is left is the newest change of the whole.
LEMMA NewestOfTail ==
  ASSUME NEW S, NEW q \in Seq(S), q # <<>>, NEW k, Newest(Tail(q), k)
  PROVE  Newest(q, k + 1) /\ k + 1 \in DOMAIN q /\ q[k + 1] = Tail(q)[k]
  <1>1. k \in 1..(Len(q) - 1) /\ Len(q) \in Nat /\ DOMAIN q = 1..Len(q)
    BY MailTail DEF Newest
  <1>2. k + 1 \in DOMAIN q /\ q[k + 1] = Tail(q)[k]
    BY <1>1, MailTail
  <1>3. ASSUME NEW j \in DOMAIN q, j > k + 1 PROVE q[j].kind # "dates"
    <2>1. j - 1 \in DOMAIN Tail(q) /\ Tail(q)[j - 1] = q[(j - 1) + 1] /\ j - 1 > k
      BY <1>1, <1>3, MailTail
    <2>2. (j - 1) + 1 = j
      BY <1>1, <1>3
    <2>3. QED
      BY <2>1, <2>2 DEF Newest
  <1>4. QED
    BY <1>2, <1>3 DEF Newest

\* A step that renders the page's dates into the component.
LEMMA RenderStep ==
  ASSUME stay' = chosen'
  PROVE  CalendarAgrees' /\ NewestOrPage'
  BY DEF CalendarAgrees, NewestOrPage

\* A step that takes another message and leaves all dates alone.
LEMMA TakeStep ==
  ASSUME CalendarInv, mail # <<>>, Head(mail).kind # "dates", mail' = Tail(mail),
         UNCHANGED <<stay, chosen>>
  PROVE  CalendarAgrees' /\ NewestOrPage'
  <1>1. mail \in Seq(Message)
    BY DEF CalendarInv, CalendarTypes
  <1>2. NewestOrPage'
    <2>1. SUFFICES ASSUME NEW k \in DOMAIN Tail(mail), Newest(Tail(mail), k)
                   PROVE  stay \in {chosen, Tail(mail)[k].dates}
      BY DEF NewestOrPage
    <2>2. Newest(mail, k + 1) /\ k + 1 \in DOMAIN mail /\ mail[k + 1] = Tail(mail)[k]
      BY <1>1, <2>1, NewestOfTail
    <2>3. QED
      BY <2>2 DEF CalendarInv, NewestOrPage
  <1>3. CalendarAgrees'
    <2>1. SUFFICES ASSUME \A i \in DOMAIN Tail(mail) : Tail(mail)[i].kind # "dates"
                   PROVE  \A k \in DOMAIN mail : mail[k].kind # "dates"
      BY DEF CalendarInv, CalendarAgrees
    <2>2. TAKE k \in DOMAIN mail
    <2>3. CASE k = 1
      BY <1>1, <2>3, MailTail
    <2>4. CASE k # 1
      <3>1. k - 1 \in DOMAIN Tail(mail) /\ Tail(mail)[k - 1] = mail[(k - 1) + 1]
        BY <1>1, <2>4, MailTail
      <3>2. (k - 1) + 1 = k
        BY <1>1, MailTail
      <3>3. QED
        BY <2>1, <3>1, <3>2
    <2>5. QED
      BY <2>3, <2>4
  <1>4. QED
    BY <1>2, <1>3

\* The page takes a change that it has already: nothing is rendered.
LEMMA SameStep ==
  ASSUME CalendarInv, mail # <<>>, Head(mail).kind = "dates", mail' = Tail(mail),
         chosen = Head(mail).dates, UNCHANGED <<stay, chosen>>
  PROVE  CalendarAgrees' /\ NewestOrPage'
  <1>1. mail \in Seq(Message)
    BY DEF CalendarInv, CalendarTypes
  <1>2. NewestOrPage'
    <2>1. SUFFICES ASSUME NEW k \in DOMAIN Tail(mail), Newest(Tail(mail), k)
                   PROVE  stay \in {chosen, Tail(mail)[k].dates}
      BY DEF NewestOrPage
    <2>2. Newest(mail, k + 1) /\ k + 1 \in DOMAIN mail /\ mail[k + 1] = Tail(mail)[k]
      BY <1>1, <2>1, NewestOfTail
    <2>3. QED
      BY <2>2 DEF CalendarInv, NewestOrPage
  <1>3. CalendarAgrees'
    <2>1. SUFFICES ASSUME \A i \in DOMAIN Tail(mail) : Tail(mail)[i].kind # "dates"
                   PROVE  stay = chosen
      BY DEF CalendarAgrees
    <2>2. ASSUME NEW j \in DOMAIN mail, j > 1 PROVE mail[j].kind # "dates"
      <3>1. j - 1 \in DOMAIN Tail(mail) /\ Tail(mail)[j - 1] = mail[(j - 1) + 1]
        BY <1>1, <2>2, MailTail
      <3>2. (j - 1) + 1 = j
        BY <1>1, MailTail
      <3>3. QED
        BY <2>1, <3>1, <3>2
    <2>3. Newest(mail, 1) /\ 1 \in DOMAIN mail /\ mail[1].dates = chosen
      BY <1>1, <2>2, MailTail DEF Newest
    <2>4. QED
      BY <2>3 DEF CalendarInv, NewestOrPage
  <1>4. QED
    BY <1>2, <1>3

\* The member does something.
LEMMA PostStep ==
  ASSUME CalendarInv, NEW m \in Message, m.kind # "dates", mail' = Append(mail, m),
         UNCHANGED <<stay, chosen>>
  PROVE  CalendarAgrees' /\ NewestOrPage'
  <1>1. /\ DOMAIN mail = 1..Len(mail) /\ Len(mail) \in Nat
        /\ DOMAIN mail' = 1..(Len(mail) + 1)
        /\ mail'[Len(mail) + 1] = m
        /\ \A i \in DOMAIN mail : i \in DOMAIN mail' /\ mail'[i] = mail[i]
    BY MailAppend DEF CalendarInv, CalendarTypes
  <1>2. NewestOrPage'
    <2>1. SUFFICES ASSUME NEW k \in DOMAIN mail', Newest(mail', k)
                   PROVE  stay \in {chosen, mail'[k].dates}
      BY DEF NewestOrPage
    <2>2. k \in DOMAIN mail
      BY <1>1, <2>1 DEF Newest
    <2>3. Newest(mail, k) /\ mail'[k] = mail[k]
      BY <1>1, <2>1, <2>2 DEF Newest
    <2>4. QED
      BY <2>2, <2>3 DEF CalendarInv, NewestOrPage
  <1>3. CalendarAgrees'
    <2>1. SUFFICES ASSUME \A i \in DOMAIN mail' : mail'[i].kind # "dates"
                   PROVE  stay = chosen
      BY DEF CalendarAgrees
    <2>2. \A k \in DOMAIN mail : mail[k].kind # "dates"
      BY <1>1, <2>1
    <2>3. QED
      BY <2>2 DEF CalendarInv, CalendarAgrees
  <1>4. QED
    BY <1>2, <1>3

\* The component takes a day and tells the page.
LEMMA TellStep ==
  ASSUME CalendarInv, mail # <<>>, NEW m \in Message, m.kind = "dates", m.dates = stay',
         mail' = Append(Tail(mail), m)
  PROVE  CalendarAgrees' /\ NewestOrPage'
  <1> DEFINE left == Tail(mail)
  <1>1. left \in Seq(Message)
    BY MailTail DEF CalendarInv, CalendarTypes
  <1>2. /\ Len(left) \in Nat /\ DOMAIN mail' = 1..(Len(left) + 1)
        /\ mail'[Len(left) + 1] = m
    BY <1>1, MailAppend
  <1>3. CalendarAgrees'
    <2>1. Len(left) + 1 \in DOMAIN mail'
      BY <1>2
    <2>2. QED
      BY <1>2, <2>1 DEF CalendarAgrees
  <1>4. NewestOrPage'
    <2>1. SUFFICES ASSUME NEW k \in DOMAIN mail', Newest(mail', k)
                   PROVE  mail'[k].dates = stay'
      BY DEF NewestOrPage
    <2>2. k = Len(left) + 1
      BY <1>2, <2>1 DEF Newest
    <2>3. QED
      BY <1>2, <2>2
  <1>5. QED
    BY <1>3, <1>4

-----------------------------------------------------------------------------
(* Types *)

LEMMA MsgTypes ==
  ASSUME CalendarTypes
  PROVE  /\ NoStay \in Dates /\ NoDay \in Int /\ Day \subseteq Int
         /\ DOMAIN MonthReach \subseteq Int
  BY CalendarAssumption DEF CalendarTypes, Dates, NoStay, NoDay, Day

LEMMA QueryTypes ==
  ASSUME CalendarTypes, NEW s \in Dates
  PROVE  visited \cup {Query(s)} \subseteq [dates : Dates, guests : DOMAIN FreeDays]
  BY DEF CalendarTypes, Query

\* Taking the first message.
LEMMA ReceiveTypes ==
  ASSUME CalendarTypes, NEW kind, Receive(kind)
  PROVE  /\ mail # <<>> /\ Head(mail).kind = kind
         /\ Tail(mail) \in Seq(Message) /\ Head(mail) \in Message
         /\ Head(mail).dates \in Dates /\ Head(mail).day \in Int
         /\ Head(mail).guests \in DOMAIN FreeDays
  <1>1. mail # <<>> /\ Head(mail).kind = kind /\ mail \in Seq(Message)
    BY DEF CalendarTypes, Receive
  <1>2. Tail(mail) \in Seq(Message) /\ Head(mail) \in Message
    BY <1>1, MailTail
  <1>3. QED
    BY <1>1, <1>2 DEF Message

-----------------------------------------------------------------------------
(* The steps *)

\* The component takes a day, or turns it away.
LEMMA PickKeeps ==
  ASSUME CalendarInv, PickDate
  PROVE  CalendarInv'
  <1>1. CalendarTypes /\ Receive("pick")
    BY DEF CalendarInv, PickDate
  <1>2. UNCHANGED <<chosen, guests, visited>>
    BY DEF PickDate
  <1>3. CASE Accepts(Head(mail).day)
    <2> DEFINE m == Msg("dates", NoDay, stay', guests)
    <2>1. stay' \in Dates
      BY <1>1, <1>3, ReceiveTypes, MsgTypes DEF PickDate, CalendarTypes, Dates
    <2>2. m \in Message /\ m.kind = "dates" /\ m.dates = stay'
      BY <1>1, <2>1, MsgTypes DEF Msg, Message, Kinds, CalendarTypes
    <2>3. mail # <<>> /\ mail' = Append(Tail(mail), m)
      BY <1>3 DEF PickDate, Receive
    <2>4. mail' \in Seq(Message)
      BY <1>1, <2>2, <2>3, ReceiveTypes, MailAppend
    <2>5. CalendarAgrees' /\ NewestOrPage'
      BY <2>2, <2>3, TellStep
    <2>6. QED
      BY <1>1, <1>2, <2>1, <2>4, <2>5 DEF CalendarInv, CalendarTypes
  <1>4. CASE ~Accepts(Head(mail).day)
    <2>1. mail' = Tail(mail) /\ UNCHANGED stay
      BY <1>4 DEF PickDate
    <2>2. CalendarAgrees' /\ NewestOrPage'
      BY <1>1, <1>2, <2>1, ReceiveTypes, TakeStep
    <2>3. QED
      BY <1>1, <1>2, <2>1, <2>2, ReceiveTypes DEF CalendarInv, CalendarTypes
  <1>5. QED
    BY <1>3, <1>4

\* What only the component looks at.
LEMMA LookKeeps ==
  ASSUME CalendarInv, CursorMove \/ ShowMonth
  PROVE  CalendarInv'
  <1>1. CalendarTypes /\ \E kind \in {"move", "month"} : Receive(kind)
    BY DEF CalendarInv, CursorMove, ShowMonth
  <1>2. mail' = Tail(mail) /\ UNCHANGED <<stay, chosen, guests, visited>>
    BY DEF CursorMove, ShowMonth
  <1>3. PICK kind \in {"move", "month"} : Receive(kind)
    BY <1>1
  <1>4. CalendarAgrees' /\ NewestOrPage'
    BY <1>1, <1>2, <1>3, ReceiveTypes, TakeStep
  <1>5. QED
    BY <1>1, <1>2, <1>3, <1>4, ReceiveTypes DEF CalendarInv, CalendarTypes

\* The page has new dates or guests, or takes what it has.
LEMMA RerenderKeeps ==
  ASSUME CalendarInv, mail # <<>>, mail' = Tail(mail), Rerender,
         chosen' \in Dates, guests' \in DOMAIN FreeDays,
         visited' \subseteq [dates : Dates, guests : DOMAIN FreeDays],
         Head(mail).kind = "dates" => chosen' = Head(mail).dates
  PROVE  CalendarInv'
  <1>1. mail' \in Seq(Message)
    BY MailTail DEF CalendarInv, CalendarTypes
  <1>2. CASE <<chosen', guests'>> # <<chosen, guests>>
    <2>1. stay' = chosen'
      BY <1>2 DEF Rerender, Refresh
    <2>2. QED
      BY <1>1, <2>1, RenderStep DEF CalendarInv, CalendarTypes
  <1>3. CASE <<chosen', guests'>> = <<chosen, guests>>
    <2>1. UNCHANGED <<stay, chosen>>
      BY <1>3 DEF Rerender
    <2>2. CalendarAgrees' /\ NewestOrPage'
      <3>1. CASE Head(mail).kind = "dates"
        BY <2>1, <3>1, SameStep
      <3>2. CASE Head(mail).kind # "dates"
        BY <2>1, <3>2, TakeStep
      <3>3. QED
        BY <3>1, <3>2
    <2>3. QED
      BY <1>1, <2>1, <2>2 DEF CalendarInv, CalendarTypes
  <1>4. QED
    BY <1>2, <1>3

LEMMA PageKeeps ==
  ASSUME CalendarInv, DateChanged \/ ResetDates \/ ChangeGuests \/ HandleParams
  PROVE  CalendarInv'
  <1>0. CalendarTypes /\ mail' = Tail(mail) /\ Rerender
    BY DEF CalendarInv, DateChanged, ResetDates, ChangeGuests, HandleParams
  <1>1. CASE DateChanged
    <2>1. Receive("dates") /\ chosen' = Head(mail).dates /\ guests' = guests
          /\ visited' = visited \cup {Query(chosen')}
      BY <1>1 DEF DateChanged
    <2>2. QED
      BY <1>0, <2>1, ReceiveTypes, QueryTypes, RerenderKeeps DEF CalendarTypes
  <1>2. CASE ResetDates
    <2>1. Receive("reset") /\ chosen' = NoStay /\ guests' = guests
          /\ visited' = visited \cup {Query(chosen')}
      BY <1>2 DEF ResetDates
    <2>2. QED
      BY <1>0, <2>1, ReceiveTypes, MsgTypes, QueryTypes, RerenderKeeps DEF CalendarTypes
  <1>3. CASE ChangeGuests
    <2>1. Receive("guests") /\ chosen' = chosen /\ guests' = Head(mail).guests
          /\ visited' = visited
      BY <1>3 DEF ChangeGuests
    <2>2. QED
      BY <1>0, <2>1, ReceiveTypes, RerenderKeeps DEF CalendarTypes
  <1>4. CASE HandleParams
    <2>1. Receive("params") /\ chosen' = Head(mail).dates /\ guests' = Head(mail).guests
          /\ visited' = visited
      BY <1>4 DEF HandleParams
    <2>2. QED
      BY <1>0, <2>1, ReceiveTypes, RerenderKeeps DEF CalendarTypes
  <1>5. QED
    BY <1>1, <1>2, <1>3, <1>4

LEMMA PushKeeps ==
  ASSUME CalendarInv, NEW m \in Message, m.kind # "dates", Push(m)
  PROVE  CalendarInv'
  <1>1. mail' = Append(mail, m) /\ UNCHANGED <<stay, chosen, guests, visited>>
    BY DEF Push
  <1>2. CalendarAgrees' /\ NewestOrPage'
    BY <1>1, PostStep
  <1>3. mail' \in Seq(Message)
    BY <1>1, MailAppend DEF CalendarInv, CalendarTypes
  <1>4. QED
    BY <1>1, <1>2, <1>3 DEF CalendarInv, CalendarTypes

LEMMA RejoinKeeps ==
  ASSUME CalendarInv, NEW query \in visited, RejoinCalendar(query)
  PROVE  CalendarInv'
  <1>1. query.dates \in Dates /\ query.guests \in DOMAIN FreeDays
    BY DEF CalendarInv, CalendarTypes
  <1>2. /\ chosen' = query.dates /\ stay' = query.dates /\ guests' = query.guests
        /\ mail' = <<>> /\ visited' = visited
    BY DEF RejoinCalendar
  <1>3. CalendarAgrees' /\ NewestOrPage'
    BY <1>2, RenderStep
  <1>4. QED
    BY <1>1, <1>2, <1>3 DEF CalendarInv, CalendarTypes

LEMMA BrowserKeeps ==
  ASSUME CalendarInv,
         \/ \E d \in Day : MouseOver(d) \/ ClickDay(d)
         \/ MouseLeave \/ ClickReset
         \/ \E m \in DOMAIN MonthReach : ClickMonth(m)
         \/ \E n \in DOMAIN FreeDays : ClickGuests(n)
         \/ \E query \in visited : GoBack(query)
  PROVE  CalendarInv'
  <1>0. CalendarTypes
    BY DEF CalendarInv
  <1>1. ASSUME NEW d \in Day, MouseOver(d) \/ ClickDay(d) PROVE CalendarInv'
    <2>1. \A kind \in {"move", "pick"} :
            Msg(kind, d, NoStay, guests) \in Message /\ Msg(kind, d, NoStay, guests).kind # "dates"
      BY <1>0, MsgTypes DEF Msg, Message, Kinds, CalendarTypes
    <2>2. QED
      BY <1>1, <2>1, PushKeeps DEF MouseOver, ClickDay
  <1>2. CASE MouseLeave \/ ClickReset
    <2>1. \A kind \in {"move", "reset"} :
            /\ Msg(kind, NoDay, NoStay, guests) \in Message
            /\ Msg(kind, NoDay, NoStay, guests).kind # "dates"
      BY <1>0, MsgTypes DEF Msg, Message, Kinds, CalendarTypes
    <2>2. QED
      BY <1>2, <2>1, PushKeeps DEF MouseLeave, ClickReset
  <1>3. ASSUME NEW m \in DOMAIN MonthReach, ClickMonth(m) PROVE CalendarInv'
    <2> DEFINE msg == Msg("month", m, NoStay, guests)
    <2>1. msg \in Message /\ msg.kind # "dates"
      BY <1>0, MsgTypes DEF Msg, Message, Kinds, CalendarTypes
    <2>2. QED
      BY <1>3, <2>1, PushKeeps DEF ClickMonth
  <1>4. ASSUME NEW n \in DOMAIN FreeDays, ClickGuests(n) PROVE CalendarInv'
    <2> DEFINE m == Msg("guests", NoDay, NoStay, n)
    <2>1. m \in Message /\ m.kind # "dates"
      BY <1>0, MsgTypes DEF Msg, Message, Kinds
    <2>2. QED
      BY <1>4, <2>1, PushKeeps DEF ClickGuests
  <1>5. ASSUME NEW query \in visited, GoBack(query) PROVE CalendarInv'
    <2> DEFINE m == Msg("params", NoDay, query.dates, query.guests)
    <2>1. query.dates \in Dates /\ query.guests \in DOMAIN FreeDays
      BY <1>0 DEF CalendarTypes
    <2>2. m \in Message /\ m.kind # "dates"
      BY <1>0, <2>1, MsgTypes DEF Msg, Message, Kinds
    <2>3. QED
      BY <1>5, <2>2, PushKeeps DEF GoBack
  <1>6. QED
    BY <1>1, <1>2, <1>3, <1>4, <1>5

-----------------------------------------------------------------------------
\* The invariant, of every calendar.
THEOREM CalendarInvHolds == CalendarSpec => []CalendarInv
  <1>1. CalendarInit => CalendarInv
    <2> SUFFICES ASSUME CalendarInit PROVE CalendarInv
      OBVIOUS
    <2>1. CalendarTypes
      BY DEF CalendarInit, CalendarTypes, Query, Dates, NoStay, NoDay
    <2>2. CalendarAgrees /\ NewestOrPage
      BY DEF CalendarInit, CalendarAgrees, NewestOrPage
    <2>3. QED
      BY <2>1, <2>2 DEF CalendarInv
  <1>2. CalendarInv /\ [CalendarNext]_calendarVars => CalendarInv'
    <2> SUFFICES ASSUME CalendarInv, [CalendarNext]_calendarVars PROVE CalendarInv'
      OBVIOUS
    <2>1. CASE PickDate
      BY <2>1, PickKeeps
    <2>2. CASE CursorMove \/ ShowMonth
      BY <2>2, LookKeeps
    <2>3. CASE DateChanged \/ ResetDates \/ ChangeGuests \/ HandleParams
      BY <2>3, PageKeeps
    <2>4. ASSUME NEW query \in visited, RejoinCalendar(query) PROVE CalendarInv'
      BY <2>4, RejoinKeeps
    <2>5. CASE UNCHANGED calendarVars
      BY <2>5 DEF calendarVars, CalendarInv, CalendarTypes, CalendarAgrees, NewestOrPage, Newest
    <2>6. QED
      BY <2>1, <2>2, <2>3, <2>4, <2>5, BrowserKeeps DEF CalendarNext
  <1>3. QED
    BY <1>1, <1>2, PTL DEF CalendarSpec

\* Whatever the member clicks, and whenever the page re-renders: without a
\* change under way the calendar shows the dates the page prices and books.
THEOREM CalendarAlwaysAgrees == CalendarSpec => []CalendarAgrees
  <1>1. CalendarInv => CalendarAgrees
    BY DEF CalendarInv
  <1>2. QED
    BY <1>1, CalendarInvHolds, PTL
=============================================================================
