------------------------------ MODULE StayCalendar ------------------------------
(***************************************************************************)
(* Choosing the nights of a stay: the calendar component                   *)
(* (availability_calendar.ex), the hook that tells it where the mouse is   *)
(* (assets/js/daterange-hover.js) and the page around both                 *)
(* (clear_lake_booking_live.ex).  Component and page are one process: what *)
(* the member does and what the component tells the page wait in one       *)
(* mailbox, and each has dates of its own.                                 *)
(***************************************************************************)
EXTENDS Integers, Sequences

CONSTANTS
  LastDay,     \* days are 1..LastDay; 0 is no day, and the day before today
  MaxNights,   \* of the season
  FreeDays,    \* for each number of guests, the nights with enough spots
  MonthReach,  \* for each month, the days loaded when it is shown
  Margin,      \* days loaded on both sides of a selection
  MaxClicks    \* bound: what the member does with page and mouse

ASSUME CalendarAssumption == LastDay \in Nat /\ DOMAIN MonthReach \subseteq Nat

NoDay == 0
Day == 1..LastDay
NoStay == [checkin |-> NoDay, checkout |-> NoDay]

VARIABLES
  chosen,    \* checkin_date and checkout_date of the page
  stay,      \* checkin_date and checkout_date of the component
  guests,    \* @guests_count
  hover,     \* hover_checkout_date
  month,     \* @current
  reach,     \* the days @availability has
  mail,      \* the mailbox of the LiveView
  visited,   \* the queries the browser has in its history
  clicks

calendarVars == <<chosen, stay, guests, hover, month, reach, mail, visited, clicks>>

Msg(kind, day, dates, n) == [kind |-> kind, day |-> day, dates |-> dates, guests |-> n]

Query(dates) == [dates |-> dates, guests |-> guests]

-----------------------------------------------------------------------------
(* The component *)

\* @state is :set_end with an arrival and no departure, :set_start otherwise.
SettingEnd == stay.checkin # NoDay /\ stay.checkout = NoDay

\* date_unavailable_for_stay?
Unavailable(d) == d \notin FreeDays[guests] \cap reach

\* check_other_rules with :set_end
BreaksRules(checkin, d) == d - checkin < 1 \/ d - checkin > MaxNights

\* date_disabled?
Disabled(d) ==
  \/ Unavailable(d - 1) /\ Unavailable(d)
  \/ SettingEnd /\ BreaksRules(stay.checkin, d)
  \/ ~SettingEnd /\ Unavailable(d)

\* valid_date_range?
ValidStay(checkin, checkout) ==
  /\ \A d \in checkin..(checkout - 1) : ~Unavailable(d)
  /\ ~BreaksRules(checkin, checkout)

Accepts(d) == ~Disabled(d) /\ (SettingEnd => ValidStay(stay.checkin, d))

\* The range update asks for, and reloads unless it is there.
Wanted(dates, m) ==
  LET days == MonthReach[m] \cup ({dates.checkin, dates.checkout} \ {NoDay})
      pad == IF dates.checkin = NoDay THEN 0 ELSE Margin
  IN {d \in Day : \E a \in days, b \in days : a - pad <= d /\ d <= b + pad}

\* Mutant: an update keeps a selection that was begun.
RefreshKeeping(dates) ==
  /\ stay' = IF stay.checkin # NoDay THEN stay ELSE dates
  /\ reach' = IF Wanted(dates, month) \subseteq reach THEN reach ELSE Wanted(dates, month)

\* update of the component, with the page's dates.
Refresh(dates) ==
  /\ stay' = dates
  /\ reach' = IF Wanted(dates, month) \subseteq reach THEN reach ELSE Wanted(dates, month)

\* The page renders the component again when something it passes changed.
Rerender == IF <<chosen', guests'>> # <<chosen, guests>> THEN Refresh(chosen')
            ELSE UNCHANGED <<stay, reach>>

Receive(kind) == mail # <<>> /\ Head(mail).kind = kind

\* pick-date.  The handler has a branch for the arrival day again and one for
\* an earlier day; date_disabled? has already turned both away.
PickDate ==
  /\ Receive("pick")
  /\ IF Accepts(Head(mail).day)
     THEN /\ stay' = IF SettingEnd
                     THEN [checkin |-> stay.checkin, checkout |-> Head(mail).day]
                     ELSE [checkin |-> Head(mail).day, checkout |-> NoDay]
          /\ mail' = Append(Tail(mail), Msg("dates", NoDay, stay', guests))
     ELSE UNCHANGED stay /\ mail' = Tail(mail)
  /\ UNCHANGED <<chosen, guests, hover, month, reach, visited, clicks>>

\* cursor-move and cursor-leave
CursorMove ==
  /\ Receive("move") /\ mail' = Tail(mail)
  /\ hover' = IF SettingEnd /\ Accepts(Head(mail).day) THEN Head(mail).day ELSE NoDay
  /\ UNCHANGED <<chosen, stay, guests, month, reach, visited, clicks>>

\* prev-month, next-month and today: the month's own range, whatever is selected.
ShowMonth ==
  /\ Receive("month") /\ mail' = Tail(mail)
  /\ month' = Head(mail).day /\ reach' = MonthReach[month']
  /\ UNCHANGED <<chosen, stay, guests, hover, visited, clicks>>

-----------------------------------------------------------------------------
(* The page *)

\* availability_calendar_date_changed
DateChanged ==
  /\ Receive("dates") /\ mail' = Tail(mail)
  /\ chosen' = Head(mail).dates /\ visited' = visited \cup {Query(chosen')}
  /\ UNCHANGED guests /\ Rerender
  /\ UNCHANGED <<hover, month, clicks>>

ResetDates ==
  /\ Receive("reset") /\ mail' = Tail(mail)
  /\ chosen' = NoStay /\ visited' = visited \cup {Query(chosen')}
  /\ UNCHANGED guests /\ Rerender
  /\ UNCHANGED <<hover, month, clicks>>

\* guests-changed, increase-guests and decrease-guests
ChangeGuests ==
  /\ Receive("guests") /\ mail' = Tail(mail)
  /\ guests' = Head(mail).guests
  /\ UNCHANGED chosen /\ Rerender
  /\ UNCHANGED <<hover, month, visited, clicks>>

\* handle_params, when the browser goes back.
HandleParams ==
  /\ Receive("params") /\ mail' = Tail(mail)
  /\ chosen' = Head(mail).dates /\ guests' = Head(mail).guests
  /\ Rerender
  /\ UNCHANGED <<hover, month, visited, clicks>>

\* After a lost connection all begins again from the query.
RejoinCalendar(query) ==
  /\ clicks < MaxClicks /\ clicks' = clicks + 1
  /\ chosen' = query.dates /\ stay' = query.dates /\ guests' = query.guests
  /\ hover' = NoDay /\ month' = 1 /\ mail' = <<>>
  /\ reach' = Wanted(query.dates, 1)
  /\ UNCHANGED visited

-----------------------------------------------------------------------------
(* The browser *)

Push(msg) ==
  /\ clicks < MaxClicks /\ clicks' = clicks + 1
  /\ mail' = Append(mail, msg)
  /\ UNCHANGED <<chosen, stay, guests, hover, month, reach, visited>>

Enabled(d) == ~Disabled(d) \/ d = stay.checkin

\* mouseover on a button that is enabled, and mouseleave.
MouseOver(d) == Enabled(d) /\ Push(Msg("move", d, NoStay, guests))

MouseLeave == Push(Msg("move", NoDay, NoStay, guests))

ClickDay(d) == Enabled(d) /\ Push(Msg("pick", d, NoStay, guests))

ClickMonth(m) == m # month /\ Push(Msg("month", m, NoStay, guests))

ClickReset == chosen # NoStay /\ Push(Msg("reset", NoDay, NoStay, guests))

ClickGuests(n) == n # guests /\ Push(Msg("guests", NoDay, NoStay, n))

GoBack(query) == Push(Msg("params", NoDay, query.dates, query.guests))

CalendarInit ==
  /\ chosen = NoStay /\ stay = NoStay /\ guests \in DOMAIN FreeDays
  /\ hover = NoDay /\ month = 1 /\ reach = MonthReach[1]
  /\ mail = <<>> /\ visited = {Query(NoStay)} /\ clicks = 0

CalendarNext ==
  \/ PickDate \/ CursorMove \/ ShowMonth
  \/ DateChanged \/ ResetDates \/ ChangeGuests \/ HandleParams
  \/ \E d \in Day : MouseOver(d) \/ ClickDay(d)
  \/ MouseLeave \/ ClickReset
  \/ \E m \in DOMAIN MonthReach : ClickMonth(m)
  \/ \E n \in DOMAIN FreeDays : ClickGuests(n)
  \/ \E query \in visited : GoBack(query) \/ RejoinCalendar(query)

CalendarSpec == CalendarInit /\ [][CalendarNext]_calendarVars

-----------------------------------------------------------------------------
\* Without a change under way, calendar and page have the same dates: the
\* nights that are priced and booked are the nights that are shown.
CalendarAgrees ==
  (\A k \in DOMAIN mail : mail[k].kind # "dates") => stay = chosen
=============================================================================
