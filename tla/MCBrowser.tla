-------------------------------- MODULE MCBrowser --------------------------------
(***************************************************************************)
(* One browser tab with one of the pages open: each page is checked with   *)
(* its own LiveView, and none shares anything with another.  Pages that    *)
(* are not open rest in one of their initial states.                       *)
(***************************************************************************)
EXTENDS PasskeyCeremony, PhoneField, ReceiptUploads, EventMap, ResultList, StayCalendar,
        SidePanel

VARIABLE tab

MCNames == <<<<"n", "o">>, <<"s", "e">>, <<"s", "f">>>>
MCFound == {<<>>, <<"a", "b">>, <<"b", "c">>, <<"c">>}
MCFreeDays == <<{1, 2, 3, 4}, {1, 2, 4}>>
MCMonthReach == <<1..3, 2..4>>

browserVars == <<tab, keyVars, phoneVars, uploadVars, mapVars, resultVars, calendarVars, panelVars>>

Init ==
  /\ tab \in {"key", "phone", "upload", "map", "results", "calendar", "panel"}
  /\ KeyInit /\ PhoneInit /\ UploadInit /\ MapInit /\ ResultInit /\ CalendarInit
  /\ PanelInit
  /\ tab # "key" => ceremony = "registration" /\ asks = <<>>
  /\ tab # "map" => locked /\ place = Nowhere
  /\ tab # "results" => hook = "AdminSearch"
  /\ tab # "calendar" => guests = 1

KeyPage(step) ==
  /\ tab = "key" /\ step
  /\ UNCHANGED <<tab, phoneVars, uploadVars, mapVars, resultVars, calendarVars, panelVars>>

PhonePage(step) ==
  /\ tab = "phone" /\ step
  /\ UNCHANGED <<tab, keyVars, uploadVars, mapVars, resultVars, calendarVars, panelVars>>

UploadPage(step) ==
  /\ tab = "upload" /\ step
  /\ UNCHANGED <<tab, keyVars, phoneVars, mapVars, resultVars, calendarVars, panelVars>>

MapPage(step) ==
  /\ tab = "map" /\ step
  /\ UNCHANGED <<tab, keyVars, phoneVars, uploadVars, resultVars, calendarVars, panelVars>>

ResultPage(step) ==
  /\ tab = "results" /\ step
  /\ UNCHANGED <<tab, keyVars, phoneVars, uploadVars, mapVars, calendarVars, panelVars>>

CalendarPage(step) ==
  /\ tab = "calendar" /\ step
  /\ UNCHANGED <<tab, keyVars, phoneVars, uploadVars, mapVars, resultVars, panelVars>>

PanelPage(step) ==
  /\ tab = "panel" /\ step
  /\ UNCHANGED <<tab, keyVars, phoneVars, uploadVars, mapVars, resultVars, calendarVars>>

Next ==
  \/ KeyPage(KeyNext) \/ PhonePage(PhoneNext) \/ UploadPage(UploadNext)
  \/ MapPage(MapNext) \/ ResultPage(ResultNext) \/ CalendarPage(CalendarNext)
  \/ PanelPage(PanelNext)

\* LiveViews answer, diffs are drawn, timers fire, and every dialog of the
\* browser ends, for the options carry a timeout.
Fairness ==
  /\ WF_browserVars(KeyPage(KeyEvent)) /\ WF_browserVars(KeyPage(AskBrowser))
  /\ WF_browserVars(KeyPage(Browser))
  /\ WF_browserVars(UploadPage(AttachEvent)) /\ WF_browserVars(UploadPage(DrawUploads))
  /\ WF_browserVars(UploadPage(Intervals)) /\ WF_browserVars(UploadPage(Presses))

Spec == Init /\ [][Next]_browserVars /\ Fairness
=============================================================================
