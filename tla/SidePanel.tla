-------------------------------- MODULE SidePanel --------------------------------
(***************************************************************************)
(* The resizable panel of the notifications on an admin's page: the        *)
(* PanelResizer hook (assets/js/panel_resizer.js) and the three handlers   *)
(* of admin_user_detail_page.ex it lives with.  The width is written by    *)
(* two hands: the mouse, at once, and the LiveView, with every diff that   *)
(* renders the panel again.                                                *)
(***************************************************************************)
EXTENDS Naturals, Sequences

CONSTANTS
  Notice,      \* the notifications listed
  Width,       \* widths between a fifth and four fifths of the page
  MaxGrips,    \* bound: times the edge is gripped
  MaxVisits     \* bound: notifications picked, closings, lost connections

ASSUME WidthAssumption == Width \subseteq Nat \ {0} /\ Notice \subseteq Nat \ {0}

Template == 0  \* the width the template gives a panel nobody resized
Closed   == 0

VARIABLES
  notice,      \* @selected_notification
  panelWidth,  \* @panel_width
  panelAsks,   \* events on their way
  panelDiffs,  \* diffs on their way: what the panel shows, and how wide
  panelShows,  \* the notification in the panel of the page, or Closed
  style,       \* the width of the panel of the page
  grip,        \* what the mouse drags: "panel", "lost" (a panel that was
               \* removed meanwhile) or "none"
  loose,       \* the width of the removed panel
  grips, visits

panelVars == <<notice, panelWidth, panelAsks, panelDiffs, panelShows, style, grip, loose,
               grips, visits>>

PanelAsk(kind, x) == [kind |-> kind, x |-> x]

-----------------------------------------------------------------------------
\* The diff of what a handler has assigned.
Renders == panelDiffs' = Append(panelDiffs, [shows |-> notice', width |-> panelWidth'])

\* A diff follows if an assign changed; a panel that nobody resized gets its
\* width named by the first resize, whether or not it was dragged.
Answers ==
  \/ Renders /\ (notice' # notice \/ panelWidth' # panelWidth)
  \/ notice' = notice /\ panelWidth' = panelWidth /\ UNCHANGED panelDiffs

HandlePick ==
  /\ panelAsks # <<>> /\ Head(panelAsks).kind = "pick"
  /\ notice' = Head(panelAsks).x /\ UNCHANGED panelWidth
  /\ Answers
  /\ panelAsks' = Tail(panelAsks)
  /\ UNCHANGED <<panelShows, style, grip, loose, grips, visits>>

HandleResize ==
  /\ panelAsks # <<>> /\ Head(panelAsks).kind = "resize"
  /\ panelWidth' = Head(panelAsks).x /\ UNCHANGED notice
  /\ Answers \/ (panelWidth' = Template /\ Renders)
  /\ panelAsks' = Tail(panelAsks)
  /\ UNCHANGED <<panelShows, style, grip, loose, grips, visits>>

\* A row of the table, or the close button, is clicked.
PickNotice(n) ==
  /\ grip = "none" /\ visits < MaxVisits /\ visits' = visits + 1
  /\ n = Closed => panelShows # Closed
  /\ panelAsks' = Append(panelAsks, PanelAsk("pick", n))
  /\ UNCHANGED <<notice, panelWidth, panelDiffs, panelShows, style, grip, loose, grips>>

\* A new LiveView knows neither the notification nor the width.
RejoinPanel ==
  /\ visits < MaxVisits /\ visits' = visits + 1
  /\ notice' = Closed /\ panelWidth' = Template
  /\ panelAsks' = <<>> /\ panelDiffs' = <<[shows |-> Closed, width |-> Template]>>
  /\ UNCHANGED <<panelShows, style, grip, loose, grips>>

-----------------------------------------------------------------------------
\* mounted and updated; there is no destroyed, so that a drag goes on, with
\* the listeners on the document, after its panel has gone.
ShowPanel ==
  /\ panelDiffs # <<>> /\ panelDiffs' = Tail(panelDiffs)
  /\ panelShows' = Head(panelDiffs).shows
  /\ style' = Head(panelDiffs).width
  /\ IF panelShows' = Closed /\ grip = "panel"
     THEN grip' = "lost" /\ loose' = style
     ELSE UNCHANGED <<grip, loose>>
  /\ UNCHANGED <<notice, panelWidth, panelAsks, grips, visits>>

\* startResize
Grip ==
  /\ grip = "none" /\ panelShows # Closed
  /\ grips < MaxGrips /\ grips' = grips + 1
  /\ grip' = "panel"
  /\ UNCHANGED <<notice, panelWidth, panelAsks, panelDiffs, panelShows, style, loose, visits>>

\* doResize: from the width at the start, whatever a diff wrote meanwhile.
Drag(w) ==
  /\ \/ grip = "panel" /\ style' = w /\ UNCHANGED loose
     \/ grip = "lost" /\ loose' = w /\ UNCHANGED style
  /\ UNCHANGED <<notice, panelWidth, panelAsks, panelDiffs, panelShows, grip, grips, visits>>

\* Mutant: nothing is saved while an event waits for its answer.
DropIfBusy ==
  /\ grip # "none" /\ grip' = "none"
  /\ panelAsks' = IF panelAsks # <<>> THEN panelAsks
                  ELSE Append(panelAsks, PanelAsk("resize", IF grip = "lost" THEN loose ELSE style))
  /\ UNCHANGED <<notice, panelWidth, panelDiffs, panelShows, style, loose, grips, visits>>

\* stopResize saves the width that the panel has by now.
Drop ==
  /\ grip # "none" /\ grip' = "none"
  /\ panelAsks' = Append(panelAsks, PanelAsk("resize", IF grip = "lost" THEN loose ELSE style))
  /\ UNCHANGED <<notice, panelWidth, panelDiffs, panelShows, style, loose, grips, visits>>

PanelInit ==
  /\ notice = Closed /\ panelWidth = Template
  /\ panelAsks = <<>> /\ panelDiffs = <<>>
  /\ panelShows = Closed /\ style = Template
  /\ grip = "none" /\ loose = Template
  /\ grips = 0 /\ visits = 0

PanelNext ==
  \/ HandlePick \/ HandleResize \/ RejoinPanel
  \/ \E n \in Notice \cup {Closed} : PickNotice(n)
  \/ ShowPanel \/ Grip \/ Drop
  \/ \E w \in Width : Drag(w)

PanelSpec == PanelInit /\ [][PanelNext]_panelVars

-----------------------------------------------------------------------------
\* Once nothing is on its way the panel is as wide on the page as the LiveView
\* believes, so that no later diff makes it jump: although diffs overwrite a
\* drag half done, and a drag outlives the panel it began on.
PanelAgrees ==
  panelAsks = <<>> /\ panelDiffs = <<>> /\ grip # "panel" /\ panelShows # Closed =>
    style = panelWidth
=============================================================================
