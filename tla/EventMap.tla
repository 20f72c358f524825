-------------------------------- MODULE EventMap --------------------------------
(***************************************************************************)
(* The map of a place: the RadarMap hook (assets/js/radar.js), the         *)
(* component that pushes it the place (map_component.ex) and the pages     *)
(* around it.  A locked page shows the place; on an open one the organiser *)
(* puts the marker with a click (admin_events_new.ex).  The map library,   *)
(* the map's tiles and the LiveView's events come in any order, and a map  *)
(* is open until an add-marker event has told the hook otherwise.          *)
(***************************************************************************)
EXTENDS Naturals, Sequences

CONSTANTS
  Place,       \* coordinates
  MaxPushes,   \* bound: add-marker events pushed without a new place
  MaxMoves     \* bound: new places, by clicks on the map or elsewhere

ASSUME PlaceAssumption == Place \subseteq Nat \ {0} /\ MaxPushes \in Nat

Nowhere == 0

VARIABLES
  locked,      \* the page's assign
  place,       \* the coordinates that the page's event or form has
  marks,       \* add-marker events on their way
  spots,       \* map-new-marker events on their way
  inited,      \* window.Radar was there: the hook has its handlers and a map
  loaded,      \* the map's load event has happened
  shut,        \* the hook's variable locked
  marker,      \* where existingMarker is on the map
  clicked,     \* existingMarker was made by a click and listens to clicks
  pendingMarker,
  retrying,    \* places that an addMarkerWithRetry waits with
  pushed, moved

radar == <<inited, loaded, shut, marker, clicked, pendingMarker, retrying>>
mapVars == <<locked, place, marks, spots, radar, pushed, moved>>

\* setMarker
Set(p) ==
  IF p = Nowhere THEN UNCHANGED <<marker, clicked>> ELSE marker' = p /\ clicked' = FALSE

\* The component's update and toggle-map push the place again.
PushPlace ==
  /\ pushed < MaxPushes /\ pushed' = pushed + 1
  /\ marks' = Append(marks, place)
  /\ UNCHANGED <<locked, place, spots, radar, moved>>

\* The event moves, by another organiser's hand.
MovePlace(p) ==
  /\ moved < MaxMoves /\ moved' = moved + 1
  /\ p # place /\ place' = p /\ marks' = Append(marks, p)
  /\ UNCHANGED <<locked, spots, radar, pushed>>

\* initRadar finds the library; what was pushed before found no handler.
InitRadar ==
  /\ ~inited /\ inited' = TRUE
  /\ UNCHANGED <<locked, place, marks, spots, loaded, shut, marker, clicked, pendingMarker,
                 retrying, pushed, moved>>

MapLoads ==
  /\ inited /\ ~loaded /\ loaded' = TRUE
  /\ Set(pendingMarker)
  /\ pendingMarker' = Nowhere
  /\ UNCHANGED <<locked, place, marks, spots, inited, shut, retrying, pushed, moved>>

\* add-marker: a locked map tries now, and again until it has loaded.
AddMarker ==
  /\ marks # <<>> /\ marks' = Tail(marks)
  /\ LET p == Head(marks)
     IN IF ~inited THEN UNCHANGED <<shut, marker, clicked, pendingMarker, retrying>>
        ELSE /\ shut' = locked
             /\ IF locked /\ (~loaded \/ p = Nowhere)
                THEN /\ pendingMarker' = p /\ retrying' = retrying \cup {p}
                     /\ UNCHANGED <<marker, clicked>>
                ELSE /\ Set(p)
                     /\ pendingMarker' = IF locked THEN Nowhere ELSE pendingMarker
                     /\ UNCHANGED retrying
  /\ UNCHANGED <<locked, place, spots, inited, loaded, pushed, moved>>

\* addMarkerWithRetry, half a second later, with the place it began with.
RetryMarker(p) ==
  /\ p \in retrying /\ loaded /\ p # Nowhere
  /\ retrying' = retrying \ {p}
  /\ Set(p) /\ pendingMarker' = Nowhere
  /\ UNCHANGED <<locked, place, marks, spots, inited, loaded, shut, pushed, moved>>

\* Mutant: the last attempt forgets the coordinates.
GiveUpAll(p) ==
  /\ p \in retrying /\ (~loaded \/ p = Nowhere)
  /\ retrying' = retrying \ {p} /\ pendingMarker' = Nowhere
  /\ UNCHANGED <<locked, place, marks, spots, inited, loaded, shut, marker, clicked, pushed,
                 moved>>

\* After ten seconds; the coordinates stay for the load event.
GiveUp(p) ==
  /\ p \in retrying /\ (~loaded \/ p = Nowhere)
  /\ retrying' = retrying \ {p}
  /\ UNCHANGED <<locked, place, marks, spots, inited, loaded, shut, marker, clicked,
                 pendingMarker, pushed, moved>>

\* A click on a map that is, or still seems, open.
ClickMap(p) ==
  /\ loaded /\ ~shut /\ moved < MaxMoves /\ moved' = moved + 1
  /\ marker' = p /\ clicked' = TRUE /\ spots' = Append(spots, p)
  /\ UNCHANGED <<locked, place, marks, inited, loaded, shut, pendingMarker, retrying, pushed>>

\* map-new-marker: the form has the new place whether or not it could be
\* saved, and the component pushes what the form has.
SaveSpot ==
  /\ ~locked /\ spots # <<>> /\ spots' = Tail(spots)
  /\ place' = Head(spots) /\ marks' = Append(marks, place')
  /\ UNCHANGED <<locked, radar, pushed, moved>>

\* A page that only shows the place has no clause for the event: the LiveView
\* stops, and mounted again it pushes the place to the hook, which stayed.
UnknownEvent ==
  /\ locked /\ spots # <<>> /\ spots' = <<>>
  /\ marks' = Append(marks, place)
  /\ UNCHANGED <<locked, place, radar, pushed, moved>>

\* A click on a clicked marker takes it away, and nobody is told.
RemoveMarker ==
  /\ clicked /\ marker # Nowhere /\ moved < MaxMoves /\ moved' = moved + 1
  /\ marker' = Nowhere /\ clicked' = FALSE
  /\ UNCHANGED <<locked, place, marks, spots, inited, loaded, shut, pendingMarker, retrying,
                 pushed>>

MapInit ==
  /\ locked \in BOOLEAN
  /\ place \in Place \cup {Nowhere} /\ marks = <<place>>
  /\ spots = <<>> /\ inited = FALSE /\ loaded = FALSE /\ shut = FALSE
  /\ marker = Nowhere /\ clicked = FALSE /\ pendingMarker = Nowhere /\ retrying = {}
  /\ pushed = 0 /\ moved = 0

Retries == \E p \in retrying : RetryMarker(p) \/ GiveUp(p)

MapNext ==
  \/ PushPlace \/ InitRadar \/ MapLoads \/ AddMarker \/ Retries \/ SaveSpot \/ UnknownEvent
  \/ RemoveMarker
  \/ \E p \in Place : MovePlace(p) \/ ClickMap(p)

-----------------------------------------------------------------------------
\* A place that a locked map waits with is marked once the map has loaded, be
\* it by the load event or by a retry, and also when the map took longer than
\* the ten seconds of the retries.
LoadedMapHasMarker ==
  <>loaded => (locked /\ pendingMarker # Nowhere ~> marker # Nowhere)
=============================================================================
