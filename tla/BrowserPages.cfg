CONSTANTS
  MaxPresses = 2
  MaxRejoins = 1
  Names <- MCNames
  MaxTyped = 2
  MaxToggles = 1
  MaxBehind = 2
  Row = {1, 2}
  Upload = {1, 2}
  Place = {1, 2}
  MaxPushes = 1
  MaxMoves = 2
  Found <- MCFound
  MaxSearches = 4
  LastDay = 4
  MaxNights = 2
  FreeDays <- MCFreeDays
  MonthReach <- MCMonthReach
  Margin = 1
  MaxClicks = 4
  Notice = {1, 2}
  Width = {1, 2}
  MaxGrips = 2
  MaxVisits = 3
SPECIFICATION Spec
CHECK_DEADLOCK FALSE
INVARIANTS FormHearsNumber AttachedOnce CalendarAgrees PanelAgrees
PROPERTIES CeremonyEnds UploadSettles LoadedMapHasMarker LitIsTaken
