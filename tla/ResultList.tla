------------------------------- MODULE ResultList -------------------------------
(***************************************************************************)
(* The keyboard in a list of search results: the Autocomplete hook         *)
(* (assets/js/autocomplete.js) of the booking form, which picks a member,  *)
(* and the AdminSearch hook (assets/js/admin_search.js), which opens what  *)
(* it finds.  Each keeps the index of an item while the LiveView replaces  *)
(* the items under it.                                                     *)
(***************************************************************************)
EXTENDS Naturals, Sequences

CONSTANTS
  Found,        \* the lists a search may find
  MaxSearches   \* bound: searches, picks and clears

ASSUME FoundAssumption == Found \subseteq Seq(STRING)

NoItem == "nothing"

VARIABLES
  hook,             \* "Autocomplete" or "AdminSearch"; "gone": the page was left
  results,          \* @results; <<>> when hidden
  selected,         \* @selected
  asked,            \* events on their way to the LiveView
  shown,            \* the items in the DOM
  selectedIndex,    \* from 1; 0 for the code's -1
  lastResultCount,
  lit,              \* the item that has the classes of the selected one
  taken,            \* the item the last Enter or Tab clicked
  searches

resultVars == <<hook, results, selected, asked, shown, selectedIndex, lastResultCount, lit,
                taken, searches>>

hookVars == <<selectedIndex, lastResultCount, lit>>

Min2(a, b) == IF a < b THEN a ELSE b

\* updateSelection: the items that are there, against the index.
Lights(index, items) == IF index \in DOMAIN items THEN index ELSE 0

-----------------------------------------------------------------------------
(* The LiveView *)

\* search-booking-users, or the search of the component, which shows the list.
HandleSearch ==
  /\ asked # <<>> /\ Head(asked).kind = "search" /\ asked' = Tail(asked)
  /\ results' = Head(asked).arg
  /\ UNCHANGED <<hook, selected, shown, hookVars, taken, searches>>

HandleSelect ==
  /\ asked # <<>> /\ Head(asked).kind = "select" /\ asked' = Tail(asked)
  /\ selected' = Head(asked).arg /\ results' = <<>>
  /\ UNCHANGED <<hook, shown, hookVars, taken, searches>>

\* clear-booking-user; close_results of the component.
HandleClear ==
  /\ asked # <<>> /\ Head(asked).kind = "clear" /\ asked' = Tail(asked)
  /\ selected' = NoItem /\ results' = <<>>
  /\ UNCHANGED <<hook, shown, hookVars, taken, searches>>

\* The close_results of the hook's Escape reaches the dashboard, not the
\* component, and finds no clause: the page crashes with what was behind it in
\* the mailbox, and the component is mounted anew.
HandleEscape ==
  /\ asked # <<>> /\ Head(asked).kind = "escape" /\ asked' = <<>>
  /\ selected' = NoItem /\ results' = <<>>
  /\ UNCHANGED <<hook, shown, hookVars, taken, searches>>

-----------------------------------------------------------------------------
(* The hooks *)

\* The list the template renders.
Rendered == IF selected = NoItem THEN results ELSE <<>>

\* Mutant: the classes are left to the next key.
UpdatedUnlit(count) ==
  /\ selectedIndex' = IF count # lastResultCount THEN 0 ELSE selectedIndex
  /\ lastResultCount' = count
  /\ lit' = 0

\* updated of Autocomplete: only another number of results is another search.
Updated(count) ==
  /\ selectedIndex' = IF count # lastResultCount THEN 0 ELSE selectedIndex
  /\ lastResultCount' = count
  /\ lit' = Lights(selectedIndex', Rendered)

\* updated of AdminSearch.
UpdatedAdmin == selectedIndex' = 0 /\ lit' = 0 /\ UNCHANGED lastResultCount

\* A diff: the patched items have the template's classes, until updated runs.
DrawResults ==
  /\ hook # "gone" /\ shown # Rendered
  /\ shown' = Rendered
  /\ IF hook = "Autocomplete" THEN Updated(Len(Rendered)) ELSE UpdatedAdmin
  /\ UNCHANGED <<hook, results, selected, asked, taken, searches>>

Keys == hook # "gone" /\ shown # <<>>

ArrowDown ==
  /\ Keys
  /\ selectedIndex' = Min2(selectedIndex + 1, Len(shown))
  /\ lit' = Lights(selectedIndex', shown)
  /\ UNCHANGED <<hook, results, selected, asked, shown, lastResultCount, taken, searches>>

\* Autocomplete stays at the first item, AdminSearch leaves the list.
ArrowUp ==
  /\ Keys
  /\ selectedIndex' = IF hook = "Autocomplete"
                      THEN IF selectedIndex <= 2 THEN 1 ELSE selectedIndex - 1
                      ELSE IF selectedIndex = 0 THEN 0 ELSE selectedIndex - 1
  /\ lit' = Lights(selectedIndex', shown)
  /\ UNCHANGED <<hook, results, selected, asked, shown, lastResultCount, taken, searches>>

\* Enter or Tab: the classes stay until the answer.
Pick ==
  /\ Keys /\ hook = "Autocomplete" /\ selectedIndex \in DOMAIN shown
  /\ taken' = shown[selectedIndex]
  /\ asked' = Append(asked, [kind |-> "select", arg |-> taken'])
  /\ selectedIndex' = 0
  /\ searches < MaxSearches /\ searches' = searches + 1
  /\ UNCHANGED <<hook, results, selected, shown, lastResultCount, lit>>

\* Enter: without a selected item, the first.
Open ==
  /\ Keys /\ hook = "AdminSearch"
  /\ LET index == IF selectedIndex > 0 THEN selectedIndex ELSE 1
     IN index \in DOMAIN shown /\ taken' = shown[index]
  /\ hook' = "gone"
  /\ UNCHANGED <<results, selected, asked, shown, hookVars, searches>>

\* Escape, or a click elsewhere, in Autocomplete.
ClearSelection ==
  /\ Keys /\ hook = "Autocomplete"
  /\ selectedIndex' = 0 /\ lit' = 0
  /\ UNCHANGED <<hook, results, selected, asked, shown, lastResultCount, taken, searches>>

\* Escape in AdminSearch.
Escape ==
  /\ Keys /\ hook = "AdminSearch"
  /\ searches < MaxSearches /\ searches' = searches + 1
  /\ asked' = Append(asked, [kind |-> "escape", arg |-> NoItem])
  /\ UNCHANGED <<hook, results, selected, shown, hookVars, taken>>

\* The clear button; phx-click-away of AdminSearch.
AskClear ==
  /\ hook # "gone" /\ searches < MaxSearches /\ searches' = searches + 1
  /\ asked' = Append(asked, [kind |-> "clear", arg |-> NoItem])
  /\ UNCHANGED <<hook, results, selected, shown, hookVars, taken>>

\* The debounced query, and what is found for it.
TypeQuery(list) ==
  /\ hook # "gone" /\ selected = NoItem
  /\ searches < MaxSearches /\ searches' = searches + 1
  /\ asked' = Append(asked, [kind |-> "search", arg |-> list])
  /\ UNCHANGED <<hook, results, selected, shown, hookVars, taken>>

ResultInit ==
  /\ hook \in {"Autocomplete", "AdminSearch"}
  /\ results = <<>> /\ selected = NoItem /\ asked = <<>> /\ shown = <<>>
  /\ selectedIndex = 0 /\ lastResultCount = 0 /\ lit = 0
  /\ taken = NoItem /\ searches = 0

ResultNext ==
  \/ HandleSearch \/ HandleSelect \/ HandleClear \/ HandleEscape \/ DrawResults
  \/ ArrowDown \/ ArrowUp \/ Pick \/ Open \/ ClearSelection \/ Escape \/ AskClear
  \/ \E list \in Found : TypeQuery(list)

ResultSpec == ResultInit /\ [][ResultNext]_resultVars

-----------------------------------------------------------------------------
\* Enter takes the item that looks selected (in AdminSearch the first, when
\* none does), also when the list was replaced under the selection.
LitIsTaken ==
  [][taken' # taken =>
       taken' = IF lit # 0 THEN shown[lit]
                ELSE IF hook = "AdminSearch" THEN shown[1] ELSE NoItem]_resultVars
=============================================================================
