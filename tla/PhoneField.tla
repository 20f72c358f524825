------------------------------- MODULE PhoneField -------------------------------
(***************************************************************************)
(* The phone number field: the LivePhone hook (assets/js/live_phone.js),   *)
(* the component live_phone.ex and the form around it.  The member sees a  *)
(* text and a country; the form submits a hidden field, which the          *)
(* component sets and the hook announces.  No page sets apply_format?, so  *)
(* that there are no masks and format() leaves the text alone.             *)
(***************************************************************************)
EXTENDS Naturals, Sequences, SequencesExt

CONSTANTS
  Names,       \* the names of the country list, in order, as letters
  MaxTyped,    \* bound: changes of the text, letters and keys in the list
  MaxToggles,  \* bound: times the list is opened or closed by its button
  MaxBehind    \* bound: messages on their way when the member does something

ASSUME NamesAssumption == Names # <<>> /\ Names \in Seq(Seq(STRING))

Letter  == UNION {Range(Names[i]) : i \in DOMAIN Names}
Country == DOMAIN Names

\* A text, as far as it matters here: nothing, too short to parse, a number.
Text == {"", "part", "a", "b"}

VARIABLES
  country, value, formatted, opened,  \* the component's assigns
  form,        \* the number in the page's form
  typings, patches,                   \* the channel
  text, focused, hidden,              \* the two inputs in the DOM
  list,        \* the country list is in the DOM
  marked,      \* its item with aria-selected, 0 if none
  typeahead,   \* this.typeahead.text
  owed,        \* a keyup waits for its debounce
  typed, toggles

phoneVars == <<country, value, formatted, opened, form, typings, patches, text, focused,
               hidden, list, marked, typeahead, owed, typed, toggles>>

\* What an input holds: a text, or an E.164 number with its country.
Plain(t) == [of |-> 0, digits |-> t]
Nothing  == Plain("")

\* normalize: a number gets the country, unless it has one.
Normalized(v, c) == IF v.of = 0 /\ v.digits \in {"a", "b"} THEN [v EXCEPT !.of = c] ELSE v

\* apply_mask: the national number; what does not parse becomes empty.
Masked(v) == IF v.digits = "part" THEN "" ELSE v.digits

Typing(kind, v) == [kind |-> kind, v |-> v]
TextEvent(e)    == e.kind \in {"typing", "blur"}

\* The diff that answers an event of the given kind, with its events.
Reply(kind, changes) ==
  patches' = Append(patches,
    [value |-> value', formatted |-> formatted', opened |-> opened', country |-> country',
     kind |-> kind, changes |-> changes])

\* set_value; blur pushes a change event of its own after it.
SetValue(v, kind) ==
  /\ value' = Masked(v)
  /\ formatted' = Normalized(v, country)
  /\ Reply(kind, (IF formatted' # formatted THEN 1 ELSE 0) + (IF kind = "blur" THEN 1 ELSE 0))

HandleTyping ==
  /\ typings # <<>> /\ TextEvent(Head(typings))
  /\ typings' = Tail(typings)
  /\ UNCHANGED country
  /\ opened' = (opened /\ Head(typings).kind = "typing")
  /\ SetValue(Head(typings).v, Head(typings).kind)
  /\ UNCHANGED <<form, text, focused, hidden, list, marked, typeahead, owed,
                 typed, toggles>>

\* The form's phx-change: a form that changed updates the component.
HandleValidate ==
  /\ typings # <<>> /\ Head(typings).kind = "validate"
  /\ typings' = Tail(typings)
  /\ form' = Head(typings).v
  /\ UNCHANGED <<opened, country>>
  /\ IF form' # form THEN SetValue(form', "validate")
     ELSE UNCHANGED <<value, formatted, patches>>
  /\ UNCHANGED <<text, focused, hidden, list, marked, typeahead, owed, typed, toggles>>

\* toggle, close and select_country, which leaves the number as it was.
HandleList ==
  /\ typings # <<>> /\ Head(typings).kind \in {"toggle", "close", "select"}
  /\ typings' = Tail(typings)
  /\ LET e == Head(typings)
     IN /\ opened' = (e.kind = "toggle" /\ ~opened)
        /\ country' = IF e.kind = "select" THEN e.v.of ELSE country
        /\ UNCHANGED <<value, formatted>>
        /\ Reply(e.kind, 0)
  /\ UNCHANGED <<form, text, focused, hidden, list, marked, typeahead, owed,
                 typed, toggles>>

-----------------------------------------------------------------------------
(* The hook *)

Calm == Len(typings) + Len(patches) < MaxBehind

\* Mutant: setChange uses the "changed" it computes; the diff came first.
AnnounceChanged(n, v) == [i \in 1..(IF hidden' # v THEN n ELSE 0) |-> Typing("validate", v)]

\* setChange: the input event makes LiveView send the form.
AnnounceChange(n, v) == [i \in 1..n |-> Typing("validate", v)]

\* LiveView leaves an input alone while an event of its own is unanswered.
Locked == \E e \in Range(typings) \cup Range(Tail(patches)) : TextEvent(e)

\* A diff and its events.  The text is patched unless it has the focus; the
\* setter that bindEvents defines then makes a keyup of its own.
PatchPhone ==
  /\ patches # <<>> /\ patches' = Tail(patches)
  /\ LET d == Head(patches)
     IN /\ hidden' = d.formatted
        /\ list' = d.opened
        /\ marked' = IF d.opened THEN d.country ELSE 0
        /\ focused' = (focused \/ d.kind = "select")
        /\ text' = IF focused \/ Locked THEN text ELSE d.value
        /\ owed' = (owed \/ text' # text)
        /\ typings' = typings \o AnnounceChange(d.changes, d.formatted)
  /\ UNCHANGED <<country, value, formatted, opened, form, typeahead, typed, toggles>>

Debounced ==
  /\ owed /\ owed' = FALSE
  /\ typings' = Append(typings, Typing("typing", Plain(text)))
  /\ UNCHANGED <<country, value, formatted, opened, form, patches, text, focused, hidden,
                 list, marked, typeahead, typed, toggles>>

TypeText(t) ==
  /\ Calm /\ focused /\ typed < MaxTyped /\ typed' = typed + 1
  /\ text' = t /\ t # text /\ owed' = TRUE
  /\ UNCHANGED <<country, value, formatted, opened, form, typings, patches, focused, hidden,
                 list, marked, typeahead, toggles>>

\* closeOverlay, when the text gets the focus or the page is clicked elsewhere.
CloseOverlay == IF list THEN Append(typings, Typing("close", Nothing)) ELSE typings

FocusText ==
  /\ Calm /\ ~focused /\ typed < MaxTyped
  /\ focused' = TRUE
  /\ typings' = CloseOverlay
  /\ UNCHANGED <<country, value, formatted, opened, form, patches, text, hidden, list, marked,
                 typeahead, owed, typed, toggles>>

\* phx-blur; a keyup that waits is sent first.
Left == typings \o (IF owed THEN <<Typing("typing", Plain(text))>> ELSE <<>>)
                \o (IF focused THEN <<Typing("blur", Plain(text))>> ELSE <<>>)

\* onOutsideEvent
LeaveText ==
  /\ Calm /\ focused /\ focused' = FALSE
  /\ typings' = Left \o (IF list THEN <<Typing("close", Nothing)>> ELSE <<>>)
  /\ owed' = FALSE
  /\ UNCHANGED <<country, value, formatted, opened, form, patches, text, hidden, list, marked,
                 typeahead, typed, toggles>>

\* A click on the country button, or space or enter while it has the focus.
ToggleList ==
  /\ Calm /\ toggles < MaxToggles /\ toggles' = toggles + 1
  /\ focused' = FALSE /\ owed' = FALSE
  /\ typings' = Append(Left, Typing("toggle", Nothing))
  /\ UNCHANGED <<country, value, formatted, opened, form, patches, text, hidden, list, marked,
                 typeahead, typed>>

-----------------------------------------------------------------------------
(* The keyboard in the country list *)

\* shiftSelectedCountry, clamped; with nothing selected it starts at the top.
Shifted(change) ==
  LET from == IF marked = 0 THEN 1 ELSE marked
  IN IF change = "down" THEN (IF from < Len(Names) THEN from + 1 ELSE from)
     ELSE (IF from > 1 THEN from - 1 ELSE from)

ShiftSelected(change) ==
  /\ Calm /\ list /\ typed < MaxTyped /\ typed' = typed + 1
  /\ marked' = Shifted(change)
  /\ UNCHANGED <<country, value, formatted, opened, form, typings, patches, text, focused,
                 hidden, list, typeahead, owed, toggles>>

\* A click on an item.
ClickCountry(c) ==
  /\ Calm /\ list
  /\ typings' = Append(typings, Typing("select", [Nothing EXCEPT !.of = c]))
  /\ UNCHANGED <<country, value, formatted, opened, form, patches, text, focused, hidden, list,
                 marked, typeahead, owed, typed, toggles>>

\* Enter; the call of setFocus after it fails, and the focus waits for the
\* component's event.
EnterCountry ==
  /\ Calm /\ list
  /\ typings' = IF marked # 0
                THEN Append(typings, Typing("select", [Nothing EXCEPT !.of = marked]))
                ELSE CloseOverlay
  /\ UNCHANGED <<country, value, formatted, opened, form, patches, text, focused, hidden, list,
                 marked, typeahead, owed, typed, toggles>>

\* Escape, and a click elsewhere while the text has no focus.
CloseList ==
  /\ Calm /\ list
  /\ typings' = CloseOverlay
  /\ UNCHANGED <<country, value, formatted, opened, form, patches, text, focused, hidden, list,
                 marked, typeahead, owed, typed, toggles>>

\* findPartialMatch: letters add up, also those typed into the text.
TypeAhead(l) ==
  /\ Calm /\ typed < MaxTyped /\ typed' = typed + 1
  /\ typeahead' = Append(typeahead, l)
  /\ LET matches == {i \in Country : list /\ IsPrefix(typeahead', Names[i])}
     IN marked' = IF matches = {} THEN marked
                  ELSE CHOOSE i \in matches : \A j \in matches : i <= j
  /\ UNCHANGED <<country, value, formatted, opened, form, typings, patches, text, focused,
                 hidden, list, owed, toggles>>

\* 1.5 s after the last letter.
ForgetTypeahead ==
  /\ typeahead # <<>> /\ typeahead' = <<>>
  /\ UNCHANGED <<country, value, formatted, opened, form, typings, patches, text, focused,
                 hidden, list, marked, owed, typed, toggles>>

-----------------------------------------------------------------------------
\* Mounting sets the value, which pushes a first change.
PhoneInit ==
  /\ country = 1 /\ value = "" /\ formatted = Nothing /\ opened = FALSE /\ form = Nothing
  /\ typings = <<>>
  /\ patches = <<[value |-> "", formatted |-> Nothing, opened |-> FALSE, country |-> 1,
                  kind |-> "mount", changes |-> 1]>>
  /\ text = "" /\ focused = FALSE /\ hidden = Nothing /\ list = FALSE /\ marked = 0
  /\ typeahead = <<>> /\ owed = FALSE /\ typed = 0 /\ toggles = 0

PhoneNext ==
  \/ HandleTyping \/ HandleValidate \/ HandleList
  \/ PatchPhone \/ Debounced \/ FocusText \/ LeaveText \/ ToggleList
  \/ \E t \in Text : TypeText(t)
  \/ ShiftSelected("down") \/ ShiftSelected("up") \/ EnterCountry \/ CloseList
  \/ \E c \in Country : ClickCountry(c)
  \/ \E l \in Letter : TypeAhead(l)
  \/ ForgetTypeahead

\* When nothing is on its way, the number the form would submit is the one
\* the component computed and the page's form holds: a number that the
\* component sets is always announced, though no member typed it.
FormHearsNumber ==
  typings = <<>> /\ patches = <<>> => hidden = formatted /\ form = hidden
=============================================================================
