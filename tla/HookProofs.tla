----------------------------- MODULE HookProofs -----------------------------
(***************************************************************************)
(* Theorems about six parts of the browser pages: the receipts of an       *)
(* expense report, the list of search results, the side panel, the phone   *)
(* number field, the event map and the passkey button.  Each is proved for *)
(* every value of its constants, whatever the messages between page and    *)
(* server overtake.                                                        *)
(***************************************************************************)
EXTENDS ReceiptUploads, ResultList, SidePanel, PhoneField, EventMap, PasskeyCeremony,
        SequenceTheorems, WellFoundedInduction, TLAPS

-----------------------------------------------------------------------------
(* Receipts: no file becomes the receipt of two rows.  The reason is that  *)
(* a file leaves the uploads in the step that attaches it, so that         *)
(* whatever press for it comes later finds nothing.                        *)

States == {"none", "uploading", "done", "gone"}
Press  == [kind : {"consume", "cancel"}, u : Upload, row : Row \cup {Nobody}]

UploadTypes ==
  /\ entry \in [Upload -> States]
  /\ receipt \in [Row -> Upload \cup {Nobody}]
  /\ tries \in Seq(Press)
  /\ \A k \in DOMAIN tries : tries[k].kind = "consume" => tries[k].row \in Row
  /\ \A t \in timers : t.u \in Upload

\* What a row has is no upload any more.
AttachedGone == \A i \in Row : receipt[i] # Nobody => entry[receipt[i]] = "gone"

UploadInv == UploadTypes /\ AttachedGone /\ AttachedOnce

LEMMA NobodyIsNoUpload == Nobody \notin Upload
  BY RowAssumption DEF Nobody

\* What is left when the first event is taken.
LEMMA TriesTail ==
  ASSUME UploadTypes, tries # <<>>
  PROVE  /\ Tail(tries) \in Seq(Press) /\ Head(tries) \in Press
         /\ Head(tries).kind = "consume" => Head(tries).row \in Row
         /\ \A k \in DOMAIN Tail(tries) :
              Tail(tries)[k].kind = "consume" => Tail(tries)[k].row \in Row
  <1>1. tries \in Seq(Press)
    BY DEF UploadTypes
  <1>2. /\ Tail(tries) \in Seq(Press) /\ Head(tries) \in Press
        /\ 1 \in DOMAIN tries /\ Head(tries) = tries[1]
        /\ \A k \in DOMAIN Tail(tries) : k + 1 \in DOMAIN tries /\ Tail(tries)[k] = tries[k + 1]
    BY <1>1
  <1>3. QED
    BY <1>2 DEF UploadTypes

\* An event more.
LEMMA TriesAppend ==
  ASSUME UploadTypes, NEW e \in Press, e.kind = "consume" => e.row \in Row
  PROVE  /\ Append(tries, e) \in Seq(Press)
         /\ \A k \in DOMAIN Append(tries, e) :
              Append(tries, e)[k].kind = "consume" => Append(tries, e)[k].row \in Row
  <1>1. tries \in Seq(Press)
    BY DEF UploadTypes
  <1>2. /\ Append(tries, e) \in Seq(Press)
        /\ \A k \in DOMAIN Append(tries, e) :
             (k \in DOMAIN tries /\ Append(tries, e)[k] = tries[k]) \/ Append(tries, e)[k] = e
    BY <1>1
  <1>3. QED
    BY <1>2 DEF UploadTypes

-----------------------------------------------------------------------------
\* The one step that attaches.
LEMMA ConsumeKeeps ==
  ASSUME UploadInv, HandleConsume
  PROVE  UploadInv'
  <1> DEFINE e == Head(tries)
  <1>1. UploadTypes /\ AttachedGone /\ AttachedOnce
    BY DEF UploadInv
  <1>2. /\ tries # <<>> /\ e.kind = "consume" /\ tries' = Tail(tries) /\ timers' = timers
    BY DEF HandleConsume
  <1>3. e.u \in Upload /\ e.row \in Row
    BY <1>1, <1>2, TriesTail DEF Press
  <1>4. /\ tries' \in Seq(Press)
        /\ \A k \in DOMAIN tries' : tries'[k].kind = "consume" => tries'[k].row \in Row
        /\ \A t \in timers' : t.u \in Upload
    BY <1>1, <1>2, TriesTail DEF UploadTypes
  <1>5. CASE entry[e.u] # "done"
    <2>1. UNCHANGED <<entry, receipt>>
      BY <1>5 DEF HandleConsume
    <2>2. QED
      BY <1>1, <1>4, <2>1 DEF UploadInv, UploadTypes, AttachedGone, AttachedOnce
  <1>6. CASE entry[e.u] = "done"
    <2>1. /\ entry' = [entry EXCEPT ![e.u] = "gone"]
          /\ receipt' = [receipt EXCEPT ![e.row] = e.u] \/ receipt' = receipt
      BY <1>6 DEF HandleConsume, Consumes
    <2>2. entry' \in [Upload -> States] /\ receipt' \in [Row -> Upload \cup {Nobody}]
      BY <1>1, <1>3, <2>1 DEF UploadTypes, States
    <2>3. \A i \in Row : receipt[i] # e.u
      BY <1>1, <1>3, <1>6, NobodyIsNoUpload DEF AttachedGone
    <2>4. \A i \in Row : receipt'[i] = receipt[i] \/ (i = e.row /\ receipt'[i] = e.u)
      BY <1>1, <1>3, <2>1 DEF UploadTypes
    <2>5. AttachedOnce'
      BY <1>1, <2>3, <2>4 DEF AttachedOnce
    <2>6. \A u \in Upload : entry'[u] = entry[u] \/ entry'[u] = "gone"
      BY <1>1, <1>3, <2>1 DEF UploadTypes
    <2>7. entry'[e.u] = "gone"
      BY <1>1, <1>3, <2>1 DEF UploadTypes
    <2>8. AttachedGone'
      BY <1>1, <2>2, <2>4, <2>6, <2>7 DEF AttachedGone, UploadTypes
    <2>9. QED
      BY <1>4, <2>2, <2>5, <2>8 DEF UploadInv, UploadTypes
  <1>7. QED
    BY <1>5, <1>6

\* Files that come, end or are cancelled, and a LiveView that starts again.
LEMMA EntriesKeep ==
  ASSUME UploadInv,
         \/ HandleCancel \/ CancelTooLate
         \/ \E u \in Upload : ChooseFile(u) \/ UploadEnds(u)
  PROVE  UploadInv'
  <1>1. UploadTypes /\ AttachedGone /\ AttachedOnce
    BY DEF UploadInv
  <1>2. CASE HandleCancel
    <2>1. /\ tries # <<>> /\ tries' = Tail(tries) /\ UNCHANGED <<receipt, timers>>
          /\ entry' = [entry EXCEPT ![Head(tries).u] = "gone"]
      BY <1>2 DEF HandleCancel
    <2>2. entry' \in [Upload -> States]
      BY <1>1, <2>1 DEF UploadTypes, States
    <2>3. \A u \in Upload : entry'[u] = entry[u] \/ entry'[u] = "gone"
      BY <1>1, <2>1 DEF UploadTypes
    <2>4. QED
      BY <1>1, <2>1, <2>2, <2>3, TriesTail
      DEF UploadInv, UploadTypes, AttachedGone, AttachedOnce
  <1>3. CASE CancelTooLate
    <2>1. /\ tries' = <<>> /\ timers' = timers
          /\ entry' = [u \in Upload |-> IF entry[u] = "none" THEN "none" ELSE "gone"]
          /\ receipt' = [i \in Row |-> Nobody]
      BY <1>3 DEF CancelTooLate
    <2>2. entry' \in [Upload -> States]
      BY <2>1 DEF States
    <2>3. receipt' \in [Row -> Upload \cup {Nobody}]
      BY <2>1
    <2>4. \A i \in Row : receipt'[i] = Nobody
      BY <2>1
    <2>5. QED
      BY <1>1, <2>1, <2>2, <2>3, <2>4 DEF UploadInv, UploadTypes, AttachedGone, AttachedOnce
  <1>4. ASSUME NEW u \in Upload, ChooseFile(u) \/ UploadEnds(u) PROVE UploadInv'
    <2>1. /\ entry[u] # "gone" /\ UNCHANGED <<receipt, tries, timers>>
          /\ \E s \in {"uploading", "done"} : entry' = [entry EXCEPT ![u] = s]
      BY <1>4 DEF ChooseFile, UploadEnds
    <2>2. entry' \in [Upload -> States]
      BY <1>1, <2>1 DEF UploadTypes, States
    <2>3. \A v \in Upload : entry[v] = "gone" => entry'[v] = "gone"
      BY <1>1, <2>1 DEF UploadTypes
    <2>4. QED
      BY <1>1, <2>1, <2>2, <2>3 DEF UploadInv, UploadTypes, AttachedGone, AttachedOnce
  <1>5. QED
    BY <1>2, <1>3, <1>4

\* What happens on the page attaches nothing.
LEMMA PageKeepsReceipts ==
  ASSUME UploadInv,
         \/ DrawUploads
         \/ \E u \in Upload : IntervalChecks(u) \/ CancelUpload(u)
         \/ \E i \in Row, u \in Upload : HookChecks(i, u)
         \/ \E t \in timers : Clicks(t)
  PROVE  UploadInv'
  <1>1. UploadTypes /\ AttachedGone /\ AttachedOnce
    BY DEF UploadInv
  <1>2. UNCHANGED <<entry, receipt>>
    BY DEF DrawUploads, IntervalChecks, CancelUpload, HookChecks, Clicks
  <1>3. CASE DrawUploads
    BY <1>1, <1>2, <1>3 DEF DrawUploads, UploadInv, UploadTypes, AttachedGone, AttachedOnce
  <1>4. ASSUME NEW u \in Upload,
               IntervalChecks(u) \/ \E i \in Row : HookChecks(i, u)
        PROVE  UploadInv'
    <2>1. /\ tries' = tries
          /\ \E by : timers' = timers \cup {Timer(by, u)}
      BY <1>4 DEF IntervalChecks, HookChecks
    <2>2. \A by : Timer(by, u).u \in Upload
      BY DEF Timer
    <2>3. QED
      BY <1>1, <1>2, <2>1, <2>2 DEF UploadInv, UploadTypes, AttachedGone, AttachedOnce
  <1>5. ASSUME NEW t \in timers, Clicks(t) PROVE UploadInv'
    <2> DEFINE e == [kind |-> "consume", u |-> t.u, row |-> t.row]
    <2>1. timers' = timers \ {t}
      BY <1>5 DEF Clicks
    <2>2. CASE tries' = tries
      BY <1>1, <1>2, <2>1, <2>2 DEF UploadInv, UploadTypes, AttachedGone, AttachedOnce
    <2>3. CASE tries' # tries
      <3>1. tries' = Append(tries, e) /\ t.row \in Row
        BY <1>5, <2>3 DEF Clicks, Blocks
      <3>2. e \in Press
        BY <1>1, <3>1 DEF UploadTypes, Press
      <3>3. QED
        BY <1>1, <1>2, <2>1, <3>1, <3>2, TriesAppend
        DEF UploadInv, UploadTypes, AttachedGone, AttachedOnce
    <2>4. QED
      BY <2>2, <2>3
  <1>6. ASSUME NEW u \in Upload, CancelUpload(u) PROVE UploadInv'
    <2> DEFINE e == [kind |-> "cancel", u |-> u, row |-> Nobody]
    <2>1. tries' = Append(tries, e) /\ timers' = timers
      BY <1>6 DEF CancelUpload
    <2>2. e \in Press /\ e.kind # "consume"
      BY DEF Press
    <2>3. QED
      BY <1>1, <1>2, <2>1, <2>2, TriesAppend
      DEF UploadInv, UploadTypes, AttachedGone, AttachedOnce
  <1>7. QED
    BY <1>3, <1>4, <1>5, <1>6

-----------------------------------------------------------------------------
\* However many pollers press for a file, on whichever rows, and whatever is
\* cancelled or lost in between: it is the receipt of at most one row.
THEOREM ReceiptsAttachedOnce == UploadSpec => []AttachedOnce
  <1>1. UploadInit => UploadInv
    BY DEF UploadInit, UploadInv, UploadTypes, AttachedGone, AttachedOnce, States
  <1>2. UploadInv /\ [UploadNext]_uploadVars => UploadInv'
    <2> SUFFICES ASSUME UploadInv, [UploadNext]_uploadVars PROVE UploadInv'
      OBVIOUS
    <2>1. CASE HandleConsume
      BY <2>1, ConsumeKeeps
    <2>2. CASE \/ HandleCancel \/ CancelTooLate
               \/ \E u \in Upload : ChooseFile(u) \/ UploadEnds(u)
      BY <2>2, EntriesKeep
    <2>3. CASE \/ DrawUploads
               \/ \E u \in Upload : IntervalChecks(u) \/ CancelUpload(u)
               \/ \E i \in Row, u \in Upload : HookChecks(i, u)
               \/ \E t \in timers : Clicks(t)
      BY <2>3, PageKeepsReceipts
    <2>4. CASE UNCHANGED uploadVars
      BY <2>4 DEF uploadVars, UploadInv, UploadTypes, AttachedGone, AttachedOnce
    <2>5. QED
      BY <2>1, <2>2, <2>3, <2>4 DEF UploadNext, AttachEvent, Intervals, Presses
  <1>3. UploadInv => AttachedOnce
    BY DEF UploadInv
  <1>4. QED
    BY <1>1, <1>2, <1>3, PTL DEF UploadSpec

-----------------------------------------------------------------------------
(* Search results: what Enter takes is what looks selected.  The index     *)
(* outlives the list it was made for, so the invariant has to say that     *)
(* the classes in the DOM follow it, and that Autocomplete has counted the *)
(* items that are shown.                                                   *)

ListEvent ==
  [kind : {"search"}, arg : Seq(STRING)] \cup [kind : {"select", "clear", "escape"}, arg : STRING \cup {NoItem}]

ListTypes ==
  /\ results \in Seq(STRING) /\ shown \in Seq(STRING)
  /\ selectedIndex \in Nat
  /\ asked \in Seq(ListEvent)

\* An index that is set points at an item, and that item is lit; without one
\* AdminSearch lights nothing (Autocomplete leaves what it picked lit).
LitFollows ==
  /\ selectedIndex # 0 => selectedIndex \in DOMAIN shown /\ lit = selectedIndex
  /\ hook = "AdminSearch" /\ selectedIndex = 0 => lit = 0

\* updated compares the new number of items with that of the items it replaces.
Counted == hook = "Autocomplete" => lastResultCount = Len(shown)

ListInv == ListTypes /\ LitFollows /\ Counted

-----------------------------------------------------------------------------
\* What is left of the events when the first is taken.
LEMMA AskedTail ==
  ASSUME ListTypes, asked # <<>>
  PROVE  Head(asked) \in ListEvent /\ Tail(asked) \in Seq(ListEvent)
  <1>1. asked \in Seq(ListEvent)
    BY DEF ListTypes
  <1>2. QED
    BY <1>1

\* An event more.
LEMMA AskedAppend ==
  ASSUME ListTypes, NEW e \in ListEvent
  PROVE  Append(asked, e) \in Seq(ListEvent)
  <1>1. asked \in Seq(ListEvent)
    BY DEF ListTypes
  <1>2. QED
    BY <1>1

\* The items of a list are strings.
LEMMA ItemIsString ==
  ASSUME ListTypes, NEW i \in DOMAIN shown
  PROVE  shown[i] \in STRING
  BY DEF ListTypes

\* The template renders what was found, or nothing.
LEMMA RenderedIsList ==
  ASSUME ListTypes
  PROVE  Rendered \in Seq(STRING)
  <1>1. Rendered \in {results, <<>>}
    BY DEF Rendered
  <1>2. results \in Seq(STRING) /\ <<>> \in Seq(STRING)
    BY DEF ListTypes
  <1>3. QED
    BY <1>1, <1>2

-----------------------------------------------------------------------------
\* The LiveView's handlers change neither the list on the page nor the hook.
LEMMA ListHandlersKeep ==
  ASSUME ListInv, HandleSearch \/ HandleSelect \/ HandleClear
  PROVE  ListInv'
  <1>1. asked # <<>> /\ asked' = Tail(asked)
    BY DEF HandleSearch, HandleSelect, HandleClear
  <1>2. Head(asked) \in ListEvent /\ asked' \in Seq(ListEvent)
    BY <1>1, AskedTail DEF ListInv
  <1>3. results' \in Seq(STRING)
    <2>1. CASE HandleSearch
      <3>1. Head(asked).kind = "search" /\ results' = Head(asked).arg
        BY <2>1 DEF HandleSearch
      <3>2. QED
        BY <1>2, <3>1 DEF ListEvent
    <2>2. CASE HandleSelect \/ HandleClear
      <3>1. results' = <<>>
        BY <2>2 DEF HandleSelect, HandleClear
      <3>2. QED
        BY <3>1
    <2>3. QED
      BY <2>1, <2>2
  <1>4. UNCHANGED <<hook, shown, selectedIndex, lastResultCount, lit>>
    BY DEF HandleSearch, HandleSelect, HandleClear, hookVars
  <1>5. QED
    BY <1>2, <1>3, <1>4 DEF ListInv, ListTypes, LitFollows, Counted

\* The crash that follows Escape leaves them alone, too.
LEMMA EscapeCrashKeeps ==
  ASSUME ListInv, HandleEscape
  PROVE  ListInv'
  <1>1. asked' \in Seq(ListEvent) /\ results' \in Seq(STRING)
    BY DEF HandleEscape
  <1>2. UNCHANGED <<hook, shown, selectedIndex, lastResultCount, lit>>
    BY DEF HandleEscape, hookVars
  <1>3. QED
    BY <1>1, <1>2 DEF ListInv, ListTypes, LitFollows, Counted

\* A diff replaces the items; Autocomplete keeps its index only if there are
\* as many as before, so that it still points at one.
LEMMA DrawKeeps ==
  ASSUME ListInv, DrawResults
  PROVE  ListInv'
  <1>1. shown' = Rendered /\ shown' \in Seq(STRING)
    BY RenderedIsList DEF DrawResults, ListInv
  <1>2. UNCHANGED <<hook, results, asked>> /\ hook # "gone"
    BY DEF DrawResults
  <1>3. selectedIndex' \in Nat /\ LitFollows' /\ Counted'
    <2>1. CASE hook = "Autocomplete"
      <3>1. Updated(Len(shown'))
        BY <1>1, <2>1 DEF DrawResults
      <3>2. selectedIndex' \in {0, selectedIndex} /\ lastResultCount' = Len(shown')
        BY <3>1 DEF Updated
      <3>3. selectedIndex' # 0 => Len(shown') = Len(shown) /\ selectedIndex' \in DOMAIN shown
        BY <2>1, <3>1 DEF Updated, ListInv, Counted, LitFollows
      <3>4. selectedIndex' # 0 => selectedIndex' \in DOMAIN shown'
        BY <1>1, <3>3 DEF ListInv, ListTypes
      <3>5. selectedIndex' # 0 => lit' = selectedIndex'
        BY <1>1, <3>1, <3>4 DEF Updated, Lights
      <3>6. QED
        BY <1>2, <2>1, <3>2, <3>4, <3>5 DEF ListInv, ListTypes, LitFollows, Counted
    <2>2. CASE hook # "Autocomplete"
      BY <1>2, <2>2 DEF DrawResults, UpdatedAdmin, LitFollows, Counted
    <2>3. QED
      BY <2>1, <2>2
  <1>4. QED
    BY <1>1, <1>2, <1>3 DEF ListInv, ListTypes

\* The arrows stay within the list, and light where they are.
LEMMA ArrowsKeep ==
  ASSUME ListInv, ArrowDown \/ ArrowUp
  PROVE  ListInv'
  <1>1. UNCHANGED <<hook, results, asked, shown, lastResultCount>>
    BY DEF ArrowDown, ArrowUp
  <1>2. shown \in Seq(STRING) /\ shown # <<>> /\ selectedIndex \in Nat
    BY DEF ArrowDown, ArrowUp, Keys, ListInv, ListTypes
  <1>3. selectedIndex' \in Nat /\ (selectedIndex' # 0 => selectedIndex' \in DOMAIN shown)
    <2>1. CASE ArrowDown
      BY <1>2, <2>1 DEF ArrowDown, Min2
    <2>2. CASE ArrowUp
      <3>1. selectedIndex # 0 => selectedIndex \in DOMAIN shown
        BY DEF ListInv, LitFollows
      <3>2. QED
        BY <1>2, <2>2, <3>1 DEF ArrowUp
    <2>3. QED
      BY <2>1, <2>2
  <1>4. lit' = Lights(selectedIndex', shown)
    BY DEF ArrowDown, ArrowUp
  <1>5. LitFollows'
    <2>1. 0 \notin DOMAIN shown
      BY <1>2
    <2>2. QED
      BY <1>1, <1>3, <1>4, <2>1 DEF Lights, LitFollows
  <1>6. QED
    BY <1>1, <1>3, <1>5 DEF ListInv, ListTypes, Counted

\* Enter gives the index up.
LEMMA PickKeeps ==
  ASSUME ListInv, Pick
  PROVE  ListInv'
  <1>1. /\ selectedIndex \in DOMAIN shown
        /\ asked' = Append(asked, [kind |-> "select", arg |-> shown[selectedIndex]])
    BY DEF Pick
  <1>2. shown[selectedIndex] \in STRING
    BY <1>1, ItemIsString DEF ListInv
  <1>3. asked' \in Seq(ListEvent)
    <2>1. [kind |-> "select", arg |-> shown[selectedIndex]] \in ListEvent
      BY <1>2 DEF ListEvent
    <2>2. QED
      BY <1>1, <2>1, AskedAppend DEF ListInv
  <1>4. /\ selectedIndex' = 0 /\ hook = "Autocomplete"
        /\ UNCHANGED <<hook, results, shown, lastResultCount, lit>>
    BY DEF Pick
  <1>5. QED
    BY <1>3, <1>4 DEF ListInv, ListTypes, LitFollows, Counted

\* AdminSearch leaves the page.
LEMMA OpenKeeps ==
  ASSUME ListInv, Open
  PROVE  ListInv'
  BY DEF Open, hookVars, ListInv, ListTypes, LitFollows, Counted

\* Escape and the clear button.
LEMMA ClearingKeeps ==
  ASSUME ListInv, ClearSelection \/ Escape \/ AskClear
  PROVE  ListInv'
  <1>1. CASE ClearSelection
    BY <1>1 DEF ClearSelection, ListInv, ListTypes, LitFollows, Counted
  <1>2. CASE AskClear
    <2>1. [kind |-> "clear", arg |-> NoItem] \in ListEvent
      BY DEF ListEvent
    <2>2. asked' \in Seq(ListEvent)
      BY <1>2, <2>1, AskedAppend DEF AskClear, ListInv
    <2>3. QED
      BY <1>2, <2>2 DEF AskClear, hookVars, ListInv, ListTypes, LitFollows, Counted
  <1>3. CASE Escape
    <2>1. [kind |-> "escape", arg |-> NoItem] \in ListEvent
      BY DEF ListEvent
    <2>2. asked' \in Seq(ListEvent)
      BY <1>3, <2>1, AskedAppend DEF Escape, ListInv
    <2>3. QED
      BY <1>3, <2>2 DEF Escape, hookVars, ListInv, ListTypes, LitFollows, Counted
  <1>4. QED
    BY <1>1, <1>2, <1>3

\* A query is on its way, with what it will find.
LEMMA TypeQueryKeeps ==
  ASSUME ListInv, NEW found \in Found, TypeQuery(found)
  PROVE  ListInv'
  <1>1. [kind |-> "search", arg |-> found] \in ListEvent
    BY FoundAssumption DEF ListEvent
  <1>2. asked' \in Seq(ListEvent)
    BY <1>1, AskedAppend DEF TypeQuery, ListInv
  <1>3. QED
    BY <1>2 DEF TypeQuery, hookVars, ListInv, ListTypes, LitFollows, Counted

LEMMA ListInvInit == ResultInit => ListInv
  BY DEF ResultInit, ListInv, ListTypes, LitFollows, Counted

LEMMA ListInvNext == ListInv /\ [ResultNext]_resultVars => ListInv'
  <1> SUFFICES ASSUME ListInv, [ResultNext]_resultVars PROVE ListInv'
    OBVIOUS
  <1>1. CASE UNCHANGED resultVars
    BY <1>1 DEF resultVars, hookVars, ListInv, ListTypes, LitFollows, Counted
  <1>2. CASE ResultNext
    BY <1>2, ListHandlersKeep, EscapeCrashKeeps, DrawKeeps, ArrowsKeep, PickKeeps, OpenKeeps, ClearingKeeps,
       TypeQueryKeeps DEF ResultNext
  <1>3. QED
    BY <1>1, <1>2

\* One step: what is taken is the lit item, or the first of AdminSearch.
LEMMA TakesTheLit ==
  ASSUME ListInv, [ResultNext]_resultVars, taken' # taken
  PROVE  taken' = IF lit # 0 THEN shown[lit]
                  ELSE IF hook = "AdminSearch" THEN shown[1] ELSE NoItem
  <1>1. CASE Pick
    <2>1. selectedIndex \in DOMAIN shown /\ taken' = shown[selectedIndex]
      BY <1>1 DEF Pick
    <2>2. selectedIndex # 0
      BY <2>1 DEF ListInv, ListTypes
    <2>3. QED
      BY <2>1, <2>2 DEF ListInv, LitFollows
  <1>2. CASE Open
    <2>1. hook = "AdminSearch" /\ taken' = shown[IF selectedIndex > 0 THEN selectedIndex ELSE 1]
      BY <1>2 DEF Open
    <2>2. selectedIndex > 0 <=> selectedIndex # 0
      BY DEF ListInv, ListTypes
    <2>3. QED
      BY <2>1, <2>2 DEF ListInv, LitFollows
  <1>3. CASE ~Pick /\ ~Open
    <2>1. UNCHANGED taken
      BY <1>3 DEF ResultNext, resultVars, HandleSearch, HandleSelect, HandleClear, HandleEscape,
         DrawResults, ArrowDown, ArrowUp, ClearSelection, Escape, AskClear, TypeQuery
    <2>2. QED
      BY <2>1
  <1>4. QED
    BY <1>1, <1>2, <1>3

\* The inductive invariant of the search lists: index, classes and count fit
\* the items that are shown, whatever diffs replace them.
THEOREM ListInvHolds == ResultSpec => []ListInv
  BY ListInvInit, ListInvNext, PTL DEF ResultSpec

\* Enter takes the item that looks selected, for any results of any number of
\* searches and any order of keys, diffs and answers.
THEOREM LitIsAlwaysTaken == ResultSpec => LitIsTaken
  <1>1. ListInv /\ [ResultNext]_resultVars =>
          [taken' # taken =>
             taken' = IF lit # 0 THEN shown[lit]
                      ELSE IF hook = "AdminSearch" THEN shown[1] ELSE NoItem]_resultVars
    BY TakesTheLit
  <1>2. QED
    BY <1>1, ListInvHolds, PTL DEF ResultSpec, LitIsTaken

-----------------------------------------------------------------------------
(* Side panel: once nothing is on its way, the panel has the width the     *)
(* LiveView believes it to have.  The agreement is not inductive.  While   *)
(* messages are under way, either the last diff still brings the           *)
(* LiveView's width, or the mouse holds the panel, or the newest saved     *)
(* width is the one on the page.                                           *)

PanelEvent == [kind : {"pick", "resize"}, x : Nat]
PanelDiff  == [shows : Nat, width : Nat]

PanelTypes ==
  /\ notice \in Nat /\ panelWidth \in Nat /\ style \in Nat /\ loose \in Nat
  /\ panelAsks \in Seq(PanelEvent) /\ panelDiffs \in Seq(PanelDiff)
  /\ grip \in {"none", "panel", "lost"}

\* The last diff shows what the LiveView has.
LastIsNews ==
  panelDiffs # <<>> =>
    panelDiffs[Len(panelDiffs)] = [shows |-> notice, width |-> panelWidth]

\* The newest width in the queue q is w.
Saved(q, w) ==
  \E k \in DOMAIN q :
    /\ q[k].kind = "resize" /\ q[k].x = w
    /\ \A j \in DOMAIN q : j > k => q[j].kind # "resize"

Settles ==
  panelDiffs = <<>> =>
    \/ style = panelWidth
    \/ grip = "panel"
    \/ grip = "none" /\ Saved(panelAsks, style)

PanelInv == PanelTypes /\ LastIsNews /\ Settles

-----------------------------------------------------------------------------
\* What is left of a queue when its first message is taken.
LEMMA PanelQueueTail ==
  ASSUME NEW S, NEW q \in Seq(S), q # <<>>
  PROVE  /\ Head(q) \in S /\ Head(q) = q[1] /\ Tail(q) \in Seq(S)
         /\ DOMAIN q = 1..Len(q) /\ Len(q) \in Nat \ {0}
         /\ Len(Tail(q)) = Len(q) - 1 /\ DOMAIN Tail(q) = 1..(Len(q) - 1)
         /\ \A i \in DOMAIN Tail(q) : Tail(q)[i] = q[i + 1]
         /\ Tail(q) = <<>> => Len(q) = 1
  <1>1. Len(q) \in Nat \ {0} /\ Tail(q) \in Seq(S) /\ Len(Tail(q)) = Len(q) - 1
    OBVIOUS
  <1>2. Tail(q) = <<>> => Len(q) = 1
    <2>1. Len(<<>>) = 0
      OBVIOUS
    <2>2. Tail(q) = <<>> => Len(Tail(q)) = 0
      BY <2>1, Zenon
    <2>3. QED
      BY <1>1, <2>2
  <1>3. /\ Head(q) \in S /\ Head(q) = q[1]
        /\ DOMAIN q = 1..Len(q) /\ DOMAIN Tail(q) = 1..(Len(q) - 1)
        /\ \A i \in DOMAIN Tail(q) : Tail(q)[i] = q[i + 1]
    OBVIOUS
  <1>4. QED
    BY <1>1, <1>2, <1>3

\* A queue with a message more.
LEMMA PanelQueueAppend ==
  ASSUME NEW S, NEW q \in Seq(S), NEW m \in S
  PROVE  /\ Append(q, m) \in Seq(S) /\ Append(q, m) # <<>>
         /\ DOMAIN q = 1..Len(q) /\ Len(q) \in Nat
         /\ Len(Append(q, m)) = Len(q) + 1
         /\ DOMAIN Append(q, m) = 1..(Len(q) + 1)
         /\ Append(q, m)[Len(q) + 1] = m
         /\ \A i \in DOMAIN q : Append(q, m)[i] = q[i]
  OBVIOUS

\* Taking a message other than the newest width leaves it the newest.
LEMMA SavedTail ==
  ASSUME NEW q \in Seq(PanelEvent), q # <<>>, NEW w, Saved(q, w)
  PROVE  Saved(Tail(q), w) \/ (Head(q).kind = "resize" /\ Head(q).x = w)
  <1>1. PICK k \in DOMAIN q : /\ q[k].kind = "resize" /\ q[k].x = w
                              /\ \A j \in DOMAIN q : j > k => q[j].kind # "resize"
    BY DEF Saved
  <1>2. CASE k = 1
    BY <1>1, <1>2, PanelQueueTail
  <1>3. CASE k # 1
    <2>1. k - 1 \in DOMAIN Tail(q) /\ Tail(q)[k - 1] = q[k]
      <3>1. k - 1 \in DOMAIN Tail(q) /\ Tail(q)[k - 1] = q[(k - 1) + 1] /\ (k - 1) + 1 = k
        BY <1>3, PanelQueueTail
      <3>2. QED
        BY <3>1
    <2>2. ASSUME NEW j \in DOMAIN Tail(q), j > k - 1 PROVE Tail(q)[j].kind # "resize"
      <3>1. j + 1 \in DOMAIN q /\ j + 1 > k /\ Tail(q)[j] = q[j + 1]
        BY <2>2, PanelQueueTail
      <3>2. QED
        BY <1>1, <3>1
    <2>3. QED
      BY <1>1, <2>1, <2>2 DEF Saved
  <1>4. QED
    BY <1>2, <1>3

\* The newest width after another message.
LEMMA SavedAppend ==
  ASSUME NEW q \in Seq(PanelEvent), NEW m \in PanelEvent, NEW w
  PROVE  /\ m.kind # "resize" /\ Saved(q, w) => Saved(Append(q, m), w)
         /\ m.kind = "resize" /\ m.x = w => Saved(Append(q, m), w)
  <1>1. ASSUME m.kind # "resize", Saved(q, w) PROVE Saved(Append(q, m), w)
    <2>1. PICK k \in DOMAIN q : /\ q[k].kind = "resize" /\ q[k].x = w
                                /\ \A j \in DOMAIN q : j > k => q[j].kind # "resize"
      BY <1>1 DEF Saved
    <2>2. k \in DOMAIN Append(q, m) /\ Append(q, m)[k] = q[k]
      BY PanelQueueAppend
    <2>3. ASSUME NEW j \in DOMAIN Append(q, m), j > k PROVE Append(q, m)[j].kind # "resize"
      <3>1. j \in DOMAIN q \/ j = Len(q) + 1
        BY PanelQueueAppend
      <3>2. QED
        BY <1>1, <2>1, <2>3, <3>1, PanelQueueAppend
    <2>4. QED
      BY <2>1, <2>2, <2>3 DEF Saved
  <1>2. ASSUME m.kind = "resize", m.x = w PROVE Saved(Append(q, m), w)
    <2>1. Len(q) + 1 \in DOMAIN Append(q, m) /\ Append(q, m)[Len(q) + 1] = m
      BY PanelQueueAppend
    <2>2. \A j \in DOMAIN Append(q, m) : ~(j > Len(q) + 1)
      BY PanelQueueAppend
    <2>3. QED
      BY <1>2, <2>1, <2>2 DEF Saved
  <1>3. QED
    BY <1>1, <1>2

-----------------------------------------------------------------------------
\* After a handler's assignments either a new diff says all, or nothing new
\* was assigned.
LEMMA AnswersNews ==
  ASSUME PanelInv, notice' \in Nat, panelWidth' \in Nat, Answers \/ Renders
  PROVE  /\ panelDiffs' \in Seq(PanelDiff)
         /\ LastIsNews'
         /\ panelDiffs' = <<>> =>
              panelDiffs = <<>> /\ notice' = notice /\ panelWidth' = panelWidth
  <1> DEFINE d == [shows |-> notice', width |-> panelWidth']
  <1>1. d \in PanelDiff /\ panelDiffs \in Seq(PanelDiff)
    BY DEF PanelDiff, PanelInv, PanelTypes
  <1>2. CASE notice' = notice /\ panelWidth' = panelWidth /\ UNCHANGED panelDiffs
    BY <1>1, <1>2 DEF PanelInv, LastIsNews
  <1>3. CASE Renders
    <2>1. panelDiffs' = Append(panelDiffs, d)
      BY <1>3 DEF Renders
    <2>2. QED
      BY <1>1, <2>1, PanelQueueAppend DEF LastIsNews
  <1>4. QED
    BY <1>2, <1>3 DEF Answers

LEMMA PanelHandlersKeep ==
  ASSUME PanelInv, HandlePick \/ HandleResize
  PROVE  PanelInv'
  <1>0. PanelTypes /\ panelAsks \in Seq(PanelEvent) /\ panelAsks # <<>>
    BY DEF PanelInv, PanelTypes, HandlePick, HandleResize
  <1>1. Head(panelAsks) \in PanelEvent /\ Tail(panelAsks) \in Seq(PanelEvent)
    BY <1>0, PanelQueueTail
  <1>2. /\ notice' \in Nat /\ panelWidth' \in Nat /\ (Answers \/ Renders)
        /\ panelAsks' = Tail(panelAsks) /\ UNCHANGED <<style, grip, loose>>
        /\ Head(panelAsks).kind = "resize" => panelWidth' = Head(panelAsks).x
    BY <1>0, <1>1 DEF HandlePick, HandleResize, PanelEvent, PanelTypes
  <1>3. /\ panelDiffs' \in Seq(PanelDiff) /\ LastIsNews'
        /\ panelDiffs' = <<>> => panelDiffs = <<>> /\ panelWidth' = panelWidth
    BY <1>2, AnswersNews
  <1>4. PanelTypes'
    BY <1>0, <1>1, <1>2, <1>3 DEF PanelTypes
  <1>5. Settles'
    <2>1. SUFFICES ASSUME panelDiffs' = <<>>, style # panelWidth, grip # "panel"
                   PROVE  grip = "none" /\ Saved(Tail(panelAsks), style)
      BY <1>2, <1>3 DEF Settles
    <2>2. grip = "none" /\ Saved(panelAsks, style)
      BY <1>3, <2>1 DEF PanelInv, Settles
    <2>3. Saved(Tail(panelAsks), style) \/ (Head(panelAsks).kind = "resize" /\ Head(panelAsks).x = style)
      BY <1>0, <2>2, SavedTail
    <2>4. QED
      BY <1>2, <1>3, <2>1, <2>2, <2>3
  <1>6. QED
    BY <1>3, <1>4, <1>5 DEF PanelInv

LEMMA SendKeeps ==
  ASSUME PanelInv, Drop \/ \E n \in Notice \cup {Closed} : PickNotice(n)
  PROVE  PanelInv'
  <1>0. PanelTypes /\ panelAsks \in Seq(PanelEvent)
    BY DEF PanelInv, PanelTypes
  <1>1. CASE Drop
    <2> DEFINE m == PanelAsk("resize", IF grip = "lost" THEN loose ELSE style)
    <2>1. m \in PanelEvent /\ m.kind = "resize" /\ m.x = IF grip = "lost" THEN loose ELSE style
      BY <1>0 DEF PanelAsk, PanelEvent, PanelTypes
    <2>2. /\ panelAsks' = Append(panelAsks, m) /\ grip' = "none"
          /\ UNCHANGED <<notice, panelWidth, panelDiffs, style, loose>>
      BY <1>1 DEF Drop
    <2>3. PanelTypes' /\ LastIsNews'
      BY <1>0, <2>1, <2>2, PanelQueueAppend DEF PanelInv, PanelTypes, LastIsNews
    <2>4. Settles'
      <3>1. CASE grip = "panel"
        BY <1>0, <2>1, <2>2, <3>1, SavedAppend DEF Settles
      <3>2. CASE grip = "lost"
        BY <2>2, <3>2 DEF PanelInv, Settles
      <3>3. QED
        BY <1>0, <1>1, <3>1, <3>2 DEF Drop, PanelTypes
    <2>5. QED
      BY <2>3, <2>4 DEF PanelInv
  <1>2. ASSUME NEW n \in Notice \cup {Closed}, PickNotice(n) PROVE PanelInv'
    <2> DEFINE m == PanelAsk("pick", n)
    <2>1. m \in PanelEvent /\ m.kind # "resize"
      BY WidthAssumption DEF PanelAsk, PanelEvent, Closed
    <2>2. /\ panelAsks' = Append(panelAsks, m)
          /\ UNCHANGED <<notice, panelWidth, panelDiffs, style, loose, grip>>
      BY <1>2 DEF PickNotice
    <2>3. PanelTypes' /\ LastIsNews'
      BY <1>0, <2>1, <2>2, PanelQueueAppend DEF PanelInv, PanelTypes, LastIsNews
    <2>4. Saved(panelAsks, style) => Saved(panelAsks', style)
      BY <1>0, <2>1, <2>2, SavedAppend
    <2>5. Settles'
      BY <2>2, <2>4 DEF PanelInv, Settles
    <2>6. QED
      BY <2>3, <2>5 DEF PanelInv
  <1>3. QED
    BY <1>1, <1>2

LEMMA PageKeepsPanel ==
  ASSUME PanelInv, ShowPanel \/ Grip \/ RejoinPanel \/ \E w \in Width : Drag(w)
  PROVE  PanelInv'
  <1>0. PanelTypes /\ panelDiffs \in Seq(PanelDiff)
    BY DEF PanelInv, PanelTypes
  <1>1. CASE ShowPanel
    <2>1. /\ panelDiffs # <<>> /\ panelDiffs' = Tail(panelDiffs)
          /\ style' = Head(panelDiffs).width
          /\ UNCHANGED <<notice, panelWidth, panelAsks>>
          /\ \/ grip' = "lost" /\ loose' = style
             \/ UNCHANGED <<grip, loose>>
      BY <1>1 DEF ShowPanel
    <2>2. PanelTypes'
      <3>1. Head(panelDiffs) \in PanelDiff /\ Tail(panelDiffs) \in Seq(PanelDiff)
        BY <1>0, <2>1, PanelQueueTail
      <3>2. Head(panelDiffs).width \in Nat
        BY <3>1 DEF PanelDiff
      <3>3. QED
        BY <1>0, <2>1, <3>1, <3>2 DEF PanelTypes
    <2>3. LastIsNews'
      <3>1. ASSUME Tail(panelDiffs) # <<>>
            PROVE  Tail(panelDiffs)[Len(Tail(panelDiffs))] = panelDiffs[Len(panelDiffs)]
        <4>1. Len(Tail(panelDiffs)) \in DOMAIN Tail(panelDiffs)
          BY <1>0, <2>1, <3>1, PanelQueueTail
        <4>2. QED
          BY <1>0, <2>1, <4>1, PanelQueueTail
      <3>2. QED
        BY <2>1, <3>1 DEF PanelInv, LastIsNews
    <2>4. panelDiffs' = <<>> => style' = panelWidth
      BY <1>0, <2>1, PanelQueueTail DEF PanelInv, LastIsNews
    <2>5. QED
      BY <2>1, <2>2, <2>3, <2>4 DEF PanelInv, Settles
  <1>2. CASE Grip
    BY <1>0, <1>2 DEF Grip, PanelInv, PanelTypes, LastIsNews, Settles
  <1>3. CASE RejoinPanel
    <2>1. /\ notice' = Closed /\ panelWidth' = Template /\ panelAsks' = <<>>
          /\ panelDiffs' = <<[shows |-> Closed, width |-> Template]>>
          /\ UNCHANGED <<style, grip, loose>>
      BY <1>3 DEF RejoinPanel
    <2>2. QED
      BY <1>0, <2>1 DEF PanelInv, PanelTypes, LastIsNews, Settles, PanelDiff, Closed, Template
  <1>4. ASSUME NEW w \in Width, Drag(w) PROVE PanelInv'
    BY <1>0, <1>4, WidthAssumption DEF Drag, PanelInv, PanelTypes, LastIsNews, Settles
  <1>5. QED
    BY <1>1, <1>2, <1>3, <1>4

-----------------------------------------------------------------------------
\* The invariant, of every panel.
THEOREM PanelInvHolds == PanelSpec => []PanelInv
  <1>1. PanelInit => PanelInv
    BY DEF PanelInit, PanelInv, PanelTypes, LastIsNews, Settles, Closed, Template
  <1>2. PanelInv /\ [PanelNext]_panelVars => PanelInv'
    <2> SUFFICES ASSUME PanelInv, [PanelNext]_panelVars PROVE PanelInv'
      OBVIOUS
    <2>1. CASE UNCHANGED panelVars
      BY <2>1 DEF panelVars, PanelInv, PanelTypes, LastIsNews, Settles, Saved
    <2>2. QED
      BY <2>1, PanelHandlersKeep, SendKeeps, PageKeepsPanel DEF PanelNext
  <1>3. QED
    BY <1>1, <1>2, PTL DEF PanelSpec

\* Whatever is dragged, picked or closed while diffs are on their way: the
\* page and the LiveView end with the same width.
THEOREM PanelAlwaysAgrees == PanelSpec => []PanelAgrees
  <1>1. PanelInv => PanelAgrees
    BY DEF PanelInv, Settles, Saved, PanelAgrees, PanelTypes
  <1>2. QED
    BY <1>1, PanelInvHolds, PTL

-----------------------------------------------------------------------------
(* The phone number field.  A number that changed is announced by a        *)
(* message that is still on its way, in a diff or as a change of the form; *)
(* of all that are, the last one carries the component's number.           *)

Numeral == [of : Country \cup {0}, digits : Text]

\* A number has its country.
Normal == {v \in Numeral : v.of # 0 \/ v.digits \notin {"a", "b"}}

PhoneKinds == {"typing", "blur", "validate", "toggle", "close", "select"}

PhoneEvent ==
  {e \in [kind : PhoneKinds, v : Numeral] :
     /\ e.kind = "validate" => e.v \in Normal
     /\ e.kind = "select" => e.v.of \in Country}

PhoneDiff == [value : Text, formatted : Normal, opened : BOOLEAN, country : Country,
              kind : PhoneKinds \cup {"mount"}, changes : Nat]

PhoneTypes ==
  /\ country \in Country /\ marked \in Country \cup {0}
  /\ value \in Text /\ text \in Text /\ formatted \in Normal /\ hidden \in Normal
  /\ opened \in BOOLEAN
  /\ typings \in Seq(PhoneEvent) /\ patches \in Seq(PhoneDiff)

\* The last of q that is among M, if there is one, is among G.
LastAmong(q, M, G) ==
  \A i \in DOMAIN q :
    q[i] \in M /\ (\A j \in DOMAIN q : j > i => q[j] \notin M) => q[i] \in G

NoneAmong(q, M) == \A i \in DOMAIN q : q[i] \notin M

\* The messages that announce a number, and those that carry the number n.
Announcing == {d \in PhoneDiff : d.changes > 0}
Changes    == {e \in PhoneEvent : e.kind = "validate"}
Showing(n) == {d \in PhoneDiff : d.formatted = n}
Saying(n)  == {e \in PhoneEvent : e.v = n}

LastPatchShows ==
  /\ LastAmong(patches, PhoneDiff, Showing(formatted))
  /\ patches = <<>> => hidden = formatted

Told ==
  /\ LastAmong(patches, Announcing, Showing(formatted))
  /\ NoneAmong(patches, Announcing) =>
       /\ LastAmong(typings, Changes, Saying(formatted))
       /\ NoneAmong(typings, Changes) => form = formatted

PhoneInv == PhoneTypes /\ LastPatchShows /\ Told

\* A country that is marked.
LEMMA CountryIsNat == Country \subseteq Nat \ {0} /\ 1 \in Country
  <1>1. Names \in Seq(Seq(STRING)) /\ Names # <<>>
    BY NamesAssumption
  <1> HIDE NamesAssumption
  <1>2. QED
    BY <1>1 DEF Country

LEMMA LastTail ==
  ASSUME NEW S, NEW q \in Seq(S), q # <<>>, NEW M, NEW G, LastAmong(q, M, G)
  PROVE  /\ LastAmong(Tail(q), M, G)
         /\ NoneAmong(Tail(q), M) => Head(q) \notin M \/ Head(q) \in G
         /\ NoneAmong(Tail(q), M) /\ Head(q) \notin M => NoneAmong(q, M)
  <1>1. /\ \A i \in DOMAIN Tail(q) : i + 1 \in DOMAIN q /\ Tail(q)[i] = q[i + 1] /\ i \in Nat
        /\ \A i \in DOMAIN q : i \in Nat /\ (i = 1 \/ (i - 1 \in DOMAIN Tail(q) /\ q[i] = Tail(q)[i - 1]))
        /\ Head(q) = q[1] /\ 1 \in DOMAIN q
    OBVIOUS
  <1> DEFINE t == Tail(q)
  <1> HIDE DEF t
  <1>2. LastAmong(t, M, G)
    <2> SUFFICES ASSUME NEW i \in DOMAIN t, t[i] \in M,
                        \A j \in DOMAIN t : j > i => t[j] \notin M
                 PROVE  t[i] \in G
      BY DEF LastAmong
    <2>1. i + 1 \in DOMAIN q /\ t[i] = q[i + 1] /\ i \in Nat
      BY <1>1 DEF t
    <2>2. ASSUME NEW j \in DOMAIN q, j > i + 1 PROVE q[j] \notin M
      <3>1. j \in Nat /\ j - 1 \in DOMAIN t /\ q[j] = t[j - 1]
        BY <1>1, <2>1, <2>2 DEF t
      <3>2. j - 1 > i
        BY <2>1, <2>2, <3>1
      <3>3. QED
        BY <3>1, <3>2
    <2>3. QED
      BY <2>1, <2>2 DEF LastAmong
  <1>3. ASSUME NoneAmong(t, M), q[1] \in M PROVE q[1] \in G
    <2>1. ASSUME NEW j \in DOMAIN q, j > 1 PROVE q[j] \notin M
      <3>1. j - 1 \in DOMAIN t /\ q[j] = t[j - 1]
        BY <1>1, <2>1 DEF t
      <3>2. QED
        BY <3>1, <1>3 DEF NoneAmong
    <2>2. QED
      BY <1>1, <1>3, <2>1 DEF LastAmong
  <1>4. ASSUME NoneAmong(t, M), q[1] \notin M PROVE NoneAmong(q, M)
    BY <1>1, <1>4 DEF NoneAmong, t
  <1>5. QED
    BY <1>1, <1>2, <1>3, <1>4 DEF t

LEMMA LastAppend ==
  ASSUME NEW S, NEW q \in Seq(S), NEW m \in S, NEW M, NEW G
  PROVE  /\ m \in M /\ m \in G => LastAmong(Append(q, m), M, G)
         /\ m \notin M /\ LastAmong(q, M, G) => LastAmong(Append(q, m), M, G)
         /\ NoneAmong(Append(q, m), M) => NoneAmong(q, M) /\ m \notin M
  <1> DEFINE a == Append(q, m)
             n == Len(q)
  <1>1. /\ n \in Nat /\ DOMAIN q = 1..n /\ DOMAIN a = 1..(n + 1)
        /\ a[n + 1] = m /\ \A i \in 1..n : a[i] = q[i]
    OBVIOUS
  <1> HIDE DEF a, n
  <1>2. \A i \in DOMAIN a : i \in Nat /\ (i = n + 1 \/ (i \in DOMAIN q /\ i < n + 1))
    BY <1>1
  <1>3. m \in M /\ m \in G => LastAmong(a, M, G)
    BY <1>1, <1>2 DEF LastAmong
  <1>4. ASSUME m \notin M, LastAmong(q, M, G) PROVE LastAmong(a, M, G)
    <2> SUFFICES ASSUME NEW i \in DOMAIN a, a[i] \in M,
                        \A j \in DOMAIN a : j > i => a[j] \notin M
                 PROVE  a[i] \in G
      BY DEF LastAmong
    <2>1. i \in DOMAIN q /\ a[i] = q[i]
      BY <1>1, <1>2, <1>4
    <2>2. \A j \in DOMAIN q : j \in DOMAIN a /\ a[j] = q[j]
      BY <1>1
    <2>3. QED
      BY <1>4, <2>1, <2>2 DEF LastAmong
  <1>5. NoneAmong(a, M) => NoneAmong(q, M) /\ m \notin M
    BY <1>1 DEF NoneAmong
  <1>6. QED
    BY <1>3, <1>4, <1>5 DEF a

\* Messages more that are none of M, or that are all of M and of G.
LEMMA LastConcat ==
  ASSUME NEW S, NEW q \in Seq(S), NEW r \in Seq(S), NEW M, NEW G
  PROVE  /\ NoneAmong(r, M) /\ LastAmong(q, M, G) => LastAmong(q \o r, M, G)
         /\ NoneAmong(q \o r, M) => NoneAmong(q, M) /\ NoneAmong(r, M)
         /\ r # <<>> /\ (\A i \in DOMAIN r : r[i] \in M /\ r[i] \in G) =>
              LastAmong(q \o r, M, G)
  <1> DEFINE a == q \o r
             n == Len(q)
             k == Len(r)
  <1>1. /\ n \in Nat /\ k \in Nat /\ DOMAIN q = 1..n /\ DOMAIN r = 1..k
        /\ DOMAIN a = 1..(n + k)
        /\ \A i \in 1..(n + k) : a[i] = IF i <= n THEN q[i] ELSE r[i - n]
        /\ r # <<>> => k > 0
    OBVIOUS
  <1> HIDE DEF a, n, k
  <1>2. /\ \A i \in DOMAIN a : \/ i \in DOMAIN q /\ a[i] = q[i]
                               \/ i - n \in DOMAIN r /\ a[i] = r[i - n]
        /\ \A i \in DOMAIN q : i \in DOMAIN a /\ a[i] = q[i]
        /\ \A i \in DOMAIN r : i + n \in DOMAIN a /\ a[i + n] = r[i]
    BY <1>1
  <1>3. ASSUME NoneAmong(r, M), LastAmong(q, M, G) PROVE LastAmong(a, M, G)
    BY <1>2, <1>3 DEF LastAmong, NoneAmong
  <1>4. NoneAmong(a, M) => NoneAmong(q, M) /\ NoneAmong(r, M)
    BY <1>2 DEF NoneAmong
  <1>5. ASSUME r # <<>>, \A i \in DOMAIN r : r[i] \in M /\ r[i] \in G
        PROVE  LastAmong(a, M, G)
    <2> SUFFICES ASSUME NEW i \in DOMAIN a, a[i] \in M,
                        \A j \in DOMAIN a : j > i => a[j] \notin M
                 PROVE  a[i] \in G
      BY DEF LastAmong
    <2>1. n + k \in DOMAIN a /\ a[n + k] = r[k] /\ k \in DOMAIN r
      BY <1>1, <1>5
    <2>2. i = n + k
      BY <1>1, <1>5, <2>1
    <2>3. QED
      BY <1>5, <2>1, <2>2
  <1>6. QED
    BY <1>3, <1>4, <1>5 DEF a

\* The first match is a country.
LEMMA FirstMatch ==
  ASSUME NEW T \in SUBSET Nat, T # {}
  PROVE  (CHOOSE i \in T : \A j \in T : i <= j) \in T
  <1>1. \E i \in T : \A j \in T : ~(<<j, i>> \in OpToRel(<, Nat))
    <2> DEFINE R == OpToRel(<, Nat)
    <2>1. IsWellFoundedOn(R, Nat)
      BY NatLessThanWellFounded
    <2> HIDE DEF R
    <2>2. \E i \in T : \A j \in T : ~(<<j, i>> \in R)
      BY <2>1, WFMin
    <2>3. QED
      BY <2>2 DEF R
  <1>a. \A i, j \in Nat : j < i => <<j, i>> \in OpToRel(<, Nat)
    BY DEF OpToRel
  <1>2. \E i \in T : \A j \in T : i <= j
    <2>1. PICK i \in T : \A j \in T : ~(<<j, i>> \in OpToRel(<, Nat))
      BY <1>1
    <2>2. \A j \in T : ~(j < i)
      BY <2>1, <1>a
    <2>3. \A j \in T : i <= j
      BY <2>2
    <2>4. QED
      BY <2>3
  <1>3. QED
    BY <1>2

\* What the component makes of a number.
LEMMA NumbersNormal ==
  ASSUME NEW v \in Numeral, NEW c \in Country
  PROVE  /\ Masked(v) \in Text /\ Normalized(v, c) \in Normal
         /\ v \in Normal => Normalized(v, c) = v
         /\ v \in Normal => v \in Numeral
  <1>1. c # 0 /\ v.of \in Country \cup {0} /\ v.digits \in Text
    BY CountryIsNat DEF Numeral
  <1>2. Masked(v) \in Text
    BY <1>1 DEF Masked, Text
  <1>3. [v EXCEPT !.of = c] \in Numeral /\ [v EXCEPT !.of = c].of = c
    BY DEF Numeral
  <1>4. QED
    BY <1>1, <1>2, <1>3 DEF Normalized, Normal

\* The messages the browser sends.
LEMMA PhoneEvents ==
  /\ \A t \in Text, k \in {"typing", "blur"} :
       Typing(k, Plain(t)) \in PhoneEvent /\ Typing(k, Plain(t)) \notin Changes
  /\ \A k \in {"toggle", "close"} :
       Typing(k, Nothing) \in PhoneEvent /\ Typing(k, Nothing) \notin Changes
  /\ \A c \in Country :
       /\ Typing("select", [Nothing EXCEPT !.of = c]) \in PhoneEvent
       /\ Typing("select", [Nothing EXCEPT !.of = c]) \notin Changes
  /\ \A v \in Normal :
       /\ Typing("validate", v) \in PhoneEvent
       /\ Typing("validate", v) \in Changes /\ Typing("validate", v) \in Saying(v)
  <1>1. \A t \in Text : Plain(t) \in Numeral
    BY DEF Plain, Numeral
  <1>2. Nothing \in Numeral
    BY <1>1 DEF Nothing, Text
  <1>3. \A c \in Country : [Nothing EXCEPT !.of = c] \in Numeral
                           /\ [Nothing EXCEPT !.of = c].of = c
    BY <1>2 DEF Numeral, Nothing, Plain
  <1>4. Normal \subseteq Numeral
    BY DEF Normal
  <1>5. \A v \in Numeral, k \in PhoneKinds :
          /\ Typing(k, v) \in [kind : PhoneKinds, v : Numeral]
          /\ Typing(k, v).kind = k /\ Typing(k, v).v = v
    BY DEF Typing
  <1>6. \A v \in Numeral, k \in {"typing", "blur", "toggle", "close"} :
          Typing(k, v) \in PhoneEvent /\ Typing(k, v) \notin Changes
    BY <1>5 DEF PhoneEvent, Changes, PhoneKinds
  <1>7. \A v \in Numeral : v.of \in Country =>
          Typing("select", v) \in PhoneEvent /\ Typing("select", v) \notin Changes
    BY <1>5 DEF PhoneEvent, Changes, PhoneKinds
  <1>8. \A v \in Normal :
          /\ Typing("validate", v) \in PhoneEvent
          /\ Typing("validate", v) \in Changes /\ Typing("validate", v) \in Saying(v)
    BY <1>4, <1>5 DEF PhoneEvent, Changes, PhoneKinds, Saying
  <1>9. QED
    BY <1>1, <1>2, <1>3, <1>6, <1>7, <1>8

\* A step of the browser that only adds events that announce nothing.
LEMMA PhoneSends ==
  ASSUME PhoneInv, NEW r \in Seq(PhoneEvent), NoneAmong(r, Changes),
         typings' = typings \o r,
         UNCHANGED <<country, value, formatted, opened, form, patches, hidden>>,
         text' \in Text, marked' \in Country \cup {0}
  PROVE  PhoneInv'
  <1>1. typings \in Seq(PhoneEvent)
    BY DEF PhoneInv, PhoneTypes
  <1>2. typings \o r \in Seq(PhoneEvent)
    BY <1>1, ConcatProperties
  <1>3. PhoneTypes'
    BY <1>2 DEF PhoneInv, PhoneTypes
  <1>4. LastPatchShows'
    BY DEF PhoneInv, LastPatchShows, Showing, LastAmong
  <1>5. /\ LastAmong(typings, Changes, Saying(formatted)) =>
             LastAmong(typings \o r, Changes, Saying(formatted))
        /\ NoneAmong(typings \o r, Changes) => NoneAmong(typings, Changes)
    BY <1>1, LastConcat
  <1>6. Told'
    BY <1>5 DEF PhoneInv, Told
  <1>7. QED
    BY <1>3, <1>4, <1>6 DEF PhoneInv

\* A step that sends nothing and leaves the numbers alone.
LEMMA PhoneRests ==
  ASSUME PhoneInv,
         UNCHANGED <<typings, country, value, formatted, opened, form, patches, hidden>>,
         text' \in Text, marked' \in Country \cup {0}
  PROVE  PhoneInv'
  <1>1. PhoneTypes'
    BY DEF PhoneInv, PhoneTypes
  <1>2. LastPatchShows' /\ Told'
    BY DEF PhoneInv, LastPatchShows, Told
  <1>3. QED
    BY <1>1, <1>2 DEF PhoneInv

\* What a diff more leaves true of the diffs.
LEMMA PhoneReplies ==
  ASSUME PhoneInv, NEW d \in PhoneDiff, patches' = Append(patches, d),
         d.formatted = formatted', d.changes > 0 \/ formatted' = formatted
  PROVE  /\ patches' \in Seq(PhoneDiff)
         /\ LastPatchShows'
         /\ LastAmong(patches', Announcing, Showing(formatted'))
         /\ NoneAmong(patches', Announcing) =>
              formatted' = formatted /\ NoneAmong(patches, Announcing)
  <1>1. patches \in Seq(PhoneDiff)
    BY DEF PhoneInv, PhoneTypes
  <1>2. Append(patches, d) \in Seq(PhoneDiff) /\ Append(patches, d) # <<>>
    BY <1>1, AppendProperties
  <1>3. d \in Showing(formatted') /\ (d \in Announcing <=> d.changes > 0)
    BY DEF Showing, Announcing
  <1>4. LastAmong(patches', PhoneDiff, Showing(formatted'))
    BY <1>1, <1>3, LastAppend
  <1>5. LastAmong(patches', Announcing, Showing(formatted'))
    <2>1. CASE d.changes > 0
      BY <1>1, <1>3, <2>1, LastAppend
    <2>2. CASE ~(d.changes > 0)
      <3>1. formatted' = formatted /\ LastAmong(patches, Announcing, Showing(formatted))
        BY <2>2 DEF PhoneInv, Told
      <3>2. QED
        BY <1>1, <1>3, <2>2, <3>1, LastAppend
    <2>3. QED
      BY <2>1, <2>2
  <1>6. NoneAmong(patches', Announcing) => NoneAmong(patches, Announcing) /\ d \notin Announcing
    BY <1>1, LastAppend
  <1>7. QED
    BY <1>2, <1>3, <1>4, <1>5, <1>6 DEF LastPatchShows

\* What set_value answers with.
LEMMA SetValueReplies ==
  ASSUME PhoneInv, NEW v \in Numeral, NEW k \in {"typing", "blur", "validate"},
         SetValue(v, k), country' = country, opened' \in BOOLEAN
  PROVE  /\ value' \in Text /\ formatted' = Normalized(v, country) /\ formatted' \in Normal
         /\ \E d \in PhoneDiff : /\ patches' = Append(patches, d) /\ d.formatted = formatted'
                                 /\ d.changes > 0 \/ formatted' = formatted
  <1>1. country \in Country
    BY DEF PhoneInv, PhoneTypes
  <1>2. value' \in Text /\ formatted' = Normalized(v, country) /\ formatted' \in Normal
    BY <1>1, NumbersNormal DEF SetValue
  <1> DEFINE n == (IF formatted' # formatted THEN 1 ELSE 0) + (IF k = "blur" THEN 1 ELSE 0)
             d == [value |-> value', formatted |-> formatted', opened |-> opened',
                   country |-> country', kind |-> k, changes |-> n]
  <1>3. n \in Nat /\ (n > 0 \/ formatted' = formatted)
    OBVIOUS
  <1>4. k \in PhoneKinds \cup {"mount"}
    BY DEF PhoneKinds
  <1>5. patches' = Append(patches, d)
    BY DEF SetValue, Reply
  <1> HIDE DEF n
  <1>6. d \in PhoneDiff /\ d.formatted = formatted' /\ d.changes = n
    BY <1>1, <1>2, <1>3, <1>4 DEF PhoneDiff
  <1> HIDE DEF d
  <1>7. QED
    BY <1>2, <1>3, <1>5, <1>6

\* The first event is one of the kinds, and what is left are events.
LEMMA PhoneEventTail ==
  ASSUME PhoneInv, typings # <<>>
  PROVE  /\ Tail(typings) \in Seq(PhoneEvent) /\ Head(typings) \in PhoneEvent
         /\ Head(typings).v \in Numeral
         /\ Head(typings).kind = "validate" <=> Head(typings) \in Changes
         /\ Head(typings).kind = "validate" => Head(typings).v \in Normal
         /\ Head(typings).kind = "select" => Head(typings).v.of \in Country
         /\ LastAmong(typings, Changes, Saying(formatted)) =>
              /\ LastAmong(Tail(typings), Changes, Saying(formatted))
              /\ NoneAmong(Tail(typings), Changes) =>
                   \/ Head(typings) \notin Changes /\ NoneAmong(typings, Changes)
                   \/ Head(typings) \in Changes /\ Head(typings).v = formatted
  <1>1. typings \in Seq(PhoneEvent)
    BY DEF PhoneInv, PhoneTypes
  <1>2. Tail(typings) \in Seq(PhoneEvent) /\ Head(typings) \in PhoneEvent
    BY <1>1, HeadTailProperties
  <1>3. /\ Head(typings).v \in Numeral
        /\ Head(typings).kind = "validate" <=> Head(typings) \in Changes
        /\ Head(typings).kind = "validate" => Head(typings).v \in Normal
        /\ Head(typings).kind = "select" => Head(typings).v.of \in Country
    BY <1>2 DEF PhoneEvent, Changes
  <1>4. Head(typings) \in Saying(formatted) => Head(typings).v = formatted
    BY DEF Saying
  <1>5. LastAmong(typings, Changes, Saying(formatted)) =>
          /\ LastAmong(Tail(typings), Changes, Saying(formatted))
          /\ NoneAmong(Tail(typings), Changes) =>
               \/ Head(typings) \notin Changes /\ NoneAmong(typings, Changes)
               \/ Head(typings) \in Changes /\ Head(typings) \in Saying(formatted)
    <2>1. ASSUME LastAmong(typings, Changes, Saying(formatted))
          PROVE  /\ LastAmong(Tail(typings), Changes, Saying(formatted))
                 /\ NoneAmong(Tail(typings), Changes) =>
                      Head(typings) \notin Changes \/ Head(typings) \in Saying(formatted)
                 /\ NoneAmong(Tail(typings), Changes) /\ Head(typings) \notin Changes =>
                      NoneAmong(typings, Changes)
      BY <1>1, <2>1, LastTail
    <2>2. QED
      BY <2>1
  <1>6. QED
    BY <1>2, <1>3, <1>4, <1>5

LEMMA HandleTypingKeeps ==
  ASSUME PhoneInv, HandleTyping
  PROVE  PhoneInv'
  <1>1. /\ typings # <<>> /\ typings' = Tail(typings) /\ country' = country
        /\ Head(typings).kind \in {"typing", "blur"}
        /\ SetValue(Head(typings).v, Head(typings).kind)
        /\ UNCHANGED <<form, text, hidden, marked>>
    BY DEF HandleTyping, TextEvent
  <1>2. opened' \in BOOLEAN
    BY DEF HandleTyping, PhoneInv, PhoneTypes
  <1>3. /\ value' \in Text /\ formatted' \in Normal
        /\ \E d \in PhoneDiff : /\ patches' = Append(patches, d) /\ d.formatted = formatted'
                                /\ d.changes > 0 \/ formatted' = formatted
    BY <1>1, <1>2, PhoneEventTail, SetValueReplies
  <1>4. /\ patches' \in Seq(PhoneDiff) /\ LastPatchShows'
        /\ LastAmong(patches', Announcing, Showing(formatted'))
        /\ NoneAmong(patches', Announcing) =>
             formatted' = formatted /\ NoneAmong(patches, Announcing)
    BY <1>3, PhoneReplies
  <1>5. PhoneTypes'
    BY <1>1, <1>2, <1>3, <1>4, PhoneEventTail DEF PhoneInv, PhoneTypes
  <1>6. ASSUME NoneAmong(patches', Announcing)
        PROVE  /\ LastAmong(typings', Changes, Saying(formatted'))
               /\ NoneAmong(typings', Changes) => form' = formatted'
    BY <1>1, <1>4, <1>6, PhoneEventTail DEF PhoneInv, Told
  <1>7. QED
    BY <1>4, <1>5, <1>6 DEF PhoneInv, Told

LEMMA HandleValidateKeeps ==
  ASSUME PhoneInv, HandleValidate
  PROVE  PhoneInv'
  <1>1. /\ typings # <<>> /\ typings' = Tail(typings) /\ country' = country
        /\ Head(typings).kind = "validate" /\ form' = Head(typings).v
        /\ UNCHANGED <<opened, text, hidden, marked>>
    BY DEF HandleValidate
  <1>2. form' \in Normal /\ form' \in Numeral /\ Head(typings) \in Changes
    BY <1>1, PhoneEventTail
  <1>3. CASE form' # form
    <2>1. SetValue(form', "validate") /\ opened' \in BOOLEAN /\ country \in Country
      BY <1>1, <1>3 DEF HandleValidate, PhoneInv, PhoneTypes
    <2>2. /\ value' \in Text /\ formatted' = Normalized(form', country) /\ formatted' \in Normal
          /\ \E d \in PhoneDiff : /\ patches' = Append(patches, d) /\ d.formatted = formatted'
                                  /\ d.changes > 0 \/ formatted' = formatted
      BY <1>1, <1>2, <2>1, SetValueReplies
    <2>3. formatted' = form'
      BY <1>2, <2>1, <2>2, NumbersNormal
    <2>4. /\ patches' \in Seq(PhoneDiff) /\ LastPatchShows'
          /\ LastAmong(patches', Announcing, Showing(formatted'))
          /\ NoneAmong(patches', Announcing) =>
               formatted' = formatted /\ NoneAmong(patches, Announcing)
      BY <2>2, PhoneReplies
    <2>5. PhoneTypes'
      BY <1>1, <2>1, <2>2, <2>4, PhoneEventTail DEF PhoneInv, PhoneTypes
    <2>6. ASSUME NoneAmong(patches', Announcing)
          PROVE  LastAmong(typings', Changes, Saying(formatted'))
      BY <1>1, <2>4, <2>6, PhoneEventTail DEF PhoneInv, Told
    <2>7. QED
      BY <2>3, <2>4, <2>5, <2>6 DEF PhoneInv, Told
  <1>4. CASE form' = form
    <2>1. UNCHANGED <<value, formatted, patches>>
      BY <1>4 DEF HandleValidate
    <2>2. PhoneTypes'
      BY <1>1, <2>1, PhoneEventTail DEF PhoneInv, PhoneTypes
    <2>3. LastPatchShows'
      BY <1>1, <2>1 DEF PhoneInv, LastPatchShows
    <2>4. ASSUME NoneAmong(patches, Announcing)
          PROVE  /\ LastAmong(Tail(typings), Changes, Saying(formatted))
                 /\ NoneAmong(Tail(typings), Changes) => form' = formatted
      BY <1>1, <1>2, <1>4, <2>4, PhoneEventTail DEF PhoneInv, Told
    <2>5. LastAmong(patches, Announcing, Showing(formatted))
      BY DEF PhoneInv, Told
    <2>6. QED
      BY <1>1, <2>1, <2>2, <2>3, <2>4, <2>5 DEF PhoneInv, Told
  <1>5. QED
    BY <1>3, <1>4

LEMMA HandleListKeeps ==
  ASSUME PhoneInv, HandleList
  PROVE  PhoneInv'
  <1> DEFINE e == Head(typings)
             d == [value |-> value', formatted |-> formatted', opened |-> opened',
                   country |-> country', kind |-> e.kind, changes |-> 0]
  <1>1. /\ typings # <<>> /\ typings' = Tail(typings)
        /\ e.kind \in {"toggle", "close", "select"}
        /\ opened' \in BOOLEAN
        /\ country' = IF e.kind = "select" THEN e.v.of ELSE country
        /\ UNCHANGED <<value, formatted, form, text, hidden, marked>>
        /\ patches' = Append(patches, d)
    BY DEF HandleList, Reply
  <1> HIDE DEF e
  <1>2. country' \in Country
    BY <1>1, PhoneEventTail DEF PhoneInv, PhoneTypes, e
  <1>3. value' \in Text /\ formatted' \in Normal /\ e.kind \in PhoneKinds \cup {"mount"}
    BY <1>1 DEF PhoneInv, PhoneTypes, PhoneKinds
  <1>4. d \in PhoneDiff /\ d.formatted = formatted' /\ formatted' = formatted
    BY <1>1, <1>2, <1>3 DEF PhoneDiff
  <1> HIDE DEF d
  <1>5. /\ patches' \in Seq(PhoneDiff) /\ LastPatchShows'
        /\ LastAmong(patches', Announcing, Showing(formatted'))
        /\ NoneAmong(patches', Announcing) => NoneAmong(patches, Announcing)
    BY <1>1, <1>4, PhoneReplies
  <1>6. PhoneTypes'
    BY <1>1, <1>2, <1>3, <1>5, PhoneEventTail DEF PhoneInv, PhoneTypes
  <1>7. e \notin Changes
    BY <1>1, PhoneEventTail DEF e
  <1>8. ASSUME NoneAmong(patches', Announcing)
        PROVE  /\ LastAmong(typings', Changes, Saying(formatted'))
               /\ NoneAmong(typings', Changes) => form' = formatted'
    BY <1>1, <1>5, <1>7, <1>8, PhoneEventTail DEF PhoneInv, Told, e
  <1>9. QED
    BY <1>5, <1>6, <1>8 DEF PhoneInv, Told

\* The announcements of one diff.
LEMMA Announcements ==
  ASSUME NEW n \in Nat, NEW v \in Normal
  PROVE  /\ AnnounceChange(n, v) \in Seq(PhoneEvent)
         /\ AnnounceChange(n, v) # <<>> <=> n > 0
         /\ n > 0 => 1 \in DOMAIN AnnounceChange(n, v)
         /\ \A i \in DOMAIN AnnounceChange(n, v) :
              AnnounceChange(n, v)[i] \in Changes /\ AnnounceChange(n, v)[i] \in Saying(v)
  <1> DEFINE e == Typing("validate", v)
  <1>1. e \in PhoneEvent /\ e \in Changes /\ e \in Saying(v)
    BY PhoneEvents
  <1>2. AnnounceChange(n, v) = [i \in 1..n |-> e]
    BY DEF AnnounceChange
  <1> HIDE DEF e
  <1>3. QED
    BY <1>1, <1>2

LEMMA PatchPhoneKeeps ==
  ASSUME PhoneInv, PatchPhone
  PROVE  PhoneInv'
  <1> DEFINE d == Head(patches)
             r == AnnounceChange(d.changes, d.formatted)
  <1>1. /\ patches # <<>> /\ patches' = Tail(patches) /\ hidden' = d.formatted
        /\ marked' = (IF d.opened THEN d.country ELSE 0)
        /\ text' = text \/ text' = d.value
        /\ typings' = typings \o r
        /\ UNCHANGED <<country, value, formatted, opened, form>>
    BY DEF PatchPhone
  <1>2. patches \in Seq(PhoneDiff) /\ typings \in Seq(PhoneEvent)
    BY DEF PhoneInv, PhoneTypes
  <1>3. d \in PhoneDiff /\ Tail(patches) \in Seq(PhoneDiff)
    BY <1>1, <1>2, HeadTailProperties
  <1>4. /\ d.formatted \in Normal /\ d.value \in Text /\ d.country \in Country /\ d.changes \in Nat
        /\ d \in Announcing <=> d.changes > 0
        /\ d \in Showing(formatted) => d.formatted = formatted
    BY <1>3 DEF PhoneDiff, Announcing, Showing
  <1>e. Tail(patches) = <<>> => NoneAmong(Tail(patches), PhoneDiff)
    BY DEF NoneAmong
  <1>5. /\ r \in Seq(PhoneEvent) /\ (r # <<>> <=> d.changes > 0)
        /\ d.changes > 0 => 1 \in DOMAIN r
        /\ \A i \in DOMAIN r : r[i] \in Changes /\ r[i] \in Saying(d.formatted)
    BY <1>4, Announcements
  <1> HIDE DEF d, r
  <1>6. PhoneTypes'
    BY <1>1, <1>2, <1>3, <1>4, <1>5, ConcatProperties DEF PhoneInv, PhoneTypes
  <1>7. LastPatchShows'
    <2>1. LastAmong(patches, PhoneDiff, Showing(formatted))
      BY DEF PhoneInv, LastPatchShows
    <2>2. /\ LastAmong(Tail(patches), PhoneDiff, Showing(formatted))
          /\ NoneAmong(Tail(patches), PhoneDiff) => d \in Showing(formatted)
      BY <1>1, <1>2, <1>3, <2>1, LastTail DEF d
    <2>3. QED
      BY <1>1, <1>4, <1>e, <2>2 DEF LastPatchShows
  <1>8. /\ LastAmong(Tail(patches), Announcing, Showing(formatted))
        /\ NoneAmong(Tail(patches), Announcing) => d \notin Announcing \/ d \in Showing(formatted)
        /\ NoneAmong(Tail(patches), Announcing) /\ d \notin Announcing =>
             NoneAmong(patches, Announcing)
    BY <1>1, <1>2, LastTail DEF PhoneInv, Told, d
  <1>9. ASSUME NoneAmong(Tail(patches), Announcing)
        PROVE  /\ LastAmong(typings', Changes, Saying(formatted))
               /\ NoneAmong(typings', Changes) => form = formatted
    <2>1. CASE d \in Announcing
      <3>1. d.formatted = formatted /\ r # <<>> /\ 1 \in DOMAIN r
        BY <1>4, <1>5, <1>8, <1>9, <2>1
      <3>2. LastAmong(typings \o r, Changes, Saying(formatted))
        BY <1>2, <1>5, <3>1, LastConcat
      <3>3. NoneAmong(typings \o r, Changes) => NoneAmong(r, Changes)
        BY <1>2, <1>5, LastConcat
      <3>4. ~NoneAmong(r, Changes)
        BY <1>5, <3>1 DEF NoneAmong
      <3>5. QED
        BY <1>1, <3>2, <3>3, <3>4
    <2>2. CASE d \notin Announcing
      <3>1. r = <<>>
        BY <1>4, <1>5, <2>2
      <3>2. typings' = typings
        BY <1>1, <1>2, <3>1, ConcatEmptySeq
      <3>3. NoneAmong(patches, Announcing)
        BY <1>8, <1>9, <2>2
      <3>4. QED
        BY <3>2, <3>3 DEF PhoneInv, Told
    <2>3. QED
      BY <2>1, <2>2
  <1>10. QED
    BY <1>1, <1>6, <1>7, <1>8, <1>9 DEF PhoneInv, Told

\* The steps of the browser, each of which sends events that announce nothing.
LEMMA PageKeepsPhone ==
  ASSUME PhoneInv,
         \/ Debounced \/ FocusText \/ LeaveText \/ ToggleList
         \/ \E t \in Text : TypeText(t)
         \/ ShiftSelected("down") \/ ShiftSelected("up") \/ EnterCountry \/ CloseList
         \/ \E c \in Country : ClickCountry(c)
         \/ \E l \in Letter : TypeAhead(l)
         \/ ForgetTypeahead
  PROVE  PhoneInv'
  <1> DEFINE Quiet == {r \in Seq(PhoneEvent) : NoneAmong(r, Changes)}
  <1>0. /\ text \in Text /\ marked \in Country \cup {0} /\ typings \in Seq(PhoneEvent)
    BY DEF PhoneInv, PhoneTypes
  <1>1. <<>> \in Quiet
    BY DEF NoneAmong
  <1>2. \A e \in PhoneEvent : e \notin Changes => <<e>> \in Quiet
    BY DEF NoneAmong
  <1>3. \A r, s \in Quiet : r \o s \in Quiet
    <2> SUFFICES ASSUME NEW r \in Quiet, NEW s \in Quiet PROVE r \o s \in Quiet
      OBVIOUS
    <2>1. r \in Seq(PhoneEvent) /\ s \in Seq(PhoneEvent) /\ NoneAmong(r, Changes)
          /\ NoneAmong(s, Changes)
      OBVIOUS
    <2>2. NoneAmong(r \o s, Changes)
      BY <2>1 DEF NoneAmong
    <2>3. QED
      BY <2>1, <2>2, ConcatProperties
  <1>4. \A e \in PhoneEvent : Append(typings, e) = typings \o <<e>>
    BY <1>0, AppendIsConcat
  <1>5. \A r \in Seq(PhoneEvent), s \in Seq(PhoneEvent) :
          (typings \o r) \o s = typings \o (r \o s)
    BY <1>0, ConcatAssociative
  <1>e. typings \o <<>> = typings
    BY <1>0, ConcatEmptySeq
  <1> HIDE DEF Quiet
  <1>q. \A r \in Quiet : r \in Seq(PhoneEvent) /\ NoneAmong(r, Changes)
    BY DEF Quiet
  <1>6. ASSUME NEW r \in Quiet, typings' = typings \o r,
               UNCHANGED <<country, value, formatted, opened, form, patches, hidden>>,
               text' \in Text, marked' \in Country \cup {0}
        PROVE  PhoneInv'
    BY <1>6, <1>q, PhoneSends
  <1>c. \E r \in Quiet : CloseOverlay = typings \o r
    <2>1. /\ Typing("close", Nothing) \in PhoneEvent /\ Typing("close", Nothing) \notin Changes
      BY PhoneEvents
    <2>2. QED
      BY <1>1, <1>2, <1>4, <1>e, <2>1 DEF CloseOverlay
  <1>l. PICK left \in Quiet : Left = typings \o left
    <2> DEFINE r == IF owed THEN <<Typing("typing", Plain(text))>> ELSE <<>>
               s == IF focused THEN <<Typing("blur", Plain(text))>> ELSE <<>>
    <2>1. r \in Quiet /\ s \in Quiet
      BY <1>0, <1>1, <1>2, PhoneEvents
    <2>2. Left = (typings \o r) \o s
      BY DEF Left
    <2> HIDE DEF r, s
    <2>3. QED
      BY <1>3, <1>5, <1>q, <2>1, <2>2
  <1>7. CASE Debounced
    BY <1>0, <1>2, <1>4, <1>6, <1>7, PhoneEvents DEF Debounced
  <1>8. CASE FocusText \/ CloseList
    BY <1>0, <1>6, <1>c, <1>8 DEF FocusText, CloseList
  <1>9. CASE LeaveText
    <2> DEFINE s == IF list THEN <<Typing("close", Nothing)>> ELSE <<>>
    <2>1. s \in Quiet
      BY <1>1, <1>2, PhoneEvents
    <2>2. /\ typings' = (typings \o left) \o s
          /\ UNCHANGED <<country, value, formatted, opened, form, patches, hidden, text, marked>>
      BY <1>9, <1>l DEF LeaveText
    <2> HIDE DEF s
    <2>3. typings' = typings \o (left \o s) /\ left \o s \in Quiet
      BY <1>3, <1>5, <1>q, <1>l, <2>1, <2>2
    <2>4. QED
      BY <1>0, <1>6, <2>2, <2>3
  <1>10. CASE ToggleList
    <2> DEFINE s == <<Typing("toggle", Nothing)>>
    <2>1. s \in Quiet /\ Typing("toggle", Nothing) \in PhoneEvent
      BY <1>2, PhoneEvents
    <2>2. /\ typings' = Append(typings \o left, Typing("toggle", Nothing))
          /\ UNCHANGED <<country, value, formatted, opened, form, patches, hidden, text, marked>>
      BY <1>10, <1>l DEF ToggleList
    <2>3. typings \o left \in Seq(PhoneEvent)
      BY <1>0, <1>q, <1>l, ConcatProperties
    <2>4. typings' = (typings \o left) \o s
      BY <2>1, <2>2, <2>3, AppendIsConcat
    <2> HIDE DEF s
    <2>5. typings' = typings \o (left \o s) /\ left \o s \in Quiet
      BY <1>3, <1>5, <1>q, <1>l, <2>1, <2>4
    <2>6. QED
      BY <1>0, <1>6, <2>2, <2>5
  <1>11. ASSUME NEW t \in Text, TypeText(t) PROVE PhoneInv'
    BY <1>0, <1>11, PhoneRests DEF TypeText
  <1>12. CASE ShiftSelected("down") \/ ShiftSelected("up")
    <2>1. Names \in Seq(Seq(STRING)) /\ Country = 1..Len(Names) /\ Len(Names) \in Nat
      BY NamesAssumption DEF Country
    <2>2. Shifted("down") \in Country /\ Shifted("up") \in Country
      BY <1>0, <2>1, CountryIsNat DEF Shifted
    <2>3. QED
      BY <1>0, <1>12, <2>2, PhoneRests DEF ShiftSelected
  <1>13. CASE EnterCountry
    <2>1. CASE marked # 0
      <3> DEFINE e == Typing("select", [Nothing EXCEPT !.of = marked])
      <3>1. marked \in Country
        BY <1>0, <2>1
      <3>2. e \in PhoneEvent /\ e \notin Changes
        BY <3>1, PhoneEvents
      <3>3. /\ typings' = Append(typings, e)
            /\ UNCHANGED <<country, value, formatted, opened, form, patches, hidden, text, marked>>
        BY <1>13, <2>1 DEF EnterCountry
      <3> HIDE DEF e
      <3>4. QED
        BY <1>0, <1>2, <1>4, <1>6, <3>2, <3>3
    <2>2. CASE marked = 0
      BY <1>0, <1>6, <1>c, <1>13, <2>2 DEF EnterCountry
    <2>3. QED
      BY <2>1, <2>2
  <1>14. ASSUME NEW c \in Country, ClickCountry(c) PROVE PhoneInv'
    <2> DEFINE e == Typing("select", [Nothing EXCEPT !.of = c])
    <2>1. e \in PhoneEvent /\ e \notin Changes
      BY PhoneEvents
    <2>2. /\ typings' = Append(typings, e)
          /\ UNCHANGED <<country, value, formatted, opened, form, patches, hidden, text, marked>>
      BY <1>14 DEF ClickCountry
    <2> HIDE DEF e
    <2>3. QED
      BY <1>0, <1>2, <1>4, <1>6, <2>1, <2>2
  <1>15. ASSUME NEW l \in Letter, TypeAhead(l) PROVE PhoneInv'
    <2> DEFINE T == {i \in Country : list /\ IsPrefix(typeahead', Names[i])}
    <2>1. T \subseteq Country /\ T \in SUBSET Nat
      BY CountryIsNat
    <2>2. marked' = IF T = {} THEN marked ELSE CHOOSE i \in T : \A j \in T : i <= j
      BY <1>15 DEF TypeAhead
    <2> HIDE DEF T
    <2>3. marked' \in Country \cup {0}
      BY <1>0, <2>1, <2>2, FirstMatch
    <2>4. QED
      BY <1>0, <1>15, <2>3, PhoneRests DEF TypeAhead
  <1>16. CASE ForgetTypeahead
    BY <1>0, <1>16, PhoneRests DEF ForgetTypeahead
  <1>17. QED
    BY <1>7, <1>8, <1>9, <1>10, <1>11, <1>12, <1>13, <1>14, <1>15, <1>16

\* However typing, blurring, choosing a country and the diffs that answer
\* fall: when nothing is on its way, what the form would submit is the
\* component's number, and the page's form knows it.
THEOREM FormAlwaysHears == PhoneInit /\ [][PhoneNext]_phoneVars => []FormHearsNumber
  <1>1. PhoneInit => PhoneInv
    <2> SUFFICES ASSUME PhoneInit PROVE PhoneInv
      OBVIOUS
    <2>1. Nothing \in Normal /\ "" \in Text /\ 1 \in Country
      BY CountryIsNat DEF Nothing, Plain, Normal, Numeral, Text
    <2> DEFINE d == [value |-> "", formatted |-> Nothing, opened |-> FALSE, country |-> 1,
                     kind |-> "mount", changes |-> 1]
    <2>2. d \in PhoneDiff /\ d \in Announcing /\ d \in Showing(Nothing)
      <3>1. /\ d.value = "" /\ d.formatted = Nothing /\ d.opened = FALSE /\ d.country = 1
            /\ d.kind = "mount" /\ d.changes = 1
        OBVIOUS
      <3>2. "mount" \in PhoneKinds \cup {"mount"} /\ FALSE \in BOOLEAN /\ 1 \in Nat
        OBVIOUS
      <3>3. d \in PhoneDiff
        BY <2>1, <3>2, Zenon DEF PhoneDiff
      <3>4. d.changes > 0 /\ d.formatted = Nothing
        BY <3>1
      <3> HIDE DEF d
      <3>5. d \in Announcing
        BY <3>3, <3>4 DEF Announcing
      <3>6. d \in Showing(Nothing)
        BY <3>3, <3>4 DEF Showing
      <3>7. QED
        BY <3>3, <3>5, <3>6
    <2>3. patches = <<d>> /\ formatted = Nothing
      BY DEF PhoneInit
    <2> HIDE DEF d
    <2>4. /\ patches \in Seq(PhoneDiff) /\ ~NoneAmong(patches, Announcing) /\ patches # <<>>
          /\ LastAmong(patches, Announcing, Showing(formatted))
          /\ LastAmong(patches, PhoneDiff, Showing(formatted))
      BY <2>2, <2>3 DEF LastAmong, NoneAmong
    <2>5. PhoneTypes
      <3>1. /\ country = 1 /\ value = "" /\ formatted = Nothing /\ opened = FALSE
            /\ typings = <<>> /\ text = "" /\ hidden = Nothing /\ marked = 0
        BY DEF PhoneInit
      <3>2. <<>> \in Seq(PhoneEvent)
        OBVIOUS
      <3>3. QED
        BY <2>1, <2>4, <3>1, <3>2, Zenon DEF PhoneTypes
    <2>6. QED
      BY <2>4, <2>5 DEF PhoneInv, LastPatchShows, Told
  <1>2. PhoneInv /\ [PhoneNext]_phoneVars => PhoneInv'
    <2> SUFFICES ASSUME PhoneInv, [PhoneNext]_phoneVars PROVE PhoneInv'
      OBVIOUS
    <2>1. CASE UNCHANGED phoneVars
      <3>1. text' \in Text /\ marked' \in Country \cup {0}
        BY <2>1 DEF phoneVars, PhoneInv, PhoneTypes
      <3>2. QED
        BY <2>1, <3>1, PhoneRests DEF phoneVars
    <2>2. QED
      BY <2>1, HandleTypingKeeps, HandleValidateKeeps, HandleListKeeps, PatchPhoneKeeps,
         PageKeepsPhone DEF PhoneNext
  <1>3. PhoneInv => FormHearsNumber
    BY DEF PhoneInv, LastPatchShows, Told, NoneAmong, FormHearsNumber
  <1>4. QED
    BY <1>1, <1>2, <1>3, PTL
-----------------------------------------------------------------------------
(* The event map.  A place that a locked map waits with keeps waiting: it  *)
(* may be replaced by a newer place, but not by none, for an event that    *)
(* has got a place never loses it, and add-marker events without one are   *)
(* all sent before.  The load event then takes the waiting place.          *)

Spot == Place \cup {Nowhere}

MapTypes ==
  /\ locked \in BOOLEAN /\ loaded \in BOOLEAN
  /\ place \in Spot /\ pendingMarker \in Spot /\ retrying \subseteq Spot
  /\ marks \in Seq(Spot) /\ spots \in Seq(Place)

\* Where an add-marker event has a place, the later ones have one, and the
\* event of the page too.
PlacedStay ==
  \A i \in 1 .. Len(marks) :
    marks[i] # Nowhere => /\ place # Nowhere
                          /\ \A j \in i .. Len(marks) : marks[j] # Nowhere

\* What waits is at least as old as the add-marker events under way.
NoneBehindWaiting ==
  pendingMarker # Nowhere =>
    /\ locked /\ ~loaded /\ place # Nowhere
    /\ \A i \in 1 .. Len(marks) : marks[i] # Nowhere

MapInv == MapTypes /\ PlacedStay /\ NoneBehindWaiting

LEMMA NowhereIsNoPlace == Nowhere \notin Place
  BY PlaceAssumption DEF Nowhere

\* The page or its LiveView pushes the place that it has now.
LEMMA PushKeeps ==
  ASSUME MapInv, place' \in Spot, place # Nowhere => place' # Nowhere,
         marks' = Append(marks, place'), spots' \in Seq(Place),
         UNCHANGED <<locked, loaded, pendingMarker, retrying>>
  PROVE  MapInv'
  <1>1. MapTypes /\ PlacedStay /\ NoneBehindWaiting
    BY DEF MapInv
  <1>2. MapTypes'
    BY <1>1 DEF MapTypes
  <1>3. /\ Len(marks') = Len(marks) + 1 /\ Len(marks) \in Nat
        /\ marks'[Len(marks) + 1] = place'
        /\ \A i \in 1 .. Len(marks) : marks'[i] = marks[i]
    BY <1>1 DEF MapTypes
  <1>4. PlacedStay'
    <2> SUFFICES ASSUME NEW i \in 1 .. Len(marks'), marks'[i] # Nowhere,
                        NEW j \in i .. Len(marks')
                 PROVE  place' # Nowhere /\ marks'[j] # Nowhere
      BY DEF PlacedStay
    <2>1. place' # Nowhere
      <3>1. CASE i = Len(marks) + 1
        BY <1>3, <3>1
      <3>2. CASE i \in 1 .. Len(marks)
        BY <1>1, <1>3, <3>2 DEF PlacedStay
      <3> QED
        BY <1>3, <3>1, <3>2
    <2>2. CASE j = Len(marks) + 1
      BY <1>3, <2>1, <2>2
    <2>3. CASE j \in 1 .. Len(marks)
      BY <1>1, <1>3, <2>1, <2>3 DEF PlacedStay
    <2> QED
      BY <1>3, <2>1, <2>2, <2>3
  <1>5. NoneBehindWaiting'
    BY <1>1, <1>3 DEF NoneBehindWaiting
  <1> QED
    BY <1>2, <1>4, <1>5 DEF MapInv

\* The hook's handler takes the first add-marker event.
LEMMA AddMarkerKeeps ==
  ASSUME MapInv, AddMarker
  PROVE  MapInv'
  <1> DEFINE p == Head(marks)
  <1>1. MapTypes /\ PlacedStay /\ NoneBehindWaiting
    BY DEF MapInv
  <1>2. /\ marks # <<>> /\ marks' = Tail(marks) /\ UNCHANGED <<locked, loaded, place, spots>>
        /\ \/ UNCHANGED <<pendingMarker, retrying>>
           \/ locked /\ (~loaded \/ p = Nowhere)
              /\ pendingMarker' = p /\ retrying' = retrying \cup {p}
           \/ pendingMarker' = Nowhere /\ UNCHANGED retrying
    BY DEF AddMarker
  <1>3. /\ Len(marks) \in Nat /\ Len(marks) # 0 /\ p = marks[1] /\ p \in Spot
        /\ marks' \in Seq(Spot) /\ Len(marks') = Len(marks) - 1
        /\ \A i \in 1 .. Len(marks') : i + 1 \in 1 .. Len(marks) /\ marks'[i] = marks[i + 1]
    BY <1>1, <1>2 DEF MapTypes
  <1>4. MapTypes'
    BY <1>1, <1>2, <1>3, Nowhere \in Spot DEF MapTypes, Spot
  <1>5. PlacedStay'
    <2> SUFFICES ASSUME NEW i \in 1 .. Len(marks'), marks'[i] # Nowhere
                 PROVE  /\ place' # Nowhere
                        /\ \A j \in i .. Len(marks') : marks'[j] # Nowhere
      BY DEF PlacedStay
    <2>1. /\ place # Nowhere
          /\ \A j \in i + 1 .. Len(marks) : marks[j] # Nowhere
      BY <1>1, <1>3 DEF PlacedStay
    <2>2. ASSUME NEW j \in i .. Len(marks') PROVE marks'[j] # Nowhere
      <3>1. j \in 1 .. Len(marks') /\ j + 1 \in i + 1 .. Len(marks)
        BY <1>3
      <3> QED
        BY <1>3, <2>1, <3>1
    <2> QED
      BY <1>2, <2>1, <2>2
  <1>6. NoneBehindWaiting'
    <2> SUFFICES ASSUME pendingMarker' # Nowhere
                 PROVE  /\ locked /\ ~loaded /\ place # Nowhere
                        /\ \A i \in 1 .. Len(marks') : marks'[i] # Nowhere
      BY <1>2 DEF NoneBehindWaiting
    <2>1. CASE UNCHANGED pendingMarker
      BY <1>1, <1>3, <2>1 DEF NoneBehindWaiting
    <2>2. CASE locked /\ (~loaded \/ p = Nowhere) /\ pendingMarker' = p
      <3>1. marks[1] # Nowhere /\ 1 \in 1 .. Len(marks)
        BY <1>3, <2>2
      <3>2. place # Nowhere /\ \A i \in 1 .. Len(marks) : marks[i] # Nowhere
        BY <1>1, <3>1 DEF PlacedStay
      <3> QED
        BY <1>3, <2>2, <3>1, <3>2
    <2> QED
      BY <1>2, <2>1, <2>2
  <1> QED
    BY <1>4, <1>5, <1>6 DEF MapInv

\* Steps that push nothing and take no event leave what waits, or empty it.
LEMMA MapRests ==
  ASSUME MapInv, UNCHANGED <<locked, place, marks>>, spots' \in Seq(Place),
         retrying' \subseteq retrying,
         \/ pendingMarker' = Nowhere /\ loaded' \in BOOLEAN
         \/ UNCHANGED <<pendingMarker, loaded>>
  PROVE  MapInv'
  <1>1. MapTypes'
    BY DEF MapInv, MapTypes, Spot
  <1>2. PlacedStay' /\ NoneBehindWaiting'
    BY DEF MapInv, PlacedStay, NoneBehindWaiting
  <1> QED
    BY <1>1, <1>2 DEF MapInv

LEMMA MapInvStep ==
  ASSUME MapInv, [MapNext]_mapVars
  PROVE  MapInv'
  <1>1. MapTypes
    BY DEF MapInv
  <1>2. CASE PushPlace
    BY <1>1, <1>2, PushKeeps DEF PushPlace, radar, MapTypes
  <1>3. ASSUME NEW p \in Place, MovePlace(p) PROVE MapInv'
    BY <1>1, <1>3, PushKeeps, NowhereIsNoPlace DEF MovePlace, radar, MapTypes, Spot
  <1>4. CASE SaveSpot
    <2>1. Head(spots) \in Place /\ Tail(spots) \in Seq(Place)
      BY <1>1, <1>4 DEF SaveSpot, MapTypes
    <2> QED
      BY <1>4, <2>1, PushKeeps, NowhereIsNoPlace DEF SaveSpot, radar, Spot
  <1>5. CASE UnknownEvent
    <2>1. <<>> \in Seq(Place)
      OBVIOUS
    <2> QED
      BY <1>1, <1>5, <2>1, PushKeeps DEF UnknownEvent, radar, MapTypes
  <1>6. CASE AddMarker
    BY <1>6, AddMarkerKeeps
  <1>7. CASE InitRadar \/ RemoveMarker \/ UNCHANGED mapVars
    BY <1>1, <1>7, MapRests DEF InitRadar, RemoveMarker, mapVars, radar, MapTypes
  <1>8. CASE MapLoads
    BY <1>1, <1>8, MapRests DEF MapLoads, MapTypes
  <1>9. CASE Retries
    BY <1>1, <1>9, MapRests DEF Retries, RetryMarker, GiveUp, MapTypes
  <1>10. ASSUME NEW p \in Place, ClickMap(p) PROVE MapInv'
    BY <1>1, <1>10, MapRests DEF ClickMap, MapTypes
  <1> QED
    BY <1>2, <1>3, <1>4, <1>5, <1>6, <1>7, <1>8, <1>9, <1>10 DEF MapNext

\* A place waits until the map has loaded, which marks it.
LEMMA WaitsForTheLoad ==
  ASSUME MapInv, MapInv', [MapNext]_mapVars, locked /\ pendingMarker # Nowhere
  PROVE  (locked /\ pendingMarker # Nowhere)' \/ (marker # Nowhere)'
  <1>1. /\ MapTypes /\ locked' = locked /\ ~loaded
    BY DEF MapInv, NoneBehindWaiting, MapNext, Retries, mapVars, PushPlace, InitRadar, MapLoads,
       AddMarker, RetryMarker, GiveUp, SaveSpot, UnknownEvent, RemoveMarker, MovePlace, ClickMap
  <1>2. CASE MapLoads
    BY <1>2 DEF MapLoads, Set
  <1>3. CASE AddMarker
    <2>1. Head(marks) # Nowhere
      BY <1>1, <1>3 DEF AddMarker, MapInv, NoneBehindWaiting, MapTypes
    <2>2. pendingMarker' = pendingMarker \/ pendingMarker' = Head(marks)
      BY <1>1, <1>3 DEF AddMarker
    <2> QED
      BY <1>1, <2>1, <2>2
  <1>4. CASE ~MapLoads /\ ~AddMarker
    <2>1. UNCHANGED pendingMarker
      BY <1>1, <1>4 DEF MapNext, Retries, mapVars, radar, PushPlace, InitRadar, RetryMarker,
         GiveUp, SaveSpot, UnknownEvent, RemoveMarker, MovePlace, ClickMap
    <2> QED
      BY <1>1, <2>1
  <1> QED
    BY <1>2, <1>3, <1>4

\* A place that a locked map waits with is marked once the map has loaded,
\* whatever add-marker events and retries come in between and also after the
\* retries have given up.  It needs no fairness: while the place waits the map
\* has not loaded, a map that has loaded stays loaded, so the load event is
\* still to come.
THEOREM LoadedMapMarksPlace == MapInit /\ [][MapNext]_mapVars => LoadedMapHasMarker
  <1>1. MapInit => MapInv
    <2> SUFFICES ASSUME MapInit PROVE MapInv
      OBVIOUS
    <2>1. /\ locked \in BOOLEAN /\ place \in Spot /\ marks = <<place>> /\ spots = <<>>
          /\ loaded = FALSE /\ pendingMarker = Nowhere /\ retrying = {}
      BY DEF MapInit, Spot
    <2>2. MapTypes
      <3>1. <<place>> \in Seq(Spot) /\ <<>> \in Seq(Place) /\ Nowhere \in Spot
        BY <2>1 DEF Spot
      <3> QED
        BY <2>1, <3>1 DEF MapTypes
    <2>3. PlacedStay /\ NoneBehindWaiting
      BY <2>1 DEF PlacedStay, NoneBehindWaiting
    <2> QED
      BY <2>2, <2>3 DEF MapInv
  <1>2. MapInv /\ [MapNext]_mapVars => MapInv'
    BY MapInvStep
  <1> DEFINE waits == locked /\ pendingMarker # Nowhere
             there == marker # Nowhere
  <1>3. MapInv => ~(waits /\ loaded)
    BY DEF MapInv, NoneBehindWaiting
  <1>4. MapInv /\ MapInv' /\ [MapNext]_mapVars /\ waits => waits' \/ there'
    BY WaitsForTheLoad
  <1>5. [MapNext]_mapVars /\ loaded => loaded'
    BY DEF MapNext, Retries, mapVars, radar, PushPlace, InitRadar, MapLoads, AddMarker,
       RetryMarker, GiveUp, SaveSpot, UnknownEvent, RemoveMarker, MovePlace, ClickMap
  <1>6. LoadedMapHasMarker <=> (<>loaded => (waits ~> there))
    BY DEF LoadedMapHasMarker
  <1> HIDE DEF waits, there
  <1> QED
    BY <1>1, <1>2, <1>3, <1>4, <1>5, <1>6, PTL

-----------------------------------------------------------------------------
(* Passkeys.  That the button does not stay disabled is a matter of        *)
(* fairness; that something can still enable it is an invariant.  The last *)
(* diff under way shows what the LiveView has, and while the LiveView      *)
(* waits there is a dialog open, about to open, or answered.               *)

KeyKinds == {"supported", "press", "credential", "error"}
KeyAsk == [kind : KeyKinds, n : Nat]
KeyShow == [button : {"hidden", "disabled", "enabled"}, n : Nat]

KeyTypes ==
  /\ supported \in BOOLEAN /\ loading \in BOOLEAN /\ through \in BOOLEAN
  /\ challenge \in Nat /\ issued \in Nat /\ prompts \subseteq Nat
  /\ asks \in Seq(KeyAsk) /\ shows \in Seq(KeyShow)

NewestButton == IF shows = <<>> THEN keyButton ELSE shows[Len(shows)].button

\* Of the events under way: a dialog was signed, cancelled or timed out.
AnswerUnderWay == \E i \in 1 .. Len(asks) : asks[i].kind \in {"credential", "error"}

\* A challenge that the diffs bring opens a dialog.
DialogUnderWay == \E i \in 1 .. Len(shows) : shows[i].n # NoChallenge

KeyInv ==
  /\ KeyTypes
  /\ NewestButton = KeyButton(supported, loading, through)
  /\ loading => prompts # {} \/ DialogUnderWay \/ AnswerUnderWay

\* A disabled button has a dialog, an event or a diff under way that can end it.
KeyAnswerable == keyButton = "disabled" => prompts # {} \/ asks # <<>> \/ shows # <<>>

LEMMA KeyAsksTail ==
  ASSUME KeyTypes, asks # <<>>
  PROVE  /\ Head(asks) \in KeyAsk /\ Tail(asks) \in Seq(KeyAsk)
         /\ AnswerUnderWay /\ Head(asks).kind \notin {"credential", "error"} =>
              \E i \in 1 .. Len(Tail(asks)) : Tail(asks)[i].kind \in {"credential", "error"}
  <1>1. /\ asks \in Seq(KeyAsk) /\ Head(asks) \in KeyAsk /\ Tail(asks) \in Seq(KeyAsk)
        /\ Len(Tail(asks)) = Len(asks) - 1 /\ Len(asks) \in Nat /\ Head(asks) = asks[1]
        /\ \A i \in 1 .. Len(Tail(asks)) : Tail(asks)[i] = asks[i + 1]
    BY DEF KeyTypes
  <1>2. ASSUME NEW i \in 1 .. Len(asks), asks[i].kind \in {"credential", "error"},
               Head(asks).kind \notin {"credential", "error"}
        PROVE  \E k \in 1 .. Len(Tail(asks)) : Tail(asks)[k].kind \in {"credential", "error"}
    <2>1. i # 1
      BY <1>1, <1>2
    <2>2. i - 1 \in 1 .. Len(Tail(asks)) /\ (i - 1) + 1 = i
      BY <1>1, <2>1
    <2>3. Tail(asks)[i - 1] = asks[i]
      BY <1>1, <2>2
    <2> QED
      BY <1>2, <2>2, <2>3
  <1> QED
    BY <1>1, <1>2 DEF AnswerUnderWay

LEMMA KeyAsksAppend ==
  ASSUME KeyTypes, NEW e \in KeyAsk, asks' = Append(asks, e)
  PROVE  /\ asks' \in Seq(KeyAsk)
         /\ AnswerUnderWay \/ e.kind \in {"credential", "error"} => AnswerUnderWay'
  <1>1. /\ asks' \in Seq(KeyAsk) /\ Len(asks) \in Nat /\ Len(asks') = Len(asks) + 1
        /\ asks'[Len(asks) + 1] = e /\ \A i \in 1 .. Len(asks) : asks'[i] = asks[i]
    BY DEF KeyTypes
  <1>2. Len(asks) + 1 \in 1 .. Len(asks') /\ 1 .. Len(asks) \subseteq 1 .. Len(asks')
    BY <1>1
  <1> QED
    BY <1>1, <1>2 DEF AnswerUnderWay

\* A diff with the LiveView's new assigns, and perhaps a challenge.
LEMMA KeyShown ==
  ASSUME KeyTypes, NEW n \in Nat, ShowKey(n),
         supported' \in BOOLEAN, loading' \in BOOLEAN, through' \in BOOLEAN
  PROVE  /\ shows' \in Seq(KeyShow)
         /\ NewestButton' = KeyButton(supported', loading', through')
         /\ DialogUnderWay \/ n # NoChallenge => DialogUnderWay'
  <1> DEFINE d == [button |-> KeyButton(supported', loading', through'), n |-> n]
  <1>1. d \in KeyShow /\ d.button = KeyButton(supported', loading', through') /\ d.n = n
    BY DEF KeyShow, KeyButton
  <1>2. shows' = Append(shows, d)
    BY DEF ShowKey
  <1> HIDE DEF d
  <1>3. /\ shows' \in Seq(KeyShow) /\ Len(shows) \in Nat /\ Len(shows') = Len(shows) + 1
        /\ shows'[Len(shows) + 1] = d /\ \A i \in 1 .. Len(shows) : shows'[i] = shows[i]
        /\ shows' # <<>>
    BY <1>1, <1>2 DEF KeyTypes
  <1>4. Len(shows) + 1 \in 1 .. Len(shows') /\ 1 .. Len(shows) \subseteq 1 .. Len(shows')
    BY <1>3
  <1>5. NewestButton' = shows'[Len(shows')].button
    BY <1>3 DEF NewestButton
  <1> QED
    BY <1>1, <1>3, <1>4, <1>5 DEF DialogUnderWay

LEMMA KeyHandlersKeep ==
  ASSUME KeyInv, KeyEvent
  PROVE  KeyInv'
  <1>1. KeyTypes /\ (loading => prompts # {} \/ DialogUnderWay \/ AnswerUnderWay)
    BY DEF KeyInv
  <1>2. asks # <<>> /\ asks' = Tail(asks) /\ UNCHANGED prompts
    BY DEF KeyEvent, HandleSupport, HandlePress, HandleCredential, HandleKeyError, Heard
  <1>3. NoChallenge \in Nat
    BY DEF NoChallenge
  <1>4. PICK n \in Nat :
          /\ ShowKey(n)
          /\ supported' \in BOOLEAN /\ loading' \in BOOLEAN /\ through' \in BOOLEAN
          /\ challenge' \in Nat /\ issued' \in Nat
          /\ \/ ~loading'
             \/ loading' = loading /\ Head(asks).kind = "supported"
             \/ n # NoChallenge
    <2>1. CASE HandleSupport
      BY <1>1, <1>3, <2>1 DEF HandleSupport, Heard, KeyTypes
    <2>2. CASE HandlePress
      <3>1. /\ ShowKey(challenge') /\ challenge' \in Nat /\ issued' \in Nat
            /\ loading' \in BOOLEAN /\ UNCHANGED <<supported, through>>
            /\ ~loading' \/ challenge' # NoChallenge
        <4>1. CASE loading' = TRUE /\ issued' = issued + 1 /\ challenge' = issued'
          <5>1. challenge' \in Nat /\ challenge' # NoChallenge
            BY <1>1, <4>1 DEF KeyTypes, NoChallenge
          <5> QED
            BY <2>2, <4>1, <5>1 DEF HandlePress
        <4>2. CASE loading' = FALSE /\ challenge' = NoChallenge /\ UNCHANGED issued
          BY <1>1, <1>3, <2>2, <4>2 DEF HandlePress, KeyTypes
        <4> QED
          BY <2>2, <4>1, <4>2 DEF HandlePress
      <3> QED
        BY <1>1, <3>1 DEF KeyTypes
    <2>3. CASE HandleCredential
      <3>1. through' \in BOOLEAN
        BY <1>1, <2>3 DEF HandleCredential, KeyTypes
      <3> QED
        BY <1>1, <1>3, <2>3, <3>1 DEF HandleCredential, KeyTypes
    <2>4. CASE HandleKeyError
      BY <1>1, <1>3, <2>4 DEF HandleKeyError, KeyTypes
    <2> QED
      BY <2>1, <2>2, <2>3, <2>4 DEF KeyEvent
  <1>5. /\ shows' \in Seq(KeyShow)
        /\ NewestButton' = KeyButton(supported', loading', through')
        /\ DialogUnderWay \/ n # NoChallenge => DialogUnderWay'
    BY <1>1, <1>4, KeyShown
  <1>6. KeyTypes'
    BY <1>1, <1>2, <1>4, <1>5, KeyAsksTail DEF KeyTypes
  <1>7. ASSUME Head(asks).kind = "supported", AnswerUnderWay PROVE AnswerUnderWay'
    BY <1>1, <1>2, <1>7, KeyAsksTail DEF AnswerUnderWay
  <1>8. loading' => prompts' # {} \/ DialogUnderWay' \/ AnswerUnderWay'
    BY <1>1, <1>2, <1>4, <1>5, <1>7
  <1> QED
    BY <1>5, <1>6, <1>8 DEF KeyInv

\* The diff is drawn, and its challenge opens a dialog.
LEMMA KeyDiffKeeps ==
  ASSUME KeyInv, AskBrowser
  PROVE  KeyInv'
  <1>1. /\ KeyTypes /\ NewestButton = KeyButton(supported, loading, through)
        /\ loading => prompts # {} \/ DialogUnderWay \/ AnswerUnderWay
    BY DEF KeyInv
  <1>2. /\ shows # <<>> /\ shows' = Tail(shows) /\ keyButton' = Head(shows).button
        /\ prompts' = prompts \cup ({Head(shows).n} \ {NoChallenge})
        /\ UNCHANGED <<supported, loading, challenge, through, issued, asks>>
    BY DEF AskBrowser
  <1>3. /\ Head(shows) \in KeyShow /\ Head(shows) = shows[1] /\ shows' \in Seq(KeyShow)
        /\ Len(shows) \in Nat /\ Len(shows) # 0 /\ Len(shows') = Len(shows) - 1
        /\ \A i \in 1 .. Len(shows') : shows'[i] = shows[i + 1]
        /\ shows' = <<>> <=> Len(shows) = 1
    <2>1. /\ shows \in Seq(KeyShow) /\ shows # <<>>
      BY <1>1, <1>2 DEF KeyTypes
    <2>2. /\ Head(shows) \in KeyShow /\ Head(shows) = shows[1] /\ Tail(shows) \in Seq(KeyShow)
          /\ Len(shows) \in Nat /\ Len(shows) # 0 /\ Len(Tail(shows)) = Len(shows) - 1
          /\ \A i \in 1 .. Len(Tail(shows)) : Tail(shows)[i] = shows[i + 1]
      BY <2>1
    <2>3. Tail(shows) = <<>> <=> Len(Tail(shows)) = 0
      BY <2>2
    <2> QED
      BY <1>2, <2>2, <2>3
  <1>4. Head(shows).n \in Nat
    BY <1>3 DEF KeyShow
  <1>5. KeyTypes'
    BY <1>1, <1>2, <1>3, <1>4 DEF KeyTypes
  <1>6. NewestButton' = NewestButton
    <2>1. CASE Len(shows) = 1
      BY <1>2, <1>3, <2>1 DEF NewestButton
    <2>2. CASE Len(shows) # 1
      <3>1. Len(shows') \in 1 .. Len(shows') /\ Len(shows') + 1 = Len(shows)
        BY <1>3, <2>2
      <3>2. shows'[Len(shows')] = shows[Len(shows)]
        BY <1>3, <3>1
      <3> QED
        BY <1>2, <1>3, <2>2, <3>2 DEF NewestButton
    <2> QED
      BY <2>1, <2>2
  <1>7. ASSUME NEW i \in 1 .. Len(shows), shows[i].n # NoChallenge
        PROVE  prompts' # {} \/ DialogUnderWay'
    <2>1. CASE i = 1
      BY <1>2, <1>3, <1>7, <2>1
    <2>2. CASE i # 1
      <3>1. i - 1 \in 1 .. Len(shows') /\ (i - 1) + 1 = i
        BY <1>3, <2>2
      <3>2. shows'[i - 1] = shows[i]
        BY <1>3, <3>1
      <3> QED
        BY <1>7, <3>1, <3>2 DEF DialogUnderWay
    <2> QED
      BY <2>1, <2>2
  <1>8. (prompts # {} => prompts' # {}) /\ (AnswerUnderWay => AnswerUnderWay')
    BY <1>2 DEF AnswerUnderWay
  <1>9. loading' => prompts' # {} \/ DialogUnderWay' \/ AnswerUnderWay'
    BY <1>1, <1>2, <1>7, <1>8 DEF DialogUnderWay
  <1> QED
    BY <1>1, <1>2, <1>5, <1>6, <1>9 DEF KeyInv

\* The browser, the member and the connection.
LEMMA KeyPageKeeps ==
  ASSUME KeyInv, Browser \/ PressKey \/ RejoinKeys \/ UNCHANGED keyVars
  PROVE  KeyInv'
  <1>1. /\ KeyTypes /\ NewestButton = KeyButton(supported, loading, through)
        /\ loading => prompts # {} \/ DialogUnderWay \/ AnswerUnderWay
    BY DEF KeyInv
  <1>2. ASSUME NEW n \in prompts, BrowserSigns(n) \/ BrowserRefuses(n) PROVE KeyInv'
    <2>1. PICK e \in KeyAsk : asks' = Append(asks, e) /\ e.kind \in {"credential", "error"}
      BY <1>1, <1>2 DEF BrowserSigns, BrowserRefuses, Ask, KeyAsk, KeyKinds, KeyTypes
    <2>2. /\ prompts' = prompts \ {n}
          /\ UNCHANGED <<supported, loading, challenge, through, issued, shows, keyButton>>
      BY <1>2 DEF BrowserSigns, BrowserRefuses
    <2>3. asks' \in Seq(KeyAsk) /\ AnswerUnderWay'
      BY <1>1, <2>1, KeyAsksAppend
    <2>4. KeyTypes'
      BY <1>1, <2>2, <2>3 DEF KeyTypes
    <2> QED
      BY <1>1, <2>2, <2>3, <2>4 DEF KeyInv, NewestButton
  <1>3. CASE PressKey
    <2>1. /\ Ask("press", NoChallenge) \in KeyAsk
          /\ asks' = Append(asks, Ask("press", NoChallenge))
      BY <1>3 DEF PressKey, Ask, KeyAsk, KeyKinds, NoChallenge
    <2>2. UNCHANGED <<supported, loading, challenge, through, issued, shows, keyButton, prompts>>
      BY <1>3 DEF PressKey
    <2>3. asks' \in Seq(KeyAsk) /\ (AnswerUnderWay => AnswerUnderWay')
      BY <1>1, <2>1, KeyAsksAppend
    <2>4. KeyTypes'
      BY <1>1, <2>2, <2>3 DEF KeyTypes
    <2> QED
      BY <1>1, <2>2, <2>3, <2>4 DEF KeyInv, NewestButton, DialogUnderWay
  <1>4. CASE RejoinKeys
    <2> DEFINE d == [button |-> "hidden", n |-> NoChallenge]
    <2>1. d \in KeyShow /\ d.button = "hidden"
      BY DEF KeyShow, NoChallenge
    <2>2. /\ supported' = FALSE /\ loading' = FALSE /\ challenge' = NoChallenge
          /\ asks' = <<>> /\ shows' = <<d>> /\ UNCHANGED <<through, issued, prompts>>
      BY <1>4 DEF RejoinKeys
    <2> HIDE DEF d
    <2>3. KeyTypes'
      <3>1. <<>> \in Seq(KeyAsk) /\ <<d>> \in Seq(KeyShow) /\ NoChallenge \in Nat
        BY <2>1 DEF NoChallenge
      <3> QED
        BY <1>1, <2>2, <3>1 DEF KeyTypes
    <2>4. NewestButton' = "hidden"
      BY <2>1, <2>2 DEF NewestButton
    <2> QED
      BY <2>2, <2>3, <2>4 DEF KeyInv, KeyButton
  <1>5. CASE UNCHANGED keyVars
    <2>1. KeyTypes' /\ NewestButton' = NewestButton
      BY <1>1, <1>5 DEF keyVars, KeyTypes, NewestButton
    <2> QED
      BY <1>1, <1>5, <2>1 DEF keyVars, KeyInv, DialogUnderWay, AnswerUnderWay
  <1> QED
    BY <1>2, <1>3, <1>4, <1>5 DEF Browser

\* Whatever the order of presses, dialogs, answers and lost connections, the
\* passkey button is never disabled with nothing left that could enable it.
THEOREM DisabledKeyIsAnswerable == KeyInit /\ [][KeyNext]_keyVars => []KeyAnswerable
  <1>1. KeyInit => KeyInv
    <2> SUFFICES ASSUME KeyInit PROVE KeyInv
      OBVIOUS
    <2>1. Ask("supported", NoChallenge) \in KeyAsk
      BY DEF Ask, KeyAsk, KeyKinds, NoChallenge
    <2>2. asks \in Seq(KeyAsk) /\ shows = <<>> /\ keyButton = "hidden"
      <3>1. asks = <<>> \/ asks = <<Ask("supported", NoChallenge)>>
        BY DEF KeyInit
      <3>2. <<>> \in Seq(KeyAsk) /\ <<Ask("supported", NoChallenge)>> \in Seq(KeyAsk)
        BY <2>1
      <3> QED
        BY <3>1, <3>2 DEF KeyInit
    <2>3. KeyTypes
      <3>1. <<>> \in Seq(KeyShow) /\ {} \subseteq Nat /\ 0 \in Nat
        OBVIOUS
      <3> QED
        BY <2>2, <3>1 DEF KeyInit, KeyTypes, NoChallenge
    <2>4. NewestButton = KeyButton(supported, loading, through)
      BY <2>2 DEF KeyInit, NewestButton, KeyButton
    <2> QED
      BY <2>3, <2>4 DEF KeyInit, KeyInv
  <1>2. KeyInv /\ [KeyNext]_keyVars => KeyInv'
    BY KeyHandlersKeep, KeyDiffKeeps, KeyPageKeeps DEF KeyNext
  <1>3. KeyInv => KeyAnswerable
    <2> SUFFICES ASSUME KeyInv, keyButton = "disabled", shows = <<>>
                 PROVE  prompts # {} \/ asks # <<>>
      BY DEF KeyAnswerable
    <2>1. loading /\ ~DialogUnderWay
      BY DEF KeyInv, KeyTypes, NewestButton, KeyButton, DialogUnderWay
    <2>2. AnswerUnderWay => asks # <<>>
      BY DEF AnswerUnderWay
    <2> QED
      BY <2>1, <2>2 DEF KeyInv
  <1> QED
    BY <1>1, <1>2, <1>3, PTL
=============================================================================
