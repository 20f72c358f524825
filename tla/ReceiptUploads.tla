----------------------------- MODULE ReceiptUploads -----------------------------
(***************************************************************************)
(* Receipts on an expense report: files upload by themselves, and once     *)
(* done the page attaches them without being asked.  Two pollers press the *)
(* "Attach Receipt" button for the member: the AutoConsumeUpload hook of   *)
(* every progress bar (assets/js/auto_consume_upload.js) and an interval   *)
(* of app.js; expense_report_live.ex attaches.  The template shows every   *)
(* upload under every row that has no receipt, all with the same element   *)
(* ids, so that each poller finds the button of the first such row.        *)
(***************************************************************************)
EXTENDS Naturals, Sequences, FiniteSets

CONSTANTS Row,      \* the rows of the report, numbered from the top
          Upload    \* the files the member chooses

ASSUME RowAssumption == Row \subseteq Nat \ {0} /\ Upload \subseteq Nat \ {0}

Nobody == 0

VARIABLES
  entry,      \* @uploads.receipt.entries: the state of each file
  receipt,    \* receipt_s3_path of each row
  shownEntry, shownReceipt,  \* what the DOM shows of the two
  tries,      \* consume-receipt and cancel-upload events on their way
  consumed,   \* this.consumed of the hook of <<row, file>>
  flagged,    \* buttons <<row, file>> with dataset.consumed
  attaching,  \* buttons that phx-disable-with has disabled
  timers      \* clicks to come, of hooks and of the interval

uploadVars == <<entry, receipt, shownEntry, shownReceipt, tries, consumed, flagged,
                attaching, timers>>

Present(state) == state \in {"uploading", "done"}

Blocks(shown) == {i \in Row : shown[i] = Nobody}

\* document.getElementById: the button in the first row that has one.
FirstBlock == CHOOSE i \in Blocks(shownReceipt) : \A j \in Blocks(shownReceipt) : i <= j

\* The button a poller finds can be pressed.
Pressable(u) ==
  /\ Blocks(shownReceipt) # {}
  /\ shownEntry[u] = "done" /\ <<FirstBlock, u>> \notin attaching

-----------------------------------------------------------------------------
(* The LiveView *)

\* Mutant: the callback postpones, and the entry stays.
LeavesEntry(u) == entry

\* consume_uploaded_entry, whether the copy to S3 works or not.
Consumes(u) == [entry EXCEPT ![u] = "gone"]

\* consume-receipt: the row comes from the button, the file must still be there.
HandleConsume ==
  /\ tries # <<>> /\ Head(tries).kind = "consume" /\ tries' = Tail(tries)
  /\ LET e == Head(tries)
     IN /\ attaching' = attaching \ {<<e.row, e.u>>}
        /\ IF entry[e.u] # "done" THEN UNCHANGED <<entry, receipt>>
           ELSE /\ entry' = Consumes(e.u)
                /\ \/ receipt' = [receipt EXCEPT ![e.row] = e.u]
                   \/ UNCHANGED receipt
  /\ UNCHANGED <<shownEntry, shownReceipt, consumed, flagged, timers>>

HandleCancel ==
  /\ tries # <<>> /\ Head(tries).kind = "cancel" /\ tries' = Tail(tries)
  /\ Present(entry[Head(tries).u])
  /\ entry' = [entry EXCEPT ![Head(tries).u] = "gone"]
  /\ UNCHANGED <<receipt, shownEntry, shownReceipt, consumed, flagged, attaching, timers>>

\* cancel_upload raises for a file that a poller had attached meanwhile: the
\* LiveView starts again, without uploads and without receipts.
CancelTooLate ==
  /\ tries # <<>> /\ Head(tries).kind = "cancel" /\ tries' = <<>>
  /\ ~Present(entry[Head(tries).u])
  /\ entry' = [u \in Upload |-> IF entry[u] = "none" THEN "none" ELSE "gone"]
  /\ receipt' = [i \in Row |-> Nobody]
  /\ attaching' = {}
  /\ UNCHANGED <<shownEntry, shownReceipt, consumed, flagged, timers>>

\* auto_upload
ChooseFile(u) ==
  /\ entry[u] = "none" /\ Blocks(shownReceipt) # {}
  /\ entry' = [entry EXCEPT ![u] = "uploading"]
  /\ UNCHANGED <<receipt, shownEntry, shownReceipt, tries, consumed, flagged, attaching, timers>>

\* done? and progress 100; one that fails stays as it is until it is cancelled.
UploadEnds(u) ==
  /\ entry[u] = "uploading"
  /\ entry' = [entry EXCEPT ![u] = "done"]
  /\ UNCHANGED <<receipt, shownEntry, shownReceipt, tries, consumed, flagged, attaching, timers>>

-----------------------------------------------------------------------------
(* The page *)

\* A diff: hooks of rows and files that went are destroyed, and a patched
\* button may lose the attribute the interval left on it.
DrawUploads ==
  /\ <<shownEntry, shownReceipt>> # <<entry, receipt>>
  /\ shownEntry' = entry /\ shownReceipt' = receipt
  /\ LET there == {p \in Row \X Upload : receipt[p[1]] = Nobody /\ Present(entry[p[2]])}
     IN /\ consumed' = consumed \cap there
        /\ \E kept \in {flagged, {}} : flagged' = kept \cap there
        /\ attaching' = attaching \cap there
  /\ UNCHANGED <<entry, receipt, tries, timers>>

Timer(by, u) == [by |-> by, row |-> FirstBlock, u |-> u]

\* checkAndConsume of the hook in row i, every 300 ms and on every update.
HookChecks(i, u) ==
  /\ i \in Blocks(shownReceipt) /\ Pressable(u) /\ <<i, u>> \notin consumed
  /\ consumed' = consumed \cup {<<i, u>>}
  /\ timers' = timers \cup {Timer("hook", u)}
  /\ UNCHANGED <<entry, receipt, shownEntry, shownReceipt, tries, flagged, attaching>>

\* Mutant: the interval only looks at files no hook has taken up.
IntervalDefers(u) ==
  /\ Pressable(u) /\ <<FirstBlock, u>> \notin flagged
  /\ \A i \in Row : <<i, u>> \notin consumed
  /\ flagged' = flagged \cup {<<FirstBlock, u>>}
  /\ timers' = timers \cup {Timer("interval", u)}
  /\ UNCHANGED <<entry, receipt, shownEntry, shownReceipt, tries, consumed, attaching>>

\* The interval of app.js, every 500 ms.
IntervalChecks(u) ==
  /\ Pressable(u) /\ <<FirstBlock, u>> \notin flagged
  /\ flagged' = flagged \cup {<<FirstBlock, u>>}
  /\ timers' = timers \cup {Timer("interval", u)}
  /\ UNCHANGED <<entry, receipt, shownEntry, shownReceipt, tries, consumed, attaching>>

\* 100 or 300 ms later: a click on a button that has left the page, or is
\* disabled, does nothing.
Clicks(t) ==
  /\ t \in timers /\ timers' = timers \ {t}
  /\ IF t.row \in Blocks(shownReceipt) /\ shownEntry[t.u] = "done" /\ <<t.row, t.u>> \notin attaching
     THEN /\ tries' = Append(tries, [kind |-> "consume", u |-> t.u, row |-> t.row])
          /\ attaching' = attaching \cup {<<t.row, t.u>>}
     ELSE UNCHANGED <<tries, attaching>>
  /\ UNCHANGED <<entry, receipt, shownEntry, shownReceipt, consumed, flagged>>

CancelUpload(u) ==
  /\ Blocks(shownReceipt) # {} /\ Present(shownEntry[u])
  /\ \A e \in {tries[k] : k \in DOMAIN tries} : e.kind # "cancel"
  /\ tries' = Append(tries, [kind |-> "cancel", u |-> u, row |-> Nobody])
  /\ UNCHANGED <<entry, receipt, shownEntry, shownReceipt, consumed, flagged, attaching, timers>>

-----------------------------------------------------------------------------
UploadInit ==
  /\ entry = [u \in Upload |-> "none"] /\ shownEntry = entry
  /\ receipt = [i \in Row |-> Nobody] /\ shownReceipt = receipt
  /\ tries = <<>> /\ consumed = {} /\ flagged = {} /\ attaching = {} /\ timers = {}

AttachEvent == HandleConsume \/ HandleCancel \/ CancelTooLate

Intervals == \E u \in Upload : IntervalChecks(u)

Presses == \E t \in timers : Clicks(t)

UploadNext ==
  \/ AttachEvent \/ DrawUploads \/ Intervals \/ Presses
  \/ \E u \in Upload : ChooseFile(u) \/ UploadEnds(u) \/ CancelUpload(u)
  \/ \E i \in Row, u \in Upload : HookChecks(i, u)

UploadSpec == UploadInit /\ [][UploadNext]_uploadVars

-----------------------------------------------------------------------------
\* A file is the receipt of at most one row, though several hooks and the
\* interval press for it, on buttons that may be of different rows by then.
AttachedOnce ==
  \A i, j \in Row : receipt[i] = receipt[j] /\ receipt[i] # Nobody => i = j

\* A finished upload is attached or dropped, as long as a row needs it: a
\* click that is lost because its row went is made up for by the interval.
UploadSettles ==
  \A u \in Upload :
    entry[u] = "done" ~> entry[u] = "gone" \/ Blocks(receipt) = {}
=============================================================================
