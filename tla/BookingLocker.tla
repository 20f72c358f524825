--------------------------- MODULE BookingLocker ---------------------------
(***************************************************************************)
(* The cabin inventory of the club: lib/ysc/bookings/booking_locker.ex,    *)
(* the hold expiry worker that sweeps expired holds, and the two admin     *)
(* screens that change a booking behind the locker's back.                 *)
(*                                                                         *)
(* Every operation is a PostgreSQL transaction at READ COMMITTED, run by a *)
(* process (a LiveView, an Oban worker, an admin screen).  A transaction   *)
(* is split at its reads: each SELECT is a step that sees what has been    *)
(* committed, and all its writes are one step at the commit.  The writes   *)
(* hold their row locks until the commit and every UPDATE re-evaluates its *)
(* WHERE clause on the locked row, so a transaction that commits is        *)
(* equivalent to one that writes everything at its commit.                 *)
(*                                                                         *)
(* A booking identifier b stands for one request a member (or an admin)    *)
(* may make; Ask[b] says for what.  Prices, e-mails, reminders, telemetry  *)
(* and logging are left out.                                               *)
(***************************************************************************)
EXTENDS Integers, FiniteSets, FiniteSetsExt

CONSTANTS
  Booking,       \* the requests that may be made in this instance
  Ask,           \* Ask[b]: what request b is for
  User, Day, Room,
  Proc,          \* the BEAM processes that run transactions
  May,           \* May[p]: the operations process p runs (the workload)
  Capacity,      \* Capacity[prop]: capacity_total of a new inventory row
  Blackout,      \* Blackout[prop]: the nights an admin has blacked out
  MaxAttempts,   \* retry_on_stale's max_attempts
  MaxCrashes,    \* bound on the transactions that die half way
  PricingFails   \* whether pricing a room booking may find no price

Property == {"tahoe", "clear_lake"}
Mode == {"buyout", "room", "day"}

Request == [property: Property, mode: Mode, user: User, days: SUBSET Day,
            rooms: SUBSET Room, guests: Nat \ {0}]

Creation == {"buyout", "room", "day"}
Lifecycle == {"confirm", "reconfirm", "release", "cancel", "refund"}
AdminOp == {"admin", "mark_refunded", "delete"}
Op == Creation \cup Lifecycle \cup AdminOp \cup {"sweep"}

ASSUME BookingAssumption ==
  /\ Booking # {} /\ IsFiniteSet(Booking)
  /\ Ask \in [Booking -> Request]
  /\ \A b \in Booking : /\ Ask[b].days # {}
                        /\ Ask[b].mode = "room" => Ask[b].property = "tahoe"
                        /\ Ask[b].mode = "room" <=> Ask[b].rooms # {}
  /\ May \in [Proc -> SUBSET Op]
  /\ Capacity \in [Property -> Nat]
  /\ Blackout \in [Property -> SUBSET Day]
  /\ MaxAttempts \in Nat \ {0}
  /\ MaxCrashes \in Nat
  /\ PricingFails \in BOOLEAN

VARIABLES
  propInv,   \* table property_inventory: propInv[prop][day]
  roomInv,   \* table room_inventory: roomInv[room][day]
  status,    \* table bookings: status[b], "none" before its insert
  expired,   \* the bookings whose hold_expires_at has passed
  tx,        \* tx[p]: what process p is doing
  crashes    \* how many transactions have died half way (a model bound)

vars == <<propInv, roomInv, status, expired, tx, crashes>>

PropRow == [exists: BOOLEAN, held: Nat, booked: Nat,
            buyoutHeld: BOOLEAN, buyoutBooked: BOOLEAN, version: Nat]
RoomRow == [exists: BOOLEAN, held: BOOLEAN, booked: BOOLEAN, version: Nat]

Status == {"none", "hold", "complete", "canceled", "refunded", "deleted"}

\* One process: the operation and booking of its open transaction, where it
\* is in it, the attempt of retry_on_stale, what it has read (row versions
\* and capacity_held), and the holds it has still to release.
Tx == [op: Op \cup {"none"}, pc: {"idle", "read", "check", "write", "list", "next"},
       b: Booking, attempt: Nat,
       propVer: [Day -> Nat], seenHeld: [Day -> Nat],
       roomVer: [Room -> [Day -> Nat]], todo: SUBSET Booking]

FreshPropRow == [exists |-> FALSE, held |-> 0, booked |-> 0, buyoutHeld |-> FALSE,
                 buyoutBooked |-> FALSE, version |-> 1]
FreshRoomRow == [exists |-> FALSE, held |-> FALSE, booked |-> FALSE, version |-> 1]

NothingSeen == [d \in Day |-> 0]
NoRoomSeen == [r \in Room |-> NothingSeen]
Idle == [op |-> "none", pc |-> "idle", b |-> CHOOSE b \in Booking : TRUE,
         attempt |-> 0, propVer |-> NothingSeen, seenHeld |-> NothingSeen,
         roomVer |-> NoRoomSeen, todo |-> {}]

PropOf(b) == Ask[b].property
Nights(b) == Ask[b].days

\* Rows may be left over from earlier bookings that ended: present and free.
\* (Rows nobody asks for are left out of the instance.)
PropNights == {<<PropOf(b), d>> : b \in Booking, d \in Day}
RoomNights == UNION {Ask[b].rooms \X Nights(b) : b \in Booking}

Init ==
  /\ \E nights \in SUBSET PropNights :
       propInv = [prop \in Property |-> [d \in Day |->
                    [FreshPropRow EXCEPT !.exists = <<prop, d>> \in nights]]]
  /\ \E nights \in SUBSET RoomNights :
       roomInv = [r \in Room |-> [d \in Day |->
                    [FreshRoomRow EXCEPT !.exists = <<r, d>> \in nights]]]
  /\ status = [b \in Booking |-> "none"]
  /\ expired = {}
  /\ tx = [p \in Proc |-> Idle]
  /\ crashes = 0

-----------------------------------------------------------------------------
(* Requests and rows *)

Live(b) == status[b] \in {"hold", "complete"}

\* ensure_property_inventory_row / ensure_room_inventory_row insert the rows
\* that are missing; until the commit they are locked against everyone else.
NeedsProp(b, prop, d) == PropOf(b) = prop /\ d \in Nights(b)
NeedsRoom(b, r, d) == r \in Ask[b].rooms /\ d \in Nights(b)

Creating(p) == tx[p].pc \in {"check", "write"} /\ tx[p].op \in Creation

NoInsertPending(p, b) ==
  \A q \in Proc \ {p} : Creating(q) =>
    /\ \A d \in Nights(b) :
         NeedsProp(tx[q].b, PropOf(b), d) => propInv[PropOf(b)][d].exists
    /\ \A r \in Ask[b].rooms, d \in Nights(b) :
         NeedsRoom(tx[q].b, r, d) => roomInv[r][d].exists

NoBuyout(row) == ~row.buyoutHeld /\ ~row.buyoutBooked
RoomFree(row) == ~row.held /\ ~row.booked
BuyoutFits(prop, row) ==
  NoBuyout(row) /\ (prop = "clear_lake" => row.held = 0 /\ row.booked = 0)
\* Mutant: only confirmed guests count; only the numbers count.
DayFitsIgnoringHolds(prop, row, guests) ==
  NoBuyout(row) /\ row.booked + guests <= Capacity[prop]
DayFitsIgnoringBuyout(prop, row, guests) ==
  row.booked + row.held + guests <= Capacity[prop]

DayFits(prop, row, guests) ==
  NoBuyout(row) /\ row.booked + row.held + guests <= Capacity[prop]

\* What the first SELECT of a creation must find.
FirstReadOK(b) ==
  CASE Ask[b].mode = "buyout" ->
         \A d \in Nights(b) : BuyoutFits(PropOf(b), propInv[PropOf(b)][d])
    [] Ask[b].mode = "room" ->
         \A r \in Ask[b].rooms, d \in Nights(b) : RoomFree(roomInv[r][d])
    [] Ask[b].mode = "day" ->
         \A d \in Nights(b) : DayFits(PropOf(b), propInv[PropOf(b)][d], Ask[b].guests)

\* Mutant: the second table is not looked at.
SecondReadSkipped(b) == Nights(b) \cap Blackout[PropOf(b)] = {}

\* What the second one must find: a Tahoe buyout looks at the rooms, a room
\* booking at the buyout flags.
SecondReadOK(b) ==
  /\ Ask[b].mode = "buyout" /\ PropOf(b) = "tahoe" =>
       \A r \in Room, d \in Nights(b) : RoomFree(roomInv[r][d])
  /\ Ask[b].mode = "room" => \A d \in Nights(b) : NoBuyout(propInv[PropOf(b)][d])
  /\ Ask[b].mode # "room" => Nights(b) \cap Blackout[PropOf(b)] = {}

-----------------------------------------------------------------------------
(* create_buyout_booking, create_room_booking, create_per_guest_booking *)

\* A request is made once: its booking's identifier is drawn at the insert.
NotInProgress(b) == \A q \in Proc : tx[q].b = b => tx[q].pc = "idle"

BeginCreate(p, b) ==
  /\ tx[p].pc = "idle"
  /\ status[b] = "none"
  /\ NotInProgress(b)
  /\ Ask[b].mode \in May[p]
  /\ tx' = [tx EXCEPT ![p] = [Idle EXCEPT !.op = Ask[b].mode, !.pc = "read",
                                          !.b = b, !.attempt = 1]]
  /\ UNCHANGED <<propInv, roomInv, status, expired, crashes>>

\* Ensure the rows, take the first read, validate it and remember what the
\* UPDATE will be conditional on.
EnsureAndRead(p) ==
  LET b == tx[p].b IN
  /\ tx[p].pc = "read"
  /\ NoInsertPending(p, b)
  /\ IF FirstReadOK(b)
       THEN tx' = [tx EXCEPT ![p].pc = "check",
              ![p].propVer = [d \in Day |-> IF d \in Nights(b) /\ Ask[b].mode # "room"
                                              THEN propInv[PropOf(b)][d].version ELSE 0],
              ![p].seenHeld = [d \in Day |-> IF d \in Nights(b) /\ Ask[b].mode = "day"
                                               THEN propInv[PropOf(b)][d].held ELSE 0],
              ![p].roomVer = [r \in Room |-> [d \in Day |->
                                IF NeedsRoom(b, r, d) THEN roomInv[r][d].version ELSE 0]]]
       ELSE tx' = [tx EXCEPT ![p] = Idle]
  /\ UNCHANGED <<propInv, roomInv, status, expired, crashes>>

CheckOther(p) ==
  LET b == tx[p].b IN
  /\ tx[p].pc = "check"
  /\ tx' = [tx EXCEPT ![p] = IF SecondReadOK(b) THEN [@ EXCEPT !.pc = "write"] ELSE Idle]
  /\ UNCHANGED <<propInv, roomInv, status, expired, crashes>>

\* Mutant: UPDATEs without a WHERE on version and availability, or without
\* the version only.
RowUnchangedUnchecked(p, b) == TRUE
RowUnchangedNoVersion(p, b) ==
  \A d \in Nights(b) :
    Ask[b].mode = "day" => DayFits(PropOf(b), propInv[PropOf(b)][d], Ask[b].guests)

\* The WHERE clauses of the UPDATEs, evaluated on the rows as they now are.
RowUnchanged(p, b) ==
  CASE Ask[b].mode = "buyout" ->
         \A d \in Nights(b) :
           /\ propInv[PropOf(b)][d].version = tx[p].propVer[d]
           /\ BuyoutFits(PropOf(b), propInv[PropOf(b)][d])
    [] Ask[b].mode = "room" ->
         \A r \in Ask[b].rooms, d \in Nights(b) :
           /\ roomInv[r][d].version = tx[p].roomVer[r][d]
           /\ RoomFree(roomInv[r][d])
    [] Ask[b].mode = "day" ->
         \A d \in Nights(b) :
           /\ propInv[PropOf(b)][d].version = tx[p].propVer[d]
           /\ DayFits(PropOf(b), propInv[PropOf(b)][d], Ask[b].guests)

\* The row a creation leaves behind: capacity_held is what was READ plus the
\* guests, the version what was read plus one.
HeldProp(p, b, prop, d) ==
  LET row == propInv[prop][d] IN
  CASE ~NeedsProp(b, prop, d) -> row
    [] NeedsProp(b, prop, d) /\ Ask[b].mode = "buyout" ->
         [row EXCEPT !.exists = TRUE, !.buyoutHeld = TRUE, !.version = tx[p].propVer[d] + 1]
    [] NeedsProp(b, prop, d) /\ Ask[b].mode = "room" -> [row EXCEPT !.exists = TRUE]
    [] NeedsProp(b, prop, d) /\ Ask[b].mode = "day" ->
         [row EXCEPT !.exists = TRUE, !.held = tx[p].seenHeld[d] + Ask[b].guests,
                     !.version = tx[p].propVer[d] + 1]

HeldRoom(p, b, r, d) ==
  IF NeedsRoom(b, r, d)
    THEN [roomInv[r][d] EXCEPT !.exists = TRUE, !.held = TRUE,
                               !.version = tx[p].roomVer[r][d] + 1]
    ELSE roomInv[r][d]

HoldRows(p, b) ==
  /\ propInv' = [prop \in Property |-> [d \in Day |-> HeldProp(p, b, prop, d)]]
  /\ roomInv' = [r \in Room |-> [d \in Day |-> HeldRoom(p, b, r, d)]]

CommitCreate(p) ==
  LET b == tx[p].b IN
  /\ tx[p].pc = "write" /\ tx[p].op \in Creation
  /\ RowUnchanged(p, b)
  /\ HoldRows(p, b)
  /\ status' = [status EXCEPT ![b] = "hold"]
  /\ tx' = [tx EXCEPT ![p] = Idle]
  /\ UNCHANGED <<expired, crashes>>

\* A room booking whose price cannot be calculated returns {:error, _} from
\* inside the transaction instead of rolling it back: the rows stay held.
CommitUnpriced(p) ==
  LET b == tx[p].b IN
  /\ PricingFails
  /\ tx[p].pc = "write" /\ tx[p].op = "room"
  /\ RowUnchanged(p, b)
  /\ HoldRows(p, b)
  /\ tx' = [tx EXCEPT ![p] = Idle]
  /\ UNCHANGED <<status, expired, crashes>>

\* An UPDATE that hit no row raises Ecto.StaleEntryError: roll back, retry.
StaleCreate(p) ==
  LET b == tx[p].b IN
  /\ tx[p].pc = "write" /\ tx[p].op \in Creation
  /\ ~RowUnchanged(p, b)
  /\ tx' = [tx EXCEPT ![p] =
              IF tx[p].attempt < MaxAttempts
                THEN [Idle EXCEPT !.op = tx[p].op, !.pc = "read", !.b = b,
                                  !.attempt = tx[p].attempt + 1]
                ELSE Idle]
  /\ UNCHANGED <<propInv, roomInv, status, expired, crashes>>

-----------------------------------------------------------------------------
(* confirm_booking, release_hold, cancel_complete_booking,                 *)
(* refund_complete_booking                                                 *)

\* The status each operation insists on.  confirm_booking lets a booking that
\* is already :complete through to its inventory update ("reconfirm").
Expects == [confirm |-> "hold", reconfirm |-> "complete", release |-> "hold",
            cancel |-> "complete", refund |-> "complete"]
\* Mutant: a release that forgets to write the status.
LeavesHeld == [confirm |-> "complete", reconfirm |-> "complete", release |-> "hold",
               cancel |-> "canceled", refund |-> "refunded"]
Leaves == [confirm |-> "complete", reconfirm |-> "complete", release |-> "canceled",
           cancel |-> "canceled", refund |-> "refunded"]

Confirming == {"confirm", "reconfirm"}

\* Repo.get! without a lock: the status is read here and never looked at again.
BeginLifecycle(p, op, b) ==
  /\ tx[p].pc = "idle"
  /\ op \in May[p]
  /\ status[b] = Expects[op]
  /\ tx' = [tx EXCEPT ![p] = [Idle EXCEPT !.op = op, !.pc = "write", !.b = b]]
  /\ UNCHANGED <<propInv, roomInv, status, expired, crashes>>

\* Mutant: a confirmation adds to capacity_booked but leaves capacity_held.
HeldStepOnRelease(op) == IF op = "release" THEN -1 ELSE 0

\* What the operation adds to capacity_held and capacity_booked per guest.
HeldStep(op) == IF op \in Confirming \cup {"release"} THEN -1 ELSE 0
BookedStep(op) ==
  CASE op \in Confirming -> 1 [] op \in {"cancel", "refund"} -> -1 [] OTHER -> 0

MovedProp(op, b, prop, d) ==
  LET row == propInv[prop][d] IN
  IF ~NeedsProp(b, prop, d) \/ ~row.exists \/ Ask[b].mode = "room" THEN row
  ELSE IF Ask[b].mode = "day"
    THEN [row EXCEPT !.held = @ + HeldStep(op) * Ask[b].guests,
                     !.booked = @ + BookedStep(op) * Ask[b].guests]
    ELSE [row EXCEPT !.buyoutHeld = @ /\ op \notin Confirming \cup {"release"},
                     !.buyoutBooked = op \in Confirming
                                        \/ (@ /\ op \notin {"cancel", "refund"})]

\* Mutant: a release leaves the room held; a confirmation clears the hold and
\* does not book.
MovedRoomKeepingHold(op, b, r, d) ==
  IF NeedsRoom(b, r, d)
    THEN [roomInv[r][d] EXCEPT !.held = @ /\ op \notin Confirming,
                               !.booked = op \in Confirming \/ @]
    ELSE roomInv[r][d]
MovedRoomNotBooked(op, b, r, d) ==
  IF NeedsRoom(b, r, d) THEN [roomInv[r][d] EXCEPT !.held = FALSE] ELSE roomInv[r][d]

MovedRoom(op, b, r, d) ==
  LET row == roomInv[r][d] IN
  IF ~NeedsRoom(b, r, d) \/ ~row.exists THEN row
  ELSE [row EXCEPT !.held = @ /\ op \notin Confirming \cup {"release"},
                   !.booked = op \in Confirming \/ (@ /\ op \notin {"cancel", "refund"})]

\* The UPDATE must hit at least one row ...
SomeRow(b) ==
  IF Ask[b].mode = "room"
    THEN \E r \in Ask[b].rooms, d \in Nights(b) : roomInv[r][d].exists
    ELSE \E d \in Nights(b) : propInv[PropOf(b)][d].exists

\* Mutant: no CHECK constraints.
ChecksMissing(op, b) == TRUE

\* ... and the table's CHECK constraints refuse a negative counter.
ChecksHold(op, b) ==
  \A d \in Nights(b) : /\ MovedProp(op, b, PropOf(b), d).held >= 0
                       /\ MovedProp(op, b, PropOf(b), d).booked >= 0

\* Where a process goes after a transaction: on to the next hold to release.
Resume(todo) == [Idle EXCEPT !.pc = IF todo = {} THEN "idle" ELSE "next",
                             !.op = IF todo = {} THEN "none" ELSE "sweep",
                             !.todo = todo]

CommitLifecycle(p) ==
  LET b == tx[p].b
      op == tx[p].op
  IN /\ tx[p].pc = "write" /\ op \in Lifecycle
     /\ status[b] # "deleted"
     /\ SomeRow(b) /\ ChecksHold(op, b)
     /\ propInv' = [prop \in Property |-> [d \in Day |-> MovedProp(op, b, prop, d)]]
     /\ roomInv' = [r \in Room |-> [d \in Day |-> MovedRoom(op, b, r, d)]]
     /\ status' = [status EXCEPT ![b] = Leaves[op]]
     /\ expired' = expired \ {b}
     /\ tx' = [tx EXCEPT ![p] = IF op \in Confirming
                                  THEN [Idle EXCEPT !.op = op, !.pc = "list", !.b = b]
                                  ELSE Resume(tx[p].todo)]
     /\ UNCHANGED crashes

\* No row to update rolls back with {:error, _} and a sweep goes on; a CHECK
\* violation or a deleted booking raises and ends the whole process' work.
FailLifecycle(p) ==
  LET b == tx[p].b
      op == tx[p].op
      raises == SomeRow(b)
  IN /\ tx[p].pc = "write" /\ op \in Lifecycle
     /\ \/ status[b] = "deleted"
        \/ ~SomeRow(b)
        \/ ~ChecksHold(op, b)
     /\ tx' = [tx EXCEPT ![p] = IF raises THEN Idle ELSE Resume(tx[p].todo)]
     /\ UNCHANGED <<propInv, roomInv, status, expired, crashes>>

\* cancel_other_hold_bookings, after the confirmation has committed.
ListOtherHolds(p) ==
  LET b == tx[p].b
      others == {c \in Booking \ {b} : /\ status[c] = "hold"
                                       /\ PropOf(c) = PropOf(b)
                                       /\ Ask[c].user = Ask[b].user}
  IN /\ tx[p].pc = "list"
     /\ tx' = [tx EXCEPT ![p] = Resume(others)]
     /\ UNCHANGED <<propInv, roomInv, status, expired, crashes>>

\* The next release_hold of a sweep; one that is no longer on hold is skipped.
ReleaseNext(p) ==
  /\ tx[p].pc = "next"
  /\ \E c \in tx[p].todo :
       tx' = [tx EXCEPT ![p] =
                IF status[c] = "hold"
                  THEN [Idle EXCEPT !.op = "release", !.pc = "write", !.b = c,
                                    !.todo = tx[p].todo \ {c}]
                  ELSE IF status[c] = "deleted" THEN Idle
                  ELSE Resume(tx[p].todo \ {c})]
  /\ UNCHANGED <<propInv, roomInv, status, expired, crashes>>

-----------------------------------------------------------------------------
(* HoldExpiryWorker, the clock, and the admin screens *)

\* Thirty minutes pass.
HoldTimesOut(b) ==
  /\ status[b] = "hold" /\ b \notin expired
  /\ expired' = expired \cup {b}
  /\ UNCHANGED <<propInv, roomInv, status, tx, crashes>>

BeginSweep(p) ==
  LET due == {b \in expired : status[b] = "hold"} IN
  /\ tx[p].pc = "idle" /\ "sweep" \in May[p]
  /\ due # {}
  /\ tx' = [tx EXCEPT ![p] = Resume(due)]
  /\ UNCHANGED <<propInv, roomInv, status, expired, crashes>>

\* create_admin_booking: :complete at once, no availability check.  The rows
\* that exist are marked; only if none does are all of them inserted, over the
\* rows that others may have inserted meanwhile.
MarkedProp(b, prop, d) ==
  IF NeedsProp(b, prop, d) /\ Ask[b].mode = "buyout"
    THEN [propInv[prop][d] EXCEPT !.exists = TRUE, !.buyoutBooked = TRUE]
    ELSE propInv[prop][d]

MarkedRoom(b, r, d) ==
  IF NeedsRoom(b, r, d)
    THEN [roomInv[r][d] EXCEPT !.exists = TRUE, !.booked = TRUE, !.held = FALSE]
    ELSE roomInv[r][d]

AdminMark(p, b) ==
  /\ tx[p].pc = "idle" /\ "admin" \in May[p]
  /\ status[b] = "none"
  /\ NotInProgress(b)
  /\ Ask[b].mode = "day" \/ SomeRow(b)
  /\ propInv' = [prop \in Property |-> [d \in Day |->
       IF propInv[prop][d].exists THEN MarkedProp(b, prop, d) ELSE propInv[prop][d]]]
  /\ roomInv' = [r \in Room |-> [d \in Day |->
       IF roomInv[r][d].exists THEN MarkedRoom(b, r, d) ELSE roomInv[r][d]]]
  /\ status' = [status EXCEPT ![b] = "complete"]
  /\ UNCHANGED <<expired, tx, crashes>>

AdminFindsNoRow(p, b) ==
  /\ tx[p].pc = "idle" /\ "admin" \in May[p]
  /\ status[b] = "none"
  /\ NotInProgress(b)
  /\ Ask[b].mode # "day" /\ ~SomeRow(b)
  /\ tx' = [tx EXCEPT ![p] = [Idle EXCEPT !.op = "admin", !.pc = "write", !.b = b]]
  /\ UNCHANGED <<propInv, roomInv, status, expired, crashes>>

AdminInsert(p) ==
  LET b == tx[p].b IN
  /\ tx[p].pc = "write" /\ tx[p].op = "admin"
  /\ NoInsertPending(p, b)
  /\ propInv' = [prop \in Property |-> [d \in Day |-> MarkedProp(b, prop, d)]]
  /\ roomInv' = [r \in Room |-> [d \in Day |-> MarkedRoom(b, r, d)]]
  /\ status' = [status EXCEPT ![b] = "complete"]
  /\ tx' = [tx EXCEPT ![p] = Idle]
  /\ UNCHANGED <<expired, crashes>>

\* The refund form of the bookings screen with "release availability" ticked:
\* it writes the status and nothing else.  (It needs a payment, which a booking
\* made by AdminMark or AdminInsert does not have: no workload runs both.)
MarkRefunded(p, b) ==
  /\ tx[p].pc = "idle" /\ "mark_refunded" \in May[p]
  /\ status[b] = "complete"
  /\ status' = [status EXCEPT ![b] = "refunded"]
  /\ UNCHANGED <<propInv, roomInv, expired, tx, crashes>>

\* The delete button of the bookings screen: Repo.delete, inventory untouched.
DeleteBooking(p, b) ==
  /\ tx[p].pc = "idle" /\ "delete" \in May[p]
  /\ status[b] \notin {"none", "deleted"}
  /\ status' = [status EXCEPT ![b] = "deleted"]
  /\ UNCHANGED <<propInv, roomInv, expired, tx, crashes>>

\* A process dies, or PostgreSQL picks its transaction as a deadlock victim.
Crash(p) ==
  /\ tx[p].pc # "idle"
  /\ crashes < MaxCrashes
  /\ crashes' = crashes + 1
  /\ tx' = [tx EXCEPT ![p] = Idle]
  /\ UNCHANGED <<propInv, roomInv, status, expired>>

-----------------------------------------------------------------------------
\* The steps a process takes once it has started something.
Step(p) ==
  \/ EnsureAndRead(p)
  \/ CheckOther(p)
  \/ CommitCreate(p)
  \/ CommitUnpriced(p)
  \/ StaleCreate(p)
  \/ CommitLifecycle(p)
  \/ FailLifecycle(p)
  \/ ListOtherHolds(p)
  \/ ReleaseNext(p)
  \/ AdminInsert(p)

\* What callers may start.
Call(p) ==
  \/ BeginSweep(p)
  \/ \E b \in Booking :
       \/ BeginCreate(p, b)
       \/ \E op \in Lifecycle : BeginLifecycle(p, op, b)
       \/ AdminMark(p, b)
       \/ AdminFindsNoRow(p, b)
       \/ MarkRefunded(p, b)
       \/ DeleteBooking(p, b)

Next ==
  \/ \E p \in Proc : Step(p) \/ Call(p) \/ Crash(p)
  \/ \E b \in Booking : HoldTimesOut(b)

Spec == Init /\ [][Next]_vars

\* The BEAM runs a process that has work, the clock runs on, and cron starts
\* the expiry worker every five minutes.
Fairness ==
  /\ \A p \in Proc : WF_vars(Step(p)) /\ WF_vars(BeginSweep(p))
  /\ \A b \in Booking : WF_vars(HoldTimesOut(b))

FairSpec == Spec /\ Fairness

-----------------------------------------------------------------------------
(* Properties *)

TypeOK ==
  /\ propInv \in [Property -> [Day -> PropRow]]
  /\ roomInv \in [Room -> [Day -> RoomRow]]
  /\ status \in [Booking -> Status]
  /\ expired \subseteq Booking
  /\ tx \in [Proc -> Tx]
  /\ crashes \in 0 .. MaxCrashes

BuyoutOn(b, prop, d) == Live(b) /\ Ask[b].mode = "buyout" /\ NeedsProp(b, prop, d)
GuestsOn(b, prop, d) == Live(b) /\ Ask[b].mode = "day" /\ NeedsProp(b, prop, d)
RoomOn(b, r, d) == Live(b) /\ Ask[b].mode = "room" /\ NeedsRoom(b, r, d)

\* The guests of the day bookings in set S on a night.
GuestTotal(S, prop, d) ==
  SumFunctionOnSet([b \in Booking |-> Ask[b].guests], {b \in S : GuestsOn(b, prop, d)})

\* No two live bookings have the same room on the same night, and no two
\* buyouts have the same property on the same night.
NoDoubleBooking ==
  \A a, b \in Booking : a # b =>
    /\ \A r \in Room, d \in Day : ~(RoomOn(a, r, d) /\ RoomOn(b, r, d))
    /\ \A prop \in Property, d \in Day : ~(BuyoutOn(a, prop, d) /\ BuyoutOn(b, prop, d))

\* Every live booking is visible in the inventory its competitors look at: its
\* rooms are marked, its buyout nights flagged, its guests counted.
ClaimsMarked ==
  \A b \in Booking :
    /\ \A r \in Room, d \in Day : RoomOn(b, r, d) => ~RoomFree(roomInv[r][d])
    /\ \A prop \in Property, d \in Day : BuyoutOn(b, prop, d) => ~NoBuyout(propInv[prop][d])
GuestsCounted ==
  \A prop \in Property, d \in Day :
    GuestTotal(Booking, prop, d) <= propInv[prop][d].held + propInv[prop][d].booked
InventoryCoversBookings == ClaimsMarked /\ GuestsCounted

\* No night has more guests than the cabin sleeps.
NeverOverCapacity ==
  \A prop \in Property, d \in Day : GuestTotal(Booking, prop, d) <= Capacity[prop]

\* A bought-out night has nobody else in the cabin: no day guests at Clear
\* Lake, no room at Tahoe.
BuyoutExcludesGuests ==
  \A a, b \in Booking, prop \in Property, d \in Day :
    ~(BuyoutOn(a, prop, d) /\ GuestsOn(b, prop, d))
BuyoutExcludesRooms ==
  \A a, b \in Booking, r \in Room, d \in Day :
    ~(BuyoutOn(a, "tahoe", d) /\ RoomOn(b, r, d))

\* A room that is marked, or a buyout flag that is set, belongs to a live
\* booking: nothing stays blocked after the booking that blocked it is gone.
NoOrphanClaim ==
  /\ \A r \in Room, d \in Day :
       ~RoomFree(roomInv[r][d]) => \E b \in Booking : RoomOn(b, r, d)
  /\ \A prop \in Property, d \in Day :
       ~NoBuyout(propInv[prop][d]) => \E b \in Booking : BuyoutOn(b, prop, d)

\* What does not give its nights back: the delete button, the refund form, and a
\* room request that found no price.
LeftBehind(b) ==
  \/ status[b] = "deleted"
  \/ status[b] = "refunded" /\ \E p \in Proc : "mark_refunded" \in May[p]
  \/ status[b] = "none" /\ Ask[b].mode = "room" /\ PricingFails

\* A night that is blocked is blocked by a live booking or by one of those: no
\* confirmation, release, sweep, cancellation, retry or crash leaves one blocked.
MarksHaveOwners ==
  /\ \A r \in Room, d \in Day : ~RoomFree(roomInv[r][d]) =>
       \E b \in Booking : NeedsRoom(b, r, d) /\ (Live(b) \/ LeftBehind(b))
  /\ \A prop \in Property, d \in Day : ~NoBuyout(propInv[prop][d]) =>
       \E b \in Booking : /\ Ask[b].mode = "buyout" /\ NeedsProp(b, prop, d)
                          /\ Live(b) \/ LeftBehind(b)

\* The counters are exactly the guests on hold and the guests confirmed.
ExactCounters ==
  \A prop \in Property, d \in Day :
    /\ propInv[prop][d].held = GuestTotal({b \in Booking : status[b] = "hold"}, prop, d)
    /\ propInv[prop][d].booked = GuestTotal({b \in Booking : status[b] = "complete"}, prop, d)

\* A member's new hold never conflicts with a booking that is live at that moment.
\* Proved of members; an admin's booking of several nights breaks it (README).
Conflict(a, b) ==
  /\ PropOf(a) = PropOf(b) /\ Nights(a) \cap Nights(b) # {}
  /\ \/ Ask[a].rooms \cap Ask[b].rooms # {}
     \/ Ask[a].mode = "buyout" /\ Ask[b].mode # "room"
     \/ Ask[b].mode = "buyout" /\ Ask[a].mode # "room"
NewHoldsConflictFree ==
  [][\A a, b \in Booking : status[b] = "none" /\ status'[b] = "hold" /\ a # b /\ Live(a)
       => ~Conflict(a, b)]_vars

\* The locker implements CabinStays: whatever its transactions read, lock and
\* retry, a stay comes about at the one commit that grants it, against every
\* stay that is live at that moment, and moves on from there one step at a
\* time.  A room and a buyout of Tahoe are not told apart here (see
\* TahoeWriteSkew) ...
Clashing == {pair \in Booking \X Booking : Conflict(pair[1], pair[2])}
Stays == INSTANCE CabinStays WITH
  Clash <- Clashing,
  Party <- [b \in Booking |-> Ask[b].guests],
  Shared <- [b \in Booking |-> IF Ask[b].mode = "day" THEN {PropOf(b)} \X Nights(b) ELSE {}],
  Places <- [night \in Property \X Day |-> Capacity[night[1]]]
StaysGranted == Stays!Spec

\* ... and here they are, which needs that a room and a buyout of the same nights
\* are not being created at the same time.
Overlap(a, b) ==
  /\ PropOf(a) = PropOf(b) /\ Nights(a) \cap Nights(b) # {}
  /\ Ask[a].rooms \cap Ask[b].rooms # {} \/ "buyout" \in {Ask[a].mode, Ask[b].mode}
Apart == INSTANCE CabinStays WITH
  Clash <- {pair \in Booking \X Booking : Overlap(pair[1], pair[2])},
  Party <- [b \in Booking |-> Ask[b].guests],
  Shared <- [b \in Booking |-> IF Ask[b].mode = "day" THEN {PropOf(b)} \X Nights(b) ELSE {}],
  Places <- [night \in Property \X Day |-> Capacity[night[1]]]
StaysGrantedApart == Apart!Spec

\* A hold does not last for ever: it is confirmed, or released after it expired.
HoldsEnd == \A b \in Booking : status[b] = "hold" ~> status[b] # "hold"

-----------------------------------------------------------------------------
(* What the exclusivity of rooms and buyouts rests on *)

Worker(p) == May[p] \cap (Lifecycle \cup {"sweep", "mark_refunded", "delete"}) # {}

\* One process at a time works on existing bookings, and no admin books without
\* looking at the inventory.  Any number of members create bookings concurrently.
SerialLifecycle ==
  /\ \A p, q \in Proc : Worker(p) /\ Worker(q) => p = q
  /\ \A p \in Proc : "admin" \notin May[p]

InCreation(p) == tx[p].op \in Creation /\ tx[p].pc # "idle"

\* What a process believes about its booking is true: a request being created
\* does not exist yet and nobody else is creating it, and a booking about to be
\* changed still has the status that was read.
TxSound ==
  \A p \in Proc :
    /\ tx[p].pc \in {"list", "next"} => Worker(p) /\ tx[p].op \notin Creation
    /\ tx[p].pc \in {"read", "check"} => tx[p].op \in Creation
    /\ tx[p].pc = "write" => tx[p].op \in Creation \cup Lifecycle \cup ({"admin"} \cap May[p])
    /\ tx[p].pc = "write" /\ tx[p].op \in Lifecycle =>
         Worker(p) /\ status[tx[p].b] = Expects[tx[p].op]
    /\ InCreation(p) =>
         /\ status[tx[p].b] = "none"
         /\ \A q \in Proc \ {p} : InCreation(q) => tx[q].b # tx[p].b

\* The inductive invariant behind NoDoubleBooking.
ExclusionInv == TypeOK /\ TxSound /\ ClaimsMarked /\ NoDoubleBooking
=============================================================================
