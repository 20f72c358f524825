------------------------ MODULE BookingLockerProofs ------------------------
(***************************************************************************)
(* Theorems about the cabin inventory, for every set of bookings, rooms,   *)
(* nights and processes.                                                   *)
(***************************************************************************)
EXTENDS BookingLocker, TLAPS

-----------------------------------------------------------------------------
(* Type correctness *)

LEMMA IdleIsTx == Idle \in Tx
  <1>1. (CHOOSE b \in Booking : TRUE) \in Booking
    BY BookingAssumption
  <1> QED
    BY <1>1 DEF Idle, Tx, NothingSeen, NoRoomSeen

LEMMA AskTypes ==
  ASSUME NEW b \in Booking
  PROVE  /\ Ask[b] \in Request
         /\ PropOf(b) \in Property
         /\ Nights(b) \subseteq Day /\ Nights(b) # {}
         /\ Ask[b].rooms \subseteq Room
         /\ Ask[b].mode \in Mode
         /\ Ask[b].guests \in Nat \ {0}
  BY BookingAssumption DEF Request, PropOf, Nights

LEMMA ResumeIsTx ==
  ASSUME NEW todo \in SUBSET Booking
  PROVE  Resume(todo) \in Tx
  BY IdleIsTx DEF Resume, Tx, Op, Idle

\* Updating the columns of a row.
LEMMA PropRowUpdate ==
  ASSUME NEW row \in PropRow, NEW h \in Nat, NEW k \in Nat, NEW v \in Nat,
         NEW x \in BOOLEAN, NEW y \in BOOLEAN
  PROVE  /\ [row EXCEPT !.exists = TRUE] \in PropRow
         /\ [row EXCEPT !.exists = TRUE, !.buyoutHeld = TRUE, !.version = v] \in PropRow
         /\ [row EXCEPT !.exists = TRUE, !.held = h, !.version = v] \in PropRow
         /\ [row EXCEPT !.held = h, !.booked = k] \in PropRow
         /\ [row EXCEPT !.buyoutHeld = x, !.buyoutBooked = y] \in PropRow
  BY DEF PropRow

LEMMA RoomRowUpdate ==
  ASSUME NEW row \in RoomRow, NEW v \in Nat, NEW x \in BOOLEAN, NEW y \in BOOLEAN
  PROVE  /\ [row EXCEPT !.exists = TRUE, !.held = TRUE, !.version = v] \in RoomRow
         /\ [row EXCEPT !.held = x, !.booked = y] \in RoomRow
  BY DEF RoomRow

\* A creation leaves rows of the right shape.
LEMMA HoldRowsType ==
  ASSUME TypeOK, NEW p \in Proc, NEW b \in Booking, HoldRows(p, b)
  PROVE  /\ propInv' \in [Property -> [Day -> PropRow]]
         /\ roomInv' \in [Room -> [Day -> RoomRow]]
  <1>1. ASSUME NEW prop \in Property, NEW d \in Day
        PROVE  HeldProp(p, b, prop, d) \in PropRow
    <2>1. propInv[prop][d] \in PropRow
      BY DEF TypeOK
    <2>2. tx[p].propVer[d] \in Nat /\ tx[p].seenHeld[d] \in Nat
      BY DEF TypeOK, Tx
    <2>3. Ask[b].guests \in Nat /\ Ask[b].mode \in Mode
      BY AskTypes
    <2>4. CASE ~NeedsProp(b, prop, d)
      BY <2>1, <2>4 DEF HeldProp
    <2>5. CASE NeedsProp(b, prop, d) /\ Ask[b].mode = "buyout"
      <3>1. tx[p].propVer[d] + 1 \in Nat
        BY <2>2
      <3> QED
        BY <2>1, <2>5, <3>1, PropRowUpdate DEF HeldProp
    <2>6. CASE NeedsProp(b, prop, d) /\ Ask[b].mode = "room"
      BY <2>1, <2>6, PropRowUpdate DEF HeldProp
    <2>7. CASE NeedsProp(b, prop, d) /\ Ask[b].mode = "day"
      <3>1. tx[p].seenHeld[d] + Ask[b].guests \in Nat /\ tx[p].propVer[d] + 1 \in Nat
        BY <2>2, <2>3
      <3> QED
        BY <2>1, <2>7, <3>1, PropRowUpdate DEF HeldProp
    <2> QED
      BY <2>3, <2>4, <2>5, <2>6, <2>7 DEF Mode
  <1>2. ASSUME NEW r \in Room, NEW d \in Day
        PROVE  HeldRoom(p, b, r, d) \in RoomRow
    <2>1. roomInv[r][d] \in RoomRow
      BY DEF TypeOK
    <2>2. tx[p].roomVer[r][d] \in Nat
      BY DEF TypeOK, Tx
    <2>3. tx[p].roomVer[r][d] + 1 \in Nat
      BY <2>2
    <2> QED
      BY <2>1, <2>3, RoomRowUpdate DEF HeldRoom
  <1> QED
    BY <1>1, <1>2 DEF HoldRows

\* So does a lifecycle operation that the CHECK constraints let through.
LEMMA MovedRowsType ==
  ASSUME TypeOK, NEW b \in Booking, NEW op \in Lifecycle, ChecksHold(op, b)
  PROVE  /\ [prop \in Property |-> [d \in Day |-> MovedProp(op, b, prop, d)]]
              \in [Property -> [Day -> PropRow]]
         /\ [r \in Room |-> [d \in Day |-> MovedRoom(op, b, r, d)]]
              \in [Room -> [Day -> RoomRow]]
  <1>1. ASSUME NEW prop \in Property, NEW d \in Day
        PROVE  MovedProp(op, b, prop, d) \in PropRow
    <2>1. propInv[prop][d] \in PropRow
      BY DEF TypeOK
    <2>2. HeldStep(op) \in {-1, 0} /\ BookedStep(op) \in {-1, 0, 1}
      BY DEF HeldStep, BookedStep, Lifecycle, Confirming
    <2>3. Ask[b].guests \in Nat
      BY AskTypes
    <2>4. propInv[prop][d].held \in Nat /\ propInv[prop][d].booked \in Nat
      BY <2>1 DEF PropRow
    <2> DEFINE h == propInv[prop][d].held + HeldStep(op) * Ask[b].guests
               k == propInv[prop][d].booked + BookedStep(op) * Ask[b].guests
               x == propInv[prop][d].buyoutHeld /\ op \notin Confirming \cup {"release"}
               y == op \in Confirming
                      \/ (propInv[prop][d].buyoutBooked /\ op \notin {"cancel", "refund"})
    <2>5. CASE ~NeedsProp(b, prop, d) \/ ~propInv[prop][d].exists \/ Ask[b].mode = "room"
      BY <2>1, <2>5 DEF MovedProp
    <2>6. CASE /\ NeedsProp(b, prop, d) /\ propInv[prop][d].exists
               /\ Ask[b].mode # "room" /\ Ask[b].mode = "day"
      <3>1. MovedProp(op, b, prop, d) = [propInv[prop][d] EXCEPT !.held = h, !.booked = k]
        BY <2>6 DEF MovedProp
      <3>2. MovedProp(op, b, prop, d).held = h /\ MovedProp(op, b, prop, d).booked = k
        BY <2>1, <3>1 DEF PropRow
      <3>3. h >= 0 /\ k >= 0
        BY <2>6, <3>2 DEF ChecksHold, NeedsProp
      <3>4. h \in Nat /\ k \in Nat
        BY <2>2, <2>3, <2>4, <3>3
      <3> HIDE DEF h, k
      <3>5. [propInv[prop][d] EXCEPT !.held = h, !.booked = k] \in PropRow
        BY <2>1, <3>4, PropRowUpdate
      <3> QED
        BY <3>1, <3>5, Zenon
    <2>7. CASE /\ NeedsProp(b, prop, d) /\ propInv[prop][d].exists
               /\ Ask[b].mode # "room" /\ Ask[b].mode # "day"
      <3>1. MovedProp(op, b, prop, d) =
              [propInv[prop][d] EXCEPT !.buyoutHeld = x, !.buyoutBooked = y]
        BY <2>7 DEF MovedProp
      <3>2. x \in BOOLEAN /\ y \in BOOLEAN
        OBVIOUS
      <3> HIDE DEF x, y
      <3> QED
        BY <2>1, <3>1, <3>2, PropRowUpdate
    <2> QED
      BY <2>5, <2>6, <2>7
  <1>2. ASSUME NEW r \in Room, NEW d \in Day
        PROVE  MovedRoom(op, b, r, d) \in RoomRow
    <2>1. roomInv[r][d] \in RoomRow
      BY DEF TypeOK
    <2> QED
      BY <2>1 DEF MovedRoom, RoomRow
  <1> QED
    BY <1>1, <1>2

LEMMA TypeInit == Init => TypeOK
  <1> SUFFICES ASSUME Init PROVE TypeOK
    OBVIOUS
  <1>1. PICK ns \in SUBSET PropNights :
          propInv = [prop \in Property |-> [d \in Day |->
                       [FreshPropRow EXCEPT !.exists = <<prop, d>> \in ns]]]
    BY DEF Init
  <1>2. propInv \in [Property -> [Day -> PropRow]]
    <2>1. ASSUME NEW x \in BOOLEAN PROVE [FreshPropRow EXCEPT !.exists = x] \in PropRow
      BY DEF PropRow, FreshPropRow
    <2>2. \A prop \in Property, d \in Day :
            [FreshPropRow EXCEPT !.exists = <<prop, d>> \in ns] \in PropRow
      <3> TAKE prop \in Property, d \in Day
      <3>1. (<<prop, d>> \in ns) \in BOOLEAN
        OBVIOUS
      <3> QED
        BY <2>1, <3>1, Zenon
    <2> QED
      BY <1>1, <2>2
  <1>3. PICK ms \in SUBSET RoomNights :
          roomInv = [r \in Room |-> [d \in Day |->
                       [FreshRoomRow EXCEPT !.exists = <<r, d>> \in ms]]]
    BY DEF Init
  <1>4. roomInv \in [Room -> [Day -> RoomRow]]
    <2>1. ASSUME NEW x \in BOOLEAN PROVE [FreshRoomRow EXCEPT !.exists = x] \in RoomRow
      BY DEF RoomRow, FreshRoomRow
    <2>2. \A r \in Room, d \in Day :
            [FreshRoomRow EXCEPT !.exists = <<r, d>> \in ms] \in RoomRow
      <3> TAKE r \in Room, d \in Day
      <3>1. (<<r, d>> \in ms) \in BOOLEAN
        OBVIOUS
      <3> QED
        BY <2>1, <3>1, Zenon
    <2> QED
      BY <1>3, <2>2
  <1> QED
    BY <1>2, <1>4, IdleIsTx, BookingAssumption DEF Init, TypeOK, Status

LEMMA NotChanged ==
  ASSUME TypeOK, UNCHANGED <<propInv, roomInv, status, expired, crashes>>, tx' \in [Proc -> Tx]
  PROVE  TypeOK'
  BY DEF TypeOK

LEMMA TxUpdate ==
  ASSUME TypeOK, NEW p \in Proc, NEW new \in Tx
  PROVE  [tx EXCEPT ![p] = new] \in [Proc -> Tx]
  BY DEF TypeOK

\* The records a step puts into tx.
LEMMA NewTx ==
  ASSUME NEW b \in Booking, NEW todo \in SUBSET Booking
  PROVE  /\ \A m \in Mode, k \in Nat :
              [Idle EXCEPT !.op = m, !.pc = "read", !.b = b, !.attempt = k] \in Tx
         /\ \A op \in Lifecycle : [Idle EXCEPT !.op = op, !.pc = "write", !.b = b] \in Tx
         /\ \A op \in Lifecycle : [Idle EXCEPT !.op = op, !.pc = "list", !.b = b] \in Tx
         /\ [Idle EXCEPT !.op = "release", !.pc = "write", !.b = b, !.todo = todo] \in Tx
  <1>1. \A m \in Mode, k \in Nat :
          [Idle EXCEPT !.op = m, !.pc = "read", !.b = b, !.attempt = k] \in Tx
    BY IdleIsTx DEF Tx, Idle, Op, Mode, Creation
  <1>2. \A op \in Lifecycle : [Idle EXCEPT !.op = op, !.pc = "write", !.b = b] \in Tx
    BY IdleIsTx DEF Tx, Idle, Op
  <1>3. \A op \in Lifecycle : [Idle EXCEPT !.op = op, !.pc = "list", !.b = b] \in Tx
    BY IdleIsTx DEF Tx, Idle, Op
  <1>4. [Idle EXCEPT !.op = "release", !.pc = "write", !.b = b, !.todo = todo] \in Tx
    BY IdleIsTx DEF Tx, Idle, Op, Lifecycle
  <1> QED
    BY <1>1, <1>2, <1>3, <1>4

LEMMA TypeBeginCreate ==
  ASSUME TypeOK, NEW p \in Proc, NEW b \in Booking, BeginCreate(p, b)
  PROVE  TypeOK'
  <1>1. [Idle EXCEPT !.op = Ask[b].mode, !.pc = "read", !.b = b, !.attempt = 1] \in Tx
    BY NewTx, AskTypes
  <1> QED
    BY <1>1, TxUpdate, NotChanged DEF BeginCreate

LEMMA TypeEnsureAndRead ==
  ASSUME TypeOK, NEW p \in Proc, EnsureAndRead(p)
  PROVE  TypeOK'
  <1> DEFINE b == tx[p].b
             ver == [d \in Day |-> IF d \in Nights(b) /\ Ask[b].mode # "room"
                                     THEN propInv[PropOf(b)][d].version ELSE 0]
             seen == [d \in Day |-> IF d \in Nights(b) /\ Ask[b].mode = "day"
                                      THEN propInv[PropOf(b)][d].held ELSE 0]
             rver == [r \in Room |-> [d \in Day |->
                        IF NeedsRoom(b, r, d) THEN roomInv[r][d].version ELSE 0]]
  <1>1. b \in Booking /\ tx[p] \in Tx
    BY DEF TypeOK, Tx
  <1>2. \A d \in Day : propInv[PropOf(b)][d] \in PropRow
    BY <1>1, AskTypes DEF TypeOK
  <1>3. ver \in [Day -> Nat]
    BY <1>2 DEF PropRow
  <1>4. seen \in [Day -> Nat]
    BY <1>2 DEF PropRow
  <1>5. rver \in [Room -> [Day -> Nat]]
    BY DEF TypeOK, RoomRow
  <1>6. tx' = [tx EXCEPT ![p] = [tx[p] EXCEPT !.pc = "check", !.propVer = ver,
                                         !.seenHeld = seen, !.roomVer = rver]]
        \/ tx' = [tx EXCEPT ![p] = Idle]
    BY DEF EnsureAndRead, TypeOK
  <1>7. UNCHANGED <<propInv, roomInv, status, expired, crashes>>
    BY DEF EnsureAndRead
  <1> HIDE DEF b, ver, seen, rver
  <1>8. [tx[p] EXCEPT !.pc = "check", !.propVer = ver, !.seenHeld = seen, !.roomVer = rver] \in Tx
    BY <1>1, <1>3, <1>4, <1>5 DEF Tx
  <1> QED
    BY <1>6, <1>7, <1>8, IdleIsTx, TxUpdate, NotChanged

LEMMA TypeCheckOther ==
  ASSUME TypeOK, NEW p \in Proc, CheckOther(p)
  PROVE  TypeOK'
  <1>1. tx[p] \in Tx
    BY DEF TypeOK
  <1>2. [tx[p] EXCEPT !.pc = "write"] \in Tx
    BY <1>1 DEF Tx
  <1>3. \E new \in {Idle, [tx[p] EXCEPT !.pc = "write"]} : tx' = [tx EXCEPT ![p] = new]
    BY DEF CheckOther, TypeOK
  <1>4. tx' \in [Proc -> Tx]
    BY <1>2, <1>3, IdleIsTx, TxUpdate
  <1> QED
    BY <1>4, NotChanged DEF CheckOther

LEMMA TypeCommitCreate ==
  ASSUME TypeOK, NEW p \in Proc, CommitCreate(p) \/ CommitUnpriced(p)
  PROVE  TypeOK'
  <1>1. tx[p].b \in Booking
    BY DEF TypeOK, Tx
  <1>2. tx' \in [Proc -> Tx]
    BY IdleIsTx, TxUpdate DEF CommitCreate, CommitUnpriced
  <1>3. status' \in [Booking -> Status]
    BY DEF TypeOK, Status, CommitCreate, CommitUnpriced
  <1>4. /\ propInv' \in [Property -> [Day -> PropRow]]
        /\ roomInv' \in [Room -> [Day -> RoomRow]]
    BY <1>1, HoldRowsType DEF CommitCreate, CommitUnpriced
  <1> QED
    BY <1>2, <1>3, <1>4 DEF TypeOK, CommitCreate, CommitUnpriced

LEMMA TypeStaleCreate ==
  ASSUME TypeOK, NEW p \in Proc, StaleCreate(p)
  PROVE  TypeOK'
  <1>1. tx[p].b \in Booking /\ tx[p].attempt + 1 \in Nat
    BY DEF TypeOK, Tx
  <1>2. tx[p].op \in Mode
    BY DEF StaleCreate, Creation, Mode
  <1>3. [Idle EXCEPT !.op = tx[p].op, !.pc = "read", !.b = tx[p].b,
                     !.attempt = tx[p].attempt + 1] \in Tx
    BY <1>1, <1>2, NewTx
  <1> QED
    BY <1>3, IdleIsTx, TxUpdate, NotChanged DEF StaleCreate

LEMMA TypeBeginLifecycle ==
  ASSUME TypeOK, NEW p \in Proc, NEW op \in Lifecycle, NEW b \in Booking, BeginLifecycle(p, op, b)
  PROVE  TypeOK'
  BY NewTx, TxUpdate, NotChanged DEF BeginLifecycle

LEMMA TypeCommitLifecycle ==
  ASSUME TypeOK, NEW p \in Proc, CommitLifecycle(p)
  PROVE  TypeOK'
  <1> DEFINE b == tx[p].b
             op == tx[p].op
  <1>1. b \in Booking /\ op \in Lifecycle /\ tx[p].todo \in SUBSET Booking
    BY DEF TypeOK, Tx, CommitLifecycle
  <1>2. ChecksHold(op, b)
    BY DEF CommitLifecycle
  <1>3. /\ propInv' = [prop \in Property |-> [d \in Day |-> MovedProp(op, b, prop, d)]]
        /\ roomInv' = [r \in Room |-> [d \in Day |-> MovedRoom(op, b, r, d)]]
        /\ status' = [status EXCEPT ![b] = Leaves[op]]
        /\ expired' = expired \ {b}
        /\ crashes' = crashes
        /\ tx' = [tx EXCEPT ![p] = IF op \in Confirming
                                     THEN [Idle EXCEPT !.op = op, !.pc = "list", !.b = b]
                                     ELSE Resume(tx[p].todo)]
    BY DEF CommitLifecycle
  <1> HIDE DEF b, op
  <1>4. /\ propInv' \in [Property -> [Day -> PropRow]]
        /\ roomInv' \in [Room -> [Day -> RoomRow]]
    BY <1>1, <1>2, <1>3, MovedRowsType
  <1>5. tx' \in [Proc -> Tx]
    BY <1>1, <1>3, NewTx, ResumeIsTx, TxUpdate
  <1>6. Leaves[op] \in Status
    BY <1>1 DEF Leaves, Lifecycle, Status
  <1>7. status' \in [Booking -> Status]
    BY <1>3, <1>6 DEF TypeOK
  <1> QED
    BY <1>3, <1>4, <1>5, <1>7 DEF TypeOK

LEMMA TypeFailLifecycle ==
  ASSUME TypeOK, NEW p \in Proc, FailLifecycle(p)
  PROVE  TypeOK'
  <1>1. tx[p].todo \in SUBSET Booking
    BY DEF TypeOK, Tx
  <1> QED
    BY <1>1, IdleIsTx, ResumeIsTx, TxUpdate, NotChanged DEF FailLifecycle

LEMMA TypeSweeping ==
  ASSUME TypeOK, NEW p \in Proc, ListOtherHolds(p) \/ ReleaseNext(p) \/ BeginSweep(p)
  PROVE  TypeOK'
  <1>1. CASE ListOtherHolds(p)
    BY <1>1, ResumeIsTx, TxUpdate, NotChanged DEF ListOtherHolds
  <1>2. CASE ReleaseNext(p)
    <2>1. PICK c \in tx[p].todo :
            tx' = [tx EXCEPT ![p] =
                     IF status[c] = "hold"
                       THEN [Idle EXCEPT !.op = "release", !.pc = "write", !.b = c,
                                         !.todo = tx[p].todo \ {c}]
                       ELSE IF status[c] = "deleted" THEN Idle
                       ELSE Resume(tx[p].todo \ {c})]
      BY <1>2 DEF ReleaseNext
    <2>2. c \in Booking /\ tx[p].todo \ {c} \in SUBSET Booking
      BY DEF TypeOK, Tx
    <2>3. tx' \in [Proc -> Tx]
      BY <2>1, <2>2, IdleIsTx, NewTx, ResumeIsTx, TxUpdate
    <2> QED
      BY <1>2, <2>3, NotChanged DEF ReleaseNext
  <1>3. CASE BeginSweep(p)
    <2>1. {b \in expired : status[b] = "hold"} \in SUBSET Booking
      BY DEF TypeOK
    <2> QED
      BY <1>3, <2>1, ResumeIsTx, TxUpdate, NotChanged DEF BeginSweep
  <1> QED
    BY <1>1, <1>2, <1>3

LEMMA MarkedRowsType ==
  ASSUME TypeOK, NEW b \in Booking
  PROVE  /\ \A prop \in Property, d \in Day : MarkedProp(b, prop, d) \in PropRow
         /\ \A r \in Room, d \in Day : MarkedRoom(b, r, d) \in RoomRow
  <1>1. ASSUME NEW prop \in Property, NEW d \in Day
        PROVE  MarkedProp(b, prop, d) \in PropRow
    <2>1. propInv[prop][d] \in PropRow
      BY DEF TypeOK
    <2>2. [propInv[prop][d] EXCEPT !.exists = TRUE, !.buyoutBooked = TRUE] \in PropRow
      BY <2>1 DEF PropRow
    <2> QED
      BY <2>1, <2>2 DEF MarkedProp
  <1>2. ASSUME NEW r \in Room, NEW d \in Day
        PROVE  MarkedRoom(b, r, d) \in RoomRow
    <2>1. roomInv[r][d] \in RoomRow
      BY DEF TypeOK
    <2>2. [roomInv[r][d] EXCEPT !.exists = TRUE, !.booked = TRUE, !.held = FALSE] \in RoomRow
      BY <2>1 DEF RoomRow
    <2> QED
      BY <2>1, <2>2 DEF MarkedRoom
  <1> QED
    BY <1>1, <1>2

LEMMA TypeAdmin ==
  ASSUME TypeOK, NEW p \in Proc
  PROVE  /\ AdminInsert(p) => TypeOK'
         /\ \A b \in Booking : AdminMark(p, b) \/ AdminFindsNoRow(p, b) => TypeOK'
  <1>1. ASSUME AdminInsert(p) PROVE TypeOK'
    <2>1. tx[p].b \in Booking
      BY DEF TypeOK, Tx
    <2>2. /\ propInv' \in [Property -> [Day -> PropRow]]
          /\ roomInv' \in [Room -> [Day -> RoomRow]]
      BY <1>1, <2>1, MarkedRowsType DEF AdminInsert
    <2>3. tx' \in [Proc -> Tx]
      BY <1>1, IdleIsTx, TxUpdate DEF AdminInsert
    <2> QED
      BY <1>1, <2>1, <2>2, <2>3 DEF TypeOK, AdminInsert, Status
  <1>2. ASSUME NEW b \in Booking, AdminMark(p, b) PROVE TypeOK'
    <2>1. /\ propInv' \in [Property -> [Day -> PropRow]]
          /\ roomInv' \in [Room -> [Day -> RoomRow]]
      BY <1>2, MarkedRowsType DEF AdminMark, TypeOK
    <2> QED
      BY <1>2, <2>1 DEF TypeOK, AdminMark, Status
  <1>3. ASSUME NEW b \in Booking, AdminFindsNoRow(p, b) PROVE TypeOK'
    <2> DEFINE new == [Idle EXCEPT !.op = "admin", !.pc = "write", !.b = b]
    <2>1. new \in Tx
      BY IdleIsTx DEF Tx, Op, AdminOp
    <2>2. tx' = [tx EXCEPT ![p] = new]
      BY <1>3 DEF AdminFindsNoRow
    <2> HIDE DEF new
    <2>3. tx' \in [Proc -> Tx]
      BY <2>1, <2>2, TxUpdate
    <2> QED
      BY <1>3, <2>3, NotChanged DEF AdminFindsNoRow
  <1> QED
    BY <1>1, <1>2, <1>3

LEMMA TypeOther ==
  ASSUME TypeOK, NEW p \in Proc, NEW b \in Booking, MarkRefunded(p, b) \/ DeleteBooking(p, b)
  PROVE  TypeOK'
  BY DEF TypeOK, Status, MarkRefunded, DeleteBooking

LEMMA TypeHoldTimesOut ==
  ASSUME TypeOK, NEW b \in Booking, HoldTimesOut(b)
  PROVE  TypeOK'
  BY DEF TypeOK, HoldTimesOut

LEMMA TypeCrash ==
  ASSUME TypeOK, NEW p \in Proc, Crash(p)
  PROVE  TypeOK'
  <1>1. tx' \in [Proc -> Tx]
    BY IdleIsTx, TxUpdate DEF Crash
  <1>2. crashes' \in 0 .. MaxCrashes
    BY BookingAssumption DEF Crash, TypeOK
  <1> QED
    BY <1>1, <1>2 DEF Crash, TypeOK

LEMMA TypeNext == TypeOK /\ [Next]_vars => TypeOK'
  <1> SUFFICES ASSUME TypeOK, [Next]_vars PROVE TypeOK'
    OBVIOUS
  <1>1. CASE UNCHANGED vars
    BY <1>1 DEF TypeOK, vars
  <1>2. ASSUME NEW p \in Proc, Step(p) PROVE TypeOK'
    BY <1>2, TypeEnsureAndRead, TypeCheckOther, TypeCommitCreate, TypeStaleCreate,
       TypeCommitLifecycle, TypeFailLifecycle, TypeSweeping, TypeAdmin DEF Step
  <1>3. ASSUME NEW p \in Proc, Call(p) PROVE TypeOK'
    BY <1>3, TypeSweeping, TypeBeginCreate, TypeBeginLifecycle, TypeAdmin, TypeOther
    DEF Call
  <1>4. ASSUME NEW p \in Proc, Crash(p) PROVE TypeOK'
    BY <1>4, TypeCrash
  <1>5. ASSUME NEW b \in Booking, HoldTimesOut(b) PROVE TypeOK'
    BY <1>5, TypeHoldTimesOut
  <1> QED
    BY <1>1, <1>2, <1>3, <1>4, <1>5 DEF Next

\* Every reachable state is well typed: in particular the CHECK constraints
\* keep the counters of property_inventory from going below zero.
THEOREM TypeCorrect == Spec => []TypeOK
  BY TypeInit, TypeNext, PTL DEF Spec

-----------------------------------------------------------------------------
(* No double booking *)

\* Room requests, and only they, name rooms.
LEMMA RoomsMeanRoomMode ==
  ASSUME NEW b \in Booking, NEW r, NEW d, NeedsRoom(b, r, d)
  PROVE  Ask[b].mode = "room"
  BY BookingAssumption DEF NeedsRoom

LEMMA ExclusionInit == Init /\ TypeOK => ExclusionInv
  <1> SUFFICES ASSUME Init, TypeOK PROVE ExclusionInv
    OBVIOUS
  <1>1. \A b \in Booking : ~Live(b)
    BY DEF Init, Live
  <1>2. \A p \in Proc : tx[p].pc = "idle"
    BY DEF Init, Idle
  <1>3. TxSound
    BY <1>2 DEF TxSound, InCreation
  <1> QED
    BY <1>1, <1>3 DEF ExclusionInv, ClaimsMarked, NoDoubleBooking, RoomOn, BuyoutOn

\* Claims and exclusivity depend on the inventory and the statuses only.
LEMMA ClaimsUnchanged ==
  ASSUME ClaimsMarked, NoDoubleBooking, UNCHANGED <<propInv, roomInv, status>>
  PROVE  ClaimsMarked' /\ NoDoubleBooking'
  BY DEF ClaimsMarked, NoDoubleBooking, RoomOn, BuyoutOn, Live, RoomFree, NoBuyout

\* The rows a creation writes stay marked where they were, and the booking's
\* own rows are marked.
LEMMA HoldMarks ==
  ASSUME TypeOK, NEW p \in Proc, NEW b \in Booking, HoldRows(p, b)
  PROVE  /\ \A r \in Room, d \in Day :
              ~RoomFree(roomInv[r][d]) \/ NeedsRoom(b, r, d) => ~RoomFree(roomInv'[r][d])
         /\ \A prop \in Property, d \in Day :
              \/ ~NoBuyout(propInv[prop][d])
              \/ NeedsProp(b, prop, d) /\ Ask[b].mode = "buyout"
              => ~NoBuyout(propInv'[prop][d])
  <1>1. ASSUME NEW r \in Room, NEW d \in Day,
               ~RoomFree(roomInv[r][d]) \/ NeedsRoom(b, r, d)
        PROVE  ~RoomFree(roomInv'[r][d])
    <2>1. roomInv[r][d] \in RoomRow
      BY DEF TypeOK
    <2>2. roomInv'[r][d] = HeldRoom(p, b, r, d)
      BY DEF HoldRows
    <2> QED
      BY <1>1, <2>1, <2>2 DEF HeldRoom, RoomFree, RoomRow
  <1>2. ASSUME NEW prop \in Property, NEW d \in Day,
               \/ ~NoBuyout(propInv[prop][d])
               \/ NeedsProp(b, prop, d) /\ Ask[b].mode = "buyout"
        PROVE  ~NoBuyout(propInv'[prop][d])
    <2>1. propInv[prop][d] \in PropRow
      BY DEF TypeOK
    <2>2. propInv'[prop][d] = HeldProp(p, b, prop, d)
      BY DEF HoldRows
    <2>3. Ask[b].mode \in Mode
      BY AskTypes
    <2>4. CASE ~NeedsProp(b, prop, d)
      BY <1>2, <2>2, <2>4 DEF HeldProp
    <2>5. CASE NeedsProp(b, prop, d) /\ Ask[b].mode = "buyout"
      BY <2>1, <2>2, <2>5 DEF HeldProp, NoBuyout, PropRow
    <2>6. CASE NeedsProp(b, prop, d) /\ Ask[b].mode = "room"
      BY <1>2, <2>1, <2>2, <2>6 DEF HeldProp, NoBuyout, PropRow
    <2>7. CASE NeedsProp(b, prop, d) /\ Ask[b].mode = "day"
      BY <1>2, <2>1, <2>2, <2>7 DEF HeldProp, NoBuyout, PropRow
    <2> QED
      BY <2>3, <2>4, <2>5, <2>6, <2>7 DEF Mode
  <1> QED
    BY <1>1, <1>2

\* A hold is committed only on rows that no live booking claims.
LEMMA ClaimsCommitCreate ==
  ASSUME ExclusionInv, NEW p \in Proc, CommitCreate(p)
  PROVE  ClaimsMarked' /\ NoDoubleBooking'
  <1> DEFINE b == tx[p].b
  <1>1. b \in Booking
    BY DEF ExclusionInv, TypeOK, Tx
  <1>2. RowUnchanged(p, b) /\ HoldRows(p, b) /\ status' = [status EXCEPT ![b] = "hold"]
    BY DEF CommitCreate
  <1> HIDE DEF b
  <1>3. \A a \in Booking \ {b} : Live(a)' <=> Live(a)
    BY <1>2 DEF Live, ExclusionInv, TypeOK
  <1>4. ClaimsMarked'
    BY <1>1, <1>2, <1>3, HoldMarks
    DEF ExclusionInv, ClaimsMarked, RoomOn, BuyoutOn
  <1>5. \A r \in Room, d \in Day : NeedsRoom(b, r, d) => RoomFree(roomInv[r][d])
    BY <1>1, <1>2, RoomsMeanRoomMode DEF RowUnchanged, NeedsRoom
  <1>6. Ask[b].mode = "buyout" =>
          \A prop \in Property, d \in Day : NeedsProp(b, prop, d) => NoBuyout(propInv[prop][d])
    BY <1>1, <1>2 DEF RowUnchanged, NeedsProp, BuyoutFits
  <1>7. NoDoubleBooking'
    <2> SUFFICES ASSUME NEW a \in Booking, NEW c \in Booking, a # c
                 PROVE  /\ \A r \in Room, d \in Day : ~(RoomOn(a, r, d)' /\ RoomOn(c, r, d)')
                        /\ \A prop \in Property, d \in Day :
                             ~(BuyoutOn(a, prop, d)' /\ BuyoutOn(c, prop, d)')
      BY DEF NoDoubleBooking
    <2>1. CASE a # b /\ c # b
      BY <2>1, <1>3 DEF ExclusionInv, NoDoubleBooking, RoomOn, BuyoutOn
    <2>2. CASE a = b
      BY <2>2, <1>3, <1>5, <1>6 DEF ExclusionInv, ClaimsMarked, RoomOn, BuyoutOn
    <2>3. CASE c = b
      BY <2>3, <1>3, <1>5, <1>6 DEF ExclusionInv, ClaimsMarked, RoomOn, BuyoutOn
    <2> QED
      BY <2>1, <2>2, <2>3
  <1> QED
    BY <1>4, <1>7

LEMMA ClaimsCommitUnpriced ==
  ASSUME ExclusionInv, NEW p \in Proc, CommitUnpriced(p)
  PROVE  ClaimsMarked' /\ NoDoubleBooking'
  <1>1. tx[p].b \in Booking /\ HoldRows(p, tx[p].b) /\ status' = status
    BY DEF CommitUnpriced, ExclusionInv, TypeOK, Tx
  <1> QED
    BY <1>1, HoldMarks DEF ExclusionInv, ClaimsMarked, NoDoubleBooking, RoomOn, BuyoutOn, Live

\* A lifecycle operation on a live booking touches only rows that no other live
\* booking claims.
LEMMA ClaimsCommitLifecycle ==
  ASSUME ExclusionInv, NEW p \in Proc, CommitLifecycle(p)
  PROVE  ClaimsMarked' /\ NoDoubleBooking'
  <1>1. PICK b \in Booking, op \in Lifecycle : b = tx[p].b /\ op = tx[p].op
    BY DEF CommitLifecycle, ExclusionInv, TypeOK, Tx
  <1>2. /\ status[b] = Expects[op]
        /\ propInv' = [prop \in Property |-> [d \in Day |-> MovedProp(op, b, prop, d)]]
        /\ roomInv' = [r \in Room |-> [d \in Day |-> MovedRoom(op, b, r, d)]]
        /\ status' = [status EXCEPT ![b] = Leaves[op]]
    BY <1>1 DEF CommitLifecycle, ExclusionInv, TxSound
  <1>3. Live(b)
    BY <1>2 DEF Live, Expects, Lifecycle
  <1>4. Live(b)' => op \in Confirming
    BY <1>2 DEF Live, Leaves, Lifecycle, Confirming, ExclusionInv, TypeOK
  <1>5. \A a \in Booking \ {b} : Live(a)' <=> Live(a)
    BY <1>2 DEF Live, ExclusionInv, TypeOK
  <1>6. \A a \in Booking : Live(a)' => Live(a)
    BY <1>3, <1>5
  <1>7. ClaimsMarked'
    <2>1. ASSUME NEW a \in Booking, NEW r \in Room, NEW d \in Day, RoomOn(a, r, d)'
          PROVE  ~RoomFree(roomInv'[r][d])
      <3>1. RoomOn(a, r, d) /\ ~RoomFree(roomInv[r][d])
        BY <2>1, <1>6 DEF ExclusionInv, ClaimsMarked, RoomOn
      <3>2. roomInv'[r][d] = MovedRoom(op, b, r, d) /\ roomInv[r][d] \in RoomRow
        BY <1>2 DEF ExclusionInv, TypeOK
      <3>3. CASE a = b
        BY <3>1, <3>2, <3>3, <2>1, <1>4 DEF MovedRoom, RoomFree, RoomOn, RoomRow
      <3>4. CASE a # b
        <4>1. ~NeedsRoom(b, r, d)
          BY <3>1, <3>4, <1>1, <1>3, RoomsMeanRoomMode
          DEF ExclusionInv, NoDoubleBooking, RoomOn
        <4> QED
          BY <4>1, <3>1, <3>2 DEF MovedRoom
      <3> QED
        BY <3>3, <3>4
    <2>2. ASSUME NEW a \in Booking, NEW prop \in Property, NEW d \in Day, BuyoutOn(a, prop, d)'
          PROVE  ~NoBuyout(propInv'[prop][d])
      <3>1. BuyoutOn(a, prop, d) /\ ~NoBuyout(propInv[prop][d])
        BY <2>2, <1>6 DEF ExclusionInv, ClaimsMarked, BuyoutOn
      <3>2. propInv'[prop][d] = MovedProp(op, b, prop, d) /\ propInv[prop][d] \in PropRow
        BY <1>2 DEF ExclusionInv, TypeOK
      <3>3. CASE a = b
        BY <3>1, <3>2, <3>3, <2>2, <1>4 DEF MovedProp, NoBuyout, BuyoutOn, PropRow
      <3>4. CASE a # b
        <4>1. ~(NeedsProp(b, prop, d) /\ Ask[b].mode = "buyout")
          BY <3>1, <3>4, <1>1, <1>3 DEF ExclusionInv, NoDoubleBooking, BuyoutOn
        <4>2. Ask[b].mode \in Mode
          BY <1>1, AskTypes
        <4>3. CASE ~NeedsProp(b, prop, d) \/ Ask[b].mode = "room"
          BY <4>3, <3>1, <3>2 DEF MovedProp
        <4>4. CASE Ask[b].mode = "day"
          BY <4>4, <3>1, <3>2 DEF MovedProp, NoBuyout, PropRow
        <4> QED
          BY <4>1, <4>2, <4>3, <4>4 DEF Mode
      <3> QED
        BY <3>3, <3>4
    <2> QED
      BY <2>1, <2>2 DEF ClaimsMarked
  <1>8. NoDoubleBooking'
    BY <1>6 DEF ExclusionInv, NoDoubleBooking, RoomOn, BuyoutOn
  <1> QED
    BY <1>7, <1>8

\* One process moves on, and what it now believes is true; what the others
\* believe is not touched.
LEMMA TxSoundStep ==
  ASSUME TypeOK, TxSound, NEW p \in Proc, NEW new, tx' = [tx EXCEPT ![p] = new],
         \A q \in Proc \ {p} :
           InCreation(q) \/ tx[q].pc = "write" => status'[tx[q].b] = status[tx[q].b],
         new.pc \in {"list", "next"} => Worker(p) /\ new.op \notin Creation,
         new.pc \in {"read", "check"} => new.op \in Creation,
         new.pc = "write" => new.op \in Creation \cup Lifecycle,
         new.pc = "write" /\ new.op \in Lifecycle =>
           Worker(p) /\ status'[new.b] = Expects[new.op],
         new.pc # "idle" /\ new.op \in Creation =>
           /\ status'[new.b] = "none"
           /\ \A q \in Proc \ {p} : InCreation(q) => tx[q].b # new.b
  PROVE  TxSound'
  <1>1. tx'[p] = new /\ \A q \in Proc \ {p} : tx'[q] = tx[q]
    BY DEF TypeOK
  <1>2. \A q \in Proc \ {p} : InCreation(q)' <=> InCreation(q)
    BY <1>1 DEF InCreation
  <1>3. InCreation(p)' <=> new.pc # "idle" /\ new.op \in Creation
    BY <1>1 DEF InCreation
  <1> SUFFICES ASSUME NEW q \in Proc
               PROVE  /\ tx'[q].pc \in {"list", "next"} => Worker(q) /\ tx'[q].op \notin Creation
                      /\ tx'[q].pc \in {"read", "check"} => tx'[q].op \in Creation
                      /\ tx'[q].pc = "write" =>
                           tx'[q].op \in Creation \cup Lifecycle \cup ({"admin"} \cap May[q])
                      /\ tx'[q].pc = "write" /\ tx'[q].op \in Lifecycle =>
                           Worker(q) /\ status'[tx'[q].b] = Expects[tx'[q].op]
                      /\ InCreation(q)' =>
                           /\ status'[tx'[q].b] = "none"
                           /\ \A o \in Proc \ {q} : InCreation(o)' => tx'[o].b # tx'[q].b
    BY DEF TxSound, Worker
  <1>4. CASE q = p
    BY <1>1, <1>2, <1>3, <1>4
  <1>5. CASE q # p
    BY <1>1, <1>2, <1>3, <1>5 DEF TxSound
  <1> QED
    BY <1>4, <1>5

\* The fields of the records a step puts into tx.
LEMMA NewFields ==
  ASSUME NEW op, NEW b, NEW k, NEW todo
  PROVE  /\ LET new == [Idle EXCEPT !.op = op, !.pc = "read", !.b = b, !.attempt = k]
            IN  new.pc = "read" /\ new.op = op /\ new.b = b
         /\ LET new == [Idle EXCEPT !.op = op, !.pc = "write", !.b = b]
            IN  new.pc = "write" /\ new.op = op /\ new.b = b
         /\ LET new == [Idle EXCEPT !.op = op, !.pc = "write", !.b = b, !.todo = todo]
            IN  new.pc = "write" /\ new.op = op /\ new.b = b
         /\ LET new == [Idle EXCEPT !.op = op, !.pc = "list", !.b = b]
            IN  new.pc = "list" /\ new.op = op
  BY DEF Idle

LEMMA IdleFields == Idle.pc = "idle" /\ Idle.op = "none"
  BY DEF Idle

LEMMA ResumeFields ==
  ASSUME NEW todo
  PROVE  /\ Resume(todo).pc \in {"idle", "next"}
         /\ Resume(todo).op \notin Creation /\ Resume(todo).op \notin Lifecycle
  BY DEF Resume, Idle, Creation, Lifecycle

LEMMA SoundCreation ==
  ASSUME TypeOK, TxSound, SerialLifecycle, NEW p \in Proc,
         EnsureAndRead(p) \/ CheckOther(p) \/ CommitCreate(p) \/ CommitUnpriced(p) \/ StaleCreate(p)
  PROVE  TxSound'
  <1>1. /\ InCreation(p) /\ tx[p].op \in Creation
        /\ status[tx[p].b] = "none"
        /\ \A q \in Proc \ {p} : InCreation(q) => tx[q].b # tx[p].b
    BY DEF TxSound, InCreation, EnsureAndRead, CheckOther, CommitCreate, CommitUnpriced,
           StaleCreate, Creation
  <1>2. tx[p] \in Tx /\ tx[p].op \notin Lifecycle
    BY <1>1 DEF TypeOK, Creation, Lifecycle
  <1>3. CASE EnsureAndRead(p)
    <2>1. PICK new : /\ tx' = [tx EXCEPT ![p] = new]
                     /\ \/ new = Idle
                        \/ new.pc = "check" /\ new.op = tx[p].op /\ new.b = tx[p].b
      <3> DEFINE ver == [d \in Day |-> IF d \in Nights(tx[p].b) /\ Ask[tx[p].b].mode # "room"
                                         THEN propInv[PropOf(tx[p].b)][d].version ELSE 0]
                 seen == [d \in Day |-> IF d \in Nights(tx[p].b) /\ Ask[tx[p].b].mode = "day"
                                          THEN propInv[PropOf(tx[p].b)][d].held ELSE 0]
                 rver == [r \in Room |-> [d \in Day |->
                            IF NeedsRoom(tx[p].b, r, d) THEN roomInv[r][d].version ELSE 0]]
      <3>1. tx' = [tx EXCEPT ![p] = [tx[p] EXCEPT !.pc = "check", !.propVer = ver,
                                                  !.seenHeld = seen, !.roomVer = rver]]
              \/ tx' = [tx EXCEPT ![p] = Idle]
        BY <1>3 DEF EnsureAndRead, TypeOK
      <3> HIDE DEF ver, seen, rver
      <3> QED
        BY <1>2, <3>1 DEF Tx
    <2>2. status' = status
      BY <1>3 DEF EnsureAndRead
    <2> QED
      BY <1>1, <1>2, <2>1, <2>2, IdleFields, TxSoundStep
  <1>4. CASE CheckOther(p)
    <2>1. PICK new : /\ tx' = [tx EXCEPT ![p] = new]
                     /\ \/ new = Idle
                        \/ new.pc = "write" /\ new.op = tx[p].op /\ new.b = tx[p].b
      <3> DEFINE go == [tx[p] EXCEPT !.pc = "write"]
      <3>1. go.pc = "write" /\ go.op = tx[p].op /\ go.b = tx[p].b
        BY <1>2 DEF Tx
      <3>2. tx' = [tx EXCEPT ![p] = go] \/ tx' = [tx EXCEPT ![p] = Idle]
        BY <1>4 DEF CheckOther, TypeOK
      <3> HIDE DEF go
      <3> QED
        BY <3>1, <3>2
    <2>2. status' = status
      BY <1>4 DEF CheckOther
    <2> QED
      BY <1>1, <1>2, <2>1, <2>2, IdleFields, TxSoundStep
  <1>5. CASE CommitCreate(p)
    <2>1. tx' = [tx EXCEPT ![p] = Idle] /\ status' = [status EXCEPT ![tx[p].b] = "hold"]
      BY <1>5 DEF CommitCreate
    <2>2. ASSUME NEW q \in Proc \ {p}, InCreation(q) \/ tx[q].pc = "write"
          PROVE  status'[tx[q].b] = status[tx[q].b]
      <3>1. tx[q].b # tx[p].b
        BY <1>1, <2>2 DEF TxSound, InCreation, SerialLifecycle, Expects, Lifecycle
      <3> QED
        BY <2>1, <3>1 DEF TypeOK, Tx
    <2> QED
      BY <2>1, <2>2, IdleFields, TxSoundStep DEF Creation, Lifecycle
  <1>6. CASE CommitUnpriced(p)
    BY <1>6, IdleFields, TxSoundStep DEF CommitUnpriced, Creation, Lifecycle
  <1>7. CASE StaleCreate(p)
    <2>1. PICK new : /\ tx' = [tx EXCEPT ![p] = new]
                     /\ \/ new = Idle
                        \/ new.pc = "read" /\ new.op = tx[p].op /\ new.b = tx[p].b
      <3> DEFINE retry == [Idle EXCEPT !.op = tx[p].op, !.pc = "read", !.b = tx[p].b,
                                       !.attempt = tx[p].attempt + 1]
      <3>1. retry.pc = "read" /\ retry.op = tx[p].op /\ retry.b = tx[p].b
        BY NewFields
      <3>2. tx' = [tx EXCEPT ![p] = retry] \/ tx' = [tx EXCEPT ![p] = Idle]
        BY <1>7 DEF StaleCreate
      <3> HIDE DEF retry
      <3> QED
        BY <3>1, <3>2
    <2>2. status' = status
      BY <1>7 DEF StaleCreate
    <2> QED
      BY <1>1, <1>2, <2>1, <2>2, IdleFields, TxSoundStep
  <1> QED
    BY <1>3, <1>4, <1>5, <1>6, <1>7

LEMMA SoundBeginCreate ==
  ASSUME TypeOK, TxSound, NEW p \in Proc, NEW b \in Booking, BeginCreate(p, b)
  PROVE  TxSound'
  <1>1. PICK new : /\ tx' = [tx EXCEPT ![p] = new]
                   /\ new.pc = "read" /\ new.op = Ask[b].mode /\ new.b = b
    <2> DEFINE start == [Idle EXCEPT !.op = Ask[b].mode, !.pc = "read", !.b = b, !.attempt = 1]
    <2>1. start.pc = "read" /\ start.op = Ask[b].mode /\ start.b = b
      BY NewFields
    <2>2. tx' = [tx EXCEPT ![p] = start]
      BY DEF BeginCreate
    <2> HIDE DEF start
    <2> QED
      BY <2>1, <2>2
  <1>2. Ask[b].mode \in Creation
    BY AskTypes DEF Mode, Creation
  <1>3. \A q \in Proc \ {p} : InCreation(q) => tx[q].b # b
    BY DEF BeginCreate, NotInProgress, InCreation
  <1>4. status' = status /\ status[b] = "none"
    BY DEF BeginCreate
  <1> QED
    BY <1>1, <1>2, <1>3, <1>4, TxSoundStep

LEMMA SoundLifecycle ==
  ASSUME TypeOK, TxSound, SerialLifecycle, NEW p \in Proc,
         \/ \E op \in Lifecycle, b \in Booking : BeginLifecycle(p, op, b)
         \/ CommitLifecycle(p) \/ FailLifecycle(p)
         \/ ListOtherHolds(p) \/ ReleaseNext(p) \/ BeginSweep(p)
  PROVE  TxSound'
  <1>1. CASE \E op \in Lifecycle, b \in Booking : BeginLifecycle(p, op, b)
    <2>1. PICK op \in Lifecycle, b \in Booking : BeginLifecycle(p, op, b)
      BY <1>1
    <2>2. PICK new : /\ tx' = [tx EXCEPT ![p] = new]
                     /\ new.pc = "write" /\ new.op = op /\ new.b = b
      <3> DEFINE start == [Idle EXCEPT !.op = op, !.pc = "write", !.b = b]
      <3>1. start.pc = "write" /\ start.op = op /\ start.b = b
        BY NewFields
      <3>2. tx' = [tx EXCEPT ![p] = start]
        BY <2>1 DEF BeginLifecycle
      <3> HIDE DEF start
      <3> QED
        BY <3>1, <3>2
    <2>3. Worker(p) /\ status' = status /\ status[b] = Expects[op] /\ op \notin Creation
      BY <2>1 DEF BeginLifecycle, Worker, Creation, Lifecycle
    <2> QED
      BY <2>2, <2>3, TxSoundStep
  <1>2. CASE CommitLifecycle(p)
    <2>1. PICK b \in Booking, op \in Lifecycle : b = tx[p].b /\ op = tx[p].op
      BY <1>2 DEF CommitLifecycle, TypeOK, Tx
    <2>2. Worker(p) /\ status[b] = Expects[op] /\ tx[p].pc = "write" /\ op \notin Creation
      BY <1>2, <2>1 DEF CommitLifecycle, TxSound, Creation, Lifecycle
    <2>3. /\ status' = [status EXCEPT ![b] = Leaves[op]]
          /\ tx' = [tx EXCEPT ![p] = IF op \in Confirming
                                       THEN [Idle EXCEPT !.op = op, !.pc = "list", !.b = b]
                                       ELSE Resume(tx[p].todo)]
      BY <1>2, <2>1 DEF CommitLifecycle
    <2>4. PICK new : /\ tx' = [tx EXCEPT ![p] = new]
                     /\ new.pc \in {"list", "idle", "next"} /\ new.op \notin Creation
      <3> DEFINE list == [Idle EXCEPT !.op = op, !.pc = "list", !.b = b]
      <3>1. list.pc = "list" /\ list.op = op
        BY NewFields
      <3>2. tx' = [tx EXCEPT ![p] = list] \/ tx' = [tx EXCEPT ![p] = Resume(tx[p].todo)]
        BY <2>3
      <3> HIDE DEF list
      <3> QED
        BY <2>2, <3>1, <3>2, ResumeFields
    <2>5. ASSUME NEW q \in Proc \ {p}, InCreation(q) \/ tx[q].pc = "write"
          PROVE  status'[tx[q].b] = status[tx[q].b]
      <3>1. ~Worker(q)
        BY <2>2 DEF SerialLifecycle
      <3>2. InCreation(q)
        BY <2>5, <3>1 DEF TxSound, InCreation, SerialLifecycle
      <3>3. status[tx[q].b] = "none" /\ status[b] # "none"
        BY <2>2, <3>2 DEF TxSound, Expects, Lifecycle
      <3> QED
        BY <2>3, <3>3 DEF TypeOK, Tx
    <2> QED
      BY <2>2, <2>4, <2>5, TxSoundStep
  <1>3. CASE FailLifecycle(p) \/ ListOtherHolds(p) \/ BeginSweep(p)
    <2>1. Worker(p)
      BY <1>3 DEF FailLifecycle, ListOtherHolds, BeginSweep, TxSound, Worker
    <2>2. PICK new : /\ tx' = [tx EXCEPT ![p] = new]
                     /\ new.pc \in {"idle", "next"} /\ new.op \notin Creation
      BY <1>3, ResumeFields, IdleFields DEF FailLifecycle, ListOtherHolds, BeginSweep, Creation
    <2>3. status' = status
      BY <1>3 DEF FailLifecycle, ListOtherHolds, BeginSweep
    <2> QED
      BY <2>1, <2>2, <2>3, TxSoundStep
  <1>4. CASE ReleaseNext(p)
    <2>1. Worker(p) /\ status' = status
      BY <1>4 DEF ReleaseNext, TxSound
    <2>2. PICK c \in tx[p].todo :
            tx' = [tx EXCEPT ![p] =
                     IF status[c] = "hold"
                       THEN [Idle EXCEPT !.op = "release", !.pc = "write", !.b = c,
                                         !.todo = tx[p].todo \ {c}]
                       ELSE IF status[c] = "deleted" THEN Idle
                       ELSE Resume(tx[p].todo \ {c})]
      BY <1>4 DEF ReleaseNext
    <2>3. CASE status[c] = "hold"
      <3>1. PICK new : /\ tx' = [tx EXCEPT ![p] = new]
                       /\ new.pc = "write" /\ new.op = "release" /\ new.b = c
        <4> DEFINE start == [Idle EXCEPT !.op = "release", !.pc = "write", !.b = c,
                                         !.todo = tx[p].todo \ {c}]
        <4>1. start.pc = "write" /\ start.op = "release" /\ start.b = c
          BY NewFields
        <4>2. tx' = [tx EXCEPT ![p] = start]
          BY <2>2, <2>3
        <4> HIDE DEF start
        <4> QED
          BY <4>1, <4>2
      <3>2. /\ "release" \in Lifecycle /\ "release" \notin Creation
            /\ Expects["release"] = "hold"
        BY DEF Expects, Creation, Lifecycle
      <3> QED
        BY <2>1, <2>3, <3>1, <3>2, TxSoundStep
    <2>4. CASE status[c] # "hold"
      <3>1. PICK new : /\ tx' = [tx EXCEPT ![p] = new]
                       /\ new.pc \in {"idle", "next"} /\ new.op \notin Creation
        BY <2>2, <2>4, ResumeFields, IdleFields DEF Creation
      <3> QED
        BY <2>1, <3>1, TxSoundStep
    <2> QED
      BY <2>3, <2>4
  <1> QED
    BY <1>1, <1>2, <1>3, <1>4

LEMMA SoundRest ==
  ASSUME TypeOK, TxSound, NEW p \in Proc, NEW b \in Booking, Crash(p) \/ HoldTimesOut(b)
  PROVE  TxSound'
  <1>1. CASE Crash(p)
    BY <1>1, IdleFields, TxSoundStep DEF Crash, Creation
  <1>2. CASE HoldTimesOut(b)
    BY <1>2 DEF HoldTimesOut, TxSound, InCreation
  <1> QED
    BY <1>1, <1>2

\* The refund form and the delete button end a booking that nobody is changing.
LEMMA SoundEnded ==
  ASSUME TypeOK, TxSound, SerialLifecycle, NEW p \in Proc, NEW b \in Booking,
         MarkRefunded(p, b) \/ DeleteBooking(p, b)
  PROVE  TxSound' /\ (\A a \in Booking : Live(a)' => Live(a))
  <1>1. /\ Worker(p) /\ tx[p].pc = "idle" /\ tx' = tx
        /\ status[b] # "none"
        /\ \E s \in {"refunded", "deleted"} : status' = [status EXCEPT ![b] = s]
    BY DEF MarkRefunded, DeleteBooking, Worker
  <1>2. \A q \in Proc : ~(tx[q].pc = "write" /\ tx[q].op \in Lifecycle)
    BY <1>1 DEF TxSound, SerialLifecycle
  <1>3. \A q \in Proc : InCreation(q) => status'[tx[q].b] = "none"
    BY <1>1 DEF TxSound, TypeOK, Tx
  <1>4. TxSound'
    BY <1>1, <1>2, <1>3 DEF TxSound, InCreation
  <1> QED
    BY <1>1, <1>4 DEF Live, TypeOK

\* With fewer live bookings and the same rows there is nothing more to mark.
LEMMA ClaimsFewer ==
  ASSUME ClaimsMarked, NoDoubleBooking, UNCHANGED <<propInv, roomInv>>,
         \A a \in Booking : Live(a)' => Live(a)
  PROVE  ClaimsMarked' /\ NoDoubleBooking'
  BY DEF ClaimsMarked, NoDoubleBooking, RoomOn, BuyoutOn, RoomFree, NoBuyout

LEMMA ExclusionNext == ExclusionInv /\ SerialLifecycle /\ [Next]_vars => ExclusionInv'
  <1> SUFFICES ASSUME ExclusionInv, SerialLifecycle, [Next]_vars PROVE ExclusionInv'
    OBVIOUS
  <1>0. TypeOK'
    BY TypeNext DEF ExclusionInv
  <1>1. CASE UNCHANGED vars
    <2>1. TxSound'
      BY <1>1 DEF ExclusionInv, TxSound, InCreation, vars
    <2> QED
      BY <1>0, <1>1, <2>1, ClaimsUnchanged DEF ExclusionInv, vars
  <1>2. ASSUME NEW p \in Proc, Step(p) PROVE ExclusionInv'
    <2>0. ~AdminInsert(p)
      BY DEF ExclusionInv, TxSound, SerialLifecycle, AdminInsert, Creation, Lifecycle
    <2>1. TxSound'
      BY <1>2, <2>0, SoundCreation, SoundLifecycle DEF ExclusionInv, Step
    <2>2. ClaimsMarked' /\ NoDoubleBooking'
      <3>1. CASE CommitCreate(p)
        BY <3>1, ClaimsCommitCreate
      <3>2. CASE CommitUnpriced(p)
        BY <3>2, ClaimsCommitUnpriced
      <3>3. CASE CommitLifecycle(p)
        BY <3>3, ClaimsCommitLifecycle
      <3>4. CASE \/ EnsureAndRead(p) \/ CheckOther(p) \/ StaleCreate(p)
                 \/ FailLifecycle(p) \/ ListOtherHolds(p) \/ ReleaseNext(p)
        BY <3>4, ClaimsUnchanged
        DEF ExclusionInv, EnsureAndRead, CheckOther, StaleCreate, FailLifecycle,
            ListOtherHolds, ReleaseNext
      <3> QED
        BY <1>2, <2>0, <3>1, <3>2, <3>3, <3>4 DEF Step
    <2> QED
      BY <1>0, <2>1, <2>2 DEF ExclusionInv
  <1>3. ASSUME NEW p \in Proc, Call(p) PROVE ExclusionInv'
    <2>1. CASE \/ BeginSweep(p)
               \/ \E b \in Booking : BeginCreate(p, b)
               \/ \E op \in Lifecycle, b \in Booking : BeginLifecycle(p, op, b)
      <3>1. UNCHANGED <<propInv, roomInv, status>>
        BY <2>1 DEF BeginSweep, BeginCreate, BeginLifecycle
      <3>2. TxSound'
        BY <2>1, SoundBeginCreate, SoundLifecycle DEF ExclusionInv
      <3> QED
        BY <1>0, <3>1, <3>2, ClaimsUnchanged DEF ExclusionInv
    <2>2. CASE \E b \in Booking : MarkRefunded(p, b) \/ DeleteBooking(p, b)
      <3>1. UNCHANGED <<propInv, roomInv>>
        BY <2>2 DEF MarkRefunded, DeleteBooking
      <3> QED
        BY <1>0, <2>2, <3>1, SoundEnded, ClaimsFewer DEF ExclusionInv
    <2>3. \A b \in Booking : ~AdminMark(p, b) /\ ~AdminFindsNoRow(p, b)
      BY DEF SerialLifecycle, AdminMark, AdminFindsNoRow
    <2> QED
      BY <1>3, <2>1, <2>2, <2>3 DEF Call
  <1>4. ASSUME NEW p \in Proc, NEW b \in Booking, Crash(p) \/ HoldTimesOut(b)
        PROVE  ExclusionInv'
    <2>1. UNCHANGED <<propInv, roomInv, status>>
      BY <1>4 DEF Crash, HoldTimesOut
    <2> QED
      BY <1>0, <1>4, <2>1, SoundRest, ClaimsUnchanged DEF ExclusionInv
  <1>5. CASE Proc = {}
    <2>1. UNCHANGED <<propInv, roomInv, status, tx>> \/ UNCHANGED vars
      BY <1>5 DEF Next, HoldTimesOut
    <2>2. TxSound'
      BY <1>5 DEF TxSound
    <2> QED
      BY <1>0, <2>1, <2>2, ClaimsUnchanged DEF ExclusionInv, vars
  <1> QED
    BY <1>1, <1>2, <1>3, <1>4, <1>5, BookingAssumption DEF Next

\* The inductive invariant itself: every process is right about the booking it
\* works on, every live booking is marked in the rows, and no two conflict.
THEOREM ExclusionHolds ==
  ASSUME SerialLifecycle
  PROVE  Spec => []ExclusionInv
  <1>1. Init => ExclusionInv
    BY TypeInit, ExclusionInit
  <1>2. ExclusionInv /\ [Next]_vars => ExclusionInv'
    BY ExclusionNext
  <1> QED
    BY <1>1, <1>2, PTL DEF Spec

\* Two live bookings never have the same room, or the same buyout, on the same
\* night, as long as one process at a time works on existing bookings: the
\* version-checked UPDATEs of the creations are enough, however many members
\* book at once.
THEOREM RoomsExclusive ==
  ASSUME SerialLifecycle
  PROVE  Spec => []NoDoubleBooking
  <1>1. ExclusionInv => NoDoubleBooking
    BY DEF ExclusionInv
  <1> QED
    BY <1>1, ExclusionHolds, PTL

\* A live booking's rooms and buyout nights are marked in the inventory that
\* every later booking looks at.
THEOREM ClaimsAreMarked ==
  ASSUME SerialLifecycle
  PROVE  Spec => []ClaimsMarked
  <1>1. ExclusionInv => ClaimsMarked
    BY DEF ExclusionInv
  <1> QED
    BY <1>1, ExclusionHolds, PTL

-----------------------------------------------------------------------------
(* Nothing stays blocked *)

\* The steps that write a table; every other one leaves all three alone.
LEMMA TablesChange ==
  ASSUME ExclusionInv, SerialLifecycle, [Next]_vars
  PROVE  \/ UNCHANGED <<propInv, roomInv, status>>
         \/ \E p \in Proc : CommitCreate(p) \/ CommitUnpriced(p) \/ CommitLifecycle(p)
         \/ \E p \in Proc, b \in Booking : MarkRefunded(p, b) \/ DeleteBooking(p, b)
  <1>1. \A p \in Proc : ~AdminInsert(p) /\ \A b \in Booking : ~AdminMark(p, b)
    BY DEF ExclusionInv, TxSound, SerialLifecycle, AdminInsert, AdminMark, Creation, Lifecycle
  <1>2. ASSUME NEW p \in Proc, Step(p)
        PROVE  \/ UNCHANGED <<propInv, roomInv, status>>
               \/ CommitCreate(p) \/ CommitUnpriced(p) \/ CommitLifecycle(p)
    <2>1. CASE EnsureAndRead(p) \/ CheckOther(p) \/ StaleCreate(p)
      BY <2>1 DEF EnsureAndRead, CheckOther, StaleCreate
    <2>2. CASE FailLifecycle(p) \/ ListOtherHolds(p) \/ ReleaseNext(p)
      BY <2>2 DEF FailLifecycle, ListOtherHolds, ReleaseNext
    <2> QED
      BY <1>1, <1>2, <2>1, <2>2 DEF Step
  <1>3. ASSUME NEW p \in Proc, Call(p)
        PROVE  \/ UNCHANGED <<propInv, roomInv, status>>
               \/ \E b \in Booking : MarkRefunded(p, b) \/ DeleteBooking(p, b)
    <2>1. CASE BeginSweep(p) \/ \E b \in Booking : BeginCreate(p, b) \/ AdminFindsNoRow(p, b)
      BY <2>1 DEF BeginSweep, BeginCreate, AdminFindsNoRow
    <2>2. CASE \E op \in Lifecycle, b \in Booking : BeginLifecycle(p, op, b)
      BY <2>2 DEF BeginLifecycle
    <2> QED
      BY <1>1, <1>3, <2>1, <2>2 DEF Call
  <1>4. ASSUME NEW p \in Proc, NEW b \in Booking, Crash(p) \/ HoldTimesOut(b)
        PROVE  UNCHANGED <<propInv, roomInv, status>>
    BY <1>4 DEF Crash, HoldTimesOut
  <1>5. CASE UNCHANGED vars
    BY <1>5 DEF vars
  <1>6. CASE \E b \in Booking : HoldTimesOut(b)
    BY <1>6 DEF HoldTimesOut
  <1> QED
    BY <1>2, <1>3, <1>4, <1>5, <1>6, BookingAssumption DEF Next

\* What a creation's commit does, in the terms the invariants need.
LEMMA CommitCreateDoes ==
  ASSUME ExclusionInv, NEW p \in Proc, CommitCreate(p)
  PROVE  \E b \in Booking :
           /\ b = tx[p].b
           /\ status[b] = "none" /\ status' = [status EXCEPT ![b] = "hold"]
           /\ RowUnchanged(p, b) /\ HoldRows(p, b)
           /\ \A r \in Room, d \in Day : roomInv'[r][d] = HeldRoom(p, b, r, d)
           /\ \A prop \in Property, d \in Day : propInv'[prop][d] = HeldProp(p, b, prop, d)
  BY DEF CommitCreate, HoldRows, ExclusionInv, TypeOK, Tx, TxSound, InCreation

\* And a lifecycle operation's.
LEMMA CommitLifecycleDoes ==
  ASSUME ExclusionInv, NEW p \in Proc, CommitLifecycle(p)
  PROVE  \E b \in Booking, op \in Lifecycle :
           /\ b = tx[p].b /\ op = tx[p].op
           /\ status[b] = Expects[op] /\ status' = [status EXCEPT ![b] = Leaves[op]]
           /\ \A r \in Room, d \in Day : roomInv'[r][d] = MovedRoom(op, b, r, d)
           /\ \A prop \in Property, d \in Day : propInv'[prop][d] = MovedProp(op, b, prop, d)
  BY DEF CommitLifecycle, ExclusionInv, TypeOK, Tx, TxSound

\* A hold mark belongs to a hold, a booked mark to a complete booking, unless what
\* left it gives nothing back; and both are in rows that exist (so the UPDATE that
\* clears them finds them).
RoomOwner(b, r, d, s) == NeedsRoom(b, r, d) /\ (status[b] = s \/ LeftBehind(b))
RoomsOwned ==
  \A r \in Room, d \in Day :
    /\ roomInv[r][d].held => \E b \in Booking : RoomOwner(b, r, d, "hold")
    /\ roomInv[r][d].booked => \E b \in Booking : RoomOwner(b, r, d, "complete")
    /\ ~RoomFree(roomInv[r][d]) => roomInv[r][d].exists
BuyoutOwner(b, prop, d, s) ==
  Ask[b].mode = "buyout" /\ NeedsProp(b, prop, d) /\ (status[b] = s \/ LeftBehind(b))
BuyoutsOwned ==
  \A prop \in Property, d \in Day :
    /\ propInv[prop][d].buyoutHeld => \E b \in Booking : BuyoutOwner(b, prop, d, "hold")
    /\ propInv[prop][d].buyoutBooked => \E b \in Booking : BuyoutOwner(b, prop, d, "complete")
    /\ ~NoBuyout(propInv[prop][d]) => propInv[prop][d].exists
OwnedInv == RoomsOwned /\ BuyoutsOwned

LEMMA OwnedInit == Init => OwnedInv
  <1> SUFFICES ASSUME Init PROVE OwnedInv
    OBVIOUS
  <1>1. \A r \in Room, d \in Day : ~roomInv[r][d].held /\ ~roomInv[r][d].booked
    BY DEF Init, FreshRoomRow
  <1>2. \A prop \in Property, d \in Day :
          ~propInv[prop][d].buyoutHeld /\ ~propInv[prop][d].buyoutBooked
    BY DEF Init, FreshPropRow
  <1> QED
    BY <1>1, <1>2 DEF OwnedInv, RoomsOwned, BuyoutsOwned, RoomFree, NoBuyout

\* The rows a creation writes, whether or not it found a price.
LEMMA OwnedHoldRows ==
  ASSUME ExclusionInv, OwnedInv, NEW p \in Proc, NEW b \in Booking,
         RowUnchanged(p, b), HoldRows(p, b),
         NEW s \in {"hold", "none"}, status' = [status EXCEPT ![b] = s],
         tx[p].op = Ask[b].mode,
         s = "none" => Ask[b].mode = "room" /\ PricingFails,
         status[b] = "none"
  PROVE  OwnedInv'
  <1>1. /\ \A r \in Room, d \in Day : roomInv'[r][d] = HeldRoom(p, b, r, d)
        /\ \A prop \in Property, d \in Day : propInv'[prop][d] = HeldProp(p, b, prop, d)
    BY DEF HoldRows
  <1>2. status'[b] = s /\ \A a \in Booking \ {b} : status'[a] = status[a]
    BY DEF ExclusionInv, TypeOK
  <1>3. \A a \in Booking \ {b} : LeftBehind(a)' <=> LeftBehind(a)
    BY <1>2 DEF LeftBehind
  <1>4. s = "hold" \/ LeftBehind(b)'
    BY <1>2 DEF LeftBehind
  <1>5. ASSUME NEW r \in Room, NEW d \in Day
        PROVE  /\ roomInv'[r][d].held => \E a \in Booking : RoomOwner(a, r, d, "hold")'
               /\ roomInv'[r][d].booked => \E a \in Booking : RoomOwner(a, r, d, "complete")'
               /\ ~RoomFree(roomInv'[r][d]) => roomInv'[r][d].exists
    <2>1. roomInv[r][d] \in RoomRow
      BY DEF ExclusionInv, TypeOK
    <2>2. CASE NeedsRoom(b, r, d)
      <3>1. Ask[b].mode = "room" /\ RoomFree(roomInv[r][d])
        BY <2>2, RoomsMeanRoomMode DEF RowUnchanged, NeedsRoom
      <3>2. /\ roomInv'[r][d].exists
            /\ roomInv'[r][d].booked = roomInv[r][d].booked
        BY <1>1, <2>1, <2>2 DEF HeldRoom, RoomRow
      <3>3. RoomOwner(b, r, d, "hold")'
        BY <1>2, <1>4, <2>2 DEF RoomOwner, NeedsRoom, Nights
      <3> QED
        BY <3>1, <3>2, <3>3 DEF RoomFree
    <2>3. CASE ~NeedsRoom(b, r, d)
      <3>1. roomInv'[r][d] = roomInv[r][d]
        BY <1>1, <2>3 DEF HeldRoom
      <3>2. \A a \in Booking, t \in {"hold", "complete"} :
              RoomOwner(a, r, d, t) => RoomOwner(a, r, d, t)'
        BY <1>2, <1>3, <2>3 DEF RoomOwner, NeedsRoom, Nights
      <3> QED
        BY <3>1, <3>2 DEF OwnedInv, RoomsOwned
    <2> QED
      BY <2>2, <2>3
  <1>6. ASSUME NEW prop \in Property, NEW d \in Day
        PROVE  /\ propInv'[prop][d].buyoutHeld =>
                    \E a \in Booking : BuyoutOwner(a, prop, d, "hold")'
               /\ propInv'[prop][d].buyoutBooked =>
                    \E a \in Booking : BuyoutOwner(a, prop, d, "complete")'
               /\ ~NoBuyout(propInv'[prop][d]) => propInv'[prop][d].exists
    <2>1. propInv[prop][d] \in PropRow /\ Ask[b].mode \in Mode
      BY AskTypes DEF ExclusionInv, TypeOK
    <2>2. CASE NeedsProp(b, prop, d) /\ Ask[b].mode = "buyout"
      <3>1. NoBuyout(propInv[prop][d])
        BY <2>2 DEF RowUnchanged, NeedsProp, BuyoutFits
      <3>2. /\ propInv'[prop][d].exists
            /\ propInv'[prop][d].buyoutBooked = propInv[prop][d].buyoutBooked
        BY <1>1, <2>1, <2>2 DEF HeldProp, PropRow
      <3>3. BuyoutOwner(b, prop, d, "hold")'
        BY <1>2, <1>4, <2>2 DEF BuyoutOwner, NeedsProp, PropOf, Nights
      <3> QED
        BY <3>1, <3>2, <3>3 DEF NoBuyout
    <2>3. CASE ~(NeedsProp(b, prop, d) /\ Ask[b].mode = "buyout")
      <3>1. /\ propInv'[prop][d].buyoutHeld = propInv[prop][d].buyoutHeld
            /\ propInv'[prop][d].buyoutBooked = propInv[prop][d].buyoutBooked
            /\ propInv[prop][d].exists => propInv'[prop][d].exists
        <4>1. CASE ~NeedsProp(b, prop, d)
          BY <1>1, <4>1 DEF HeldProp
        <4>2. CASE NeedsProp(b, prop, d) /\ Ask[b].mode = "room"
          BY <1>1, <2>1, <4>2 DEF HeldProp, PropRow
        <4>3. CASE NeedsProp(b, prop, d) /\ Ask[b].mode = "day"
          BY <1>1, <2>1, <4>3 DEF HeldProp, PropRow
        <4> QED
          BY <2>1, <2>3, <4>1, <4>2, <4>3 DEF Mode
      <3>2. \A a \in Booking, t \in {"hold", "complete"} :
              BuyoutOwner(a, prop, d, t) => BuyoutOwner(a, prop, d, t)'
        BY <1>2, <1>3, <2>3 DEF BuyoutOwner, NeedsProp, PropOf, Nights
      <3> QED
        BY <3>1, <3>2 DEF OwnedInv, BuyoutsOwned, NoBuyout
    <2> QED
      BY <2>2, <2>3
  <1> QED
    BY <1>5, <1>6 DEF OwnedInv, RoomsOwned, BuyoutsOwned

\* The columns of a row after a lifecycle operation.
LEMMA MovedPropIs ==
  ASSUME TypeOK, NEW b \in Booking, NEW op \in Lifecycle, NEW prop \in Property, NEW d \in Day
  PROVE  LET row == propInv[prop][d]
             new == MovedProp(op, b, prop, d)
             moved == NeedsProp(b, prop, d) /\ row.exists
         IN  /\ new.exists = row.exists /\ new.version = row.version
             /\ ~(moved /\ Ask[b].mode = "day") =>
                  new.held = row.held /\ new.booked = row.booked
             /\ moved /\ Ask[b].mode = "day" =>
                  /\ new.held = row.held + HeldStep(op) * Ask[b].guests
                  /\ new.booked = row.booked + BookedStep(op) * Ask[b].guests
             /\ ~(moved /\ Ask[b].mode = "buyout") =>
                  /\ new.buyoutHeld = row.buyoutHeld
                  /\ new.buyoutBooked = row.buyoutBooked
             /\ moved /\ Ask[b].mode = "buyout" =>
                  /\ new.buyoutHeld <=> row.buyoutHeld /\ op \notin Confirming \cup {"release"}
                  /\ new.buyoutBooked <=>
                       op \in Confirming \/ (row.buyoutBooked /\ op \notin {"cancel", "refund"})
  <1> DEFINE row == propInv[prop][d]
             h == row.held + HeldStep(op) * Ask[b].guests
             k == row.booked + BookedStep(op) * Ask[b].guests
             x == row.buyoutHeld /\ op \notin Confirming \cup {"release"}
             y == op \in Confirming \/ (row.buyoutBooked /\ op \notin {"cancel", "refund"})
  <1>1. row \in PropRow /\ Ask[b].mode \in Mode
    BY AskTypes DEF TypeOK
  <1> DEFINE new == MovedProp(op, b, prop, d)
             moved == NeedsProp(b, prop, d) /\ row.exists
  <1>2. ASSUME ~moved \/ Ask[b].mode = "room"
        PROVE  new = row
    BY <1>2 DEF MovedProp
  <1>3. ASSUME moved, Ask[b].mode = "day"
        PROVE  /\ new.exists = row.exists /\ new.version = row.version
               /\ new.held = h /\ new.booked = k
               /\ new.buyoutHeld = row.buyoutHeld /\ new.buyoutBooked = row.buyoutBooked
    <2>1. new = [row EXCEPT !.held = h, !.booked = k]
      BY <1>3 DEF MovedProp
    <2> HIDE DEF h, k, row, new
    <2> QED
      BY <1>1, <2>1 DEF PropRow
  <1>4. ASSUME moved, Ask[b].mode = "buyout"
        PROVE  /\ new.exists = row.exists /\ new.version = row.version
               /\ new.held = row.held /\ new.booked = row.booked
               /\ new.buyoutHeld = x /\ new.buyoutBooked = y
    <2>1. new = [row EXCEPT !.buyoutHeld = x, !.buyoutBooked = y]
      BY <1>4 DEF MovedProp
    <2> HIDE DEF x, y, row, new
    <2> QED
      BY <1>1, <2>1 DEF PropRow
  <1>5. Ask[b].mode \in {"room", "day", "buyout"}
    BY <1>1 DEF Mode
  <1> HIDE DEF new, moved, row, h, k, x, y
  <1>6. /\ new.exists = row.exists /\ new.version = row.version
        /\ ~(moved /\ Ask[b].mode = "day") => new.held = row.held /\ new.booked = row.booked
        /\ moved /\ Ask[b].mode = "day" => new.held = h /\ new.booked = k
        /\ ~(moved /\ Ask[b].mode = "buyout") =>
             new.buyoutHeld = row.buyoutHeld /\ new.buyoutBooked = row.buyoutBooked
    BY <1>2, <1>3, <1>4, <1>5
  <1>7. moved /\ Ask[b].mode = "buyout" => (new.buyoutHeld <=> x) /\ (new.buyoutBooked <=> y)
    BY <1>4, Zenon
  <1> QED
    BY <1>6, <1>7, Zenon DEF new, moved, row, h, k, x, y

LEMMA MovedRoomIs ==
  ASSUME TypeOK, NEW b \in Booking, NEW op \in Lifecycle, NEW r \in Room, NEW d \in Day
  PROVE  LET row == roomInv[r][d]
             new == MovedRoom(op, b, r, d)
             moved == NeedsRoom(b, r, d) /\ row.exists
         IN  /\ new.exists = row.exists /\ new.version = row.version
             /\ ~moved => new = row
             /\ moved =>
                  /\ new.held <=> row.held /\ op \notin Confirming \cup {"release"}
                  /\ new.booked <=>
                       op \in Confirming \/ (row.booked /\ op \notin {"cancel", "refund"})
  <1> DEFINE row == roomInv[r][d]
             new == MovedRoom(op, b, r, d)
             moved == NeedsRoom(b, r, d) /\ row.exists
             x == row.held /\ op \notin Confirming \cup {"release"}
             y == op \in Confirming \/ (row.booked /\ op \notin {"cancel", "refund"})
  <1>1. row \in RoomRow
    BY DEF TypeOK
  <1>2. ASSUME ~moved
        PROVE  new = row
    BY <1>2 DEF MovedRoom
  <1>3. ASSUME moved
        PROVE  /\ new.exists = row.exists /\ new.version = row.version
               /\ new.held = x /\ new.booked = y
    <2>1. new = [row EXCEPT !.held = x, !.booked = y]
      BY <1>3 DEF MovedRoom
    <2> HIDE DEF x, y, row, new
    <2> QED
      BY <1>1, <2>1 DEF RoomRow
  <1> HIDE DEF new, moved, row, x, y
  <1>4. new.exists = row.exists /\ new.version = row.version /\ (~moved => new = row)
    BY <1>2, <1>3
  <1>5. moved => (new.held <=> x) /\ (new.booked <=> y)
    BY <1>3, Zenon
  <1> QED
    BY <1>4, <1>5, Zenon DEF new, moved, row, x, y

\* A lifecycle operation clears or moves the marks of its own booking, which are in
\* rows that exist, and touches nobody else's.
LEMMA OwnedCommitLifecycle ==
  ASSUME ExclusionInv, OwnedInv, NEW p \in Proc, CommitLifecycle(p)
  PROVE  OwnedInv'
  <1>1. PICK b \in Booking, op \in Lifecycle :
          /\ status[b] = Expects[op] /\ status' = [status EXCEPT ![b] = Leaves[op]]
          /\ \A r \in Room, d \in Day : roomInv'[r][d] = MovedRoom(op, b, r, d)
          /\ \A prop \in Property, d \in Day : propInv'[prop][d] = MovedProp(op, b, prop, d)
    BY CommitLifecycleDoes
  <1>2. status'[b] = Leaves[op] /\ \A a \in Booking \ {b} : status'[a] = status[a]
    BY <1>1 DEF ExclusionInv, TypeOK
  <1>3. Live(b) /\ ~LeftBehind(b)
    BY <1>1 DEF Live, LeftBehind, Expects, Lifecycle
  <1>4. \A a \in Booking \ {b} : LeftBehind(a)' <=> LeftBehind(a)
    BY <1>2 DEF LeftBehind
  <1>5. /\ op \in Confirming => status'[b] = "complete"
        /\ op \notin Confirming \cup {"release"} => status[b] = "complete" /\ op \in {"cancel", "refund"}
        /\ op = "release" => status[b] = "hold"
    BY <1>1, <1>2 DEF Expects, Leaves, Lifecycle, Confirming
  <1>6. ASSUME NEW r \in Room, NEW d \in Day
        PROVE  /\ roomInv'[r][d].held => \E a \in Booking : RoomOwner(a, r, d, "hold")'
               /\ roomInv'[r][d].booked => \E a \in Booking : RoomOwner(a, r, d, "complete")'
               /\ ~RoomFree(roomInv'[r][d]) => roomInv'[r][d].exists
    <2>1. \A a \in Booking \ {b}, t \in {"hold", "complete"} :
            RoomOwner(a, r, d, t) => RoomOwner(a, r, d, t)'
      BY <1>2, <1>4 DEF RoomOwner, NeedsRoom, Nights
    <2>2. CASE NeedsRoom(b, r, d)
      <3>1. roomInv[r][d].exists
        BY <1>3, <2>2, RoomsMeanRoomMode
        DEF ExclusionInv, ClaimsMarked, RoomOn, OwnedInv, RoomsOwned
      <3>2. /\ roomInv'[r][d].exists
            /\ roomInv'[r][d].held <=> roomInv[r][d].held /\ op \notin Confirming \cup {"release"}
            /\ roomInv'[r][d].booked <=>
                 \/ op \in Confirming
                 \/ roomInv[r][d].booked /\ op \notin {"cancel", "refund"}
        <4>1. TypeOK
          BY DEF ExclusionInv
        <4>2. /\ MovedRoom(op, b, r, d).exists
              /\ MovedRoom(op, b, r, d).held <=>
                   roomInv[r][d].held /\ op \notin Confirming \cup {"release"}
              /\ MovedRoom(op, b, r, d).booked <=>
                   op \in Confirming \/ (roomInv[r][d].booked /\ op \notin {"cancel", "refund"})
          BY <4>1, <2>2, <3>1, MovedRoomIs
        <4>3. roomInv'[r][d] = MovedRoom(op, b, r, d)
          BY <1>1
        <4> QED
          BY <4>2, <4>3, Zenon
      <3>3. op \in Confirming => RoomOwner(b, r, d, "complete")'
        BY <1>5, <2>2 DEF RoomOwner, NeedsRoom, Nights
      <3>4. ASSUME roomInv'[r][d].held PROVE \E a \in Booking : RoomOwner(a, r, d, "hold")'
        <4>1. PICK a \in Booking : RoomOwner(a, r, d, "hold")
          BY <3>2, <3>4 DEF OwnedInv, RoomsOwned
        <4>2. a # b
          BY <1>3, <1>5, <3>2, <3>4, <4>1 DEF RoomOwner
        <4> QED
          BY <2>1, <4>1, <4>2
      <3>5. ASSUME roomInv'[r][d].booked PROVE \E a \in Booking : RoomOwner(a, r, d, "complete")'
        <4>1. CASE op \notin Confirming
          <5>1. PICK a \in Booking : RoomOwner(a, r, d, "complete")
            BY <3>2, <3>5, <4>1 DEF OwnedInv, RoomsOwned
          <5>2. op = "release"
            BY <1>5, <3>2, <3>5, <4>1
          <5>3. a # b
            BY <1>3, <1>5, <5>1, <5>2 DEF RoomOwner
          <5> QED
            BY <2>1, <5>1, <5>3
        <4> QED
          BY <3>3, <4>1
      <3> QED
        BY <3>2, <3>4, <3>5
    <2>3. CASE ~NeedsRoom(b, r, d)
      <3>1. roomInv'[r][d] = roomInv[r][d]
        BY <1>1, <2>3 DEF MovedRoom
      <3>2. \A a \in Booking, t \in {"hold", "complete"} : RoomOwner(a, r, d, t) => a # b
        BY <2>3 DEF RoomOwner
      <3> QED
        BY <2>1, <3>1, <3>2 DEF OwnedInv, RoomsOwned
    <2> QED
      BY <2>2, <2>3
  <1>7. ASSUME NEW prop \in Property, NEW d \in Day
        PROVE  /\ propInv'[prop][d].buyoutHeld =>
                    \E a \in Booking : BuyoutOwner(a, prop, d, "hold")'
               /\ propInv'[prop][d].buyoutBooked =>
                    \E a \in Booking : BuyoutOwner(a, prop, d, "complete")'
               /\ ~NoBuyout(propInv'[prop][d]) => propInv'[prop][d].exists
    <2>1. \A a \in Booking \ {b}, t \in {"hold", "complete"} :
            BuyoutOwner(a, prop, d, t) => BuyoutOwner(a, prop, d, t)'
      BY <1>2, <1>4 DEF BuyoutOwner, NeedsProp, PropOf, Nights
    <2>2. CASE NeedsProp(b, prop, d) /\ Ask[b].mode = "buyout"
      <3>1. propInv[prop][d].exists
        BY <1>3, <2>2 DEF ExclusionInv, ClaimsMarked, BuyoutOn, OwnedInv, BuyoutsOwned
      <3>2. /\ propInv'[prop][d].exists
            /\ propInv'[prop][d].buyoutHeld <=>
                 propInv[prop][d].buyoutHeld /\ op \notin Confirming \cup {"release"}
            /\ propInv'[prop][d].buyoutBooked <=>
                 \/ op \in Confirming
                 \/ propInv[prop][d].buyoutBooked /\ op \notin {"cancel", "refund"}
        <4>1. TypeOK
          BY DEF ExclusionInv
        <4>2. /\ MovedProp(op, b, prop, d).exists
              /\ MovedProp(op, b, prop, d).buyoutHeld <=>
                   propInv[prop][d].buyoutHeld /\ op \notin Confirming \cup {"release"}
              /\ MovedProp(op, b, prop, d).buyoutBooked <=>
                   \/ op \in Confirming
                   \/ propInv[prop][d].buyoutBooked /\ op \notin {"cancel", "refund"}
          BY <4>1, <2>2, <3>1, MovedPropIs
        <4>3. propInv'[prop][d] = MovedProp(op, b, prop, d)
          BY <1>1
        <4> QED
          BY <4>2, <4>3, Zenon
      <3>3. op \in Confirming => BuyoutOwner(b, prop, d, "complete")'
        BY <1>5, <2>2 DEF BuyoutOwner, NeedsProp, PropOf, Nights
      <3>4. ASSUME propInv'[prop][d].buyoutHeld
            PROVE  \E a \in Booking : BuyoutOwner(a, prop, d, "hold")'
        <4>1. PICK a \in Booking : BuyoutOwner(a, prop, d, "hold")
          BY <3>2, <3>4 DEF OwnedInv, BuyoutsOwned
        <4>2. a # b
          BY <1>3, <1>5, <3>2, <3>4, <4>1 DEF BuyoutOwner
        <4> QED
          BY <2>1, <4>1, <4>2
      <3>5. ASSUME propInv'[prop][d].buyoutBooked
            PROVE  \E a \in Booking : BuyoutOwner(a, prop, d, "complete")'
        <4>1. CASE op \notin Confirming
          <5>1. PICK a \in Booking : BuyoutOwner(a, prop, d, "complete")
            BY <3>2, <3>5, <4>1 DEF OwnedInv, BuyoutsOwned
          <5>2. op = "release"
            BY <1>5, <3>2, <3>5, <4>1
          <5>3. a # b
            BY <1>3, <1>5, <5>1, <5>2 DEF BuyoutOwner
          <5> QED
            BY <2>1, <5>1, <5>3
        <4> QED
          BY <3>3, <4>1
      <3> QED
        BY <3>2, <3>4, <3>5
    <2>3. CASE ~(NeedsProp(b, prop, d) /\ Ask[b].mode = "buyout")
      <3>1. /\ propInv'[prop][d].buyoutHeld = propInv[prop][d].buyoutHeld
            /\ propInv'[prop][d].buyoutBooked = propInv[prop][d].buyoutBooked
            /\ propInv'[prop][d].exists = propInv[prop][d].exists
        BY <1>1, <2>3, MovedPropIs DEF ExclusionInv
      <3>2. \A a \in Booking, t \in {"hold", "complete"} : BuyoutOwner(a, prop, d, t) => a # b
        BY <2>3 DEF BuyoutOwner
      <3> QED
        BY <2>1, <3>1, <3>2 DEF OwnedInv, BuyoutsOwned, NoBuyout
    <2> QED
      BY <2>2, <2>3
  <1> QED
    BY <1>6, <1>7 DEF OwnedInv, RoomsOwned, BuyoutsOwned

\* The refund form and the delete button write the status only.
LEMMA OwnedByButton ==
  ASSUME ExclusionInv, OwnedInv, NEW p \in Proc, NEW b \in Booking,
         MarkRefunded(p, b) \/ DeleteBooking(p, b)
  PROVE  OwnedInv'
  <1>1. propInv' = propInv /\ roomInv' = roomInv
    BY DEF MarkRefunded, DeleteBooking
  <1>2. LeftBehind(b)' /\ \A a \in Booking \ {b} : status'[a] = status[a]
    BY DEF MarkRefunded, DeleteBooking, LeftBehind, ExclusionInv, TypeOK
  <1>3. \A a \in Booking, r \in Room, d \in Day, t \in {"hold", "complete"} :
          RoomOwner(a, r, d, t) => RoomOwner(a, r, d, t)'
    BY <1>2 DEF RoomOwner, LeftBehind, NeedsRoom, Nights
  <1>4. \A a \in Booking, prop \in Property, d \in Day, t \in {"hold", "complete"} :
          BuyoutOwner(a, prop, d, t) => BuyoutOwner(a, prop, d, t)'
    BY <1>2 DEF BuyoutOwner, LeftBehind, NeedsProp, PropOf, Nights
  <1>5. RoomsOwned'
    BY <1>1, <1>3 DEF OwnedInv, RoomsOwned, RoomFree
  <1>6. BuyoutsOwned'
    BY <1>1, <1>4 DEF OwnedInv, BuyoutsOwned, NoBuyout
  <1> QED
    BY <1>5, <1>6 DEF OwnedInv

\* A commit runs the operation its request is for.
Asked == \A p \in Proc : InCreation(p) => tx[p].op = Ask[tx[p].b].mode

LEMMA OwnedNext ==
  ASSUME ExclusionInv, OwnedInv, Asked, SerialLifecycle, [Next]_vars
  PROVE  OwnedInv'
  <1>1. CASE UNCHANGED <<propInv, roomInv, status>>
    <2>1. RoomsOwned' <=> RoomsOwned
      BY <1>1 DEF RoomsOwned, RoomOwner, LeftBehind, RoomFree
    <2>2. BuyoutsOwned' <=> BuyoutsOwned
      BY <1>1 DEF BuyoutsOwned, BuyoutOwner, LeftBehind, NoBuyout
    <2> QED
      BY <2>1, <2>2 DEF OwnedInv
  <1>2. ASSUME NEW p \in Proc, CommitCreate(p) \/ CommitUnpriced(p) PROVE OwnedInv'
    <2>1. PICK b \in Booking : b = tx[p].b
      BY DEF ExclusionInv, TypeOK, Tx
    <2>2. InCreation(p) /\ tx[p].op = Ask[b].mode /\ status[b] = "none"
      BY <1>2, <2>1
      DEF CommitCreate, CommitUnpriced, InCreation, Creation, Asked, ExclusionInv, TxSound
    <2>3. RowUnchanged(p, b) /\ HoldRows(p, b)
      BY <1>2, <2>1 DEF CommitCreate, CommitUnpriced
    <2>4. CASE CommitCreate(p)
      <3>1. status' = [status EXCEPT ![b] = "hold"]
        BY <2>1, <2>4 DEF CommitCreate
      <3> QED
        BY <2>2, <2>3, <3>1, OwnedHoldRows
    <2>5. CASE CommitUnpriced(p)
      <3>1. status' = [status EXCEPT ![b] = "none"] /\ Ask[b].mode = "room" /\ PricingFails
        BY <2>1, <2>2, <2>5 DEF CommitUnpriced, ExclusionInv, TypeOK
      <3> QED
        BY <2>2, <2>3, <3>1, OwnedHoldRows
    <2> QED
      BY <1>2, <2>4, <2>5
  <1>3. CASE \E p \in Proc : CommitLifecycle(p)
    BY <1>3, OwnedCommitLifecycle
  <1>4. CASE \E p \in Proc, b \in Booking : MarkRefunded(p, b) \/ DeleteBooking(p, b)
    BY <1>4, OwnedByButton
  <1> QED
    BY <1>1, <1>2, <1>3, <1>4, TablesChange

=============================================================================
