------------------------ MODULE BookingGuestsProofs ------------------------
(***************************************************************************)
(* More theorems about the cabin inventory: the counters of a night cover  *)
(* its guests, so that no cabin is overbooked, and a buyout has the cabin  *)
(* to itself.                                                              *)
(***************************************************************************)
EXTENDS BookingLockerProofs, Sums

-----------------------------------------------------------------------------
(* Guests of a set of bookings *)

Party == [b \in Booking |-> Ask[b].guests]
Guests(S) == SumFunctionOnSet(Party, S)

LEMMA PartyType == \A b \in Booking : Party[b] = Ask[b].guests /\ Party[b] \in Nat \ {0}
  BY AskTypes DEF Party

LEMMA GuestsFacts ==
  ASSUME NEW S \in SUBSET Booking
  PROVE  /\ Guests(S) \in Nat
         /\ \A b \in Booking \ S : Guests(S \cup {b}) = Guests(S) + Ask[b].guests
         /\ \A b \in S : Guests(S) = Ask[b].guests + Guests(S \ {b})
         /\ \A T \in SUBSET S : Guests(T) <= Guests(S)
         /\ \A b \in S : Ask[b].guests <= Guests(S)
  <1>1. IsFiniteSet(S)
    BY BookingAssumption, FS_Subset
  <1>2. \A b \in S : Party[b] \in Nat /\ Party[b] \in Int
    BY PartyType
  <1>3. Guests(S) \in Nat
    BY <1>1, <1>2, SumType DEF Guests
  <1>4. ASSUME NEW b \in Booking \ S PROVE Guests(S \cup {b}) = Guests(S) + Ask[b].guests
    <2>1. Party[b] = Ask[b].guests /\ Party[b] \in Int
      BY PartyType
    <2> QED
      BY <1>1, <1>2, <2>1, SumAdd DEF Guests
  <1>5. ASSUME NEW b \in S PROVE Guests(S) = Ask[b].guests + Guests(S \ {b})
    <2>1. Party[b] = Ask[b].guests
      BY PartyType
    <2> QED
      BY <1>1, <1>2, <2>1, SumRemove DEF Guests
  <1>6. ASSUME NEW T \in SUBSET S PROVE Guests(T) <= Guests(S)
    BY <1>1, <1>2, SumSubset DEF Guests
  <1>7. ASSUME NEW b \in S PROVE Ask[b].guests <= Guests(S)
    <2>1. IsFiniteSet(S \ {b})
      BY <1>1, FS_Subset
    <2>2. Guests(S \ {b}) \in Nat
      BY <1>2, <2>1, SumType DEF Guests
    <2>3. Ask[b].guests \in Nat
      BY AskTypes
    <2> QED
      BY <1>3, <1>5, <2>2, <2>3
  <1> QED
    BY <1>3, <1>4, <1>5, <1>6, <1>7

\* The day bookings of a night, and those in a status.
Staying(prop, d) == {b \in Booking : GuestsOn(b, prop, d)}

LEMMA TotalIs ==
  ASSUME NEW prop, NEW d
  PROVE  /\ GuestTotal(Booking, prop, d) = Guests(Staying(prop, d))
         /\ GuestTotal(Booking, prop, d)' = Guests(Staying(prop, d)')
         /\ Staying(prop, d) \in SUBSET Booking
         /\ Staying(prop, d)' \in SUBSET Booking
  BY DEF GuestTotal, Guests, Staying, Party

-----------------------------------------------------------------------------
(* How a process gets into the states of a creation *)

\* It stays where it is, starts, retries, takes the first read or the second.
CreationStep(p) ==
  \/ tx'[p] = tx[p]
  \/ /\ tx'[p].pc = "read" /\ tx'[p].op = Ask[tx'[p].b].mode
     /\ Ask[tx'[p].b].mode \in May[p]
  \/ /\ tx'[p].pc = "read" /\ tx'[p].op = tx[p].op /\ tx'[p].b = tx[p].b
     /\ InCreation(p)
  \/ /\ EnsureAndRead(p)
     /\ tx'[p].pc = "check" /\ tx'[p].op = tx[p].op /\ tx'[p].b = tx[p].b
     /\ InCreation(p)
     /\ \A d \in Nights(tx[p].b) :
          /\ Ask[tx[p].b].mode # "room" =>
               tx'[p].propVer[d] = propInv[PropOf(tx[p].b)][d].version
          /\ Ask[tx[p].b].mode = "day" =>
               tx'[p].seenHeld[d] = propInv[PropOf(tx[p].b)][d].held
  \/ /\ CheckOther(p)
     /\ SecondReadOK(tx[p].b)
     /\ InCreation(p) /\ tx[p].pc = "check"
     /\ tx'[p].pc = "write" /\ tx'[p].op = tx[p].op /\ tx'[p].b = tx[p].b
     /\ tx'[p].propVer = tx[p].propVer /\ tx'[p].seenHeld = tx[p].seenHeld

LEMMA OthersWait ==
  ASSUME TypeOK, NEW p \in Proc, Step(p) \/ Call(p) \/ Crash(p)
  PROVE  \A q \in Proc \ {p} : tx'[q] = tx[q]
  <1>1. CASE Step(p)
    BY <1>1 DEF Step, EnsureAndRead, CheckOther, CommitCreate, CommitUnpriced, StaleCreate,
       CommitLifecycle, FailLifecycle, ListOtherHolds, ReleaseNext, AdminInsert, TypeOK
  <1>2. CASE Call(p)
    BY <1>2 DEF Call, BeginSweep, BeginCreate, BeginLifecycle, AdminMark, AdminFindsNoRow,
       MarkRefunded, DeleteBooking, TypeOK
  <1>3. CASE Crash(p)
    BY <1>3 DEF Crash, TypeOK
  <1> QED
    BY <1>1, <1>2, <1>3

LEMMA ReadFields ==
  ASSUME TypeOK, TxSound, NEW p \in Proc, EnsureAndRead(p), InCreation(p)'
  PROVE  CreationStep(p)
  <1> DEFINE b == tx[p].b
             ver == [d \in Day |-> IF d \in Nights(b) /\ Ask[b].mode # "room"
                                     THEN propInv[PropOf(b)][d].version ELSE 0]
             seen == [d \in Day |-> IF d \in Nights(b) /\ Ask[b].mode = "day"
                                      THEN propInv[PropOf(b)][d].held ELSE 0]
             rver == [r \in Room |-> [d \in Day |->
                        IF NeedsRoom(b, r, d) THEN roomInv[r][d].version ELSE 0]]
  <1>1. tx[p] \in Tx /\ b \in Booking
    BY DEF TypeOK, Tx
  <1>2. \/ tx' = [tx EXCEPT ![p] = [tx[p] EXCEPT !.pc = "check", !.propVer = ver,
                                                 !.seenHeld = seen, !.roomVer = rver]]
        \/ tx' = [tx EXCEPT ![p] = Idle]
    BY DEF EnsureAndRead, TypeOK
  <1>3. ~(tx' = [tx EXCEPT ![p] = Idle])
    BY IdleFields DEF InCreation, TypeOK
  <1>4. \A d \in Nights(b) :
          /\ Ask[b].mode # "room" => ver[d] = propInv[PropOf(b)][d].version
          /\ Ask[b].mode = "day" => seen[d] = propInv[PropOf(b)][d].held
    BY <1>1, AskTypes
  <1> HIDE DEF ver, seen, rver
  <1>5. /\ tx'[p].pc = "check" /\ tx'[p].op = tx[p].op /\ tx'[p].b = tx[p].b
        /\ tx'[p].propVer = ver /\ tx'[p].seenHeld = seen
    <2> DEFINE new == [tx[p] EXCEPT !.pc = "check", !.propVer = ver,
                                    !.seenHeld = seen, !.roomVer = rver]
    <2>1. /\ new.pc = "check" /\ new.op = tx[p].op /\ new.b = tx[p].b
          /\ new.propVer = ver /\ new.seenHeld = seen
      BY <1>1 DEF Tx
    <2>2. tx' = [tx EXCEPT ![p] = new]
      BY <1>2, <1>3
    <2> HIDE DEF new
    <2>3. tx'[p] = new
      BY <2>2 DEF TypeOK
    <2> QED
      BY <2>1, <2>3
  <1>6. InCreation(p)
    BY <1>5 DEF InCreation, EnsureAndRead
  <1> QED
    BY <1>4, <1>5, <1>6 DEF CreationStep

LEMMA CheckFields ==
  ASSUME TypeOK, TxSound, NEW p \in Proc, CheckOther(p), InCreation(p)'
  PROVE  CreationStep(p)
  <1> DEFINE go == [tx[p] EXCEPT !.pc = "write"]
  <1>1. tx[p] \in Tx /\ tx[p].pc = "check"
    BY DEF TypeOK, CheckOther
  <1>2. /\ go.pc = "write" /\ go.op = tx[p].op /\ go.b = tx[p].b
        /\ go.propVer = tx[p].propVer /\ go.seenHeld = tx[p].seenHeld
    BY <1>1 DEF Tx
  <1>3. tx' = [tx EXCEPT ![p] = IF SecondReadOK(tx[p].b) THEN go ELSE Idle]
    BY DEF CheckOther, TypeOK
  <1> HIDE DEF go
  <1>4. SecondReadOK(tx[p].b)
    BY <1>3, IdleFields DEF InCreation, TypeOK
  <1>5. tx'[p] = go
    BY <1>3, <1>4 DEF TypeOK
  <1>6. InCreation(p)
    BY <1>1, <1>2, <1>5 DEF InCreation
  <1> QED
    BY <1>1, <1>2, <1>4, <1>5, <1>6 DEF CreationStep

LEMMA CreationSteps ==
  ASSUME ExclusionInv, SerialLifecycle, [Next]_vars, NEW p \in Proc, InCreation(p)'
  PROVE  CreationStep(p)
  <1>1. CASE tx'[p] = tx[p]
    BY <1>1 DEF CreationStep
  <1>2. CASE EnsureAndRead(p) \/ CheckOther(p)
    BY <1>2, ReadFields, CheckFields DEF ExclusionInv
  <1>3. CASE StaleCreate(p)
    <2> DEFINE retry == [Idle EXCEPT !.op = tx[p].op, !.pc = "read", !.b = tx[p].b,
                                     !.attempt = tx[p].attempt + 1]
    <2>1. retry.pc = "read" /\ retry.op = tx[p].op /\ retry.b = tx[p].b
      BY NewFields
    <2>2. tx' = [tx EXCEPT ![p] = retry] \/ tx' = [tx EXCEPT ![p] = Idle]
      BY <1>3 DEF StaleCreate
    <2> HIDE DEF retry
    <2>3. tx'[p] = retry
      BY <2>2, IdleFields DEF InCreation, ExclusionInv, TypeOK
    <2>4. InCreation(p)
      BY <1>3 DEF StaleCreate, InCreation
    <2> QED
      BY <2>1, <2>3, <2>4 DEF CreationStep
  <1>4. ASSUME NEW b \in Booking, BeginCreate(p, b) PROVE CreationStep(p)
    <2> DEFINE start == [Idle EXCEPT !.op = Ask[b].mode, !.pc = "read", !.b = b, !.attempt = 1]
    <2>1. start.pc = "read" /\ start.op = Ask[b].mode /\ start.b = b
      BY NewFields
    <2>2. tx' = [tx EXCEPT ![p] = start] /\ Ask[b].mode \in May[p]
      BY <1>4 DEF BeginCreate
    <2> HIDE DEF start
    <2>3. tx'[p] = start
      BY <2>2 DEF ExclusionInv, TypeOK
    <2> QED
      BY <2>1, <2>2, <2>3 DEF CreationStep
  <1>5. CASE CommitCreate(p) \/ CommitUnpriced(p) \/ Crash(p)
    <2>1. tx'[p] = Idle
      BY <1>5 DEF CommitCreate, CommitUnpriced, Crash, ExclusionInv, TypeOK
    <2> QED
      BY <2>1, IdleFields DEF InCreation
  <1>6. CASE CommitLifecycle(p)
    <2> DEFINE list == [Idle EXCEPT !.op = tx[p].op, !.pc = "list", !.b = tx[p].b]
    <2>1. list.op = tx[p].op /\ tx[p].op \notin Creation
      BY <1>6, NewFields DEF CommitLifecycle, Creation, Lifecycle
    <2>2. tx' = [tx EXCEPT ![p] = list] \/ tx' = [tx EXCEPT ![p] = Resume(tx[p].todo)]
      BY <1>6 DEF CommitLifecycle
    <2> HIDE DEF list
    <2> QED
      BY <2>1, <2>2, ResumeFields DEF InCreation, ExclusionInv, TypeOK
  <1>7. CASE FailLifecycle(p) \/ ListOtherHolds(p) \/ BeginSweep(p)
    BY <1>7, IdleFields, ResumeFields
    DEF FailLifecycle, ListOtherHolds, BeginSweep, InCreation, ExclusionInv, TypeOK
  <1>8. CASE ReleaseNext(p)
    <2>1. PICK c \in tx[p].todo :
            tx' = [tx EXCEPT ![p] =
                     IF status[c] = "hold"
                       THEN [Idle EXCEPT !.op = "release", !.pc = "write", !.b = c,
                                         !.todo = tx[p].todo \ {c}]
                       ELSE IF status[c] = "deleted" THEN Idle
                       ELSE Resume(tx[p].todo \ {c})]
      BY <1>8 DEF ReleaseNext
    <2> DEFINE start == [Idle EXCEPT !.op = "release", !.pc = "write", !.b = c,
                                     !.todo = tx[p].todo \ {c}]
    <2>2. start.op = "release" /\ "release" \notin Creation
      BY NewFields DEF Creation
    <2>3. \/ tx' = [tx EXCEPT ![p] = start]
          \/ tx' = [tx EXCEPT ![p] = Idle]
          \/ tx' = [tx EXCEPT ![p] = Resume(tx[p].todo \ {c})]
      BY <2>1
    <2> HIDE DEF start
    <2> QED
      BY <2>2, <2>3, IdleFields, ResumeFields DEF InCreation, ExclusionInv, TypeOK
  <1>9. ASSUME NEW op \in Lifecycle, NEW b \in Booking, BeginLifecycle(p, op, b)
        PROVE  CreationStep(p)
    <2> DEFINE start == [Idle EXCEPT !.op = op, !.pc = "write", !.b = b]
    <2>1. start.op = op /\ op \notin Creation
      BY NewFields DEF Creation, Lifecycle
    <2>2. tx' = [tx EXCEPT ![p] = start]
      BY <1>9 DEF BeginLifecycle
    <2> HIDE DEF start
    <2> QED
      BY <2>1, <2>2 DEF InCreation, ExclusionInv, TypeOK
  <1>10. ASSUME NEW b \in Booking, MarkRefunded(p, b) \/ DeleteBooking(p, b)
         PROVE  tx'[p] = tx[p]
    BY <1>10 DEF MarkRefunded, DeleteBooking
  <1>11. ~AdminInsert(p) /\ \A b \in Booking : ~AdminMark(p, b) /\ ~AdminFindsNoRow(p, b)
    <2>1. ~AdminInsert(p)
      BY DEF ExclusionInv, TxSound, SerialLifecycle, AdminInsert, Creation, Lifecycle
    <2>2. \A b \in Booking : ~AdminMark(p, b) /\ ~AdminFindsNoRow(p, b)
      BY DEF SerialLifecycle, AdminMark, AdminFindsNoRow
    <2> QED
      BY <2>1, <2>2
  <1>12. CASE Step(p)
    BY <1>2, <1>3, <1>5, <1>6, <1>7, <1>8, <1>11, <1>12 DEF Step
  <1>13. CASE Call(p)
    BY <1>1, <1>4, <1>7, <1>9, <1>10, <1>11, <1>13 DEF Call
  <1>14. ASSUME NEW q \in Proc, q # p, Step(q) \/ Call(q) \/ Crash(q)
         PROVE  tx'[p] = tx[p]
    BY <1>14, OthersWait DEF ExclusionInv
  <1>15. CASE UNCHANGED vars \/ \E b \in Booking : HoldTimesOut(b)
    BY <1>1, <1>15 DEF vars, HoldTimesOut
  <1> QED
    BY <1>1, <1>5, <1>12, <1>13, <1>14, <1>15 DEF Next

-----------------------------------------------------------------------------
(* Marks and the bookings they belong to *)

LEMMA AskedNext ==
  ASSUME ExclusionInv, Asked, SerialLifecycle, [Next]_vars
  PROVE  Asked'
  <1> SUFFICES ASSUME NEW p \in Proc, InCreation(p)'
               PROVE  tx'[p].op = Ask[tx'[p].b].mode
    BY DEF Asked
  <1>1. CreationStep(p) /\ tx'[p].op \in Creation
    BY CreationSteps DEF InCreation
  <1>2. CASE tx'[p] = tx[p]
    BY <1>2 DEF Asked, InCreation
  <1>3. CASE tx'[p] # tx[p]
    BY <1>1, <1>3 DEF CreationStep, Asked
  <1> QED
    BY <1>2, <1>3

\* A night that is blocked is blocked by a booking on it that is live, or by one
\* that the delete button, the refund form or a failed pricing has left behind:
\* those three are the only ways in which a mark loses its booking, with any
\* number of members creating bookings, retries and crashes.
THEOREM MarksOwned ==
  ASSUME SerialLifecycle
  PROVE  Spec => []MarksHaveOwners
  <1>1. Init => ExclusionInv /\ Asked /\ OwnedInv
    <2> SUFFICES ASSUME Init PROVE ExclusionInv /\ Asked /\ OwnedInv
      OBVIOUS
    <2>1. Asked
      BY IdleFields DEF Init, InCreation, Asked
    <2> QED
      BY <2>1, TypeInit, ExclusionInit, OwnedInit
  <1>2. ExclusionInv /\ Asked /\ OwnedInv /\ [Next]_vars => ExclusionInv' /\ Asked' /\ OwnedInv'
    BY ExclusionNext, AskedNext, OwnedNext
  <1>3. OwnedInv => MarksHaveOwners
    <2> SUFFICES ASSUME OwnedInv PROVE MarksHaveOwners
      OBVIOUS
    <2>1. ASSUME NEW r \in Room, NEW d \in Day, ~RoomFree(roomInv[r][d])
          PROVE  \E b \in Booking : NeedsRoom(b, r, d) /\ (Live(b) \/ LeftBehind(b))
      BY <2>1 DEF OwnedInv, RoomsOwned, RoomOwner, RoomFree, Live
    <2>2. ASSUME NEW prop \in Property, NEW d \in Day, ~NoBuyout(propInv[prop][d])
          PROVE  \E b \in Booking : /\ Ask[b].mode = "buyout" /\ NeedsProp(b, prop, d)
                                    /\ Live(b) \/ LeftBehind(b)
      BY <2>2 DEF OwnedInv, BuyoutsOwned, BuyoutOwner, NoBuyout, Live
    <2> QED
      BY <2>1, <2>2 DEF MarksHaveOwners
  <1> QED
    BY <1>1, <1>2, <1>3, PTL DEF Spec

-----------------------------------------------------------------------------
(* Rooms and buyouts *)

\* The write skew: a room and a buyout of a common night are being created at the
\* same time.
Crossing(p, q) ==
  /\ InCreation(p) /\ Ask[tx[p].b].mode = "room"
  /\ InCreation(q) /\ Ask[tx[q].b].mode = "buyout"
  /\ PropOf(tx[p].b) = PropOf(tx[q].b)
  /\ Nights(tx[p].b) \cap Nights(tx[q].b) # {}
NeverCrossing == \A p, q \in Proc : ~Crossing(p, q)

\* What a creation has checked in the other table is still so when it commits.
ScreenInv ==
  /\ Asked
  /\ \A p \in Proc : InCreation(p) /\ tx[p].pc = "write" => SecondReadOK(tx[p].b)

\* A lifecycle operation marks nothing that was free: its booking has its marks.
LEMMA FreeStaysFree ==
  ASSUME ExclusionInv, NEW p \in Proc, CommitLifecycle(p), NEW d \in Day
  PROVE  /\ \A r \in Room : RoomFree(roomInv[r][d]) => RoomFree(roomInv'[r][d])
         /\ \A prop \in Property : NoBuyout(propInv[prop][d]) => NoBuyout(propInv'[prop][d])
  <1>1. PICK b \in Booking, op \in Lifecycle :
          /\ status[b] = Expects[op]
          /\ \A r \in Room, n \in Day : roomInv'[r][n] = MovedRoom(op, b, r, n)
          /\ \A prop \in Property, n \in Day : propInv'[prop][n] = MovedProp(op, b, prop, n)
    BY CommitLifecycleDoes
  <1>2. Live(b)
    BY <1>1 DEF Live, Expects, Lifecycle
  <1>3. ASSUME NEW r \in Room, RoomFree(roomInv[r][d]) PROVE RoomFree(roomInv'[r][d])
    <2>1. ~NeedsRoom(b, r, d)
      BY <1>2, <1>3, RoomsMeanRoomMode DEF ExclusionInv, ClaimsMarked, RoomOn
    <2> QED
      BY <1>1, <1>3, <2>1 DEF MovedRoom
  <1>4. ASSUME NEW prop \in Property, NoBuyout(propInv[prop][d]) PROVE NoBuyout(propInv'[prop][d])
    <2>1. ~(NeedsProp(b, prop, d) /\ Ask[b].mode = "buyout")
      BY <1>2, <1>4 DEF ExclusionInv, ClaimsMarked, BuyoutOn
    <2>2. /\ propInv'[prop][d].buyoutHeld = propInv[prop][d].buyoutHeld
          /\ propInv'[prop][d].buyoutBooked = propInv[prop][d].buyoutBooked
      BY <1>1, <2>1, MovedPropIs DEF ExclusionInv
    <2> QED
      BY <1>4, <2>2 DEF NoBuyout
  <1> QED
    BY <1>3, <1>4

\* A creation that commits marks nothing another one has looked at, unless they
\* cross.
LEMMA ScreenCommit ==
  ASSUME ExclusionInv, NeverCrossing, NEW p \in Proc, InCreation(p), SecondReadOK(tx[p].b),
         NEW q \in Proc, InCreation(q), NEW b \in Booking, b = tx[q].b,
         RowUnchanged(q, b), HoldRows(q, b)
  PROVE  /\ Ask[tx[p].b].mode = "buyout" /\ PropOf(tx[p].b) = "tahoe" =>
              \A r \in Room, d \in Nights(tx[p].b) : RoomFree(roomInv'[r][d])
         /\ Ask[tx[p].b].mode = "room" =>
              \A d \in Nights(tx[p].b) : NoBuyout(propInv'[PropOf(tx[p].b)][d])
  <1>1. PICK a \in Booking : a = tx[p].b
    BY DEF ExclusionInv, TypeOK, Tx
  <1>2. Nights(a) \subseteq Day /\ PropOf(a) \in Property /\ Ask[b].mode \in Mode
    BY AskTypes
  <1>3. ASSUME Ask[a].mode = "buyout", PropOf(a) = "tahoe", NEW r \in Room, NEW d \in Nights(a)
        PROVE  RoomFree(roomInv'[r][d])
    <2>1. RoomFree(roomInv[r][d])
      BY <1>1, <1>3 DEF SecondReadOK
    <2>2. roomInv'[r][d] = HeldRoom(q, b, r, d)
      BY <1>2 DEF HoldRows
    <2>3. ~NeedsRoom(b, r, d)
      <3> SUFFICES ASSUME NeedsRoom(b, r, d) PROVE FALSE
        OBVIOUS
      <3>1. Ask[b].mode = "room" /\ PropOf(b) = "tahoe" /\ d \in Nights(b)
        BY RoomsMeanRoomMode, BookingAssumption DEF NeedsRoom, PropOf
      <3> QED
        BY <1>1, <1>3, <3>1 DEF NeverCrossing, Crossing
    <2> QED
      BY <2>1, <2>2, <2>3 DEF HeldRoom
  <1>4. ASSUME Ask[a].mode = "room", NEW d \in Nights(a)
        PROVE  NoBuyout(propInv'[PropOf(a)][d])
    <2> DEFINE row == propInv[PropOf(a)][d]
    <2>1. NoBuyout(row) /\ row \in PropRow
      BY <1>1, <1>2, <1>4 DEF SecondReadOK, ExclusionInv, TypeOK
    <2>2. propInv'[PropOf(a)][d] = HeldProp(q, b, PropOf(a), d)
      BY <1>2 DEF HoldRows
    <2>3. ~(NeedsProp(b, PropOf(a), d) /\ Ask[b].mode = "buyout")
      BY <1>1, <1>4 DEF NeverCrossing, Crossing, NeedsProp
    <2>4. /\ propInv'[PropOf(a)][d].buyoutHeld = row.buyoutHeld
          /\ propInv'[PropOf(a)][d].buyoutBooked = row.buyoutBooked
      <3>1. CASE ~NeedsProp(b, PropOf(a), d)
        BY <2>2, <3>1 DEF HeldProp
      <3>2. CASE NeedsProp(b, PropOf(a), d) /\ Ask[b].mode = "room"
        BY <2>1, <2>2, <3>2 DEF HeldProp, PropRow
      <3>3. CASE NeedsProp(b, PropOf(a), d) /\ Ask[b].mode = "day"
        BY <2>1, <2>2, <3>3 DEF HeldProp, PropRow
      <3> QED
        BY <1>2, <2>3, <3>1, <3>2, <3>3 DEF Mode
    <2> QED
      BY <2>1, <2>4 DEF NoBuyout
  <1> QED
    BY <1>1, <1>3, <1>4

LEMMA ScreenNext ==
  ASSUME ExclusionInv, ScreenInv, SerialLifecycle, NeverCrossing, [Next]_vars
  PROVE  ScreenInv'
  <1>1. Asked'
    BY AskedNext DEF ScreenInv
  <1> SUFFICES ASSUME NEW p \in Proc, InCreation(p)', tx'[p].pc = "write"
               PROVE  SecondReadOK(tx[p].b)'
    BY <1>1 DEF ScreenInv
  <1>2. CASE tx'[p] = tx[p]
    <2>1. InCreation(p) /\ SecondReadOK(tx[p].b)
      BY <1>2 DEF ScreenInv, InCreation
    <2>2. tx[p].b \in Booking
      BY DEF ExclusionInv, TypeOK, Tx
    <2>3. CASE UNCHANGED <<propInv, roomInv, status>>
      BY <1>2, <2>1, <2>3 DEF SecondReadOK, RoomFree, NoBuyout
    <2>4. ASSUME NEW q \in Proc, CommitCreate(q) \/ CommitUnpriced(q)
          PROVE  SecondReadOK(tx[p].b)'
      <3>1. PICK b \in Booking : b = tx[q].b
        BY DEF ExclusionInv, TypeOK, Tx
      <3>2. InCreation(q) /\ RowUnchanged(q, b) /\ HoldRows(q, b)
        BY <2>4, <3>1 DEF CommitCreate, CommitUnpriced, InCreation, Creation
      <3>3. /\ Ask[tx[p].b].mode = "buyout" /\ PropOf(tx[p].b) = "tahoe" =>
                 \A r \in Room, d \in Nights(tx[p].b) : RoomFree(roomInv'[r][d])
            /\ Ask[tx[p].b].mode = "room" =>
                 \A d \in Nights(tx[p].b) : NoBuyout(propInv'[PropOf(tx[p].b)][d])
        BY <2>1, <3>1, <3>2, ScreenCommit
      <3> QED
        BY <1>2, <2>1, <3>3 DEF SecondReadOK, RoomFree, NoBuyout
    <2>5. ASSUME NEW q \in Proc, CommitLifecycle(q) PROVE SecondReadOK(tx[p].b)'
      <3>1. Nights(tx[p].b) \subseteq Day /\ PropOf(tx[p].b) \in Property
        BY <2>2, AskTypes
      <3>2. \A d \in Nights(tx[p].b) :
              /\ \A r \in Room : RoomFree(roomInv[r][d]) => RoomFree(roomInv'[r][d])
              /\ NoBuyout(propInv[PropOf(tx[p].b)][d]) => NoBuyout(propInv'[PropOf(tx[p].b)][d])
        BY <2>5, <3>1, FreeStaysFree
      <3> QED
        BY <1>2, <2>1, <3>2 DEF SecondReadOK, RoomFree, NoBuyout
    <2>6. ASSUME NEW q \in Proc, NEW a \in Booking, MarkRefunded(q, a) \/ DeleteBooking(q, a)
          PROVE  SecondReadOK(tx[p].b)'
      BY <1>2, <2>1, <2>6 DEF MarkRefunded, DeleteBooking, SecondReadOK, RoomFree, NoBuyout
    <2> QED
      BY <2>3, <2>4, <2>5, <2>6, TablesChange
  <1>3. CASE tx'[p] # tx[p]
    <2>1. CreationStep(p)
      BY CreationSteps
    <2>2. CheckOther(p) /\ SecondReadOK(tx[p].b) /\ tx'[p].b = tx[p].b
      BY <1>3, <2>1 DEF CreationStep
    <2> QED
      BY <2>2 DEF CheckOther, SecondReadOK, RoomFree, NoBuyout
  <1> QED
    BY <1>2, <1>3

LEMMA ApartCommitCreate ==
  ASSUME ExclusionInv, ScreenInv, BuyoutExcludesRooms, NEW p \in Proc, CommitCreate(p)
  PROVE  BuyoutExcludesRooms'
  <1>1. PICK b \in Booking :
          /\ b = tx[p].b
          /\ status[b] = "none" /\ status' = [status EXCEPT ![b] = "hold"]
    BY CommitCreateDoes
  <1>2. SecondReadOK(b) /\ ~Live(b)
    BY <1>1 DEF ScreenInv, InCreation, CommitCreate, Live
  <1>3. \A a \in Booking \ {b} : Live(a)' <=> Live(a)
    BY <1>1 DEF Live, ExclusionInv, TypeOK
  <1> SUFFICES ASSUME NEW a \in Booking, NEW c \in Booking, NEW r \in Room, NEW d \in Day,
                      BuyoutOn(a, "tahoe", d)', RoomOn(c, r, d)'
               PROVE  FALSE
    BY DEF BuyoutExcludesRooms
  <1>4. "tahoe" \in Property /\ a # c
    BY DEF Property, BuyoutOn, RoomOn
  <1>5. CASE a = b
    <2>1. RoomOn(c, r, d)
      BY <1>3, <1>4, <1>5 DEF RoomOn
    <2>2. RoomFree(roomInv[r][d])
      BY <1>2, <1>5 DEF SecondReadOK, BuyoutOn, NeedsProp
    <2> QED
      BY <2>1, <2>2 DEF ExclusionInv, ClaimsMarked
  <1>6. CASE c = b
    <2>1. BuyoutOn(a, "tahoe", d)
      BY <1>3, <1>4, <1>6 DEF BuyoutOn
    <2>2. PropOf(b) = "tahoe" /\ d \in Nights(b) /\ Ask[b].mode = "room"
      BY <1>6, BookingAssumption DEF RoomOn, NeedsRoom, PropOf
    <2>3. NoBuyout(propInv["tahoe"][d])
      BY <1>2, <2>2 DEF SecondReadOK
    <2> QED
      BY <1>4, <2>1, <2>3 DEF ExclusionInv, ClaimsMarked
  <1>7. CASE a # b /\ c # b
    BY <1>3, <1>7 DEF BuyoutOn, RoomOn, BuyoutExcludesRooms
  <1> QED
    BY <1>5, <1>6, <1>7

\* Every step but a creation's commit leaves fewer bookings alive, if not the same.
LEMMA OnlyCreationsAdd ==
  ASSUME ExclusionInv, SerialLifecycle, [Next]_vars, ~\E p \in Proc : CommitCreate(p)
  PROVE  \A b \in Booking : Live(b)' => Live(b)
  <1> SUFFICES ASSUME NEW b \in Booking, Live(b)' PROVE Live(b)
    OBVIOUS
  <1>1. CASE status' = status
    BY <1>1 DEF Live
  <1>2. ASSUME NEW p \in Proc, CommitLifecycle(p) PROVE Live(b)
    <2>1. PICK a \in Booking, op \in Lifecycle :
            status[a] = Expects[op] /\ status' = [status EXCEPT ![a] = Leaves[op]]
      BY <1>2, CommitLifecycleDoes
    <2> QED
      BY <2>1 DEF Live, Expects, Lifecycle, ExclusionInv, TypeOK
  <1>3. ASSUME NEW p \in Proc, CommitUnpriced(p) PROVE Live(b)
    BY <1>3 DEF CommitUnpriced, Live
  <1>4. ASSUME NEW p \in Proc, NEW a \in Booking, MarkRefunded(p, a) \/ DeleteBooking(p, a)
        PROVE  Live(b)
    BY <1>4 DEF MarkRefunded, DeleteBooking, Live, ExclusionInv, TypeOK
  <1> QED
    BY <1>1, <1>2, <1>3, <1>4, TablesChange

\* A Tahoe buyout and a room of the same night are both booked only after the two
\* were being created at the same time: each creation looks at the other table,
\* but only its own table's UPDATE is conditional.  Whatever else runs at once, of
\* rooms, buyouts, retries, sweeps, crashes, keeps them apart.
THEOREM RoomsAndBuyoutsApart ==
  ASSUME SerialLifecycle
  PROVE  Spec /\ []NeverCrossing => []BuyoutExcludesRooms
  <1>1. Init => ExclusionInv /\ ScreenInv /\ BuyoutExcludesRooms
    <2> SUFFICES ASSUME Init PROVE ExclusionInv /\ ScreenInv /\ BuyoutExcludesRooms
      OBVIOUS
    <2>1. \A p \in Proc : ~InCreation(p)
      BY IdleFields DEF Init, InCreation
    <2>2. \A b \in Booking : ~Live(b)
      BY DEF Init, Live
    <2>3. ScreenInv
      BY <2>1 DEF ScreenInv, Asked
    <2>4. BuyoutExcludesRooms
      BY <2>2 DEF BuyoutExcludesRooms, BuyoutOn
    <2> QED
      BY <2>3, <2>4, TypeInit, ExclusionInit
  <1>2. ExclusionInv /\ ScreenInv /\ BuyoutExcludesRooms /\ NeverCrossing /\ [Next]_vars
          => ExclusionInv' /\ ScreenInv' /\ BuyoutExcludesRooms'
    <2> SUFFICES ASSUME ExclusionInv, ScreenInv, BuyoutExcludesRooms, NeverCrossing, [Next]_vars
                 PROVE  ExclusionInv' /\ ScreenInv' /\ BuyoutExcludesRooms'
      OBVIOUS
    <2>1. CASE \E p \in Proc : CommitCreate(p)
      BY <2>1, ExclusionNext, ScreenNext, ApartCommitCreate
    <2>2. CASE ~\E p \in Proc : CommitCreate(p)
      <3>1. \A b \in Booking : Live(b)' => Live(b)
        BY <2>2, OnlyCreationsAdd
      <3>2. BuyoutExcludesRooms'
        BY <3>1 DEF BuyoutExcludesRooms, BuyoutOn, RoomOn
      <3> QED
        BY <3>2, ExclusionNext, ScreenNext
    <2> QED
      BY <2>1, <2>2
  <1> QED
    BY <1>1, <1>2, PTL DEF Spec

-----------------------------------------------------------------------------
(* Day guests and the counters *)

\* A creation that has read a night's capacity_held may write it back: as long as
\* the version is the one it read, the counter has not grown.
SeenIsEnough ==
  \A p \in Proc : InCreation(p) /\ tx[p].pc \in {"check", "write"} =>
    \A d \in Nights(tx[p].b) : Ask[tx[p].b].mode = "day" =>
      LET row == propInv[PropOf(tx[p].b)][d] IN
      /\ tx[p].propVer[d] <= row.version
      /\ tx[p].propVer[d] = row.version => row.held <= tx[p].seenHeld[d]

\* The columns of a row after a creation.
LEMMA HeldPropIs ==
  ASSUME TypeOK, NEW p \in Proc, NEW b \in Booking, RowUnchanged(p, b),
         NEW prop \in Property, NEW d \in Day
  PROVE  LET row == propInv[prop][d]
             new == HeldProp(p, b, prop, d)
         IN  /\ new.booked = row.booked
             /\ ~(NeedsProp(b, prop, d) /\ Ask[b].mode = "day") => new.held = row.held
             /\ NeedsProp(b, prop, d) /\ Ask[b].mode = "day" =>
                  /\ new.held = tx[p].seenHeld[d] + Ask[b].guests
                  /\ row.version = tx[p].propVer[d]
                  /\ DayFits(prop, row, Ask[b].guests)
             /\ \/ new.version = row.version + 1
                \/ new.version = row.version /\ new.held = row.held
  <1> DEFINE row == propInv[prop][d]
             v == tx[p].propVer[d] + 1
             h == tx[p].seenHeld[d] + Ask[b].guests
  <1>1. row \in PropRow /\ Ask[b].mode \in Mode
    BY AskTypes DEF TypeOK
  <1>2. CASE ~NeedsProp(b, prop, d)
    BY <1>2 DEF HeldProp
  <1>3. CASE NeedsProp(b, prop, d) /\ Ask[b].mode = "room"
    BY <1>1, <1>3 DEF HeldProp, PropRow
  <1>4. CASE NeedsProp(b, prop, d) /\ Ask[b].mode = "buyout"
    <2>1. HeldProp(p, b, prop, d) =
            [row EXCEPT !.exists = TRUE, !.buyoutHeld = TRUE, !.version = v]
      BY <1>4 DEF HeldProp
    <2>2. row.version = tx[p].propVer[d]
      BY <1>4 DEF RowUnchanged, NeedsProp
    <2>3. v = row.version + 1
      BY <2>2
    <2> HIDE DEF row, v
    <2>4. /\ HeldProp(p, b, prop, d).version = v /\ HeldProp(p, b, prop, d).held = row.held
          /\ HeldProp(p, b, prop, d).booked = row.booked
      BY <1>1, <2>1 DEF PropRow
    <2> QED
      BY <1>4, <2>3, <2>4 DEF row
  <1>5. CASE NeedsProp(b, prop, d) /\ Ask[b].mode = "day"
    <2>1. HeldProp(p, b, prop, d) = [row EXCEPT !.exists = TRUE, !.held = h, !.version = v]
      BY <1>5 DEF HeldProp
    <2>2. row.version = tx[p].propVer[d] /\ DayFits(prop, row, Ask[b].guests)
      BY <1>5 DEF RowUnchanged, NeedsProp
    <2>3. v = row.version + 1
      BY <2>2
    <2> HIDE DEF row, v, h
    <2>4. /\ HeldProp(p, b, prop, d).version = v /\ HeldProp(p, b, prop, d).held = h
          /\ HeldProp(p, b, prop, d).booked = row.booked
      BY <1>1, <2>1 DEF PropRow
    <2> QED
      BY <1>5, <2>2, <2>3, <2>4 DEF row, h
  <1> QED
    BY <1>1, <1>2, <1>3, <1>4, <1>5 DEF Mode

LEMMA StepSizes ==
  ASSUME NEW op \in Lifecycle
  PROVE  /\ HeldStep(op) \in {-1, 0} /\ BookedStep(op) \in {-1, 0, 1}
         /\ op \in Confirming => HeldStep(op) = -1 /\ BookedStep(op) = 1
         /\ op = "release" => HeldStep(op) = -1 /\ BookedStep(op) = 0
         /\ op \in {"cancel", "refund"} => HeldStep(op) = 0 /\ BookedStep(op) = -1
         /\ op \in Confirming \cup {"release", "cancel", "refund"}
  BY DEF HeldStep, BookedStep, Confirming, Lifecycle

\* A night's counter of held places grows only with its version.
LEMMA RowMoves ==
  ASSUME ExclusionInv, SerialLifecycle, [Next]_vars, NEW prop \in Property, NEW d \in Day
  PROVE  \/ propInv'[prop][d].version > propInv[prop][d].version
         \/ /\ propInv'[prop][d].version = propInv[prop][d].version
            /\ propInv'[prop][d].held <= propInv[prop][d].held
  <1>1. propInv[prop][d] \in PropRow
    BY DEF ExclusionInv, TypeOK
  <1>2. propInv[prop][d].version \in Nat /\ propInv[prop][d].held \in Nat
    BY <1>1 DEF PropRow
  <1>3. CASE propInv' = propInv
    BY <1>2, <1>3
  <1>4. ASSUME NEW p \in Proc, CommitCreate(p) \/ CommitUnpriced(p)
        PROVE  \/ propInv'[prop][d].version = propInv[prop][d].version + 1
               \/ /\ propInv'[prop][d].version = propInv[prop][d].version
                  /\ propInv'[prop][d].held = propInv[prop][d].held
    <2>1. PICK b \in Booking :
            RowUnchanged(p, b) /\ propInv'[prop][d] = HeldProp(p, b, prop, d)
      BY <1>4 DEF CommitCreate, CommitUnpriced, HoldRows, ExclusionInv, TypeOK, Tx
    <2> QED
      BY <2>1, HeldPropIs DEF ExclusionInv
  <1>5. ASSUME NEW p \in Proc, CommitLifecycle(p)
        PROVE  /\ propInv'[prop][d].version = propInv[prop][d].version
               /\ propInv'[prop][d].held <= propInv[prop][d].held
    <2>1. PICK b \in Booking, op \in Lifecycle :
            propInv'[prop][d] = MovedProp(op, b, prop, d)
      BY <1>5, CommitLifecycleDoes
    <2>2. HeldStep(op) \in {-1, 0} /\ Ask[b].guests \in Nat
      BY StepSizes, AskTypes
    <2>3. /\ propInv'[prop][d].version = propInv[prop][d].version
          /\ \/ propInv'[prop][d].held = propInv[prop][d].held
             \/ propInv'[prop][d].held = propInv[prop][d].held + HeldStep(op) * Ask[b].guests
      BY <2>1, MovedPropIs DEF ExclusionInv
    <2> QED
      BY <1>2, <2>2, <2>3
  <1>6. ASSUME NEW p \in Proc, NEW a \in Booking, MarkRefunded(p, a) \/ DeleteBooking(p, a)
        PROVE  propInv' = propInv
    BY <1>6 DEF MarkRefunded, DeleteBooking
  <1> QED
    BY <1>2, <1>3, <1>4, <1>5, <1>6, TablesChange

LEMMA SeenNext ==
  ASSUME ExclusionInv, SeenIsEnough, SerialLifecycle, [Next]_vars
  PROVE  SeenIsEnough'
  <1> SUFFICES ASSUME NEW p \in Proc, InCreation(p)', tx'[p].pc \in {"check", "write"},
                      NEW d \in Nights(tx'[p].b), Ask[tx'[p].b].mode = "day"
               PROVE  /\ tx'[p].propVer[d] <= propInv'[PropOf(tx'[p].b)][d].version
                      /\ tx'[p].propVer[d] = propInv'[PropOf(tx'[p].b)][d].version =>
                           propInv'[PropOf(tx'[p].b)][d].held <= tx'[p].seenHeld[d]
    BY DEF SeenIsEnough, Nights, PropOf
  <1>1. CreationStep(p)
    BY CreationSteps
  <1>2. TypeOK'
    BY ExclusionNext DEF ExclusionInv
  <1>3. tx'[p].b \in Booking /\ tx'[p] \in Tx
    BY <1>2 DEF TypeOK, Tx
  <1> DEFINE prop == PropOf(tx'[p].b)
  <1>4. prop \in Property /\ d \in Day
    BY <1>3, AskTypes
  <1>5. propInv[prop][d] \in PropRow /\ propInv'[prop][d] \in PropRow
    BY <1>2, <1>4 DEF ExclusionInv, TypeOK
  <1>6. /\ propInv[prop][d].version \in Nat /\ propInv[prop][d].held \in Nat
        /\ propInv'[prop][d].version \in Nat /\ propInv'[prop][d].held \in Nat
    BY <1>5 DEF PropRow
  <1>7. tx'[p].propVer[d] \in Nat /\ tx'[p].seenHeld[d] \in Nat
    BY <1>3, <1>4 DEF Tx
  <1>8. /\ tx'[p].propVer[d] <= propInv[prop][d].version
        /\ tx'[p].propVer[d] = propInv[prop][d].version =>
             propInv[prop][d].held <= tx'[p].seenHeld[d]
    <2>1. CASE tx'[p] = tx[p]
      BY <2>1 DEF SeenIsEnough, InCreation
    <2>2. CASE EnsureAndRead(p) /\ tx'[p] # tx[p]
      <3>1. /\ tx'[p].b = tx[p].b
            /\ tx'[p].propVer[d] = propInv[prop][d].version
            /\ tx'[p].seenHeld[d] = propInv[prop][d].held
        BY <1>1, <2>2 DEF CreationStep, EnsureAndRead, CheckOther
      <3> QED
        BY <1>6, <3>1
    <2>3. CASE CheckOther(p) /\ tx'[p] # tx[p]
      <3>1. /\ tx'[p].b = tx[p].b /\ InCreation(p) /\ tx[p].pc = "check"
            /\ tx'[p].propVer = tx[p].propVer /\ tx'[p].seenHeld = tx[p].seenHeld
        BY <1>1, <2>3 DEF CreationStep, EnsureAndRead, CheckOther
      <3> QED
        BY <3>1 DEF SeenIsEnough
    <2> QED
      BY <1>1, <2>1, <2>2, <2>3 DEF CreationStep
  <1>9. \/ propInv'[prop][d].version > propInv[prop][d].version
        \/ /\ propInv'[prop][d].version = propInv[prop][d].version
           /\ propInv'[prop][d].held <= propInv[prop][d].held
    BY <1>4, RowMoves
  <1> HIDE DEF prop
  <1>10. /\ tx'[p].propVer[d] <= propInv'[prop][d].version
         /\ tx'[p].propVer[d] = propInv'[prop][d].version =>
              propInv'[prop][d].held <= tx'[p].seenHeld[d]
    BY <1>6, <1>7, <1>8, <1>9
  <1> QED
    BY <1>10 DEF prop

\* What a creation's commit does to a night's guests.
LEMMA CountedCommitCreate ==
  ASSUME ExclusionInv, SeenIsEnough, GuestsCounted, NEW p \in Proc, CommitCreate(p),
         NEW prop \in Property, NEW d \in Day
  PROVE  /\ GuestTotal(Booking, prop, d)' <= propInv'[prop][d].held + propInv'[prop][d].booked
         /\ \/ GuestTotal(Booking, prop, d)' = GuestTotal(Booking, prop, d)
            \/ GuestTotal(Booking, prop, d)' <= Capacity[prop]
  <1>1. PICK b \in Booking :
          /\ b = tx[p].b
          /\ status[b] = "none" /\ status' = [status EXCEPT ![b] = "hold"]
          /\ RowUnchanged(p, b)
          /\ propInv'[prop][d] = HeldProp(p, b, prop, d)
    BY CommitCreateDoes
  <1> DEFINE row == propInv[prop][d]
             new == propInv'[prop][d]
             S == Staying(prop, d)
             T == Staying(prop, d)'
  <1>2. row \in PropRow
    BY DEF ExclusionInv, TypeOK
  <1>3. row.held \in Nat /\ row.booked \in Nat
    BY <1>2 DEF PropRow
  <1>4. /\ S \in SUBSET Booking /\ T \in SUBSET Booking
        /\ GuestTotal(Booking, prop, d) = Guests(S) /\ GuestTotal(Booking, prop, d)' = Guests(T)
    BY TotalIs
  <1>5. Guests(S) \in Nat /\ Guests(S) <= row.held + row.booked
    BY <1>4, GuestsFacts DEF GuestsCounted
  <1>6. b \notin S /\ \A a \in Booking \ {b} : a \in T <=> a \in S
    BY <1>1 DEF Staying, GuestsOn, Live, ExclusionInv, TypeOK
  <1>7. b \in T <=> NeedsProp(b, prop, d) /\ Ask[b].mode = "day"
    BY <1>1 DEF Staying, GuestsOn, Live, ExclusionInv, TypeOK
  <1>8. /\ new.booked = row.booked
        /\ ~(NeedsProp(b, prop, d) /\ Ask[b].mode = "day") => new.held = row.held
        /\ NeedsProp(b, prop, d) /\ Ask[b].mode = "day" =>
             /\ new.held = tx[p].seenHeld[d] + Ask[b].guests
             /\ row.version = tx[p].propVer[d]
             /\ DayFits(prop, row, Ask[b].guests)
    BY <1>1, HeldPropIs DEF ExclusionInv
  <1>9. Ask[b].guests \in Nat
    BY AskTypes
  <1>10. CASE NeedsProp(b, prop, d) /\ Ask[b].mode = "day"
    <2>1. T = S \cup {b}
      BY <1>4, <1>6, <1>7, <1>10
    <2>2. Guests(T) = Guests(S) + Ask[b].guests
      BY <1>4, <1>6, <2>1, GuestsFacts
    <2>3. tx[p].seenHeld[d] \in Nat /\ row.held <= tx[p].seenHeld[d]
      <3>1. InCreation(p) /\ tx[p].pc = "write" /\ tx[p] \in Tx
        BY DEF CommitCreate, InCreation, ExclusionInv, TypeOK
      <3>2. d \in Nights(tx[p].b) /\ PropOf(tx[p].b) = prop /\ Ask[tx[p].b].mode = "day"
        BY <1>1, <1>10 DEF NeedsProp
      <3>3. row.version = tx[p].propVer[d]
        BY <1>8, <1>10
      <3> QED
        BY <3>1, <3>2, <3>3 DEF SeenIsEnough, Tx
    <2>4. Capacity[prop] \in Nat /\ row.booked + row.held + Ask[b].guests <= Capacity[prop]
      BY <1>8, <1>10, BookingAssumption DEF DayFits
    <2>5. new.held = tx[p].seenHeld[d] + Ask[b].guests /\ new.booked = row.booked
      BY <1>8, <1>10
    <2> HIDE DEF row, new, S, T
    <2>6. Guests(T) <= new.held + new.booked /\ Guests(T) <= Capacity[prop]
      BY <1>3, <1>5, <1>9, <2>2, <2>3, <2>4, <2>5
    <2> QED
      BY <1>4, <2>6 DEF new
  <1>11. CASE ~(NeedsProp(b, prop, d) /\ Ask[b].mode = "day")
    <2>1. T = S
      BY <1>4, <1>6, <1>7, <1>11
    <2>2. new.held = row.held /\ new.booked = row.booked
      BY <1>8, <1>11
    <2> QED
      BY <1>4, <1>5, <2>1, <2>2
  <1> QED
    BY <1>10, <1>11

\* And a lifecycle operation's: guests move from held to booked, or leave with
\* their share of a counter.
LEMMA CountedCommitLifecycle ==
  ASSUME ExclusionInv, GuestsCounted, NEW p \in Proc, CommitLifecycle(p),
         NEW prop \in Property, NEW d \in Day
  PROVE  GuestTotal(Booking, prop, d)' <= propInv'[prop][d].held + propInv'[prop][d].booked
  <1>1. PICK b \in Booking, op \in Lifecycle :
          /\ status[b] = Expects[op] /\ status' = [status EXCEPT ![b] = Leaves[op]]
          /\ propInv'[prop][d] = MovedProp(op, b, prop, d)
    BY CommitLifecycleDoes
  <1> DEFINE row == propInv[prop][d]
             new == propInv'[prop][d]
             S == Staying(prop, d)
             T == Staying(prop, d)'
  <1>2. row \in PropRow
    BY DEF ExclusionInv, TypeOK
  <1>3. row.held \in Nat /\ row.booked \in Nat
    BY <1>2 DEF PropRow
  <1>4. /\ S \in SUBSET Booking /\ T \in SUBSET Booking
        /\ GuestTotal(Booking, prop, d) = Guests(S) /\ GuestTotal(Booking, prop, d)' = Guests(T)
    BY TotalIs
  <1>5. Guests(S) \in Nat /\ Guests(T) \in Nat /\ Guests(S) <= row.held + row.booked
    BY <1>4, GuestsFacts DEF GuestsCounted
  <1>6. \A a \in Booking \ {b} : a \in T <=> a \in S
    BY <1>1 DEF Staying, GuestsOn, Live, ExclusionInv, TypeOK
  <1>7. /\ Live(b) /\ (Live(b)' <=> op \in Confirming)
        /\ op \in Confirming \/ op = "release" \/ op \in {"cancel", "refund"}
    BY <1>1 DEF Live, Expects, Leaves, Lifecycle, Confirming, ExclusionInv, TypeOK
  <1>8. /\ b \in S <=> NeedsProp(b, prop, d) /\ Ask[b].mode = "day"
        /\ b \in T <=> op \in Confirming /\ NeedsProp(b, prop, d) /\ Ask[b].mode = "day"
    BY <1>7 DEF Staying, GuestsOn
  <1>9. Ask[b].guests \in Nat
    BY AskTypes
  <1>10. /\ ~(NeedsProp(b, prop, d) /\ row.exists /\ Ask[b].mode = "day") =>
              new.held = row.held /\ new.booked = row.booked
         /\ NeedsProp(b, prop, d) /\ row.exists /\ Ask[b].mode = "day" =>
              /\ new.held = row.held + HeldStep(op) * Ask[b].guests
              /\ new.booked = row.booked + BookedStep(op) * Ask[b].guests
    BY <1>1, MovedPropIs DEF ExclusionInv
  <1>11. CASE NeedsProp(b, prop, d) /\ Ask[b].mode = "day" /\ row.exists
    <2>1. /\ new.held = row.held + HeldStep(op) * Ask[b].guests
          /\ new.booked = row.booked + BookedStep(op) * Ask[b].guests
      BY <1>10, <1>11
    <2>2. CASE op \in Confirming
      <3>1. T = S
        BY <1>4, <1>6, <1>8, <1>11, <2>2
      <3>2. HeldStep(op) = -1 /\ BookedStep(op) = 1
        BY <2>2, StepSizes
      <3>3. new.held + new.booked = row.held + row.booked
        <4> HIDE DEF row, new
        <4> QED BY <1>3, <1>9, <2>1, <3>2
      <3> QED
        BY <1>4, <1>5, <3>1, <3>3
    <2>3. CASE op \notin Confirming
      <3>1. T = S \ {b} /\ b \in S
        BY <1>4, <1>6, <1>8, <1>11, <2>3
      <3>2. Guests(S) = Ask[b].guests + Guests(T)
        BY <1>4, <3>1, GuestsFacts
      <3>3. \/ HeldStep(op) = -1 /\ BookedStep(op) = 0
            \/ HeldStep(op) = 0 /\ BookedStep(op) = -1
        BY <1>7, <2>3, StepSizes
      <3>4. new.held + new.booked = row.held + row.booked - Ask[b].guests
        <4> HIDE DEF row, new
        <4> QED BY <1>3, <1>9, <2>1, <3>3
      <3>5. Guests(T) <= new.held + new.booked
        <4> HIDE DEF row, new, S, T
        <4> QED BY <1>3, <1>5, <1>9, <3>2, <3>4
      <3> QED
        BY <1>4, <3>5
    <2> QED
      BY <2>2, <2>3
  <1>12. CASE ~(NeedsProp(b, prop, d) /\ Ask[b].mode = "day" /\ row.exists)
    <2>1. new.held = row.held /\ new.booked = row.booked
      BY <1>10, <1>12
    <2>2. T \in SUBSET S
      BY <1>4, <1>6, <1>8
    <2>3. Guests(T) <= Guests(S)
      BY <1>4, <2>2, GuestsFacts
    <2>4. Guests(T) <= row.held + row.booked
      <3> HIDE DEF row, S, T
      <3> QED BY <1>3, <1>5, <2>3
    <2> QED
      BY <1>4, <2>1, <2>4
  <1> QED
    BY <1>11, <1>12

\* Fewer bookings, fewer guests.
LEMMA FewerGuests ==
  ASSUME \A b \in Booking : Live(b)' => Live(b), NEW prop \in Property, NEW d \in Day
  PROVE  /\ GuestTotal(Booking, prop, d)' <= GuestTotal(Booking, prop, d)
         /\ GuestTotal(Booking, prop, d) \in Nat /\ GuestTotal(Booking, prop, d)' \in Nat
  <1>1. Staying(prop, d)' \in SUBSET Staying(prop, d)
    BY DEF Staying, GuestsOn
  <1> QED
    BY <1>1, TotalIs, GuestsFacts

\* Where every theorem about guests starts from.
GuestInv == ExclusionInv /\ Asked /\ SeenIsEnough /\ GuestsCounted

LEMMA NobodyAtFirst ==
  ASSUME Init
  PROVE  \A prop \in Property, d \in Day : GuestTotal(Booking, prop, d) = 0
  <1> TAKE prop \in Property, d \in Day
  <1>1. Staying(prop, d) = {}
    BY DEF Init, Staying, GuestsOn, Live
  <1> QED
    BY <1>1, TotalIs, SumEmpty DEF Guests

LEMMA GuestInit == Init => GuestInv
  <1> SUFFICES ASSUME Init PROVE GuestInv
    OBVIOUS
  <1>1. ExclusionInv
    BY TypeInit, ExclusionInit
  <1>2. SeenIsEnough /\ Asked
    BY IdleFields DEF Init, SeenIsEnough, Asked, InCreation
  <1>3. ASSUME NEW prop \in Property, NEW d \in Day
        PROVE  GuestTotal(Booking, prop, d) <= propInv[prop][d].held + propInv[prop][d].booked
    <2>1. propInv[prop][d] \in PropRow
      BY <1>1 DEF ExclusionInv, TypeOK
    <2>2. propInv[prop][d].held \in Nat /\ propInv[prop][d].booked \in Nat
      BY <2>1 DEF PropRow
    <2> QED
      BY <2>2, NobodyAtFirst
  <1> QED
    BY <1>1, <1>2, <1>3 DEF GuestInv, GuestsCounted

LEMMA GuestNext == GuestInv /\ SerialLifecycle /\ [Next]_vars => GuestInv'
  <1> SUFFICES ASSUME GuestInv, SerialLifecycle, [Next]_vars PROVE GuestInv'
    OBVIOUS
  <1>1. ExclusionInv' /\ Asked' /\ SeenIsEnough'
    BY ExclusionNext, AskedNext, SeenNext DEF GuestInv
  <1>2. ASSUME NEW prop \in Property, NEW d \in Day
        PROVE  GuestTotal(Booking, prop, d)' <= propInv'[prop][d].held + propInv'[prop][d].booked
    <2> DEFINE held == propInv[prop][d].held
               booked == propInv[prop][d].booked
    <2>1. CASE \E p \in Proc : CommitCreate(p)
      BY <2>1, CountedCommitCreate DEF GuestInv
    <2>2. CASE \E p \in Proc : CommitLifecycle(p)
      BY <2>2, CountedCommitLifecycle DEF GuestInv
    <2>3. CASE /\ ~\E p \in Proc : CommitCreate(p)
               /\ propInv'[prop][d].held = held
               /\ propInv'[prop][d].booked = booked
      <3>1. GuestTotal(Booking, prop, d)' <= GuestTotal(Booking, prop, d)
            /\ GuestTotal(Booking, prop, d) \in Nat /\ GuestTotal(Booking, prop, d)' \in Nat
        BY <2>3, OnlyCreationsAdd, FewerGuests DEF GuestInv
      <3>2. GuestTotal(Booking, prop, d) <= held + booked
        BY DEF GuestInv, GuestsCounted
      <3>3. propInv[prop][d] \in PropRow
        BY DEF GuestInv, ExclusionInv, TypeOK
      <3>4. held \in Nat /\ booked \in Nat
        BY <3>3 DEF PropRow
      <3> HIDE DEF held, booked
      <3> QED
        BY <2>3, <3>1, <3>2, <3>4
    <2>4. ASSUME NEW p \in Proc, CommitUnpriced(p)
          PROVE  propInv'[prop][d].held = held /\ propInv'[prop][d].booked = booked
      <3>1. PICK b \in Booking :
              /\ b = tx[p].b /\ RowUnchanged(p, b)
              /\ propInv'[prop][d] = HeldProp(p, b, prop, d)
        BY <2>4 DEF CommitUnpriced, HoldRows, GuestInv, ExclusionInv, TypeOK, Tx
      <3>2. Ask[b].mode = "room"
        BY <2>4, <3>1 DEF CommitUnpriced, GuestInv, Asked, InCreation, Creation
      <3> QED
        BY <3>1, <3>2, HeldPropIs DEF GuestInv, ExclusionInv
    <2>5. \/ \E p \in Proc : CommitCreate(p) \/ CommitLifecycle(p)
          \/ propInv'[prop][d].held = held /\ propInv'[prop][d].booked = booked
      BY <2>4, TablesChange DEF GuestInv, MarkRefunded, DeleteBooking
    <2> QED
      BY <2>1, <2>2, <2>3, <2>5
  <1> QED
    BY <1>1, <1>2 DEF GuestInv, GuestsCounted

\* Every live booking is visible in the inventory its competitors look at: rooms
\* and buyout nights are marked, and no night's counters are below its guests.
\* A creation overwrites capacity_held with what it read plus its own guests; it
\* never loses a guest, however many members book at once.
THEOREM InventoryKeepsUp ==
  ASSUME SerialLifecycle
  PROVE  Spec => []InventoryCoversBookings
  <1>1. GuestInv => InventoryCoversBookings
    BY DEF GuestInv, ExclusionInv, InventoryCoversBookings
  <1> QED
    BY <1>1, GuestInit, GuestNext, PTL DEF Spec

\* No night has more guests than the cabin sleeps.
THEOREM CapacityKept ==
  ASSUME SerialLifecycle
  PROVE  Spec => []NeverOverCapacity
  <1>1. Init => NeverOverCapacity
    <2>1. \A prop \in Property : 0 <= Capacity[prop]
      BY BookingAssumption
    <2> QED
      BY <2>1, NobodyAtFirst DEF NeverOverCapacity
  <1>2. GuestInv /\ NeverOverCapacity /\ [Next]_vars => NeverOverCapacity'
    <2> SUFFICES ASSUME GuestInv, NeverOverCapacity, [Next]_vars,
                        NEW prop \in Property, NEW d \in Day
                 PROVE  GuestTotal(Booking, prop, d)' <= Capacity[prop]
      BY DEF NeverOverCapacity
    <2>1. GuestTotal(Booking, prop, d) <= Capacity[prop] /\ Capacity[prop] \in Nat
      BY BookingAssumption DEF NeverOverCapacity
    <2>2. CASE \E p \in Proc : CommitCreate(p)
      BY <2>1, <2>2, CountedCommitCreate DEF GuestInv
    <2>3. CASE ~\E p \in Proc : CommitCreate(p)
      <3>1. GuestTotal(Booking, prop, d)' <= GuestTotal(Booking, prop, d)
            /\ GuestTotal(Booking, prop, d) \in Nat /\ GuestTotal(Booking, prop, d)' \in Nat
        BY <2>3, OnlyCreationsAdd, FewerGuests DEF GuestInv
      <3> QED
        BY <2>1, <3>1
    <2> QED
      BY <2>2, <2>3
  <1> QED
    BY <1>1, <1>2, GuestInit, GuestNext, PTL DEF Spec

\* Bookings by the guest are offered for Clear Lake only: the page of the Tahoe
\* cabin never makes one.
GuestsAtTheLake == \A b \in Booking : Ask[b].mode = "day" => PropOf(b) = "clear_lake"

\* What a creation's commit finds: nobody has what it takes.
LEMMA NewHoldIsAlone ==
  ASSUME GuestInv, GuestsAtTheLake, NEW p \in Proc, CommitCreate(p), NEW a \in Booking, Live(a)
  PROVE  a # tx[p].b /\ ~Conflict(a, tx[p].b)
  <1>1. PICK b \in Booking :
          b = tx[p].b /\ status[b] = "none" /\ RowUnchanged(p, b)
    BY CommitCreateDoes DEF GuestInv
  <1>2. a # b
    BY <1>1 DEF Live
  <1>3. /\ Nights(b) \subseteq Day /\ PropOf(b) \in Property
        /\ Ask[b].rooms \subseteq Room /\ Ask[a].rooms \subseteq Room
        /\ Ask[b].mode \in Mode /\ Ask[a].mode \in Mode
    BY AskTypes
  <1>4. ASSUME PropOf(a) = PropOf(b), NEW d \in Nights(a) \cap Nights(b),
               NEW r \in Ask[a].rooms \cap Ask[b].rooms
        PROVE  FALSE
    <2>1. Ask[a].mode = "room" /\ Ask[b].mode = "room"
      BY BookingAssumption
    <2>2. RoomOn(a, r, d)
      BY <2>1 DEF RoomOn, NeedsRoom
    <2>3. RoomFree(roomInv[r][d])
      BY <1>1, <2>1 DEF RowUnchanged
    <2> QED
      BY <1>3, <2>2, <2>3 DEF GuestInv, ExclusionInv, ClaimsMarked
  <1>5. ASSUME PropOf(a) = PropOf(b), NEW d \in Nights(a) \cap Nights(b),
               Ask[a].mode = "buyout", Ask[b].mode # "room"
        PROVE  FALSE
    <2>1. BuyoutOn(a, PropOf(b), d)
      BY <1>5 DEF BuyoutOn, NeedsProp
    <2>2. NoBuyout(propInv[PropOf(b)][d])
      BY <1>1, <1>3, <1>5 DEF RowUnchanged, BuyoutFits, DayFits, Mode
    <2> QED
      BY <1>3, <2>1, <2>2 DEF GuestInv, ExclusionInv, ClaimsMarked
  <1>6. ASSUME PropOf(a) = PropOf(b), NEW d \in Nights(a) \cap Nights(b),
               Ask[b].mode = "buyout", Ask[a].mode = "day"
        PROVE  FALSE
    <2>1. GuestsOn(a, PropOf(b), d) /\ PropOf(b) = "clear_lake"
      BY <1>6 DEF GuestsOn, NeedsProp, GuestsAtTheLake
    <2>2. propInv[PropOf(b)][d].held = 0 /\ propInv[PropOf(b)][d].booked = 0
      BY <1>1, <1>6, <2>1 DEF RowUnchanged, BuyoutFits
    <2>3. GuestTotal(Booking, PropOf(b), d) <= 0
      BY <1>3, <2>2 DEF GuestInv, GuestsCounted
    <2>4. a \in Staying(PropOf(b), d)
      BY <2>1 DEF Staying
    <2>5. Ask[a].guests <= GuestTotal(Booking, PropOf(b), d)
          /\ GuestTotal(Booking, PropOf(b), d) \in Nat
      BY <2>4, TotalIs, GuestsFacts
    <2>6. Ask[a].guests \in Nat \ {0}
      BY AskTypes
    <2> QED
      BY <2>3, <2>5, <2>6
  <1> QED
    BY <1>1, <1>2, <1>3, <1>4, <1>5, <1>6 DEF Conflict, Mode

\* A night on which the lake cabin is bought out has no day guests.
THEOREM BuyoutHasTheLake ==
  ASSUME SerialLifecycle, GuestsAtTheLake
  PROVE  Spec => []BuyoutExcludesGuests
  <1>1. Init => BuyoutExcludesGuests
    BY DEF Init, BuyoutExcludesGuests, BuyoutOn, Live
  <1>2. GuestInv /\ BuyoutExcludesGuests /\ [Next]_vars => BuyoutExcludesGuests'
    <2> SUFFICES ASSUME GuestInv, BuyoutExcludesGuests, [Next]_vars
                 PROVE  BuyoutExcludesGuests'
      OBVIOUS
    <2>1. ASSUME NEW p \in Proc, CommitCreate(p),
                 NEW a \in Booking, NEW b \in Booking, NEW prop \in Property, NEW d \in Day,
                 BuyoutOn(a, prop, d)', GuestsOn(b, prop, d)'
          PROVE  FALSE
      <3>1. tx[p].b \in Booking /\ status' = [status EXCEPT ![tx[p].b] = "hold"]
        BY <2>1, CommitCreateDoes DEF GuestInv
      <3>2. \A c \in Booking \ {tx[p].b} : Live(c)' <=> Live(c)
        BY <3>1 DEF Live, GuestInv, ExclusionInv, TypeOK
      <3>3. /\ PropOf(a) = prop /\ d \in Nights(a) /\ Ask[a].mode = "buyout" /\ Live(a)'
            /\ PropOf(b) = prop /\ d \in Nights(b) /\ Ask[b].mode = "day" /\ Live(b)'
        BY <2>1 DEF BuyoutOn, GuestsOn, NeedsProp
      <3>4. Conflict(a, b) /\ Conflict(b, a) /\ a # b
        BY <3>3 DEF Conflict
      <3>5. CASE a = tx[p].b
        BY <2>1, <3>2, <3>3, <3>4, <3>5, NewHoldIsAlone
      <3>6. CASE b = tx[p].b
        BY <2>1, <3>2, <3>3, <3>4, <3>6, NewHoldIsAlone
      <3>7. CASE a # tx[p].b /\ b # tx[p].b
        BY <2>1, <3>2, <3>7 DEF BuyoutExcludesGuests, BuyoutOn, GuestsOn
      <3> QED
        BY <3>5, <3>6, <3>7
    <2>2. CASE \E p \in Proc : CommitCreate(p)
      BY <2>1, <2>2 DEF BuyoutExcludesGuests
    <2>3. CASE ~\E p \in Proc : CommitCreate(p)
      <3>1. \A b \in Booking : Live(b)' => Live(b)
        BY <2>3, OnlyCreationsAdd DEF GuestInv
      <3> QED
        BY <3>1 DEF BuyoutExcludesGuests, BuyoutOn, GuestsOn
    <2> QED
      BY <2>2, <2>3
  <1> QED
    BY <1>1, <1>2, GuestInit, GuestNext, PTL DEF Spec

\* Among members, with any number of them creating bookings, a new hold never
\* conflicts with a booking that is live at that moment: same room, or a buyout
\* and other guests of the cabin.  (Admins book over both.)
THEOREM HoldsRespectBookings ==
  ASSUME SerialLifecycle, GuestsAtTheLake
  PROVE  Spec => NewHoldsConflictFree
  <1>1. ASSUME GuestInv, [Next]_vars, NEW a \in Booking, NEW b \in Booking,
               status[b] = "none", status'[b] = "hold", Live(a)
        PROVE  ~Conflict(a, b)
    <2>1. \E p \in Proc : CommitCreate(p)
      <3>1. Live(b)' /\ ~Live(b)
        BY <1>1 DEF Live
      <3> QED
        BY <1>1, <3>1, OnlyCreationsAdd DEF GuestInv
    <2>2. PICK p \in Proc : CommitCreate(p)
      BY <2>1
    <2>3. tx[p].b \in Booking /\ status' = [status EXCEPT ![tx[p].b] = "hold"]
      BY <1>1, <2>2, CommitCreateDoes DEF GuestInv
    <2>4. b = tx[p].b
      BY <1>1, <2>3 DEF GuestInv, ExclusionInv, TypeOK
    <2> QED
      BY <1>1, <2>2, <2>4, NewHoldIsAlone
  <1>2. GuestInv /\ [Next]_vars
          => [\A a, b \in Booking : status[b] = "none" /\ status'[b] = "hold" /\ a # b /\ Live(a)
                => ~Conflict(a, b)]_vars
    BY <1>1
  <1> QED
    BY <1>2, GuestInit, GuestNext, PTL DEF Spec, NewHoldsConflictFree

-----------------------------------------------------------------------------
(* What the counters of day guests lose *)

\* A creation writes back the capacity_held it has read; here it is the row's.
HeldAsRead(p) ==
  \A d \in Nights(tx[p].b) : Ask[tx[p].b].mode = "day" =>
    tx[p].seenHeld[d] = propInv[PropOf(tx[p].b)][d].held

\* The steps that do not lose count: no stale value is written back, no booking is
\* confirmed twice, and the two buttons are not used on day guests.
KeepsCount ==
  \A p \in Proc :
    /\ CommitCreate(p) => HeldAsRead(p)
    /\ CommitLifecycle(p) => tx[p].op # "reconfirm"
    /\ \A b \in Booking : MarkRefunded(p, b) \/ DeleteBooking(p, b) => Ask[b].mode # "day"

\* A booked night has its row.
RowsAreThere ==
  \A b \in Booking, prop \in Property, d \in Day :
    GuestsOn(b, prop, d) => propInv[prop][d].exists
ExactInv == ExclusionInv /\ Asked /\ RowsAreThere /\ ExactCounters

\* The day bookings of a night in one status.
InStatus(s, prop, d) == {b \in {c \in Booking : status[c] = s} : GuestsOn(b, prop, d)}

LEMMA InStatusFacts ==
  ASSUME NEW s, NEW prop, NEW d
  PROVE  /\ GuestTotal({b \in Booking : status[b] = s}, prop, d) = Guests(InStatus(s, prop, d))
         /\ GuestTotal({b \in Booking : status[b] = s}, prop, d)' = Guests(InStatus(s, prop, d)')
         /\ InStatus(s, prop, d) \in SUBSET Booking
         /\ InStatus(s, prop, d)' \in SUBSET Booking
  BY DEF GuestTotal, Guests, InStatus, Party

ExactRow(prop, d) ==
  /\ propInv[prop][d].held = Guests(InStatus("hold", prop, d))
  /\ propInv[prop][d].booked = Guests(InStatus("complete", prop, d))

LEMMA ExactRows == /\ ExactCounters <=> \A prop \in Property, d \in Day : ExactRow(prop, d)
                   /\ ExactCounters' <=> \A prop \in Property, d \in Day : ExactRow(prop, d)'
  <1>1. ASSUME NEW prop, NEW d
        PROVE  /\ ExactRow(prop, d) <=>
                    /\ propInv[prop][d].held = GuestTotal({b \in Booking : status[b] = "hold"}, prop, d)
                    /\ propInv[prop][d].booked = GuestTotal({b \in Booking : status[b] = "complete"}, prop, d)
               /\ ExactRow(prop, d)' <=>
                    /\ propInv'[prop][d].held = GuestTotal({b \in Booking : status[b] = "hold"}, prop, d)'
                    /\ propInv'[prop][d].booked = GuestTotal({b \in Booking : status[b] = "complete"}, prop, d)'
    <2>1. /\ GuestTotal({b \in Booking : status[b] = "hold"}, prop, d) = Guests(InStatus("hold", prop, d))
          /\ GuestTotal({b \in Booking : status[b] = "hold"}, prop, d)' = Guests(InStatus("hold", prop, d)')
          /\ GuestTotal({b \in Booking : status[b] = "complete"}, prop, d) = Guests(InStatus("complete", prop, d))
          /\ GuestTotal({b \in Booking : status[b] = "complete"}, prop, d)' = Guests(InStatus("complete", prop, d)')
      BY InStatusFacts
    <2> QED
      BY <2>1 DEF ExactRow, Guests, Party
  <1> QED
    BY <1>1, Zenon DEF ExactCounters

LEMMA ExactCommitCreate ==
  ASSUME ExactInv, NEW p \in Proc, CommitCreate(p), HeldAsRead(p)
  PROVE  RowsAreThere' /\ ExactCounters'
  <1>1. PICK b \in Booking :
          /\ b = tx[p].b
          /\ status[b] = "none" /\ status' = [status EXCEPT ![b] = "hold"]
          /\ RowUnchanged(p, b)
          /\ \A prop \in Property, d \in Day : propInv'[prop][d] = HeldProp(p, b, prop, d)
    BY CommitCreateDoes DEF ExactInv
  <1>2. /\ \A a \in Booking \ {b} : status'[a] = status[a]
        /\ status'[b] = "hold"
    BY <1>1 DEF ExactInv, ExclusionInv, TypeOK
  <1>3. ASSUME NEW prop \in Property, NEW d \in Day PROVE ExactRow(prop, d)'
    <2> DEFINE row == propInv[prop][d]
               new == propInv'[prop][d]
               S == InStatus("hold", prop, d)
               T == InStatus("hold", prop, d)'
    <2>1. row.held = Guests(S) /\ row.booked = Guests(InStatus("complete", prop, d))
      BY ExactRows DEF ExactInv, ExactRow
    <2>2. InStatus("complete", prop, d)' = InStatus("complete", prop, d)
      BY <1>1, <1>2 DEF InStatus, GuestsOn, Live
    <2>3. S \in SUBSET Booking /\ T \in SUBSET Booking
      BY InStatusFacts
    <2>4. /\ b \notin S /\ \A a \in Booking \ {b} : a \in T <=> a \in S
          /\ b \in T <=> NeedsProp(b, prop, d) /\ Ask[b].mode = "day"
      BY <1>1, <1>2 DEF InStatus, GuestsOn, Live
    <2>5. /\ new.booked = row.booked
          /\ ~(NeedsProp(b, prop, d) /\ Ask[b].mode = "day") => new.held = row.held
          /\ NeedsProp(b, prop, d) /\ Ask[b].mode = "day" =>
               new.held = tx[p].seenHeld[d] + Ask[b].guests
      BY <1>1, HeldPropIs DEF ExactInv, ExclusionInv
    <2>6. CASE NeedsProp(b, prop, d) /\ Ask[b].mode = "day"
      <3>1. T = S \cup {b}
        BY <2>3, <2>4, <2>6
      <3>2. Guests(T) = Guests(S) + Ask[b].guests
        BY <2>3, <2>4, <3>1, GuestsFacts
      <3>3. tx[p].seenHeld[d] = row.held
        BY <1>1, <2>6 DEF HeldAsRead, NeedsProp
      <3>4. new.held = Guests(T)
        BY <2>1, <2>5, <2>6, <3>2, <3>3
      <3> QED
        BY <2>1, <2>2, <2>5, <3>4 DEF ExactRow
    <2>7. CASE ~(NeedsProp(b, prop, d) /\ Ask[b].mode = "day")
      <3>1. T = S
        BY <2>3, <2>4, <2>7
      <3> QED
        BY <2>1, <2>2, <2>5, <2>7, <3>1 DEF ExactRow
    <2> QED
      BY <2>6, <2>7
  <1>4. ASSUME NEW a \in Booking, NEW prop \in Property, NEW d \in Day, GuestsOn(a, prop, d)'
        PROVE  propInv'[prop][d].exists
    <2>1. propInv[prop][d] \in PropRow
      BY DEF ExactInv, ExclusionInv, TypeOK
    <2>2. propInv'[prop][d].exists = TRUE \/ propInv'[prop][d] = propInv[prop][d]
      <3>1. Ask[b].mode \in Mode
        BY AskTypes
      <3>2. CASE ~NeedsProp(b, prop, d)
        BY <1>1, <3>2 DEF HeldProp
      <3>3. CASE NeedsProp(b, prop, d)
        BY <1>1, <2>1, <3>1, <3>3 DEF HeldProp, PropRow, Mode
      <3> QED
        BY <3>2, <3>3
    <2>3. CASE a = b
      <3>1. NeedsProp(b, prop, d) /\ Ask[b].mode = "day"
        BY <1>4, <2>3 DEF GuestsOn
      <3> QED
        BY <1>1, <2>1, <3>1 DEF HeldProp, PropRow
    <2>4. CASE a # b
      BY <1>2, <1>4, <2>2, <2>4 DEF ExactInv, RowsAreThere, GuestsOn, Live
    <2> QED
      BY <2>3, <2>4
  <1> QED
    BY <1>3, <1>4, ExactRows DEF RowsAreThere

LEMMA ExactCommitLifecycle ==
  ASSUME ExactInv, NEW p \in Proc, CommitLifecycle(p), tx[p].op # "reconfirm"
  PROVE  RowsAreThere' /\ ExactCounters'
  <1>1. PICK b \in Booking, op \in Lifecycle :
          /\ b = tx[p].b /\ op = tx[p].op
          /\ status[b] = Expects[op] /\ status' = [status EXCEPT ![b] = Leaves[op]]
          /\ \A prop \in Property, d \in Day : propInv'[prop][d] = MovedProp(op, b, prop, d)
    BY CommitLifecycleDoes DEF ExactInv
  <1>2. \A a \in Booking \ {b} : status'[a] = status[a]
    BY <1>1 DEF ExactInv, ExclusionInv, TypeOK
  <1>3. \/ op = "confirm" /\ status[b] = "hold" /\ status'[b] = "complete"
        \/ op = "release" /\ status[b] = "hold" /\ status'[b] = "canceled"
        \/ op \in {"cancel", "refund"} /\ status[b] = "complete"
             /\ status'[b] \in {"canceled", "refunded"}
    <2>1. op # "reconfirm"
      BY <1>1
    <2> QED
      BY <1>1, <2>1 DEF Expects, Leaves, Lifecycle, ExactInv, ExclusionInv, TypeOK
  <1>4. ASSUME NEW prop \in Property, NEW d \in Day PROVE ExactRow(prop, d)'
    <2> DEFINE row == propInv[prop][d]
               new == propInv'[prop][d]
               H == InStatus("hold", prop, d)
               H2 == InStatus("hold", prop, d)'
               C == InStatus("complete", prop, d)
               C2 == InStatus("complete", prop, d)'
               g == Ask[b].guests
    <2>1. row.held = Guests(H) /\ row.booked = Guests(C)
      BY ExactRows DEF ExactInv, ExactRow
    <2>2. /\ H \in SUBSET Booking /\ H2 \in SUBSET Booking
          /\ C \in SUBSET Booking /\ C2 \in SUBSET Booking
      BY InStatusFacts
    <2>3. \A a \in Booking \ {b} : (a \in H2 <=> a \in H) /\ (a \in C2 <=> a \in C)
      BY <1>2 DEF InStatus, GuestsOn, Live
    <2>4. /\ b \in H <=> status[b] = "hold" /\ NeedsProp(b, prop, d) /\ Ask[b].mode = "day"
          /\ b \in C <=> status[b] = "complete" /\ NeedsProp(b, prop, d) /\ Ask[b].mode = "day"
          /\ b \in H2 <=> status'[b] = "hold" /\ NeedsProp(b, prop, d) /\ Ask[b].mode = "day"
          /\ b \in C2 <=> status'[b] = "complete" /\ NeedsProp(b, prop, d) /\ Ask[b].mode = "day"
      BY DEF InStatus, GuestsOn, Live
    <2>5. /\ ~(NeedsProp(b, prop, d) /\ row.exists /\ Ask[b].mode = "day") =>
               new.held = row.held /\ new.booked = row.booked
          /\ NeedsProp(b, prop, d) /\ row.exists /\ Ask[b].mode = "day" =>
               /\ new.held = row.held + HeldStep(op) * g
               /\ new.booked = row.booked + BookedStep(op) * g
      BY <1>1, MovedPropIs DEF ExactInv, ExclusionInv
    <2>6. g \in Nat /\ Guests(H) \in Nat /\ Guests(C) \in Nat
      BY <2>2, AskTypes, GuestsFacts
    <2>7. CASE NeedsProp(b, prop, d) /\ Ask[b].mode = "day"
      <3>1. row.exists
        BY <1>3, <2>7 DEF ExactInv, RowsAreThere, GuestsOn, Live
      <3>2. new.held = row.held + HeldStep(op) * g /\ new.booked = row.booked + BookedStep(op) * g
        BY <2>5, <2>7, <3>1
      <3>3. CASE op = "confirm"
        <4>1. HeldStep(op) = -1 /\ BookedStep(op) = 1
          BY <3>3, StepSizes DEF Confirming
        <4>2. b \in H /\ H2 = H \ {b} /\ b \notin C /\ C2 = C \cup {b}
          BY <1>3, <2>2, <2>3, <2>4, <2>7, <3>3
        <4>3. Guests(H) = g + Guests(H2) /\ Guests(C2) = Guests(C) + g
          BY <2>2, <4>2, GuestsFacts
        <4>4. Guests(H2) \in Nat
          BY <2>2, GuestsFacts
        <4> HIDE DEF row, new, H, H2, C, C2, g
        <4>5. new.held = Guests(H2) /\ new.booked = Guests(C2)
          BY <2>1, <2>6, <3>2, <4>1, <4>3, <4>4
        <4> QED
          BY <4>5 DEF ExactRow, new, H2, C2
      <3>4. CASE op = "release"
        <4>1. HeldStep(op) = -1 /\ BookedStep(op) = 0
          BY <3>4, StepSizes
        <4>2. b \in H /\ H2 = H \ {b} /\ C2 = C
          BY <1>3, <2>2, <2>3, <2>4, <2>7, <3>4
        <4>3. Guests(H) = g + Guests(H2)
          BY <2>2, <4>2, GuestsFacts
        <4>4. Guests(H2) \in Nat
          BY <2>2, GuestsFacts
        <4> HIDE DEF row, new, H, H2, C, C2, g
        <4>5. new.held = Guests(H2) /\ new.booked = Guests(C2)
          BY <2>1, <2>6, <3>2, <4>1, <4>2, <4>3, <4>4
        <4> QED
          BY <4>5 DEF ExactRow, new, H2, C2
      <3>5. CASE op \in {"cancel", "refund"}
        <4>1. HeldStep(op) = 0 /\ BookedStep(op) = -1
          BY <3>5, StepSizes
        <4>2. H2 = H /\ b \in C /\ C2 = C \ {b}
          BY <1>3, <2>2, <2>3, <2>4, <2>7, <3>5
        <4>3. Guests(C) = g + Guests(C2)
          BY <2>2, <4>2, GuestsFacts
        <4>4. Guests(C2) \in Nat
          BY <2>2, GuestsFacts
        <4> HIDE DEF row, new, H, H2, C, C2, g
        <4>5. new.held = Guests(H2) /\ new.booked = Guests(C2)
          BY <2>1, <2>6, <3>2, <4>1, <4>2, <4>3, <4>4
        <4> QED
          BY <4>5 DEF ExactRow, new, H2, C2
      <3> QED
        BY <1>3, <3>3, <3>4, <3>5
    <2>8. CASE ~(NeedsProp(b, prop, d) /\ Ask[b].mode = "day")
      <3>1. H2 = H /\ C2 = C
        BY <2>2, <2>3, <2>4, <2>8
      <3> QED
        BY <2>1, <2>5, <2>8, <3>1 DEF ExactRow
    <2> QED
      BY <2>7, <2>8
  <1>5. \A a \in Booking : Live(a)' => Live(a)
    BY <1>2, <1>3 DEF Live
  <1>6. \A prop \in Property, d \in Day : propInv'[prop][d].exists = propInv[prop][d].exists
    BY <1>1, MovedPropIs DEF ExactInv, ExclusionInv
  <1> QED
    BY <1>4, <1>5, <1>6, ExactRows DEF ExactInv, RowsAreThere, GuestsOn

\* The counters are exactly the guests on hold and the guests of complete bookings,
\* with any number of members creating bookings, until a creation writes back a
\* stale capacity_held, a booking is confirmed again, or a button is used on it:
\* nothing else leaks, whatever is retried, released, swept, confirmed, canceled,
\* refunded or interrupted.
THEOREM CountersExact ==
  ASSUME SerialLifecycle
  PROVE  Spec /\ [][KeepsCount]_vars => []ExactCounters
  <1>1. Init => ExactInv
    <2> SUFFICES ASSUME Init PROVE ExactInv
      OBVIOUS
    <2>1. /\ \A p \in Proc : ~InCreation(p) /\ tx[p].pc = "idle"
          /\ \A b \in Booking : status[b] = "none"
      BY IdleFields DEF Init, InCreation
    <2>2. Asked /\ RowsAreThere
      BY <2>1 DEF Asked, RowsAreThere, GuestsOn, Live
    <2>3. ASSUME NEW prop \in Property, NEW d \in Day PROVE ExactRow(prop, d)
      <3>1. propInv[prop][d].held = 0 /\ propInv[prop][d].booked = 0
        BY DEF Init, FreshPropRow
      <3>2. InStatus("hold", prop, d) = {} /\ InStatus("complete", prop, d) = {}
        BY <2>1 DEF InStatus
      <3> QED
        BY <3>1, <3>2, SumEmpty DEF ExactRow, Guests
    <2> QED
      BY <2>2, <2>3, TypeInit, ExclusionInit, ExactRows DEF ExactInv
  <1>2. ExactInv /\ [Next]_vars /\ [KeepsCount]_vars => ExactInv'
    <2> SUFFICES ASSUME ExactInv, [Next]_vars, [KeepsCount]_vars PROVE ExactInv'
      OBVIOUS
    <2>1. ExclusionInv' /\ Asked'
      BY ExclusionNext, AskedNext DEF ExactInv
    <2>2. ASSUME UNCHANGED <<propInv, roomInv, status>> PROVE RowsAreThere' /\ ExactCounters'
      <3>1. RowsAreThere'
        BY <2>2 DEF ExactInv, RowsAreThere, GuestsOn, Live
      <3>2. ASSUME NEW prop \in Property, NEW d \in Day PROVE ExactRow(prop, d)'
        <4>1. /\ InStatus("hold", prop, d)' = InStatus("hold", prop, d)
              /\ InStatus("complete", prop, d)' = InStatus("complete", prop, d)
          BY <2>2 DEF InStatus, GuestsOn, Live
        <4>2. ExactRow(prop, d)
          BY ExactRows DEF ExactInv
        <4> QED
          BY <2>2, <4>1, <4>2 DEF ExactRow
      <3> QED
        BY <3>1, <3>2, ExactRows
    <2>3. ASSUME NEW p \in Proc, CommitUnpriced(p) PROVE RowsAreThere' /\ ExactCounters'
      <3>1. PICK b \in Booking :
              /\ b = tx[p].b /\ RowUnchanged(p, b)
              /\ \A prop \in Property, d \in Day : propInv'[prop][d] = HeldProp(p, b, prop, d)
        BY <2>3 DEF CommitUnpriced, HoldRows, ExactInv, ExclusionInv, TypeOK, Tx
      <3>2. Ask[b].mode = "room" /\ status' = status
        BY <2>3, <3>1 DEF CommitUnpriced, ExactInv, Asked, InCreation, Creation
      <3>3. ASSUME NEW prop \in Property, NEW d \in Day
            PROVE  /\ ExactRow(prop, d)'
                   /\ propInv[prop][d].exists => propInv'[prop][d].exists
        <4>1. propInv[prop][d] \in PropRow
          BY DEF ExactInv, ExclusionInv, TypeOK
        <4>2. /\ propInv'[prop][d].held = propInv[prop][d].held
              /\ propInv'[prop][d].booked = propInv[prop][d].booked
          BY <3>1, <3>2, HeldPropIs DEF ExactInv, ExclusionInv
        <4>3. propInv[prop][d].exists => propInv'[prop][d].exists
          <5>1. CASE NeedsProp(b, prop, d)
            BY <3>1, <3>2, <4>1, <5>1 DEF HeldProp, PropRow
          <5>2. CASE ~NeedsProp(b, prop, d)
            BY <3>1, <5>2 DEF HeldProp
          <5> QED
            BY <5>1, <5>2
        <4>4. /\ InStatus("hold", prop, d)' = InStatus("hold", prop, d)
              /\ InStatus("complete", prop, d)' = InStatus("complete", prop, d)
          BY <3>2 DEF InStatus, GuestsOn, Live
        <4>5. ExactRow(prop, d)
          BY ExactRows DEF ExactInv
        <4> QED
          BY <4>2, <4>3, <4>4, <4>5 DEF ExactRow
      <3>4. RowsAreThere'
        BY <3>2, <3>3 DEF ExactInv, RowsAreThere, GuestsOn, Live
      <3> QED
        BY <3>3, <3>4, ExactRows
    <2>4. ASSUME NEW p \in Proc, NEW b \in Booking, MarkRefunded(p, b) \/ DeleteBooking(p, b),
                 KeepsCount
          PROVE  RowsAreThere' /\ ExactCounters'
      <3>1. Ask[b].mode # "day" /\ propInv' = propInv
        BY <2>4 DEF KeepsCount, MarkRefunded, DeleteBooking
      <3>2. \A a \in Booking \ {b} : status'[a] = status[a]
        BY <2>4 DEF MarkRefunded, DeleteBooking, ExactInv, ExclusionInv, TypeOK
      <3>3. RowsAreThere'
        BY <3>1, <3>2 DEF ExactInv, RowsAreThere, GuestsOn, Live
      <3>4. ASSUME NEW prop \in Property, NEW d \in Day PROVE ExactRow(prop, d)'
        <4>1. /\ InStatus("hold", prop, d)' = InStatus("hold", prop, d)
              /\ InStatus("complete", prop, d)' = InStatus("complete", prop, d)
          BY <3>1, <3>2 DEF InStatus, GuestsOn, Live
        <4>2. ExactRow(prop, d)
          BY ExactRows DEF ExactInv
        <4> QED
          BY <3>1, <4>1, <4>2 DEF ExactRow
      <3> QED
        BY <3>3, <3>4, ExactRows
    <2>5. CASE KeepsCount
      <3>1. ASSUME NEW p \in Proc, CommitCreate(p) PROVE RowsAreThere' /\ ExactCounters'
        BY <2>5, <3>1, ExactCommitCreate DEF KeepsCount
      <3>2. ASSUME NEW p \in Proc, CommitLifecycle(p) PROVE RowsAreThere' /\ ExactCounters'
        BY <2>5, <3>2, ExactCommitLifecycle DEF KeepsCount
      <3> QED
        BY <2>1, <2>2, <2>3, <2>4, <2>5, <3>1, <3>2, TablesChange DEF ExactInv
    <2>6. CASE UNCHANGED vars
      BY <2>1, <2>2, <2>6 DEF ExactInv, vars
    <2> QED
      BY <2>5, <2>6
  <1>3. ExactInv => ExactCounters
    BY DEF ExactInv
  <1> QED
    BY <1>1, <1>2, <1>3, PTL DEF Spec

-----------------------------------------------------------------------------
(* The locker implements CabinStays *)

\* Both instances of the abstract specification count the guests of a night as
\* this module does.
LEMMA StaysTaken ==
  ASSUME NEW prop \in Property, NEW d \in Day
  PROVE  /\ Stays!Taken(<<prop, d>>) = Guests(Staying(prop, d))
         /\ Apart!Taken(<<prop, d>>) = Guests(Staying(prop, d))
  <1> DEFINE shared == [b \in Booking |->
                          IF Ask[b].mode = "day" THEN {PropOf(b)} \X Nights(b) ELSE {}]
             here == {b \in Booking : Live(b) /\ <<prop, d>> \in shared[b]}
  <1>1. Staying(prop, d) = here
    BY DEF Staying, GuestsOn, NeedsProp
  <1>2. Stays!Taken(<<prop, d>>) = Guests(here)
    BY Zenon DEF Stays!Taken, Stays!Live, Live, Stays!SumFunctionOnSet, Stays!FoldFunctionOnSet,
       Stays!MapThenFoldSet, SumFunctionOnSet, FoldFunctionOnSet, MapThenFoldSet, Guests, Party
  <1>3. Apart!Taken(<<prop, d>>) = Guests(here)
    BY Zenon DEF Apart!Taken, Apart!Live, Live, Apart!SumFunctionOnSet, Apart!FoldFunctionOnSet,
       Apart!MapThenFoldSet, SumFunctionOnSet, FoldFunctionOnSet, MapThenFoldSet, Guests, Party
  <1> QED
    BY <1>1, <1>2, <1>3

\* Day guests who get a hold find their places among the guests of the night:
\* what the row counts is never less than who is there.
LEMMA PlacesLeft ==
  ASSUME GuestInv, NEW p \in Proc, CommitCreate(p), Ask[tx[p].b].mode = "day",
         NEW d \in Nights(tx[p].b)
  PROVE  Guests(Staying(PropOf(tx[p].b), d)) + Ask[tx[p].b].guests <= Capacity[PropOf(tx[p].b)]
  <1>1. PICK b \in Booking : b = tx[p].b /\ RowUnchanged(p, b)
    BY CommitCreateDoes DEF GuestInv
  <1> DEFINE prop == PropOf(b)
             row == propInv[prop][d]
  <1>2. prop \in Property /\ d \in Day /\ Ask[b].guests \in Nat /\ Capacity[prop] \in Nat
    BY <1>1, AskTypes, BookingAssumption
  <1>3. row \in PropRow
    BY <1>2 DEF GuestInv, ExclusionInv, TypeOK
  <1>4. row.held \in Nat /\ row.booked \in Nat
    BY <1>3 DEF PropRow
  <1>5. row.booked + row.held + Ask[b].guests <= Capacity[prop]
    BY <1>1 DEF RowUnchanged, DayFits
  <1>6. Guests(Staying(prop, d)) \in Nat /\ Guests(Staying(prop, d)) <= row.held + row.booked
    BY <1>2, TotalIs, GuestsFacts DEF GuestInv, GuestsCounted
  <1> HIDE DEF prop, row
  <1>7. Guests(Staying(prop, d)) + Ask[b].guests <= Capacity[prop]
    BY <1>2, <1>4, <1>5, <1>6
  <1> QED
    BY <1>1, <1>7 DEF prop

\* What every step but a creation's commit does to the bookings: one of them is
\* paid for, given back or deleted, or none changes.
MovesOn(b) ==
  \/ status[b] = "hold" /\ status' = [status EXCEPT ![b] = "complete"]
  \/ status[b] = "hold" /\ status' = [status EXCEPT ![b] = "canceled"]
  \/ /\ status[b] = "complete"
     /\ \E s \in {"canceled", "refunded"} : status' = [status EXCEPT ![b] = s]
  \/ status[b] # "none" /\ status' = [status EXCEPT ![b] = "deleted"]

LEMMA OthersMoveOn ==
  ASSUME ExclusionInv, SerialLifecycle, [Next]_vars, ~\E p \in Proc : CommitCreate(p)
  PROVE  UNCHANGED status \/ \E b \in Booking : MovesOn(b)
  <1>1. ASSUME NEW p \in Proc, CommitLifecycle(p)
        PROVE  UNCHANGED status \/ \E b \in Booking : MovesOn(b)
    <2>1. PICK b \in Booking, op \in Lifecycle :
            status[b] = Expects[op] /\ status' = [status EXCEPT ![b] = Leaves[op]]
      BY <1>1, CommitLifecycleDoes
    <2>2. CASE op = "reconfirm"
      BY <2>1, <2>2 DEF Expects, Leaves, ExclusionInv, TypeOK
    <2>3. CASE op # "reconfirm"
      <3>1. \/ Expects[op] = "hold" /\ Leaves[op] \in {"complete", "canceled"}
            \/ Expects[op] = "complete" /\ Leaves[op] \in {"canceled", "refunded"}
        BY <2>3 DEF Expects, Leaves, Lifecycle
      <3> QED
        BY <2>1, <3>1 DEF MovesOn
    <2> QED
      BY <2>2, <2>3
  <1>2. ASSUME NEW p \in Proc, NEW b \in Booking, MarkRefunded(p, b) \/ DeleteBooking(p, b)
        PROVE  MovesOn(b)
    BY <1>2 DEF MarkRefunded, DeleteBooking, MovesOn
  <1>3. ASSUME NEW p \in Proc, CommitUnpriced(p) PROVE UNCHANGED status
    BY <1>3 DEF CommitUnpriced
  <1> QED
    BY <1>1, <1>2, <1>3, TablesChange

\* What a creation's commit finds and leaves, in the terms of CabinStays.
LEMMA GrantsOne ==
  ASSUME GuestInv, NEW p \in Proc, CommitCreate(p), NEW b, b = tx[p].b
  PROVE  /\ b \in Booking
         /\ status[b] = "none" /\ status' = [status EXCEPT ![b] = "hold"]
         /\ \A prop \in Property, d \in Day :
              Ask[b].mode = "day" /\ NeedsProp(b, prop, d) =>
                Guests(Staying(prop, d)) + Ask[b].guests <= Capacity[prop]
  BY CommitCreateDoes, PlacesLeft DEF GuestInv, NeedsProp

LEMMA StaysNext ==
  ASSUME GuestInv, SerialLifecycle, GuestsAtTheLake, [Next]_vars
  PROVE  [Stays!Next]_status
  <1>1. ASSUME NEW p \in Proc, CommitCreate(p) PROVE Stays!Next
    <2>1. PICK b \in Booking :
            /\ b = tx[p].b
            /\ status[b] = "none" /\ status' = [status EXCEPT ![b] = "hold"]
            /\ \A prop \in Property, d \in Day :
                 Ask[b].mode = "day" /\ NeedsProp(b, prop, d) =>
                   Guests(Staying(prop, d)) + Ask[b].guests <= Capacity[prop]
      BY <1>1, GrantsOne
    <2>2. ASSUME NEW a \in Booking, Live(a) PROVE <<a, b>> \notin Clashing
      BY <1>1, <2>1, <2>2, NewHoldIsAlone DEF Clashing
    <2>3. ASSUME Ask[b].mode = "day", NEW d \in Nights(b)
          PROVE  Stays!Taken(<<PropOf(b), d>>) + Ask[b].guests <= Capacity[PropOf(b)]
      <3>1. PropOf(b) \in Property /\ d \in Day /\ NeedsProp(b, PropOf(b), d)
        BY <2>3, AskTypes DEF NeedsProp
      <3> QED
        BY <2>1, <2>3, <3>1, StaysTaken
    <2>4. PropOf(b) \in Property /\ Nights(b) \subseteq Day
      BY AskTypes
    <2>5. Stays!Grant(b)
      BY <2>1, <2>2, <2>3, <2>4 DEF Stays!Grant, Stays!Live, Live
    <2> QED
      BY <2>5 DEF Stays!Next
  <1>2. CASE ~\E p \in Proc : CommitCreate(p)
    <2>1. ASSUME NEW b \in Booking, MovesOn(b)
          PROVE  Stays!Pay(b) \/ Stays!GiveBack(b) \/ Stays!Delete(b)
      BY <2>1 DEF MovesOn, Stays!Pay, Stays!GiveBack, Stays!Delete
    <2> QED
      BY <1>2, <2>1, OthersMoveOn DEF GuestInv, Stays!Next
  <1> QED
    BY <1>1, <1>2

\* The locker implements CabinStays with any number of members creating bookings
\* at once: each stay is granted by one commit, against all the stays that are
\* live then (same room, a buyout of the same cabin, places at the lake), and is
\* paid, given back or deleted once.
THEOREM LockerGrantsStays ==
  ASSUME SerialLifecycle, GuestsAtTheLake
  PROVE  Spec => StaysGranted
  <1>1. Init => Stays!Init
    BY DEF Init, Stays!Init
  <1>2. GuestInv /\ [Next]_vars => [Stays!Next]_status
    BY StaysNext
  <1> QED
    BY <1>1, <1>2, GuestInit, GuestNext, PTL DEF Spec, StaysGranted, Stays!Spec

-----------------------------------------------------------------------------
(* ... with rooms and buyouts apart, when none of them cross *)

\* A creation that commits finds nobody in the other kind of booking either.
LEMMA NewHoldIsApart ==
  ASSUME GuestInv, ScreenInv, GuestsAtTheLake, NEW p \in Proc, CommitCreate(p),
         NEW a \in Booking, Live(a)
  PROVE  a # tx[p].b /\ ~Overlap(a, tx[p].b)
  <1>1. PICK b \in Booking : b = tx[p].b
    BY CommitCreateDoes DEF GuestInv
  <1>2. a # b /\ ~Conflict(a, b)
    BY <1>1, NewHoldIsAlone
  <1>3. /\ Nights(b) \subseteq Day /\ Ask[a].mode \in Mode /\ Ask[b].mode \in Mode
        /\ Ask[a].rooms \subseteq Room /\ Ask[b].rooms \subseteq Room
    BY AskTypes
  <1>4. SecondReadOK(b)
    BY <1>1 DEF ScreenInv, InCreation, CommitCreate
  <1>5. ASSUME PropOf(a) = PropOf(b), NEW d \in Nights(a) \cap Nights(b),
               Ask[a].mode = "room", Ask[b].mode = "buyout"
        PROVE  FALSE
    <2>1. PICK r \in Ask[a].rooms : RoomOn(a, r, d)
      BY <1>5, BookingAssumption DEF RoomOn, NeedsRoom
    <2>2. PropOf(b) = "tahoe"
      BY <1>5, BookingAssumption DEF PropOf
    <2>3. RoomFree(roomInv[r][d])
      BY <1>3, <1>4, <1>5, <2>2 DEF SecondReadOK
    <2> QED
      BY <1>3, <2>1, <2>3 DEF GuestInv, ExclusionInv, ClaimsMarked
  <1>6. ASSUME PropOf(a) = PropOf(b), NEW d \in Nights(a) \cap Nights(b),
               Ask[a].mode = "buyout", Ask[b].mode = "room"
        PROVE  FALSE
    <2>1. BuyoutOn(a, PropOf(b), d)
      BY <1>6 DEF BuyoutOn, NeedsProp
    <2>2. NoBuyout(propInv[PropOf(b)][d])
      BY <1>4, <1>6 DEF SecondReadOK
    <2>3. PropOf(b) \in Property
      BY AskTypes
    <2> QED
      BY <1>3, <2>1, <2>2, <2>3 DEF GuestInv, ExclusionInv, ClaimsMarked
  <1> QED
    BY <1>1, <1>2, <1>3, <1>5, <1>6 DEF Overlap, Conflict, Mode

LEMMA ApartNext ==
  ASSUME GuestInv, ScreenInv, SerialLifecycle, GuestsAtTheLake, [Next]_vars
  PROVE  [Apart!Next]_status
  <1>1. ASSUME NEW p \in Proc, CommitCreate(p) PROVE Apart!Next
    <2>1. PICK b \in Booking :
            /\ b = tx[p].b
            /\ status[b] = "none" /\ status' = [status EXCEPT ![b] = "hold"]
            /\ \A prop \in Property, d \in Day :
                 Ask[b].mode = "day" /\ NeedsProp(b, prop, d) =>
                   Guests(Staying(prop, d)) + Ask[b].guests <= Capacity[prop]
      BY <1>1, GrantsOne
    <2>2. ASSUME NEW a \in Booking, Live(a)
          PROVE  <<a, b>> \notin {pair \in Booking \X Booking : Overlap(pair[1], pair[2])}
      BY <1>1, <2>1, <2>2, NewHoldIsApart
    <2>3. ASSUME Ask[b].mode = "day", NEW d \in Nights(b)
          PROVE  Apart!Taken(<<PropOf(b), d>>) + Ask[b].guests <= Capacity[PropOf(b)]
      <3>1. PropOf(b) \in Property /\ d \in Day /\ NeedsProp(b, PropOf(b), d)
        BY <2>3, AskTypes DEF NeedsProp
      <3> QED
        BY <2>1, <2>3, <3>1, StaysTaken
    <2>4. PropOf(b) \in Property /\ Nights(b) \subseteq Day
      BY AskTypes
    <2>5. Apart!Grant(b)
      BY <2>1, <2>2, <2>3, <2>4 DEF Apart!Grant, Apart!Live, Live
    <2> QED
      BY <2>5 DEF Apart!Next
  <1>2. CASE ~\E p \in Proc : CommitCreate(p)
    <2>1. ASSUME NEW b \in Booking, MovesOn(b)
          PROVE  Apart!Pay(b) \/ Apart!GiveBack(b) \/ Apart!Delete(b)
      BY <2>1 DEF MovesOn, Apart!Pay, Apart!GiveBack, Apart!Delete
    <2> QED
      BY <1>2, <2>1, OthersMoveOn DEF GuestInv, Apart!Next
  <1> QED
    BY <1>1, <1>2

\* Unless a room and a buyout of a common night are created at the same time, the
\* locker implements CabinStays with every clash that a reader would name, a room
\* against a buyout of Tahoe too.
THEOREM LockerKeepsStaysApart ==
  ASSUME SerialLifecycle, GuestsAtTheLake
  PROVE  Spec /\ []NeverCrossing => StaysGrantedApart
  <1>1. Init => GuestInv /\ ScreenInv /\ Apart!Init
    <2> SUFFICES ASSUME Init PROVE GuestInv /\ ScreenInv /\ Apart!Init
      OBVIOUS
    <2>1. ScreenInv
      BY IdleFields DEF Init, InCreation, ScreenInv, Asked
    <2> QED
      BY <2>1, GuestInit DEF Init, Apart!Init
  <1>2. GuestInv /\ ScreenInv /\ NeverCrossing /\ [Next]_vars
          => GuestInv' /\ ScreenInv' /\ [Apart!Next]_status
    BY GuestNext, ScreenNext, ApartNext DEF GuestInv
  <1> QED
    BY <1>1, <1>2, PTL DEF Spec, StaysGrantedApart, Apart!Spec
=============================================================================
