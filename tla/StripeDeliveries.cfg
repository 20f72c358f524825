SPECIFICATION Spec
CONSTANTS
  inv = inv  first = first  int = int  r1 = r1  r2 = r2  pay = pay
  eInv = eInv  eFirst = eFirst  eRef = eRef  eChg = eChg  ePay = ePay
  Event = {eInv, eFirst, eRef, eChg, ePay}
  Request = {1, 2}
  Invoice = {inv, first}
  Intent = {int}
  Refund = {r1}
  Payout = {pay}
  PaidBy <- MCPaidBy
  Settles <- MCSettles
  Kind <- MCKind
  About <- MCAbout
  Initial = {first}
  NoEvent = NoEvent
  Nothing = Nothing
  MaxEvents = 2
  MaxCrashes = 0
INVARIANTS
  TypeOK
  ProcessedInvoicesAreRecorded
  OneLinker
PROPERTIES
  EntersOnce
CHECK_DEADLOCK FALSE
