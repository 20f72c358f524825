SPECIFICATION FairSpec
CONSTANTS
  inv = inv  first = first  int = int  r1 = r1  r2 = r2  pay = pay
  eInv = eInv  eFirst = eFirst  eRef = eRef  eChg = eChg  ePay = ePay
  Event = {eRef, eChg}
  Request = {1, 2}
  Invoice = {}
  Intent = {int}
  Refund = {r1, r2}
  Payout = {}
  PaidBy <- MCPaidBy
  Settles <- MCSettles
  Kind <- MCKind
  About <- MCAbout
  Initial = {}
  NoEvent = NoEvent
  Nothing = Nothing
  MaxEvents = 2
  MaxCrashes = 1
PROPERTIES
  RefundsAreNotLost
  EventsSettle
CHECK_DEADLOCK FALSE
