SPECIFICATION Spec
CONSTANTS
  b1 = b1  b2 = b2  b3 = b3  b4 = b4
  u1 = u1  u2 = u2
  r1 = r1  r2 = r2
  p1 = p1  p2 = p2  p3 = p3
  Booking = {b1, b2, b3, b4}
  User = {u1, u2}
  Day = {1}
  Room = {}
  Proc = {p1, p2, p3}
  Ask <- LakeAsk
  May <- WithRefundForm
  Capacity <- MCCapacity
  Blackout <- NoBlackout
  MaxAttempts = 2
  MaxCrashes = 0
  PricingFails = FALSE
INVARIANTS
  TypeOK
  InventoryCoversBookings
  NeverOverCapacity
  BuyoutExcludesGuests
PROPERTIES
  StaysGranted
CHECK_DEADLOCK FALSE
