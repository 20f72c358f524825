SPECIFICATION Spec
CONSTANTS
  b1 = b1  b2 = b2  b3 = b3  b4 = b4
  u1 = u1  u2 = u2
  r1 = r1  r2 = r2
  p1 = p1  p2 = p2  p3 = p3
  Booking = {b1, b2, b3}
  User = {u1, u2}
  Day = {1}
  Room = {r1, r2}
  Proc = {p1, p2}
  Ask <- SingleRoomAsk
  May <- WithAdmin
  Capacity <- MCCapacity
  Blackout <- NoBlackout
  MaxAttempts = 2
  MaxCrashes = 1
  PricingFails = TRUE
INVARIANTS
  ClaimsMarked
  MarksHaveOwners
CHECK_DEADLOCK FALSE
