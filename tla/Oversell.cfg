SPECIFICATION Spec
CONSTANTS
  o1 = o1  o2 = o2  o3 = o3
  u1 = u1  u2 = u2
  t1 = t1  gift = gift
  Order = {o1, o3}
  Want <- SalesWant
  User = {u1, u2}
  Tier = {t1, gift}
  Donation = {gift}
  Quantity <- MCQuantity
  MaxAttendees = 3
  Resv = {}
  Held <- OneReserved
  MaxSellers = 2
  Orderly = TRUE
INVARIANTS
  NeverOversold
CHECK_DEADLOCK FALSE
