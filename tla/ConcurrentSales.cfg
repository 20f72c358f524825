SPECIFICATION FairSpec
CONSTANTS
  o1 = o1  o2 = o2  o3 = o3
  u1 = u1  u2 = u2
  t1 = t1  gift = gift
  Order = {o1, o2}
  Want <- SalesWant
  User = {u1, u2}
  Tier = {t1, gift}
  Donation = {gift}
  Quantity <- MCQuantity
  MaxAttendees = 3
  Resv = {1}
  Held <- OneReserved
  MaxSellers = 2
  Orderly = FALSE
INVARIANTS
  TypeOK
  
PROPERTIES
  EndsGiveSeatsBack
  
  OrdersEnd
CHECK_DEADLOCK FALSE
