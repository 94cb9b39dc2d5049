SPECIFICATION OrdersSpec
CONSTANTS
  g1 = g1
  s1 = s1
  s2 = s2
  p1 = p1
  NoSub = NoSub
  NoGroup = NoGroup
  NoProduct = NoProduct
  Groups = {g1}
  Subs = {s1, s2}
  GroupOf <- MCGroupOf
  MethodOf <- MCMethodOf
  MaxLost = 1
  Clerks = {c1, c2}
  Products = {p1}
  LinesOf <- MCLinesOf
  Shelf = 1
  StaffStatuses = {"pending_payment", "paid", "delivered", "payment_expired"}
  MaxStaff = 3
INVARIANTS
  OrdersTypeOK
  StagesInSync
  ConfirmedAtMostOnce
  RestockedOncePerCancellation
PROPERTIES
  ReaperSparesSettled
CHECK_DEADLOCK FALSE
