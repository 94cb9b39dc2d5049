SPECIFICATION CheckoutSpec
CONSTANTS
  g1 = g1
  s1 = s1
  s2 = s2
  NoSub = NoSub
  NoGroup = NoGroup
  NoSession = NoSession
  NoProduct = NoProduct
  Method = "pawapay"
  Groups = {g1}
  Subs = {s1, s2}
  GroupOf <- MCGroupOf
  MethodOf <- MCMethodOf
  MaxLost = 1
  Workers = {w1, w2}
  Sessions = {x1}
  MaxSwitches = 0
  Clerks = {}
  Products = {}
  LinesOf <- MCLinesOf
  Shelf = 0
  StaffStatuses = {"pending_payment"}
  MaxStaff = 1
PROPERTIES
  KeepsPromise
CHECK_DEADLOCK FALSE
