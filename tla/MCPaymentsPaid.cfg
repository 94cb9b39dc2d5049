SPECIFICATION PaymentsSpec
CONSTANTS
  g1 = g1
  s1 = s1
  s2 = s2
  NoSub = NoSub
  NoGroup = NoGroup
  NoSession = NoSession
  Method = "paydunya"
  Groups = {g1}
  Subs = {s1, s2}
  GroupOf <- MCGroupOf
  MethodOf <- MCMethodOf
  MaxLost = 0
  Workers = {w1, w2}
  Sessions = {x1, x2}
  MaxSwitches = 0
PROPERTY
  PaidIsConfirmed
CHECK_DEADLOCK FALSE
