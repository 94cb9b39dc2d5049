SPECIFICATION CartSpec
CONSTANTS
  Tabs = {t1, t2}
  Lines = {l1, l2}
  productOf <- MCProductOf
  Accounts = {a1}
  Nobody = Nobody
  Unread = Unread
  Baskets <- MCBaskets
  MaxQty = 2
  MaxClicks = 3
SYMMETRY MCSymmetry
INVARIANTS
  CartTypeOK
  NeverInflated
  
CHECK_DEADLOCK FALSE
