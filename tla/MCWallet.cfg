SPECIFICATION WalletSpec
CONSTANTS
  Vendors = {v1, v2}
  Requests = {r1, r2}
  Admins = {a1, a2}
  Payouts = {x1, x2}
  NoVendor = NoVendor
  NoRequest = NoRequest
  NoPayout = NoPayout
  NoAdmin = NoAdmin
  MaxAmount = 2
  MaxSales = 2
SYMMETRY MCSymmetry
INVARIANTS
  WalletTypeOK
  
  DebitedIffApproved
  OncePerAdmin
CHECK_DEADLOCK FALSE
