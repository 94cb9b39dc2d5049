SPECIFICATION FairPay
CONSTANTS
  MaxOrders = 1
  Enabled = "pawapay"
  MaxTimers = 2
INVARIANTS
  PayTypeOK
  
  
PROPERTIES
  
  ReceivedSettles
