SPECIFICATION FairFeed
CONSTANTS
  MaxId = 6
  langOf <- MCLangOf
  vendorOf <- MCVendorOf
  Langs = {"fr", "en"}
  NoVendor = NoVendor
  PerPage = 3
  Columns = {2, 3}
  MaxClicks = 3
  MaxEdits = 1
  MaxPage = 1
INVARIANTS
  FeedTypeOK
  SpreadOut
PROPERTIES
  NeverReordered
  RestoredAsLeft
  
