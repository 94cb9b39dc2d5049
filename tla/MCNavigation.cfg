SPECIFICATION FairNav
CONSTANTS
  Items = {"bag", "cloth", "shop"}
  kindOf <- MCKindOf
  InMemory = {"bag"}
  Missable = {"shop"}
  Pages = {"checkout", "orders"}
  None = None
  MaxClicks = 3
INVARIANTS
  NavTypeOK
  
PROPERTIES
  NoEndlessSkeleton
CHECK_DEADLOCK FALSE
