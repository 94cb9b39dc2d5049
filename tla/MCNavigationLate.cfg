SPECIFICATION NavSpec
CONSTANTS
  Items = {"bag", "cloth", "shop"}
  kindOf <- MCKindOf
  InMemory = {"bag"}
  Missable = {"shop"}
  Pages = {"checkout", "orders"}
  None = None
  MaxClicks = 3
PROPERTIES
  LateAnswerIgnored
CHECK_DEADLOCK FALSE
