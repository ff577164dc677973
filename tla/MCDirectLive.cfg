SPECIFICATION FairSpec
CONSTANTS
  Cores = {x, y}
  SenderCore = x
  Messages = {m}
  x = x
  y = y
  m = m
  n = n
  NoRecord = NoRecord
  Unsigned = Unsigned
  Plans <- LivePlans
PROPERTIES
  Delivered
  Resolved
