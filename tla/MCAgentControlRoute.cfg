SPECIFICATION FairSpec
CONSTANTS
  Nothing = Nothing
  Default = Default
  s1 = s1
  n1 = n1
  n2 = n2
  Subs <- OneSub
  Slots <- TwoSlots
  RouteFailMax = 2
  MaxInbox = 1
  MaxChanges = 1
  Mishaps = {"outage", "silence", "user", "operator"}
PROPERTY RouteConverges
CHECK_DEADLOCK FALSE
