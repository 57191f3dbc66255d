SPECIFICATION Spec
CONSTANTS
  Nothing = Nothing
  Default = Default
  s1 = s1
  n1 = n1
  n2 = n2
  Subs <- OneSub
  Slots <- TwoSlots
  RouteFailMax = 2
  MaxInbox = 1
  MaxChanges = 2
  Mishaps = {"refused", "outage", "silence", "user", "nourl", "operator"}
INVARIANTS OneControl NeverStranded
SYMMETRY Interchangeable
CHECK_DEADLOCK FALSE
