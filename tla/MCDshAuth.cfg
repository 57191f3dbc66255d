SPECIFICATION FairSpec
CONSTANTS
  Nothing = Nothing
  r1 = r1
  r2 = r2
  u1 = u1
  Requests <- Mixed
  Upgrades <- OnlyUpgrade
  Tries = 2
  MaxSecret = 1
  Mishaps = {"time", "rotate", "down", "lost", "late", "opaque"}
INVARIANT NeverServes401
PROPERTIES EveryoneIsReleased Heals
