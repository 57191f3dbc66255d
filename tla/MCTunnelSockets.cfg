SPECIFICATION Spec
CONSTANTS
  None = None
  v1 = v1
  v2 = v2
  b1 = b1
  b2 = b2
  MaxConn = 2
  MaxId = 3
  MaxQueue = 1
  MaxKey = 1
  Visitors <- Nobody
  Browsers <- TwoBrowsers
  Uploads <- Nobody
  Kinds <- PagesOnly
  Mishaps <- AllMishaps
  Fenced = FALSE
  PromptClose = TRUE
  Redials = FALSE
INVARIANTS PendingIsBridged NoCrossTalk
PROPERTIES SealedWhileOn
SYMMETRY Interchangeable
CHECK_DEADLOCK FALSE
