SPECIFICATION Spec
CONSTANTS
  None = None
  v1 = v1
  v2 = v2
  b1 = b1
  b2 = b2
  MaxConn = 2
  MaxId = 3
  MaxQueue = 2
  MaxKey = 0
  Visitors <- TwoVisitors
  Browsers <- Nobody
  Uploads <- Nobody
  Kinds <- PagesOnly
  Mishaps <- Quits
  Fenced = FALSE
  PromptClose = TRUE
  Redials = FALSE
INVARIANTS PendingIsBridged NoCrossTalk StreamsAreCurrent CompleteIsWhole EndedWorkStops
SYMMETRY Interchangeable
CHECK_DEADLOCK FALSE
