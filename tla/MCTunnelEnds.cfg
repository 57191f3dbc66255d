SPECIFICATION FairSpec
CONSTANTS
  None = None
  v1 = v1
  v2 = v2
  b1 = b1
  b2 = b2
  MaxConn = 1
  MaxId = 1
  MaxQueue = 2
  MaxKey = 1
  Visitors <- OneVisitor
  Browsers <- Nobody
  Uploads <- OneVisitor
  Kinds <- AllKinds
  Mishaps <- AllMishaps
  Fenced = TRUE
  PromptClose = FALSE
  Redials = TRUE
INVARIANTS TypeOK CompleteIsWhole EndedWorkStops
PROPERTIES EveryResponseEnds NothingAfterTheEnd SealedWhileOn
CHECK_DEADLOCK FALSE
