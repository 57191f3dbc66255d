SPECIFICATION FairSpec
CONSTANTS
  a1 = a1
  a2 = a2
  Agents <- TwoAgents
  MaxRecord = 4
  MaxQueue = 3
  MaxEdits = 2
  Faults = {"call", "stop"}
INVARIANTS NothingLeftBehind OneRecord AgentsKnowTheRoute
PROPERTIES EveryOperationRuns TheirsStayTheirs
CHECK_DEADLOCK FALSE
