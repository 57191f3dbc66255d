SPECIFICATION Spec
CONSTANTS
  c1 = c1
  c2 = c2
  peer = peer
  r1 = r1
  r2 = r2
  Clients = {c1, c2}
  Peer = peer
  Requests = {r1, r2}
  HelloMax = 1
  HelloFactor = 2
  Minute = 2
  FailMax = 2
  PeerFailMax = 3
  Window = 3
  Lockout = 2
  Slow = 1
  MaxNow = 4
  MaxHellos = 4
  MaxWrong = 5
SYMMETRY Symmetry
CONSTRAINT OneGateBusy
INVARIANTS AtMostTwice LockHolds GuessesAreBounded
CHECK_DEADLOCK FALSE
