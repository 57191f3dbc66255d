SPECIFICATION Spec
CONSTANTS
  NoClaim = NoClaim
  NoSocket = NoSocket
  n1 = n1
  p1 = p1
  p2 = p2
  w1 = w1
  w2 = w2
  w3 = w3
  d1 = d1
  d2 = d2
  a1 = a1
  Names <- OneName
  Passwords <- OnePassword
  Callers <- TwoSockets
  Devices <- OneDevice
  Peers <- OnePeer
  MaxPre = 2
  MaxDevices = 1
  MaxVersion = 2
  MayFail = FALSE
INVARIANT BannedHasNoAgents
CHECK_DEADLOCK FALSE
