SPECIFICATION SessionsSpec
CONSTANTS
  NoClaim = NoClaim
  NoCookie = NoCookie
  n1 = n1
  p1 = p1
  p2 = p2
  c1 = c1
  c2 = c2
  d1 = d1
  d2 = d2
  l1 = l1
  Names <- OneName
  Passwords <- TwoPasswords
  Callers <- TwoCallers
  Devices <- TwoDevices
  Logins <- OneLogin
  MaxDevices = 1
  MaxVersion = 3
  MayFail = TRUE
INVARIANTS BannedIsFree FileIsCurrent
PROPERTY RevokedForGood
SYMMETRY Interchangeable
CHECK_DEADLOCK FALSE
