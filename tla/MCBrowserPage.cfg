SPECIFICATION FairSpec
CONSTANTS
  a = a
  b = b
  p = p
  q = q
  Devices = {a, b}
  Passwords = {p, q}
  None = None
  Legacy = Legacy
  Used = {p}
  FirstSalt <- InOrder
  Given <- TheSame
  MaxTurns = 2
INVARIANTS NoForeignEffect CallsComeHome
PROPERTY EventuallyUnlocked
CHECK_DEADLOCK FALSE
