SPECIFICATION Spec
CONSTANTS
  a = a
  b = b
  Clients = {a, b}
  Tracks = {t1, t2}
  None = None
  Casts <- MCCasts
  MaxMoves = 3
  MaxOverlaps = 1
INVARIANTS TypeOK SettledAgree ServerMatches
PROPERTY Settles
CHECK_DEADLOCK FALSE
