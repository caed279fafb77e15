SPECIFICATION Spec
CONSTANTS
  t1 = t1
  s1 = s1
  s2 = s2
  Slots = {s1, s2}
  Playlists = {p1}
  Tracks = {t1}
  None = None
  MaxLoads = 2
  MaxDrops = 1
  MaxEdits = 1
SYMMETRY Symm
INVARIANTS TypeOK CountsHolders BoundOnce StaleIsExplained
PROPERTY ViewPromise
CHECK_DEADLOCK FALSE
