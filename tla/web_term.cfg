SPECIFICATION Spec
CONSTANTS
  Session = {s1, s2}
  None = None
  Id = {1, 2, 3, 4, 5}
  MaxOut = 1
  MaxActs = 2
CHECK_DEADLOCK FALSE
SYMMETRY Symmetric
INVARIANTS TypeOK ScreenFollows UpToDate StartsOnce
