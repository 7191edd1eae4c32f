SPECIFICATION Spec
CONSTANTS
  t1 = t1
  t2 = t2
  site = site
  r1 = r1
  r2 = r2
  d1 = d1
  k1 = k1
  Tab = {t1, t2}
  Relay = {site, r1, r2}
  Site = site
  Device = {d1}
  Token = {k1}
  Works <- MCWorks
  Seeds <- MCSeeds
  None = None
  MaxRelays = 2
  MaxSaved = 2
  MaxActs = 5
CHECK_DEADLOCK FALSE
SYMMETRY TabSymmetry
INVARIANTS TypeOK RoutedRight
PROPERTIES ListsChange
