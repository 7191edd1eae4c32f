SPECIFICATION FairSpec
CONSTANTS
  Slot = {s1, s2}
  Nobody = Nobody
  Other = Other
  DaemonKey = {k1, k2, k3, k4}
  NoKey = NoKey
  MaxReqs = 1
  MaxFaults = 2
  MaxTimers = 1
CHECK_DEADLOCK FALSE
INVARIANTS TypeOK OneSocket NeverStranded KeysAgree OfflineIsShown
PROPERTIES KeepsContract Recovers
