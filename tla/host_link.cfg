SPECIFICATION FairSpec
CONSTANTS
  Req = {r1, r2}
  Conn = {c1, c2, c3}
  Host = {h1, h2}
  None = None
  MaxTries = 2
  MaxPolls = 1
  MaxFaults = 1
CHECK_DEADLOCK FALSE
INVARIANTS TypeOK ServedOnce
PROPERTIES  RequestReturns
