SPECIFICATION Spec
CONSTANTS
  Req = {r1, r2}
  Conn = {c1, c2, c3}
  Host = {h1, h2}
  None = None
  MaxTries = 3
  MaxPolls = 1
  MaxFaults = 0
CHECK_DEADLOCK FALSE
INVARIANT AnswersAlwaysMatch
