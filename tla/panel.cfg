SPECIFICATION Spec
CONSTANTS
  Page = {p1}
  Relay = {r1, r2}
  None = None
  Torn = Torn
  Handler = {h1, h2}
  Task = {k1, k2}
  Poll = {q1}
  MaxTries = 1
  MaxActs = 3
CHECK_DEADLOCK FALSE
SYMMETRY Symmetric
VIEW Live
INVARIANTS TypeOK  OneTask  KeepsRelays
