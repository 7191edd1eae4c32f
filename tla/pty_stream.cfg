SPECIFICATION FairSpec
CONSTANTS
  RingCap = 2
  MaxChunks = 3
  MaxAttaches = 2
  MaxConns = 2
  Agent = TRUE
  ConPTY = TRUE
INVARIANTS TypeOK NoGap
PROPERTIES NoRewind OutputShown ThreadsEnd
