SPECIFICATION Spec
CONSTANTS
  Session = {s1, s2}
  None = None
  Window = {w1, w2}
  MinFont = 1
  MaxFont = 2
  Slider = {1, 2}
  Unfit = Unfit
  MaxActs = 3
CHECK_DEADLOCK FALSE
SYMMETRY SessionSymmetry
INVARIANTS TypeOK SizeFollows 
