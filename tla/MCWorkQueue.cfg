SPECIFICATION WqFairSpec
CONSTANTS
  w1 = w1
  w2 = w2
  s1 = s1
  a = a
  b = b
  NONE = NONE
  Worker = {w1, w2}
  Submitter = {s1}
  Item = {a, b}
  WqCapacity = 3
INVARIANTS
  CountsAddUp
PROPERTIES
  ImplementsFifo
  OnlyWindowLosesWakes
