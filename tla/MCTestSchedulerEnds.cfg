\* The setup of the first case may throw.
CONSTANTS
  Workers = {w1, w2}
  Slots = {1, 2}
  NCases = 3
  Throwing = {1}
  Nobody = Nobody
  MaxQueue = 2
SPECIFICATION Spec
PROPERTIES RunEnds
CHECK_DEADLOCK FALSE
