SPECIFICATION Spec
CONSTANTS
  Lengths = {1, 3}
  Embeds = {1, 2, 3, 4}
  Batches = {2}
  FactorTable = 1
  DftTable = 2
  CnnlSpace = 3
INVARIANT InputIsFitted
CHECK_DEADLOCK FALSE
