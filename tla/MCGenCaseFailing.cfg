\* Operators may fail between MLUOP_GEN_CASE_ON_NEW and GEN_CASE_END.
CONSTANTS
  Threads = {t1}
  EnvModes = {1}
  Modes = {1}
  MayFail = TRUE
  MaxDepth = 1
  MaxStack = 3
SPECIFICATION Spec
INVARIANTS AllOperatorsWrite
CHECK_DEADLOCK FALSE
