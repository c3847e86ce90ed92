\* Two threads, each with an operator in an operator; the mode may be switched
\* on and off at any time and operators may fail.
CONSTANTS
  Threads = {t1, t2}
  EnvModes = {0, 1}
  Modes = {0, 1}
  MayFail = TRUE
  MaxDepth = 2
  MaxStack = 3
SPECIFICATION Spec
SYMMETRY ThreadSymmetry
INVARIANTS InternalIsSilent OutermostWrites EndResetsOwnSlot WildNeedsSetUnder
CHECK_DEADLOCK FALSE
