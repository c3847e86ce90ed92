\* Two workers, three slots (1.5 per thread); the first two setups may throw.
CONSTANTS
  Workers = {w1, w2}
  Slots = {1, 2, 3}
  NCases = 3
  Throwing = {1, 2}
  Nobody = Nobody
  MaxQueue = 3
SPECIFICATION Spec
INVARIANTS TornDownOnce CleanUntilThrow ContextsAreIdle
PROPERTIES ImplementsCaseRunner EndsOrStrands
CHECK_DEADLOCK FALSE
