\* Two threads, two events, two addresses: the third subscription has to have
\* the address of one that was unsubscribed.
CONSTANTS
  Threads = {t1, t2}
  Events = {e1, e2}
  Addresses = {a1, a2}
  None = None
  MayRepeat = FALSE
  MaxSubs = 3
SPECIFICATION Spec
INVARIANTS TypeOK GoneIsSilent MapsAgree
PROPERTIES ImplementsRegistry
CHECK_DEADLOCK FALSE
