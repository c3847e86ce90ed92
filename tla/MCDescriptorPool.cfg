\* Two threads; a group may ask for more than the next extension would give.
CONSTANTS
  Threads = {t1, t2}
  NoThread = NoThread
  FirstExtend = 1
  MaxGroup = 3
  MaxLive = 3
SPECIFICATION Spec
INVARIANTS TypeOK NoDoubleHandOut NothingLost FrontExists NextExtendDoubles FreeIsDestroyed
PROPERTIES LockIsReleased ImplementsAllocator
