\* One thread is enough: the group calls construct nothing.
CONSTANTS
  Threads = {t1}
  NoThread = NoThread
  FirstExtend = 1
  MaxGroup = 2
  MaxLive = 2
SPECIFICATION Spec
INVARIANTS HandedOutConstructed
