SPECIFICATION Spec
CONSTANTS
  Threads = {t1, t2, t3}
  Workers = {w1, w2}
  NULL = null
INVARIANTS
  TypeOK
  WalksLiveNodes
  ReachesLinked
PROPERTIES
  LockReleased
  ImplementsSet
