SPECIFICATION Spec
CONSTANTS
  Threads = {t1, t2, t3}
  Mutexes = {m1, m2}
  NULL = NULL
  Modulus = 4
  Quota = 4
INVARIANTS
  TypeOK
  MutualExclusion
  NoLostUpdate
  NoFreedMutex
  AllReleased
PROPERTY EveryoneLeaves
