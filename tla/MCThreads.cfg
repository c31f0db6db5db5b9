CONSTANTS
  NCPU = 2
  Threads = {t1, t2, t3, t4}
  NULL = NULL
  Migration = TRUE
  MaxCount = 1
SPECIFICATION Spec
SYMMETRY Sym
INVARIANTS
  TypeOK
  OneProcessorPerThread
  ThreadsInOneList
  NoLostWakeup
  IdleIsToldOfWork
