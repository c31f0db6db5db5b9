CONSTANTS
  NCPU = 2
  Threads = {t1, t2, t3}
  NULL = NULL
  Migration = FALSE
  MaxCount = 1
SPECIFICATION FairSpec
PROPERTIES
  ReadyThreadsRun
