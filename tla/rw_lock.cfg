\* A recursive lock; all threads wait for it, and one tries to lock as well.
CONSTANTS
  a = a
  b = b
  c = c
  Threads = {a, b, c}
  NoThread = NoThread
  Recursive = TRUE
  Modes <- OneTries
  MaxLocks = 2
SPECIFICATION FairSpec
INVARIANTS TypeOK Exclusion NoWriterForgotten
PROPERTY WritersGetIn
