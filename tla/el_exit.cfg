\* Nested loops, in handlers and in slots of awake(); threads that post to the
\* thread and exit its loops.
CONSTANTS
  self = self
  a = a
  b = b
  Self = self
  Others = {a, b}
  Codes = {Code}
  Code = Code
  NoCode = NoCode
  NoThread = NoThread
  MayNest = TRUE
  MayNestInBlock = FALSE
  MaxCalls = 5
  MaxPosts = 2
  MaxExits = 1
SPECIFICATION FairSpec
INVARIANTS TypeOK PostWakesLoop ExitWakesLoop DrainedOnce QuitReachesEveryLoop
PROPERTIES ExitEndsExec PostedIsDelivered
CHECK_DEADLOCK FALSE
