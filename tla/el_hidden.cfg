\* A nested loop hides an exit from the loop around it.
CONSTANTS
  self = self
  a = a
  b = b
  Self = self
  Others = {a}
  Codes = {Code}
  Code = Code
  NoCode = NoCode
  NoThread = NoThread
  MayNest = TRUE
  MayNestInBlock = FALSE
  MaxCalls = 5
  MaxPosts = 2
  MaxExits = 2
SPECIFICATION Spec
INVARIANT NoLoopSleepsAfterExit
CHECK_DEADLOCK FALSE
