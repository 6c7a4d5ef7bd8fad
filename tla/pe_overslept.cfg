\* A slot of aboutToBlock() processes events before the dispatcher blocks.
CONSTANTS
  t1 = t1
  t2 = t2
  r1 = r1
  r2 = r2
  Plain = Plain
  DeferredDelete = DeferredDelete
  Quit = Quit
  None = None
  Any = Any
  Threads = {t1}
  Loopers = {t1}
  Objects = {r1}
  Types = {Plain}
  Priorities = {0}
  SendRequests <- NoRequests
  RemoveRequests <- NoRequests
  MoveTargets = {}
  MayDestroy = {}
  MayDeleteEvents = FALSE
  MayThrow = FALSE
  Signals = {"block"}
  MayNestInBlock = TRUE
  MaxEvents = 3
  MaxDepth = 4
  MaxLength = 2
SPECIFICATION Spec
INVARIANT NoEventStranded
CHECK_DEADLOCK FALSE
