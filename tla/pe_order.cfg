\* A send for one receiver inside another one delivers out of order.
CONSTANTS
  t1 = t1
  t2 = t2
  r1 = r1
  r2 = r2
  Plain = Plain
  DeferredDelete = DeferredDelete
  Quit = Quit
  None = None
  Any = Any
  Threads = {t1}
  Loopers = {t1}
  Objects = {r1, r2}
  Types = {Plain}
  Priorities = {0}
  SendRequests <- ReceiverSends
  RemoveRequests <- NoRequests
  MoveTargets = {}
  MayDestroy = {}
  MayDeleteEvents = FALSE
  MayThrow = FALSE
  Signals = {"awake", "block"}
  MayNestInBlock = FALSE
  MaxEvents = 4
  MaxDepth = 2
  MaxLength = 2
SPECIFICATION Spec
PROPERTIES PostedOrder
CHECK_DEADLOCK FALSE
