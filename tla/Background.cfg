SPECIFICATION Spec
CONSTANTS
  Schedulers = {s1}
  Crons = {1}
  Policies = {"coalesce_latest", "skip_while_busy", "queue_every_occurrence"}
  MaxAge = 1
  MaxCatchup = 2
  PageSize = 3
  QueueCap = 2
  MaxTime = 2
  MaxBack = 1
  MaxManual = 1
  NoPoint = NoPoint
  Slots = {a, b}
  Ops = {o1, o2}
  Attempts = {a1, a2}
  NoOp = NoOp
  TreeSize = 2
  FailureLimit = 2
  MaxTrees = 2
  MaxStops = 1
  MaxRetries = 1
INVARIANTS
  TypeOK
  OneExecutionPerPoint
  SlotNotReused
  CacheKept
PROPERTIES
  CursorMoves
  SlotReturns
  DeliverySettles
  DeletionEnds
CHECK_DEADLOCK FALSE
