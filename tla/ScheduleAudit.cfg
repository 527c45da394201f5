CONSTANTS
    Schedulers = {s1, s2}
    Crons = {1, 2}
    Policies = {"coalesce_latest", "skip_while_busy", "queue_every_occurrence"}
    MaxAge = 2
    MaxCatchup = 2
    PageSize = 4
    QueueCap = 2
    MaxTime = 5
    MaxBack = 0
    MaxManual = 0
    NoPoint = NoPoint
SPECIFICATION PlannedSpec
SYMMETRY Symmetry
INVARIANTS AuditSound EveryPointAccounted SkipNeverOverlaps
CHECK_DEADLOCK FALSE
