SPECIFICATION DSpec
CONSTANTS
    Adapters = {a1}
    Execs = {e1, e2}
    AdapterOf <- OneAdapter
    Relays = {r1}
    Tickets = {t1}
    MaxAttempts = 1
    Retryable = {"failed_transient", "worker_lost"}
    LeaseTicks = 1
    AdapterCap = 2
    GlobalCap = 2
    OutboxCap = 2
    Kinds = {}
    MaxGen = 1
    MaxCopies = 1
    NoMessage = NoMessage
    NoAttempt = NoAttempt
    NoOwner = NoOwner
SYMMETRY Symmetry
INVARIANTS
    NoLostDispatch
CHECK_DEADLOCK FALSE
