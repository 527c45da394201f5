SPECIFICATION DSpec
CONSTANTS
    Adapters = {a1}
    Execs = {e1}
    AdapterOf <- OneAdapter
    Relays = {r1, r2}
    Tickets = {t1}
    MaxAttempts = 1
    Retryable = {"failed_transient", "worker_lost"}
    LeaseTicks = 1
    AdapterCap = 1
    GlobalCap = 1
    OutboxCap = 1
    Kinds = {"rejected"}
    MaxGen = 1
    MaxCopies = 2
    NoMessage = NoMessage
    NoAttempt = NoAttempt
    NoOwner = NoOwner
SYMMETRY Symmetry
INVARIANTS
    DTypeOK
    NoLostDispatch
CHECK_DEADLOCK FALSE
