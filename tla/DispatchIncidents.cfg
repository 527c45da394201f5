SPECIFICATION DSpec
CONSTANTS
    Adapters = {a1}
    Execs = {e1}
    AdapterOf <- OneAdapter
    Relays = {r1}
    Tickets = {t1}
    MaxAttempts = 2
    Retryable = {"failed_transient", "worker_lost"}
    LeaseTicks = 1
    AdapterCap = 1
    GlobalCap = 1
    OutboxCap = 1
    Kinds = {"delivery_limit"}
    MaxGen = 2
    MaxCopies = 1
    NoMessage = NoMessage
    NoAttempt = NoAttempt
    NoOwner = NoOwner
SYMMETRY Symmetry
INVARIANTS
    DispatchAccounted
CHECK_DEADLOCK FALSE
