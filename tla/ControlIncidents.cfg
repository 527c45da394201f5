SPECIFICATION Spec
CONSTANTS
    Adapters = {a1}
    Execs = {e1}
    AdapterOf <- OneAdapter
    Relays = {r1}
    MaxAttempts = 2
    Retryable = {"failed_transient", "worker_lost"}
    LeaseTicks = 1
    AdapterCap = 1
    GlobalCap = 1
    OutboxCap = 1
    Kinds = {"delivery_limit", "rejected"}
    MaxGen = 2
    NoAttempt = NoAttempt
    NoOwner = NoOwner
INVARIANTS
    QueuedClaimable
    GenerationRows
    TerminationTracked
CHECK_DEADLOCK FALSE
