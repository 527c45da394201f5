SPECIFICATION DSpec
CONSTANTS
    Adapters = {a1}
    Execs = {e1}
    AdapterOf <- OneAdapter
    Relays = {r1}
    Tickets = {t1, t2}
    MaxAttempts = 2
    Retryable = {"failed_transient", "worker_lost"}
    LeaseTicks = 1
    AdapterCap = 1
    GlobalCap = 1
    OutboxCap = 1
    Kinds = {}
    MaxGen = 2
    MaxCopies = 1
    NoMessage = NoMessage
    NoAttempt = NoAttempt
    NoOwner = NoOwner
SYMMETRY Symmetry
INVARIANTS
    NoLostDispatch
    OneTicketPerAttempt
PROPERTIES
    ImplementsControl
CHECK_DEADLOCK FALSE
