SPECIFICATION Spec
CONSTANTS
    Adapters = {a1}
    Execs = {e1, e2}
    AdapterOf <- OneAdapter
    Relays = {}
    MaxAttempts = 2
    Retryable = {"failed_transient", "worker_lost"}
    LeaseTicks = 2
    AdapterCap = 2
    GlobalCap = 2
    OutboxCap = 2
    Kinds = {}
    MaxGen = 2
    NoAttempt = NoAttempt
    NoOwner = NoOwner
SYMMETRY ExecSymmetry
INVARIANTS
    TypeOK
    SerialSlot
    FencesUnique
    AdmissionExact
    CancelHonoured
    GuardExcludesUse
PROPERTIES
    TerminalFinal
    ImplementsLifecycle
CHECK_DEADLOCK FALSE
