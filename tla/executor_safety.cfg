SPECIFICATION Spec
CONSTANTS
    a = a
    b = b
    Tasks = {a, b}
    Oversized = {}
    MaxRetry = 1
    MAX_CONCURRENT_RETRY = 1
    Outcomes = {"ok", "retryable", "fatal"}
SYMMETRY TaskSymmetry
INVARIANTS
    TypeOK
    SingleFlight
    RetryBounded
    QuotaExact
    TimeoutOnlyAfterDeadline
    SettledIsTerminal
