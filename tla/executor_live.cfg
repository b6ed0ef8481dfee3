SPECIFICATION FairSpec
CONSTANTS
    a = a
    b = b
    Tasks = {a, b}
    Oversized = {b}
    MaxRetry = 1
    MAX_CONCURRENT_RETRY = 1
    Outcomes = {"ok", "retryable", "fatal"}
PROPERTIES
    EventuallyTerminal
