SPECIFICATION FairSpec
CONSTANTS
    a = a
    Tasks = {a}
    Oversized = {}
    MaxRetry = 0
    MAX_CONCURRENT_RETRY = 1
    Outcomes = {"ok"}
PROPERTIES
    TimeoutIsFinal
