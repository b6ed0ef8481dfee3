SPECIFICATION Spec
CONSTANTS
    Strings = {"", "0", "1", "n", "x", "s", "result", "cancelled"}
    Params <- MCParams
    IntMax = 15
    Exact = 32
    MaxHops = 5
INVARIANTS
    TaskSurvives
    HopsSettle
    FibExact
