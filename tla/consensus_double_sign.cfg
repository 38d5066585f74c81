SPECIFICATION Spec
CONSTANTS
    N = 2
    Observers = {}
    Links = {{1, 2}}
    Payloads = {p1}
    BuildFailures = {}
    MaxHeight = 1
    MaxRound = 1
    MaxRestarts = 1
INVARIANT
    NoDoubleSign
CHECK_DEADLOCK FALSE
