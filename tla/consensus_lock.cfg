SPECIFICATION Spec
CONSTANTS
    N = 4
    Observers = {}
    Links = {{1, 2}, {2, 3}, {3, 4}, {1, 4}, {2, 4}}
    Payloads = {p1}
    BuildFailures = {}
    MaxHeight = 1
    MaxRound = 1
    MaxRestarts = 0
INVARIANTS
    Agreement
    LockBinds
    NoFalseAccusation
CHECK_DEADLOCK FALSE
