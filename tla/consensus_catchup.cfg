SPECIFICATION Spec
CONSTANTS
    N = 2
    Observers = {3}
    Links = {{1, 2}, {2, 3}, {1, 3}}
    Payloads = {p1}
    BuildFailures = {}
    MaxHeight = 2
    MaxRound = 1
    MaxRestarts = 0
INVARIANTS
    TypeOK
    ChainLinked
PROPERTY
    ImplementsFinality
CHECK_DEADLOCK FALSE
