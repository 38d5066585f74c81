SPECIFICATION Spec
CONSTANTS
    N = 3
    Observers = {}
    Links = {{1, 2}, {2, 3}, {1, 3}}
    Payloads = {p1, p2}
    BuildFailures = {"oversize", "dry_run_error"}
    MaxHeight = 1
    MaxRound = 1
    MaxRestarts = 1
INVARIANTS
    Agreement
    ProposeOnce
    PolkaBehindPrecommit
PROPERTIES
    LockKept
    NoRegress
CHECK_DEADLOCK FALSE
