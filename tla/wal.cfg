SPECIFICATION Spec
CONSTANTS
    Writers = {"consensus"}
    Lag = 1
    MaxAppends = 7
    MaxHeight = 4
    MaxCrashes = 1
INVARIANTS
    AckedDurable
    ReplayOrder
CHECK_DEADLOCK FALSE
