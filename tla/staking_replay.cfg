SPECIFICATION Spec
CONSTANTS
    n1 = n1
    n2 = n2
    Nodes = {n1, n2}
    Remote = FALSE
    TasksOf <- VoterAndFollower
    Genesis = {1, 2}
    Joiners = {3}
    Faulty = {}
    Unbonders = {}
    Economics <- ShortEpochs
    Proposed <- NoUpdates
    Fees = 10
    MaxHeight = 3
    MaxStarts = 1
    MaxCalls = 0
    MaxLate = 0
INVARIANT
    ReplayAgrees
CHECK_DEADLOCK FALSE
