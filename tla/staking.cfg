SPECIFICATION Spec
CONSTANTS
    n1 = n1
    n2 = n2
    Nodes = {n1}
    Remote = TRUE
    TasksOf <- OneNode
    Genesis = {1, 2}
    Joiners = {3}
    Faulty = {2}
    Unbonders = {1}
    Economics <- ShortEpochs
    Proposed <- Updates
    Fees = 10
    MaxHeight = 3
    MaxStarts = 2
    MaxCalls = 1
    MaxLate = 1
INVARIANTS
    StakeCovers
    SettlementConserves
    EpochFollowsChain
PROPERTIES
    JailIsFinal
    NotReleasedEarly
CONSTRAINT
    UntilUnclean
CHECK_DEADLOCK FALSE
