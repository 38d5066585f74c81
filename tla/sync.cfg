SPECIFICATION Spec
CONSTANTS
    Conns = {1, 2}
    NodeOf <- SamePeer
    Dialed = {}
    MaxInbound = 1
    ScoreInitial = 1
    ScoreValid = 1
    ScoreDuplicate <- MinusTwo
    ScoreUseful = 1
    ScoreMax = 1
    BanThreshold = 0
    MaxRecent = 1
    MaxFaults = 1
    StartHeight = 2
    MaxHeight = 3
    BatchLimit = 2
    Retained = 2
    MaxOnWire = 2
INVARIANTS
    BlocksFollow
    EndsOnlyWithCause
    AwaitedIsOnItsWay
PROPERTY
    CatchesUp
CHECK_DEADLOCK FALSE
