SPECIFICATION Spec
CONSTANTS
    Alice = Alice
    Bob = Bob
    Txs <- TwoSenders
    MaxSize = 3
    MaxPerSender = 2
    BlockLimit = 2
    PriorityFee = 3
    MaxHeight = 3
    MaxRestarts = 1
INVARIANTS
    IndexesAgree
    WithinLimits
PROPERTY
    FairExit
