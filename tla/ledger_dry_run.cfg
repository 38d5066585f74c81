SPECIFICATION Spec
CONSTANTS
    SparseDepth = 2
    PathKey <- MCPathKey
    Treasury = "t"
    EvmMinFee = 2
    EvmEnabled = TRUE
    EvmGift = 1
    TreasuryBps = 5000
    MaxBalance = 100
    TreeDepth = 2
    Nodes = {"a", "b"}
    Txs <- CreateTxs
    Calls <- MCCalls
    Genesis <- MCGenesis
    PoolNodes = {"a"}
    Faucet = "f"
    MaxBlockTxs = 2
    Budgets <- MCBudgets
INVARIANT OwnBlocksExecute
CONSTRAINT UntilUnclean
CHECK_DEADLOCK FALSE
