SPECIFICATION Spec
CONSTANTS
    SparseDepth = 2
    PathKey <- MCPathKey
    Treasury = "t"
    EvmMinFee = 2
    EvmEnabled = TRUE
    EvmGift = 1
    TreasuryBps = 5000
    MaxBalance = 100
    TreeDepth = 2
    Nodes = {"a", "b"}
    Txs <- MCTxs
    Calls <- MCCalls
    Genesis <- MCGenesis
    PoolNodes = {"a"}
    Faucet = "f"
    MaxBlockTxs = 2
    Budgets <- MCBudgets
INVARIANTS
    AccountsFollowChain
    OnceOnChain
    FailsOnlyWithCause
    ReceiptsAgree
    ProofsVerify
    NotesProvable
    PoolCovers
CONSTRAINT UntilUnclean
CHECK_DEADLOCK FALSE
