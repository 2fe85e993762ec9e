SPECIFICATION FairSpec
CONSTANTS
    Block <- MCBlock
    Genesis = "g"
    Zero = "zero"
    Null = "null"
    ParentOf <- MCParentOf
    Depth <- MCDepth
    Branch <- MCBranch
    Tx <- MCTx
    GenesisTx = "coin"
    TxOf <- MCTxOf
    Known = {"g", "a1", "a2", "a3", "a4", "b2", "b3", "b4", "d2"}
    Syncs = {"historic"}
    Modes = {TRUE}
    Resend = FALSE
    MaxDelayed = 0
    RpcFault = FALSE
    CanCrash = FALSE
INVARIANTS
    SyncTypeOK
    MainChainAtRest
    TxIndexOnlyBest
    UnsharedTxIndexed
PROPERTIES
    StoreReturns
    ImplementsIndex
CHECK_DEADLOCK FALSE
