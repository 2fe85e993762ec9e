SPECIFICATION Spec
CONSTANTS
    Block <- MCBlock
    Genesis = "g"
    Zero = "zero"
    Null = "null"
    ParentOf <- MCParentOf
    Depth <- MCDepth
    Branch <- MCBranch
    Tx <- MCTx
    GenesisTx = "coin"
    TxOf <- MCTxOf
    Known = {"g", "a1", "a2", "a3", "b2", "b3"}
    Syncs = {"peer"}
    Modes = {TRUE}
    Resend = FALSE
    MaxDelayed = 2
    RpcFault = TRUE
    CanCrash = TRUE
INVARIANTS
    NextIsChild
    HeightIsDepth
    TipIsComplete
    TxIndexAgrees
CHECK_DEADLOCK FALSE
