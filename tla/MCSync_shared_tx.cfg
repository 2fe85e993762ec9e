SPECIFICATION Spec
CONSTANTS
    Block <- MCBlock
    Genesis = "g"
    Zero = "zero"
    Null = "null"
    ParentOf <- MCParentOf
    Depth <- MCDepth
    Branch <- MCBranch
    Tx <- MCTx
    GenesisTx = "coin"
    TxOf <- MCTxOf
    Known = {"g", "a1", "a2", "a3", "b2", "b3"}
    Syncs = {"historic"}
    Modes = {TRUE}
    Resend = FALSE
    MaxDelayed = 0
    RpcFault = FALSE
    CanCrash = FALSE
INVARIANT
    TxIndexComplete
CHECK_DEADLOCK FALSE
