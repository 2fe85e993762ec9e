SPECIFICATION FileSpec
CONSTANTS
    Block <- MCBlock
    Genesis = "g"
    Zero = "zero"
    Null = "null"
    ParentOf <- MCParentOf
    Depth <- MCDepth
    Branch <- MCBranch
    Tx <- MCTx
    GenesisTx = "coin"
    TxOf <- MCTxOf
    Known = {"g", "a1", "a2", "b2", "b3"}
    Historic = "historic"
    Peer = "peer"
    Syncs = {"historic", "peer"}
    Modes = {TRUE, FALSE}
    Resend = FALSE
    MaxDelayed = 1
    RpcFault = FALSE
    CanCrash = FALSE
    Calm = TRUE
    Drift = 6
    MaxWire = 1
    FirstDisks <- MCFirstDisks
    MaxFiles = 3
INVARIANT
    Resynced
CHECK_DEADLOCK FALSE
