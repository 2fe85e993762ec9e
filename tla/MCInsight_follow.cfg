SPECIFICATION FairInsightSpec
CONSTANTS
    Block <- MCBlock
    Genesis = "g"
    Zero = "zero"
    Null = "null"
    ParentOf <- MCParentOf
    Depth <- MCDepth
    Branch <- MCBranch
    Tx <- MCTx
    GenesisTx = "coin"
    TxOf <- MCTxOf
    Known = {"g", "a1", "a2", "a3", "a4", "b2", "b3", "b4", "c3", "d2"}
    Historic = "historic"
    Peer = "peer"
    Syncs = {"historic", "peer"}
    Modes = {TRUE, FALSE}
    Resend = FALSE
    MaxDelayed = 1
    RpcFault = FALSE
    CanCrash = TRUE
    Calm = TRUE
    Drift = 6
    MaxWire = 1
INVARIANT
    CaughtUp
PROPERTY
    Follows
CHECK_DEADLOCK FALSE
