SPECIFICATION FairInsightSpec
CONSTANTS
    Block <- MCBlock
    Genesis = "g"
    Zero = "zero"
    Null = "null"
    ParentOf <- MCParentOf
    Depth <- MCDepth
    Branch <- MCBranch
    Tx <- MCTx
    GenesisTx = "coin"
    TxOf <- MCTxOf
    Known = {"g", "a1", "a2", "b2", "b3"}
    Historic = "historic"
    Peer = "peer"
    Syncs = {"historic", "peer"}
    Modes = {TRUE, FALSE}
    Resend = FALSE
    MaxDelayed = 1
    RpcFault = TRUE
    CanCrash = TRUE
    Calm = FALSE
    Drift = 0
    MaxWire = 1
INVARIANTS
    InsightTypeOK
    HistoricIsAlone
    TxIndexAgrees
    NextIsChild
PROPERTY
    SyncEnds
CHECK_DEADLOCK FALSE
