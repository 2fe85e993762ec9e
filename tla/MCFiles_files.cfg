SPECIFICATION FairFileSpec
CONSTANTS
    Block <- MCBlock
    Genesis = "g"
    Zero = "zero"
    Null = "null"
    ParentOf <- MCParentOf
    Depth <- MCDepth
    Branch <- MCBranch
    Tx <- MCTx
    GenesisTx = "coin"
    TxOf <- MCTxOf
    Known = {"g", "a1", "a2", "a3", "a4", "b2"}
    Historic = "historic"
    Peer = "peer"
    Syncs = {"historic", "peer"}
    Modes = {TRUE, FALSE}
    Resend = FALSE
    MaxDelayed = 1
    RpcFault = FALSE
    CanCrash = TRUE
    Calm = FALSE
    Drift = 6
    MaxWire = 1
    FirstDisks <- MCTwoFiles
    MaxFiles = 3
INVARIANTS
    FileTypeOK
    FilesStored
    ParentsFirst
PROPERTY
    FileSyncEnds
CHECK_DEADLOCK FALSE
