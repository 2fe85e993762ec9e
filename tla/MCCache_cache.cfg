SPECIFICATION CacheSpec
CONSTANTS
    Block <- MCBlock
    Genesis = "g"
    Zero = "zero"
    Null = "null"
    ParentOf <- MCParentOf
    Depth <- MCDepth
    Branch <- MCBranch
    Tx <- MCCacheTx
    GenesisTx = "coin"
    TxOf <- MCCacheTxOf
    Known = {"g", "a1", "a2", "b2", "b3"}
    Syncs = {"historic"}
    Modes = {TRUE}
    Resend = FALSE
    MaxDelayed = 0
    RpcFault = FALSE
    CanCrash = FALSE
    Clients = {c1, c2}
    Out = "o"
    Spenders = {"s", "d"}
    Announced = {"o", "d"}
    Times = {1}
    Safe = 2
INVARIANTS
    CacheTypeOK
    CachedIsBuried
    CacheAgrees
SYMMETRY MCClients
CHECK_DEADLOCK FALSE
