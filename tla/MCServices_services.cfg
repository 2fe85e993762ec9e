SPECIFICATION ServicesSpec
CONSTANTS
    Slot = {s1, s2}
    Pass = {p1, p2}
    Key = {k1, k2}
    None = None
    Unconfirmed = 1
    Confirmed = 2
    MaxSecret = 3
    CanCrash = TRUE
    Sockets = {c1}
    PubKeys = {pubkey}
    Topics = {pubkey, inv}
    Threshold = 1
    MaxClock = 3
    Fetches = {f1, f2}
    MaxSecond = 4
    Indexed = {b1, b2}
    Nobody = Nobody
    LastSecond = 4
    Limits = {1, 2}
    Txid = {1, 2, 3, 4, 5}
    NoTx = 0
    Ins <- MCIns
    Outs <- MCOuts
    Sat <- MCSat
    Payment = {t1, t2}
    Unspent = Unspent
    MaxSat = 2
    MaxItems = 3
INVARIANTS
    EmailTypeOK
    PendingIsMailed
    CountCovers
    WholeProfile
    MailTypeOK
    NothingMissed
    QuotesInOrder
    PagesCover
    FeesAreRight
    RivalIsTold
    SumsAreRight
    EachTxOnce
PROPERTIES
    KeptUntilOld
    PastIsSettled
    PagesAdvance
SYMMETRY MCSymmetry
