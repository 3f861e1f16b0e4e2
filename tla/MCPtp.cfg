\* Stations alike in all but their identity; the best of them fails once.
SPECIFICATION FairSpec
CONSTANTS
    None = None
    n1 = n1
    n2 = n2
    n3 = n3
    Node = {n1, n2, n3}
    Clock <- Alike
    SyncInterval = 0
    AnnounceInterval = 1
    Timeout = 1
    SeqRange = 2
    Together = {n2, n3}
    MaxBoots <- FirstTwice
    LossyLinks <- BestToSecond
    MaxLosses = 1
PROPERTIES
    PairsOfOneSync
    LeavesOnlyForBetter
    SettlesOnBest
CHECK_DEADLOCK FALSE
