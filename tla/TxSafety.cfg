SPECIFICATION Spec
CONSTANTS
    DescLen = 5
    NumDescEngines = 2
    CacheSize = 3
    NumDMAEngines = 2
    NULL = NULL
    FifoMax = 5
    TxWthresh = 0
    TxRsThresh = 1
    TxFreeThresh = 1
    SegLens = {2}
    MaxSegs = 1
    Offload = {FALSE}
    MaxPkts = 6
    MaxDrains = 0
INVARIANTS TxTypeOK TxCacheAgrees WritesBackInPlace CleanedAreDone ReservationsKept
PROPERTIES TxChannelSafety
