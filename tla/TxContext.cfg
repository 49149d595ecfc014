SPECIFICATION Spec
CONSTANTS
    DescLen = 5
    NumDescEngines = 1
    CacheSize = 4
    NumDMAEngines = 2
    NULL = NULL
    FifoMax = 5
    TxWthresh = 0
    TxRsThresh = 1
    TxFreeThresh = 1
    SegLens = {2}
    MaxSegs = 1
    Offload = {TRUE}
    MaxPkts = 4
    MaxDrains = 0
INVARIANTS CleanedAreDone
