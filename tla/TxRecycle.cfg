SPECIFICATION FairSpec
CONSTANTS
    DescLen = 6
    NumDescEngines = 1
    CacheSize = 2
    NumDMAEngines = 1
    NULL = NULL
    FifoMax = 5
    TxWthresh = 0
    TxRsThresh = 2
    TxFreeThresh = 2
    SegLens = {2}
    MaxSegs = 1
    Offload = {FALSE}
    MaxPkts = 7
    MaxDrains = 1
INVARIANTS CleanedAreDone
PROPERTIES AllSent TxChannelSpec
