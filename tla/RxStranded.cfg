SPECIFICATION FairSpec
CONSTANTS
    DescLen = 3
    NumDescEngines = 1
    CacheSize = 3
    NumDMAEngines = 2
    NULL = NULL
    RxFifoSize = 1
    Wthresh = 0
    Pthresh = 2
    Hthresh = 0
    RdmtsRatio = 2
    LowDescs = 32
    RxIntDelay = FALSE
    RxFreeThresh = 0
    MaxPkts = 2
    MaxDrains = 0
PROPERTIES UsedWrittenBack
