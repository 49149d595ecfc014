SPECIFICATION Spec
CONSTANTS
    DescLen = 4
    NumDescEngines = 2
    CacheSize = 6
    NumDMAEngines = 2
    NULL = NULL
    RxFifoSize = 2
    Wthresh = 2
    Pthresh = 2
    Hthresh = 0
    RdmtsRatio = 2
    LowDescs = 1
    RxIntDelay = FALSE
    RxFreeThresh = 0
    MaxPkts = 5
    MaxDrains = 1
INVARIANTS IInv TypeOK RingPointersAgree BanksInOrder EnginesAgree CardOwnsWhatItHolds
PROPERTIES HeadFollowsMemory ChannelSafety
