SPECIFICATION FairSpec
CONSTANTS
    JobSizes = {2, 4}
    EarlyLargeJobs = FALSE
    FirstN = 2
    NumContexts = 2
    NumWorkers = 2
    DescPerLine = 2
    RxFifoSize = 2
    ReqBufSize = 4
    NumMSHRs = 2
    Traffic <- AnyPackets
    MaxJobs = 2
    MaxGiveUps = 1
CHECK_DEADLOCK FALSE
INVARIANTS DTATypeOK AssertsExplained JobsAsSubmitted OnlyFrontJobServed DeliveredInOrder
PROPERTIES JobsEnd
