SPECIFICATION Spec
CONSTANTS
    JobSizes = {3}
    EarlyLargeJobs = TRUE
    FirstN = 1
    NumContexts = 2
    NumWorkers = 3
    DescPerLine = 2
    RxFifoSize = 2
    ReqBufSize = 5
    NumMSHRs = 2
    Traffic <- MixedPackets
    MaxJobs = 2
    MaxGiveUps = 1
INVARIANTS JobsAsSubmitted
