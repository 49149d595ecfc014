SPECIFICATION FairSpec
CONSTANTS
    Nodes = {n1, n2}
    Switch = sw
    Repeat = 2
    LinkDelay = 2
    SyncStart = 2
    MaxTick = 6
    MaxDrain = 1
    ReqTypes = {"collective"}
    Workloads <- ExitOrCheckpoint
CHECK_DEADLOCK FALSE
INVARIANTS SyncTypeOK PacketsArriveInTime BarrierAsserts AllActTogether CheckpointDrainsNetwork
PROPERTIES ClockSpec Progress ExitsTogether EndsSpread
