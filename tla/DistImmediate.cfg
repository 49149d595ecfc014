SPECIFICATION Spec
CONSTANTS
    Nodes = {n1, n2}
    Switch = sw
    Repeat = 2
    LinkDelay = 2
    SyncStart = 2
    MaxTick = 6
    MaxDrain = 1
    ReqTypes = {"immediate"}
    Workloads <- ExitOnly
CHECK_DEADLOCK FALSE
INVARIANT AllActTogether
