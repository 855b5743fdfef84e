SPECIFICATION ClusterSpec
CONSTANTS
    d1 = d1  d2 = d2
    start2 = start2  again1 = again1  beat1 = beat1  stop = stop  stop1 = stop1
    Pods = {0, 1}
    NoPod = NoPod
    MaxPeriod = 1
    MaxFaults = 2
    SetShards = 2
    Devices = {d1, d2}
    NoDevice = NoDevice
    UserShard = 1
    MaxDevices = 1
    Calls = {start2, again1, beat1, stop, stop1}
    Op <- Ops
    DevOf <- Targets
    MaxRecs = 3
    Deployments <- Scenarios
INVARIANTS StaleLeaderHasACause DevicesWithinLimit
PROPERTIES EverySessionEnds EveryShardIsScanned EveryPeriodIsReset
CHECK_DEADLOCK FALSE
