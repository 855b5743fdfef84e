SPECIFICATION PipelineSpec
CONSTANTS
    m1 = m1  m2 = m2  m3 = m3
    Msgs = {m1, m2, m3}
    Events = {m1, m2, m3}
    Kinds = {"kafka", "rabbitmq", "rocketmq", "memory", "none"}
    MaxLog = 4
    Workers = {w1, w2}
    QueueSize = 1
    OverflowWorkers = 1
    BatchSize = 2
    TripAfter = 1
    ProbeMax = 1
    DlqLines = 2
    ReplayBatchMax = 1
    DrainBudget = 1
    MaxFaults = 3
    Gain <- OneEach
    Tasks = {1, 2}
    TaskType <- DailyAndWeekly
    Target <- OneAndTwo
    Claimers = {c1, c2}
    Retention = 1
    MaxDay = 2
    Setups <- FourSetups
    PoolSize = 2
    RetryMax = 1
    Poison = {m2}
    Deployments <- SixDeployments
INVARIANTS PipelineTypeOK
           OutagesLoseNothing DuplicatesHaveACause
           NothingSkipped
           ProgressOncePerEvent RewardIsEarned ListShowsThisPeriod
PROPERTIES DiskIsDurable OffsetNeverGoesBack
           EventuallyPublished EventuallySettled
CHECK_DEADLOCK FALSE
