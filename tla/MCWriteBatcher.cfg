CONSTANTS
    Small = {a, b}
    Large = {z}
    Item <- Writes
    ItemSize <- Sizes
    ChannelSize = 1
    MaxBatchSize = 2
    MaxBatchBytes = 2
    HasDQue = TRUE
    HasQuota = FALSE
    DeferDQueDrain = TRUE
    Discardable = {z}
    MaxFailures = 1
    MaxDQueFailures = 1
    MaxRestarts = 1
    MayCrash = TRUE
    MayCancel = TRUE
SYMMETRY Interchangeable
SPECIFICATION Spec
INVARIANTS
    TypeOK
    PendingExact
    PendingZeroMeansIdle
    TimerCoversBatch
    BacklogIsNoticed
    LossHasACause
    CloseDrainsTheChannel
PROPERTY ImplementsSink
