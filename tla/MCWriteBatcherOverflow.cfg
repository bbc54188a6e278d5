CONSTANTS
    Small = {a, b}
    Large = {z}
    Item <- Writes
    ItemSize <- Sizes
    ChannelSize = 1
    MaxBatchSize = 2
    MaxBatchBytes = 2
    HasDQue = TRUE
    HasQuota = FALSE
    DeferDQueDrain = TRUE
    Discardable = {z}
    MaxFailures = 0
    MaxDQueFailures = 0
    MaxRestarts = 1
    MayCrash = TRUE
    MayCancel = FALSE
SYMMETRY Interchangeable
SPECIFICATION Spec
INVARIANT OverflowIsNeverLost
