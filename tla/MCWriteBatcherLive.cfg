CONSTANTS
    Small = {a, b}
    Large = {z}
    Item <- Writes
    ItemSize <- Sizes
    ChannelSize = 1
    MaxBatchSize = 2
    MaxBatchBytes = 2
    HasDQue = TRUE
    HasQuota = TRUE
    DeferDQueDrain = TRUE
    Discardable = {}
    MaxFailures = 1
    MaxDQueFailures = 0
    MaxRestarts = 0
    MayCrash = FALSE
    MayCancel = FALSE
SPECIFICATION FairSpec
PROPERTIES
    EveryWriteSettles
    CloseReturns
