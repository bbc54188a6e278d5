CONSTANTS
    Small = {a, b}
    Large = {z}
    Item <- Writes
    ItemSize <- Sizes
    ChannelSize = 1
    MaxBatchSize = 2
    MaxBatchBytes = 2
    HasDQue = TRUE
    HasQuota = FALSE
    DeferDQueDrain = TRUE
    Discardable = {z}
    MaxFailures = 0
    MaxDQueFailures = 1
    MaxRestarts = 0
    MayCrash = FALSE
    MayCancel = FALSE
SPECIFICATION FairSpec
PROPERTY ChannelIsNotStarved
