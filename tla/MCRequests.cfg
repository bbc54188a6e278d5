CONSTANTS
    Visitor = {"v1"}
    GalleryPage = {"g"}
    OtherPage = {"i"}
    CacheLimit = 2
    CacheQueue = 2
    MaxKept = 2
    MaxInvalidations = 1
    MaxCacheFaults = 1
    Renderer = {c1, c2}
    Body = {"gallery", "info"}
    Array = {1, 2, 3, 4}
    NoArray = 0
    PlainSize <- PageSize
    PackedSize <- PackedPage
    MinCompressBytes = 2
    MaxCodecChanges = 1
    MaxBodies = 2
    MaxBatchFaults = 1
    Admin = {a1, a2}
    Setting = {"idle", "pool", "limit"}
    Default <- Ones
    Form <- Forms
    CliValue <- CommandLine
    YamlValue <- YamlFile
    RestartSetting = {"idle", "pool"}
    MaxNumber = 1
    MaxDay = 1
    MaxRequests = 2
    MaxSaveFaults = 1
    MaxRestarts = 1
    Client = {c1, c2}
    Address = {"a"}
    AddressOf <- OneAddress
    RateMax = {0, 2}
    RateWindow = 2
    GcInterval = 2
    LockoutThreshold = 3
    LockoutDuration = 1
    LoginHorizon = 2
    MaxLogins = 4
    MaxLoginFaults = 1
    Saver = {a1, a2}
    LogDir = {"logs", "var"}
    BootstrapDir = "logs"
    LogLevel = {"debug", "warn"}
    BootstrapLevel = "debug"
    RetentionCount = 1
    MaxStamps = 3
    MaxHandles = 4
    MaxLogFaults = 1
    Opener = {c1, c2}
    Driver = {a1, a2}
    NoDriver = NoDriver
    IdleLimit = 1
    Statements = 1
    CustomStatements = 1
    MaxSetupFaults = 2
    MaxSetupCrashes = 1
    Image = {"f", "g"}
    Folder = {"", "d"}
    NoImage = "none"
    Chain <- Chains
    LastVersion = 2
    Undecodable <- Broken
    Buffer = {1, 2}
    NoBuffer = 0
    MaxBatch = 2
    MaxRuns = 2
    MaxChanges = 1
    MaxSeconds = 1
    MaxWriteFaults = 1
    MaxPowerCuts = 1
    Command = {c1, c2}
    AutoRefresh = TRUE
    MaxCommands = 4
    MaxExpiries = 1
    MaxFlushed = 3
    c1 = c1
    c2 = c2
    a1 = a1
    a2 = a2
SPECIFICATION RequestsSpec
INVARIANTS
    RequestsTypeOK
    CacheSafety
    BodiesComeBack
    ConfigSafety
    LoginLimits
    LogFilesSound
    DatabasesSafety
    CatalogueSafety
    NeverStuck
CHECK_DEADLOCK FALSE
