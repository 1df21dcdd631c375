CONSTANTS
    GeoThreads = {t1, t2}
    Places = {1, 2, 4, 9}
    FarPlaces = {9}
    ShortPlaces = {2}
    CacheSize = 2
    MaxRequests = 3
    MaxLives = 2
    LimitThreads = {t1, t2}
    RLimit = 1
    BlockTime = 1
    MaxTime = 5
    MaxAsks = 4
    MaxMails = 1
    MaxRcpt = 2
    DbThreads = {t1, t2}
    ChunkSize = 2
    MaxOps = 3
    MaxMeet = 2
    MaxMessages = 2
    LogThreads = {t1, t2}
    MaxLogs = 2
    verbose_log = 2
    MaxPresets = 3
    MaxEdits = 2
    MaxUses = 2
    MaxLines = 4
    require_client_pwd = TRUE
    MaxLate = 1
    UsbThreads = {t1, t2}
    MaxUsbOps = 2
    MaxDownloads = 1
    MaxTries = 1
    RepThreads = {t1, t2}
    MaxEvent = 50
    MaxReports = 2
    MaxOdd = 1
    OddCmds = {"config", "dlrec", "ps"}
    MeetFrom = 21
    pdfreport_hide_empty_geoevent = TRUE
SPECIFICATION ServicesSpec
INVARIANTS
    
    CalmAnswerIsNear
    BooksAgree
    AloneIsPolite
    MailIsHonest
    StoreIsHonest
    
    
    SeamlessLosesNothing
    
    PresetRunsItself
    InStep
    
    
    
SYMMETRY ThreadSymmetry
CHECK_DEADLOCK FALSE
