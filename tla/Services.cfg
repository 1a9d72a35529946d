SPECIFICATION ServicesSpec
CONSTANTS
    Conns = {c1, c2, c3, c4}
    MaxConnections = 2
    Workers = 2
    IoLoops = 2
    MaxTasks = 3
    v1 = v1
    v1s = v1s
    vm = vm
    deepseek = deepseek
    comment = comment
    Posters = {t1, t2}
    Values <- MCValues
    Bodies <- MCConfigBodies
    Foreign <- MCForeign
    ProviderKey = deepseek
    Mentions <- MCMentions
    MaxPosts = 2
    MaxChats = 1
    V1 <- MCV1
    Account = Account
    Unset = Unset
    Garbled = Garbled
    Example = Example
    t1 = t1
    t2 = t2
    u1 = u1
    id = id
    Routes <- MCRoutes
    Params = {id}
    IoThreads = {t1, t2}
    Requests <- MCRequests
    PublicPaths <- MCPublic
    LoginPath <- MCLogin
    LogoutPath <- MCLogout
    CrashPath <- MCCrash
    Users = {u1}
    DefaultTimeout = 2
    ConfiguredTimeout = 2
    MaxSessions = 2
    MaxTime = 2
    NoSession = NoSession
    Nobody = Nobody
    RagThreads = {t1, t2}
    Texts <- MCTexts
    ChunkSize = 3
    Overlap = 1
    Memory = 8
    MaxUploads = 2
    cellA = cellA
    cellB = cellB
    fileA = fileA
    fileB = fileB
    Uploaders = {t1, t2}
    Owners = {u1}
    FileNames = {fileA, fileB}
    NoName = NoName
    Cells <- MCCells
    Crlf = Crlf
    Multiparts <- MCMultiparts
    MaxBodies = 3
    tokA = tokA
    tokB = tokB
    Callers = {t1, t2}
    ToolFiles = {fileA}
    Tokens = {tokA, tokB}
    Nothing = Nothing
    Written <- MCWritten
    MaxCalls = 3
INVARIANTS
    ServicesTypeOK
    PoolWithinLimit
    ShutdownInOrder
    LoginKept
    ServedRight
    UploadsStored
    ReportedEditsKept
    SavedIsRunning
    StoredKeysSafe
PROPERTIES
    SignalEndsProcess
    UploadAnswered
CHECK_DEADLOCK FALSE
