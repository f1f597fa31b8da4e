\* The output page.
CONSTANTS
    LastEvent = 4
    MaxBuffer = 2
    MaxLag = 4
    PageSize = 2
    PageLimit = 1
    EventLimit = 2
    StatsCounters = {0, 4}
    Twice = {4}
    Silent = {6}
    StartEvent = 1
    Opens <- EarlyAndLate
    Radius = 1
    ApiFails = TRUE
    Stored = {1, 2, 3, 5, 6, 8, 9, 10}
\* The status of a job.
    Expecting = {TRUE, FALSE}
\* The workflow editor.
    OldNodes = {1, 2}
    NewNodes = {8}
    Conditional = {"success"}
    RequestFails = TRUE
    MaxLate = 1
\* Live updates.
    MaxVisits = 3
    MaxChanges = 2
    MaxLosses = 2
    MaxAttempts = 2
\* The session.
    Tabs = {A, B}
    Timeout = 2
    LogoutMayFail = TRUE
    MaxQuiet = 2
\* The source tree of a project.
    Update = Update
    Run = Run
    Import = Import
    Tasks = {Update, Run, Import}
    Kind <- SyncKind
    Project <- SyncProject
    Inventory <- SyncInventory
    Source <- SyncSource
    Template <- SyncTemplate
    AllowSimultaneous = {}
    Followers = {"scm source"}
    MaxRevision = 2
\* The heartbeats of the cluster.
    Instances = {X, Y}
    Grace = 2
    AutoDeprovision = {TRUE, FALSE}
    MaxVersion = 2
    MaxUpsets = 3
\* The callback receiver.
    LastMessage = 3
    JobEventWorkers = 2
    MaxQueueSize = 1
    MaxRetries = 1
    MaxPolls = 2
    MaxFaults = 2

SPECIFICATION PartsSpec
CHECK_DEADLOCK FALSE
INVARIANTS
    StreamInv
    StreamEmpties
    OneRendering
    ScreenInOrder
    LockedWhileFollowing
    TableBounded
    PagesInOrder
    SavedAsDrawn
    NothingRefused
    NothingForgotten
    TimerWithinSession
    OneCheckout
PROPERTIES
    ImplementsEventLog
    HolesOnlyByOverflow
    JumpsReload
    ViewerPauseEnds
    JobStatusConverges
    SaveEnds
    SubscriptionSettles
    ClosedSessionLeft
    WaitsEnd
    CapacitySettles
    EventsSettle
