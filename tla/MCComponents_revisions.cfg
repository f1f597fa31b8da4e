\* The output page.
CONSTANTS
    LastEvent = 3
    MaxBuffer = 3
    MaxLag = 4
    PageSize = 2
    PageLimit = 1
    EventLimit = 2
    StatsCounters = {3}
    Twice = {}
    Silent = {6}
    StartEvent = 1
    Opens <- FromTheStart
    Radius = 1
    ApiFails = FALSE
    Stored = {1, 2, 3}
\* The status of a job.
    Expecting = {TRUE}
\* The workflow editor.
    OldNodes = {1}
    NewNodes = {}
    Conditional = {"success"}
    RequestFails = FALSE
    MaxLate = 0
\* Live updates.
    MaxVisits = 1
    MaxChanges = 0
    MaxLosses = 0
    MaxAttempts = 1
\* The session.
    Tabs = {A}
    Timeout = 1
    LogoutMayFail = TRUE
    MaxQuiet = 2
\* The source tree of a project.
    Update = Update
    Run = Run
    Import = Import
    Tasks = {Update, Run, Import}
    Kind <- SyncKind
    Project <- SyncProject
    Inventory <- SyncInventory
    Source <- SyncSource
    Template <- SyncTemplate
    AllowSimultaneous = {}
    Followers = {"scm source"}
    MaxRevision = 2
\* The heartbeats of the cluster.
    Instances = {X}
    Grace = 1
    AutoDeprovision = {FALSE}
    MaxVersion = 1
    MaxUpsets = 0
\* The callback receiver.
    LastMessage = 1
    JobEventWorkers = 1
    MaxQueueSize = 1
    MaxRetries = 1
    MaxPolls = 1
    MaxFaults = 0

SPECIFICATION Parts
CHECK_DEADLOCK FALSE
INVARIANT JobUsesItsRevision
