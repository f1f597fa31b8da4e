SPECIFICATION FairSpec
CONSTANTS
    Manual <- FTasks
    AllowSimultaneous = {}
    Unstartable = {"cmd"}
    Outcomes = {"successful", "failed"}
    Groups = {g1}
    Instances = {i1, i2}
    Members <- OneGroup
    Controller <- NoControllers
    Capacity <- Tight
    Enabled = {i1, i2}
    HostOrder <- HostRank
    UpdateOnLaunch = {}
    Sources = {}
    SourceInventory <- NoSources
    LaunchSources = {}
    AlreadyUpdated = {}
    Env = {"worker_crash", "dispatch_crash", "slow_queue"}
    Tasks <- FTasks
    Kind <- FKind
    Project <- FProject
    Inventory <- FInventory
    Source <- FSource
    Template <- FTemplate
    Impact <- FImpact
    Preferred <- FPreferred
    NoGroup = NoGroup
    NoInstance = NoInstance
    NoTask = NoTask
    i1 = i1
    i2 = i2
    i3 = i3
    i4 = i4
    g1 = g1
    g2 = g2
    g3 = g3
    g4 = g4
INVARIANT OneWorkflowPerTemplate
PROPERTY PendingIsServed
PROPERTY SubmittedFinishes
