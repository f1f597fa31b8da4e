SPECIFICATION Spec
CONSTANTS
    Manual <- JTasks
    AllowSimultaneous = {}
    Unstartable = {}
    Outcomes = {"successful", "failed"}
    Groups = {g1}
    Instances = {i1, i2}
    Members <- OneGroup
    Controller <- NoControllers
    Capacity <- Roomy
    Enabled = {i1, i2}
    HostOrder <- HostRank
    UpdateOnLaunch = {}
    Sources = {}
    SourceInventory <- NoSources
    LaunchSources = {}
    AlreadyUpdated = {}
    Env = {"cancel"}
    Tasks <- JTasks
    Kind <- JKind
    Project <- JProject
    Inventory <- JInventory
    Source <- JSource
    Template <- JTemplate
    Impact <- JImpact
    Preferred <- JPreferred
    NoGroup = NoGroup
    NoInstance = NoInstance
    NoTask = NoTask
    i1 = i1
    i2 = i2
    i3 = i3
    i4 = i4
    g1 = g1
    g2 = g2
    g3 = g3
    g4 = g4
PROPERTY CancelIsKept
