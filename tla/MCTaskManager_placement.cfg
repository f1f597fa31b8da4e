SPECIFICATION Spec
CONSTANTS
    Manual <- CTasks
    AllowSimultaneous = {}
    Unstartable = {}
    Outcomes = {"successful", "failed"}
    Groups = {g1, g2, g3, g4}
    Instances = {i1, i2, i3, i4}
    Members <- SharedAndIsolated
    Controller <- G4ControlsG3
    Capacity <- Tight
    Enabled = {i1, i2, i3, i4}
    HostOrder <- HostRank
    UpdateOnLaunch = {}
    Sources = {}
    SourceInventory <- NoSources
    LaunchSources = {}
    AlreadyUpdated = {}
    Env = {"worker_crash"}
    Tasks <- CTasks
    Kind <- CKind
    Project <- CProject
    Inventory <- CInventory
    Source <- CSource
    Template <- CTemplate
    Impact <- CImpact
    Preferred <- CPreferred
    NoGroup = NoGroup
    NoInstance = NoInstance
    NoTask = NoTask
    i1 = i1
    i2 = i2
    i3 = i3
    i4 = i4
    g1 = g1
    g2 = g2
    g3 = g3
    g4 = g4
INVARIANT CapacityRespected
INVARIANT IsolatedTasksOnly
