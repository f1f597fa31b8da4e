SPECIFICATION Spec
CONSTANTS
    Manual <- SManual
    AllowSimultaneous = {}
    Unstartable = {}
    Outcomes = {"successful", "failed"}
    Groups = {g1}
    Instances = {i1, i2}
    Members <- OneGroup
    Controller <- NoControllers
    Capacity <- Roomy
    Enabled = {i1, i2}
    HostOrder <- HostRank
    UpdateOnLaunch = {"proj"}
    Sources = {"src"}
    SourceInventory <- OneSource
    LaunchSources = {"src"}
    AlreadyUpdated = {}
    Env = {}
    Tasks <- STasks
    Kind <- SKind
    Project <- SProject
    Inventory <- SInventory
    Source <- SSource
    Template <- STemplate
    Impact <- SImpact
    Preferred <- SPreferred
    NoGroup = NoGroup
    NoInstance = NoInstance
    NoTask = NoTask
    i1 = i1
    i2 = i2
    i3 = i3
    i4 = i4
    g1 = g1
    g2 = g2
    g3 = g3
    g4 = g4
INVARIANT MutualExclusion
