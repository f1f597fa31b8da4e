SPECIFICATION Spec
CONSTANTS
    Manual <- RTasks
    AllowSimultaneous = {}
    Unstartable = {}
    Outcomes = {"successful", "failed"}
    Groups = {g1, g2}
    Instances = {i1, i2}
    Members <- TwoGroups
    Controller <- NoControllers
    Capacity <- Roomy
    Enabled = {i1, i2}
    HostOrder <- HostRank
    UpdateOnLaunch = {}
    Sources = {"src"}
    SourceInventory <- OneSource
    LaunchSources = {"src"}
    AlreadyUpdated <- ByCallback
    Env = {"cancel"}
    Tasks <- RTasks
    Kind <- RKind
    Project <- RProject
    Inventory <- RInventory
    Source <- RSource
    Template <- RTemplate
    Impact <- RImpact
    Preferred <- RPreferred
    NoGroup = NoGroup
    NoInstance = NoInstance
    NoTask = NoTask
    i1 = i1
    i2 = i2
    i3 = i3
    i4 = i4
    g1 = g1
    g2 = g2
    g3 = g3
    g4 = g4
INVARIANT TypeOK
INVARIANT PassRespectsRules
INVARIANT MutualExclusion
