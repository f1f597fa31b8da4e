SPECIFICATION Spec
CONSTANTS
    Manual <- DManual
    AllowSimultaneous = {"job1", "job2"}
    Unstartable = {}
    Outcomes = {"successful"}
    Groups = {g1, g3, g4}
    Instances = {i1, i2, i3, i4}
    Members <- ControllerDown
    Controller <- G4ControlsG3
    Capacity <- I4Down
    Enabled = {i1, i2, i3, i4}
    HostOrder <- HostRank
    UpdateOnLaunch = {"proj"}
    Sources = {"src"}
    SourceInventory <- OneSource
    LaunchSources = {}
    AlreadyUpdated = {}
    Env = {"scheduler_crash", "edit_sources"}
    Tasks <- DTasks
    Kind <- DKind
    Project <- DProject
    Inventory <- DInventory
    Source <- DSource
    Template <- DTemplate
    Impact <- DImpact
    Preferred <- DPreferred
    NoGroup = NoGroup
    NoInstance = NoInstance
    NoTask = NoTask
    i1 = i1
    i2 = i2
    i3 = i3
    i4 = i4
    g1 = g1
    g2 = g2
    g3 = g3
    g4 = g4
INVARIANT UpdatesBounded
INVARIANT ChronologicalOrder
INVARIANT DependenciesFirst
