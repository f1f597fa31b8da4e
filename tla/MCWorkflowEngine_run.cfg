SPECIFICATION FairSpec
CONSTANTS
    Workflow = "workflow"
    Nodes <- Forest
    SuccessNodes <- ForestSuccess
    FailureNodes <- ForestFailure
    AlwaysNodes <- ForestAlways
    Missing = {"gone"}
    Unstartable = {"leaf"}
    Outcomes = {"successful", "failed", "error"}
    Env = {"worker_crash"}
PROPERTY ImplementsRun
PROPERTY WorkflowFinishes
