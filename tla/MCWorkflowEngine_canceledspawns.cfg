SPECIFICATION Spec
CONSTANTS
    Workflow = "workflow"
    Nodes <- Chain
    SuccessNodes <- NoChainEdges
    FailureNodes <- NoChainEdges
    AlwaysNodes <- ChainAlways
    Missing = {}
    Unstartable = {}
    Outcomes = {"successful"}
    Env = {"cancel_workflow"}
PROPERTY CancelStopsPaths
