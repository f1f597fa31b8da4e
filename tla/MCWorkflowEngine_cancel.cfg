SPECIFICATION FairSpec
CONSTANTS
    Workflow = "workflow"
    Nodes <- Fork
    SuccessNodes <- ForkSuccess
    FailureNodes <- ForkFailure
    AlwaysNodes <- ForkAlways
    Missing = {}
    Unstartable = {}
    Outcomes = {"successful", "failed", "error"}
    Env = {"cancel_workflow", "cancel_job", "delete_template"}
INVARIANT RightPath
PROPERTY NoJobWithoutTemplate
PROPERTY RunningJobsAreStopped
PROPERTY StoppedJobsEndCanceled
