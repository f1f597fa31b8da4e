--------------------------- MODULE WorkflowEngine ---------------------------
(***************************************************************************)
(* One workflow job: the WorkflowDAG of awx/main/scheduler/dag_workflow.py *)
(* and the workflow half of a scheduling pass (process_finished_workflow_  *)
(* jobs, spawn_workflow_graph_jobs, then process_tasks), next to the       *)
(* users and workers that change the same rows.                            *)
(*                                                                         *)
(* A pass reads the unfinished tasks and the running workflow jobs first,  *)
(* decides with fresh reads of the nodes, spawns with another fresh read,  *)
(* and finally starts pending tasks from its first read.  Its writes are   *)
(* buffered in tx until the commit.  Which pending tasks are started is    *)
(* left open here: blocking and capacity are the subject of TaskManager.   *)
(***************************************************************************)
EXTENDS Naturals, FiniteSets

CONSTANTS
    Nodes,              \* the workflow job nodes
    Workflow,           \* the row of the workflow job itself
    SuccessNodes, FailureNodes, AlwaysNodes,    \* [Nodes -> SUBSET Nodes]
    Missing,            \* nodes that begin with no unified job template
    Unstartable,        \* nodes whose job lacks a resource or a password
    Outcomes,           \* results a playbook run may have
    Env                 \* which faults and user actions may happen

Tasks == Nodes \cup {Workflow}
Terminal == {"successful", "failed", "error", "canceled"}
Active == {"waiting", "running"}
Unfinished == {"pending", "waiting", "running"}
Faults == {"cancel_workflow", "cancel_job", "worker_crash", "slow_queue",
           "delete_template"}

Children(n) == SuccessNodes[n] \cup FailureNodes[n] \cup AlwaysNodes[n]

(* The API lets a node have one parent at most.                            *)
ASSUME NodeAssumption ==
    /\ IsFiniteSet(Nodes) /\ Workflow \notin Nodes
    /\ SuccessNodes \in [Nodes -> SUBSET Nodes]
    /\ FailureNodes \in [Nodes -> SUBSET Nodes]
    /\ AlwaysNodes \in [Nodes -> SUBSET Nodes]
    /\ Missing \subseteq Nodes /\ Unstartable \subseteq Nodes
    /\ \A p, q \in Nodes : p # q => Children(p) \cap Children(q) = {}
ASSUME FaultAssumption ==
    Env \subseteq Faults /\ Outcomes \subseteq Terminal \ {"canceled"}

VARIABLES
    row,            \* the committed rows; a node's is that of node.job
    templates,      \* nodes whose unified_job_template is not null
    worker,         \* what celery does with the job of each node; after the
                    \* run, the final status that is still to be written
    phase,          \* where the pass is
    tx,             \* rows written by the pass and not committed
    pending,        \* pending tasks of the pass's first read
    running_workflow_jobs   \* the workflow row as the pass read it, in a set

vars == <<row, templates, worker, phase, tx, pending, running_workflow_jobs>>
users == <<row, templates, worker>>
locals == <<phase, tx, pending, running_workflow_jobs>>

(* A node whose status is "none" has no job.                               *)
Rows == [status : {"none"} \cup Unfinished \cup Terminal, cancel_flag : BOOLEAN]
Row(status, flag) == [status |-> status, cancel_flag |-> flag]

View(t) == IF t \in DOMAIN tx THEN tx[t] ELSE row[t]
Unlocked(t) == t \notin DOMAIN tx
Override(f) == [t \in DOMAIN tx \cup DOMAIN f |->
                  IF t \in DOMAIN f THEN f[t] ELSE tx[t]]

(* The workflow job is launched, its nodes are copied and have no jobs.    *)
Init ==
    /\ row = [t \in Tasks |-> Row(IF t = Workflow THEN "pending" ELSE "none", FALSE)]
    /\ templates = Nodes \ Missing
    /\ worker = [n \in Nodes |-> "none"]
    /\ phase = "idle" /\ tx = <<>> /\ pending = {} /\ running_workflow_jobs = {}

----------------------------------------------------------------------------
(* WorkflowDAG.                                                            *)
Roots == {n \in Nodes : \A p \in Nodes : n \notin Children(p)}

Followed(n) ==
    CASE View(n).status = "successful" -> SuccessNodes[n] \cup AlwaysNodes[n]
      [] View(n).status = "failed" -> FailureNodes[n] \cup AlwaysNodes[n]
      [] OTHER -> {}

(* The list that both loops extend while they walk it ends up with the     *)
(* roots and all that can be reached from them, the nodes in stops not     *)
(* being followed: the least set that is closed under the step.            *)
Visited(stops) ==
    LET Closed == {S \in SUBSET Nodes :
                     /\ Roots \subseteq S
                     /\ \A n \in S \ stops : Followed(n) \subseteq S}
    IN  {n \in Nodes : \A S \in Closed : n \in S}

HasJob(n) == View(n).status # "none"

(* Faulty variant: the walk goes on below a node whose job has an error.   *)
NodesToRunPastErrors ==
    {n \in Nodes : /\ ~HasJob(n)
                   /\ \/ n \in Roots
                      \/ \E p \in Nodes : /\ n \in Children(p)
                                          /\ View(p).status \in Terminal}

bfs_nodes_to_run == {n \in Visited({}) : ~HasJob(n)}

NoChildRuns(n) == \A c \in Children(n) : ~HasJob(c)

(* Faulty variant: the nodes that were not reached have to finish too.     *)
DoneWhenAllRan == \A n \in templates : View(n).status \in Terminal

is_workflow_done ==
    \A n \in Visited(Nodes \ templates) \cap templates :
        View(n).status \in Terminal

(* Faulty variant: only the leaves of the tree can fail the workflow.      *)
FailedAtLeaf ==
    \E n \in Visited(Nodes \ templates) :
        \/ n \notin templates
        \/ View(n).status # "successful" /\ Children(n) = {}

(* The second result of is_workflow_done, when the first one is true.      *)
has_failed ==
    \E n \in Visited(Nodes \ templates) :
        \/ n \notin templates
        \/ View(n).status # "successful" /\ NoChildRuns(n)

----------------------------------------------------------------------------
(* The pass.                                                               *)

(* get_tasks and get_running_workflow_jobs; before them the reaper fails   *)
(* the jobs that no worker is executing.  (_schedule does nothing when     *)
(* there are no tasks; no workflow job is running then either.)            *)
Lost(n) ==
    /\ row[n].status \in Active
    /\ \/ worker[n] = "none"
       \/ worker[n] = "queued" /\ "slow_queue" \in Env

Schedule(reaped) ==
    /\ phase = "idle"
    /\ phase' = "finish"
    /\ tx' = [n \in reaped |-> [row[n] EXCEPT !.status = "failed"]]
    /\ pending' = {t \in Tasks : row[t].status = "pending"}
    /\ running_workflow_jobs' = {r \in {row[Workflow]} : r.status = "running"}
    /\ UNCHANGED users

(* UnifiedJob.cancel.                                                      *)
CanCancel(r) == r.status \in Unfinished
Cancelled(r) ==
    Row(IF r.status \in {"pending", "waiting"} /\ ~r.cancel_flag
        THEN "canceled" ELSE r.status, TRUE)

(* Faulty variant: only jobs that have not started are canceled.           *)
CancelQueuedJobs ==
    [n \in {m \in Nodes : View(m).status \in {"pending", "waiting"}} |->
        Cancelled(View(n))]

cancel_node_jobs ==
    [n \in {m \in Nodes : CanCancel(View(m))} |-> Cancelled(View(n))]

(* process_finished_workflow_jobs.  The workflow row is saved as it was    *)
(* read, with a new status.                                                *)
Ended(r, status) == [t \in {Workflow} |-> [r EXCEPT !.status = status]]

ProcessFinished ==
    /\ phase = "finish" /\ phase' = "spawn"
    /\ \/ running_workflow_jobs = {} /\ UNCHANGED tx
       \/ \E r \in running_workflow_jobs :
             \/ /\ r.cancel_flag
                /\ LET jobs == cancel_node_jobs
                       written == Ended(r, "canceled")
                   IN  tx' = Override([t \in DOMAIN jobs \cup {Workflow} |->
                                         IF t = Workflow THEN written[t] ELSE jobs[t]])
             \/ ~r.cancel_flag /\ ~is_workflow_done /\ UNCHANGED tx
             \/ /\ ~r.cancel_flag /\ is_workflow_done
                /\ tx' = Override(Ended(r, IF has_failed THEN "failed"
                                           ELSE "successful"))
    /\ UNCHANGED <<users, pending, running_workflow_jobs>>

(* Faulty variant: a null template is not tested for.                      *)
SpawnedWithoutTemplate ==
    [n \in bfs_nodes_to_run |->
        Row(IF n \in Unstartable THEN "failed" ELSE "pending", FALSE)]

(* spawn_workflow_graph_jobs goes over the same list of workflow jobs,     *)
(* with the rows of the nodes read again.                                  *)
Spawned ==
    [n \in bfs_nodes_to_run \cap templates |->
        Row(IF n \in Unstartable THEN "failed" ELSE "pending", FALSE)]

SpawnJobs ==
    /\ phase = "spawn" /\ phase' = "start"
    /\ tx' = IF running_workflow_jobs = {} THEN tx ELSE Override(Spawned)
    /\ UNCHANGED <<users, pending, running_workflow_jobs>>

(* process_tasks visits the pending tasks of the first read; start_task    *)
(* saves all columns of the objects that were read then.                   *)
ProcessTasks(started) ==
    /\ phase = "start" /\ phase' = "commit"
    /\ tx' = Override([t \in started |->
                         Row(IF t = Workflow THEN "running" ELSE "waiting", FALSE)])
    /\ UNCHANGED <<users, pending, running_workflow_jobs>>

Submitted == {n \in DOMAIN tx \ {Workflow} : tx[n].status = "waiting"}

Commit ==
    /\ phase = "commit" /\ phase' = "idle"
    /\ row' = [t \in Tasks |-> View(t)]
    /\ worker' = [n \in Nodes |-> IF n \in Submitted THEN "queued" ELSE worker[n]]
    /\ tx' = <<>> /\ pending' = {} /\ running_workflow_jobs' = {}
    /\ UNCHANGED templates

PassStep ==
    \/ ProcessFinished \/ SpawnJobs \/ Commit
    \/ \E started \in SUBSET pending : ProcessTasks(started)

----------------------------------------------------------------------------
(* Workers.                                                                *)
JobStarts(n) ==
    /\ worker[n] = "queued" /\ Unlocked(n)
    /\ row' = [row EXCEPT ![n].status = "running"]
    /\ worker' = [worker EXCEPT ![n] = IF row[n].cancel_flag
                                       THEN "stopping" ELSE "playbook"]
    /\ UNCHANGED <<templates, locals>>

(* Faulty variant: cancel_flag is not looked at again after the run.       *)
JobEndsAnyway(n, outcome) ==
    /\ worker[n] \in {"stopping", "playbook"}
    /\ worker' = [worker EXCEPT ![n] =
                    IF worker[n] = "stopping" THEN "canceled" ELSE outcome]
    /\ UNCHANGED <<row, templates, locals>>

(* The run is over, and the row is read once more for its cancel_flag.     *)
JobEnds(n, outcome) ==
    /\ worker[n] \in {"stopping", "playbook"}
    /\ worker' = [worker EXCEPT ![n] =
                    IF worker[n] = "stopping" \/ row[n].cancel_flag
                    THEN "canceled" ELSE outcome]
    /\ UNCHANGED <<row, templates, locals>>

(* The final status is written by another transaction; a cancel that came  *)
(* in between is not seen.                                                 *)
JobFinishes(n) ==
    /\ worker[n] \in Terminal /\ Unlocked(n)
    /\ row' = [row EXCEPT ![n].status = worker[n]]
    /\ worker' = [worker EXCEPT ![n] = "none"]
    /\ UNCHANGED <<templates, locals>>

WorkerCrash(n) ==
    /\ "worker_crash" \in Env
    /\ worker[n] \in {"stopping", "playbook"} \cup Terminal
    /\ worker' = [worker EXCEPT ![n] = "none"]
    /\ UNCHANGED <<row, templates, locals>>

(* Users.                                                                  *)
Cancel(t) ==
    /\ (IF t = Workflow THEN "cancel_workflow" ELSE "cancel_job") \in Env
    /\ CanCancel(row[t]) /\ ~row[t].cancel_flag /\ Unlocked(t)
    /\ row' = [row EXCEPT ![t] = Cancelled(row[t])]
    /\ UNCHANGED <<templates, worker, locals>>

(* A template with an active job cannot be deleted, nor one that a job     *)
(* inserted by the open transaction refers to; the deletion sets the       *)
(* node's foreign key to null.                                             *)
DeleteTemplate(n) ==
    /\ "delete_template" \in Env
    /\ n \in templates /\ row[n].status \notin Unfinished /\ Unlocked(n)
    /\ templates' = templates \ {n}
    /\ UNCHANGED <<row, worker, locals>>

Next ==
    \/ \E reaped \in SUBSET {n \in Nodes : Lost(n)} : Schedule(reaped)
    \/ PassStep
    \/ \E n \in Nodes : \/ JobStarts(n) \/ JobFinishes(n) \/ WorkerCrash(n)
                        \/ \E outcome \in Outcomes : JobEnds(n, outcome)
                        \/ DeleteTemplate(n)
    \/ \E t \in Tasks : Cancel(t)

Spec == Init /\ [][Next]_vars

----------------------------------------------------------------------------
(* Fairness: schedule() runs every 30 seconds and its pass ends; a task    *)
(* that stays pending is started sooner or later (TaskManager's            *)
(* PendingIsServed); workers take their messages and playbooks end; and    *)
(* the reaper hears of every worker again and again.                       *)
LostJobs == {n \in Nodes : Lost(n)}
WorkerStep ==
    \E n \in Nodes : \/ JobStarts(n) \/ JobFinishes(n)
                     \/ \E outcome \in Outcomes : JobEnds(n, outcome)
Fairness ==
    /\ WF_vars((\E reaped \in SUBSET LostJobs : Schedule(reaped)) \/ PassStep)
    /\ SF_vars(LostJobs # {} /\ Schedule(LostJobs))
    /\ SF_vars(pending # {} /\ ProcessTasks(pending))
    /\ WF_vars(WorkerStep)

FairSpec == Spec /\ Fairness

----------------------------------------------------------------------------
(* Properties.                                                             *)

(* The engine implements the promise of WorkflowRun: the committed rows,   *)
(* read as fates of nodes, follow the selected edges only, and the end of  *)
(* the workflow job comes when nothing is left to do, with the verdict of  *)
(* docs/workflow.md.                                                       *)
Fate(n) ==
    CASE row[n].status = "none" -> "idle"
      [] row[n].status \in Unfinished -> "started"
      [] OTHER -> row[n].status
Verdict == IF row[Workflow].status \in Terminal THEN row[Workflow].status
           ELSE "running"
Run == INSTANCE WorkflowRun WITH fate <- [n \in Nodes |-> Fate(n)],
                                 verdict <- Verdict
ImplementsRun == Run!Spec

(* A node has a job only if the job of its parent ended in a way that      *)
(* selects it, whatever is canceled on the way: "a subtree of execution    *)
(* will never start if its root node is successfully canceled".            *)
RightPath ==
    \A n \in Nodes \ Roots :
        row[n].status # "none" =>
            \E p \in Nodes :
                \/ n \in SuccessNodes[p] /\ row[p].status = "successful"
                \/ n \in FailureNodes[p] /\ row[p].status = "failed"
                \/ n \in AlwaysNodes[p] /\ row[p].status \in {"successful", "failed"}

(* When a workflow job becomes canceled, every job that is still running   *)
(* has been told to stop: the flag is set by the same commit.              *)
RunningJobsAreStopped ==
    [][(row[Workflow].status = "running" /\ row'[Workflow].status = "canceled")
         => \A n \in Nodes : row'[n].status = "running" => row'[n].cancel_flag]_vars

(* A job that is told to stop while its playbook runs ends as canceled,    *)
(* not with the outcome of the playbook.  (When the flag comes after run   *)
(* has looked at it for the last time, the outcome is what is written.)    *)
StoppedJobsEndCanceled ==
    \A n \in Nodes :
        (/\ row[n].status = "running" /\ row[n].cancel_flag
         /\ worker[n] \in {"stopping", "playbook"})
            ~> row[n].status = "canceled"

(* A node whose template has been deleted gets no job, whenever the        *)
(* deletion falls: "the branch should stop executing in this case".        *)
NoJobWithoutTemplate ==
    [][\A n \in Nodes : (row[n].status = "none" /\ row'[n].status # "none")
                            => n \in templates]_vars

(* Every workflow job that runs comes to an end.                           *)
WorkflowFinishes ==
    row[Workflow].status = "running" ~> row[Workflow].status \in Terminal

(* "and following paths stop executing": canceling a workflow job starts   *)
(* no further node.                                                        *)
CancelStopsPaths ==
    [][row'[Workflow].status = "canceled"
         => \A n \in Nodes : row[n].status = "none" => row'[n].status = "none"]_vars
=============================================================================
