---------------------------- MODULE TaskManager ----------------------------
(***************************************************************************)
(* The task manager of awx/main/scheduler/task_manager.py together with    *)
(* the actors that read and write the same unified-job rows: the API       *)
(* (launch, cancel), the celery workers (BaseTask.run) and the error       *)
(* callback handle_work_error.                                             *)
(*                                                                         *)
(* One scheduling pass is TaskManager.schedule(): it takes the advisory    *)
(* lock, opens a transaction, reads the tasks once, and then visits the    *)
(* pending ones in order of creation.  Nothing it writes is visible before *)
(* the transaction commits, and other processes keep running in between,   *)
(* so the pass is several steps here: its writes are buffered in tx, and   *)
(* its later reads see the table with those writes on top (View).          *)
(***************************************************************************)
EXTENDS DependencyGraph, Integers, FiniteSets, Sequences, FiniteSetsExt

CONSTANTS
    Manual,             \* tasks that users launch; the other rows are
                        \* left for the updates that the pass creates
    Unstartable,        \* tasks whose pre_start check fails
    Outcomes,           \* results a playbook run may have
    Impact,             \* [Tasks -> Nat], task_impact
    Preferred,          \* [Tasks -> Seq(Groups)], preferred_instance_groups
    Groups, Instances,
    Members,            \* [Groups -> SUBSET Instances]
    Controller,         \* [Groups -> Groups \cup {NoGroup}], the controlling
                        \* group of an isolated instance group
    Capacity,           \* [Instances -> Nat], 0 when the instance is down
    Enabled,            \* the instances whose enabled flag is set
    HostOrder,          \* [Instances -> Nat], order of the hostnames
    UpdateOnLaunch,     \* projects with scm_update_on_launch
    Sources,            \* inventory sources
    SourceInventory,    \* [Sources -> inventories]
    LaunchSources,      \* sources that start with update_on_launch set
    AlreadyUpdated,     \* pairs of a job and a source that the callback
                        \* which launched the job has updated for it
    Env,                \* which environment events may happen
    NoGroup, NoInstance, NoTask

Terminal == {"successful", "failed", "error", "canceled"}
Active == {"waiting", "running"}
Unfinished == {"pending", "waiting", "running"}
Statuses == {"none"} \cup Unfinished \cup Terminal
Faults == {"cancel", "worker_crash", "scheduler_crash", "dispatch_crash",
           "slow_queue", "edit_sources"}

ASSUME TaskAssumption ==
    /\ IsFiniteSet(Tasks) /\ Manual \subseteq Tasks /\ Unstartable \subseteq Tasks
    /\ NoTask \notin Tasks
ASSUME PlacementAssumption ==
    /\ NoGroup \notin Groups /\ NoInstance \notin Instances
    /\ Members \in [Groups -> SUBSET Instances]
    /\ Controller \in [Groups -> Groups \cup {NoGroup}]
    /\ Preferred \in [Tasks -> Seq(Groups)]
    /\ Impact \in [Tasks -> Nat] /\ Capacity \in [Instances -> Nat]
    /\ HostOrder \in [Instances -> Nat] /\ Enabled \subseteq Instances
ASSUME EnvironmentAssumption ==
    /\ Outcomes \subseteq Terminal \ {"canceled"}
    /\ Env \subseteq Faults
    /\ LaunchSources \subseteq Sources

VARIABLES
    row,            \* the committed rows of the unified-job table
    dependent_jobs, \* committed links of the symmetrical dependent_jobs field
    launch_sources, \* sources whose update_on_launch is set now
    worker,         \* what celery does with the task of each row
    errors,         \* tasks whose error callback has not run yet
    phase,          \* "idle", "pass" or "dispatch"
    tx,             \* rows written by the pass and not committed
    links,          \* dependent_jobs links added by the pass
    all_inventory_sources,
    running_tasks,
    pending_tasks,  \* pending tasks of the snapshot that are still to visit
    current,        \* the pending task being visited
    dependencies,   \* its dependency_tasks, as they were read
    unvisited,      \* the dependencies that are still to visit
    graph,          \* the DependencyGraph of every instance group
    charged,        \* the tasks whose impact each group has consumed
    running_workflow_templates

tables == <<row, dependent_jobs, launch_sources>>
celery == <<worker, errors>>
visit == <<current, dependencies, unvisited>>
pass == <<phase, tx, links, all_inventory_sources, running_tasks,
          pending_tasks, visit, graph, charged, running_workflow_templates>>
vars == <<tables, celery, pass>>

(* A row: status and cancel_flag, where the task was placed, its creation  *)
(* time, and fail_chain, the subtasks bound into its error callback.       *)
Rows == [status : Statuses, cancel_flag : BOOLEAN,
         instance_group : Groups \cup {NoGroup},
         execution_node : Instances \cup {NoInstance},
         created : Int, fail_chain : SUBSET Tasks]

NewRow == [status |-> "none", cancel_flag |-> FALSE,
           instance_group |-> NoGroup, execution_node |-> NoInstance,
           created |-> 0, fail_chain |-> {}]

NoRows == [t \in {} |-> NewRow]

(* What the transaction of the pass reads; everyone else reads row.        *)
View(t) == IF t \in DOMAIN tx THEN tx[t] ELSE row[t]
ViewLinks == dependent_jobs \cup links

(* A row the pass has written stays locked until the commit.               *)
Unlocked(t) == t \notin DOMAIN tx

Write(t, r) == [u \in DOMAIN tx \cup {t} |-> IF u = t THEN r ELSE tx[u]]

DependentJobs(t, relation) == {d \in Tasks : <<t, d>> \in relation}

Init ==
    /\ row = [t \in Tasks |-> NewRow]
    /\ dependent_jobs = {} /\ launch_sources = LaunchSources
    /\ worker = [t \in Tasks |-> "none"] /\ errors = {}
    /\ phase = "idle" /\ tx = NoRows /\ links = {}
    /\ all_inventory_sources = {} /\ running_tasks = {} /\ pending_tasks = {}
    /\ current = NoTask /\ dependencies = NoRows /\ unvisited = {}
    /\ graph = [g \in Groups |-> {}] /\ charged = [g \in Groups |-> {}]
    /\ running_workflow_templates = {}

----------------------------------------------------------------------------
(* Capacity.  A group's consumption is kept by the pass as the set of      *)
(* tasks charged to it; an instance's is read from the table every time.   *)
TotalImpact(S) == MapThenSumSet(LAMBDA t : Impact[t], S)

GroupCapacity(g) == MapThenSumSet(LAMBDA i : Capacity[i], Members[g])
RemainingCapacity(g) == GroupCapacity(g) - TotalImpact(charged[g])

OnInstance(i) ==
    {t \in Tasks : View(t).status \in Active /\ View(t).execution_node = i}
InstanceRemaining(i) == Capacity[i] - TotalImpact(OnInstance(i))

Online(g) == {i \in Members[g] : Capacity[i] > 0}

(* capacity_mapping: the groups that contain a given online instance, and  *)
(* the groups that share an online instance with a given group.            *)
GroupsOf(i) == {g \in Groups : i \in Online(g)}
PeersOf(g) == {g} \cup {h \in Groups : Online(g) \cap Online(h) # {}}

(* capacity_values: the groups a task read in row r is charged to.         *)
ImpactedGroups(r) ==
    LET own == {r.instance_group} \ {NoGroup}
    IN  IF r.status = "waiting" \/ r.execution_node = NoInstance
        THEN UNION {PeersOf(g) : g \in own}
        ELSE IF GroupsOf(r.execution_node) = {} THEN own
        ELSE GroupsOf(r.execution_node)

(* fit_task_to_most_remaining_capacity_instance returns i.                 *)
Fits(t, g) == {i \in Online(g) \cap Enabled : InstanceRemaining(i) >= Impact[t]}
BestFit(t, g, i) ==
    /\ i \in Fits(t, g)
    /\ \A j \in Fits(t, g) \ {i} :
          \/ InstanceRemaining(j) < InstanceRemaining(i)
          \/ /\ InstanceRemaining(j) = InstanceRemaining(i)
             /\ HostOrder[i] < HostOrder[j]

(* Faulty variant: an instance with tasks that only wait counts as idle.   *)
IdleButWaiting(g) ==
    {i \in Online(g) : \A t \in OnInstance(i) : View(t).status = "waiting"}

(* find_largest_idle_instance returns i.                                   *)
Idle(g) == {i \in Online(g) : OnInstance(i) = {}}
LargestIdle(g, i) ==
    /\ i \in Idle(g)
    /\ \A j \in Idle(g) \ {i} :
          \/ Capacity[j] < Capacity[i]
          \/ Capacity[j] = Capacity[i] /\ HostOrder[i] < HostOrder[j]

(* Faulty variant: a task that fits nowhere is not given an idle instance. *)
NeverIdle(t, k, i) == FALSE

(* idle_instance_that_fits when the loop over the preferred groups reaches *)
(* the k-th: the first idle instance found, which later groups keep.       *)
IdleThatFits(t, k, i) ==
    \E j \in 1..k : /\ LargestIdle(Preferred[t][j], i)
                    /\ \A l \in 1..(j - 1) : Idle(Preferred[t][l]) = {}

Accepts(t, k, i) ==
    LET g == Preferred[t][k]
    IN  /\ RemainingCapacity(g) > 0
        /\ \/ BestFit(t, g, i)
           \/ Fits(t, g) = {} /\ IdleThatFits(t, k, i)

(* The loop stops at the k-th preferred group with instance i.             *)
Chosen(t, k, i) ==
    /\ Accepts(t, k, i)
    /\ \A l \in 1..(k - 1), j \in Instances : ~Accepts(t, l, j)

----------------------------------------------------------------------------
(* Faulty variant: a dependency that has not been submitted is overlooked. *)
DependentJobsNotActive(t) ==
    IsA(t, "job") =>
        \A d \in DependentJobs(t, ViewLinks) : View(d).status \notin Active

(* Blocking, TaskManager.is_job_blocked.                                   *)
DependentJobsFinished(t) ==
    IsA(t, "job") =>
        \A d \in DependentJobs(t, ViewLinks) : View(d).status \notin Unfinished

Blocked(t) ==
    \/ \E g \in Groups : IsJobBlocked(graph[g], t)
    \/ ~DependentJobsFinished(t)

(* get_jobs_fail_chain.  A Job's chain is the project sync that it runs    *)
(* itself, which has no row here; an update's are all its dependents.      *)
FailChain(t, relation) ==
    IF Kind[t] \in {"project_update", "inventory_update"}
    THEN DependentJobs(t, relation) ELSE {}

(* The object of a pending task was read by get_tasks, when nothing but    *)
(* its creation had been written.                                          *)
InMemory(t) ==
    [NewRow EXCEPT !.status = "pending", !.created = View(t).created]

SupportsIsolation(t) == Kind[t] \in {"job", "ad_hoc_command"}

(* Faulty variant: every task runs where it was scheduled.                 *)
PlacementsInGroup(t, g, i) == {<<g, i>>}

Placements(t, g, i) ==
    IF Controller[g] # NoGroup /\ ~SupportsIsolation(t)
    THEN {Controller[g]} \X Members[Controller[g]]
    ELSE {<<g, i>>}

NoOnlineController(t, g) ==
    /\ SupportsIsolation(t) /\ Controller[g] # NoGroup
    /\ Online(Controller[g]) = {}

(* start_task for everything but a workflow job.  The save writes every    *)
(* column of the row from the object that was read earlier.                *)
StartTask(t, read, g, i, chain) ==
    \/ NoOnlineController(t, g) /\ UNCHANGED <<tx, charged>>
    \/ /\ ~NoOnlineController(t, g) /\ t \in Unstartable
       /\ tx' = Write(t, [read EXCEPT !.status = "failed"])
       /\ UNCHANGED charged
    \/ /\ ~NoOnlineController(t, g) /\ t \notin Unstartable
       /\ \E place \in Placements(t, g, i) :
             tx' = Write(t, [read EXCEPT !.status = "waiting",
                                         !.instance_group = place[1],
                                         !.execution_node = place[2],
                                         !.fail_chain = chain])
       /\ charged' = [charged EXCEPT ![g] = @ \cup {t}]

(* Faulty variant: a started task is not added to the graph.               *)
TryStartUnmarked(t, read, chain) ==
    /\ UNCHANGED graph
    /\ \/ /\ \A k \in DOMAIN Preferred[t], i \in Instances : ~Chosen(t, k, i)
          /\ UNCHANGED <<tx, charged>>
       \/ \E k \in DOMAIN Preferred[t], i \in Instances :
             Chosen(t, k, i) /\ StartTask(t, read, Preferred[t][k], i, chain)

(* The loop over the preferred instance groups.                            *)
TryStart(t, read, chain) ==
    \/ /\ \A k \in DOMAIN Preferred[t], i \in Instances : ~Chosen(t, k, i)
       /\ UNCHANGED <<tx, graph, charged>>
    \/ \E k \in DOMAIN Preferred[t], i \in Instances :
          LET g == Preferred[t][k]
          IN  /\ Chosen(t, k, i)
              /\ graph' = [graph EXCEPT ![g] = AddJob(@, t)]
              /\ StartTask(t, read, g, i, chain)

----------------------------------------------------------------------------
(* The API.                                                                *)

(* A user launches a task: create_unified_job and signal_start run in one  *)
(* request.  Creation times are spaced so that a dependency, created one   *)
(* or two seconds before its job, sorts before it.                         *)
Launched == {t \in Manual : row[t].status # "none"}

Launch(t) ==
    /\ t \in Manual /\ row[t].status = "none"
    /\ row' = [row EXCEPT ![t].status = "pending",
                          ![t].created = 3 * (Cardinality(Launched) + 1)]
    /\ UNCHANGED <<dependent_jobs, launch_sources, celery, pass>>

(* Faulty variant: cancel writes a status that nobody else knows.          *)
CancelledMisspelt(r) ==
    [r EXCEPT !.cancel_flag = TRUE,
              !.status = IF @ \in {"pending", "waiting"} THEN "cancelled" ELSE @]

(* UnifiedJob.cancel: the chain first, then the task itself.               *)
Cancelled(r) ==
    [r EXCEPT !.cancel_flag = TRUE,
              !.status = IF @ \in {"pending", "waiting"} THEN "canceled" ELSE @]

Cancel(t) ==
    LET cancels == {u \in {t} \cup FailChain(t, dependent_jobs) :
                        row[u].status \in Unfinished /\ ~row[u].cancel_flag}
    IN  /\ "cancel" \in Env
        /\ row[t].status \in Unfinished
        /\ cancels # {} /\ \A u \in cancels : Unlocked(u)
        /\ row' = [u \in Tasks |->
                      IF u \in cancels THEN Cancelled(row[u]) ELSE row[u]]
        /\ UNCHANGED <<dependent_jobs, launch_sources, celery, pass>>

(* A user turns update_on_launch on for an inventory source.               *)
EnableUpdateOnLaunch(s) ==
    /\ "edit_sources" \in Env /\ s \notin launch_sources
    /\ launch_sources' = launch_sources \cup {s}
    /\ UNCHANGED <<row, dependent_jobs, celery, pass>>

----------------------------------------------------------------------------
(* The celery workers, BaseTask.run.                                       *)

(* The first thing the task does is to write status running, whatever the  *)
(* row says; then a set cancel_flag keeps it from starting the playbook.   *)
WorkerStart(t) ==
    /\ worker[t] = "queued" /\ Unlocked(t)
    /\ row' = [row EXCEPT ![t].status = "running"]
    /\ worker' = [worker EXCEPT ![t] = IF row[t].cancel_flag
                                       THEN "stopping" ELSE "playbook"]
    /\ UNCHANGED <<dependent_jobs, launch_sources, errors, pass>>

(* The final status; anything but success makes celery call the task's     *)
(* link_error, handle_work_error.  A cancel that has come is seen or not:  *)
(* the flag is read in a transaction before the one that writes.           *)
FinalStatuses(t, outcome) ==
    IF worker[t] = "stopping" THEN {"canceled"}
    ELSE {outcome} \cup {s \in {"canceled"} : row[t].cancel_flag}

WorkerFinish(t, outcome) ==
    /\ worker[t] \in {"stopping", "playbook"} /\ Unlocked(t)
    /\ \E final \in FinalStatuses(t, outcome) :
          /\ row' = [row EXCEPT ![t].status = final]
          /\ errors' = IF final = "successful" THEN errors ELSE errors \cup {t}
    /\ worker' = [worker EXCEPT ![t] = "none"]
    /\ UNCHANGED <<dependent_jobs, launch_sources, pass>>

WorkerCrash(t) ==
    /\ "worker_crash" \in Env
    /\ worker[t] \in {"stopping", "playbook"}
    /\ worker' = [worker EXCEPT ![t] = "none"]
    /\ UNCHANGED <<tables, errors, pass>>

(* Every subtask but the failed task itself is marked failed, whatever its *)
(* status, unless it is being canceled.                                    *)
HandleWorkError(t) ==
    LET subtasks == {u \in row[t].fail_chain \ {t} : ~row[u].cancel_flag}
    IN  /\ t \in errors /\ \A u \in subtasks : Unlocked(u)
        /\ row' = [u \in Tasks |->
                      IF u \in subtasks
                      THEN [row[u] EXCEPT !.status = "failed"] ELSE row[u]]
        /\ errors' = errors \ {t}
        /\ UNCHANGED <<dependent_jobs, launch_sources, worker, pass>>

----------------------------------------------------------------------------
(* The start of a pass.                                                    *)

(* Faulty variant: rows that are only waiting are not looked at.           *)
LostRunning(t) ==
    ~IsA(t, "workflow_job") /\ row[t].status = "running" /\ worker[t] = "none"

(* cleanup_inconsistent_celery_tasks looks at running rows, and at rows    *)
(* that have been waiting for a minute, whose celery task is not being     *)
(* executed.  A task that is only queued is not in inspect().active()      *)
(* either: "slow_queue" says that a message may stay queued that long.     *)
Lost(t) ==
    /\ ~IsA(t, "workflow_job")
    /\ row[t].status \in Active
    /\ \/ worker[t] = "none"
       \/ worker[t] = "queued" /\ "slow_queue" \in Env

(* fail_jobs_if_not_in_celery: the task of an isolated node gets "error".  *)
Isolated(i) == \E g \in Groups : Controller[g] # NoGroup /\ i \in Members[g]
Reaped(r) ==
    [r EXCEPT !.status = IF Isolated(r.execution_node) THEN "error" ELSE "failed"]

(* process_finished_workflow_jobs, with the verdict of the WorkflowDAG     *)
(* left open.                                                              *)
RunningWorkflows ==
    {t \in Tasks : IsA(t, "workflow_job") /\ row[t].status = "running"}
Verdicts == [RunningWorkflows -> {"running", "successful", "failed"}]
WorkflowStatus(t, verdict) ==
    IF row[t].cancel_flag THEN "canceled" ELSE verdict[t]

BeginPass(reaped, verdict) ==
    LET seen == [t \in Tasks |-> IF t \in reaped THEN Reaped(row[t]) ELSE row[t]]
        ended == {w \in RunningWorkflows : WorkflowStatus(w, verdict) # "running"}
        tasks == {t \in Tasks : seen[t].status \in Unfinished}
        running == {t \in tasks : seen[t].status \in Active}
    IN  /\ phase = "idle"
        /\ phase' = "pass"
        /\ tx' = [t \in reaped \cup ended |->
                    IF t \in reaped THEN seen[t]
                    ELSE [row[t] EXCEPT !.status = WorkflowStatus(t, verdict)]]
        /\ all_inventory_sources' =
              {s \in launch_sources :
                 \E t \in tasks : IsA(t, "job") /\ Inventory[t] = SourceInventory[s]}
        /\ running_tasks' = running
        /\ pending_tasks' = tasks \ running
        /\ graph' = [g \in Groups |->
                       UNION {MarksOf(t) :
                          t \in {u \in running : row[u].instance_group = g}}]
        /\ charged' = [g \in Groups |->
                         {t \in running : g \in ImpactedGroups(seen[t])}]
        /\ running_workflow_templates' =
              {Template[w] : w \in RunningWorkflows \ ended}
        /\ UNCHANGED <<tables, celery, links, visit>>

----------------------------------------------------------------------------
(* One pending task: generate_dependencies.                                *)

(* The updates of a resource, named by the key that its updates mark.      *)
ProjectKey(p) == <<"project_updates", p>>
SourceKey(s) == <<"inventory_source_updates", s>>
Existing(r) == {u \in Tasks : r \in MarksOf(u) /\ View(u).status # "none"}
Spare(r) == {u \in Tasks \ Manual : r \in MarksOf(u) /\ View(u).status = "none"}
Latest(r, u) ==
    u \in Existing(r) /\ \A v \in Existing(r) : View(v).created <= View(u).created

RequiredUpdates(t) ==
    IF ~IsA(t, "job") THEN {}
    ELSE {ProjectKey(p) : p \in UpdateOnLaunch \cap {Project[t]}}
         \cup {SourceKey(s) : s \in {x \in all_inventory_sources :
                                        /\ SourceInventory[x] = Inventory[t]
                                        /\ <<t, x>> \notin AlreadyUpdated}}

(* should_update_related_project and should_update_inventory_source.       *)
(* expired is the answer of the cache timeout, which is left open.         *)
NeedsUpdate(r, u, expired) ==
    IF u \in {v \in Tasks : IsA(v, "project_update")}
    THEN \/ View(u).status \in {"failed", "canceled"}
         \/ View(u).status \in {"successful", "error"} /\ r \in expired
    ELSE \/ View(u).status \in {"failed", "canceled", "error"}
         \/ View(u).status = "successful" /\ r \in expired

(* Faulty variant: dependencies are generated anew in every pass.          *)
ProcessedNever(t) == FALSE

AlreadyProcessed(t) == DependentJobs(t, ViewLinks) # {}

ToCreate(t, expired) ==
    {r \in RequiredUpdates(t) :
        /\ ~AlreadyProcessed(t)
        /\ \A u \in Existing(r) : Latest(r, u) => NeedsUpdate(r, u, expired)}

(* An update that is not created is looked up, and must exist.             *)
LatestMissing(t) ==
    AlreadyProcessed(t) /\ \E r \in RequiredUpdates(t) : Existing(r) = {}

ToJoin(t, created) ==
    {u \in Tasks : \E r \in RequiredUpdates(t) \ created :
        Latest(r, u) /\ View(u).status \in Unfinished}

(* Faulty variant: the pending tasks are not sorted by creation time.      *)
AnyPending(t) == t \in pending_tasks

Oldest(t) ==
    t \in pending_tasks /\ \A u \in pending_tasks : View(t).created <= View(u).created

(* create_project_update and create_inventory_update date the new row one  *)
(* and two seconds before the job.                                         *)
DependencyRow(t, u) ==
    [NewRow EXCEPT !.status = "pending",
                   !.created = View(t).created
                               - (IF IsA(u, "project_update") THEN 1 ELSE 2)]

(* capture_chain_failure_dependencies links the task and its dependencies  *)
(* pairwise; dependent_jobs is symmetrical.                                *)
Clique(S) == {pair \in S \X S : pair[1] # pair[2]}

GenerateDependencies(t, expired) ==
    LET create == ToCreate(t, expired)
        NewUpdate(r) == CHOOSE u \in Spare(r) : TRUE
        new == {NewUpdate(r) : r \in create}
        all == new \cup ToJoin(t, create)
    IN  /\ phase = "pass" /\ current = NoTask /\ Oldest(t)
        /\ ~LatestMissing(t)
        /\ \A r \in create : Spare(r) # {}
        /\ tx' = [u \in DOMAIN tx \cup new |->
                    IF u \in new THEN DependencyRow(t, u) ELSE tx[u]]
        /\ links' = IF all = {} THEN links ELSE links \cup Clique({t} \cup all)
        /\ current' = t
        /\ dependencies' =
              [u \in all |-> IF u \in new THEN DependencyRow(t, u) ELSE View(u)]
        /\ unvisited' = all
        /\ UNCHANGED <<tables, celery, phase, all_inventory_sources,
                       running_tasks, pending_tasks, graph, charged,
                       running_workflow_templates>>

(* process_dependencies, one dependency: the project update comes first.   *)
NextDependency(d) ==
    /\ d \in unvisited
    /\ IsA(d, "project_update") \/ \A u \in unvisited : ~IsA(u, "project_update")

ProcessDependency(d) ==
    /\ NextDependency(d)
    /\ IF Blocked(d) THEN UNCHANGED <<tx, graph, charged>>
       ELSE TryStart(d, dependencies[d], (DOMAIN dependencies \ {d}) \cup {current})
    /\ unvisited' = unvisited \ {d}
    /\ UNCHANGED <<tables, celery, phase, links, all_inventory_sources,
                   running_tasks, pending_tasks, current, dependencies,
                   running_workflow_templates>>

(* Faulty variant: a started workflow job's template is not remembered.    *)
StartWorkflowForgetting(t) ==
    /\ UNCHANGED running_workflow_templates
    /\ IF Template[t] \in running_workflow_templates /\ t \notin AllowSimultaneous
       THEN UNCHANGED tx
       ELSE tx' = Write(t, [InMemory(t) EXCEPT !.status = "running"])

(* The rest of the body of process_pending_tasks.  A workflow job takes no *)
(* capacity and goes straight to running.                                  *)
StartWorkflow(t) ==
    IF Template[t] \in running_workflow_templates /\ t \notin AllowSimultaneous
    THEN UNCHANGED <<tx, running_workflow_templates>>
    ELSE /\ tx' = Write(t, [InMemory(t) EXCEPT !.status =
                               IF t \in Unstartable THEN "failed" ELSE "running"])
         /\ running_workflow_templates' =
               running_workflow_templates \cup {Template[t]}

ProcessPending(t) ==
    /\ current = t /\ t # NoTask /\ unvisited = {}
    /\ \/ Blocked(t) /\ UNCHANGED <<tx, graph, charged, running_workflow_templates>>
       \/ /\ ~Blocked(t) /\ IsA(t, "workflow_job")
          /\ StartWorkflow(t)
          /\ UNCHANGED <<graph, charged>>
       \/ /\ ~Blocked(t) /\ ~IsA(t, "workflow_job")
          /\ TryStart(t, InMemory(t), FailChain(t, ViewLinks))
          /\ UNCHANGED running_workflow_templates
    /\ pending_tasks' = pending_tasks \ {t}
    /\ current' = NoTask /\ dependencies' = NoRows
    /\ UNCHANGED <<tables, celery, phase, links, all_inventory_sources,
                   running_tasks, unvisited>>

----------------------------------------------------------------------------
(* The end of a pass.                                                      *)
ForgetPass ==
    /\ tx' = NoRows /\ links' = {} /\ all_inventory_sources' = {}
    /\ running_tasks' = {} /\ pending_tasks' = {}
    /\ current' = NoTask /\ dependencies' = NoRows /\ unvisited' = {}
    /\ graph' = [g \in Groups |-> {}] /\ charged' = [g \in Groups |-> {}]
    /\ running_workflow_templates' = {}

Started == {t \in DOMAIN tx : tx[t].status = "waiting"}

Commit ==
    /\ phase = "pass" /\ pending_tasks = {} /\ current = NoTask
    /\ row' = [t \in Tasks |-> View(t)]
    /\ dependent_jobs' = ViewLinks
    /\ worker' = [t \in Tasks |-> IF t \in Started THEN "outbox" ELSE worker[t]]
    /\ phase' = IF Started = {} THEN "idle" ELSE "dispatch"
    /\ ForgetPass
    /\ UNCHANGED <<launch_sources, errors>>

(* An exception in the pass, or the death of its process, rolls back.      *)
PassFails ==
    /\ phase = "pass"
    /\ \/ "scheduler_crash" \in Env
       \/ current = NoTask /\ \E t \in Tasks : Oldest(t) /\ LatestMissing(t)
    /\ phase' = "idle"
    /\ ForgetPass
    /\ UNCHANGED <<tables, celery>>

(* The post_commit hooks hand the started tasks to celery one by one, the  *)
(* lock still held.  A task that is submitted again while its first run is *)
(* still going on is followed by its last submission only.                 *)
Outbox == {t \in Tasks : worker[t] = "outbox"}

Dispatch(t) ==
    /\ phase = "dispatch" /\ t \in Outbox
    /\ worker' = [worker EXCEPT ![t] = "queued"]
    /\ phase' = IF Outbox = {t} THEN "idle" ELSE "dispatch"
    /\ UNCHANGED <<tables, errors, tx, links, all_inventory_sources,
                   running_tasks, pending_tasks, visit, graph, charged,
                   running_workflow_templates>>

DispatchCrash ==
    /\ "dispatch_crash" \in Env /\ phase = "dispatch"
    /\ worker' = [t \in Tasks |-> IF t \in Outbox THEN "none" ELSE worker[t]]
    /\ phase' = "idle"
    /\ UNCHANGED <<tables, errors, tx, links, all_inventory_sources,
                   running_tasks, pending_tasks, visit, graph, charged,
                   running_workflow_templates>>

PassStep ==
    \/ \E t \in Tasks : \E expired \in SUBSET RequiredUpdates(t) :
          GenerateDependencies(t, expired)
    \/ \E t \in Tasks : ProcessDependency(t) \/ ProcessPending(t)
    \/ Commit
    \/ \E t \in Tasks : Dispatch(t)

Schedule ==
    \/ \E reaped \in SUBSET {t \in Tasks : Lost(t)}, verdict \in Verdicts :
          BeginPass(reaped, verdict)
    \/ PassStep
    \/ PassFails
    \/ DispatchCrash

Environment ==
    \/ \E t \in Tasks : Launch(t) \/ Cancel(t)
    \/ \E s \in Sources : EnableUpdateOnLaunch(s)
    \/ \E t \in Tasks : \/ WorkerStart(t)
                        \/ \E outcome \in Outcomes : WorkerFinish(t, outcome)
                        \/ WorkerCrash(t)
                        \/ HandleWorkError(t)

Next == Schedule \/ Environment

Spec == Init /\ [][Next]_vars

----------------------------------------------------------------------------
(* Fairness.  schedule() runs every 30 seconds (CELERYBEAT_SCHEDULE) and   *)
(* after every launch and completion; workers consume their queues, and a  *)
(* playbook ends because every run has a timeout or is canceled.  Weak     *)
(* fairness of the workers together is enough, since the tasks of an       *)
(* instance are finitely many and each worker step is taken once.  The     *)
(* reaper, which runs every AWX_INCONSISTENT_TASK_INTERVAL, sooner or      *)
(* later gets an answer from every node.                                   *)
BeginAny ==
    \E reaped \in SUBSET {t \in Tasks : Lost(t)}, verdict \in Verdicts :
        BeginPass(reaped, verdict)
BeginReaping ==
    \E verdict \in Verdicts :
        /\ \E t \in Tasks : Lost(t)
        /\ BeginPass({t \in Tasks : Lost(t)}, verdict)
WorkflowEnds ==
    \E verdict \in Verdicts :
        /\ \E w \in DOMAIN verdict : verdict[w] # "running"
        /\ BeginPass({}, verdict)
SchedulerStep == BeginAny \/ PassStep \/ (PassFails /\ "scheduler_crash" \notin Env)
WorkerStep ==
    \E t \in Tasks : \/ WorkerStart(t) \/ HandleWorkError(t)
                     \/ \E outcome \in Outcomes : WorkerFinish(t, outcome)

Fairness == /\ WF_vars(SchedulerStep) /\ WF_vars(WorkerStep)
            /\ SF_vars(BeginReaping) /\ SF_vars(WorkflowEnds)

FairSpec == Spec /\ Fairness

----------------------------------------------------------------------------
(* Properties.                                                             *)

(* Every variable stays in its type: rows, buffered rows, graphs and the   *)
(* local variables of a pass.                                              *)
Marks == UNION {MarksOf(t) : t \in Tasks}
TypeOK ==
    /\ row \in [Tasks -> Rows]
    /\ dependent_jobs \subseteq Tasks \X Tasks
    /\ launch_sources \subseteq Sources
    /\ worker \in [Tasks -> {"none", "outbox", "queued", "stopping", "playbook"}]
    /\ errors \subseteq Tasks
    /\ phase \in {"idle", "pass", "dispatch"}
    /\ DOMAIN tx \subseteq Tasks
    /\ tx \in [DOMAIN tx -> Rows]
    /\ links \subseteq Tasks \X Tasks
    /\ all_inventory_sources \subseteq Sources
    /\ running_tasks \subseteq Tasks /\ pending_tasks \subseteq Tasks
    /\ current \in Tasks \cup {NoTask}
    /\ DOMAIN dependencies \subseteq Tasks
    /\ dependencies \in [DOMAIN dependencies -> Rows]
    /\ unvisited \subseteq DOMAIN dependencies
    /\ graph \in [Groups -> SUBSET Marks]
    /\ charged \in [Groups -> SUBSET Tasks]
    /\ running_workflow_templates \subseteq {Template[t] : t \in Tasks}

(* What a pass starts never conflicts with anything that was active when   *)
(* the pass began, nor with anything else that it starts: the blocking     *)
(* rules survive the visiting order, dependencies and several groups.      *)
PassRespectsRules ==
    \A s \in Started, a \in running_tasks \cup Started : ~Conflict(a, s)

(* No two playbooks run at a time that docs/task_manager_system.md forbids *)
(* to run together: job xor update of its project or inventory, one update *)
(* per project or source, one job per template, one system job.            *)
Executing == {t \in Tasks : worker[t] = "playbook"}
MutualExclusion == \A a, b \in Executing : ~Conflict(a, b)

(* An instance is never given more impact than its capacity, but for the   *)
(* single task that an idle instance accepts; the random choice of a       *)
(* controller for a task that cannot be isolated is exempt.                *)
ControllerInstances ==
    UNION {Members[Controller[g]] : g \in {h \in Groups : Controller[h] # NoGroup}}
CapacityRespected ==
    \A i \in Instances \ ControllerInstances :
        \/ TotalImpact(OnInstance(i)) <= Capacity[i]
        \/ Cardinality(OnInstance(i)) = 1

(* A job's playbook never runs while an update that the job was made to    *)
(* wait for is still pending, waiting or running.                          *)
DependenciesFirst ==
    \A t \in Executing :
        IsA(t, "job") =>
            \A d \in DependentJobs(t, dependent_jobs) : row[d].status \notin Unfinished

(* Whatever the caches answer, update-on-launch creates at most one update *)
(* of a resource per launched job: it does not keep updating.              *)
UpdateKeys ==
    {ProjectKey(Project[u]) : u \in {v \in Tasks : IsA(v, "project_update")}}
    \cup {SourceKey(Source[u]) : u \in {v \in Tasks : IsA(v, "inventory_update")}}
UpdatesBounded ==
    \A r \in UpdateKeys :
        Cardinality(Existing(r) \ Manual)
            <= Cardinality({t \in Launched : IsA(t, "job")})

(* Jobs that ask for the same things start in the order they were created: *)
(* "groups of blocked tasks run in chronological order".                   *)
Alike(a, b) ==
    /\ IsA(a, "job") /\ IsA(b, "job")
    /\ Template[a] = Template[b] /\ Project[a] = Project[b]
    /\ Inventory[a] = Inventory[b] /\ Impact[a] = Impact[b]
    /\ Preferred[a] = Preferred[b]
    /\ a \in AllowSimultaneous <=> b \in AllowSimultaneous
    /\ {a, b} \cap Unstartable = {}
ChronologicalOrder ==
    \A a, b \in Tasks :
        (/\ Alike(a, b) /\ View(a).status = "pending"
         /\ View(a).created < View(b).created)
        => View(b).status \notin Active

(* At most one workflow job of a template runs, unless simultaneous runs   *)
(* are allowed.                                                            *)
OneWorkflowPerTemplate ==
    \A a, b \in Tasks \ AllowSimultaneous :
        (/\ a # b /\ IsA(a, "workflow_job") /\ IsA(b, "workflow_job")
         /\ Template[a] = Template[b] /\ View(a).status = "running")
        => View(b).status # "running"

(* A task that is not blocked for ever is served: whatever is launched     *)
(* leaves the pending status.                                              *)
PendingIsServed ==
    \A t \in Tasks : row[t].status = "pending" ~> row[t].status # "pending"

(* A task that was submitted finishes, even if the process that submitted  *)
(* it died before the message was sent or the worker died: the reaper      *)
(* clears it.                                                              *)
SubmittedFinishes ==
    \A t \in Tasks : row[t].status = "waiting" ~> row[t].status \in Terminal

(* A cancel request is never undone.                                       *)
CancelIsKept == [][\A t \in Tasks : row[t].cancel_flag => row'[t].cancel_flag]_vars

(* Only tasks that can be isolated are placed on an isolated node, which   *)
(* runs no celery worker; other tasks of such a group go to its controller.*)
IsolatedTasksOnly ==
    \A t \in Tasks :
        (View(t).status \in Active /\ Isolated(View(t).execution_node))
            => SupportsIsolation(t)
=============================================================================
