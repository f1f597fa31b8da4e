-------------------------- MODULE DependencyGraph --------------------------
(***************************************************************************)
(* The blocking rules of the scheduler, awx/main/scheduler/                *)
(* dependency_graph.py.  A DependencyGraph object keeps one dictionary per *)
(* table, whose only value is False: a key that is present says that a     *)
(* running task holds that resource.  Here the whole object is the set of  *)
(* its <<table, key>> pairs, and every task is described by the functions  *)
(* below, the foreign keys that the graph reads.                           *)
(***************************************************************************)
CONSTANTS
    Tasks,              \* rows of main_unifiedjob that may come to exist
    Kind,               \* [Tasks -> Kinds], the model class
    Project,            \* project_id of a Job or a ProjectUpdate
    Inventory,          \* inventory_id of a Job, an AdHocCommand, or of an
                        \* InventoryUpdate's inventory_source
    Source,             \* inventory_source_id of an InventoryUpdate
    Template,           \* job_template_id or workflow_job_template_id
    AllowSimultaneous   \* the tasks with allow_simultaneous set

Kinds == {"job", "project_update", "inventory_update", "system_job",
          "ad_hoc_command", "workflow_job"}

ASSUME KindAssumption == Kind \in [Tasks -> Kinds]
ASSUME SimultaneousAssumption == AllowSimultaneous \subseteq Tasks

IsA(t, kind) == Kind[t] = kind

----------------------------------------------------------------------------
(* add_job: the keys that a started or running task marks as taken.        *)
MarksOf(t) ==
    CASE IsA(t, "project_update") -> {<<"project_updates", Project[t]>>}
      [] IsA(t, "inventory_update") ->
            {<<"inventory_updates", Inventory[t]>>,
             <<"inventory_source_updates", Source[t]>>}
      [] IsA(t, "job") ->
            {<<"job_inventory_ids", Inventory[t]>>,
             <<"job_project_ids", Project[t]>>,
             <<"job_template_jobs", Template[t]>>}
      [] IsA(t, "workflow_job") ->
            {<<"workflow_job_template_jobs", Template[t]>>}
      [] IsA(t, "system_job") -> {<<"system_job", "system_job">>}
      [] IsA(t, "ad_hoc_command") -> {<<"inventory_updates", Inventory[t]>>}

(* The can_*_run tests: the keys whose presence blocks a task.  A Job that *)
(* allows simultaneous runs does not look at its template's key.           *)
BlockersOf(t) ==
    CASE IsA(t, "project_update") ->
            {<<"job_project_ids", Project[t]>>,
             <<"project_updates", Project[t]>>}
      [] IsA(t, "inventory_update") ->
            {<<"job_inventory_ids", Inventory[t]>>,
             <<"inventory_source_updates", Source[t]>>}
      [] IsA(t, "job") ->
            {<<"project_updates", Project[t]>>,
             <<"inventory_updates", Inventory[t]>>}
            \cup {k \in {<<"job_template_jobs", Template[t]>>} :
                    t \notin AllowSimultaneous}
      [] IsA(t, "workflow_job") ->
            {k \in {<<"workflow_job_template_jobs", Template[t]>>} :
                    t \notin AllowSimultaneous}
      [] IsA(t, "system_job") -> {<<"system_job", "system_job">>}
      [] IsA(t, "ad_hoc_command") -> {<<"inventory_updates", Inventory[t]>>}

(* Faulty variant: a test that overlooks one of the tables.                *)
IsJobBlockedIgnoringInventoryUpdates(data, t) ==
    (BlockersOf(t) \ {<<"inventory_updates", Inventory[t]>>}) \cap data # {}

IsJobBlocked(data, t) == BlockersOf(t) \cap data # {}

(* Faulty variant: a started job does not hold its project.                *)
AddJobForgettingProject(data, t) ==
    data \cup (MarksOf(t) \ {<<"job_project_ids", Project[t]>>})

AddJob(data, t) == data \cup MarksOf(t)

----------------------------------------------------------------------------
(* The mutual exclusion that docs/task_manager_system.md promises, stated  *)
(* on pairs of tasks and independently of the tables above.                *)
SameProject(a, b) == Project[a] = Project[b]
SameInventory(a, b) == Inventory[a] = Inventory[b]

JobXorUpdate(a, b) ==
    /\ IsA(a, "job")
    /\ \/ IsA(b, "project_update") /\ SameProject(a, b)
       \/ IsA(b, "inventory_update") /\ SameInventory(a, b)

OneOfAKind(a, b) ==
    \/ IsA(a, "project_update") /\ IsA(b, "project_update") /\ SameProject(a, b)
    \/ /\ IsA(a, "inventory_update") /\ IsA(b, "inventory_update")
       /\ Source[a] = Source[b]
    \/ IsA(a, "system_job") /\ IsA(b, "system_job")
    \/ /\ IsA(a, "job") /\ IsA(b, "job") /\ Template[a] = Template[b]
       /\ {a, b} \cap AllowSimultaneous = {}

(* Two different tasks that the rules forbid to run at the same time.      *)
Conflict(a, b) ==
    a # b /\ (OneOfAKind(a, b) \/ JobXorUpdate(a, b) \/ JobXorUpdate(b, a))
=============================================================================
