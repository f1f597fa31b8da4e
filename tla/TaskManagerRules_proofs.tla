------------------------ MODULE TaskManagerRules_proofs ------------------------
(***************************************************************************)
(* A pass of the task manager respects the blocking rules, for every table *)
(* of tasks and every interleaving with the API and the workers.           *)
(*                                                                         *)
(* The pass only looks at the marks of the graphs, so the argument is that *)
(* whatever is running or was started has left its marks in some group.    *)
(* For a running task this needs that its row names a group, and thus      *)
(* (Placed) that no row is ever written whose task is with celery and      *)
(* whose instance_group is missing.                                        *)
(*                                                                         *)
(* Workflow jobs are not held back by marks: at most one of a template     *)
(* runs.                                                                   *)
(*                                                                         *)
(* The last sections carry the rules over from what a pass sees to what    *)
(* the workers execute: as long as rows do not end before their playbooks, *)
(* no two playbooks that conflict run at the same time.                    *)
(***************************************************************************)
EXTENDS TaskManager_proofs

(* Facts about the tables of DependencyGraph, for every set of tasks.      *)
LEMMA ConflictSymmetric ==
  ASSUME NEW a, NEW b
  PROVE  Conflict(a, b) <=> Conflict(b, a)
  BY DEF Conflict, OneOfAKind, SameProject

LEMMA WorkflowsDoNotConflict ==
  ASSUME NEW a, NEW b, IsA(a, "workflow_job")
  PROVE  ~Conflict(a, b)
  BY DEF Conflict, OneOfAKind, JobXorUpdate, IsA

(* What the tables forbid beyond the rules of the document: a command      *)
(* waits for the commands and inventory updates of its inventory, and a    *)
(* job for the commands (but neither an update nor a command for what is   *)
(* not in its tables: a command may follow a job, an update a command); a  *)
(* workflow job or job that does not allow simultaneous runs waits for     *)
(* those of its template, even for a job that allows them.                 *)
AlsoBlocks(a, s) ==
    \/ /\ IsA(a, "ad_hoc_command") /\ Kind[s] \in {"job", "ad_hoc_command"}
       /\ SameInventory(a, s)
    \/ /\ IsA(a, "inventory_update") /\ IsA(s, "ad_hoc_command")
       /\ SameInventory(a, s)
    \/ /\ IsA(a, "workflow_job") /\ IsA(s, "workflow_job")
       /\ Template[a] = Template[s] /\ s \notin AllowSimultaneous
    \/ /\ IsA(a, "job") /\ IsA(s, "job") /\ Template[a] = Template[s]
       /\ s \notin AllowSimultaneous /\ a \in AllowSimultaneous

(* The tables are complete: whichever of two conflicting tasks comes       *)
(* first, one of the keys it marks is a key that blocks the other, so no   *)
(* can_*_run test overlooks a rule of docs/task_manager_system.md.         *)
LEMMA TablesComplete ==
  \A a, s \in Tasks : Conflict(a, s) => MarksOf(a) \cap BlockersOf(s) # {}
<1> SUFFICES ASSUME NEW a \in Tasks, NEW s \in Tasks, Conflict(a, s)
             PROVE  \E k : k \in MarksOf(a) /\ k \in BlockersOf(s)
  OBVIOUS
<1>1. CASE OneOfAKind(a, s)
  <2>1. CASE /\ IsA(a, "project_update") /\ IsA(s, "project_update")
             /\ SameProject(a, s)
    BY <2>1 DEF MarksOf, BlockersOf, IsA, SameProject
  <2>2. CASE /\ IsA(a, "inventory_update") /\ IsA(s, "inventory_update")
             /\ Source[a] = Source[s]
    BY <2>2 DEF MarksOf, BlockersOf, IsA
  <2>3. CASE IsA(a, "system_job") /\ IsA(s, "system_job")
    BY <2>3 DEF MarksOf, BlockersOf, IsA
  <2>4. CASE /\ IsA(a, "job") /\ IsA(s, "job") /\ Template[a] = Template[s]
             /\ {a, s} \cap AllowSimultaneous = {}
    BY <2>4 DEF MarksOf, BlockersOf, IsA
  <2> QED BY <1>1, <2>1, <2>2, <2>3, <2>4 DEF OneOfAKind
<1>2. CASE JobXorUpdate(a, s)
  <2>1. CASE IsA(a, "job") /\ IsA(s, "project_update") /\ SameProject(a, s)
    BY <2>1 DEF MarksOf, BlockersOf, IsA, SameProject
  <2>2. CASE IsA(a, "job") /\ IsA(s, "inventory_update") /\ SameInventory(a, s)
    BY <2>2 DEF MarksOf, BlockersOf, IsA, SameInventory
  <2> QED BY <1>2, <2>1, <2>2 DEF JobXorUpdate
<1>3. CASE JobXorUpdate(s, a)
  <2>1. CASE IsA(s, "job") /\ IsA(a, "project_update") /\ SameProject(s, a)
    BY <2>1 DEF MarksOf, BlockersOf, IsA, SameProject
  <2>2. CASE IsA(s, "job") /\ IsA(a, "inventory_update") /\ SameInventory(s, a)
    BY <2>2 DEF MarksOf, BlockersOf, IsA, SameInventory
  <2> QED BY <1>3, <2>1, <2>2 DEF JobXorUpdate
<1> QED BY <1>1, <1>2, <1>3 DEF Conflict

(* The tables of the graph are exact: a task that has been marked blocks   *)
(* another one if the two are in conflict by docs/task_manager_system.md   *)
(* or in one of the cases of AlsoBlocks, and never otherwise.              *)
THEOREM TablesExact ==
  \A a, s \in Tasks :
     a # s => (MarksOf(a) \cap BlockersOf(s) # {} <=> Conflict(a, s) \/ AlsoBlocks(a, s))
<1> SUFFICES ASSUME NEW a \in Tasks, NEW s \in Tasks, a # s
             PROVE  (\E k : k \in MarksOf(a) /\ k \in BlockersOf(s))
                       <=> Conflict(a, s) \/ AlsoBlocks(a, s)
  OBVIOUS
<1>1. ASSUME Conflict(a, s)
      PROVE  \E k : k \in MarksOf(a) /\ k \in BlockersOf(s)
  BY <1>1, TablesComplete
<1>2. ASSUME AlsoBlocks(a, s)
      PROVE  \E k : k \in MarksOf(a) /\ k \in BlockersOf(s)
  <2>1. CASE IsA(a, "ad_hoc_command")
    BY <1>2, <2>1 DEF AlsoBlocks, MarksOf, BlockersOf, IsA, SameInventory
  <2>2. CASE IsA(a, "inventory_update")
    BY <1>2, <2>2 DEF AlsoBlocks, MarksOf, BlockersOf, IsA, SameInventory
  <2>3. CASE IsA(a, "workflow_job")
    BY <1>2, <2>3 DEF AlsoBlocks, MarksOf, BlockersOf, IsA
  <2>4. CASE IsA(a, "job")
    BY <1>2, <2>4 DEF AlsoBlocks, MarksOf, BlockersOf, IsA
  <2> QED BY <1>2, <2>1, <2>2, <2>3, <2>4 DEF AlsoBlocks
<1>3. ASSUME NEW k, k \in MarksOf(a), k \in BlockersOf(s)
      PROVE  Conflict(a, s) \/ AlsoBlocks(a, s)
  <2>1. CASE IsA(a, "job")
    BY <1>3, <2>1, KindAssumption
       DEF Conflict, OneOfAKind, JobXorUpdate, AlsoBlocks, MarksOf, BlockersOf, IsA,
           SameProject, SameInventory, Kinds
  <2>2. CASE IsA(a, "project_update")
    BY <1>3, <2>2, KindAssumption
       DEF Conflict, OneOfAKind, JobXorUpdate, AlsoBlocks, MarksOf, BlockersOf, IsA,
           SameProject, SameInventory, Kinds
  <2>3. CASE IsA(a, "inventory_update")
    BY <1>3, <2>3, KindAssumption
       DEF Conflict, OneOfAKind, JobXorUpdate, AlsoBlocks, MarksOf, BlockersOf, IsA,
           SameProject, SameInventory, Kinds
  <2>4. CASE IsA(a, "system_job")
    BY <1>3, <2>4, KindAssumption DEF Conflict, OneOfAKind, MarksOf, BlockersOf, IsA, Kinds
  <2>5. CASE IsA(a, "ad_hoc_command")
    BY <1>3, <2>5, KindAssumption
       DEF AlsoBlocks, MarksOf, BlockersOf, IsA, SameInventory, Kinds
  <2>6. CASE IsA(a, "workflow_job")
    BY <1>3, <2>6, KindAssumption DEF AlsoBlocks, MarksOf, BlockersOf, IsA, Kinds
  <2> QED BY <2>1, <2>2, <2>3, <2>4, <2>5, <2>6, KindAssumption DEF Kinds, IsA
<1> QED BY <1>1, <1>2, <1>3

(* A task that no group blocks conflicts with nothing that some group has  *)
(* marked.                                                                 *)
LEMMA UnblockedDoesNotConflict ==
  ASSUME NEW data, NEW a \in Tasks, NEW s \in Tasks,
         MarksOf(a) \subseteq data, ~IsJobBlocked(data, s)
  PROVE  ~Conflict(a, s)
  BY TablesComplete DEF IsJobBlocked

----------------------------------------------------------------------------
(* The invariant of a pass.                                                *)

(* Row r of task t: a task that was not submitted is not with celery, and  *)
(* one that is active or with celery is placed in a group.                 *)
PlacedRow(r, t) ==
    /\ r.status \in {"none", "pending"} => worker[t] = "none"
    /\ (~IsA(t, "workflow_job") /\ (r.status \in Active \/ worker[t] # "none"))
          => r.instance_group # NoGroup

Placed ==
    /\ \A t \in Tasks : PlacedRow(row[t], t)
    /\ \A t \in DOMAIN tx : PlacedRow(tx[t], t)
    /\ \A t \in DOMAIN dependencies : PlacedRow(dependencies[t], t)
    /\ \A t \in pending_tasks : worker[t] = "none"
    /\ current # NoTask => current \in pending_tasks
    /\ phase # "pass" => current = NoTask /\ DOMAIN dependencies = {}

Marked(t) == \E g \in Groups : MarksOf(t) \subseteq graph[g]

AllMarked ==
    /\ \A t \in running_tasks : ~IsA(t, "workflow_job") => Marked(t)
    /\ \A t \in Started : Marked(t)

RulesInv == TypeInv /\ Placed /\ AllMarked /\ PassRespectsRules

----------------------------------------------------------------------------
(* The tables are written outside the pass.                                *)

(* A step that leaves the pass alone and writes rows that stay placed.     *)
LEMMA OutsidePass ==
  ASSUME RulesInv, TypeInv', UNCHANGED pass,
         \A t \in Tasks : PlacedRow(row[t], t) => PlacedRow(row[t], t)',
         \A t \in Tasks : worker'[t] # "none" => worker[t] # "none"
  PROVE  RulesInv'
<1>1. /\ tx' = tx /\ dependencies' = dependencies /\ graph' = graph
      /\ pending_tasks' = pending_tasks /\ running_tasks' = running_tasks
      /\ current' = current /\ phase' = phase
  BY DEF pass, visit
<1>2. DOMAIN tx \subseteq Tasks /\ DOMAIN dependencies \subseteq Tasks
      /\ pending_tasks \subseteq Tasks
  BY DEF RulesInv, TypeInv, TypeOK
<1>3. Placed'
  BY <1>1, <1>2 DEF RulesInv, Placed, PlacedRow
<1>4. AllMarked' /\ PassRespectsRules'
  BY <1>1 DEF RulesInv, AllMarked, Marked, Started, PassRespectsRules
<1> QED BY <1>3, <1>4 DEF RulesInv

LEMMA LaunchRules ==
  ASSUME RulesInv, NEW t \in Tasks, Launch(t)
  PROVE  RulesInv'
<1>1. TypeInv' /\ UNCHANGED pass /\ worker' = worker
  BY LaunchType DEF RulesInv, Launch, celery
<1>2. ASSUME NEW u \in Tasks, PlacedRow(row[u], u) PROVE PlacedRow(row[u], u)'
  <2>1. CASE u = t
    <3>1. row[t].status = "none" /\ row'[t].status = "pending"
      BY DEF Launch, RulesInv, TypeInv, TypeOK, Rows
    <3> QED BY <1>1, <1>2, <2>1, <3>1 DEF PlacedRow, Active
  <2>2. CASE u # t
    <3>1. row'[u] = row[u]
      BY <2>2 DEF Launch, RulesInv, TypeInv, TypeOK
    <3> QED BY <1>1, <1>2, <3>1 DEF PlacedRow
  <2> QED BY <2>1, <2>2
<1> QED BY <1>1, <1>2, OutsidePass

(* Writing a final status, or "running" for a task that is with celery,    *)
(* keeps a row placed.                                                     *)
LEMMA StatusWritten ==
  ASSUME NEW t \in Tasks, NEW r \in Rows, NEW s \in Rows, PlacedRow(r, t),
         s.instance_group = r.instance_group,
         s.status = r.status \/ s.status \in Terminal
                             \/ (s.status = "running" /\ worker[t] # "none"),
         worker'[t] # "none" => worker[t] # "none"
  PROVE  /\ s.status \in {"none", "pending"} => worker'[t] = "none"
         /\ (/\ ~IsA(t, "workflow_job")
             /\ (s.status \in Active \/ worker'[t] # "none"))
               => s.instance_group # NoGroup
  BY DEF PlacedRow, Active, Terminal

LEMMA CancelRules ==
  ASSUME RulesInv, NEW t \in Tasks, Cancel(t)
  PROVE  RulesInv'
<1>1. TypeInv' /\ UNCHANGED pass /\ worker' = worker
  BY CancelType DEF RulesInv, Cancel, celery
<1>2. ASSUME NEW u \in Tasks, PlacedRow(row[u], u) PROVE PlacedRow(row[u], u)'
  <2>1. row[u] \in Rows /\ row'[u] \in Rows
    BY <1>1 DEF RulesInv, TypeInv, TypeOK
  <2>2. row'[u] = Cancelled(row[u]) \/ row'[u] = row[u]
    BY DEF Cancel
  <2>3. /\ row'[u].instance_group = row[u].instance_group
        /\ row'[u].status = row[u].status \/ row'[u].status = "canceled"
    BY <2>1, <2>2 DEF Cancelled, Rows
  <2> QED BY <1>1, <1>2, <2>1, <2>3, StatusWritten DEF PlacedRow, Terminal
<1> QED BY <1>1, <1>2, OutsidePass

LEMMA EnableUpdateOnLaunchRules ==
  ASSUME RulesInv, NEW s \in Sources, EnableUpdateOnLaunch(s)
  PROVE  RulesInv'
<1>1. TypeInv' /\ UNCHANGED <<pass, worker, row>>
  BY EnableUpdateOnLaunchType DEF RulesInv, EnableUpdateOnLaunch, celery
<1> QED BY <1>1, OutsidePass DEF PlacedRow

LEMMA WorkerStartRules ==
  ASSUME RulesInv, NEW t \in Tasks, WorkerStart(t)
  PROVE  RulesInv'
<1>1. TypeInv' /\ UNCHANGED pass
  BY WorkerStartType DEF RulesInv, WorkerStart
<1>2. /\ worker \in [Tasks -> {"none", "outbox", "queued", "stopping", "playbook"}]
      /\ worker[t] = "queued"
      /\ worker' = [worker EXCEPT ![t] = IF row[t].cancel_flag
                                         THEN "stopping" ELSE "playbook"]
  BY DEF WorkerStart, RulesInv, TypeInv, TypeOK
<1>3. \A u \in Tasks : worker'[u] # "none" <=> worker[u] # "none"
  BY <1>2
<1>4. ASSUME NEW u \in Tasks, PlacedRow(row[u], u) PROVE PlacedRow(row[u], u)'
  <2>1. row[u] \in Rows /\ row'[u] \in Rows
    BY <1>1 DEF RulesInv, TypeInv, TypeOK
  <2>2. /\ row'[u].instance_group = row[u].instance_group
        /\ \/ row'[u].status = row[u].status
           \/ row'[u].status = "running" /\ worker[u] # "none"
    BY <1>2, <2>1 DEF WorkerStart, RulesInv, TypeInv, TypeOK, Rows
  <2> QED BY <1>3, <1>4, <2>1, <2>2, StatusWritten DEF PlacedRow
<1> QED BY <1>1, <1>3, <1>4, OutsidePass

LEMMA WorkerFinishRules ==
  ASSUME RulesInv, NEW t \in Tasks, NEW outcome \in Outcomes,
         WorkerFinish(t, outcome)
  PROVE  RulesInv'
<1>1. TypeInv' /\ UNCHANGED pass
  BY WorkerFinishType DEF RulesInv, WorkerFinish
<1>2. worker' = [worker EXCEPT ![t] = "none"]
  BY DEF WorkerFinish
<1>3. \A u \in Tasks : worker'[u] # "none" => worker[u] # "none"
  BY <1>2 DEF RulesInv, TypeInv, TypeOK
<1>4. ASSUME NEW u \in Tasks, PlacedRow(row[u], u) PROVE PlacedRow(row[u], u)'
  <2>1. row[u] \in Rows /\ row'[u] \in Rows
    BY <1>1 DEF RulesInv, TypeInv, TypeOK
  <2>2. /\ row'[u].instance_group = row[u].instance_group
        /\ row'[u].status = row[u].status \/ row'[u].status \in Terminal
    <3>2. PICK final \in FinalStatuses(t, outcome) :
             row' = [row EXCEPT ![t].status = final]
      BY DEF WorkerFinish
    <3>1. final \in Terminal
      BY EnvironmentAssumption DEF FinalStatuses, Terminal
    <3>3. row \in [Tasks -> Rows]
      BY DEF RulesInv, TypeInv, TypeOK
    <3>4. row'[u] = IF u = t THEN [row[t] EXCEPT !.status = final] ELSE row[u]
      BY <3>2, <3>3
    <3> QED BY <2>1, <3>1, <3>4 DEF Rows
  <2> QED BY <1>3, <1>4, <2>1, <2>2, StatusWritten DEF PlacedRow
<1> QED BY <1>1, <1>3, <1>4, OutsidePass

LEMMA WorkerCrashRules ==
  ASSUME RulesInv, NEW t \in Tasks, WorkerCrash(t)
  PROVE  RulesInv'
<1>1. TypeInv' /\ UNCHANGED <<pass, row>>
  BY WorkerCrashType DEF RulesInv, WorkerCrash, tables
<1>2. \A u \in Tasks : worker'[u] # "none" => worker[u] # "none"
  BY DEF WorkerCrash, RulesInv, TypeInv, TypeOK
<1> QED BY <1>1, <1>2, OutsidePass DEF PlacedRow

LEMMA HandleWorkErrorRules ==
  ASSUME RulesInv, NEW t \in Tasks, HandleWorkError(t)
  PROVE  RulesInv'
<1>1. TypeInv' /\ UNCHANGED pass /\ worker' = worker
  BY HandleWorkErrorType DEF RulesInv, HandleWorkError
<1>2. ASSUME NEW u \in Tasks, PlacedRow(row[u], u) PROVE PlacedRow(row[u], u)'
  <2>1. row[u] \in Rows /\ row'[u] \in Rows
    BY <1>1 DEF RulesInv, TypeInv, TypeOK
  <2>2. row'[u] = [row[u] EXCEPT !.status = "failed"] \/ row'[u] = row[u]
    BY DEF HandleWorkError
  <2>3. /\ row'[u].instance_group = row[u].instance_group
        /\ row'[u].status = row[u].status \/ row'[u].status = "failed"
    BY <2>1, <2>2 DEF Rows
  <2> QED BY <1>1, <1>2, <2>1, <2>3, StatusWritten DEF PlacedRow, Terminal
<1> QED BY <1>1, <1>2, OutsidePass

----------------------------------------------------------------------------
(* The pass.                                                               *)
LEMMA ViewPlaced ==
  ASSUME RulesInv, NEW t \in Tasks
  PROVE  PlacedRow(View(t), t)
  BY DEF RulesInv, Placed, View

LEMMA BeginPassRules ==
  ASSUME RulesInv, NEW reaped \in SUBSET Tasks, NEW verdict \in Verdicts,
         BeginPass(reaped, verdict)
  PROVE  RulesInv'
<1> DEFINE seen == [t \in Tasks |-> IF t \in reaped THEN Reaped(row[t]) ELSE row[t]]
           ended == {w \in RunningWorkflows : WorkflowStatus(w, verdict) # "running"}
           tasks == {t \in Tasks : seen[t].status \in Unfinished}
           running == {t \in tasks : seen[t].status \in Active}
<1>1. /\ tx' = [t \in reaped \cup ended |->
                 IF t \in reaped THEN seen[t]
                 ELSE [row[t] EXCEPT !.status = WorkflowStatus(t, verdict)]]
      /\ running_tasks' = running /\ pending_tasks' = tasks \ running
      /\ graph' = [g \in Groups |->
                     UNION {MarksOf(t) : t \in {u \in running : row[u].instance_group = g}}]
      /\ row' = row /\ worker' = worker /\ UNCHANGED visit
  BY DEF BeginPass, tables, celery
<1>2. \A t \in Tasks : row[t] \in Rows /\ PlacedRow(row[t], t)
  BY DEF RulesInv, TypeInv, TypeOK, Placed
<1>3. ASSUME NEW t \in reaped
      PROVE  /\ seen[t].status \in {"failed", "error"}
             /\ seen[t].instance_group = row[t].instance_group
  BY <1>2 DEF Reaped, Rows
<1>4. ended \subseteq RunningWorkflows /\ ended \subseteq Tasks
  BY DEF RunningWorkflows
<1>5. ASSUME NEW w \in ended
      PROVE  /\ WorkflowStatus(w, verdict) \in {"successful", "failed", "canceled"}
             /\ IsA(w, "workflow_job")
  BY DEF Verdicts, WorkflowStatus, RunningWorkflows
<1>6. ASSUME NEW t \in running
      PROVE  /\ t \in Tasks /\ row[t].status \in Active
             /\ ~IsA(t, "workflow_job") => row[t].instance_group \in Groups
  <2>1. t \in Tasks /\ seen[t].status \in Active
    OBVIOUS
  <2>2. t \notin reaped
    BY <1>3, <2>1 DEF Active
  <2>3. row[t].status \in Active
    BY <2>1, <2>2
  <2> QED BY <1>2, <2>1, <2>3 DEF PlacedRow, Rows
<1>7. ASSUME NEW t \in tasks \ running
      PROVE  worker[t] = "none"
  <2>1. t \in Tasks /\ seen[t].status = "pending"
    BY DEF Unfinished, Active
  <2>2. t \notin reaped
    BY <1>3, <2>1
  <2>3. row[t].status = "pending"
    BY <2>1, <2>2
  <2> QED BY <1>2, <2>1, <2>3 DEF PlacedRow
<1>8. ASSUME NEW t \in DOMAIN tx'
      PROVE  /\ t \in Tasks /\ tx'[t].status \in Terminal
             /\ tx'[t].instance_group = row[t].instance_group
             /\ tx'[t].status # "waiting"
  <2>1. CASE t \in reaped
    <3>1. tx'[t] = seen[t]
      BY <1>1, <2>1
    <3> QED BY <1>3, <2>1, <3>1 DEF Terminal
  <2>2. CASE t \notin reaped
    <3>1. t \in ended /\ t \in Tasks
      BY <1>1, <1>4, <2>2
    <3>2. tx'[t] = [row[t] EXCEPT !.status = WorkflowStatus(t, verdict)]
      BY <1>1, <2>2, <3>1
    <3> HIDE DEF ended
    <3> QED BY <1>2, <1>5, <3>1, <3>2 DEF Rows, Terminal
  <2> QED BY <2>1, <2>2
<1> HIDE DEF seen, ended, tasks, running
<1>9. ASSUME NEW t \in DOMAIN tx'
      PROVE  PlacedRow(tx[t], t)'
  BY <1>1, <1>2, <1>8 DEF PlacedRow, Terminal, Active
<1>10. Placed'
  <2>1. current = NoTask /\ DOMAIN dependencies = {}
    BY DEF BeginPass, RulesInv, Placed
  <2> QED BY <1>1, <1>2, <1>7, <1>9, <2>1 DEF Placed, PlacedRow, visit
<1>11. AllMarked'
  <2>1. Started' = {}
    BY <1>8 DEF Started
  <2>2. ASSUME NEW t \in running_tasks', ~IsA(t, "workflow_job")
        PROVE  Marked(t)'
    <3>1. t \in running /\ row[t].instance_group \in Groups
      BY <1>1, <1>6, <2>2
    <3>2. MarksOf(t) \subseteq graph'[row[t].instance_group]
      BY <1>1, <3>1
    <3> QED BY <3>1, <3>2 DEF Marked
  <2> QED BY <2>1, <2>2 DEF AllMarked
<1>12. PassRespectsRules'
  BY <1>8 DEF PassRespectsRules, Started
<1>13. TypeInv'
  BY BeginPassType DEF RulesInv
<1> QED BY <1>10, <1>11, <1>12, <1>13 DEF RulesInv

(* A step of the pass that submits nothing and keeps the tables.           *)
LEMMA InsidePass ==
  ASSUME RulesInv, TypeInv', UNCHANGED <<row, worker, phase, graph, running_tasks>>,
         Started' \subseteq Started,
         pending_tasks' \subseteq pending_tasks,
         \A t \in DOMAIN tx' : PlacedRow(tx'[t], t),
         \A t \in DOMAIN dependencies' : PlacedRow(dependencies'[t], t),
         current' # NoTask => current' \in pending_tasks',
         phase = "pass"
  PROVE  RulesInv'
<1>1. Placed'
  BY DEF RulesInv, Placed, PlacedRow
<1>2. AllMarked'
  BY DEF RulesInv, AllMarked, Marked
<1>3. PassRespectsRules'
  BY DEF RulesInv, PassRespectsRules
<1> QED BY <1>1, <1>2, <1>3 DEF RulesInv

(* A row that is not there yet is given to an update that was not          *)
(* submitted.                                                              *)
LEMMA DependencyRowPlaced ==
  ASSUME RulesInv, NEW t \in Tasks, NEW u \in Tasks, View(u).status = "none"
  PROVE  /\ PlacedRow(DependencyRow(t, u), u)
         /\ DependencyRow(t, u).status = "pending"
<1>1. worker[u] = "none"
  BY ViewPlaced DEF PlacedRow
<1>2. DependencyRow(t, u).status = "pending"
  BY DEF DependencyRow, NewRow
<1> QED BY <1>1, <1>2 DEF PlacedRow, Active

LEMMA GenerateDependenciesRules ==
  ASSUME RulesInv, NEW t \in Tasks, NEW expired, GenerateDependencies(t, expired)
  PROVE  RulesInv'
<1> DEFINE create == ToCreate(t, expired)
           new == {CHOOSE u \in Spare(r) : TRUE : r \in create}
           all == new \cup ToJoin(t, create)
<1>1. \A u \in new : u \in Tasks /\ View(u).status = "none"
  <2>1. \A r \in create : Spare(r) # {}
    BY DEF GenerateDependencies
  <2>2. \A r \in create : \A u \in Spare(r) : u \in Tasks /\ View(u).status = "none"
    BY DEF Spare
  <2> HIDE DEF create
  <2> QED BY <2>1, <2>2
<1>2. \A u \in all : u \in Tasks
  BY <1>1 DEF ToJoin
<1>3. /\ tx' = [u \in DOMAIN tx \cup new |->
                  IF u \in new THEN DependencyRow(t, u) ELSE tx[u]]
      /\ current' = t /\ t \in pending_tasks /\ phase = "pass"
      /\ dependencies' =
            [u \in all |-> IF u \in new THEN DependencyRow(t, u) ELSE View(u)]
      /\ UNCHANGED <<row, worker, phase, running_tasks, pending_tasks, graph>>
  BY DEF GenerateDependencies, Oldest, tables, celery
<1> HIDE DEF new, all
<1>4. \A u \in DOMAIN tx : PlacedRow(tx[u], u)
  BY DEF RulesInv, Placed
<1>5. \A u \in DOMAIN tx' : PlacedRow(tx'[u], u)
  BY <1>1, <1>3, <1>4, DependencyRowPlaced
<1>6. \A u \in DOMAIN dependencies' : PlacedRow(dependencies'[u], u)
  BY <1>1, <1>2, <1>3, DependencyRowPlaced, ViewPlaced
<1>7. Started' \subseteq Started
  BY <1>1, <1>3, DependencyRowPlaced DEF Started
<1>8. TypeInv'
  BY GenerateDependenciesType DEF RulesInv
<1> QED BY <1>3, <1>5, <1>6, <1>7, <1>8, InsidePass

(* start_task: the only way to submit a task.                              *)
LEMMA StartTaskRules ==
  ASSUME RulesInv, NEW t \in Tasks, NEW read \in Rows, PlacedRow(read, t),
         NEW g \in Groups, NEW i \in Instances, NEW chain \in SUBSET Tasks,
         StartTask(t, read, g, i, chain)
  PROVE  /\ Started' \subseteq Started \cup {t}
         /\ \A u \in DOMAIN tx' : PlacedRow(tx'[u], u)
<1>1. TypeOK /\ \A u \in DOMAIN tx : PlacedRow(tx[u], u)
  BY DEF RulesInv, TypeInv, Placed
<1>2. ASSUME NEW r \in Rows, PlacedRow(r, t), tx' = Write(t, r)
      PROVE  /\ Started' \subseteq Started \cup {t}
             /\ \A u \in DOMAIN tx' : PlacedRow(tx'[u], u)
  <2>1. /\ DOMAIN tx' = DOMAIN tx \cup {t} /\ tx'[t] = r
        /\ \A u \in DOMAIN tx \ {t} : tx'[u] = tx[u]
    BY <1>1, <1>2, WriteType
  <2> QED BY <1>1, <1>2, <2>1 DEF Started
<1>3. CASE UNCHANGED <<tx, charged>>
  BY <1>1, <1>3 DEF Started
<1>4. CASE tx' = Write(t, [read EXCEPT !.status = "failed"])
  <2>1. /\ [read EXCEPT !.status = "failed"] \in Rows
        /\ [read EXCEPT !.status = "failed"].status = "failed"
        /\ [read EXCEPT !.status = "failed"].instance_group = read.instance_group
    BY DEF Rows, Statuses, Terminal
  <2>2. PlacedRow([read EXCEPT !.status = "failed"], t)
    BY <2>1 DEF PlacedRow, Active
  <2> QED BY <1>2, <1>4, <2>1, <2>2
<1>5. ASSUME NEW place \in Placements(t, g, i),
             tx' = Write(t, [read EXCEPT !.status = "waiting",
                                         !.instance_group = place[1],
                                         !.execution_node = place[2],
                                         !.fail_chain = chain])
      PROVE  /\ Started' \subseteq Started \cup {t}
             /\ \A u \in DOMAIN tx' : PlacedRow(tx'[u], u)
  <2> DEFINE r == [read EXCEPT !.status = "waiting", !.instance_group = place[1],
                               !.execution_node = place[2], !.fail_chain = chain]
  <2>1. place[1] \in Groups /\ place[2] \in Instances
    BY PlacementType
  <2>2. r \in Rows /\ r.status = "waiting" /\ r.instance_group = place[1]
    BY <2>1 DEF Rows, Statuses, Unfinished
  <2>3. tx' = Write(t, r)
    BY <1>5
  <2> HIDE DEF r
  <2>4. PlacedRow(r, t)
    BY <2>1, <2>2, PlacementAssumption DEF PlacedRow
  <2> QED BY <1>2, <2>2, <2>3, <2>4
<1> QED BY <1>3, <1>4, <1>5 DEF StartTask

(* What is marked stays marked while the graphs grow.                      *)
LEMMA MarkedStays ==
  ASSUME NEW u, Marked(u), NEW t, NEW g \in Groups,
         graph \in [Groups -> SUBSET Marks],
         graph' = [graph EXCEPT ![g] = AddJob(@, t)]
  PROVE  Marked(u)'
  BY DEF Marked, AddJob

(* What the loop over the preferred groups may do to a task that is not    *)
(* blocked: whatever it starts is marked and conflicts with nothing.       *)
LEMMA TryStartRules ==
  ASSUME RulesInv, NEW t \in Tasks, NEW read \in Rows, PlacedRow(read, t),
         NEW chain \in SUBSET Tasks, ~Blocked(t), TryStart(t, read, chain),
         UNCHANGED running_tasks
  PROVE  /\ AllMarked' /\ PassRespectsRules'
         /\ \A u \in DOMAIN tx' : PlacedRow(tx'[u], u)
<1>1. graph \in [Groups -> SUBSET Marks] /\ running_tasks \subseteq Tasks
      /\ DOMAIN tx \subseteq Tasks
  BY DEF RulesInv, TypeInv, TypeOK
<1>2. CASE UNCHANGED <<tx, graph, charged>>
  BY <1>2 DEF RulesInv, Placed, AllMarked, Marked, Started, PassRespectsRules
<1>3. ASSUME NEW k \in DOMAIN Preferred[t], NEW i \in Instances,
             graph' = [graph EXCEPT ![Preferred[t][k]] = AddJob(@, t)],
             StartTask(t, read, Preferred[t][k], i, chain)
      PROVE  /\ AllMarked' /\ PassRespectsRules'
             /\ \A u \in DOMAIN tx' : PlacedRow(tx'[u], u)
  <2>1. Preferred[t][k] \in Groups
    BY PlacementAssumption
  <2>2. /\ Started' \subseteq Started \cup {t}
        /\ \A u \in DOMAIN tx' : PlacedRow(tx'[u], u)
    BY <1>3, <2>1, StartTaskRules
  <2>3. MarksOf(t) \subseteq graph'[Preferred[t][k]]
    BY <1>1, <1>3, <2>1 DEF AddJob
  <2>4. Marked(t)'
    BY <2>1, <2>3 DEF Marked
  <2>5. AllMarked'
    <3>1. ASSUME NEW u, Marked(u) PROVE Marked(u)'
      BY <1>1, <1>3, <2>1, <3>1, MarkedStays
    <3> QED BY <2>2, <2>4, <3>1 DEF RulesInv, AllMarked
  <2>6. \A a \in running_tasks \cup Started : ~Conflict(a, t)
    <3> SUFFICES ASSUME NEW a \in running_tasks \cup Started PROVE ~Conflict(a, t)
      OBVIOUS
    <3>1. a \in Tasks
      BY <1>1 DEF Started
    <3>2. CASE IsA(a, "workflow_job")
      BY <3>2, WorkflowsDoNotConflict
    <3>3. CASE ~IsA(a, "workflow_job")
      <4>1. PICK g \in Groups : MarksOf(a) \subseteq graph[g]
        BY <3>3 DEF RulesInv, AllMarked, Marked
      <4>2. ~IsJobBlocked(graph[g], t)
        BY DEF Blocked
      <4> QED BY <3>1, <4>1, <4>2, UnblockedDoesNotConflict
    <3> QED BY <3>2, <3>3
  <2>7. PassRespectsRules'
    <3> SUFFICES ASSUME NEW s \in Started', NEW a \in running_tasks \cup Started'
                 PROVE  ~Conflict(a, s)
      BY DEF PassRespectsRules
    <3>1. ~Conflict(t, t)
      BY DEF Conflict
    <3>2. CASE s = t
      BY <2>2, <2>6, <3>1, <3>2
    <3>3. CASE s # t /\ a = t
      BY <2>2, <2>6, <3>3, ConflictSymmetric
    <3>4. CASE s # t /\ a # t
      BY <2>2, <3>4 DEF RulesInv, PassRespectsRules
    <3> QED BY <3>2, <3>3, <3>4
  <2> QED BY <2>2, <2>5, <2>7
<1> QED BY <1>2, <1>3 DEF TryStart

LEMMA ProcessDependencyRules ==
  ASSUME RulesInv, NEW d \in Tasks, ProcessDependency(d)
  PROVE  RulesInv'
<1>1. /\ d \in DOMAIN dependencies /\ current \in Tasks
      /\ dependencies[d] \in Rows /\ PlacedRow(dependencies[d], d)
      /\ DOMAIN dependencies \subseteq Tasks
  BY DEF ProcessDependency, NextDependency, RulesInv, TypeInv, TypeOK, VisitOK,
         Placed
<1>2. UNCHANGED <<row, worker, phase, running_tasks, pending_tasks, current,
                  dependencies>>
  BY DEF ProcessDependency, tables, celery
<1>3. /\ AllMarked' /\ PassRespectsRules'
      /\ \A u \in DOMAIN tx' : PlacedRow(tx'[u], u)
  <2>1. CASE UNCHANGED <<tx, graph, charged>>
    BY <1>2, <2>1 DEF RulesInv, Placed, AllMarked, Marked, Started,
                      PassRespectsRules
  <2>2. CASE /\ ~Blocked(d)
             /\ TryStart(d, dependencies[d],
                         (DOMAIN dependencies \ {d}) \cup {current})
    <3>1. (DOMAIN dependencies \ {d}) \cup {current} \in SUBSET Tasks
      BY <1>1
    <3> QED BY <1>1, <1>2, <2>2, <3>1, TryStartRules
  <2> QED BY <2>1, <2>2 DEF ProcessDependency
<1>4. Placed'
  BY <1>2, <1>3 DEF RulesInv, Placed, PlacedRow
<1> QED BY <1>3, <1>4, ProcessDependencyType DEF RulesInv

LEMMA ProcessPendingRules ==
  ASSUME RulesInv, NEW t \in Tasks, ProcessPending(t)
  PROVE  RulesInv'
<1>1. /\ t \in pending_tasks /\ worker[t] = "none" /\ phase = "pass"
      /\ TypeOK /\ pending_tasks \subseteq Tasks
  BY DEF ProcessPending, RulesInv, TypeInv, TypeOK, Placed
<1>2. /\ UNCHANGED <<row, worker, phase, running_tasks>>
      /\ pending_tasks' = pending_tasks \ {t}
      /\ current' = NoTask /\ dependencies' = NoRows
  BY DEF ProcessPending, tables, celery
<1>3. InMemory(t) \in Rows /\ InMemory(t).status = "pending"
  BY <1>1, InMemoryType DEF InMemory, NewRow
<1>4. /\ AllMarked' /\ PassRespectsRules'
      /\ \A u \in DOMAIN tx' : PlacedRow(tx'[u], u)
  <2>1. CASE UNCHANGED <<tx, graph>>
    BY <1>2, <2>1 DEF RulesInv, Placed, AllMarked, Marked, Started,
                      PassRespectsRules
  <2>2. CASE IsA(t, "workflow_job") /\ StartWorkflow(t) /\ UNCHANGED graph
    <3>1. CASE UNCHANGED tx
      BY <2>1, <2>2, <3>1
    <3>2. CASE tx' = Write(t, [InMemory(t) EXCEPT !.status =
                                 IF t \in Unstartable THEN "failed" ELSE "running"])
      <4> DEFINE r == [InMemory(t) EXCEPT !.status =
                         IF t \in Unstartable THEN "failed" ELSE "running"]
      <4>1. r \in Rows /\ r.status \in {"failed", "running"}
        BY <1>3 DEF Rows, Statuses, Unfinished, Terminal
      <4>2. /\ DOMAIN tx' = DOMAIN tx \cup {t} /\ tx'[t] = r
            /\ \A u \in DOMAIN tx \ {t} : tx'[u] = tx[u]
        BY <1>1, <3>2, <4>1, WriteType
      <4> HIDE DEF r
      <4>3. Started' \subseteq Started
        BY <4>1, <4>2 DEF Started
      <4>4. AllMarked' /\ PassRespectsRules'
        BY <1>2, <2>2, <4>3 DEF RulesInv, AllMarked, Marked, PassRespectsRules
      <4>5. \A u \in DOMAIN tx' : PlacedRow(tx'[u], u)
        BY <2>2, <4>1, <4>2 DEF RulesInv, Placed, PlacedRow
      <4> QED BY <4>4, <4>5
    <3> QED BY <2>2, <3>1, <3>2 DEF StartWorkflow
  <2>3. CASE ~Blocked(t) /\ TryStart(t, InMemory(t), FailChain(t, ViewLinks))
    <3>1. FailChain(t, ViewLinks) \in SUBSET Tasks
      BY DEF FailChain, DependentJobs
    <3>2. PlacedRow(InMemory(t), t)
      BY <1>1, <1>3 DEF PlacedRow, Active
    <3> QED BY <1>2, <1>3, <2>3, <3>1, <3>2, TryStartRules
  <2> QED BY <2>1, <2>2, <2>3 DEF ProcessPending
<1>5. Placed'
  <2>1. DOMAIN dependencies' = {}
    BY <1>2, NoRowsType
  <2> QED BY <1>1, <1>2, <1>4, <2>1 DEF RulesInv, Placed, PlacedRow
<1> QED BY <1>4, <1>5, ProcessPendingType DEF RulesInv

(* Outside a pass nothing is left of it, and only rows matter.             *)
LEMMA PassOver ==
  ASSUME TypeInv', ForgetPass, \A t \in Tasks : PlacedRow(row[t], t)'
  PROVE  RulesInv'
<1>1. DOMAIN tx' = {} /\ DOMAIN dependencies' = {} /\ pending_tasks' = {}
      /\ current' = NoTask /\ running_tasks' = {}
  BY NoRowsType DEF ForgetPass
<1>2. Started' = {}
  BY <1>1 DEF Started
<1> QED BY <1>1, <1>2 DEF RulesInv, Placed, AllMarked, PassRespectsRules

LEMMA CommitRules ==
  ASSUME RulesInv, Commit
  PROVE  RulesInv'
<1>1. TypeInv' /\ ForgetPass
  BY CommitType DEF RulesInv, Commit
<1>2. ASSUME NEW t \in Tasks
      PROVE  PlacedRow(row[t], t)'
  <2>1. PlacedRow(View(t), t) /\ row'[t] = View(t)
    BY ViewPlaced DEF Commit
  <2>2. CASE t \in Started
    <3>1. View(t).status = "waiting"
      BY <2>2 DEF Started, View
    <3> QED BY <2>1, <3>1 DEF PlacedRow, Active
  <2>3. CASE t \notin Started
    <3>1. worker'[t] = worker[t]
      BY <2>3 DEF Commit
    <3> QED BY <2>1, <3>1 DEF PlacedRow
  <2> QED BY <2>2, <2>3
<1> QED BY <1>1, <1>2, PassOver

LEMMA PassFailsRules ==
  ASSUME RulesInv, PassFails
  PROVE  RulesInv'
<1>1. TypeInv' /\ ForgetPass /\ row' = row /\ worker' = worker
  BY PassFailsType DEF RulesInv, PassFails, tables, celery
<1>2. \A t \in Tasks : PlacedRow(row[t], t)'
  BY <1>1 DEF RulesInv, Placed, PlacedRow
<1> QED BY <1>1, <1>2, PassOver

(* The messages are sent when the pass is over.                            *)
LEMMA AfterPass ==
  ASSUME RulesInv, TypeInv', phase # "pass", phase' # "pass",
         UNCHANGED <<row, tx, visit, graph, running_tasks, pending_tasks>>,
         \A t \in Tasks : worker'[t] # "none" => worker[t] # "none"
  PROVE  RulesInv'
<1>1. DOMAIN tx \subseteq Tasks /\ DOMAIN dependencies \subseteq Tasks
      /\ pending_tasks \subseteq Tasks
  BY DEF RulesInv, TypeInv, TypeOK
<1>2. Placed'
  BY <1>1 DEF RulesInv, Placed, PlacedRow, visit
<1>3. AllMarked' /\ PassRespectsRules'
  BY DEF RulesInv, AllMarked, Marked, Started, PassRespectsRules
<1> QED BY <1>2, <1>3 DEF RulesInv

LEMMA DispatchRules ==
  ASSUME RulesInv, NEW t \in Tasks, Dispatch(t)
  PROVE  RulesInv'
<1>1. \A u \in Tasks : worker'[u] # "none" => worker[u] # "none"
  BY DEF Dispatch, Outbox, RulesInv, TypeInv, TypeOK
<1>2. /\ phase = "dispatch" /\ phase' \in {"idle", "dispatch"}
      /\ UNCHANGED <<row, tx, visit, graph, running_tasks, pending_tasks>>
  BY DEF Dispatch, tables
<1> QED BY <1>1, <1>2, DispatchType, AfterPass DEF RulesInv

LEMMA DispatchCrashRules ==
  ASSUME RulesInv, DispatchCrash
  PROVE  RulesInv'
<1>1. \A u \in Tasks : worker'[u] # "none" => worker[u] # "none"
  BY DEF DispatchCrash
<1>2. /\ phase = "dispatch" /\ phase' = "idle"
      /\ UNCHANGED <<row, tx, visit, graph, running_tasks, pending_tasks>>
  BY DEF DispatchCrash, tables
<1> QED BY <1>1, <1>2, DispatchCrashType, AfterPass DEF RulesInv

----------------------------------------------------------------------------
LEMMA InitRules == Init => RulesInv
<1> SUFFICES ASSUME Init PROVE RulesInv
  OBVIOUS
<1>1. \A t \in Tasks : PlacedRow(row[t], t)
  BY DEF Init, PlacedRow, NewRow, Active
<1>2. DOMAIN tx = {} /\ DOMAIN dependencies = {} /\ Started = {}
      /\ running_tasks = {} /\ pending_tasks = {} /\ current = NoTask
  BY NoRowsType DEF Init, Started
<1> QED BY <1>1, <1>2, InitType DEF RulesInv, Placed, AllMarked, PassRespectsRules

LEMMA NextRules == RulesInv /\ [Next]_vars => RulesInv'
<1> SUFFICES ASSUME RulesInv, [Next]_vars PROVE RulesInv'
  OBVIOUS
<1>1. CASE Schedule
  <2>1. ASSUME NEW reaped \in SUBSET {t \in Tasks : Lost(t)},
               NEW verdict \in Verdicts, BeginPass(reaped, verdict)
        PROVE  RulesInv'
    BY <2>1, BeginPassRules
  <2>2. CASE PassStep
    BY <2>2, GenerateDependenciesRules, ProcessDependencyRules,
       ProcessPendingRules, CommitRules, DispatchRules DEF PassStep
  <2> QED BY <1>1, <2>1, <2>2, PassFailsRules, DispatchCrashRules DEF Schedule
<1>2. CASE Environment
  BY <1>2, LaunchRules, CancelRules, EnableUpdateOnLaunchRules, WorkerStartRules,
     WorkerFinishRules, WorkerCrashRules, HandleWorkErrorRules DEF Environment
<1>3. CASE UNCHANGED vars
  <2>1. TypeInv'
    BY <1>3, NextType DEF RulesInv
  <2> QED BY <1>3, <2>1, OutsidePass DEF vars, tables, celery, PlacedRow
<1> QED BY <1>1, <1>2, <1>3 DEF Next

(* Whatever the API, the workers and the faults do meanwhile, and however  *)
(* many instance groups there are, a pass never starts a task that the     *)
(* blocking rules forbid to run beside another that it starts, or beside   *)
(* one that was active when the pass began.                                *)
THEOREM PassRespectsTheRules == Spec => []PassRespectsRules
<1>1. RulesInv => PassRespectsRules
  BY DEF RulesInv
<1> QED BY <1>1, InitRules, NextRules, PTL DEF Spec

----------------------------------------------------------------------------
(* One workflow job of a template at a time.  A workflow job has no marks  *)
(* in the graphs that its start looks at; the pass remembers the templates *)
(* of the running ones instead.  The invariant says that it forgets none,  *)
(* and that only the pass sets a workflow job to running: it is never      *)
(* submitted to celery, nor started as a dependency of another task.       *)
Workflows == {t \in Tasks : IsA(t, "workflow_job")}

RowsExclusive ==
    \A a, b \in Workflows \ AllowSimultaneous :
        (a # b /\ Template[a] = Template[b] /\ row[a].status = "running")
        => row[b].status # "running"

RunningRemembered ==
    \A w \in Workflows :
        View(w).status = "running" => Template[w] \in running_workflow_templates

WorkflowInv ==
    /\ RulesInv
    /\ \A w \in Workflows : /\ worker[w] = "none"
                            /\ w \in DOMAIN tx => tx[w].status # "waiting"
    /\ DOMAIN dependencies \cap Workflows = {}
    /\ RowsExclusive
    /\ OneWorkflowPerTemplate
    /\ phase = "pass" => RunningRemembered

(* Steps of the API, of the workers and of the dispatch run no workflow.   *)
LEMMA WorkflowsNotRun ==
  ASSUME WorkflowInv, RulesInv',
         UNCHANGED <<tx, dependencies, running_workflow_templates>>,
         phase' = "pass" => phase = "pass",
         \A w \in Workflows : row'[w].status = "running" => row[w].status = "running",
         \A w \in Workflows : worker'[w] = "none"
  PROVE  WorkflowInv'
<1>1. \A w \in Workflows : View(w)'.status = "running" => View(w).status = "running"
  BY DEF View
<1>2. RowsExclusive'
  BY DEF WorkflowInv, RowsExclusive
<1>3. OneWorkflowPerTemplate'
  BY <1>1 DEF WorkflowInv, OneWorkflowPerTemplate, Workflows
<1>4. phase' = "pass" => RunningRemembered'
  BY <1>1 DEF WorkflowInv, RunningRemembered
<1> QED BY <1>2, <1>3, <1>4 DEF WorkflowInv

LEMMA EnvironmentWorkflows ==
  ASSUME WorkflowInv, RulesInv', Environment
  PROVE  WorkflowInv'
<1>1. UNCHANGED <<tx, dependencies, running_workflow_templates, phase>>
  BY DEF Environment, Launch, Cancel, EnableUpdateOnLaunch, WorkerStart,
         WorkerFinish, WorkerCrash, HandleWorkError, pass, visit
<1>2. /\ row \in [Tasks -> Rows]
      /\ worker \in [Tasks -> {"none", "outbox", "queued", "stopping", "playbook"}]
      /\ \A w \in Workflows : w \in Tasks /\ worker[w] = "none"
  BY DEF WorkflowInv, RulesInv, TypeInv, TypeOK, Workflows
<1> DEFINE Quiet ==
      \A w \in Workflows : /\ row'[w].status = "running" => row[w].status = "running"
                           /\ worker'[w] = "none"
<1>3. ASSUME NEW t \in Tasks, Launch(t) PROVE Quiet
  BY <1>2, <1>3 DEF Launch, celery, Rows
<1>4. ASSUME NEW t \in Tasks, Cancel(t) PROVE Quiet
  <2>1. worker' = worker
    BY <1>4 DEF Cancel, celery
  <2>2. \A u \in Tasks : row'[u] = Cancelled(row[u]) \/ row'[u] = row[u]
    BY <1>4 DEF Cancel
  <2>3. \A r \in Rows : Cancelled(r).status = "running" => r.status = "running"
    BY DEF Cancelled, Rows
  <2> QED BY <1>2, <2>1, <2>2, <2>3
<1>5. ASSUME NEW s \in Sources, EnableUpdateOnLaunch(s) PROVE Quiet
  BY <1>2, <1>5 DEF EnableUpdateOnLaunch, celery
<1>6. ASSUME NEW t \in Tasks, WorkerStart(t) PROVE Quiet
  <2>1. t \notin Workflows
    BY <1>2, <1>6 DEF WorkerStart
  <2> QED BY <1>2, <1>6, <2>1 DEF WorkerStart
<1>7. ASSUME NEW t \in Tasks, NEW outcome \in Outcomes, WorkerFinish(t, outcome)
      PROVE  Quiet
  <2>1. t \notin Workflows
    BY <1>2, <1>7 DEF WorkerFinish
  <2> QED BY <1>2, <1>7, <2>1 DEF WorkerFinish
<1>8. ASSUME NEW t \in Tasks, WorkerCrash(t) PROVE Quiet
  BY <1>2, <1>8 DEF WorkerCrash, tables
<1>9. ASSUME NEW t \in Tasks, HandleWorkError(t) PROVE Quiet
  <2>1. worker' = worker
    BY <1>9 DEF HandleWorkError
  <2>2. \A u \in Tasks : row'[u] = [row[u] EXCEPT !.status = "failed"]
                         \/ row'[u] = row[u]
    BY <1>9 DEF HandleWorkError
  <2> QED BY <1>2, <2>1, <2>2 DEF Rows
<1>10. Quiet
  BY <1>3, <1>4, <1>5, <1>6, <1>7, <1>8, <1>9 DEF Environment
<1> QED BY <1>1, <1>10, WorkflowsNotRun

LEMMA BeginPassWorkflows ==
  ASSUME WorkflowInv, RulesInv', NEW reaped \in SUBSET {t \in Tasks : Lost(t)},
         NEW verdict \in Verdicts, BeginPass(reaped, verdict)
  PROVE  WorkflowInv'
<1> DEFINE ended == {w \in RunningWorkflows : WorkflowStatus(w, verdict) # "running"}
<1>1. /\ DOMAIN tx' = reaped \cup ended
      /\ \A w \in ended \ reaped :
            tx'[w] = [row[w] EXCEPT !.status = WorkflowStatus(w, verdict)]
      /\ running_workflow_templates' = {Template[w] : w \in RunningWorkflows \ ended}
      /\ row' = row /\ worker' = worker /\ dependencies' = dependencies
  BY DEF BeginPass, tables, celery, visit
<1>2. reaped \cap Workflows = {}
  BY DEF Lost, Workflows
<1>3. \A w \in Workflows : row[w] \in Rows
  BY DEF WorkflowInv, RulesInv, TypeInv, TypeOK, Workflows
<1>4. ASSUME NEW w \in Workflows, w \in DOMAIN tx'
      PROVE  tx'[w].status \in {"canceled", "successful", "failed"}
  <2>1. w \in ended \ reaped /\ w \in RunningWorkflows
    BY <1>1, <1>2, <1>4
  <2>2. WorkflowStatus(w, verdict) \in {"canceled", "successful", "failed"}
    BY <2>1 DEF WorkflowStatus, Verdicts
  <2> HIDE DEF ended
  <2> QED BY <1>1, <1>3, <2>1, <2>2 DEF Rows
<1>5. ASSUME NEW w \in Workflows, View(w)'.status = "running"
      PROVE  row[w].status = "running" /\ w \notin ended
  BY <1>1, <1>2, <1>4, <1>5 DEF View
<1>6. RunningRemembered'
  <2>1. ASSUME NEW w \in Workflows, View(w)'.status = "running"
        PROVE  w \in RunningWorkflows \ ended
    BY <1>5, <2>1 DEF RunningWorkflows, Workflows
  <2> QED BY <1>1, <2>1 DEF RunningRemembered
<1>7. OneWorkflowPerTemplate'
  BY <1>5 DEF WorkflowInv, RowsExclusive, OneWorkflowPerTemplate, Workflows
<1> QED BY <1>1, <1>4, <1>6, <1>7 DEF WorkflowInv, RowsExclusive

(* A step of the pass that sets no workflow job to running.                *)
LEMMA PassRunsNone ==
  ASSUME WorkflowInv, RulesInv', phase = "pass",
         UNCHANGED <<row, worker, running_workflow_templates>>,
         \A w \in Workflows : w \in DOMAIN tx => w \in DOMAIN tx',
         \A w \in Workflows : w \in DOMAIN tx' =>
            \/ w \in DOMAIN tx /\ tx'[w] = tx[w]
            \/ tx'[w].status \notin {"running", "waiting"},
         DOMAIN dependencies' \cap Workflows = {}
  PROVE  WorkflowInv'
<1>1. \A w \in Workflows : View(w)'.status = "running" => View(w).status = "running"
  BY DEF View
<1>2. OneWorkflowPerTemplate'
  BY <1>1 DEF WorkflowInv, OneWorkflowPerTemplate, Workflows
<1>3. RunningRemembered'
  BY <1>1 DEF WorkflowInv, RunningRemembered
<1> QED BY <1>2, <1>3 DEF WorkflowInv, RowsExclusive

(* The updates of a resource are updates.                                  *)
LEMMA UpdatesAreNoWorkflows ==
  ASSUME NEW t \in Tasks, NEW r \in RequiredUpdates(t), NEW u \in Tasks,
         r \in MarksOf(u)
  PROVE  u \notin Workflows
<1>1. r[1] \in {"project_updates", "inventory_source_updates"}
  <2>1. (\E p : r = ProjectKey(p)) \/ (\E x : r = SourceKey(x))
    BY DEF RequiredUpdates
  <2> QED BY <2>1 DEF ProjectKey, SourceKey
<1>2. u \in Workflows => r = <<"workflow_job_template_jobs", Template[u]>>
  BY DEF MarksOf, IsA, Workflows
<1> QED BY <1>1, <1>2

LEMMA GenerateDependenciesWorkflows ==
  ASSUME WorkflowInv, RulesInv', NEW t \in Tasks, NEW expired,
         GenerateDependencies(t, expired)
  PROVE  WorkflowInv'
<1> DEFINE create == ToCreate(t, expired)
           new == {CHOOSE u \in Spare(r) : TRUE : r \in create}
           all == new \cup ToJoin(t, create)
<1>1. new \cap Workflows = {}
  <2>1. ASSUME NEW r \in create
        PROVE  (CHOOSE u \in Spare(r) : TRUE) \notin Workflows
    <3>1. Spare(r) # {} /\ r \in RequiredUpdates(t)
      BY DEF GenerateDependencies, ToCreate
    <3>2. (CHOOSE u \in Spare(r) : TRUE) \in Spare(r)
      BY <3>1
    <3> QED BY <3>1, <3>2, UpdatesAreNoWorkflows DEF Spare
  <2> HIDE DEF create
  <2> QED BY <2>1
<1>2. ToJoin(t, create) \cap Workflows = {}
  BY UpdatesAreNoWorkflows DEF ToJoin, Latest, Existing
<1>3. /\ DOMAIN tx' = DOMAIN tx \cup new
      /\ \A u \in DOMAIN tx \ new : tx'[u] = tx[u]
      /\ DOMAIN dependencies' = all
      /\ phase = "pass" /\ UNCHANGED <<row, worker, running_workflow_templates>>
  BY DEF GenerateDependencies, tables, celery
<1> HIDE DEF new
<1> QED BY <1>1, <1>2, <1>3, PassRunsNone

LEMMA TryStartWorkflows ==
  ASSUME TypeOK, NEW t \in Tasks, NEW read, NEW chain, TryStart(t, read, chain)
  PROVE  /\ DOMAIN tx \subseteq DOMAIN tx' /\ DOMAIN tx' \subseteq DOMAIN tx \cup {t}
         /\ \A u \in DOMAIN tx \ {t} : tx'[u] = tx[u]
<1>1. UNCHANGED tx \/ \E r : tx' = Write(t, r)
  BY Zenon DEF TryStart, StartTask
<1> QED BY <1>1 DEF Write

LEMMA ProcessDependencyWorkflows ==
  ASSUME WorkflowInv, RulesInv', NEW d \in Tasks, ProcessDependency(d)
  PROVE  WorkflowInv'
<1>1. d \notin Workflows /\ phase = "pass" /\ TypeOK
  <2>1. d \in unvisited
    BY DEF ProcessDependency, NextDependency
  <2> QED BY <2>1 DEF WorkflowInv, RulesInv, Placed, TypeInv, TypeOK
<1>2. UNCHANGED <<row, worker, running_workflow_templates, dependencies>>
  BY DEF ProcessDependency, tables, celery
<1>3. /\ DOMAIN tx \subseteq DOMAIN tx' /\ DOMAIN tx' \subseteq DOMAIN tx \cup {d}
      /\ \A u \in DOMAIN tx \ {d} : tx'[u] = tx[u]
  BY <1>1, TryStartWorkflows DEF ProcessDependency
<1> QED BY <1>1, <1>2, <1>3, PassRunsNone DEF WorkflowInv

(* A workflow job is only set to running when its template is not among    *)
(* those of the running ones, and is then put there.                       *)
LEMMA StartWorkflowExclusive ==
  ASSUME WorkflowInv, RulesInv', NEW t \in Workflows, phase = "pass",
         StartWorkflow(t), UNCHANGED <<row, worker>>,
         DOMAIN dependencies' = {}
  PROVE  WorkflowInv'
<1>1. CASE UNCHANGED <<tx, running_workflow_templates>>
  BY <1>1, PassRunsNone
<1>2. CASE /\ t \notin AllowSimultaneous => Template[t] \notin running_workflow_templates
           /\ tx' = Write(t, [InMemory(t) EXCEPT !.status =
                                IF t \in Unstartable THEN "failed" ELSE "running"])
           /\ running_workflow_templates' =
                 running_workflow_templates \cup {Template[t]}
  <2> DEFINE r == [InMemory(t) EXCEPT !.status =
                     IF t \in Unstartable THEN "failed" ELSE "running"]
  <2>1. TypeOK /\ t \in Tasks
    BY DEF WorkflowInv, RulesInv, TypeInv, Workflows
  <2>2. r \in Rows /\ r.status \in {"failed", "running"}
    BY <2>1, InMemoryType DEF Rows, Statuses, Unfinished, Terminal
  <2>3. tx' = Write(t, r)
    BY <1>2
  <2> HIDE DEF r
  <2>4. /\ DOMAIN tx' = DOMAIN tx \cup {t} /\ tx'[t] = r
        /\ \A u \in DOMAIN tx \ {t} : tx'[u] = tx[u]
    BY <2>1, <2>2, <2>3, WriteType
  <2>5. \A w \in Workflows \ {t} : View(w)' = View(w)
    BY <2>4 DEF View
  <2>6. RunningRemembered'
    BY <1>2, <2>5 DEF WorkflowInv, RunningRemembered
  <2>7. \A w \in Workflows \ {t} :
           (Template[w] = Template[t] /\ t \notin AllowSimultaneous)
           => View(w)'.status # "running"
    BY <1>2, <2>5 DEF WorkflowInv, RunningRemembered
  <2>8. OneWorkflowPerTemplate'
    BY <2>5, <2>7 DEF WorkflowInv, OneWorkflowPerTemplate, Workflows
  <2> QED BY <2>2, <2>4, <2>6, <2>8 DEF WorkflowInv, RowsExclusive
<1> QED BY <1>1, <1>2 DEF StartWorkflow

LEMMA ProcessPendingWorkflows ==
  ASSUME WorkflowInv, RulesInv', NEW t \in Tasks, ProcessPending(t)
  PROVE  WorkflowInv'
<1>1. TypeOK /\ phase = "pass"
  BY DEF ProcessPending, WorkflowInv, RulesInv, Placed, TypeInv
<1>2. UNCHANGED <<row, worker>> /\ DOMAIN dependencies' = {}
  BY NoRowsType DEF ProcessPending, tables, celery
<1>3. CASE UNCHANGED <<tx, running_workflow_templates>>
  BY <1>1, <1>2, <1>3, PassRunsNone
<1>4. CASE IsA(t, "workflow_job") /\ StartWorkflow(t)
  BY <1>1, <1>2, <1>4, StartWorkflowExclusive DEF Workflows
<1>5. CASE /\ ~IsA(t, "workflow_job")
           /\ TryStart(t, InMemory(t), FailChain(t, ViewLinks))
           /\ UNCHANGED running_workflow_templates
  <2>1. /\ DOMAIN tx \subseteq DOMAIN tx' /\ DOMAIN tx' \subseteq DOMAIN tx \cup {t}
        /\ \A u \in DOMAIN tx \ {t} : tx'[u] = tx[u]
    BY <1>1, <1>5, TryStartWorkflows
  <2> QED BY <1>1, <1>2, <1>5, <2>1, PassRunsNone DEF Workflows
<1> QED BY <1>3, <1>4, <1>5 DEF ProcessPending

LEMMA CommitWorkflows ==
  ASSUME WorkflowInv, RulesInv', Commit
  PROVE  WorkflowInv'
<1>1. DOMAIN tx' = {} /\ DOMAIN dependencies' = {} /\ phase' # "pass"
  BY NoRowsType DEF Commit, ForgetPass
<1>2. \A w \in Workflows : row'[w] = View(w) /\ View(w)' = View(w)
  BY <1>1 DEF Commit, View, Workflows
<1>3. \A w \in Workflows : worker'[w] = "none"
  BY DEF Commit, Started, Workflows, WorkflowInv
<1>4. RowsExclusive' /\ OneWorkflowPerTemplate'
  BY <1>2 DEF WorkflowInv, RowsExclusive, OneWorkflowPerTemplate, Workflows
<1> QED BY <1>1, <1>3, <1>4 DEF WorkflowInv

(* Nothing that the pass wrote is left: the committed rows are exclusive.  *)
LEMMA PassFailsWorkflows ==
  ASSUME WorkflowInv, RulesInv', PassFails
  PROVE  WorkflowInv'
<1>1. /\ DOMAIN tx' = {} /\ DOMAIN dependencies' = {} /\ phase' # "pass"
      /\ UNCHANGED <<row, worker>>
  BY NoRowsType DEF PassFails, ForgetPass, tables, celery
<1>2. \A w \in Workflows : View(w)' = row[w]
  BY <1>1 DEF View
<1>3. OneWorkflowPerTemplate'
  BY <1>2 DEF WorkflowInv, RowsExclusive, OneWorkflowPerTemplate, Workflows
<1> QED BY <1>1, <1>3 DEF WorkflowInv, RowsExclusive

LEMMA DispatchWorkflows ==
  ASSUME WorkflowInv, RulesInv',
         DispatchCrash \/ \E t \in Tasks : Dispatch(t)
  PROVE  WorkflowInv'
<1>1. /\ UNCHANGED <<row, tx, dependencies, running_workflow_templates>>
      /\ phase' # "pass"
  BY DEF DispatchCrash, Dispatch, tables, visit
<1>2. \A w \in Workflows : w \in Tasks /\ worker[w] = "none"
  BY DEF WorkflowInv, Workflows
<1>3. worker \in [Tasks -> {"none", "outbox", "queued", "stopping", "playbook"}]
  BY DEF WorkflowInv, RulesInv, TypeInv, TypeOK
<1>4. \A w \in Workflows : worker'[w] = "none"
  BY <1>2, <1>3 DEF DispatchCrash, Dispatch, Outbox
<1> QED BY <1>1, <1>4, WorkflowsNotRun

LEMMA InitWorkflows == Init => WorkflowInv
<1> SUFFICES ASSUME Init PROVE WorkflowInv
  OBVIOUS
<1>1. DOMAIN tx = {} /\ DOMAIN dependencies = {} /\ phase # "pass"
  BY NoRowsType DEF Init
<1>2. \A w \in Workflows : /\ row[w].status = "none" /\ View(w).status = "none"
                           /\ worker[w] = "none"
  BY <1>1 DEF Init, NewRow, View, Workflows
<1>3. RowsExclusive /\ OneWorkflowPerTemplate
  BY <1>2 DEF RowsExclusive, OneWorkflowPerTemplate, Workflows
<1> QED BY <1>1, <1>2, <1>3, InitRules DEF WorkflowInv

LEMMA NextWorkflows == WorkflowInv /\ [Next]_vars => WorkflowInv'
<1> SUFFICES ASSUME WorkflowInv, [Next]_vars PROVE WorkflowInv'
  OBVIOUS
<1>1. RulesInv'
  BY NextRules DEF WorkflowInv
<1>2. CASE Schedule
  <2>1. ASSUME NEW reaped \in SUBSET {t \in Tasks : Lost(t)},
               NEW verdict \in Verdicts, BeginPass(reaped, verdict)
        PROVE  WorkflowInv'
    BY <1>1, <2>1, BeginPassWorkflows
  <2>2. CASE PassStep
    BY <1>1, <2>2, GenerateDependenciesWorkflows, ProcessDependencyWorkflows,
       ProcessPendingWorkflows, CommitWorkflows, DispatchWorkflows DEF PassStep
  <2> QED BY <1>1, <1>2, <2>1, <2>2, PassFailsWorkflows, DispatchWorkflows DEF Schedule
<1>3. CASE Environment
  BY <1>1, <1>3, EnvironmentWorkflows
<1>4. CASE UNCHANGED vars
  <2>1. \A w \in Workflows : worker[w] = "none"
    BY DEF WorkflowInv
  <2> QED BY <1>1, <1>4, <2>1, WorkflowsNotRun
           DEF vars, tables, celery, pass, visit
<1> QED BY <1>2, <1>3, <1>4 DEF Next

(* However a pass is interleaved with cancels, launches and failures, and  *)
(* whether or not it is rolled back, no two workflow jobs of a template    *)
(* that forbids it are running, in what the pass sees or in what it has    *)
(* committed.                                                              *)
THEOREM WorkflowsOfATemplateTakeTurns == Spec => []OneWorkflowPerTemplate
<1>1. WorkflowInv => OneWorkflowPerTemplate
  BY DEF WorkflowInv
<1> QED BY <1>1, InitWorkflows, NextWorkflows, PTL DEF Spec

----------------------------------------------------------------------------
(* handle_work_error marks subtasks failed while they run, so what holds   *)
(* of the tasks that celery has needs one of two assumptions: no update is *)
(* ever made a dependency, or nothing fails and nobody cancels.            *)
NoUpdatesOnLaunch ==
    UpdateOnLaunch = {} /\ LaunchSources = {} /\ "edit_sources" \notin Env
NothingFails == Outcomes \subseteq {"successful"} /\ "cancel" \notin Env

Unlinked ==
    /\ dependent_jobs = {} /\ links = {} /\ DOMAIN dependencies = {}
    /\ launch_sources = {} /\ all_inventory_sources = {}
    /\ \A t \in Tasks : row[t].fail_chain = {}
    /\ \A t \in DOMAIN tx : tx[t].fail_chain = {}

NotCanceled ==
    /\ \A t \in Tasks : ~row[t].cancel_flag
    /\ \A t \in DOMAIN tx : ~tx[t].cancel_flag
    /\ \A t \in DOMAIN dependencies : ~dependencies[t].cancel_flag

NoErrors == errors = {} /\ \A t \in Tasks : worker[t] # "stopping"

QuietInv ==
    /\ TypeInv
    /\ NoUpdatesOnLaunch => Unlinked
    /\ "cancel" \notin Env => NotCanceled
    /\ NothingFails => NoErrors

LEMMA InitQuiet == Init => QuietInv
<1> SUFFICES ASSUME Init PROVE QuietInv
  OBVIOUS
<1>1. TypeInv
  BY InitType
<1>2. NoUpdatesOnLaunch => Unlinked
  BY NoRowsType DEF Init, NoUpdatesOnLaunch, Unlinked, NewRow
<1>3. NotCanceled /\ NoErrors
  BY NoRowsType DEF Init, NotCanceled, NoErrors, NewRow
<1> QED BY <1>1, <1>2, <1>3 DEF QuietInv

LEMMA NextUnlinked ==
  ASSUME NoUpdatesOnLaunch, QuietInv, [Next]_vars
  PROVE  Unlinked'
<1>1. TypeInv /\ Unlinked /\ row \in [Tasks -> Rows]
  BY DEF QuietInv, TypeInv, TypeOK
(* A step outside the pass that changes no chain.                          *)
<1>2. ASSUME UNCHANGED <<dependent_jobs, links, dependencies, launch_sources,
                         all_inventory_sources, tx>>,
             \A u \in Tasks : row'[u] = row[u] \/ row'[u].fail_chain = row[u].fail_chain
      PROVE  Unlinked'
  BY <1>1, <1>2 DEF Unlinked
<1>3. CASE Environment
  <2>1. ASSUME NEW t \in Tasks, Launch(t)
        PROVE  Unlinked'
    <3>1. /\ row' = [row EXCEPT ![t] = row'[t]]
          /\ row'[t].fail_chain = row[t].fail_chain
          /\ UNCHANGED <<dependent_jobs, launch_sources, pass>>
      BY <1>1, <2>1, LaunchRows
    <3>2. \A u \in Tasks \ {t} : row'[u] = row[u]
      BY <1>1, <3>1
    <3> QED BY <1>2, <3>1, <3>2 DEF pass, visit
  <2>2. ASSUME NEW t \in Tasks, WorkerStart(t) \/ \E outcome \in Outcomes :
                                                    WorkerFinish(t, outcome)
        PROVE  Unlinked'
    <3>1. /\ row' = [row EXCEPT ![t] = row'[t]] /\ SamePlace(row[t], row'[t])
          /\ UNCHANGED <<dependent_jobs, launch_sources, pass>>
      BY <1>1, <2>2, WorkerStartRows, WorkerFinishRows
    <3>2. \A u \in Tasks \ {t} : row'[u] = row[u]
      BY <1>1, <3>1
    <3> QED BY <1>2, <3>1, <3>2 DEF pass, visit, SamePlace
  <2>3. ASSUME NEW t \in Tasks, Cancel(t) \/ HandleWorkError(t)
        PROVE  Unlinked'
    <3>1. /\ \A u \in Tasks : row'[u] = row[u] \/ SamePlace(row[u], row'[u])
          /\ UNCHANGED <<dependent_jobs, launch_sources, pass>>
      BY <1>1, <2>3, CancelRows, HandleWorkErrorRows
    <3> QED BY <1>2, <3>1 DEF pass, visit, SamePlace
  <2>4. ASSUME NEW t \in Tasks, WorkerCrash(t)
        PROVE  Unlinked'
    BY <1>2, <2>4 DEF WorkerCrash, tables, pass, visit
  <2>5. \A s \in Sources : ~EnableUpdateOnLaunch(s)
    BY DEF EnableUpdateOnLaunch, NoUpdatesOnLaunch
  <2> QED BY <1>3, <2>1, <2>2, <2>3, <2>4, <2>5 DEF Environment
<1>4. ASSUME NEW reaped \in SUBSET {t \in Tasks : Lost(t)},
             NEW verdict \in Verdicts, BeginPass(reaped, verdict)
      PROVE  Unlinked'
  <2>1. /\ all_inventory_sources' \subseteq launch_sources
        /\ \A t \in DOMAIN tx' : t \in Tasks /\ SamePlace(row[t], tx'[t])
        /\ UNCHANGED <<tables, links, visit>>
    BY <1>1, <1>4, BeginPassRows
  <2> QED BY <1>1, <2>1 DEF Unlinked, SamePlace, tables, visit
<1>5. ASSUME NEW t \in Tasks, NEW expired, GenerateDependencies(t, expired)
      PROVE  Unlinked'
  <2>1. PICK new \in SUBSET (Tasks \ Manual), all \in SUBSET Tasks :
           Generated(t, new, all)
    BY <1>1, <1>5, GenerateRows
  <2>2. all = {} /\ new = {}
    BY <1>1, <2>1 DEF Generated, Unlinked, NoUpdatesOnLaunch
  <2> QED BY <1>1, <2>1, <2>2 DEF Generated, Unlinked, tables
<1>6. ASSUME NEW d \in Tasks, ProcessDependency(d)
      PROVE  FALSE
  BY <1>1, <1>6 DEF ProcessDependency, NextDependency, TypeInv, TypeOK, Unlinked
<1>7. ASSUME NEW t \in Tasks, ProcessPending(t)
      PROVE  Unlinked'
  <2>1. /\ DOMAIN dependencies' = {}
        /\ UNCHANGED <<tables, links, all_inventory_sources>>
        /\ \/ UNCHANGED tx
           \/ \E r : Written(t, r) /\ SamePlace(InMemory(t), r)
           \/ \E r : StartRow(t, InMemory(t), FailChain(t, ViewLinks), r)
    BY <1>1, <1>7, ProcessPendingRows
  <2>2. FailChain(t, ViewLinks) = {} /\ InMemory(t).fail_chain = {}
    BY <1>1 DEF Unlinked, ViewLinks, FailChain, DependentJobs, InMemory, NewRow
  <2>3. \A u \in DOMAIN tx' : tx'[u].fail_chain = {}
    BY <1>1, <2>1, <2>2
       DEF Unlinked, StartRow, Written, SamePlace, Refused, Submitted
  <2> QED BY <1>1, <2>1, <2>3 DEF Unlinked, tables
<1>8. CASE Commit
  BY <1>1, <1>8, CommitRows DEF Unlinked, ViewLinks, View
<1>9. CASE PassFails
  BY <1>1, <1>9, PassFailsRows DEF Unlinked, tables
<1>10. CASE DispatchCrash \/ \E t \in Tasks : Dispatch(t)
  BY <1>1, <1>2, <1>10, DispatchRows DEF TypeInv, tables, visit
<1>11. CASE UNCHANGED vars
  BY <1>2, <1>11 DEF vars, tables, pass, visit
<1> QED BY <1>3, <1>4, <1>5, <1>6, <1>7, <1>8, <1>9, <1>10, <1>11
        DEF Next, Schedule, PassStep

LEMMA NextNotCanceled ==
  ASSUME "cancel" \notin Env, QuietInv, [Next]_vars
  PROVE  NotCanceled'
<1>1. TypeInv /\ NotCanceled /\ row \in [Tasks -> Rows]
      /\ \A t \in Tasks : ~View(t).cancel_flag
  BY DEF QuietInv, TypeInv, TypeOK, NotCanceled, View
<1>2. ASSUME UNCHANGED <<dependencies, tx>>,
             \A u \in Tasks : \/ row'[u] = row[u]
                              \/ row'[u].cancel_flag = row[u].cancel_flag
      PROVE  NotCanceled'
  BY <1>1, <1>2 DEF NotCanceled
<1>3. CASE Environment
  <2>1. ASSUME NEW t \in Tasks, Launch(t) \/ WorkerStart(t)
                                \/ \E outcome \in Outcomes : WorkerFinish(t, outcome)
        PROVE  NotCanceled'
    <3>1. /\ row' = [row EXCEPT ![t] = row'[t]]
          /\ row'[t].cancel_flag = row[t].cancel_flag
          /\ UNCHANGED pass
      BY <1>1, <2>1, LaunchRows, WorkerStartRows, WorkerFinishRows
    <3>2. \A u \in Tasks \ {t} : row'[u] = row[u]
      BY <1>1, <3>1
    <3> QED BY <1>2, <3>1, <3>2 DEF pass, visit
  <2>2. ASSUME NEW t \in Tasks, HandleWorkError(t)
        PROVE  NotCanceled'
    <3>1. /\ \A u \in Tasks : row'[u] = row[u] \/ row'[u].cancel_flag = row[u].cancel_flag
          /\ UNCHANGED pass
      BY <1>1, <2>2, HandleWorkErrorRows
    <3> QED BY <1>2, <3>1 DEF pass, visit
  <2>3. ASSUME (\E t \in Tasks : WorkerCrash(t))
               \/ (\E s \in Sources : EnableUpdateOnLaunch(s))
        PROVE  NotCanceled'
    BY <1>2, <2>3 DEF WorkerCrash, EnableUpdateOnLaunch, tables, pass, visit
  <2>4. \A t \in Tasks : ~Cancel(t)
    BY DEF Cancel
  <2> QED BY <1>3, <2>1, <2>2, <2>3, <2>4 DEF Environment
<1>4. ASSUME NEW reaped \in SUBSET {t \in Tasks : Lost(t)},
             NEW verdict \in Verdicts, BeginPass(reaped, verdict)
      PROVE  NotCanceled'
  <2>1. /\ \A t \in DOMAIN tx' : t \in Tasks /\ tx'[t].cancel_flag = row[t].cancel_flag
        /\ UNCHANGED <<tables, visit>>
    BY <1>1, <1>4, BeginPassRows
  <2> QED BY <1>1, <2>1 DEF NotCanceled, tables, visit
<1>5. \A t, u \in Tasks : ~DependencyRow(t, u).cancel_flag /\ ~InMemory(t).cancel_flag
  BY DEF DependencyRow, InMemory, NewRow
<1>6. ASSUME NEW t \in Tasks, NEW expired, GenerateDependencies(t, expired)
      PROVE  NotCanceled'
  <2>1. PICK new \in SUBSET (Tasks \ Manual), all \in SUBSET Tasks :
           Generated(t, new, all)
    BY <1>1, <1>6, GenerateRows
  <2> QED BY <1>1, <1>5, <2>1 DEF Generated, NotCanceled, tables
<1>7. ASSUME NEW d \in Tasks, ProcessDependency(d)
      PROVE  NotCanceled'
  <2>1. /\ d \in unvisited /\ UNCHANGED <<tables, dependencies>>
        /\ tx' = tx \/ \E chain, r : StartRow(d, dependencies[d], chain, r)
    BY <1>1, <1>7, ProcessDependencyRows
  <2>2. d \in DOMAIN dependencies
    BY <1>1, <2>1 DEF TypeInv, TypeOK
  <2> QED BY <1>1, <2>1, <2>2 DEF NotCanceled, StartRow, Written, tables
<1>8. ASSUME NEW t \in Tasks, ProcessPending(t)
      PROVE  NotCanceled'
  <2>1. /\ DOMAIN dependencies' = {} /\ UNCHANGED tables
        /\ \/ UNCHANGED tx
           \/ \E r : Written(t, r) /\ r.cancel_flag = InMemory(t).cancel_flag
    BY <1>1, <1>8, ProcessPendingRows DEF StartRow
  <2> QED BY <1>1, <1>5, <2>1 DEF NotCanceled, Written, tables
<1>9. CASE Commit
  BY <1>1, <1>9, CommitRows DEF NotCanceled
<1>10. CASE PassFails
  BY <1>1, <1>10, PassFailsRows DEF NotCanceled, tables
<1>11. CASE DispatchCrash \/ \E t \in Tasks : Dispatch(t)
  BY <1>1, <1>2, <1>11, DispatchRows DEF TypeInv, tables, visit
<1>12. CASE UNCHANGED vars
  BY <1>2, <1>12 DEF vars, tables, pass, visit
<1> QED BY <1>3, <1>4, <1>6, <1>7, <1>8, <1>9, <1>10, <1>11, <1>12
        DEF Next, Schedule, PassStep

LEMMA NextNoErrors ==
  ASSUME NothingFails, QuietInv, [Next]_vars
  PROVE  NoErrors'
<1>1. /\ TypeInv /\ NoErrors /\ NotCanceled
      /\ worker \in [Tasks -> {"none", "outbox", "queued", "stopping", "playbook"}]
  BY DEF QuietInv, TypeInv, TypeOK, NothingFails
<1>2. ASSUME NEW t \in Tasks, WorkerStart(t) PROVE NoErrors'
  BY <1>1, <1>2, WorkerStartRows DEF NoErrors, NotCanceled
<1>3. ASSUME NEW t \in Tasks, NEW outcome \in Outcomes, WorkerFinish(t, outcome)
      PROVE  NoErrors'
  <2>1. row'[t].status = "successful"
    BY <1>1, <1>3, WorkerFinishRows DEF NoErrors, NotCanceled, NothingFails
  <2> QED BY <1>1, <1>3, <2>1, WorkerFinishRows DEF NoErrors
<1>4. ASSUME NEW t \in Tasks, WorkerCrash(t) \/ HandleWorkError(t) \/ Launch(t) \/ Cancel(t)
      PROVE  NoErrors'
  BY <1>1, <1>4 DEF WorkerCrash, HandleWorkError, Launch, Cancel, celery, NoErrors
<1>5. ASSUME NEW s \in Sources, EnableUpdateOnLaunch(s)
      PROVE  NoErrors'
  BY <1>1, <1>5 DEF EnableUpdateOnLaunch, celery, NoErrors
<1>6. CASE Commit
  BY <1>1, <1>6, CommitRows DEF NoErrors
<1>7. CASE DispatchCrash \/ \E t \in Tasks : Dispatch(t)
  BY <1>1, <1>7, DispatchRows DEF NoErrors, TypeInv
<1>8. CASE UNCHANGED celery
  BY <1>1, <1>8 DEF celery, NoErrors
<1>9. CASE Environment
  BY <1>2, <1>3, <1>4, <1>5, <1>9 DEF Environment
<1>10. CASE Schedule
  <2>1. ASSUME NEW t \in Tasks, NEW expired, GenerateDependencies(t, expired)
        PROVE  UNCHANGED celery
    BY <2>1 DEF GenerateDependencies
  <2>2. ASSUME NEW t \in Tasks, ProcessDependency(t) \/ ProcessPending(t)
        PROVE  UNCHANGED celery
    BY <2>2 DEF ProcessDependency, ProcessPending
  <2>3. ASSUME NEW reaped, NEW verdict, BeginPass(reaped, verdict)
        PROVE  UNCHANGED celery
    BY <2>3 DEF BeginPass
  <2>4. PassFails => UNCHANGED celery
    BY DEF PassFails
  <2> QED BY <1>6, <1>7, <1>8, <1>10, <2>1, <2>2, <2>3, <2>4 DEF Schedule, PassStep
<1>11. CASE UNCHANGED vars
  BY <1>8, <1>11 DEF vars
<1> QED BY <1>9, <1>10, <1>11 DEF Next

LEMMA NextQuiet == QuietInv /\ [Next]_vars => QuietInv'
  BY NextType, NextUnlinked, NextNotCanceled, NextNoErrors DEF QuietInv

----------------------------------------------------------------------------
(* Mutual exclusion of the playbooks.  PassRespectsRules speaks of what a  *)
(* pass reads and starts; what celery does with the tasks in the meantime  *)
(* is tied to it here: a task that celery has, or will get, and that will  *)
(* run its playbook has an active row which the pass has not written, so   *)
(* that the pass has found it among the running tasks.                     *)
HeldRow(t) ==
    /\ worker[t] = "playbook" => row[t].status = "running"
    /\ worker[t] \in {"outbox", "queued"} =>
          row[t].status = "waiting" \/ row[t].cancel_flag

HeldRows ==
    /\ \A t \in Tasks : HeldRow(t)
    /\ \A t \in DOMAIN tx : worker[t] = "none"

(* The tasks whose playbook runs or will run: a submitted task that was    *)
(* canceled is only taken from its queue to be stopped.                    *)
Holds(t) == \/ worker[t] = "playbook"
            \/ worker[t] \in {"outbox", "queued"} /\ ~row[t].cancel_flag
Holding == {t \in Tasks : Holds(t)}

HoldingApart == \A a, b \in Holding : ~Conflict(a, b)
HoldingSeen == phase = "pass" => Holding \subseteq running_tasks

(* As long as nothing fails, the graphs hold the marks of every active     *)
(* task, and a task that the pass is still to visit is pending, or else an *)
(* update that its own marks block.                                        *)
ActiveMarked ==
    phase = "pass" =>
        \A t \in Tasks : (View(t).status \in Active /\ ~IsA(t, "workflow_job")) => Marked(t)
StillPending ==
    \A t \in pending_tasks \cup unvisited :
        View(t).status = "pending" \/ (IsUpdate(t) /\ Marked(t))

MutexInv ==
    /\ WorkflowInv /\ QuietInv /\ HeldRows
    /\ \A d \in DOMAIN dependencies : IsUpdate(d)
    /\ HoldingApart /\ HoldingSeen
    /\ NothingFails => ActiveMarked /\ StillPending

(* An update is blocked by its own marks.                                  *)
LEMMA UpdatesBlockThemselves ==
  ASSUME NEW t \in Tasks, IsUpdate(t), Marked(t)
  PROVE  Blocked(t)
<1>1. PICK g \in Groups : MarksOf(t) \subseteq graph[g]
  BY DEF Marked
<1>2. MarksOf(t) \cap BlockersOf(t) # {}
  <2>1. CASE IsA(t, "project_update")
    BY <2>1 DEF MarksOf, BlockersOf, IsA
  <2>2. CASE IsA(t, "inventory_update")
    BY <2>2 DEF MarksOf, BlockersOf, IsA
  <2> QED BY <2>1, <2>2 DEF IsUpdate
<1> QED BY <1>1, <1>2 DEF Blocked, IsJobBlocked

LEMMA PlacedView ==
  ASSUME RulesInv, NEW t \in Tasks, View(t).status \in {"none", "pending"}
  PROVE  worker[t] = "none"
  BY DEF RulesInv, Placed, PlacedRow, View

LEMMA InitMutex == Init => MutexInv
<1> SUFFICES ASSUME Init PROVE MutexInv
  OBVIOUS
<1>1. WorkflowInv /\ QuietInv
  BY InitWorkflows, InitQuiet
<1>2. /\ \A t \in Tasks : worker[t] = "none"
      /\ DOMAIN tx = {} /\ DOMAIN dependencies = {}
      /\ pending_tasks = {} /\ unvisited = {} /\ phase = "idle"
  BY NoRowsType DEF Init
<1> QED BY <1>1, <1>2 DEF MutexInv, HeldRows, HeldRow, HoldingApart, HoldingSeen,
                          Holding, Holds, ActiveMarked, StillPending

(* Outside the pass no task comes to be held, and unless somebody cancels  *)
(* no row becomes active, or leaves the status pending or a final one.     *)
Kept(t) ==
    /\ HeldRow(t)' /\ (Holds(t)' => Holds(t))
    /\ worker'[t] # "none" => worker[t] # "none"
    /\ row'[t].status = "none" => row[t].status = "none"
    /\ row'[t].execution_node = row[t].execution_node
Steady(t) ==
    /\ row[t].status = "pending" => row'[t].status = "pending"
    /\ row'[t].status \in Active => row[t].status \in Active
    /\ row[t].status \in Terminal => row'[t].status \in Terminal
EnvironmentHolds ==
    /\ \A t \in Tasks : Kept(t)
    /\ "cancel" \notin Env => \A t \in Tasks : Steady(t)
    /\ \A t \in DOMAIN tx : worker'[t] = "none"

LEMMA EnvironmentHeld ==
  ASSUME MutexInv, "slow_queue" \notin Env, NoUpdatesOnLaunch \/ NothingFails,
         Environment
  PROVE  EnvironmentHolds /\ UNCHANGED pass
<1>1. /\ TypeInv /\ row \in [Tasks -> Rows] /\ DOMAIN tx \subseteq Tasks
      /\ worker \in [Tasks -> {"none", "outbox", "queued", "stopping", "playbook"}]
  BY DEF MutexInv, QuietInv, TypeInv, TypeOK
<1>2. /\ HeldRows /\ \A t \in Tasks : PlacedRow(row[t], t)
      /\ \A t \in DOMAIN tx : worker[t] = "none"
  BY DEF MutexInv, WorkflowInv, RulesInv, Placed, HeldRows
<1>3. /\ NothingFails => NoErrors
      /\ "cancel" \notin Env => NotCanceled
  BY DEF MutexInv, QuietInv
<1>4. ASSUME NEW t \in Tasks, Launch(t)
      PROVE  EnvironmentHolds /\ UNCHANGED pass
  <2>1. /\ row[t].status = "none" /\ worker[t] = "none"
        /\ row' = [row EXCEPT ![t] = row'[t]] /\ row'[t].status = "pending"
        /\ row'[t].execution_node = row[t].execution_node
        /\ UNCHANGED <<worker, pass>>
    BY <1>1, <1>2, <1>4, LaunchRows DEF PlacedRow, celery
  <2>2. \A u \in Tasks \ {t} : row'[u] = row[u]
    BY <1>1, <2>1
  <2>3. \A u \in Tasks : Kept(u)
    BY <1>2, <2>1, <2>2 DEF HeldRows, HeldRow, Holds, Kept
  <2>4. \A u \in Tasks : Steady(u)
    BY <2>1, <2>2 DEF Active, Terminal, Steady
  <2> QED BY <1>2, <2>1, <2>3, <2>4 DEF EnvironmentHolds
<1>5. ASSUME NEW t \in Tasks, Cancel(t)
      PROVE  EnvironmentHolds /\ UNCHANGED pass
  <2>1. /\ "cancel" \in Env /\ UNCHANGED <<worker, pass>>
        /\ \A u \in Tasks : \/ row'[u] = row[u]
                            \/ /\ row'[u].cancel_flag /\ SamePlace(row[u], row'[u])
                               /\ \/ row[u].status = "running" /\ row'[u].status = "running"
                                  \/ /\ row[u].status \in {"pending", "waiting"}
                                     /\ row'[u].status = "canceled"
    BY <1>1, <1>5, CancelRows DEF celery
  <2>2. \A u \in Tasks : Kept(u)
    BY <1>2, <2>1 DEF HeldRows, HeldRow, Holds, Kept, SamePlace
  <2> QED BY <1>2, <2>1, <2>2 DEF EnvironmentHolds
<1>6. ASSUME NEW t \in Tasks, WorkerStart(t)
      PROVE  EnvironmentHolds /\ UNCHANGED pass
  <2>1. /\ worker[t] = "queued" /\ Unlocked(t)
        /\ row' = [row EXCEPT ![t] = row'[t]] /\ row'[t].status = "running"
        /\ row'[t].cancel_flag = row[t].cancel_flag
        /\ row'[t].execution_node = row[t].execution_node
        /\ worker' = [worker EXCEPT ![t] = worker'[t]]
        /\ worker'[t] = IF row[t].cancel_flag THEN "stopping" ELSE "playbook"
        /\ UNCHANGED pass
    BY <1>1, <1>6, WorkerStartRows DEF SamePlace
  <2>2. \A u \in Tasks \ {t} : row'[u] = row[u] /\ worker'[u] = worker[u]
    BY <1>1, <2>1
  <2>3. \A u \in Tasks : Kept(u)
    BY <1>2, <2>1, <2>2 DEF HeldRows, HeldRow, Holds, Kept
  <2>4. \A u \in DOMAIN tx : worker'[u] = "none"
    BY <1>1, <1>2, <2>1, <2>2 DEF Unlocked
  <2>5. "cancel" \notin Env => row[t].status = "waiting"
    BY <1>2, <1>3, <2>1 DEF HeldRows, HeldRow, NotCanceled
  <2>6. "cancel" \notin Env => \A u \in Tasks : Steady(u)
    BY <2>1, <2>2, <2>5 DEF Active, Terminal, Steady
  <2> QED BY <2>1, <2>3, <2>4, <2>6 DEF EnvironmentHolds
<1>7. ASSUME NEW t \in Tasks, NEW outcome \in Outcomes, WorkerFinish(t, outcome)
      PROVE  EnvironmentHolds /\ UNCHANGED pass
  <2>1. /\ worker[t] \in {"stopping", "playbook"} /\ Unlocked(t)
        /\ row' = [row EXCEPT ![t] = row'[t]] /\ row'[t].status \in Terminal
        /\ row'[t].execution_node = row[t].execution_node
        /\ worker' = [worker EXCEPT ![t] = "none"]
        /\ UNCHANGED pass
    BY <1>1, <1>7, WorkerFinishRows DEF SamePlace
  <2>2. \A u \in Tasks \ {t} : row'[u] = row[u] /\ worker'[u] = worker[u]
    BY <1>1, <2>1
  <2>3. worker'[t] = "none" /\ row[t].status # "pending" /\ row'[t].status # "none"
    BY <1>1, <1>2, <2>1 DEF PlacedRow, Terminal
  <2>4. \A u \in Tasks : Kept(u)
    BY <1>2, <2>1, <2>2, <2>3 DEF HeldRows, HeldRow, Holds, Kept
  <2>5. \A u \in DOMAIN tx : worker'[u] = "none"
    BY <1>1, <1>2, <2>2, <2>3
  <2>6. \A u \in Tasks : Steady(u)
    BY <2>1, <2>2, <2>3 DEF Active, Terminal, Steady
  <2> QED BY <2>1, <2>4, <2>5, <2>6 DEF EnvironmentHolds
<1>8. ASSUME NEW t \in Tasks, WorkerCrash(t)
      PROVE  EnvironmentHolds /\ UNCHANGED pass
  <2>1. worker' = [worker EXCEPT ![t] = "none"] /\ row' = row /\ UNCHANGED pass
    BY <1>8 DEF WorkerCrash, tables
  <2>2. worker'[t] = "none" /\ \A u \in Tasks \ {t} : worker'[u] = worker[u]
    BY <1>1, <2>1
  <2>3. \A u \in Tasks : Kept(u) /\ Steady(u)
    BY <1>2, <2>1, <2>2 DEF HeldRows, HeldRow, Holds, Kept, Steady
  <2>4. \A u \in DOMAIN tx : worker'[u] = "none"
    BY <1>1, <1>2, <2>2
  <2> QED BY <2>1, <2>3, <2>4 DEF EnvironmentHolds
(* An error callback finds no chain, or there is none.                     *)
<1>9. ASSUME NEW t \in Tasks, HandleWorkError(t)
      PROVE  EnvironmentHolds /\ UNCHANGED pass
  <2>1. /\ t \in errors /\ UNCHANGED <<worker, pass>>
        /\ \A u \in Tasks : row'[u] = row[u] \/ u \in row[t].fail_chain
    BY <1>1, <1>9, HandleWorkErrorRows
  <2>2. ~NothingFails /\ row[t].fail_chain = {}
    BY <1>3, <2>1 DEF NoErrors, MutexInv, QuietInv, Unlinked
  <2>3. \A u \in Tasks : row'[u] = row[u]
    BY <2>1, <2>2
  <2>4. \A u \in Tasks : Kept(u) /\ Steady(u)
    BY <1>2, <2>1, <2>3 DEF HeldRows, HeldRow, Holds, Kept, Steady
  <2> QED BY <1>2, <2>1, <2>2, <2>4 DEF EnvironmentHolds
<1>10. ASSUME NEW s \in Sources, EnableUpdateOnLaunch(s)
       PROVE  EnvironmentHolds /\ UNCHANGED pass
  <2>1. row' = row /\ worker' = worker /\ UNCHANGED pass
    BY <1>10 DEF EnableUpdateOnLaunch, celery
  <2>2. \A u \in Tasks : Kept(u) /\ Steady(u)
    BY <1>2, <2>1 DEF HeldRows, HeldRow, Holds, Kept, Steady
  <2> QED BY <1>2, <2>1, <2>2 DEF EnvironmentHolds
<1> QED BY <1>4, <1>5, <1>6, <1>7, <1>8, <1>9, <1>10 DEF Environment

LEMMA EnvironmentMutex ==
  ASSUME MutexInv, WorkflowInv', QuietInv', "slow_queue" \notin Env,
         NoUpdatesOnLaunch \/ NothingFails, Environment
  PROVE  MutexInv'
<1>1. EnvironmentHolds /\ UNCHANGED pass
  BY EnvironmentHeld
<1>2. /\ UNCHANGED <<tx, graph, pending_tasks, running_tasks, unvisited,
                     dependencies, phase>>
      /\ pending_tasks \subseteq Tasks /\ unvisited \subseteq Tasks
  BY <1>1 DEF pass, visit, MutexInv, QuietInv, TypeInv, TypeOK
<1>3. HeldRows' /\ Holding' \subseteq Holding
  BY <1>1, <1>2 DEF EnvironmentHolds, Kept, HeldRows, Holding
<1>4. HoldingApart' /\ HoldingSeen'
  BY <1>2, <1>3 DEF MutexInv, HoldingApart, HoldingSeen
<1>5. ASSUME NothingFails PROVE ActiveMarked' /\ StillPending'
  <2>1. \A t \in Tasks : Steady(t)
    BY <1>1, <1>5 DEF EnvironmentHolds, NothingFails
  <2>2. \A t \in Tasks :
           /\ View(t).status = "pending" => View(t)'.status = "pending"
           /\ View(t)'.status \in Active => View(t).status \in Active
           /\ Marked(t)' = Marked(t)
    BY <1>2, <2>1 DEF Steady, View, Marked
  <2> QED BY <1>2, <1>5, <2>2 DEF MutexInv, ActiveMarked, StillPending
<1> QED BY <1>1, <1>2, <1>3, <1>4, <1>5 DEF MutexInv

LEMMA BeginPassMutex ==
  ASSUME MutexInv, WorkflowInv', QuietInv', "slow_queue" \notin Env,
         NEW reaped \in SUBSET {t \in Tasks : Lost(t)},
         NEW verdict \in Verdicts, BeginPass(reaped, verdict)
  PROVE  MutexInv'
<1>1. /\ phase' = "pass"
      /\ \A t \in DOMAIN tx' :
           /\ t \in Tasks /\ tx'[t].status \in Terminal
           /\ Lost(t) \/ IsA(t, "workflow_job")
      /\ running_tasks' = {t \in Tasks : row[t].status \in Active /\ t \notin reaped}
      /\ reaped \subseteq DOMAIN tx'
      /\ pending_tasks' = {t \in Tasks : row[t].status = "pending"}
      /\ pending_tasks' \cap DOMAIN tx' = {}
      /\ UNCHANGED <<row, worker, dependencies, unvisited, current>>
  BY BeginPassRows DEF MutexInv, QuietInv, tables, celery, visit
<1>2. DOMAIN dependencies = {} /\ unvisited = {}
  <2>1. phase # "pass"
    BY DEF BeginPass
  <2> QED BY <2>1 DEF MutexInv, WorkflowInv, RulesInv, Placed, TypeInv, TypeOK
<1>3. \A t \in DOMAIN tx' : worker[t] = "none"
  BY <1>1 DEF Lost, MutexInv, WorkflowInv, Workflows
<1>4. HeldRows'
  BY <1>1, <1>3 DEF MutexInv, HeldRows, HeldRow
<1>5. Holding' = Holding
  BY <1>1 DEF Holding, Holds
<1>6. Holding \subseteq running_tasks'
  BY <1>1, <1>3 DEF MutexInv, HeldRows, HeldRow, Holding, Holds, Active
<1>7. \A t \in Tasks : View(t)' = IF t \in DOMAIN tx' THEN tx'[t] ELSE row[t]
  BY <1>1 DEF View
<1>8. ActiveMarked'
  <2>1. ASSUME NEW t \in Tasks, View(t)'.status \in Active, ~IsA(t, "workflow_job")
        PROVE  Marked(t)'
    <3>1. t \in running_tasks'
      BY <1>1, <1>7, <2>1 DEF Active, Terminal
    <3> QED BY <2>1, <3>1 DEF WorkflowInv, RulesInv, AllMarked
  <2> QED BY <2>1 DEF ActiveMarked
<1>9. StillPending'
  BY <1>1, <1>2, <1>7 DEF StillPending
<1> QED BY <1>1, <1>2, <1>4, <1>5, <1>6, <1>8, <1>9
        DEF MutexInv, HoldingApart, HoldingSeen

(* A step inside the pass that writes rows of tasks that celery has not.   *)
LEMMA InsidePassMutex ==
  ASSUME MutexInv, WorkflowInv', QuietInv', phase = "pass",
         UNCHANGED <<row, worker, phase, running_tasks>>,
         \A t \in DOMAIN tx' : worker[t] = "none",
         \A d \in DOMAIN dependencies' : IsUpdate(d),
         NothingFails => ActiveMarked' /\ StillPending'
  PROVE  MutexInv'
<1>1. HeldRows' /\ Holding' = Holding
  BY DEF MutexInv, HeldRows, HeldRow, Holding, Holds
<1> QED BY <1>1 DEF MutexInv, HoldingApart, HoldingSeen

LEMMA GenerateDependenciesMutex ==
  ASSUME MutexInv, WorkflowInv', QuietInv', NEW t \in Tasks, NEW expired,
         GenerateDependencies(t, expired)
  PROVE  MutexInv'
<1>1. PICK new \in SUBSET (Tasks \ Manual), all \in SUBSET Tasks :
         Generated(t, new, all)
  BY GenerateRows DEF MutexInv, QuietInv
<1>2. /\ phase = "pass" /\ new \subseteq all
      /\ UNCHANGED <<row, worker, phase, running_tasks, pending_tasks, graph>>
      /\ DOMAIN tx' = DOMAIN tx \cup new
      /\ \A u \in DOMAIN tx \ new : tx'[u] = tx[u]
      /\ \A u \in new : View(u).status = "none" /\ tx'[u].status = "pending"
      /\ \A u \in all \ new : View(u).status \in Unfinished
      /\ \A u \in all : IsUpdate(u) /\ ~IsA(u, "workflow_job")
      /\ DOMAIN dependencies' = all /\ unvisited' = all
  <2>1. \A u \in new : DependencyRow(t, u).status = "pending"
    BY DEF DependencyRow, NewRow
  <2>2. \A u \in all : IsUpdate(u) => ~IsA(u, "workflow_job")
    BY DEF IsUpdate, IsA
  <2> QED BY <1>1, <2>1, <2>2 DEF Generated, tables, celery
<1>3. \A u \in DOMAIN tx' : worker[u] = "none"
  BY <1>2, PlacedView DEF MutexInv, HeldRows, WorkflowInv
<1>4. \A u \in Tasks : /\ u \notin new => View(u)' = View(u)
                       /\ u \in new => View(u)'.status = "pending"
                       /\ Marked(u)' = Marked(u)
  BY <1>2 DEF View, Marked
<1>5. ASSUME NothingFails PROVE ActiveMarked' /\ StillPending'
  <2>1. ActiveMarked'
    BY <1>2, <1>4, <1>5 DEF MutexInv, ActiveMarked, Active
  <2>2. ASSUME NEW u \in all
        PROVE  View(u)'.status = "pending" \/ Marked(u)'
    <3>1. u \in Tasks /\ (u \notin new => View(u).status \in Unfinished)
      BY <1>2
    <3>2. View(u).status \in Active => Marked(u)
      BY <1>2, <1>5, <3>1 DEF MutexInv, ActiveMarked
    <3> QED BY <1>4, <3>1, <3>2 DEF Active, Unfinished
  <2>3. ASSUME NEW u \in pending_tasks
        PROVE  View(u)'.status = "pending" \/ (IsUpdate(u) /\ Marked(u)')
    <3>1. u \in Tasks
      BY DEF MutexInv, QuietInv, TypeInv, TypeOK
    <3> QED BY <1>4, <1>5, <3>1 DEF MutexInv, StillPending
  <2> QED BY <1>2, <2>1, <2>2, <2>3 DEF StillPending
<1> QED BY <1>2, <1>3, <1>5, InsidePassMutex

(* A visit to a task that is pending, or none.                             *)
LEMMA VisitMutex ==
  ASSUME MutexInv, WorkflowInv', QuietInv', NEW t \in Tasks, phase = "pass",
         UNCHANGED <<row, worker, phase, running_tasks>>,
         \/ UNCHANGED <<tx, graph>>
         \/ /\ worker[t] = "none"
            /\ \/ tx' = tx
               \/ /\ DOMAIN tx' = DOMAIN tx \cup {t}
                  /\ tx'[t].status \in {"failed", "waiting"} \/ IsA(t, "workflow_job")
                  /\ \A u \in DOMAIN tx \ {t} : tx'[u] = tx[u]
            /\ \/ \E k \in DOMAIN Preferred[t] :
                     graph' = [graph EXCEPT ![Preferred[t][k]] = AddJob(@, t)]
               \/ graph' = graph /\ t \notin pending_tasks' \cup unvisited',
         \A d \in DOMAIN dependencies' : IsUpdate(d),
         pending_tasks' \cup unvisited' \subseteq pending_tasks \cup unvisited,
         t \in pending_tasks' => IsUpdate(t), t \notin unvisited'
  PROVE  MutexInv'
<1>1. /\ graph \in [Groups -> SUBSET Marks] /\ RulesInv'
      /\ \A k \in DOMAIN Preferred[t] : Preferred[t][k] \in Groups
      /\ pending_tasks \cup unvisited \subseteq Tasks
  BY PlacementAssumption DEF MutexInv, QuietInv, TypeInv, TypeOK, WorkflowInv
<1>2. \A d \in DOMAIN tx' : worker[d] = "none"
  BY DEF MutexInv, HeldRows
<1>3. \A u \in Tasks : Marked(u) => Marked(u)'
  BY <1>1 DEF Marked, AddJob
<1>4. \A u \in Tasks \ {t} : View(u)' = View(u)
  BY DEF View
<1>5. UNCHANGED <<tx, graph>> => View(t)' = View(t)
  BY DEF View
<1>6. ~UNCHANGED <<tx, graph>> => Marked(t)' \/ t \notin pending_tasks' \cup unvisited'
  BY <1>1 DEF Marked, AddJob
<1>7. \/ View(t)'.status = View(t).status
      \/ /\ t \in DOMAIN tx' /\ View(t)' = tx'[t]
         /\ tx'[t].status \in {"failed", "waiting"} \/ IsA(t, "workflow_job")
  BY DEF View
<1>8. ASSUME NothingFails PROVE ActiveMarked' /\ StillPending'
  <2>1. ASSUME NEW u \in Tasks, View(u)'.status \in Active, ~IsA(u, "workflow_job")
        PROVE  Marked(u)'
    <3>1. CASE View(u)'.status = View(u).status
      BY <1>3, <1>8, <2>1, <3>1 DEF MutexInv, ActiveMarked
    <3>2. CASE View(u)'.status # View(u).status
      <4>1. u = t /\ t \in DOMAIN tx' /\ tx'[t].status = "waiting"
        BY <1>4, <1>7, <2>1, <3>2 DEF Active
      <4> QED BY <1>1, <4>1 DEF RulesInv, AllMarked, Started
    <3> QED BY <3>1, <3>2
  <2>2. ASSUME NEW u \in pending_tasks' \cup unvisited'
        PROVE  View(u)'.status = "pending" \/ (IsUpdate(u) /\ Marked(u)')
    <3>1. /\ u \in Tasks /\ u \in pending_tasks \cup unvisited
          /\ View(u).status = "pending" \/ (IsUpdate(u) /\ Marked(u))
      BY <1>1, <1>8 DEF MutexInv, StillPending
    <3>2. CASE u # t \/ UNCHANGED <<tx, graph>>
      BY <1>3, <1>4, <1>5, <3>1, <3>2
    <3>3. CASE u = t /\ ~UNCHANGED <<tx, graph>>
      BY <1>6, <3>3
    <3> QED BY <3>2, <3>3
  <2> QED BY <2>1, <2>2 DEF ActiveMarked, StillPending
<1> QED BY <1>2, <1>8, InsidePassMutex

LEMMA ProcessDependencyMutex ==
  ASSUME MutexInv, WorkflowInv', QuietInv', NoUpdatesOnLaunch \/ NothingFails,
         NEW d \in Tasks, ProcessDependency(d)
  PROVE  MutexInv'
<1>1. /\ d \in unvisited /\ unvisited' = unvisited \ {d}
      /\ \/ UNCHANGED <<tx, graph>>
         \/ /\ ~Blocked(d)
            /\ \E k \in DOMAIN Preferred[d] :
                  graph' = [graph EXCEPT ![Preferred[d][k]] = AddJob(@, d)]
            /\ tx' = tx \/ \E chain, r : StartRow(d, dependencies[d], chain, r)
      /\ UNCHANGED <<row, worker, phase, running_tasks, pending_tasks, dependencies>>
  BY ProcessDependencyRows DEF MutexInv, QuietInv, tables, celery
<1>2. d \in DOMAIN dependencies /\ IsUpdate(d) /\ phase = "pass" /\ NothingFails
  BY <1>1 DEF MutexInv, QuietInv, TypeInv, TypeOK, WorkflowInv, RulesInv, Placed,
              Unlinked
<1>3. ~Blocked(d) => worker[d] = "none"
  <2>1. View(d).status = "pending" \/ Marked(d)
    BY <1>1, <1>2 DEF MutexInv, StillPending
  <2> QED BY <1>2, <2>1, UpdatesBlockThemselves, PlacedView DEF MutexInv, WorkflowInv
<1>4. \/ UNCHANGED <<tx, graph>>
      \/ /\ worker[d] = "none"
         /\ \/ tx' = tx
            \/ /\ DOMAIN tx' = DOMAIN tx \cup {d}
               /\ tx'[d].status \in {"failed", "waiting"}
               /\ \A u \in DOMAIN tx \ {d} : tx'[u] = tx[u]
         /\ \E k \in DOMAIN Preferred[d] :
               graph' = [graph EXCEPT ![Preferred[d][k]] = AddJob(@, d)]
  BY <1>1, <1>3 DEF StartRow, Written, Refused, Submitted
<1> QED BY <1>1, <1>2, <1>4, VisitMutex DEF MutexInv

LEMMA ProcessPendingMutex ==
  ASSUME MutexInv, WorkflowInv', QuietInv', NEW t \in Tasks, ProcessPending(t)
  PROVE  MutexInv'
<1>1. /\ current = t /\ unvisited' = {} /\ pending_tasks' = pending_tasks \ {t}
      /\ \/ UNCHANGED <<tx, graph>>
         \/ /\ IsA(t, "workflow_job") /\ UNCHANGED graph
            /\ \E r : Written(t, r)
         \/ /\ \E k \in DOMAIN Preferred[t] :
                  graph' = [graph EXCEPT ![Preferred[t][k]] = AddJob(@, t)]
            /\ tx' = tx \/ \E chain, r : StartRow(t, InMemory(t), chain, r)
      /\ DOMAIN dependencies' = {}
      /\ UNCHANGED <<row, worker, phase, running_tasks>>
  BY ProcessPendingRows DEF MutexInv, QuietInv, tables, celery
<1>2. worker[t] = "none" /\ phase = "pass"
  <2>1. current # NoTask
    BY <1>1, TaskAssumption
  <2> QED BY <1>1, <2>1 DEF MutexInv, WorkflowInv, RulesInv, Placed
<1>3. \/ UNCHANGED <<tx, graph>>
      \/ /\ worker[t] = "none"
         /\ \/ tx' = tx
            \/ /\ DOMAIN tx' = DOMAIN tx \cup {t}
               /\ tx'[t].status \in {"failed", "waiting"} \/ IsA(t, "workflow_job")
               /\ \A u \in DOMAIN tx \ {t} : tx'[u] = tx[u]
         /\ \/ \E k \in DOMAIN Preferred[t] :
                  graph' = [graph EXCEPT ![Preferred[t][k]] = AddJob(@, t)]
            \/ graph' = graph /\ t \notin pending_tasks' \cup unvisited'
  BY <1>1, <1>2 DEF StartRow, Written, Refused, Submitted
<1> QED BY <1>1, <1>2, <1>3, VisitMutex

LEMMA CommitMutex ==
  ASSUME MutexInv, WorkflowInv', QuietInv', Commit
  PROVE  MutexInv'
<1>1. /\ \A t \in Tasks : row'[t] = View(t)
      /\ \A t \in Tasks : worker'[t] = IF t \in Started THEN "outbox" ELSE worker[t]
      /\ DOMAIN tx' = {} /\ DOMAIN dependencies' = {}
      /\ pending_tasks' = {} /\ unvisited' = {}
      /\ phase = "pass" /\ phase' # "pass"
  BY CommitRows
<1>2. /\ HeldRows /\ HoldingApart /\ Holding \subseteq running_tasks
      /\ PassRespectsRules
  BY <1>1 DEF MutexInv, HoldingSeen, WorkflowInv, RulesInv
<1>3. \A t \in Tasks : /\ t \in Started => row'[t].status = "waiting"
                       /\ worker[t] # "none" => row'[t] = row[t] /\ t \notin Started
  BY <1>1, <1>2 DEF HeldRows, View, Started
<1>4. HeldRows'
  BY <1>1, <1>2, <1>3 DEF HeldRows, HeldRow
<1>5. Holding' \subseteq Holding \cup Started
  BY <1>1, <1>3 DEF Holding, Holds
<1>6. Started \subseteq Tasks /\ Holding \subseteq Tasks
  BY DEF Started, Holding, MutexInv, QuietInv, TypeInv, TypeOK
<1>7. HoldingApart'
  <2>1. \A a \in Holding \cup Started, s \in Started : ~Conflict(a, s) /\ ~Conflict(s, a)
    BY <1>2, <1>6, ConflictSymmetric DEF PassRespectsRules
  <2> QED BY <1>2, <1>5, <2>1 DEF HoldingApart
<1>8. HoldingSeen' /\ ActiveMarked' /\ StillPending'
  BY <1>1 DEF HoldingSeen, ActiveMarked, StillPending
<1> QED BY <1>1, <1>4, <1>7, <1>8 DEF MutexInv

LEMMA PassFailsMutex ==
  ASSUME MutexInv, WorkflowInv', QuietInv', PassFails
  PROVE  MutexInv'
<1>1. /\ UNCHANGED <<row, worker>> /\ DOMAIN tx' = {} /\ DOMAIN dependencies' = {}
      /\ pending_tasks' = {} /\ unvisited' = {} /\ phase' # "pass"
  BY PassFailsRows DEF tables, celery
<1>2. HeldRows' /\ Holding' = Holding
  BY <1>1 DEF MutexInv, HeldRows, HeldRow, Holding, Holds
<1> QED BY <1>1, <1>2 DEF MutexInv, HoldingApart, HoldingSeen, ActiveMarked, StillPending

LEMMA DispatchMutex ==
  ASSUME MutexInv, WorkflowInv', QuietInv',
         DispatchCrash \/ \E t \in Tasks : Dispatch(t)
  PROVE  MutexInv'
<1>1. /\ phase = "dispatch" /\ phase' \in {"idle", "dispatch"}
      /\ \A u \in Tasks : \/ worker'[u] = worker[u]
                          \/ worker[u] = "outbox" /\ worker'[u] \in {"queued", "none"}
      /\ UNCHANGED <<row, tx, dependencies, pending_tasks, unvisited>>
  BY DispatchRows DEF MutexInv, QuietInv, TypeInv, tables, visit
<1>2. /\ DOMAIN tx \subseteq Tasks /\ unvisited = {}
  BY <1>1 DEF MutexInv, WorkflowInv, RulesInv, Placed, TypeInv, TypeOK
<1>3. HeldRows' /\ Holding' \subseteq Holding
  BY <1>1, <1>2 DEF MutexInv, HeldRows, HeldRow, Holding, Holds
<1>4. ASSUME NothingFails PROVE StillPending'
  BY <1>1, <1>4 DEF MutexInv, StillPending, View, Marked, DispatchCrash, Dispatch
<1> QED BY <1>1, <1>3, <1>4 DEF MutexInv, HoldingApart, HoldingSeen, ActiveMarked

LEMMA NextMutex ==
  ASSUME "slow_queue" \notin Env, NoUpdatesOnLaunch \/ NothingFails,
         MutexInv, [Next]_vars
  PROVE  MutexInv'
<1>1. WorkflowInv' /\ QuietInv'
  BY NextWorkflows, NextQuiet DEF MutexInv
<1>2. CASE Environment
  BY <1>1, <1>2, EnvironmentMutex
<1>3. CASE Schedule
  <2>1. CASE PassStep
    BY <1>1, <2>1, GenerateDependenciesMutex, ProcessDependencyMutex,
       ProcessPendingMutex, CommitMutex, DispatchMutex DEF PassStep
  <2> QED BY <1>1, <1>3, <2>1, BeginPassMutex, PassFailsMutex, DispatchMutex
          DEF Schedule
<1>4. CASE UNCHANGED vars
  <2>1. UNCHANGED <<row, worker, phase, tx, dependencies, unvisited, pending_tasks,
                    running_tasks, graph>>
    BY <1>4 DEF vars, tables, celery, pass, visit
  <2> QED BY <1>1, <2>1 DEF MutexInv, HeldRows, HeldRow, Holding, Holds, HoldingApart,
               HoldingSeen, ActiveMarked, StillPending, Marked, View
<1> QED BY <1>2, <1>3, <1>4 DEF Next

(* If no submitted task can be taken for lost, then no two playbooks run   *)
(* at a time that the rules forbid to run together, provided that jobs     *)
(* wait for no updates, or that nothing fails and nobody cancels: the runs *)
(* siblings and lostcancel show what happens otherwise, slow_queue what    *)
(* the reaper does to a task that waits in a long queue.                   *)
THEOREM PlaybooksRespectTheRules ==
  ASSUME "slow_queue" \notin Env, NoUpdatesOnLaunch \/ NothingFails
  PROVE  Spec => []MutualExclusion
<1>1. Init => MutexInv
  BY InitMutex
<1>2. MutexInv /\ [Next]_vars => MutexInv'
  BY NextMutex
<1>3. MutexInv => MutualExclusion
  BY DEF MutexInv, MutualExclusion, HoldingApart, Holding, Holds, Executing
<1> QED BY <1>1, <1>2, <1>3, PTL DEF Spec
=============================================================================
