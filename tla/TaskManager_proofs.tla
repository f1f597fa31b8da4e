------------------------- MODULE TaskManager_proofs -------------------------
(***************************************************************************)
(* Proofs about TaskManager, for every set of tasks, groups and instances  *)
(* and every combination of faults.                                        *)
(***************************************************************************)
EXTENDS TaskManager, FiniteSetTheorems, TLAPS

(* The local variables of a pass: a dependency is visited on behalf of a   *)
(* pending task.                                                           *)
VisitOK == unvisited # {} => current \in Tasks
TypeInv == TypeOK /\ VisitOK

DbTypeOK == /\ row \in [Tasks -> Rows]
            /\ dependent_jobs \subseteq Tasks \X Tasks
            /\ launch_sources \subseteq Sources
TxTypeOK == /\ DOMAIN tx \subseteq Tasks
            /\ tx \in [DOMAIN tx -> Rows]

----------------------------------------------------------------------------
(* Rows.                                                                   *)
LEMMA NewRowType == NewRow \in Rows
  BY DEF NewRow, Rows, Statuses, Unfinished, Terminal

LEMMA NoRowsType == NoRows \in [DOMAIN NoRows -> Rows] /\ DOMAIN NoRows = {}
  BY DEF NoRows

LEMMA ViewType ==
  ASSUME TypeOK, NEW t \in Tasks
  PROVE  View(t) \in Rows
  BY DEF TypeOK, View

LEMMA WriteType ==
  ASSUME TypeOK, NEW t \in Tasks, NEW r \in Rows
  PROVE  /\ Write(t, r) \in [DOMAIN Write(t, r) -> Rows]
         /\ DOMAIN Write(t, r) = DOMAIN tx \cup {t}
         /\ Write(t, r)[t] = r
         /\ \A u \in DOMAIN tx \ {t} : Write(t, r)[u] = tx[u]
  BY DEF TypeOK, Write

LEMMA WrittenType ==
  ASSUME TypeOK, NEW t \in Tasks, NEW r \in Rows, tx' = Write(t, r)
  PROVE  TxTypeOK'
<1>1. /\ tx' \in [DOMAIN tx' -> Rows]
      /\ DOMAIN tx' = DOMAIN tx \cup {t}
  BY WriteType
<1>2. DOMAIN tx' \subseteq Tasks
  BY <1>1 DEF TypeOK
<1> QED BY <1>1, <1>2 DEF TxTypeOK

LEMMA InMemoryType ==
  ASSUME TypeOK, NEW t \in Tasks
  PROVE  InMemory(t) \in Rows
  BY ViewType, NewRowType DEF InMemory, Rows, Statuses, Unfinished

LEMMA MarksType ==
  ASSUME NEW S \in SUBSET Tasks
  PROVE  UNION {MarksOf(t) : t \in S} \subseteq Marks
  BY DEF Marks

----------------------------------------------------------------------------
(* A row that start_task submits is placed in a group and on an instance   *)
(* that exist.                                                             *)
LEMMA PlacementType ==
  ASSUME NEW t, NEW g \in Groups, NEW i \in Instances,
         NEW place \in Placements(t, g, i)
  PROVE  place[1] \in Groups /\ place[2] \in Instances
  BY PlacementAssumption DEF Placements

LEMMA StartTaskType ==
  ASSUME TypeOK, NEW t \in Tasks, NEW read \in Rows, NEW g \in Groups,
         NEW i \in Instances, NEW chain \in SUBSET Tasks,
         StartTask(t, read, g, i, chain)
  PROVE  TxTypeOK' /\ charged' \in [Groups -> SUBSET Tasks]
<1>1. CASE UNCHANGED <<tx, charged>>
  BY <1>1 DEF TypeOK, TxTypeOK
<1>2. CASE /\ tx' = Write(t, [read EXCEPT !.status = "failed"])
           /\ UNCHANGED charged
  <2>1. [read EXCEPT !.status = "failed"] \in Rows
    BY DEF Rows, Statuses, Terminal
  <2> QED BY <1>2, <2>1, WrittenType DEF TypeOK
<1>3. ASSUME NEW place \in Placements(t, g, i),
             tx' = Write(t, [read EXCEPT !.status = "waiting",
                                         !.instance_group = place[1],
                                         !.execution_node = place[2],
                                         !.fail_chain = chain]),
             charged' = [charged EXCEPT ![g] = @ \cup {t}]
      PROVE  TxTypeOK' /\ charged' \in [Groups -> SUBSET Tasks]
  <2>1. [read EXCEPT !.status = "waiting", !.instance_group = place[1],
                     !.execution_node = place[2], !.fail_chain = chain] \in Rows
    BY PlacementType DEF Rows, Statuses, Unfinished
  <2> QED BY <1>3, <2>1, WrittenType DEF TypeOK
<1> QED BY <1>1, <1>2, <1>3 DEF StartTask

LEMMA TryStartType ==
  ASSUME TypeOK, NEW t \in Tasks, NEW read \in Rows, NEW chain \in SUBSET Tasks,
         TryStart(t, read, chain)
  PROVE  /\ TxTypeOK'
         /\ graph' \in [Groups -> SUBSET Marks]
         /\ charged' \in [Groups -> SUBSET Tasks]
<1>1. CASE UNCHANGED <<tx, graph, charged>>
  BY <1>1 DEF TypeOK, TxTypeOK
<1>2. ASSUME NEW k \in DOMAIN Preferred[t], NEW i \in Instances,
             graph' = [graph EXCEPT ![Preferred[t][k]] = AddJob(@, t)],
             StartTask(t, read, Preferred[t][k], i, chain)
      PROVE  /\ TxTypeOK'
             /\ graph' \in [Groups -> SUBSET Marks]
             /\ charged' \in [Groups -> SUBSET Tasks]
  <2>1. Preferred[t][k] \in Groups
    BY PlacementAssumption
  <2>2. MarksOf(t) \subseteq Marks
    BY DEF Marks
  <2>3. graph' \in [Groups -> SUBSET Marks]
    BY <1>2, <2>1, <2>2 DEF TypeOK, AddJob
  <2> QED BY <1>2, <2>1, <2>3, StartTaskType
<1> QED BY <1>1, <1>2 DEF TryStart

----------------------------------------------------------------------------
(* The API and the workers write committed rows only.                      *)
LEMMA LaunchType ==
  ASSUME TypeInv, NEW t \in Tasks, Launch(t)
  PROVE  TypeInv'
<1>1. Cardinality(Launched) \in Nat
  <2>1. IsFiniteSet(Launched)
    BY TaskAssumption, FS_Subset DEF Launched
  <2> QED BY <2>1, FS_CardinalityType
<1> DEFINE time == 3 * (Cardinality(Launched) + 1)
<1>2. time \in Int
  BY <1>1
<1>3. row' = [row EXCEPT ![t].status = "pending", ![t].created = time]
  BY DEF Launch
<1> HIDE DEF time
<1>4. ASSUME NEW r \in Rows
      PROVE  [r EXCEPT !.status = "pending", !.created = time] \in Rows
  BY <1>2 DEF Rows, Statuses, Unfinished
<1>5. row' \in [Tasks -> Rows]
  <2>1. row' = [row EXCEPT ![t] = [row[t] EXCEPT !.status = "pending",
                                                 !.created = time]]
    BY <1>3 DEF TypeInv, TypeOK, Rows
  <2>2. row \in [Tasks -> Rows]
    BY DEF TypeInv, TypeOK
  <2> QED BY <1>4, <2>1, <2>2
<1> QED
  BY <1>5 DEF Launch, TypeInv, TypeOK, VisitOK, celery, pass, visit

LEMMA CancelType ==
  ASSUME TypeInv, NEW t \in Tasks, Cancel(t)
  PROVE  TypeInv'
<1>1. ASSUME NEW r \in Rows PROVE Cancelled(r) \in Rows
  <2>1. CASE r.status \in {"pending", "waiting"}
    BY <2>1 DEF Cancelled, Rows, Statuses, Terminal
  <2>2. CASE r.status \notin {"pending", "waiting"}
    BY <2>2 DEF Cancelled, Rows
  <2> QED BY <2>1, <2>2
<1>2. row' \in [Tasks -> Rows]
  BY <1>1 DEF Cancel, TypeInv, TypeOK
<1> QED
  BY <1>2 DEF Cancel, TypeInv, TypeOK, VisitOK, celery, pass, visit

LEMMA EnableUpdateOnLaunchType ==
  ASSUME TypeInv, NEW s \in Sources, EnableUpdateOnLaunch(s)
  PROVE  TypeInv'
  BY DEF EnableUpdateOnLaunch, TypeInv, TypeOK, VisitOK, celery, pass, visit

LEMMA WorkerStartType ==
  ASSUME TypeInv, NEW t \in Tasks, WorkerStart(t)
  PROVE  TypeInv'
<1>1. [row[t] EXCEPT !.status = "running"] \in Rows
  BY DEF TypeInv, TypeOK, Rows, Statuses, Unfinished
<1>2. row' \in [Tasks -> Rows]
  BY <1>1 DEF WorkerStart, TypeInv, TypeOK
<1> QED
  BY <1>2 DEF WorkerStart, TypeInv, TypeOK, VisitOK, pass, visit

LEMMA WorkerFinishType ==
  ASSUME TypeInv, NEW t \in Tasks, NEW outcome \in Outcomes,
         WorkerFinish(t, outcome)
  PROVE  TypeInv'
<1>b. PICK final \in FinalStatuses(t, outcome) :
         /\ row' = [row EXCEPT ![t].status = final]
         /\ errors' = IF final = "successful" THEN errors ELSE errors \cup {t}
  BY DEF WorkerFinish
<1>1. final \in Statuses
  BY EnvironmentAssumption DEF FinalStatuses, Statuses, Terminal
<1>a. row[t] \in Rows
  BY DEF TypeInv, TypeOK
<1>2. [row[t] EXCEPT !.status = final] \in Rows
  BY ONLY <1>a, <1>1 DEF Rows
<1>3. /\ row' = [row EXCEPT ![t].status = final]
      /\ worker' = [worker EXCEPT ![t] = "none"]
      /\ errors' = IF final = "successful" THEN errors ELSE errors \cup {t}
      /\ UNCHANGED <<dependent_jobs, launch_sources, pass>>
  BY <1>b DEF WorkerFinish
<1>4. row' \in [Tasks -> Rows]
  BY <1>2, <1>3 DEF TypeInv, TypeOK
<1> QED
  BY <1>3, <1>4 DEF TypeInv, TypeOK, VisitOK, pass, visit

LEMMA WorkerCrashType ==
  ASSUME TypeInv, NEW t \in Tasks, WorkerCrash(t)
  PROVE  TypeInv'
  BY DEF WorkerCrash, TypeInv, TypeOK, VisitOK, tables, pass, visit

LEMMA HandleWorkErrorType ==
  ASSUME TypeInv, NEW t \in Tasks, HandleWorkError(t)
  PROVE  TypeInv'
<1>1. \A u \in Tasks : [row[u] EXCEPT !.status = "failed"] \in Rows
  BY DEF TypeInv, TypeOK, Rows, Statuses, Terminal
<1>2. row' \in [Tasks -> Rows]
  BY <1>1 DEF HandleWorkError, TypeInv, TypeOK
<1> QED
  BY <1>2 DEF HandleWorkError, TypeInv, TypeOK, VisitOK, pass, visit

----------------------------------------------------------------------------
(* The pass.                                                               *)
LEMMA BeginPassType ==
  ASSUME TypeInv, NEW reaped \in SUBSET Tasks, NEW verdict \in Verdicts,
         BeginPass(reaped, verdict)
  PROVE  TypeInv'
<1> DEFINE seen == [t \in Tasks |-> IF t \in reaped THEN Reaped(row[t]) ELSE row[t]]
           ended == {w \in RunningWorkflows : WorkflowStatus(w, verdict) # "running"}
           tasks == {t \in Tasks : seen[t].status \in Unfinished}
           running == {t \in tasks : seen[t].status \in Active}
<1>1. \A t \in Tasks : Reaped(row[t]) \in Rows
  BY DEF TypeInv, TypeOK, Reaped, Rows, Statuses, Terminal
<1>2. \A t \in RunningWorkflows :
         [row[t] EXCEPT !.status = WorkflowStatus(t, verdict)] \in Rows
  <2>1. ASSUME NEW t \in RunningWorkflows
        PROVE  WorkflowStatus(t, verdict) \in Statuses
    BY DEF Verdicts, WorkflowStatus, Statuses, Unfinished, Terminal
  <2>2. ASSUME NEW r \in Rows, NEW status \in Statuses
        PROVE  [r EXCEPT !.status = status] \in Rows
    BY DEF Rows
  <2> QED BY <2>1, <2>2 DEF RunningWorkflows, TypeInv, TypeOK
<1>3. TxTypeOK'
  <2>1. tx' = [t \in reaped \cup ended |->
                 IF t \in reaped THEN seen[t]
                 ELSE [row[t] EXCEPT !.status = WorkflowStatus(t, verdict)]]
    BY DEF BeginPass
  <2>2. \A t \in reaped : seen[t] \in Rows
    BY <1>1
  <2>3. ended \subseteq RunningWorkflows /\ ended \subseteq Tasks
    BY DEF RunningWorkflows
  <2> HIDE DEF seen, ended
  <2> QED BY <1>2, <2>1, <2>2, <2>3 DEF TxTypeOK
<1>4. all_inventory_sources' \subseteq Sources
  BY DEF BeginPass, TypeInv, TypeOK
<1>5. running_tasks' \subseteq Tasks /\ pending_tasks' \subseteq Tasks
  BY DEF BeginPass
<1>6. graph' \in [Groups -> SUBSET Marks]
  <2>1. graph' = [g \in Groups |->
                    UNION {MarksOf(t) : t \in {u \in running : row[u].instance_group = g}}]
    BY DEF BeginPass
  <2>2. running \subseteq Tasks
    OBVIOUS
  <2> HIDE DEF running
  <2>3. \A g \in Groups :
           UNION {MarksOf(t) : t \in {u \in running : row[u].instance_group = g}}
             \subseteq Marks
    BY <2>2 DEF Marks
  <2> QED BY <2>1, <2>3
<1>7. charged' \in [Groups -> SUBSET Tasks]
  BY DEF BeginPass
<1>8. running_workflow_templates' \subseteq {Template[t] : t \in Tasks}
  BY DEF BeginPass, RunningWorkflows
<1>9. phase' = "pass" /\ UNCHANGED <<tables, celery, links, visit>>
  BY DEF BeginPass
<1> QED
  BY <1>3, <1>4, <1>5, <1>6, <1>7, <1>8, <1>9
     DEF TypeInv, TypeOK, TxTypeOK, VisitOK, tables, celery, visit

(* The updates that a pass creates or joins are rows of the table.         *)
LEMMA DependencyRowType ==
  ASSUME TypeOK, NEW t \in Tasks, NEW u
  PROVE  DependencyRow(t, u) \in Rows
<1> DEFINE time == View(t).created - (IF IsA(u, "project_update") THEN 1 ELSE 2)
<1>1. time \in Int
  BY ViewType DEF Rows
<1> HIDE DEF time
<1>2. [NewRow EXCEPT !.status = "pending", !.created = time] \in Rows
  BY <1>1, NewRowType DEF Rows, Statuses, Unfinished
<1> QED BY <1>2 DEF DependencyRow, time

LEMMA GenerateDependenciesType ==
  ASSUME TypeInv, NEW t \in Tasks, NEW expired, GenerateDependencies(t, expired)
  PROVE  TypeInv'
<1> DEFINE create == ToCreate(t, expired)
           new == {CHOOSE u \in Spare(r) : TRUE : r \in create}
           all == new \cup ToJoin(t, create)
<1>1. new \subseteq Tasks
  <2>1. \A r \in create : Spare(r) # {} /\ Spare(r) \subseteq Tasks
    BY DEF GenerateDependencies, Spare
  <2> HIDE DEF create
  <2> QED BY <2>1
<1>2. all \subseteq Tasks
  BY <1>1 DEF ToJoin
<1>3. /\ tx' = [u \in DOMAIN tx \cup new |->
                  IF u \in new THEN DependencyRow(t, u) ELSE tx[u]]
      /\ links' = IF all = {} THEN links ELSE links \cup Clique({t} \cup all)
      /\ current' = t
      /\ dependencies' =
            [u \in all |-> IF u \in new THEN DependencyRow(t, u) ELSE View(u)]
      /\ unvisited' = all
      /\ UNCHANGED <<tables, celery, phase, all_inventory_sources,
                     running_tasks, pending_tasks, graph, charged,
                     running_workflow_templates>>
  BY DEF GenerateDependencies
<1> HIDE DEF new, all
<1>4. TxTypeOK'
  BY <1>1, <1>3, DependencyRowType DEF TypeInv, TypeOK, TxTypeOK
<1>5. links' \subseteq Tasks \X Tasks
  BY <1>2, <1>3 DEF Clique, TypeInv, TypeOK
<1>6. dependencies' \in [all -> Rows]
  BY <1>2, <1>3, DependencyRowType, ViewType DEF TypeInv
<1> QED
  BY <1>2, <1>3, <1>4, <1>5, <1>6
     DEF TypeInv, TypeOK, TxTypeOK, VisitOK, tables, celery

LEMMA ProcessDependencyType ==
  ASSUME TypeInv, NEW d \in Tasks, ProcessDependency(d)
  PROVE  TypeInv'
<1>1. d \in unvisited /\ current \in Tasks /\ dependencies[d] \in Rows
  BY DEF ProcessDependency, NextDependency, TypeInv, TypeOK, VisitOK
<1>2. /\ TxTypeOK'
      /\ graph' \in [Groups -> SUBSET Marks]
      /\ charged' \in [Groups -> SUBSET Tasks]
  <2>1. CASE UNCHANGED <<tx, graph, charged>>
    BY <2>1 DEF TypeInv, TypeOK, TxTypeOK
  <2>2. CASE TryStart(d, dependencies[d],
                      (DOMAIN dependencies \ {d}) \cup {current})
    <3>1. (DOMAIN dependencies \ {d}) \cup {current} \in SUBSET Tasks
      BY <1>1 DEF TypeInv, TypeOK
    <3> QED BY <1>1, <2>2, <3>1, TryStartType DEF TypeInv
  <2> QED BY <2>1, <2>2 DEF ProcessDependency
<1> QED
  BY <1>1, <1>2 DEF ProcessDependency, TypeInv, TypeOK, TxTypeOK, VisitOK,
                    tables, celery

LEMMA ProcessPendingType ==
  ASSUME TypeInv, NEW t \in Tasks, ProcessPending(t)
  PROVE  TypeInv'
<1>1. /\ TxTypeOK'
      /\ graph' \in [Groups -> SUBSET Marks]
      /\ charged' \in [Groups -> SUBSET Tasks]
      /\ running_workflow_templates' \subseteq {Template[u] : u \in Tasks}
  <2>1. CASE UNCHANGED <<tx, graph, charged, running_workflow_templates>>
    BY <2>1 DEF TypeInv, TypeOK, TxTypeOK
  <2>2. CASE StartWorkflow(t) /\ UNCHANGED <<graph, charged>>
    <3>1. CASE UNCHANGED <<tx, running_workflow_templates>>
      BY <2>2, <3>1 DEF TypeInv, TypeOK, TxTypeOK
    <3>2. CASE /\ tx' = Write(t, [InMemory(t) EXCEPT !.status =
                                 IF t \in Unstartable THEN "failed" ELSE "running"])
               /\ running_workflow_templates' =
                     running_workflow_templates \cup {Template[t]}
      <4>1. InMemory(t) \in Rows
        BY InMemoryType DEF TypeInv
      <4>2. [InMemory(t) EXCEPT !.status =
               IF t \in Unstartable THEN "failed" ELSE "running"] \in Rows
        BY <4>1 DEF Rows, Statuses, Unfinished, Terminal
      <4>3. TxTypeOK'
        BY <3>2, <4>2, WrittenType DEF TypeInv
      <4> QED BY <2>2, <3>2, <4>3 DEF TypeInv, TypeOK
    <3> QED BY <2>2, <3>1, <3>2 DEF StartWorkflow
  <2>3. CASE /\ TryStart(t, InMemory(t), FailChain(t, ViewLinks))
             /\ UNCHANGED running_workflow_templates
    <3>1. FailChain(t, ViewLinks) \in SUBSET Tasks
      BY DEF FailChain, DependentJobs
    <3>2. InMemory(t) \in Rows
      BY InMemoryType DEF TypeInv
    <3>3. /\ TxTypeOK'
          /\ graph' \in [Groups -> SUBSET Marks]
          /\ charged' \in [Groups -> SUBSET Tasks]
      BY <2>3, <3>1, <3>2, TryStartType DEF TypeInv
    <3> QED BY <2>3, <3>3 DEF TypeInv, TypeOK
  <2> QED BY <2>1, <2>2, <2>3 DEF ProcessPending
<1>2. /\ pending_tasks' \subseteq Tasks
      /\ current' = NoTask /\ dependencies' = NoRows /\ unvisited = {}
      /\ UNCHANGED <<tables, celery, phase, links, all_inventory_sources,
                     running_tasks, unvisited>>
  BY DEF ProcessPending, TypeInv, TypeOK
<1> QED
  BY <1>1, <1>2, NoRowsType
     DEF TypeInv, TypeOK, TxTypeOK, VisitOK, tables, celery

LEMMA ForgetPassType ==
  ASSUME ForgetPass
  PROVE  /\ TxTypeOK' /\ VisitOK' /\ links' = {} /\ all_inventory_sources' = {}
         /\ running_tasks' = {} /\ pending_tasks' = {} /\ current' = NoTask
         /\ dependencies' = NoRows /\ unvisited' = {}
         /\ graph' \in [Groups -> SUBSET Marks]
         /\ charged' \in [Groups -> SUBSET Tasks]
         /\ running_workflow_templates' = {}
  BY NoRowsType DEF ForgetPass, TxTypeOK, VisitOK

LEMMA CommitType ==
  ASSUME TypeInv, Commit
  PROVE  TypeInv'
<1>1. row' \in [Tasks -> Rows]
  BY ViewType DEF Commit, TypeInv
<1>2. dependent_jobs' \subseteq Tasks \X Tasks
  BY DEF Commit, ViewLinks, TypeInv, TypeOK
<1>3. worker' \in [Tasks -> {"none", "outbox", "queued", "stopping", "playbook"}]
  BY DEF Commit, TypeInv, TypeOK
<1>4. phase' \in {"idle", "pass", "dispatch"} /\ UNCHANGED <<launch_sources, errors>>
  BY DEF Commit
<1>5. ForgetPass
  BY DEF Commit
<1> QED
  BY <1>1, <1>2, <1>3, <1>4, <1>5, ForgetPassType, NoRowsType
     DEF TypeInv, TypeOK, TxTypeOK

LEMMA PassFailsType ==
  ASSUME TypeInv, PassFails
  PROVE  TypeInv'
<1>1. ForgetPass /\ phase' = "idle" /\ UNCHANGED <<tables, celery>>
  BY DEF PassFails
<1> QED
  BY <1>1, ForgetPassType, NoRowsType
     DEF TypeInv, TypeOK, TxTypeOK, tables, celery

LEMMA DispatchType ==
  ASSUME TypeInv, NEW t \in Tasks, Dispatch(t)
  PROVE  TypeInv'
  BY DEF Dispatch, TypeInv, TypeOK, VisitOK, tables, visit

LEMMA DispatchCrashType ==
  ASSUME TypeInv, DispatchCrash
  PROVE  TypeInv'
  BY DEF DispatchCrash, TypeInv, TypeOK, VisitOK, tables, visit

----------------------------------------------------------------------------
LEMMA InitType == Init => TypeInv
<1> SUFFICES ASSUME Init PROVE TypeInv
  OBVIOUS
<1>1. row \in [Tasks -> Rows]
  BY NewRowType DEF Init
<1>2. launch_sources \subseteq Sources
  BY EnvironmentAssumption DEF Init
<1> QED BY <1>1, <1>2, NoRowsType DEF Init, TypeInv, TypeOK, VisitOK

LEMMA NextType == TypeInv /\ [Next]_vars => TypeInv'
<1> SUFFICES ASSUME TypeInv, [Next]_vars PROVE TypeInv'
  OBVIOUS
<1>1. CASE Schedule
  <2>1. ASSUME NEW reaped \in SUBSET {t \in Tasks : Lost(t)},
               NEW verdict \in Verdicts, BeginPass(reaped, verdict)
        PROVE  TypeInv'
    BY <2>1, BeginPassType
  <2>2. CASE PassStep
    BY <2>2, GenerateDependenciesType, ProcessDependencyType, ProcessPendingType,
       CommitType, DispatchType DEF PassStep
  <2> QED BY <1>1, <2>1, <2>2, PassFailsType, DispatchCrashType DEF Schedule
<1>2. CASE Environment
  BY <1>2, LaunchType, CancelType, EnableUpdateOnLaunchType, WorkerStartType,
     WorkerFinishType, WorkerCrashType, HandleWorkErrorType DEF Environment
<1>3. CASE UNCHANGED vars
  BY <1>3 DEF TypeInv, TypeOK, VisitOK, vars, tables, celery, pass, visit
<1> QED BY <1>1, <1>2, <1>3 DEF Next

(* Every reachable state is well typed, for every table of tasks, every    *)
(* arrangement of groups and every combination of faults.                  *)
THEOREM TypeCorrect == Spec => []TypeOK
<1>1. TypeInv => TypeOK
  BY DEF TypeInv
<1> QED BY <1>1, InitType, NextType, PTL DEF Spec
----------------------------------------------------------------------------
(* What each step writes, row by row, for the invariants that follow.      *)

(* Only status and cancel_flag of the row differ.                          *)
SamePlace(r, s) ==
    /\ s.instance_group = r.instance_group /\ s.execution_node = r.execution_node
    /\ s.created = r.created /\ s.fail_chain = r.fail_chain

LEMMA LaunchRows ==
  ASSUME TypeInv, NEW t \in Tasks, Launch(t)
  PROVE  /\ t \in Manual /\ row[t].status = "none"
         /\ row' = [row EXCEPT ![t] = row'[t]] /\ row'[t] \in Rows
         /\ row'[t].status = "pending" /\ row'[t].cancel_flag = row[t].cancel_flag
         /\ row'[t].created = 3 * (Cardinality(Launched) + 1)
         /\ row'[t].execution_node = row[t].execution_node
         /\ row'[t].instance_group = row[t].instance_group
         /\ row'[t].fail_chain = row[t].fail_chain
         /\ UNCHANGED <<dependent_jobs, launch_sources, celery, pass>>
<1>1. row \in [Tasks -> Rows] /\ row' \in [Tasks -> Rows]
  BY LaunchType DEF TypeInv, TypeOK
<1>2. row' = [row EXCEPT ![t] = [row[t] EXCEPT !.status = "pending",
                                 !.created = 3 * (Cardinality(Launched) + 1)]]
  BY <1>1 DEF Launch, Rows
<1>3. row'[t] = [row[t] EXCEPT !.status = "pending",
                               !.created = 3 * (Cardinality(Launched) + 1)]
  BY <1>1, <1>2
<1>4. row' = [row EXCEPT ![t] = row'[t]]
  BY <1>2, <1>3
<1> QED BY <1>1, <1>3, <1>4 DEF Launch, Rows

LEMMA CancelRows ==
  ASSUME TypeInv, NEW t \in Tasks, Cancel(t)
  PROVE  /\ "cancel" \in Env
         /\ \A u \in Tasks :
              \/ row'[u] = row[u]
              \/ /\ row'[u] \in Rows /\ SamePlace(row[u], row'[u])
                 /\ Unlocked(u) /\ row[u].status \in Unfinished
                 /\ row'[u].cancel_flag
                 /\ \/ row[u].status = "running" /\ row'[u].status = "running"
                    \/ /\ row[u].status \in {"pending", "waiting"}
                       /\ row'[u].status = "canceled"
         /\ UNCHANGED <<dependent_jobs, launch_sources, celery, pass>>
<1> SUFFICES ASSUME NEW u \in Tasks, row'[u] # row[u]
             PROVE  /\ row'[u] \in Rows /\ SamePlace(row[u], row'[u])
                    /\ Unlocked(u) /\ row[u].status \in Unfinished
                    /\ row'[u].cancel_flag
                    /\ \/ row[u].status = "running" /\ row'[u].status = "running"
                       \/ /\ row[u].status \in {"pending", "waiting"}
                          /\ row'[u].status = "canceled"
  BY DEF Cancel
<1>1. row[u] \in Rows /\ row'[u] \in Rows
  BY CancelType DEF TypeInv, TypeOK
<1>2. row'[u] = Cancelled(row[u]) /\ Unlocked(u) /\ row[u].status \in Unfinished
  BY DEF Cancel
<1>3. CASE row[u].status \in {"pending", "waiting"}
  BY <1>1, <1>2, <1>3 DEF Cancelled, Rows, SamePlace
<1>4. CASE row[u].status = "running"
  BY <1>1, <1>2, <1>4 DEF Cancelled, Rows, SamePlace
<1> QED BY <1>1, <1>2, <1>3, <1>4 DEF Unfinished

LEMMA WorkerStartRows ==
  ASSUME TypeInv, NEW t \in Tasks, WorkerStart(t)
  PROVE  /\ worker[t] = "queued" /\ Unlocked(t)
         /\ row' = [row EXCEPT ![t] = row'[t]] /\ row'[t] \in Rows
         /\ row'[t].status = "running" /\ row'[t].cancel_flag = row[t].cancel_flag
         /\ SamePlace(row[t], row'[t])
         /\ worker' = [worker EXCEPT ![t] = worker'[t]]
         /\ worker'[t] = IF row[t].cancel_flag THEN "stopping" ELSE "playbook"
         /\ UNCHANGED <<dependent_jobs, launch_sources, errors, pass>>
<1>1. /\ row \in [Tasks -> Rows] /\ row' \in [Tasks -> Rows]
      /\ worker \in [Tasks -> {"none", "outbox", "queued", "stopping", "playbook"}]
  BY WorkerStartType DEF TypeInv, TypeOK
<1>2. row' = [row EXCEPT ![t] = [row[t] EXCEPT !.status = "running"]]
  BY <1>1 DEF WorkerStart
<1>3. row'[t] = [row[t] EXCEPT !.status = "running"]
  BY <1>1, <1>2
<1>4. row' = [row EXCEPT ![t] = row'[t]]
  BY <1>2, <1>3
<1>5. worker' = [worker EXCEPT ![t] = worker'[t]]
      /\ worker'[t] = IF row[t].cancel_flag THEN "stopping" ELSE "playbook"
  BY <1>1 DEF WorkerStart
<1> QED BY <1>1, <1>3, <1>4, <1>5 DEF WorkerStart, Rows, SamePlace

LEMMA WorkerFinishRows ==
  ASSUME TypeInv, NEW t \in Tasks, NEW outcome \in Outcomes, WorkerFinish(t, outcome)
  PROVE  /\ worker[t] \in {"stopping", "playbook"} /\ Unlocked(t)
         /\ row' = [row EXCEPT ![t] = row'[t]] /\ row'[t] \in Rows
         /\ \/ row'[t].status = outcome
            \/ row'[t].status = "canceled" /\ (worker[t] = "stopping" \/ row[t].cancel_flag)
         /\ worker[t] = "stopping" => row'[t].status = "canceled"
         /\ row'[t].status \in Terminal /\ row'[t].cancel_flag = row[t].cancel_flag
         /\ SamePlace(row[t], row'[t])
         /\ worker' = [worker EXCEPT ![t] = "none"]
         /\ errors' = IF row'[t].status = "successful" THEN errors ELSE errors \cup {t}
         /\ UNCHANGED <<dependent_jobs, launch_sources, pass>>
<1>1. row \in [Tasks -> Rows] /\ row' \in [Tasks -> Rows]
  BY WorkerFinishType DEF TypeInv, TypeOK
<1>3. PICK final \in FinalStatuses(t, outcome) :
         /\ row' = [row EXCEPT ![t].status = final]
         /\ errors' = IF final = "successful" THEN errors ELSE errors \cup {t}
  BY DEF WorkerFinish
<1>2. final \in Terminal
  BY EnvironmentAssumption DEF FinalStatuses, Terminal
<1>4. row'[t] = [row[t] EXCEPT !.status = final]
  BY <1>1, <1>3
<1>5. row' = [row EXCEPT ![t] = row'[t]]
  BY <1>1, <1>3, <1>4
<1>6. /\ row'[t].status = final /\ row'[t].cancel_flag = row[t].cancel_flag
      /\ SamePlace(row[t], row'[t])
  BY <1>1, <1>4 DEF Rows, SamePlace
<1>7. /\ final = outcome \/ (final = "canceled" /\ (worker[t] = "stopping" \/ row[t].cancel_flag))
      /\ worker[t] = "stopping" => final = "canceled"
  BY DEF FinalStatuses
<1> QED BY <1>1, <1>2, <1>3, <1>5, <1>6, <1>7 DEF WorkerFinish

LEMMA HandleWorkErrorRows ==
  ASSUME TypeInv, NEW t \in Tasks, HandleWorkError(t)
  PROVE  /\ t \in errors /\ errors' = errors \ {t}
         /\ \A u \in Tasks :
              \/ row'[u] = row[u]
              \/ /\ u \in row[t].fail_chain /\ u # t
                 /\ row'[u] \in Rows /\ SamePlace(row[u], row'[u])
                 /\ Unlocked(u) /\ row'[u].status = "failed"
                 /\ row'[u].cancel_flag = row[u].cancel_flag
         /\ UNCHANGED <<dependent_jobs, launch_sources, worker, pass>>
<1> SUFFICES ASSUME NEW u \in Tasks, row'[u] # row[u]
             PROVE  /\ u \in row[t].fail_chain /\ u # t
                    /\ row'[u] \in Rows /\ SamePlace(row[u], row'[u])
                    /\ Unlocked(u) /\ row'[u].status = "failed"
                    /\ row'[u].cancel_flag = row[u].cancel_flag
  BY DEF HandleWorkError
<1>1. row[u] \in Rows /\ row'[u] \in Rows
  BY HandleWorkErrorType DEF TypeInv, TypeOK
<1>2. /\ row'[u] = [row[u] EXCEPT !.status = "failed"] /\ Unlocked(u)
      /\ u \in row[t].fail_chain /\ u # t
  BY DEF HandleWorkError
<1> QED BY <1>1, <1>2 DEF Rows, SamePlace
(* The pass reads the rows once; what it writes first are final statuses.  *)
LEMMA BeginPassRows ==
  ASSUME TypeInv, NEW reaped \in SUBSET {t \in Tasks : Lost(t)},
         NEW verdict \in Verdicts, BeginPass(reaped, verdict)
  PROVE  /\ phase = "idle" /\ phase' = "pass"
         /\ \A t \in DOMAIN tx' :
              /\ t \in Tasks /\ tx'[t] \in Rows
              /\ tx'[t].status \in Terminal /\ row[t].status \in Active
              /\ Lost(t) \/ (IsA(t, "workflow_job") /\ row[t].status = "running")
              /\ SamePlace(row[t], tx'[t])
              /\ tx'[t].cancel_flag = row[t].cancel_flag
         /\ running_tasks' = {t \in Tasks : row[t].status \in Active /\ t \notin reaped}
         /\ reaped \subseteq DOMAIN tx'
         /\ pending_tasks' = {t \in Tasks : row[t].status = "pending"}
         /\ pending_tasks' \cap DOMAIN tx' = {}
         /\ graph' = [g \in Groups |->
                        UNION {MarksOf(t) :
                           t \in {u \in running_tasks' : row[u].instance_group = g}}]
         /\ all_inventory_sources' \subseteq launch_sources
         /\ UNCHANGED <<tables, celery, links, visit>>
<1> DEFINE seen == [t \in Tasks |-> IF t \in reaped THEN Reaped(row[t]) ELSE row[t]]
           ended == {w \in RunningWorkflows : WorkflowStatus(w, verdict) # "running"}
           tasks == {t \in Tasks : seen[t].status \in Unfinished}
           running == {t \in tasks : seen[t].status \in Active}
<1>1. /\ tx' = [t \in reaped \cup ended |->
                 IF t \in reaped THEN seen[t]
                 ELSE [row[t] EXCEPT !.status = WorkflowStatus(t, verdict)]]
      /\ running_tasks' = running /\ pending_tasks' = tasks \ running
      /\ graph' = [g \in Groups |->
                     UNION {MarksOf(t) : t \in {u \in running : row[u].instance_group = g}}]
      /\ phase = "idle" /\ phase' = "pass"
      /\ all_inventory_sources' \subseteq launch_sources
      /\ UNCHANGED <<tables, celery, links, visit>>
  BY DEF BeginPass
<1>2. \A t \in Tasks : row[t] \in Rows
  BY DEF TypeInv, TypeOK
<1>3. ASSUME NEW t \in reaped
      PROVE  /\ t \in Tasks /\ Lost(t) /\ row[t].status \in Active
             /\ seen[t] \in Rows /\ seen[t].status \in Terminal
             /\ SamePlace(row[t], seen[t]) /\ seen[t].cancel_flag = row[t].cancel_flag
  <2>1. seen[t] = Reaped(row[t]) /\ row[t] \in Rows /\ Lost(t)
    BY <1>2
  <2> HIDE DEF seen
  <2> QED BY <2>1 DEF Reaped, Rows, Lost, SamePlace, Terminal, Statuses
<1>4. ASSUME NEW t \in ended
      PROVE  /\ t \in Tasks /\ IsA(t, "workflow_job") /\ row[t].status = "running"
             /\ WorkflowStatus(t, verdict) \in Terminal
  BY DEF RunningWorkflows, Verdicts, WorkflowStatus, Terminal
<1>5. \A t \in Tasks \ reaped : seen[t] = row[t]
  OBVIOUS
<1>6. running = {t \in Tasks : row[t].status \in Active /\ t \notin reaped}
  BY <1>3, <1>5 DEF Active, Terminal, Unfinished
<1>7. tasks \ running = {t \in Tasks : row[t].status = "pending"}
  BY <1>3, <1>5 DEF Active, Terminal, Unfinished
<1> HIDE DEF seen, ended, tasks, running
<1>8. ASSUME NEW t \in DOMAIN tx'
      PROVE  /\ t \in Tasks /\ tx'[t] \in Rows
             /\ tx'[t].status \in Terminal /\ row[t].status \in Active
             /\ Lost(t) \/ (IsA(t, "workflow_job") /\ row[t].status = "running")
             /\ SamePlace(row[t], tx'[t])
             /\ tx'[t].cancel_flag = row[t].cancel_flag
  <2>1. CASE t \in reaped
    BY <1>1, <1>3, <2>1
  <2>2. CASE t \notin reaped
    <3>1. t \in ended /\ tx'[t] = [row[t] EXCEPT !.status = WorkflowStatus(t, verdict)]
      BY <1>1, <2>2
    <3> QED BY <1>2, <1>4, <3>1 DEF Rows, SamePlace, Terminal, Statuses, Active
  <2> QED BY <2>1, <2>2
<1>9. pending_tasks' \cap DOMAIN tx' = {}
  BY <1>1, <1>7, <1>8 DEF Active
<1> QED BY <1>1, <1>6, <1>7, <1>8, <1>9

(* generate_dependencies: the rows of new updates, and the dependencies.   *)
IsUpdate(t) == IsA(t, "project_update") \/ IsA(t, "inventory_update")

LEMMA UpdatesOfAResource ==
  ASSUME NEW t \in Tasks, NEW r \in RequiredUpdates(t)
  PROVE  /\ IsA(t, "job") /\ r[1] \in {"project_updates", "inventory_source_updates"}
         /\ \A u \in Tasks : r \in MarksOf(u) => IsUpdate(u)
<1>1. /\ IsA(t, "job")
      /\ \/ \E p : r = <<"project_updates", p>>
         \/ \E s : r = <<"inventory_source_updates", s>>
  BY DEF RequiredUpdates, ProjectKey, SourceKey
<1>2. ASSUME NEW u \in Tasks, r \in MarksOf(u) PROVE IsUpdate(u)
  <2>1. Kind[u] \in Kinds
    BY KindAssumption
  <2> QED BY <1>1, <1>2, <2>1 DEF MarksOf, IsA, IsUpdate, Kinds
<1> QED BY <1>1, <1>2

(* new are the updates that the step creates for t, all its dependencies.  *)
Generated(t, new, all) ==
    /\ phase = "pass" /\ current = NoTask /\ t \in pending_tasks
    /\ new \subseteq all /\ (all # {} => IsA(t, "job"))
    /\ \A u \in new : /\ View(u).status = "none"
                      /\ ~AlreadyProcessed(t)
                      /\ tx'[u] = DependencyRow(t, u)
                      /\ dependencies'[u] = DependencyRow(t, u)
    /\ \A u \in all : IsUpdate(u)
    /\ \A u \in all \ new : /\ View(u).status \in Unfinished
                            /\ dependencies'[u] = View(u)
    /\ DOMAIN tx' = DOMAIN tx \cup new
    /\ \A u \in DOMAIN tx \ new : tx'[u] = tx[u]
    /\ links' = IF all = {} THEN links ELSE links \cup Clique({t} \cup all)
    /\ DOMAIN dependencies' = all /\ unvisited' = all /\ current' = t
    /\ \A u, v \in new : u # v => MarksOf(u) \cap MarksOf(v) \cap UpdateKeys = {}
    /\ (UpdateOnLaunch = {} /\ all_inventory_sources = {}) => all = {}
    /\ UNCHANGED <<tables, celery, phase, all_inventory_sources,
                   running_tasks, pending_tasks, graph, charged,
                   running_workflow_templates>>

LEMMA GenerateRows ==
  ASSUME TypeInv, NEW t \in Tasks, NEW expired, GenerateDependencies(t, expired)
  PROVE  \E new \in SUBSET (Tasks \ Manual), all \in SUBSET Tasks : Generated(t, new, all)
<1> DEFINE create == ToCreate(t, expired)
           NewUpdate(r) == CHOOSE u \in Spare(r) : TRUE
           new == {NewUpdate(r) : r \in create}
           all == new \cup ToJoin(t, create)
<1>1. ASSUME NEW r \in create
      PROVE  /\ r \in RequiredUpdates(t) /\ ~AlreadyProcessed(t)
             /\ NewUpdate(r) \in Tasks \ Manual /\ r \in MarksOf(NewUpdate(r))
             /\ View(NewUpdate(r)).status = "none"
  <2>1. r \in RequiredUpdates(t) /\ ~AlreadyProcessed(t) /\ Spare(r) # {}
    BY DEF GenerateDependencies, ToCreate
  <2>2. NewUpdate(r) \in Spare(r)
    BY <2>1
  <2> HIDE DEF NewUpdate
  <2> QED BY <2>1, <2>2 DEF Spare
<1>2. /\ tx' = [u \in DOMAIN tx \cup new |->
                  IF u \in new THEN DependencyRow(t, u) ELSE tx[u]]
      /\ links' = IF all = {} THEN links ELSE links \cup Clique({t} \cup all)
      /\ current' = t /\ t \in pending_tasks /\ phase = "pass" /\ current = NoTask
      /\ dependencies' =
            [u \in all |-> IF u \in new THEN DependencyRow(t, u) ELSE View(u)]
      /\ unvisited' = all
      /\ UNCHANGED <<tables, celery, phase, all_inventory_sources,
                     running_tasks, pending_tasks, graph, charged,
                     running_workflow_templates>>
  BY DEF GenerateDependencies, Oldest
<1>3. ASSUME NEW u \in ToJoin(t, create)
      PROVE  /\ u \in Tasks /\ View(u).status \in Unfinished /\ IsUpdate(u)
             /\ IsA(t, "job") /\ RequiredUpdates(t) # {}
  <2>1. PICK r \in RequiredUpdates(t) : Latest(r, u)
    BY DEF ToJoin
  <2>2. u \in Tasks /\ View(u).status \in Unfinished /\ r \in MarksOf(u)
    BY <2>1 DEF ToJoin, Latest, Existing
  <2> QED BY <2>1, <2>2, UpdatesOfAResource
<1>4. ASSUME NEW u \in new
      PROVE  /\ u \in Tasks \ Manual /\ View(u).status = "none" /\ IsUpdate(u)
             /\ IsA(t, "job") /\ RequiredUpdates(t) # {} /\ ~AlreadyProcessed(t)
  <2>1. PICK r \in create : u = NewUpdate(r)
    OBVIOUS
  <2> HIDE DEF create, NewUpdate
  <2> QED BY <1>1, <2>1, UpdatesOfAResource
<1>5. ASSUME NEW u \in new, NEW v \in new, u # v
      PROVE  MarksOf(u) \cap MarksOf(v) \cap UpdateKeys = {}
  <2>1. PICK q \in create, r \in create : u = NewUpdate(q) /\ v = NewUpdate(r)
    OBVIOUS
  <2> HIDE DEF create
  <2>2. /\ q \in RequiredUpdates(t) /\ q \in MarksOf(u) /\ u \in Tasks
        /\ r \in RequiredUpdates(t) /\ r \in MarksOf(v) /\ v \in Tasks
        /\ q # r
    BY <1>1, <2>1, <1>5
  <2> HIDE DEF NewUpdate, new, all
  <2>3. ASSUME NEW w \in Tasks, NEW k \in MarksOf(w) \cap UpdateKeys,
               NEW l \in MarksOf(w), l[1] \in {"project_updates", "inventory_source_updates"}
        PROVE  k = l
    <3>1. k[1] \in {"project_updates", "inventory_source_updates"}
      BY DEF UpdateKeys, ProjectKey, SourceKey
    <3>2. Kind[w] \in Kinds
      BY KindAssumption
    <3> QED BY <2>3, <3>1, <3>2 DEF MarksOf, IsA, Kinds
  <2> QED BY <2>2, <2>3, UpdatesOfAResource
<1>6. new \in SUBSET (Tasks \ Manual) /\ all \in SUBSET Tasks
  BY <1>3, <1>4
<1>7. (UpdateOnLaunch = {} /\ all_inventory_sources = {}) => all = {}
  <2>1. (UpdateOnLaunch = {} /\ all_inventory_sources = {}) => RequiredUpdates(t) = {}
    BY DEF RequiredUpdates
  <2> QED BY <1>3, <1>4, <2>1
<1> HIDE DEF new
<1>8. all # {} => IsA(t, "job")
  BY <1>3, <1>4
<1>9. /\ \A u \in all : IsUpdate(u)
      /\ \A u \in all \ new : View(u).status \in Unfinished
  BY <1>3, <1>4
<1> HIDE DEF all
<1>10. new \subseteq all
  BY DEF all
<1>11. /\ \A u \in new : tx'[u] = DependencyRow(t, u)
       /\ \A u \in DOMAIN tx \ new : tx'[u] = tx[u]
       /\ DOMAIN tx' = DOMAIN tx \cup new
  BY <1>2
<1>12. /\ \A u \in new : dependencies'[u] = DependencyRow(t, u)
       /\ \A u \in all \ new : dependencies'[u] = View(u)
       /\ DOMAIN dependencies' = all
  BY <1>2, <1>10
<1>13. links' = IF all = {} THEN links ELSE links \cup Clique({t} \cup all)
  BY <1>2
<1>14. Generated(t, new, all)
  BY <1>2, <1>4, <1>5, <1>7, <1>8, <1>9, <1>10, <1>11, <1>12, <1>13 DEF Generated
<1> QED BY <1>6, <1>14

(* A visit of the pass writes the row of the visited task or none.         *)
Written(t, r) ==
    /\ r \in Rows
    /\ DOMAIN tx' = DOMAIN tx \cup {t} /\ tx'[t] = r
    /\ \A u \in DOMAIN tx \ {t} : tx'[u] = tx[u]

(* The row that start_task writes, from the one that was read.             *)
Refused(t, read, r) ==
    t \in Unstartable /\ r.status = "failed" /\ SamePlace(read, r)

Submitted(t, read, chain, r) ==
    /\ t \notin Unstartable /\ r.status = "waiting"
    /\ r.created = read.created /\ r.fail_chain = chain
    /\ \E k \in DOMAIN Preferred[t], i \in Instances :
          /\ Chosen(t, k, i)
          /\ <<r.instance_group, r.execution_node>> \in Placements(t, Preferred[t][k], i)

StartRow(t, read, chain, r) ==
    /\ Written(t, r) /\ r.cancel_flag = read.cancel_flag
    /\ Refused(t, read, r) \/ Submitted(t, read, chain, r)

LEMMA TryStartRows ==
  ASSUME TypeOK, NEW t \in Tasks, NEW read \in Rows, NEW chain \in SUBSET Tasks,
         TryStart(t, read, chain)
  PROVE  \/ UNCHANGED <<tx, graph>>
         \/ /\ \E k \in DOMAIN Preferred[t] :
                  graph' = [graph EXCEPT ![Preferred[t][k]] = AddJob(@, t)]
            /\ tx' = tx \/ \E r : StartRow(t, read, chain, r)
<1> SUFFICES ASSUME NEW k \in DOMAIN Preferred[t], NEW i \in Instances,
                    Chosen(t, k, i),
                    StartTask(t, read, Preferred[t][k], i, chain)
             PROVE  tx' = tx \/ \E r : StartRow(t, read, chain, r)
  BY Zenon DEF TryStart
<1>1. Preferred[t][k] \in Groups
  BY PlacementAssumption
<1>2. CASE tx' = tx
  BY <1>2
<1>3. CASE t \in Unstartable /\ tx' = Write(t, [read EXCEPT !.status = "failed"])
  <2> DEFINE r == [read EXCEPT !.status = "failed"]
  <2>1. /\ r \in Rows /\ r.status = "failed" /\ SamePlace(read, r)
        /\ r.cancel_flag = read.cancel_flag
    BY DEF Rows, Statuses, Terminal, SamePlace
  <2>2. tx' = Write(t, r)
    BY <1>3
  <2> HIDE DEF r
  <2>3. Written(t, r)
    BY <2>1, <2>2, WriteType DEF Written
  <2>4. StartRow(t, read, chain, r)
    BY <1>3, <2>1, <2>3 DEF StartRow, Refused
  <2> QED BY <2>4
<1>4. CASE /\ t \notin Unstartable
           /\ \E place \in Placements(t, Preferred[t][k], i) :
                 tx' = Write(t, [read EXCEPT !.status = "waiting",
                                             !.instance_group = place[1],
                                             !.execution_node = place[2],
                                             !.fail_chain = chain])
  <2>1. PICK place \in Placements(t, Preferred[t][k], i) :
                 tx' = Write(t, [read EXCEPT !.status = "waiting",
                                             !.instance_group = place[1],
                                             !.execution_node = place[2],
                                             !.fail_chain = chain])
    BY <1>4
  <2> DEFINE r == [read EXCEPT !.status = "waiting", !.instance_group = place[1],
                               !.execution_node = place[2], !.fail_chain = chain]
  <2>2. place[1] \in Groups /\ place[2] \in Instances /\ place = <<place[1], place[2]>>
    BY <1>1, PlacementAssumption DEF Placements
  <2>3. /\ r \in Rows /\ r.status = "waiting" /\ r.cancel_flag = read.cancel_flag
        /\ r.created = read.created /\ r.fail_chain = chain
        /\ r.instance_group = place[1] /\ r.execution_node = place[2]
    BY <2>2 DEF Rows, Statuses, Unfinished
  <2>4. tx' = Write(t, r)
    BY <2>1
  <2> HIDE DEF r
  <2>5. Written(t, r)
    BY <2>3, <2>4, WriteType DEF Written
  <2>6. <<r.instance_group, r.execution_node>> \in Placements(t, Preferred[t][k], i)
    BY <2>2, <2>3
  <2>7. StartRow(t, read, chain, r)
    BY <1>4, <2>3, <2>5, <2>6 DEF StartRow, Submitted
  <2> QED BY <2>7
<1> QED BY <1>2, <1>3, <1>4 DEF StartTask

(* A dependency keeps what it was when the pass read it.                   *)
LEMMA ProcessDependencyRows ==
  ASSUME TypeInv, NEW d \in Tasks, ProcessDependency(d)
  PROVE  /\ d \in unvisited /\ current \in Tasks /\ dependencies[d] \in Rows
         /\ unvisited' = unvisited \ {d}
         /\ \/ UNCHANGED <<tx, graph>>
            \/ /\ ~Blocked(d)
               /\ \E k \in DOMAIN Preferred[d] :
                     graph' = [graph EXCEPT ![Preferred[d][k]] = AddJob(@, d)]
               /\ \/ tx' = tx
                  \/ \E r : StartRow(d, dependencies[d],
                                     (DOMAIN dependencies \ {d}) \cup {current}, r)
         /\ UNCHANGED <<tables, celery, phase, links, all_inventory_sources,
                        running_tasks, pending_tasks, current, dependencies,
                        running_workflow_templates>>
<1>1. /\ d \in unvisited /\ current \in Tasks /\ dependencies[d] \in Rows
      /\ (DOMAIN dependencies \ {d}) \cup {current} \in SUBSET Tasks
      /\ TypeOK
  BY DEF ProcessDependency, NextDependency, TypeInv, TypeOK, VisitOK
<1>2. CASE UNCHANGED <<tx, graph, charged>>
  BY <1>1, <1>2 DEF ProcessDependency
<1>3. CASE /\ ~Blocked(d)
           /\ TryStart(d, dependencies[d], (DOMAIN dependencies \ {d}) \cup {current})
  <2>1. \/ UNCHANGED <<tx, graph>>
        \/ /\ \E k \in DOMAIN Preferred[d] :
                 graph' = [graph EXCEPT ![Preferred[d][k]] = AddJob(@, d)]
           /\ \/ tx' = tx
              \/ \E r : StartRow(d, dependencies[d],
                                 (DOMAIN dependencies \ {d}) \cup {current}, r)
    BY <1>1, <1>3, TryStartRows
  <2> QED BY <1>1, <1>3, <2>1 DEF ProcessDependency
<1> QED BY <1>2, <1>3 DEF ProcessDependency

LEMMA ProcessPendingRows ==
  ASSUME TypeInv, NEW t \in Tasks, ProcessPending(t)
  PROVE  /\ current = t /\ unvisited = {} /\ InMemory(t) \in Rows
         /\ \/ UNCHANGED <<tx, graph>>
            \/ /\ ~Blocked(t) /\ IsA(t, "workflow_job") /\ UNCHANGED graph
               /\ \E r : /\ Written(t, r) /\ SamePlace(InMemory(t), r)
                         /\ r.cancel_flag = InMemory(t).cancel_flag
                         /\ r.status \in {"failed", "running"}
            \/ /\ ~Blocked(t) /\ ~IsA(t, "workflow_job")
               /\ \E k \in DOMAIN Preferred[t] :
                     graph' = [graph EXCEPT ![Preferred[t][k]] = AddJob(@, t)]
               /\ \/ tx' = tx
                  \/ \E r : StartRow(t, InMemory(t), FailChain(t, ViewLinks), r)
         /\ pending_tasks' = pending_tasks \ {t} /\ current' = NoTask
         /\ DOMAIN dependencies' = {}
         /\ UNCHANGED <<tables, celery, phase, links, all_inventory_sources,
                        running_tasks, unvisited>>
<1>1. /\ TypeOK /\ InMemory(t) \in Rows /\ FailChain(t, ViewLinks) \in SUBSET Tasks
      /\ DOMAIN NoRows = {}
  BY InMemoryType, NoRowsType DEF FailChain, DependentJobs, TypeInv
<1>2. CASE UNCHANGED <<tx, graph>>
  BY <1>1, <1>2 DEF ProcessPending
<1>3. CASE /\ ~Blocked(t) /\ IsA(t, "workflow_job") /\ UNCHANGED graph
           /\ tx' = Write(t, [InMemory(t) EXCEPT !.status =
                                IF t \in Unstartable THEN "failed" ELSE "running"])
  <2> DEFINE r == [InMemory(t) EXCEPT !.status =
                     IF t \in Unstartable THEN "failed" ELSE "running"]
  <2>1. /\ r \in Rows /\ r.status \in {"failed", "running"}
        /\ SamePlace(InMemory(t), r) /\ r.cancel_flag = InMemory(t).cancel_flag
    BY <1>1 DEF Rows, Statuses, Unfinished, Terminal, SamePlace
  <2>2. tx' = Write(t, r)
    BY <1>3
  <2> HIDE DEF r
  <2>3. Written(t, r)
    BY <1>1, <2>1, <2>2, WriteType DEF Written
  <2> QED BY <1>1, <1>3, <2>1, <2>3 DEF ProcessPending
<1>4. CASE /\ ~Blocked(t) /\ ~IsA(t, "workflow_job")
           /\ TryStart(t, InMemory(t), FailChain(t, ViewLinks))
  <2>1. \/ UNCHANGED <<tx, graph>>
        \/ /\ \E k \in DOMAIN Preferred[t] :
                 graph' = [graph EXCEPT ![Preferred[t][k]] = AddJob(@, t)]
           /\ tx' = tx \/ \E r : StartRow(t, InMemory(t), FailChain(t, ViewLinks), r)
    BY <1>1, <1>4, TryStartRows
  <2> QED BY <1>1, <1>4, <2>1 DEF ProcessPending
<1> QED BY <1>2, <1>3, <1>4 DEF ProcessPending, StartWorkflow

(* The end of a pass.                                                      *)
LEMMA CommitRows ==
  ASSUME Commit
  PROVE  /\ \A t \in Tasks : row'[t] = View(t) /\ View(t)' = row'[t]
         /\ \A t \in Tasks :
               worker'[t] = IF t \in Started THEN "outbox" ELSE worker[t]
         /\ DOMAIN tx' = {} /\ DOMAIN dependencies' = {} /\ links' = {}
         /\ dependent_jobs' = ViewLinks /\ ViewLinks' = ViewLinks
         /\ pending_tasks' = {} /\ unvisited' = {} /\ current' = NoTask
         /\ all_inventory_sources' = {} /\ Started' = {}
         /\ phase = "pass" /\ phase' # "pass" /\ pending_tasks = {}
         /\ UNCHANGED <<launch_sources, errors>>
  BY NoRowsType DEF Commit, ForgetPass, View, ViewLinks, Started

LEMMA PassFailsRows ==
  ASSUME PassFails
  PROVE  /\ \A t \in Tasks : View(t)' = row[t]
         /\ DOMAIN tx' = {} /\ DOMAIN dependencies' = {} /\ links' = {}
         /\ ViewLinks' = dependent_jobs
         /\ pending_tasks' = {} /\ unvisited' = {} /\ current' = NoTask
         /\ all_inventory_sources' = {} /\ Started' = {}
         /\ phase = "pass" /\ phase' = "idle"
         /\ UNCHANGED <<tables, celery>>
  BY NoRowsType DEF PassFails, ForgetPass, View, ViewLinks, Started, tables

LEMMA DispatchRows ==
  ASSUME TypeOK, DispatchCrash \/ \E t \in Tasks : Dispatch(t)
  PROVE  /\ phase = "dispatch" /\ phase' \in {"idle", "dispatch"}
         /\ \A u \in Tasks : \/ worker'[u] = worker[u]
                             \/ worker[u] = "outbox" /\ worker'[u] \in {"queued", "none"}
         /\ UNCHANGED <<tables, errors, tx, links, all_inventory_sources,
                        running_tasks, pending_tasks, visit, graph, charged,
                        running_workflow_templates>>
  BY DEF DispatchCrash, Dispatch, Outbox, TypeOK

=============================================================================
