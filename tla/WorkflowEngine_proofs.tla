----------------------- MODULE WorkflowEngine_proofs -----------------------
(***************************************************************************)
(* Proofs about WorkflowEngine, for every forest of nodes.                 *)
(*                                                                         *)
(* A node whose job was successful or failed must never change again, or   *)
(* the children that were started for it are on a path that is no longer   *)
(* selected.  It is with no worker (Held), and no step of a pass writes    *)
(* it.  The exception is the reaper of a slow queue, which fails a job     *)
(* whose message a worker takes later: these theorems exclude that fault.  *)
(*                                                                         *)
(* The last two sections are about templates that are deleted and about    *)
(* the cancel of the workflow job.                                         *)
(***************************************************************************)
EXTENDS WorkflowEngine, TLAPS

(* A worker that knows the final status of its job has yet to write it.    *)
WorkerStates == {"none", "queued", "stopping", "playbook"} \cup Terminal

EngineTypes ==
    /\ row \in [Tasks -> Rows]
    /\ worker \in [Nodes -> WorkerStates]
    /\ phase \in {"idle", "finish", "spawn", "start", "commit"}
    /\ DOMAIN tx \subseteq Tasks
    /\ tx \in [DOMAIN tx -> Rows]
    /\ pending \subseteq Tasks
    /\ phase = "idle" => DOMAIN tx = {} /\ pending = {} /\ running_workflow_jobs = {}
    /\ running_workflow_jobs \subseteq Rows

Settled == {"successful", "failed"}

(* A job that was not submitted, or has an outcome, is not with a worker;  *)
(* and the pass has not settled a task that it may still start.            *)
HeldRow(r, n) ==
    r.status \in {"none", "pending"} \cup Settled => worker[n] = "none"

Held ==
    /\ \A n \in Nodes : HeldRow(row[n], n)
    /\ \A n \in DOMAIN tx \ {Workflow} : HeldRow(tx[n], n)
    /\ \A n \in pending \ {Workflow} :
          /\ worker[n] = "none"
          /\ View(n).status \in {"pending", "waiting", "canceled"}

(* RightPath of the rows that the pass sees.                               *)
Selected(n) == n \in Roots \/ \E p \in Nodes : n \in Followed(p)
ViewOnPath == \A n \in Nodes : HasJob(n) => Selected(n)

PathInv == EngineTypes /\ Held /\ RightPath /\ ViewOnPath

----------------------------------------------------------------------------
(* The walk.                                                               *)
LEMMA FollowedType ==
  ASSUME NEW n \in Nodes
  PROVE  Followed(n) \subseteq Nodes
  BY NodeAssumption DEF Followed

(* What is visited is a root or a child that is followed.                  *)
LEMMA VisitedSelected ==
  ASSUME NEW n \in Visited({})
  PROVE  n \in Nodes /\ Selected(n)
<1>1. n \in Nodes
  BY DEF Visited
<1>2. SUFFICES ASSUME ~Selected(n) PROVE FALSE
  BY <1>1
<1>3. /\ Nodes \ {n} \in SUBSET Nodes
      /\ Roots \subseteq Nodes \ {n}
      /\ \A m \in (Nodes \ {n}) \ {} : Followed(m) \subseteq Nodes \ {n}
  BY <1>2, FollowedType DEF Selected, Roots
<1> QED BY <1>3 DEF Visited

LEMMA FollowedGrows ==
  ASSUME NEW n, View(n).status \in Settled => View(n)'.status = View(n).status
  PROVE  Followed(n) \subseteq Followed(n)'
<1>1. CASE View(n).status = "successful"
  BY <1>1 DEF Followed, Settled
<1>2. CASE View(n).status = "failed"
  BY <1>2 DEF Followed, Settled
<1>3. CASE View(n).status \notin {"successful", "failed"}
  BY <1>3 DEF Followed
<1> QED BY <1>1, <1>2, <1>3

LEMMA SelectedStays ==
  ASSUME NEW n, Selected(n),
         \A p \in Nodes : View(p).status \in Settled => View(p)'.status = View(p).status
  PROVE  Selected(n)'
  BY FollowedGrows DEF Selected

----------------------------------------------------------------------------
LEMMA ViewType ==
  ASSUME EngineTypes, NEW t \in Tasks
  PROVE  View(t) \in Rows
  BY DEF EngineTypes, View

LEMMA ViewHeld ==
  ASSUME Held, NEW n \in Nodes
  PROVE  HeldRow(View(n), n)
  BY NodeAssumption DEF Held, View

LEMMA ViewOverride ==
  ASSUME NEW f, tx' = Override(f), row' = row, NEW t
  PROVE  View(t)' = IF t \in DOMAIN f THEN f[t] ELSE View(t)
  BY DEF View, Override

(* A step outside the pass keeps the paths when it gives no node its job   *)
(* and changes no settled row.                                             *)
LEMMA PathOutside ==
  ASSUME PathInv, EngineTypes', Held', UNCHANGED tx,
         \A n \in Nodes : /\ row'[n].status = "none" <=> row[n].status = "none"
                          /\ row[n].status \in Settled => row'[n].status = row[n].status
  PROVE  PathInv'
<1>1. \A n \in Nodes : /\ HasJob(n)' <=> HasJob(n)
                       /\ View(n).status \in Settled => View(n)'.status = View(n).status
  BY DEF HasJob, View
<1>2. ViewOnPath'
  BY <1>1, SelectedStays DEF PathInv, ViewOnPath
<1>3. RightPath'
  BY DEF PathInv, RightPath, Settled
<1> QED BY <1>2, <1>3 DEF PathInv

(* A step of the pass writes rows of jobs that are not settled, and gives  *)
(* a job to selected nodes only.                                           *)
LEMMA PathWrites ==
  ASSUME PathInv, UNCHANGED <<row, worker, pending>>,
         NEW f, tx' = Override(f), DOMAIN f \subseteq Tasks,
         \A t \in DOMAIN f : f[t] \in Rows,
         phase' \in {"spawn", "start", "commit"}, running_workflow_jobs' \subseteq Rows,
         \A n \in DOMAIN f \ {Workflow} :
            /\ View(n).status \notin Settled
            /\ f[n].status # "none"
            /\ HeldRow(f[n], n)
            /\ n \in pending => f[n].status \in {"pending", "waiting", "canceled"}
            /\ ~HasJob(n) => Selected(n)
  PROVE  PathInv'
<1>1. \A t : View(t)' = IF t \in DOMAIN f THEN f[t] ELSE View(t)
  BY ViewOverride
<1>2. /\ DOMAIN tx' = DOMAIN tx \cup DOMAIN f
      /\ \A t \in DOMAIN tx' : tx'[t] = IF t \in DOMAIN f THEN f[t] ELSE tx[t]
      /\ tx' = [t \in DOMAIN tx' |-> tx'[t]]
  BY DEF Override
<1>3. EngineTypes'
  <2>1. \A t \in DOMAIN tx' : tx'[t] \in Rows
    BY <1>2 DEF PathInv, EngineTypes
  <2>2. tx' \in [DOMAIN tx' -> Rows]
    BY <1>2, <2>1
  <2> QED BY <1>2, <2>2 DEF PathInv, EngineTypes
<1>4. Held'
  BY <1>1, <1>2 DEF PathInv, EngineTypes, Held, HeldRow
<1>5. ViewOnPath'
  <2>1. \A p \in Nodes : View(p).status \in Settled => View(p)'.status = View(p).status
    BY <1>1, NodeAssumption
  <2>2. \A n \in Nodes : HasJob(n)' => Selected(n)
    BY <1>1, NodeAssumption DEF PathInv, ViewOnPath, HasJob
  <2> QED BY <2>1, <2>2, SelectedStays DEF ViewOnPath
<1>6. RightPath'
  BY DEF PathInv, RightPath
<1> QED BY <1>3, <1>4, <1>5, <1>6 DEF PathInv

----------------------------------------------------------------------------
(* The steps.                                                              *)
LEMMA InitPath == Init => PathInv
<1> SUFFICES ASSUME Init PROVE PathInv
  OBVIOUS
<1>1. DOMAIN tx = {} /\ tx \in [DOMAIN tx -> Rows]
  BY DEF Init
<1>2. \A t \in Tasks : row[t] \in Rows
  BY DEF Init, Row, Rows, Unfinished
<1>3. \A n \in Nodes : row[n].status = "none" /\ View(n).status = "none"
  BY <1>1, NodeAssumption DEF Init, Row, Tasks, View
<1>4. EngineTypes /\ Held
  BY <1>1, <1>2 DEF Init, EngineTypes, WorkerStates, Held, HeldRow
<1> QED BY <1>3, <1>4 DEF PathInv, RightPath, ViewOnPath, HasJob

LEMMA SchedulePath ==
  ASSUME "slow_queue" \notin Env, PathInv,
         NEW reaped \in SUBSET {n \in Nodes : Lost(n)}, Schedule(reaped)
  PROVE  PathInv'
<1>1. /\ DOMAIN tx = {} /\ phase' = "finish" /\ UNCHANGED <<row, worker>>
      /\ tx' = [n \in reaped |-> [row[n] EXCEPT !.status = "failed"]]
      /\ pending' = {t \in Tasks : row[t].status = "pending"}
      /\ running_workflow_jobs' \subseteq {row[Workflow]}
  BY DEF Schedule, PathInv, EngineTypes, users
<1>2. row \in [Tasks -> Rows] /\ \A t \in Tasks : row[t] \in Rows
  BY DEF PathInv, EngineTypes
<1>3. \A n \in reaped : n \in Nodes /\ row[n].status \in Active /\ worker[n] = "none"
  BY DEF Lost
<1>4. \A n \in reaped : [row[n] EXCEPT !.status = "failed"] \in Rows
  BY <1>2, <1>3 DEF Rows, Terminal, Tasks
<1>5. \A n \in reaped : tx'[n].status = "failed"
  BY <1>1, <1>2, <1>3 DEF Rows, Tasks
<1>6. EngineTypes'
  <2>1. tx' \in [DOMAIN tx' -> Rows] /\ DOMAIN tx' = reaped /\ reaped \subseteq Tasks
    BY <1>1, <1>3, <1>4 DEF Tasks
  <2> QED BY <1>1, <1>2, <2>1 DEF PathInv, EngineTypes, Tasks
<1>7. \A n \in Nodes : View(n) = row[n]
  BY <1>1 DEF View
<1>8. \A n \in Nodes : View(n)' = IF n \in reaped THEN tx'[n] ELSE row[n]
  BY <1>1 DEF View
<1>9. Held'
  <2>1. \A n \in Nodes : HeldRow(row[n], n)
    BY DEF PathInv, Held
  <2>2. ASSUME NEW n \in pending' \ {Workflow}
        PROVE  worker[n] = "none" /\ View(n)'.status = "pending"
    <3>1. n \in Nodes /\ row[n].status = "pending" /\ n \notin reaped
      BY <1>1, <1>3, <2>2 DEF Tasks, Active
    <3> QED BY <1>8, <2>1, <3>1 DEF HeldRow
  <2> QED BY <1>1, <1>3, <2>1, <2>2 DEF Held, HeldRow
<1>10. \A n \in Nodes : /\ HasJob(n)' => HasJob(n)
                        /\ View(n).status \in Settled => View(n)'.status = View(n).status
  BY <1>3, <1>7, <1>8 DEF HasJob, Active, Settled
<1>11. ViewOnPath'
  BY <1>10, SelectedStays DEF PathInv, ViewOnPath
<1>12. RightPath'
  BY <1>1 DEF PathInv, RightPath
<1> QED BY <1>6, <1>9, <1>11, <1>12 DEF PathInv

(* Canceling a job keeps its row a row, and never settles it.              *)
LEMMA CancelledRow ==
  ASSUME NEW r \in Rows
  PROVE  /\ Cancelled(r) \in Rows
         /\ Cancelled(r).status \in {r.status, "canceled"}
         /\ Cancelled(r).status = "canceled" \/ r.status \notin {"pending", "waiting"}
                                             \/ r.cancel_flag
  BY DEF Cancelled, Row, Rows, Terminal

LEMMA ProcessFinishedPath ==
  ASSUME PathInv, ProcessFinished
  PROVE  PathInv'
<1>1. /\ UNCHANGED <<row, worker, pending, running_workflow_jobs>>
      /\ phase = "finish" /\ phase' = "spawn"
  BY DEF ProcessFinished, users
<1>2. EngineTypes /\ running_workflow_jobs' \subseteq Rows
  BY <1>1 DEF PathInv, EngineTypes
<1>3. CASE UNCHANGED tx
  <2>1. EngineTypes' /\ Held'
    BY <1>1, <1>3 DEF PathInv, EngineTypes, Held, HeldRow, View
  <2> QED BY <1>1, <1>3, <2>1, PathOutside
<1>4. ASSUME NEW r \in Rows, NEW status \in Terminal, tx' = Override(Ended(r, status))
      PROVE  PathInv'
  <2> DEFINE f == Ended(r, status)
  <2>1. /\ DOMAIN f = {Workflow} /\ DOMAIN f \subseteq Tasks
        /\ \A t \in DOMAIN f : f[t] \in Rows
    BY DEF Ended, Rows, Tasks
  <2> HIDE DEF f
  <2>2. DOMAIN f \ {Workflow} = {}
    BY <2>1
  <2>3. tx' = Override(f)
    BY <1>4 DEF f
  <2> QED BY <1>1, <1>2, <2>1, <2>2, <2>3, PathWrites
<1>5. ASSUME NEW r \in Rows,
             tx' = Override([t \in DOMAIN cancel_node_jobs \cup {Workflow} |->
                              IF t = Workflow THEN Ended(r, "canceled")[t]
                              ELSE cancel_node_jobs[t]])
      PROVE  PathInv'
  <2> DEFINE f == [t \in DOMAIN cancel_node_jobs \cup {Workflow} |->
                     IF t = Workflow THEN Ended(r, "canceled")[t]
                     ELSE cancel_node_jobs[t]]
  <2>1. Ended(r, "canceled")[Workflow] \in Rows
    BY DEF Ended, Rows, Terminal
  <2>2. /\ DOMAIN f \subseteq Tasks
        /\ f[Workflow] \in Rows
        /\ \A n \in DOMAIN f \ {Workflow} :
              n \in Nodes /\ CanCancel(View(n)) /\ f[n] = Cancelled(View(n))
    BY <2>1 DEF cancel_node_jobs, Tasks
  <2>3. tx' = Override(f)
    BY <1>5
  <2> HIDE DEF f
  <2>4. ASSUME NEW n \in DOMAIN f \ {Workflow}
        PROVE  /\ f[n] \in Rows /\ View(n).status \notin Settled
               /\ f[n].status # "none" /\ HeldRow(f[n], n)
               /\ n \in pending => f[n].status \in {"pending", "waiting", "canceled"}
               /\ HasJob(n)
    <3>1. n \in Nodes /\ View(n).status \in Unfinished /\ f[n] = Cancelled(View(n))
      BY <2>2 DEF CanCancel
    <3>2. View(n) \in Rows /\ HeldRow(View(n), n)
      BY <1>2, <3>1, ViewType, ViewHeld DEF PathInv, Tasks
    <3>3. f[n] \in Rows /\ f[n].status \in {View(n).status, "canceled"}
      BY <3>1, <3>2, CancelledRow
    <3>4. n \in pending => View(n).status \in {"pending", "waiting", "canceled"}
      BY DEF PathInv, Held
    <3> QED BY <3>1, <3>2, <3>3, <3>4 DEF HeldRow, Unfinished, Settled, HasJob
  <2>5. \A t \in DOMAIN f : f[t] \in Rows
    BY <2>2, <2>4
  <2> QED BY <1>1, <1>2, <2>2, <2>3, <2>4, <2>5, PathWrites
<1> QED BY <1>2, <1>3, <1>4, <1>5 DEF ProcessFinished, EngineTypes, Terminal

LEMMA SpawnJobsPath ==
  ASSUME PathInv, SpawnJobs
  PROVE  PathInv'
<1>1. /\ UNCHANGED <<row, worker, pending, running_workflow_jobs>>
      /\ phase = "spawn" /\ phase' = "start"
  BY DEF SpawnJobs, users
<1>2. EngineTypes /\ running_workflow_jobs' \subseteq Rows
  BY <1>1 DEF PathInv, EngineTypes
<1>3. CASE UNCHANGED tx
  <2>1. EngineTypes' /\ Held'
    BY <1>1, <1>3 DEF PathInv, EngineTypes, Held, HeldRow, View
  <2> QED BY <1>1, <1>3, <2>1, PathOutside
<1>4. CASE tx' = Override(Spawned)
  <2>1. ASSUME NEW n \in DOMAIN Spawned
        PROVE  /\ n \in Nodes /\ ~HasJob(n) /\ Selected(n)
               /\ Spawned[n] \in Rows /\ Spawned[n].status \in {"pending", "failed"}
    <3>1. n \in Visited({}) /\ ~HasJob(n)
      BY DEF Spawned, bfs_nodes_to_run
    <3>2. Spawned[n] = Row(IF n \in Unstartable THEN "failed" ELSE "pending", FALSE)
      BY DEF Spawned
    <3> QED BY <3>1, <3>2, VisitedSelected DEF Row, Rows, Unfinished, Terminal
  <2>2. ASSUME NEW n \in DOMAIN Spawned
        PROVE  /\ View(n).status = "none" /\ worker[n] = "none" /\ n \notin pending
    <3>1. n \in Nodes /\ View(n).status = "none" /\ HeldRow(View(n), n) /\ n # Workflow
      BY <2>1, ViewHeld, NodeAssumption DEF PathInv, HasJob
    <3> QED BY <3>1 DEF HeldRow, PathInv, Held
  <2>3. DOMAIN Spawned \subseteq Tasks
    BY <2>1 DEF Tasks
  <2> QED BY <1>1, <1>2, <1>4, <2>1, <2>2, <2>3, PathWrites DEF HeldRow, Settled
<1> QED BY <1>3, <1>4 DEF SpawnJobs

LEMMA ProcessTasksPath ==
  ASSUME PathInv, NEW started \in SUBSET pending, ProcessTasks(started)
  PROVE  PathInv'
<1> DEFINE f == [t \in started |->
                   Row(IF t = Workflow THEN "running" ELSE "waiting", FALSE)]
<1>1. /\ UNCHANGED <<row, worker, pending, running_workflow_jobs>>
      /\ phase' = "commit" /\ tx' = Override(f)
  BY DEF ProcessTasks, users
<1>2. pending \subseteq Tasks /\ running_workflow_jobs' \subseteq Rows
  BY <1>1 DEF PathInv, EngineTypes
<1>3. /\ DOMAIN f \subseteq Tasks
      /\ \A t \in DOMAIN f : f[t] \in Rows
      /\ \A t \in DOMAIN f \ {Workflow} : f[t].status = "waiting" /\ t \in pending
  BY <1>2 DEF Row, Rows, Unfinished
<1> HIDE DEF f
<1>4. ASSUME NEW n \in DOMAIN f \ {Workflow}
      PROVE  View(n).status \in {"pending", "waiting", "canceled"}
  BY <1>3 DEF PathInv, Held
<1> QED BY <1>1, <1>2, <1>3, <1>4, PathWrites DEF HeldRow, Settled, HasJob

LEMMA CommitPath ==
  ASSUME PathInv, Commit
  PROVE  PathInv'
<1>1. /\ row' = [t \in Tasks |-> View(t)] /\ tx' = <<>> /\ DOMAIN tx' = {}
      /\ phase' = "idle" /\ pending' = {} /\ running_workflow_jobs' = {}
      /\ worker' = [n \in Nodes |-> IF n \in Submitted THEN "queued" ELSE worker[n]]
  BY DEF Commit
<1>2. \A t \in Tasks : row'[t] = View(t) /\ View(t)' = View(t) /\ View(t) \in Rows
  BY <1>1, ViewType DEF PathInv, View
<1>3. EngineTypes'
  <2>1. row' \in [Tasks -> Rows] /\ tx' \in [DOMAIN tx' -> Rows]
    BY <1>1, <1>2
  <2>2. worker' \in [Nodes -> WorkerStates]
    BY <1>1 DEF PathInv, EngineTypes, WorkerStates
  <2> QED BY <1>1, <2>1, <2>2 DEF EngineTypes
<1>4. ASSUME NEW n \in Nodes
      PROVE  HeldRow(row[n], n)'
  <2>1. HeldRow(View(n), n) /\ row'[n] = View(n)
    BY <1>2, ViewHeld DEF PathInv, Tasks
  <2>2. CASE n \in Submitted
    BY <2>1, <2>2 DEF Submitted, HeldRow, Settled, View
  <2>3. CASE n \notin Submitted
    BY <1>1, <2>1, <2>3 DEF HeldRow
  <2> QED BY <2>2, <2>3
<1>5. Held'
  BY <1>1, <1>4 DEF Held
<1>6. \A n \in Nodes : View(n)' = View(n) /\ row'[n] = View(n)
  BY <1>2 DEF Tasks
<1>7. ViewOnPath'
  BY <1>6, SelectedStays DEF PathInv, ViewOnPath, HasJob
<1>8. RightPath'
  <2> SUFFICES ASSUME NEW n \in Nodes \ Roots, View(n).status # "none"
               PROVE  \E p \in Nodes :
                        \/ n \in SuccessNodes[p] /\ View(p).status = "successful"
                        \/ n \in FailureNodes[p] /\ View(p).status = "failed"
                        \/ /\ n \in AlwaysNodes[p]
                           /\ View(p).status \in {"successful", "failed"}
    BY <1>6 DEF RightPath
  <2>1. PICK p \in Nodes : n \in Followed(p)
    BY DEF PathInv, ViewOnPath, HasJob, Selected
  <2> QED BY <2>1 DEF Followed
<1> QED BY <1>3, <1>5, <1>7, <1>8 DEF PathInv

(* A step of a worker changes one row that has no outcome yet.             *)
LEMMA WorkerPath ==
  ASSUME PathInv, NEW n \in Nodes, worker[n] # "none", Unlocked(n),
         NEW status \in {"running"} \cup Terminal,
         NEW w \in {"none", "stopping", "playbook"},
         status \in Settled => w = "none",
         row' = [row EXCEPT ![n].status = status],
         worker' = [worker EXCEPT ![n] = w], UNCHANGED locals
  PROVE  PathInv'
<1>1. /\ row \in [Tasks -> Rows] /\ n \in Tasks /\ n # Workflow
      /\ worker \in [Nodes -> WorkerStates]
  BY NodeAssumption DEF PathInv, EngineTypes, Tasks
<1>2. UNCHANGED <<phase, tx, pending, running_workflow_jobs>>
  BY DEF locals
<1>3. [row[n] EXCEPT !.status = status] \in Rows
  BY <1>1 DEF Rows, Unfinished
<1>4. EngineTypes'
  BY <1>1, <1>2, <1>3 DEF PathInv, EngineTypes, WorkerStates
<1>5. /\ row'[n].status = status /\ worker'[n] = w
      /\ \A m \in Nodes \ {n} : row'[m] = row[m] /\ worker'[m] = worker[m]
  BY <1>1 DEF Rows, Tasks
<1>6. row[n].status \notin {"none", "pending"} \cup Settled
  BY DEF PathInv, Held, HeldRow
<1>7. Held'
  <2>1. \A m \in Nodes : HeldRow(row[m], m)'
    BY <1>5 DEF PathInv, Held, HeldRow, Terminal
  <2>2. \A m \in DOMAIN tx' \ {Workflow} : HeldRow(tx[m], m)'
    BY <1>2, <1>5 DEF PathInv, EngineTypes, Held, HeldRow, Unlocked, Tasks
  <2>3. n \notin pending
    BY <1>1 DEF PathInv, Held
  <2>4. \A m \in pending' \ {Workflow} :
           worker'[m] = "none" /\ View(m)'.status \in {"pending", "waiting", "canceled"}
    BY <1>2, <1>5, <2>3 DEF PathInv, EngineTypes, Held, View, Tasks
  <2> QED BY <2>1, <2>2, <2>4 DEF Held
<1>8. \A m \in Nodes : /\ row'[m].status = "none" <=> row[m].status = "none"
                       /\ row[m].status \in Settled => row'[m].status = row[m].status
  BY <1>5, <1>6 DEF Terminal
<1> QED BY <1>2, <1>4, <1>7, <1>8, PathOutside

LEMMA JobStartsPath ==
  ASSUME PathInv, NEW n \in Nodes, JobStarts(n)
  PROVE  PathInv'
<1> DEFINE w == IF row[n].cancel_flag THEN "stopping" ELSE "playbook"
<1>1. w \in {"none", "stopping", "playbook"} /\ worker' = [worker EXCEPT ![n] = w]
  BY DEF JobStarts
<1>2. /\ row' = [row EXCEPT ![n].status = "running"] /\ UNCHANGED locals
      /\ worker[n] # "none" /\ Unlocked(n)
  BY DEF JobStarts
<1> HIDE DEF w
<1> QED BY <1>1, <1>2, WorkerPath DEF Settled

LEMMA JobFinishesPath ==
  ASSUME PathInv, NEW n \in Nodes, JobFinishes(n)
  PROVE  PathInv'
<1>1. worker[n] \in Terminal /\ row' = [row EXCEPT ![n].status = worker[n]]
  BY DEF JobFinishes
<1>2. /\ worker' = [worker EXCEPT ![n] = "none"] /\ UNCHANGED locals
      /\ worker[n] # "none" /\ Unlocked(n)
  BY DEF JobFinishes, Terminal
<1> QED BY <1>1, <1>2, WorkerPath

(* A worker that ends a run or crashes leaves the rows alone.              *)
WorkerAlone(n) == WorkerCrash(n) \/ \E outcome \in Outcomes : JobEnds(n, outcome)

LEMMA WorkerLeavesRows ==
  ASSUME EngineTypes, NEW n \in Nodes, WorkerAlone(n)
  PROVE  /\ EngineTypes' /\ UNCHANGED <<row, templates, locals>>
         /\ \A m \in Nodes : /\ worker'[m] # "none" => worker[m] # "none"
                             /\ worker'[m] = "queued" => worker[m] = "queued"
<1>1. PICK w \in {"none"} \cup Terminal : worker' = [worker EXCEPT ![n] = w]
  BY FaultAssumption DEF WorkerAlone, WorkerCrash, JobEnds, Terminal
<1>2. UNCHANGED <<row, templates, locals>> /\ worker[n] # "none"
  BY DEF WorkerAlone, WorkerCrash, JobEnds, Terminal
<1>3. EngineTypes'
  BY <1>1, <1>2 DEF EngineTypes, WorkerStates, locals
<1>4. \A m \in Nodes : /\ worker'[m] # "none" => worker[m] # "none"
                       /\ worker'[m] = "queued" => worker[m] = "queued"
  BY <1>1, <1>2 DEF EngineTypes, Terminal
<1> QED BY <1>2, <1>3, <1>4

LEMMA WorkerAlonePath ==
  ASSUME PathInv, NEW n \in Nodes, WorkerAlone(n)
  PROVE  PathInv'
<1>1. /\ EngineTypes' /\ UNCHANGED <<row, templates, locals>>
      /\ \A m \in Nodes : worker[m] = "none" => worker'[m] = "none"
  BY WorkerLeavesRows DEF PathInv
<1>2. Held'
  BY <1>1 DEF PathInv, EngineTypes, Held, HeldRow, View, locals, Tasks
<1> QED BY <1>1, <1>2, PathOutside DEF locals

LEMMA CancelPath ==
  ASSUME PathInv, NEW t \in Tasks, Cancel(t)
  PROVE  PathInv'
<1>1. /\ row' = [row EXCEPT ![t] = Cancelled(row[t])] /\ worker' = worker
      /\ UNCHANGED <<phase, tx, pending, running_workflow_jobs>>
      /\ row[t].status \in Unfinished /\ Unlocked(t)
  BY DEF Cancel, CanCancel, locals
<1>2. row \in [Tasks -> Rows] /\ row[t] \in Rows
  BY DEF PathInv, EngineTypes
<1>3. Cancelled(row[t]) \in Rows /\ Cancelled(row[t]).status \in {row[t].status, "canceled"}
  BY <1>2, CancelledRow
<1>4. EngineTypes'
  BY <1>1, <1>2, <1>3 DEF PathInv, EngineTypes, WorkerStates
<1>5. \A u \in Tasks : \/ row'[u] = row[u]
                       \/ /\ u = t /\ row[u].status \in Unfinished
                          /\ row'[u].status \in {row[u].status, "canceled"}
  BY <1>1, <1>2, <1>3
<1>6. \A n \in Nodes : n \in Tasks
  BY DEF Tasks
<1>7. Held'
  <2>1. \A n \in Nodes : HeldRow(row[n], n)'
    BY <1>1, <1>5, <1>6 DEF PathInv, Held, HeldRow, Settled
  <2>2. \A n \in DOMAIN tx' \ {Workflow} : HeldRow(tx[n], n)'
    BY <1>1 DEF PathInv, Held, HeldRow
  <2>3. \A n \in pending' \ {Workflow} :
           worker'[n] = "none" /\ View(n)'.status \in {"pending", "waiting", "canceled"}
    BY <1>1, <1>5 DEF PathInv, EngineTypes, Held, View
  <2> QED BY <2>1, <2>2, <2>3 DEF Held
<1>8. \A m \in Nodes : /\ row'[m].status = "none" <=> row[m].status = "none"
                       /\ row[m].status \in Settled => row'[m].status = row[m].status
  BY <1>5, <1>6 DEF Unfinished, Settled
<1> QED BY <1>1, <1>4, <1>7, <1>8, PathOutside

LEMMA NextPath ==
  ASSUME "slow_queue" \notin Env, PathInv, [Next]_vars
  PROVE  PathInv'
<1>1. CASE PassStep
  BY <1>1, ProcessFinishedPath, SpawnJobsPath, ProcessTasksPath, CommitPath DEF PassStep
<1>2. ASSUME NEW n \in Nodes, DeleteTemplate(n) PROVE PathInv'
  <2>1. UNCHANGED <<row, worker, phase, tx, pending, running_workflow_jobs>>
    BY <1>2 DEF DeleteTemplate, locals
  <2>2. EngineTypes' /\ Held'
    BY <2>1 DEF PathInv, EngineTypes, Held, HeldRow, View
  <2> QED BY <2>1, <2>2, PathOutside
<1>3. CASE UNCHANGED vars
  <2>1. EngineTypes' /\ Held'
    BY <1>3 DEF vars, PathInv, EngineTypes, Held, HeldRow, View
  <2> QED BY <1>3, <2>1, PathOutside DEF vars
<1> QED
  BY <1>1, <1>2, <1>3, SchedulePath, JobStartsPath, JobFinishesPath,
     WorkerAlonePath, CancelPath DEF Next, WorkerAlone

(* Every node that has a job is a root, or was selected by the outcome of  *)
(* a parent which still stands: cancels, crashes, deleted templates and    *)
(* the passes between them lead no workflow off its path, whatever its     *)
(* graph.                                                                  *)
THEOREM OnlySelectedPaths ==
  ASSUME "slow_queue" \notin Env
  PROVE  Spec => []RightPath
<1>1. PathInv => RightPath
  BY DEF PathInv
<1>2. PathInv /\ [Next]_vars => PathInv'
  BY NextPath
<1> QED BY <1>1, <1>2, InitPath, PTL DEF Spec

----------------------------------------------------------------------------
(* The run of a workflow job that only crashes of workers disturb: what    *)
(* the pass sees and has written, in terms of WorkflowRun.                 *)
Calm == Env \subseteq {"worker_crash"}

ViewFate(n) ==
    CASE View(n).status = "none" -> "idle"
      [] View(n).status \in Unfinished -> "started"
      [] OTHER -> View(n).status
ViewFates == [n \in Nodes |-> ViewFate(n)]

Undisturbed ==
    /\ templates = Nodes \ Missing
    /\ \A t \in Tasks : ~row[t].cancel_flag
    /\ \A r \in running_workflow_jobs : r = row[Workflow] /\ r.status = "running"
    /\ \A n \in Nodes : worker[n] # "none" => row[n].status \in Active
    /\ \A t \in pending : row[t].status = "pending"

(* Every job is on the walk, which comes to its end only below it.         *)
Walked == \A n \in Nodes : HasJob(n) => n \in Visited({}) /\ n \in templates

(* A node that the pass has given a job was selected by a committed row;   *)
(* another one that it has written was unfinished.                         *)
Spawnable(n) ==
    n \in Roots \/ \E p \in Nodes : n \in Followed(p) /\ row[p].status # "none"
WrittenNode(n) ==
    /\ ~tx[n].cancel_flag
    /\ \/ row[n].status = "none" /\ tx[n].status \in {"pending", "failed"} /\ Spawnable(n)
       \/ row[n].status \in Unfinished /\ tx[n].status \in {"waiting", "failed"}

(* The workflow job is started, or it is ended: then nothing is left to do *)
(* and its verdict is the one that WorkflowRun defines.                    *)
Ending ==
    /\ row[Workflow].status = "running"
    /\ tx[Workflow].status = IF Run!Failed(ViewFates) THEN "failed" ELSE "successful"
    /\ Run!Complete(ViewFates)
    /\ pending \cap Nodes = {}
    /\ \A n \in Nodes : row[n].status = "none" => ~HasJob(n)
Starting == row[Workflow].status = "pending" /\ tx[Workflow].status = "running"
Written ==
    /\ \A n \in DOMAIN tx \ {Workflow} : WrittenNode(n)
    /\ Workflow \in DOMAIN tx => ~tx[Workflow].cancel_flag /\ (Starting \/ Ending)
    /\ phase \in {"finish", "spawn"} =>
          \A n \in Nodes : row[n].status = "none" => ~HasJob(n)

Over ==
    row[Workflow].status \in Terminal =>
        /\ \A n \in Nodes : row[n].status \notin Unfinished
        /\ DOMAIN tx = {} /\ running_workflow_jobs = {}

RunInv == PathInv /\ Undisturbed /\ Walked /\ Written /\ Over

(* What the committed rows mean, and what a step may make of it.           *)
Fates == [n \in Nodes |-> Fate(n)]
RunStep == Run!Next \/ UNCHANGED <<Fates, Verdict>>

LEMMA ReachedIsSelected ==
  ASSUME NEW n \in Nodes
  PROVE  Run!Reached(ViewFates, n) <=> Selected(n)
<1>1. \A p \in Nodes : n \in Run!Selected(p, ViewFates[p]) <=> n \in Followed(p)
  <2> SUFFICES ASSUME NEW p \in Nodes
               PROVE  n \in Run!Selected(p, ViewFate(p)) <=> n \in Followed(p)
    BY DEF ViewFates
  <2>1. CASE View(p).status = "successful"
    BY <2>1 DEF ViewFate, Unfinished, Run!Selected, Run!Children, Followed
  <2>2. CASE View(p).status = "failed"
    BY <2>2 DEF ViewFate, Unfinished, Run!Selected, Run!Children, Followed
  <2>3. CASE View(p).status \notin {"successful", "failed"}
    <3>1. ViewFate(p) \notin {"successful", "failed"}
      BY <2>3 DEF ViewFate
    <3> QED BY <2>3, <3>1 DEF Run!Selected, Followed
  <2> QED BY <2>1, <2>2, <2>3
<1>2. n \in Run!Trees <=> n \in Roots
  BY DEF Run!Trees, Run!Children, Roots, Children
<1> QED BY <1>1, <1>2 DEF Run!Reached, Selected

LEMMA FateOfView ==
  ASSUME NEW n \in Nodes, View(n) \in Rows
  PROVE  /\ ViewFates[n] = "idle" <=> ~HasJob(n)
         /\ ViewFates[n] = "started" <=> View(n).status \in Unfinished
         /\ View(n).status \in Terminal => ViewFates[n] = View(n).status
         /\ ViewFates[n] \in Run!Fates
  BY DEF ViewFates, ViewFate, HasJob, Rows, Unfinished, Terminal, Run!Fates, Run!Ends

(* The walk is closed: it reaches whatever it selects.                     *)
LEMMA VisitedClosed ==
  ASSUME NEW n \in Visited({}), NEW m \in Followed(n)
  PROVE  m \in Visited({})
  BY FollowedType DEF Visited

LEMMA RootsVisited == Roots \subseteq Visited({})
  BY DEF Visited, Roots

LEMMA SelectedVisited ==
  ASSUME Walked, NEW n \in Nodes, Selected(n)
  PROVE  n \in Visited({})
<1>1. CASE n \in Roots
  BY <1>1, RootsVisited
<1>2. ASSUME NEW p \in Nodes, n \in Followed(p) PROVE n \in Visited({})
  <2>1. HasJob(p)
    BY <1>2 DEF Followed, HasJob
  <2> QED BY <1>2, <2>1, VisitedClosed DEF Walked
<1> QED BY <1>1, <1>2 DEF Selected

LEMMA VisitedGrows ==
  ASSUME \A p \in Nodes : View(p).status \in Settled => View(p)'.status = View(p).status
  PROVE  Visited({}) \subseteq Visited({})'
<1>1. \A p \in Nodes : Followed(p) \subseteq Followed(p)'
  BY FollowedGrows
<1> SUFFICES ASSUME NEW n \in Visited({}), NEW S \in SUBSET Nodes,
                    Roots \subseteq S, \A m \in S \ {} : Followed(m)' \subseteq S
             PROVE  n \in S
  BY DEF Visited, Roots
<1>2. \A m \in S \ {} : Followed(m) \subseteq S
  BY <1>1
<1> QED BY <1>2 DEF Visited

(* Nodes that have no job are followed nowhere: it makes no difference to  *)
(* stop at them.                                                           *)
LEMMA VisitedStops ==
  ASSUME Walked
  PROVE  Visited(Nodes \ templates) = Visited({})
<1>1. \A n \in Nodes \ templates : Followed(n) = {}
  BY DEF Walked, HasJob, Followed
<1>2. \A S \in SUBSET Nodes :
         (\A n \in S \ (Nodes \ templates) : Followed(n) \subseteq S)
         <=> (\A n \in S \ {} : Followed(n) \subseteq S)
  BY <1>1
<1> QED BY <1>2 DEF Visited

(* When the engine finds a workflow done, its run is complete, and it has  *)
(* failed if and only if WorkflowRun says so.                              *)
LEMMA DoneIsComplete ==
  ASSUME PathInv, Undisturbed, Walked, is_workflow_done
  PROVE  /\ Run!Complete(ViewFates)
         /\ \A n \in Nodes : HasJob(n) => View(n).status \in Terminal
<1>1. \A n \in Nodes : View(n) \in Rows
  BY ViewType DEF PathInv, Tasks
<1>2. \A n \in Visited({}) : n \in templates => View(n).status \in Terminal
  BY VisitedStops DEF is_workflow_done
<1>3. \A n \in Nodes : HasJob(n) => View(n).status \in Terminal
  BY <1>2 DEF Walked
<1>4. ASSUME NEW n \in Nodes
      PROVE  ViewFates[n] # "started" /\ ~Run!Eligible(ViewFates, n)
  <2>1. ViewFates[n] # "started"
    BY <1>1, <1>3, FateOfView DEF HasJob, Unfinished, Terminal
  <2>2. SUFFICES ASSUME Run!Eligible(ViewFates, n) PROVE FALSE
    BY <2>1
  <2>3. ~HasJob(n) /\ n \in templates /\ Selected(n)
    BY <1>1, <2>2, FateOfView, ReachedIsSelected DEF Run!Eligible, Undisturbed
  <2> QED BY <1>2, <2>3, SelectedVisited DEF HasJob, Terminal
<1> QED BY <1>3, <1>4 DEF Run!Complete

LEMMA FailedIsFailed ==
  ASSUME PathInv, Undisturbed, Walked, is_workflow_done
  PROVE  has_failed <=> Run!Failed(ViewFates)
<1>1. \A n \in Nodes : View(n) \in Rows
  BY ViewType DEF PathInv, Tasks
<1>2. \A n \in Nodes : HasJob(n) => View(n).status \in Terminal
  BY DoneIsComplete
<1>3. \A n \in Nodes : Children(n) \subseteq Nodes /\ Run!Children(n) = Children(n)
  BY NodeAssumption DEF Children, Run!Children
<1>4. ASSUME has_failed PROVE Run!Failed(ViewFates)
  <2>1. PICK n \in Visited({}) : \/ n \notin templates
                                 \/ View(n).status # "successful" /\ NoChildRuns(n)
    BY <1>4, VisitedStops DEF has_failed
  <2>2. n \in Nodes /\ Selected(n)
    BY VisitedSelected
  <2>3. CASE n \notin templates
    BY <2>2, <2>3, ReachedIsSelected DEF Run!Failed, Undisturbed
  <2>4. CASE n \in templates /\ View(n).status # "successful" /\ NoChildRuns(n)
    <3>1. View(n).status \in {"failed", "error", "canceled"}
      BY <2>4, VisitedStops DEF is_workflow_done, Terminal
    <3>2. ViewFates[n] = View(n).status
      BY <1>1, <2>2, <3>1, FateOfView DEF Terminal
    <3>3. \A c \in Run!Children(n) : ViewFates[c] = "idle"
      BY <1>1, <1>3, <2>2, <2>4, FateOfView DEF NoChildRuns
    <3> QED BY <2>2, <3>1, <3>2, <3>3 DEF Run!Failed
  <2> QED BY <2>1, <2>3, <2>4
<1>5. ASSUME NEW n \in Nodes, HasJob(n), View(n).status # "successful", NoChildRuns(n)
      PROVE  has_failed
  BY <1>5, VisitedStops DEF Walked, has_failed
<1>6. ASSUME NEW n \in Nodes, ViewFates[n] \in {"canceled", "error"} PROVE has_failed
  <2>1. HasJob(n) /\ View(n).status \in {"canceled", "error"}
    BY <1>1, <1>2, <1>6, FateOfView DEF Terminal, ViewFates
  <2>2. ASSUME NEW c \in Children(n), HasJob(c) PROVE FALSE
    <3>1. c \in Nodes /\ c \notin Roots
      BY <1>3 DEF Roots
    <3>2. PICK p \in Nodes : c \in Followed(p)
      BY <2>2, <3>1 DEF PathInv, ViewOnPath, Selected
    <3>3. c \in Children(p)
      BY <3>2 DEF Followed, Children
    <3>4. p = n
      BY <3>3, NodeAssumption
    <3> QED BY <2>1, <3>2, <3>4 DEF Followed
  <2> QED BY <1>5, <2>1, <2>2 DEF NoChildRuns
<1>7. ASSUME NEW n \in Nodes, ViewFates[n] = "failed",
             \A c \in Run!Children(n) : ViewFates[c] = "idle"
      PROVE  has_failed
  <2>1. HasJob(n) /\ View(n).status = "failed"
    BY <1>1, <1>2, <1>7, FateOfView DEF Terminal
  <2>2. NoChildRuns(n)
    BY <1>1, <1>3, <1>7, FateOfView DEF NoChildRuns
  <2> QED BY <1>5, <2>1, <2>2
<1>8. ASSUME NEW n \in Missing, Run!Reached(ViewFates, n) PROVE has_failed
  <2>1. n \in Nodes /\ n \notin templates
    BY NodeAssumption DEF Undisturbed
  <2>2. n \in Visited({})
    BY <1>8, <2>1, ReachedIsSelected, SelectedVisited
  <2> QED BY <2>1, <2>2, VisitedStops DEF has_failed
<1> QED BY <1>4, <1>6, <1>7, <1>8 DEF Run!Failed

----------------------------------------------------------------------------
(* The steps of an undisturbed run.                                        *)

(* A step that settles no row differently and takes no job away keeps the  *)
(* walk: what is new on it was given a job by the walk itself.             *)
LEMMA WalkStays ==
  ASSUME Walked, UNCHANGED templates,
         \A p \in Nodes : View(p).status \in Settled => View(p)'.status = View(p).status,
         \A n \in Nodes : HasJob(n)' => \/ HasJob(n)
                                        \/ n \in Visited({}) /\ n \in templates
  PROVE  Walked'
  BY VisitedGrows DEF Walked

LEMMA SpawnableStays ==
  ASSUME NEW n, Spawnable(n),
         \A p \in Nodes : View(p).status \in Settled => View(p)'.status = View(p).status,
         \A p \in Nodes : row'[p].status = "none" => row[p].status = "none"
  PROVE  Spawnable(n)'
  BY FollowedGrows DEF Spawnable

LEMMA InitRun == Init => RunInv
<1> SUFFICES ASSUME Init PROVE RunInv
  OBVIOUS
<1>1. DOMAIN tx = {} /\ \A t : View(t) = row[t]
  BY DEF Init, View
<1>2. \A t \in Tasks : /\ row[t].status = IF t = Workflow THEN "pending" ELSE "none"
                       /\ row[t].cancel_flag = FALSE
  BY DEF Init, Row
<1>3. Undisturbed
  BY <1>2 DEF Init, Undisturbed
<1>4. \A n \in Nodes : row[n].status = "none" /\ ~HasJob(n)
  BY <1>1, <1>2, NodeAssumption DEF HasJob, Tasks
<1>5. row[Workflow].status = "pending"
  BY <1>2 DEF Tasks
<1>6. Walked /\ Written /\ Over
  BY <1>1, <1>4, <1>5 DEF Walked, Written, Over, Terminal
<1> QED BY <1>3, <1>6, InitPath DEF RunInv

LEMMA ScheduleRun ==
  ASSUME RunInv, PathInv', NEW reaped \in SUBSET {n \in Nodes : Lost(n)},
         Schedule(reaped)
  PROVE  RunInv'
<1>1. /\ DOMAIN tx = {} /\ phase' = "finish" /\ UNCHANGED <<row, worker, templates>>
      /\ tx' = [n \in reaped |-> [row[n] EXCEPT !.status = "failed"]]
      /\ pending' = {t \in Tasks : row[t].status = "pending"}
      /\ running_workflow_jobs' = {r \in {row[Workflow]} : r.status = "running"}
  BY DEF Schedule, RunInv, PathInv, EngineTypes, users
<1>2. \A t \in Tasks : row[t] \in Rows
  BY DEF RunInv, PathInv, EngineTypes
<1>3. \A n \in reaped : n \in Nodes /\ n \in Tasks /\ row[n].status \in Active
  BY DEF Lost, Tasks
<1>4. \A n \in reaped : /\ tx'[n].status = "failed"
                        /\ tx'[n].cancel_flag = row[n].cancel_flag
  BY <1>1, <1>2, <1>3 DEF Rows
<1>5. Undisturbed'
  BY <1>1 DEF RunInv, Undisturbed
<1>6. \A n \in Nodes : View(n) = row[n] /\ View(n)' = IF n \in reaped THEN tx'[n] ELSE row[n]
  BY <1>1 DEF View
<1>7. \A n \in Nodes : /\ HasJob(n)' <=> HasJob(n)
                       /\ View(n).status \in Settled => View(n)'.status = View(n).status
  BY <1>3, <1>4, <1>6 DEF HasJob, Active, Settled
<1>8. Walked'
  BY <1>1, <1>7, WalkStays DEF RunInv
<1>9. Written'
  <2>1. ASSUME NEW n \in DOMAIN tx' \ {Workflow} PROVE WrittenNode(n)'
    <3>1. n \in reaped
      BY <1>1
    <3> QED BY <1>1, <1>3, <1>4, <3>1 DEF WrittenNode, RunInv, Undisturbed,
                                         Active, Unfinished
  <2>2. Workflow \notin DOMAIN tx'
    BY <1>1, <1>3, NodeAssumption
  <2>3. \A n \in Nodes : row'[n].status = "none" => ~HasJob(n)'
    BY <1>1, <1>6, <1>7 DEF HasJob
  <2> QED BY <2>1, <2>2, <2>3 DEF Written
<1>10. Over'
  <2> SUFFICES ASSUME row[Workflow].status \in Terminal
               PROVE  /\ \A n \in Nodes : row[n].status \notin Unfinished
                      /\ reaped = {} /\ running_workflow_jobs' = {}
    BY <1>1 DEF Over
  <2>1. \A n \in Nodes : row[n].status \notin Unfinished
    BY DEF RunInv, Over
  <2> QED BY <1>1, <1>3, <2>1 DEF Active, Unfinished, Terminal
<1> QED BY <1>5, <1>8, <1>9, <1>10 DEF RunInv

(* A step of the pass that writes nothing.                                 *)
LEMMA NothingWritten ==
  ASSUME RunInv, PathInv', UNCHANGED <<users, tx, pending, running_workflow_jobs>>,
         phase' = "spawn" => phase = "finish",
         phase' # "finish"
  PROVE  RunInv'
<1>1. UNCHANGED <<row, templates, worker>>
  BY DEF users
<1>2. Undisturbed'
  BY <1>1 DEF RunInv, Undisturbed
<1>3. Walked'
  BY <1>1, WalkStays DEF RunInv, View, HasJob
<1>4. \A n \in Nodes : View(n)' = View(n) /\ HasJob(n)' = HasJob(n)
  BY <1>1 DEF View, HasJob
<1>5. ViewFates' = ViewFates
  BY <1>4 DEF ViewFates, ViewFate
<1>6. Written'
  <2>1. \A n \in DOMAIN tx \ {Workflow} : WrittenNode(n) => WrittenNode(n)'
    BY <1>1, <1>4, SpawnableStays DEF WrittenNode
  <2>2. Ending => Ending'
    BY <1>1, <1>4, <1>5 DEF Ending, Run!Failed, Run!Complete, Run!Reached, Run!Eligible
  <2>3. Starting => Starting'
    BY <1>1 DEF Starting
  <2>4. phase' \in {"finish", "spawn"} => phase \in {"finish", "spawn"}
    OBVIOUS
  <2> QED BY <1>1, <1>4, <2>1, <2>2, <2>3, <2>4 DEF RunInv, Written
<1>7. Over'
  BY <1>1 DEF RunInv, Over
<1> QED BY <1>2, <1>3, <1>6, <1>7 DEF RunInv

LEMMA ProcessFinishedRun ==
  ASSUME RunInv, PathInv', ProcessFinished
  PROVE  RunInv'
<1>1. /\ UNCHANGED <<row, worker, templates, pending, running_workflow_jobs>>
      /\ phase = "finish" /\ phase' = "spawn"
  BY DEF ProcessFinished, users
<1>2. CASE UNCHANGED tx
  BY <1>1, <1>2, NothingWritten DEF users
<1>3. ASSUME NEW r \in running_workflow_jobs, is_workflow_done,
             tx' = Override(Ended(r, IF has_failed THEN "failed" ELSE "successful"))
      PROVE  RunInv'
  <2> DEFINE status == IF has_failed THEN "failed" ELSE "successful"
             f == Ended(r, status)
  <2>1. r = row[Workflow] /\ r \in Rows /\ r.status = "running" /\ ~r.cancel_flag
    BY DEF RunInv, Undisturbed, PathInv, EngineTypes, Tasks
  <2>2. DOMAIN f = {Workflow} /\ f[Workflow].status = status /\ ~f[Workflow].cancel_flag
    BY <2>1 DEF Ended, Rows
  <2>3. tx' = Override(f)
    BY <1>3
  <2> HIDE DEF f
  <2>4. /\ DOMAIN tx' = DOMAIN tx \cup {Workflow}
        /\ tx'[Workflow] = f[Workflow]
        /\ \A n \in DOMAIN tx \ {Workflow} : tx'[n] = tx[n]
    BY <2>2, <2>3 DEF Override
  <2>5. \A n \in Nodes : View(n)' = View(n) /\ HasJob(n)' = HasJob(n)
    BY <1>1, <2>4, NodeAssumption DEF View, HasJob
  <2>6. ViewFates' = ViewFates
    BY <2>5 DEF ViewFates, ViewFate
  <2>7. /\ Run!Complete(ViewFates) /\ (has_failed <=> Run!Failed(ViewFates))
        /\ \A n \in Nodes : HasJob(n) => View(n).status \in Terminal
    BY <1>3, DoneIsComplete, FailedIsFailed DEF RunInv
  <2>8. Undisturbed' /\ Over'
    BY <1>1, <2>1 DEF RunInv, Undisturbed, Over, Terminal
  <2>9. Walked'
    BY <1>1, <2>5, WalkStays DEF RunInv
  <2>10. pending \cap Nodes = {}
    <3> SUFFICES ASSUME NEW n \in pending, n \in Nodes PROVE FALSE
      OBVIOUS
    <3>1. /\ row[n].status = "pending"
          /\ View(n).status \in {"pending", "waiting", "canceled"}
      BY NodeAssumption DEF RunInv, Undisturbed, PathInv, Held
    <3>2. View(n).status = "canceled"
      BY <2>7, <3>1 DEF HasJob, Terminal
    <3>3. n \in DOMAIN tx => WrittenNode(n)
      BY NodeAssumption DEF RunInv, Written
    <3> QED BY <3>1, <3>2, <3>3 DEF View, WrittenNode
  <2>11. \A n \in Nodes : row[n].status = "none" => ~HasJob(n)
    BY <1>1 DEF RunInv, Written
  <2>12. Ending'
    BY <1>1, <2>1, <2>2, <2>4, <2>5, <2>6, <2>7, <2>10, <2>11
       DEF Ending, Run!Failed, Run!Complete, Run!Reached, Run!Eligible
  <2>13. \A n \in DOMAIN tx \ {Workflow} : WrittenNode(n)'
    BY <1>1, <2>4, <2>5, SpawnableStays DEF RunInv, Written, WrittenNode
  <2>14. Written'
    BY <1>1, <2>2, <2>4, <2>5, <2>11, <2>12, <2>13 DEF Written
  <2> QED BY <2>8, <2>9, <2>14 DEF RunInv
<1>4. \A r \in running_workflow_jobs : ~r.cancel_flag
  BY DEF RunInv, Undisturbed, Tasks
<1> QED BY <1>2, <1>3, <1>4 DEF ProcessFinished

LEMMA SpawnJobsRun ==
  ASSUME RunInv, PathInv', SpawnJobs
  PROVE  RunInv'
<1>1. /\ UNCHANGED <<row, worker, templates, pending, running_workflow_jobs>>
      /\ phase = "spawn" /\ phase' = "start"
  BY DEF SpawnJobs, users
<1>2. CASE UNCHANGED tx
  BY <1>1, <1>2, NothingWritten DEF users
<1>3. CASE running_workflow_jobs # {} /\ tx' = Override(Spawned)
  <2>1. row[Workflow].status = "running"
    BY <1>3 DEF RunInv, Undisturbed
  <2>2. ASSUME NEW n \in DOMAIN Spawned
        PROVE  /\ n \in Nodes /\ n # Workflow /\ ~HasJob(n) /\ n \in Visited({})
               /\ n \in templates /\ Selected(n)
               /\ Spawned[n].status \in {"pending", "failed"} /\ ~Spawned[n].cancel_flag
    BY VisitedSelected, NodeAssumption DEF Spawned, bfs_nodes_to_run, Row
  <2>3. \A t : View(t)' = IF t \in DOMAIN Spawned THEN Spawned[t] ELSE View(t)
    BY <1>1, <1>3, ViewOverride
  <2>4. /\ DOMAIN tx' = DOMAIN tx \cup DOMAIN Spawned
        /\ \A t \in DOMAIN tx' : tx'[t] = IF t \in DOMAIN Spawned THEN Spawned[t] ELSE tx[t]
    BY <1>3 DEF Override
  <2>5. \A p \in Nodes : View(p).status \in Settled => View(p)'.status = View(p).status
    BY <2>2, <2>3 DEF HasJob, Settled
  <2>6. Undisturbed' /\ Over'
    BY <1>1, <2>1 DEF RunInv, Undisturbed, Over, Terminal
  <2>7. Walked'
    <3>1. \A n \in Nodes : HasJob(n)' => \/ HasJob(n)
                                         \/ n \in Visited({}) /\ n \in templates
      BY <2>2, <2>3 DEF HasJob
    <3> QED BY <1>1, <2>5, <3>1, WalkStays DEF RunInv
  <2>8. ASSUME NEW n \in DOMAIN Spawned PROVE WrittenNode(n)'
    <3>1. n \notin DOMAIN tx /\ row[n].status = "none"
      <4>1. n \in DOMAIN tx => WrittenNode(n)
        BY <2>2 DEF RunInv, Written
      <4>2. n \notin DOMAIN tx
        BY <2>2, <4>1 DEF WrittenNode, HasJob, View
      <4> QED BY <2>2, <4>2 DEF HasJob, View
    <3>2. Spawnable(n)
      <4>1. \A p \in Nodes : n \in Followed(p) => row[p].status # "none"
        BY <1>1 DEF RunInv, Written, Followed, HasJob
      <4> QED BY <2>2, <4>1 DEF Selected, Spawnable
    <3>3. Spawnable(n)'
      BY <1>1, <2>5, <3>2, SpawnableStays
    <3> QED BY <1>1, <2>2, <2>4, <3>1, <3>3 DEF WrittenNode
  <2>9. ASSUME NEW n \in DOMAIN tx \ {Workflow}, n \notin DOMAIN Spawned
        PROVE  WrittenNode(n)'
    BY <1>1, <2>4, <2>5, <2>9, SpawnableStays DEF RunInv, Written, WrittenNode
  <2>10. Workflow \in DOMAIN tx' => ~tx'[Workflow].cancel_flag /\ Ending'
    <3> SUFFICES ASSUME Workflow \in DOMAIN tx'
                 PROVE  ~tx'[Workflow].cancel_flag /\ Ending'
      OBVIOUS
    <3>1. /\ Workflow \in DOMAIN tx /\ tx'[Workflow] = tx[Workflow]
          /\ ~tx[Workflow].cancel_flag /\ Ending
      BY <2>1, <2>2, <2>4 DEF RunInv, Written, Starting
    <3>2. ASSUME NEW n \in DOMAIN Spawned PROVE FALSE
      <4>1. ~Run!Eligible(ViewFates, n) /\ View(n) \in Rows
        BY <2>2, <3>1, ViewType DEF Ending, Run!Complete, RunInv, PathInv, Tasks
      <4>2. n \notin Missing
        BY <2>2 DEF RunInv, Undisturbed
      <4> QED BY <2>2, <4>1, <4>2, FateOfView, ReachedIsSelected DEF Run!Eligible
    <3>3. \A n \in Nodes : View(n)' = View(n) /\ HasJob(n)' = HasJob(n)
      BY <2>3, <3>2 DEF HasJob
    <3>4. ViewFates' = ViewFates
      BY <3>3 DEF ViewFates, ViewFate
    <3> QED BY <1>1, <3>1, <3>3, <3>4
             DEF Ending, Run!Failed, Run!Complete, Run!Reached, Run!Eligible
  <2>11. Written'
    BY <1>1, <2>4, <2>8, <2>9, <2>10 DEF Written
  <2> QED BY <2>6, <2>7, <2>11 DEF RunInv
<1> QED BY <1>2, <1>3 DEF SpawnJobs

LEMMA ProcessTasksRun ==
  ASSUME RunInv, PathInv', NEW started \in SUBSET pending, ProcessTasks(started)
  PROVE  RunInv'
<1> DEFINE f == [t \in started |->
                   Row(IF t = Workflow THEN "running" ELSE "waiting", FALSE)]
<1>1. /\ UNCHANGED <<row, worker, templates, pending, running_workflow_jobs>>
      /\ phase = "start" /\ phase' = "commit" /\ tx' = Override(f)
  BY DEF ProcessTasks, users
<1>2. /\ DOMAIN f = started
      /\ \A t \in started : /\ row[t].status = "pending" /\ ~f[t].cancel_flag
                            /\ f[t].status = IF t = Workflow THEN "running" ELSE "waiting"
  BY DEF Row, RunInv, Undisturbed
<1> HIDE DEF f
<1>3. \A t : View(t)' = IF t \in started THEN f[t] ELSE View(t)
  BY <1>1, <1>2, ViewOverride
<1>4. /\ DOMAIN tx' = DOMAIN tx \cup started
      /\ \A t \in DOMAIN tx' : tx'[t] = IF t \in started THEN f[t] ELSE tx[t]
  BY <1>1, <1>2 DEF Override
<1>5. \A n \in started \ {Workflow} : View(n).status \in {"pending", "waiting", "canceled"}
  BY DEF RunInv, PathInv, Held
<1>6. \A p \in Nodes : View(p).status \in Settled => View(p)'.status = View(p).status
  BY <1>3, <1>5, NodeAssumption DEF Settled
<1>7. Undisturbed'
  BY <1>1 DEF RunInv, Undisturbed
<1>8. Walked'
  <2>1. \A n \in Nodes : HasJob(n)' => HasJob(n)
    BY <1>3, <1>5, NodeAssumption DEF HasJob
  <2> QED BY <1>1, <1>6, <2>1, WalkStays DEF RunInv
<1>9. ASSUME NEW n \in DOMAIN tx' \ {Workflow} PROVE WrittenNode(n)'
  <2>1. CASE n \in started
    BY <1>1, <1>2, <1>4, <2>1 DEF WrittenNode, Unfinished
  <2>2. CASE n \notin started
    BY <1>1, <1>4, <1>6, <2>2, SpawnableStays DEF RunInv, Written, WrittenNode
  <2> QED BY <2>1, <2>2
<1>10. ASSUME Workflow \in DOMAIN tx'
       PROVE  ~tx'[Workflow].cancel_flag /\ (Starting' \/ Ending')
  <2>1. CASE Workflow \in started
    BY <1>1, <1>2, <1>4, <2>1 DEF Starting
  <2>2. CASE Workflow \notin started
    <3>1. /\ Workflow \in DOMAIN tx /\ tx'[Workflow] = tx[Workflow]
          /\ ~tx[Workflow].cancel_flag /\ (Starting \/ Ending)
      BY <1>4, <1>10, <2>2 DEF RunInv, Written
    <3>2. CASE Starting
      BY <1>1, <3>1, <3>2 DEF Starting
    <3>3. CASE Ending
      <4>1. started = {}
        BY <2>2, <3>3 DEF Ending, RunInv, PathInv, EngineTypes, Tasks
      <4>2. \A n \in Nodes : View(n)' = View(n) /\ HasJob(n)' = HasJob(n)
        BY <1>3, <4>1 DEF HasJob
      <4>3. ViewFates' = ViewFates
        BY <4>2 DEF ViewFates, ViewFate
      <4> QED BY <1>1, <3>1, <3>3, <4>2, <4>3
               DEF Ending, Run!Failed, Run!Complete, Run!Reached, Run!Eligible
    <3> QED BY <3>1, <3>2, <3>3
  <2> QED BY <2>1, <2>2
<1>11. Written'
  BY <1>1, <1>9, <1>10 DEF Written
<1>12. Over'
  <2> SUFFICES ASSUME row[Workflow].status \in Terminal
               PROVE  /\ \A n \in Nodes : row[n].status \notin Unfinished
                      /\ DOMAIN tx' = {} /\ running_workflow_jobs = {}
    BY <1>1 DEF Over
  <2>1. /\ \A n \in Nodes : row[n].status \notin Unfinished
        /\ DOMAIN tx = {} /\ running_workflow_jobs = {}
    BY DEF RunInv, Over
  <2>2. \A t \in started : t \in Nodes \/ t = Workflow
    BY DEF RunInv, PathInv, EngineTypes, Tasks
  <2>3. started = {}
    BY <1>2, <2>1, <2>2 DEF Unfinished, Terminal
  <2> QED BY <1>4, <2>1, <2>3
<1> QED BY <1>7, <1>8, <1>11, <1>12 DEF RunInv

LEMMA CommitRun ==
  ASSUME RunInv, PathInv', Commit
  PROVE  RunInv'
<1>1. /\ row' = [t \in Tasks |-> View(t)] /\ DOMAIN tx' = {}
      /\ phase' = "idle" /\ pending' = {} /\ running_workflow_jobs' = {}
      /\ worker' = [n \in Nodes |-> IF n \in Submitted THEN "queued" ELSE worker[n]]
      /\ templates' = templates
  BY DEF Commit
<1>2. \A t \in Tasks : row'[t] = View(t) /\ View(t)' = View(t)
  BY <1>1 DEF View
<1>3. \A n \in Nodes : n \in Tasks /\ n # Workflow
  BY NodeAssumption DEF Tasks
<1>4. \A t \in Tasks : ~View(t).cancel_flag
  BY DEF RunInv, Undisturbed, Written, WrittenNode, View
<1>5. ASSUME NEW n \in Nodes, worker'[n] # "none"
      PROVE  View(n).status \in Active
  <2>1. CASE n \in Submitted
    BY <2>1 DEF Submitted, View, Active
  <2>2. CASE n \notin Submitted
    <3>1. worker[n] # "none" /\ row[n].status \in Active
      BY <1>1, <1>5, <2>2 DEF RunInv, Undisturbed
    <3>2. CASE n \in DOMAIN tx
      <4>1. WrittenNode(n) /\ HeldRow(tx[n], n)
        BY <1>3, <3>2 DEF RunInv, Written, PathInv, Held
      <4>2. tx[n].status = "failed"
        BY <1>3, <2>2, <3>1, <3>2, <4>1 DEF WrittenNode, Submitted, Active
      <4> QED BY <3>1, <4>1, <4>2 DEF HeldRow, Settled
    <3>3. CASE n \notin DOMAIN tx
      BY <3>1, <3>3 DEF View
    <3> QED BY <3>2, <3>3
  <2> QED BY <2>1, <2>2
<1>6. Undisturbed'
  BY <1>1, <1>2, <1>3, <1>4, <1>5 DEF RunInv, Undisturbed
<1>7. Walked'
  BY <1>1, <1>2, <1>3, WalkStays DEF RunInv, HasJob
<1>8. Written'
  BY <1>1 DEF Written
<1>9. Over'
  <2> SUFFICES ASSUME View(Workflow).status \in Terminal
               PROVE  \A n \in Nodes : View(n).status \notin Unfinished
    BY <1>1, <1>2, <1>3 DEF Over, Tasks
  <2>1. CASE Workflow \in DOMAIN tx
    <3>1. Ending
      BY <2>1 DEF RunInv, Written, Starting, View, Terminal
    <3> QED BY <1>3, <3>1, FateOfView, ViewType
             DEF Ending, Run!Complete, RunInv, PathInv
  <2>2. CASE Workflow \notin DOMAIN tx
    BY <2>2 DEF RunInv, Over, View
  <2> QED BY <2>1, <2>2
<1> QED BY <1>6, <1>7, <1>8, <1>9 DEF RunInv

----------------------------------------------------------------------------
(* The steps as WorkflowRun sees them.                                     *)
LEMMA FateType ==
  ASSUME PathInv, NEW n \in Nodes
  PROVE  /\ Fates[n] \in Run!Fates
         /\ Fates[n] = "idle" <=> row[n].status = "none"
         /\ Fates[n] = "started" <=> row[n].status \in Unfinished
         /\ row[n].status \in Terminal => Fates[n] = row[n].status
<1>1. row[n] \in Rows
  BY DEF PathInv, EngineTypes, Tasks
<1> QED BY <1>1 DEF Fates, Fate, Rows, Unfinished, Terminal, Run!Fates, Run!Ends

LEMMA FateTypeNext ==
  ASSUME PathInv'
  PROVE  /\ Fates' \in [Nodes -> Run!Fates]
         /\ \A n \in Nodes :
               /\ Fates'[n] = "idle" <=> row'[n].status = "none"
               /\ Fates'[n] = "started" <=> row'[n].status \in Unfinished
               /\ row'[n].status \in Terminal => Fates'[n] = row'[n].status
<1>1. \A n \in Nodes : row'[n] \in Rows /\ Fates'[n] = Fate(n)'
  BY DEF PathInv, EngineTypes, Tasks, Fates
<1>2. \A n \in Nodes : Fates'[n] \in Run!Fates
  BY <1>1 DEF Fate, Rows, Unfinished, Terminal, Run!Fates, Run!Ends
<1>3. Fates' = [n \in Nodes |-> Fate(n)']
  BY DEF Fates
<1>4. Fates' \in [Nodes -> Run!Fates]
  BY <1>1, <1>2, <1>3
<1> QED BY <1>1, <1>4 DEF Fate, Rows, Unfinished, Terminal

LEMMA SameRows ==
  ASSUME UNCHANGED row
  PROVE  RunStep
  BY DEF RunStep, Fates, Fate, Verdict

(* A worker starts or ends a job; the run does not notice the start.       *)
LEMMA WorkerRun ==
  ASSUME RunInv, PathInv', NEW n \in Nodes, worker[n] # "none", Unlocked(n),
         NEW status \in {"running"} \cup Terminal, NEW w,
         status \in Terminal => w = "none",
         row' = [row EXCEPT ![n].status = status],
         worker' = [worker EXCEPT ![n] = w], UNCHANGED <<templates, locals>>
  PROVE  RunInv' /\ RunStep
<1>1. UNCHANGED <<phase, tx, pending, running_workflow_jobs, templates>>
  BY DEF locals
<1>2. /\ row \in [Tasks -> Rows] /\ n \in Tasks /\ n # Workflow
      /\ row[n].status \in Active
      /\ worker \in [Nodes -> WorkerStates]
  BY NodeAssumption DEF RunInv, Undisturbed, PathInv, EngineTypes, Tasks
<1>3. /\ row'[n].status = status /\ row'[n].cancel_flag = row[n].cancel_flag
      /\ worker'[n] = w
      /\ \A t \in Tasks \ {n} : row'[t] = row[t]
      /\ \A m \in Nodes \ {n} : worker'[m] = worker[m]
  BY <1>2 DEF Rows
<1>4. row'[Workflow] = row[Workflow] /\ Verdict' = Verdict
  BY <1>2, <1>3 DEF Verdict, Tasks
<1>5. row[Workflow].status \notin Terminal
  BY <1>2 DEF RunInv, Over, Active, Unfinished
<1>6. n \notin DOMAIN tx /\ View(n) = row[n] /\ View(n)' = row'[n]
  BY <1>1 DEF Unlocked, View
<1>7. \A m \in Nodes \ {n} : View(m)' = View(m)
  BY <1>1, <1>3 DEF View, Tasks
<1>8. \A p \in Nodes : View(p).status \in Settled => View(p)'.status = View(p).status
  BY <1>2, <1>6, <1>7 DEF Settled, Active
<1>9. \A p \in Nodes : row'[p].status = "none" <=> row[p].status = "none"
  BY <1>2, <1>3 DEF Active, Terminal, Tasks
<1>10. Undisturbed'
  <2>1. n \notin pending
    BY <1>2 DEF RunInv, Undisturbed, Active
  <2>2. \A t \in Tasks : ~row'[t].cancel_flag
    BY <1>2, <1>3 DEF RunInv, Undisturbed
  <2>3. \A m \in Nodes : worker'[m] # "none" => row'[m].status \in Active
    BY <1>3 DEF RunInv, Undisturbed, Active, Tasks
  <2>4. \A t \in pending : row'[t].status = "pending"
    BY <1>3, <2>1 DEF RunInv, Undisturbed, PathInv, EngineTypes
  <2> QED BY <1>1, <1>4, <2>2, <2>3, <2>4 DEF RunInv, Undisturbed
<1>11. Walked'
  <2>1. \A m \in Nodes : HasJob(m)' => HasJob(m)
    BY <1>2, <1>6, <1>7 DEF HasJob, Active
  <2> QED BY <1>1, <1>8, <2>1, WalkStays DEF RunInv
<1>12. Written'
  <2>1. \A m \in DOMAIN tx' \ {Workflow} : WrittenNode(m)'
    <3> SUFFICES ASSUME NEW m \in DOMAIN tx \ {Workflow} PROVE WrittenNode(m)'
      BY <1>1
    <3>1. WrittenNode(m) /\ m # n /\ m \in Tasks
      BY <1>6 DEF RunInv, Written, PathInv, EngineTypes
    <3>2. row'[m] = row[m] /\ tx'[m] = tx[m]
      BY <1>1, <1>3, <3>1
    <3> QED BY <1>8, <1>9, <3>1, <3>2, SpawnableStays DEF WrittenNode
  <2>2. ~Ending
    <3>1. ViewFates[n] = "started"
      BY <1>2, <1>6, FateOfView DEF Active, Unfinished
    <3> QED BY <3>1 DEF Ending, Run!Complete
  <2>3. Starting => Starting'
    BY <1>1, <1>4 DEF Starting
  <2>4. \A m \in Nodes : HasJob(m)' <=> HasJob(m)
    BY <1>2, <1>3, <1>6, <1>7 DEF HasJob, Active, Terminal
  <2> QED BY <1>1, <1>9, <2>1, <2>2, <2>3, <2>4 DEF RunInv, Written
<1>13. Over'
  BY <1>4, <1>5 DEF Over
<1>14. RunStep
  <2>1. /\ Fates[n] = "started"
        /\ \A m \in Nodes \ {n} : Fates'[m] = Fates[m]
        /\ Fates' \in [Nodes -> Run!Fates]
    <3>1. \A m \in Nodes \ {n} : row'[m] = row[m]
      BY <1>3 DEF Tasks
    <3>2. Fates[n] = "started"
      BY <1>2, FateType DEF RunInv, Active, Unfinished
    <3> QED BY <3>1, <3>2, FateTypeNext DEF Fates, Fate
  <2>2. CASE status = "running"
    <3>1. Fates'[n] = "started"
      BY <1>3, <2>2, FateTypeNext DEF Unfinished
    <3>2. \A m \in Nodes : Fates'[m] = Fates[m]
      BY <2>1, <3>1
    <3>3. Fates' = Fates
      BY <2>1, <3>2 DEF Fates
    <3> QED BY <1>4, <3>3 DEF RunStep
  <2>3. CASE status \in Terminal
    <3>1. Fates'[n] \in Run!Ends
      BY <1>3, <2>3, FateTypeNext DEF Terminal, Run!Ends
    <3>2. Verdict = "running"
      BY <1>5 DEF Verdict
    <3> DEFINE settled == [m \in Nodes |-> IF Fates[m] = "started" THEN Fates'[m] ELSE Fates[m]]
    <3>3. \A m \in Nodes : settled[m] = Fates'[m]
      BY <2>1
    <3>4. Run!Settles(Fates, settled) /\ Run!Starts(settled, Fates')
      BY <2>1, <3>1, <3>3 DEF Run!Settles, Run!Starts
    <3>5. Run!Advance
      BY <1>4, <2>1, <3>2, <3>4 DEF Run!Advance, Fates
    <3> QED BY <3>5 DEF RunStep, Run!Next
  <2> QED BY <2>2, <2>3
<1> QED BY <1>10, <1>11, <1>12, <1>13, <1>14 DEF RunInv

(* The commit of a pass starts the nodes that committed and reaped rows    *)
(* select, or ends the run.                                                *)
LEMMA CommitStep ==
  ASSUME RunInv, PathInv', Commit
  PROVE  RunStep
<1>1. row' = [t \in Tasks |-> View(t)]
  BY DEF Commit
<1>2. \A n \in Nodes : /\ n \in Tasks /\ n # Workflow
                       /\ row'[n] = View(n) /\ View(n) \in Rows /\ row[n] \in Rows
  BY <1>1, ViewType, NodeAssumption DEF Tasks, RunInv, PathInv, EngineTypes
<1>3. row'[Workflow] = View(Workflow)
  BY <1>1 DEF Tasks
<1>4. Fates' = ViewFates /\ Fates' \in [Nodes -> Run!Fates]
  <2>1. \A n \in Nodes : Fate(n)' = ViewFate(n)
    BY <1>2 DEF Fate, ViewFate
  <2> QED BY <2>1, FateTypeNext DEF Fates, ViewFates
<1>5. ASSUME NEW n \in Nodes
      PROVE  \/ Fates'[n] = Fates[n]
             \/ Fates[n] = "started" /\ Fates'[n] = "failed"
             \/ /\ Fates[n] = "idle" /\ Fates'[n] \in {"started", "failed"}
                /\ n \notin Missing /\ Spawnable(n)
  <2>1. CASE n \notin DOMAIN tx
    BY <1>2, <2>1 DEF Fates, Fate, View
  <2>2. CASE n \in DOMAIN tx
    <3>1. WrittenNode(n) /\ View(n) = tx[n]
      BY <1>2, <2>2 DEF RunInv, Written, View
    <3>2. CASE /\ row[n].status = "none" /\ tx[n].status \in {"pending", "failed"}
               /\ Spawnable(n)
      <4>1. n \notin Missing
        BY <3>1, <3>2 DEF RunInv, Walked, HasJob, Undisturbed
      <4>2. Fates[n] = "idle" /\ Fates'[n] \in {"started", "failed"}
        BY <1>2, <3>1, <3>2, FateType, FateTypeNext DEF RunInv, Unfinished, Terminal
      <4> QED BY <3>2, <4>1, <4>2
    <3>3. CASE row[n].status \in Unfinished /\ tx[n].status \in {"waiting", "failed"}
      BY <1>2, <3>1, <3>3, FateType, FateTypeNext DEF RunInv, Unfinished, Terminal
    <3> QED BY <3>1, <3>2, <3>3 DEF WrittenNode
  <2> QED BY <2>1, <2>2
<1>6. CASE Workflow \in DOMAIN tx /\ Ending
  <2>1. Verdict = "running"
    BY <1>6 DEF Ending, Verdict, Terminal
  <2>2. Run!Complete(ViewFates)
    BY <1>6 DEF Ending
  <2>3. Verdict' = IF Run!Failed(ViewFates) THEN "failed" ELSE "successful"
    BY <1>3, <1>6 DEF Ending, View, Verdict, Terminal
  <2>4. Run!Settles(Fates, Fates')
    <3> SUFFICES ASSUME NEW n \in Nodes
                 PROVE  \/ Fates'[n] = Fates[n]
                        \/ Fates[n] = "started" /\ Fates'[n] \in Run!Ends
      BY DEF Run!Settles
    <3>1. ~(Fates[n] = "idle" /\ Fates'[n] \in {"started", "failed"})
      <4>1. Fates[n] = "idle" => ~HasJob(n)
        BY <1>6, FateType DEF RunInv, Ending
      <4>2. ~HasJob(n) => Fates'[n] = "idle"
        BY <1>2, <1>4, FateOfView
      <4> QED BY <4>1, <4>2
    <3>2. \/ Fates'[n] = Fates[n]
          \/ Fates[n] = "started" /\ Fates'[n] = "failed"
          \/ Fates[n] = "idle" /\ Fates'[n] \in {"started", "failed"}
      BY <1>5
    <3> QED BY <3>1, <3>2 DEF Run!Ends
  <2>5. Run!Finish
    BY <1>4, <2>1, <2>2, <2>3, <2>4 DEF Run!Finish, Fates
  <2> QED BY <2>5 DEF RunStep, Run!Next
<1>7. CASE ~(Workflow \in DOMAIN tx /\ Ending)
  <2>1. Verdict' = Verdict
    <3>1. CASE Workflow \in DOMAIN tx
      <4>1. Starting
        BY <1>7, <3>1 DEF RunInv, Written
      <4> QED BY <1>3, <3>1, <4>1 DEF Starting, View, Verdict, Terminal
    <3>2. CASE Workflow \notin DOMAIN tx
      BY <1>3, <3>2 DEF View, Verdict
    <3> QED BY <3>1, <3>2
  <2>2. CASE row[Workflow].status \in Terminal
    <3>1. \A n \in Nodes : row'[n] = row[n]
      BY <1>2, <2>2 DEF RunInv, Over, View
    <3>2. Fates' = Fates
      BY <3>1 DEF Fates, Fate
    <3> QED BY <2>1, <3>2 DEF RunStep
  <2>3. CASE row[Workflow].status \notin Terminal
    <3> DEFINE settled ==
          [n \in Nodes |-> IF Fates[n] = "started" THEN Fates'[n] ELSE Fates[n]]
    <3>1. Verdict = "running"
      BY <2>3 DEF Verdict
    <3>2. Run!Settles(Fates, settled)
      BY <1>5 DEF Run!Settles, Run!Ends
    <3>3. ASSUME NEW n \in Nodes, Spawnable(n) PROVE Run!Reached(settled, n)
      <4>1. CASE n \in Roots
        BY <4>1 DEF Run!Reached, Run!Trees, Run!Children, Roots, Children
      <4>2. ASSUME NEW p \in Nodes, n \in Followed(p), row[p].status # "none"
            PROVE  Run!Reached(settled, n)
        <5>1. View(p).status \in {"successful", "failed"}
          BY <4>2 DEF Followed
        <5>2. Fates'[p] = View(p).status
          BY <1>2, <1>4, <5>1, FateOfView DEF Terminal
        <5>3. Fates[p] # "idle"
          BY <4>2, FateType DEF RunInv
        <5>4. settled[p] = View(p).status
          BY <1>5, <5>2, <5>3
        <5> HIDE DEF settled
        <5>5. n \in Run!Selected(p, settled[p])
          BY <4>2, <5>1, <5>4 DEF Run!Selected, Run!Children, Followed
        <5> QED BY <5>5 DEF Run!Reached
      <4> QED BY <3>3, <4>1, <4>2 DEF Spawnable
    <3>4. Run!Starts(settled, Fates')
      <4> SUFFICES ASSUME NEW n \in Nodes
                   PROVE  \/ Fates'[n] = settled[n]
                          \/ /\ Run!Eligible(settled, n)
                             /\ Fates'[n] \in {"started", "failed"}
        BY DEF Run!Starts
      <4> QED BY <1>5, <3>3 DEF Run!Eligible
    <3>5. Run!Advance
      BY <1>4, <2>1, <3>1, <3>2, <3>4 DEF Run!Advance, Fates
    <3> QED BY <3>5 DEF RunStep, Run!Next
  <2> QED BY <2>2, <2>3
<1> QED BY <1>6, <1>7

LEMMA NextRun ==
  ASSUME Calm, RunInv, [Next]_vars
  PROVE  RunInv' /\ RunStep
<1>1. PathInv'
  BY NextPath DEF Calm, RunInv
<1>2. ASSUME NEW reaped \in SUBSET {n \in Nodes : Lost(n)}, Schedule(reaped)
      PROVE  RunInv' /\ RunStep
  BY <1>1, <1>2, ScheduleRun, SameRows DEF Schedule, users
<1>3. CASE PassStep
  <2>1. CASE ProcessFinished
    BY <1>1, <2>1, ProcessFinishedRun, SameRows DEF ProcessFinished, users
  <2>2. CASE SpawnJobs
    BY <1>1, <2>2, SpawnJobsRun, SameRows DEF SpawnJobs, users
  <2>3. ASSUME NEW started \in SUBSET pending, ProcessTasks(started)
        PROVE  RunInv' /\ RunStep
    BY <1>1, <2>3, ProcessTasksRun, SameRows DEF ProcessTasks, users
  <2>4. CASE Commit
    BY <1>1, <2>4, CommitRun, CommitStep
  <2> QED BY <1>3, <2>1, <2>2, <2>3, <2>4 DEF PassStep
<1>4. ASSUME NEW n \in Nodes, JobStarts(n)
      PROVE  RunInv' /\ RunStep
  <2> DEFINE w == IF row[n].cancel_flag THEN "stopping" ELSE "playbook"
  <2>1. /\ row' = [row EXCEPT ![n].status = "running"] /\ UNCHANGED <<templates, locals>>
        /\ worker' = [worker EXCEPT ![n] = w] /\ worker[n] # "none" /\ Unlocked(n)
    BY <1>4 DEF JobStarts
  <2> HIDE DEF w
  <2> QED BY <1>1, <2>1, WorkerRun DEF Terminal
<1>5. ASSUME NEW n \in Nodes, JobFinishes(n)
      PROVE  RunInv' /\ RunStep
  <2>1. worker[n] \in Terminal /\ row' = [row EXCEPT ![n].status = worker[n]]
    BY <1>5 DEF JobFinishes
  <2>2. /\ worker' = [worker EXCEPT ![n] = "none"] /\ UNCHANGED <<templates, locals>>
        /\ worker[n] # "none" /\ Unlocked(n)
    BY <1>5 DEF JobFinishes, Terminal
  <2> QED BY <1>1, <2>1, <2>2, WorkerRun
<1>6. ASSUME UNCHANGED <<row, templates, locals>>,
             \A n \in Nodes : worker'[n] # "none" => worker[n] # "none"
      PROVE  RunInv' /\ RunStep
  <2>1. UNCHANGED <<phase, tx, pending, running_workflow_jobs>>
    BY <1>6 DEF locals
  <2>2. Undisturbed'
    BY <1>6, <2>1 DEF RunInv, Undisturbed
  <2>3. Walked'
    BY <1>6, <2>1, WalkStays DEF RunInv, View, HasJob
  <2>4. \A n \in Nodes : View(n)' = View(n) /\ HasJob(n)' = HasJob(n)
    BY <1>6, <2>1 DEF View, HasJob
  <2>5. ViewFates' = ViewFates
    BY <2>4 DEF ViewFates, ViewFate
  <2>6. \A n \in DOMAIN tx \ {Workflow} : WrittenNode(n) => WrittenNode(n)'
    BY <1>6, <2>1, <2>4, SpawnableStays DEF WrittenNode
  <2>7. (Ending => Ending') /\ (Starting => Starting')
    BY <1>6, <2>1, <2>4, <2>5
       DEF Ending, Starting, Run!Failed, Run!Complete, Run!Reached, Run!Eligible
  <2>8. Written'
    BY <1>6, <2>1, <2>4, <2>6, <2>7 DEF RunInv, Written
  <2>9. Over'
    BY <1>6, <2>1 DEF RunInv, Over
  <2> QED BY <1>1, <1>6, <2>2, <2>3, <2>8, <2>9, SameRows DEF RunInv
<1>7. ASSUME NEW n \in Nodes, WorkerAlone(n)
      PROVE  RunInv' /\ RunStep
  BY <1>6, <1>7, WorkerLeavesRows DEF RunInv, PathInv
<1>8. CASE UNCHANGED vars
  BY <1>6, <1>8 DEF vars, locals
<1>9. \A n \in Nodes : ~DeleteTemplate(n)
  BY DEF Calm, DeleteTemplate
<1>10. \A t \in Tasks : ~Cancel(t)
  BY DEF Calm, Cancel
<1> QED BY <1>2, <1>3, <1>4, <1>5, <1>7, <1>8, <1>9, <1>10 DEF Next, WorkerAlone

(* As long as only workers crash, whatever the graph, the engine runs a    *)
(* workflow as WorkflowRun promises: jobs start along the edges that are   *)
(* selected, and the end comes when nothing is left to do, with the right  *)
(* verdict.                                                                *)
THEOREM EngineImplementsRun ==
  ASSUME Calm
  PROVE  Spec => ImplementsRun
<1>1. Init => Run!Init
  <2> SUFFICES ASSUME Init PROVE Run!Init
    OBVIOUS
  <2>1. /\ \A n \in Nodes : row[n].status = "none"
        /\ row[Workflow].status = "pending"
    BY NodeAssumption DEF Init, Row, Tasks
  <2>2. \A n \in Nodes : Fate(n) = "idle"
    BY <2>1 DEF Fate, Unfinished
  <2>3. Verdict = "running"
    BY <2>1 DEF Verdict, Terminal
  <2> QED BY <2>2, <2>3 DEF Run!Init
<1>2. RunInv /\ [Next]_vars => RunInv' /\ [Run!Next]_Run!fates
  <2> SUFFICES ASSUME RunInv, [Next]_vars PROVE RunInv' /\ [Run!Next]_Run!fates
    OBVIOUS
  <2> QED BY NextRun DEF RunStep, Run!fates, Fates
<1> QED BY <1>1, <1>2, InitRun, PTL DEF Spec, ImplementsRun, Run!Spec

----------------------------------------------------------------------------
(* Templates.  spawn_workflow_graph_jobs tests the template of a node and  *)
(* the job comes with the commit; in between the row that refers to the    *)
(* template keeps it from being deleted.                                   *)
InsertedWithTemplate ==
    \A n \in DOMAIN tx \ {Workflow} :
        tx[n].status # "none" /\ (row[n].status = "none" => n \in templates)
JobsExist ==
    /\ \A n \in Nodes : worker[n] # "none" => row[n].status # "none"
    /\ \A n \in pending \ {Workflow} : row[n].status # "none"
TemplateInv == EngineTypes /\ InsertedWithTemplate /\ JobsExist

LEMMA InitTemplates == Init => TemplateInv
<1> SUFFICES ASSUME Init PROVE TemplateInv
  OBVIOUS
<1>1. EngineTypes
  BY InitPath DEF PathInv
<1> QED BY <1>1 DEF Init, TemplateInv, InsertedWithTemplate, JobsExist

LEMMA ScheduleTemplates ==
  ASSUME TemplateInv, NEW reaped \in SUBSET {n \in Nodes : Lost(n)}, Schedule(reaped)
  PROVE  TemplateInv'
<1>1. /\ DOMAIN tx = {} /\ phase' = "finish" /\ UNCHANGED <<row, templates, worker>>
      /\ tx' = [n \in reaped |-> [row[n] EXCEPT !.status = "failed"]]
      /\ pending' = {t \in Tasks : row[t].status = "pending"}
      /\ running_workflow_jobs' \subseteq {row[Workflow]}
  BY DEF Schedule, TemplateInv, EngineTypes, users
<1>2. row \in [Tasks -> Rows] /\ \A t \in Tasks : row[t] \in Rows
  BY DEF TemplateInv, EngineTypes
<1>3. \A n \in reaped : n \in Nodes /\ row[n].status \in Active
  BY DEF Lost
<1>4. \A n \in reaped : [row[n] EXCEPT !.status = "failed"] \in Rows
  BY <1>2, <1>3 DEF Rows, Terminal, Tasks
<1>5. EngineTypes'
  <2>1. tx' \in [DOMAIN tx' -> Rows] /\ DOMAIN tx' = reaped /\ reaped \subseteq Tasks
    BY <1>1, <1>3, <1>4 DEF Tasks
  <2> QED BY <1>1, <1>2, <2>1 DEF TemplateInv, EngineTypes, Tasks
<1>6. \A n \in reaped : tx'[n].status = "failed"
  BY <1>1, <1>2, <1>3 DEF Rows, Tasks
<1>7. InsertedWithTemplate' /\ JobsExist'
  BY <1>1, <1>3, <1>6 DEF TemplateInv, InsertedWithTemplate, JobsExist, Active
<1> QED BY <1>5, <1>7 DEF TemplateInv

(* A step of the pass writes rows of nodes that have a job or a template.  *)
LEMMA WritesTemplates ==
  ASSUME TemplateInv, UNCHANGED <<row, templates, worker, pending>>,
         NEW f, tx' = Override(f), DOMAIN f \subseteq Tasks,
         \A t \in DOMAIN f : f[t] \in Rows,
         phase' \in {"spawn", "start", "commit"}, running_workflow_jobs' \subseteq Rows,
         \A n \in DOMAIN f \ {Workflow} :
            /\ f[n].status # "none"
            /\ HasJob(n) \/ row[n].status # "none" \/ n \in templates
  PROVE  TemplateInv'
<1>1. /\ DOMAIN tx' = DOMAIN tx \cup DOMAIN f
      /\ \A t \in DOMAIN tx' : tx'[t] = IF t \in DOMAIN f THEN f[t] ELSE tx[t]
      /\ tx' = [t \in DOMAIN tx' |-> tx'[t]]
  BY DEF Override
<1>2. EngineTypes'
  <2>1. \A t \in DOMAIN tx' : tx'[t] \in Rows
    BY <1>1 DEF TemplateInv, EngineTypes
  <2>2. tx' \in [DOMAIN tx' -> Rows]
    BY <1>1, <2>1
  <2> QED BY <1>1, <2>2 DEF TemplateInv, EngineTypes
<1>3. ASSUME NEW n \in DOMAIN tx' \ {Workflow}
      PROVE  tx'[n].status # "none" /\ (row[n].status = "none" => n \in templates)
  BY <1>1, <1>3 DEF TemplateInv, InsertedWithTemplate, HasJob, View
<1>4. InsertedWithTemplate' /\ JobsExist'
  BY <1>3 DEF TemplateInv, InsertedWithTemplate, JobsExist
<1> QED BY <1>2, <1>4 DEF TemplateInv

LEMMA NothingWrittenTemplates ==
  ASSUME TemplateInv, UNCHANGED <<row, templates, worker, pending, tx>>,
         phase' \in {"spawn", "start", "commit"}, running_workflow_jobs' \subseteq Rows
  PROVE  TemplateInv'
  BY DEF TemplateInv, EngineTypes, InsertedWithTemplate, JobsExist

LEMMA ProcessFinishedTemplates ==
  ASSUME TemplateInv, ProcessFinished
  PROVE  TemplateInv'
<1>1. /\ UNCHANGED <<row, templates, worker, pending, running_workflow_jobs>>
      /\ phase' = "spawn" /\ EngineTypes /\ running_workflow_jobs' \subseteq Rows
  BY DEF ProcessFinished, users, TemplateInv, EngineTypes
<1>2. CASE UNCHANGED tx
  BY <1>1, <1>2, NothingWrittenTemplates
<1>3. ASSUME NEW r \in Rows, NEW status \in Terminal, tx' = Override(Ended(r, status))
      PROVE  TemplateInv'
  <2> DEFINE f == Ended(r, status)
  <2>1. /\ DOMAIN f \subseteq Tasks /\ \A t \in DOMAIN f : f[t] \in Rows
        /\ DOMAIN f \ {Workflow} = {}
    BY DEF Ended, Rows, Tasks
  <2>2. tx' = Override(f)
    BY <1>3
  <2> HIDE DEF f
  <2> QED BY <1>1, <2>1, <2>2, WritesTemplates
<1>4. ASSUME NEW r \in Rows,
             tx' = Override([t \in DOMAIN cancel_node_jobs \cup {Workflow} |->
                              IF t = Workflow THEN Ended(r, "canceled")[t]
                              ELSE cancel_node_jobs[t]])
      PROVE  TemplateInv'
  <2> DEFINE f == [t \in DOMAIN cancel_node_jobs \cup {Workflow} |->
                     IF t = Workflow THEN Ended(r, "canceled")[t]
                     ELSE cancel_node_jobs[t]]
  <2>1. Ended(r, "canceled")[Workflow] \in Rows
    BY DEF Ended, Rows, Terminal
  <2>2. /\ DOMAIN f \subseteq Tasks /\ f[Workflow] \in Rows
        /\ \A n \in DOMAIN f \ {Workflow} :
              n \in Nodes /\ CanCancel(View(n)) /\ f[n] = Cancelled(View(n))
    BY <2>1 DEF cancel_node_jobs, Tasks
  <2>3. tx' = Override(f)
    BY <1>4
  <2> HIDE DEF f
  <2>4. \A n \in DOMAIN f \ {Workflow} : f[n] \in Rows /\ HasJob(n) /\ f[n].status # "none"
    BY <1>1, <2>2, ViewType, CancelledRow DEF Tasks, HasJob, CanCancel, Unfinished
  <2>5. \A t \in DOMAIN f : f[t] \in Rows
    BY <2>2, <2>4
  <2> QED BY <1>1, <2>2, <2>3, <2>4, <2>5, WritesTemplates
<1> QED BY <1>1, <1>2, <1>3, <1>4 DEF ProcessFinished, EngineTypes, Terminal

LEMMA SpawnJobsTemplates ==
  ASSUME TemplateInv, SpawnJobs
  PROVE  TemplateInv'
<1>1. /\ UNCHANGED <<row, templates, worker, pending, running_workflow_jobs>>
      /\ phase' = "start" /\ EngineTypes /\ running_workflow_jobs' \subseteq Rows
  BY DEF SpawnJobs, users, TemplateInv, EngineTypes
<1>2. CASE UNCHANGED tx
  BY <1>1, <1>2, NothingWrittenTemplates
<1>3. CASE tx' = Override(Spawned)
  <2>1. ASSUME NEW n \in DOMAIN Spawned
        PROVE  /\ n \in templates /\ n \in Nodes /\ Spawned[n] \in Rows
               /\ Spawned[n].status # "none"
    <3>1. n \in templates /\ n \in Nodes
      BY DEF Spawned, bfs_nodes_to_run, Visited
    <3>2. Spawned[n] = Row(IF n \in Unstartable THEN "failed" ELSE "pending", FALSE)
      BY DEF Spawned
    <3> QED BY <3>1, <3>2 DEF Row, Rows, Unfinished, Terminal
  <2>2. DOMAIN Spawned \subseteq Tasks
    BY <2>1 DEF Tasks
  <2> QED BY <1>1, <1>3, <2>1, <2>2, WritesTemplates
<1> QED BY <1>2, <1>3 DEF SpawnJobs

LEMMA ProcessTasksTemplates ==
  ASSUME TemplateInv, NEW started \in SUBSET pending, ProcessTasks(started)
  PROVE  TemplateInv'
<1> DEFINE f == [t \in started |->
                   Row(IF t = Workflow THEN "running" ELSE "waiting", FALSE)]
<1>1. /\ UNCHANGED <<row, templates, worker, pending, running_workflow_jobs>>
      /\ phase' = "commit" /\ tx' = Override(f)
  BY DEF ProcessTasks, users
<1>2. pending \subseteq Tasks /\ running_workflow_jobs' \subseteq Rows
  BY <1>1 DEF TemplateInv, EngineTypes
<1>3. /\ DOMAIN f \subseteq Tasks
      /\ \A t \in DOMAIN f : f[t] \in Rows
      /\ \A t \in DOMAIN f \ {Workflow} : f[t].status # "none" /\ row[t].status # "none"
  BY <1>2 DEF Row, Rows, Unfinished, TemplateInv, JobsExist
<1> HIDE DEF f
<1> QED BY <1>1, <1>2, <1>3, WritesTemplates

LEMMA CommitTemplates ==
  ASSUME TemplateInv, Commit
  PROVE  /\ TemplateInv'
         /\ \A n \in Nodes : row[n].status = "none" /\ row'[n].status # "none"
                                => n \in templates
<1>1. /\ row' = [t \in Tasks |-> View(t)] /\ tx' = <<>> /\ DOMAIN tx' = {}
      /\ phase' = "idle" /\ pending' = {} /\ running_workflow_jobs' = {}
      /\ worker' = [n \in Nodes |-> IF n \in Submitted THEN "queued" ELSE worker[n]]
  BY DEF Commit
<1>2. \A t \in Tasks : row'[t] = View(t) /\ View(t) \in Rows
  BY <1>1, ViewType DEF TemplateInv
<1>3. EngineTypes'
  <2>1. row' \in [Tasks -> Rows] /\ tx' \in [DOMAIN tx' -> Rows]
    BY <1>1, <1>2
  <2>2. worker' \in [Nodes -> WorkerStates]
    BY <1>1 DEF TemplateInv, EngineTypes, WorkerStates
  <2> QED BY <1>1, <2>1, <2>2 DEF EngineTypes
<1>4. \A n \in Nodes : n \in Tasks /\ n # Workflow
  BY NodeAssumption DEF Tasks
<1>5. ASSUME NEW n \in Nodes, row[n].status = "none", row'[n].status # "none"
      PROVE  n \in templates
  BY <1>2, <1>4, <1>5 DEF TemplateInv, InsertedWithTemplate, View
<1>6. ASSUME NEW n \in Nodes, worker'[n] # "none"
      PROVE  row'[n].status # "none"
  <2>1. CASE n \in DOMAIN tx
    BY <1>2, <1>4, <2>1 DEF TemplateInv, InsertedWithTemplate, View
  <2>2. CASE n \notin DOMAIN tx
    BY <1>1, <1>2, <1>4, <1>6, <2>2 DEF TemplateInv, JobsExist, View, Submitted
  <2> QED BY <2>1, <2>2
<1>7. InsertedWithTemplate' /\ JobsExist'
  BY <1>1, <1>6 DEF InsertedWithTemplate, JobsExist
<1> QED BY <1>3, <1>5, <1>7 DEF TemplateInv

(* A step of a worker or a user leaves the rows that have no job alone.    *)
LEMMA OutsideTemplates ==
  ASSUME TemplateInv, EngineTypes', UNCHANGED locals, UNCHANGED templates,
         \A n \in Nodes : /\ row'[n].status = "none" <=> row[n].status = "none"
                          /\ worker'[n] # "none" => worker[n] # "none",
         \A n \in DOMAIN tx \ {Workflow} : row'[n].status = "none" => row[n].status = "none"
  PROVE  TemplateInv'
<1>1. \A n \in pending \ {Workflow} : n \in Nodes
  BY DEF TemplateInv, EngineTypes, Tasks
<1> QED BY <1>1 DEF TemplateInv, InsertedWithTemplate, JobsExist, locals

LEMMA WorkerTemplates ==
  ASSUME TemplateInv, NEW n \in Nodes, worker[n] # "none",
         NEW status \in {"running"} \cup Terminal,
         NEW w \in {"none", "stopping", "playbook"},
         row' = [row EXCEPT ![n].status = status],
         worker' = [worker EXCEPT ![n] = w], UNCHANGED locals, UNCHANGED templates
  PROVE  TemplateInv' /\ \A m \in Nodes : row'[m].status = "none" <=> row[m].status = "none"
<1>1. /\ row \in [Tasks -> Rows] /\ n \in Tasks
      /\ worker \in [Nodes -> WorkerStates]
      /\ DOMAIN tx \subseteq Tasks
  BY DEF TemplateInv, EngineTypes, Tasks
<1>2. [row[n] EXCEPT !.status = status] \in Rows
  BY <1>1 DEF Rows, Unfinished
<1>3. EngineTypes'
  BY <1>1, <1>2 DEF TemplateInv, EngineTypes, WorkerStates, locals
<1>4. /\ row'[n].status = status /\ row[n].status # "none" /\ status # "none"
      /\ \A t \in Tasks \ {n} : row'[t] = row[t]
      /\ \A m \in Nodes \ {n} : worker'[m] = worker[m]
  BY <1>1 DEF Rows, Terminal, TemplateInv, JobsExist
<1>5. \A t \in Tasks : row'[t].status = "none" <=> row[t].status = "none"
  BY <1>4
<1>6. \A m \in Nodes : m \in Tasks /\ (worker'[m] # "none" => worker[m] # "none")
  BY <1>4 DEF Tasks
<1> QED BY <1>1, <1>3, <1>5, <1>6, OutsideTemplates

LEMMA CancelTemplates ==
  ASSUME TemplateInv, NEW t \in Tasks, Cancel(t)
  PROVE  TemplateInv' /\ \A m \in Nodes : row'[m].status = "none" <=> row[m].status = "none"
<1>1. /\ row' = [row EXCEPT ![t] = Cancelled(row[t])] /\ worker' = worker
      /\ UNCHANGED locals /\ UNCHANGED templates /\ row[t].status \in Unfinished
  BY DEF Cancel, CanCancel
<1>2. row \in [Tasks -> Rows] /\ row[t] \in Rows /\ DOMAIN tx \subseteq Tasks
  BY DEF TemplateInv, EngineTypes
<1>3. Cancelled(row[t]) \in Rows /\ Cancelled(row[t]).status \in {row[t].status, "canceled"}
  BY <1>2, CancelledRow
<1>4. EngineTypes'
  BY <1>1, <1>2, <1>3 DEF TemplateInv, EngineTypes, locals
<1>5. \A u \in Tasks : row'[u].status = "none" <=> row[u].status = "none"
  BY <1>1, <1>2, <1>3 DEF Unfinished
<1>6. \A m \in Nodes : m \in Tasks
  BY DEF Tasks
<1> QED BY <1>1, <1>2, <1>4, <1>5, <1>6, OutsideTemplates

(* The row that refers to a template keeps it.                             *)
LEMMA DeleteTemplateTemplates ==
  ASSUME TemplateInv, NEW n \in Nodes, DeleteTemplate(n)
  PROVE  TemplateInv'
<1>1. /\ UNCHANGED <<row, worker, phase, tx, pending, running_workflow_jobs>>
      /\ templates' = templates \ {n} /\ n \notin DOMAIN tx
  BY DEF DeleteTemplate, locals, Unlocked
<1> QED BY <1>1 DEF TemplateInv, EngineTypes, InsertedWithTemplate, JobsExist

LEMMA NextTemplates ==
  ASSUME TemplateInv, [Next]_vars
  PROVE  /\ TemplateInv'
         /\ \A n \in Nodes : row[n].status = "none" /\ row'[n].status # "none"
                                => n \in templates
<1> DEFINE Kept == \A n \in Nodes : row[n].status = "none" /\ row'[n].status # "none"
                                    => n \in templates
<1> SUFFICES TemplateInv' /\ Kept
  OBVIOUS
<1>1. ASSUME NEW reaped \in SUBSET {n \in Nodes : Lost(n)}, Schedule(reaped)
      PROVE  TemplateInv' /\ Kept
  BY <1>1, ScheduleTemplates DEF Schedule, users
<1>2. CASE ProcessFinished
  BY <1>2, ProcessFinishedTemplates DEF ProcessFinished, users
<1>3. CASE SpawnJobs
  BY <1>3, SpawnJobsTemplates DEF SpawnJobs, users
<1>4. ASSUME NEW started \in SUBSET pending, ProcessTasks(started)
      PROVE  TemplateInv' /\ Kept
  BY <1>4, ProcessTasksTemplates DEF ProcessTasks, users
<1>5. CASE Commit
  BY <1>5, CommitTemplates
<1>6. ASSUME NEW n \in Nodes, JobStarts(n)
      PROVE  TemplateInv' /\ Kept
  <2> DEFINE w == IF row[n].cancel_flag THEN "stopping" ELSE "playbook"
  <2>1. w \in {"none", "stopping", "playbook"} /\ worker' = [worker EXCEPT ![n] = w]
    BY <1>6 DEF JobStarts
  <2>2. /\ row' = [row EXCEPT ![n].status = "running"] /\ UNCHANGED locals
        /\ worker[n] # "none" /\ UNCHANGED templates
    BY <1>6 DEF JobStarts
  <2> HIDE DEF w
  <2> QED BY <2>1, <2>2, WorkerTemplates
<1>7. ASSUME NEW n \in Nodes, JobFinishes(n)
      PROVE  TemplateInv' /\ Kept
  <2>1. worker[n] \in Terminal /\ row' = [row EXCEPT ![n].status = worker[n]]
    BY <1>7 DEF JobFinishes
  <2>2. /\ worker' = [worker EXCEPT ![n] = "none"] /\ UNCHANGED locals
        /\ worker[n] # "none" /\ UNCHANGED templates
    BY <1>7 DEF JobFinishes, Terminal
  <2> QED BY <2>1, <2>2, WorkerTemplates
<1>8. ASSUME NEW n \in Nodes, WorkerAlone(n)
      PROVE  TemplateInv' /\ Kept
  <2>1. /\ EngineTypes' /\ UNCHANGED <<row, templates, locals>>
        /\ \A m \in Nodes : worker'[m] # "none" => worker[m] # "none"
    BY <1>8, WorkerLeavesRows DEF TemplateInv
  <2>2. TemplateInv'
    BY <2>1, OutsideTemplates
  <2> QED BY <2>1, <2>2
<1>9. ASSUME NEW n \in Nodes, DeleteTemplate(n)
      PROVE  TemplateInv' /\ Kept
  BY <1>9, DeleteTemplateTemplates DEF DeleteTemplate
<1>10. ASSUME NEW t \in Tasks, Cancel(t)
       PROVE  TemplateInv' /\ Kept
  BY <1>10, CancelTemplates
<1>11. CASE UNCHANGED vars
  BY <1>11 DEF vars, TemplateInv, EngineTypes, InsertedWithTemplate, JobsExist
<1> HIDE DEF Kept
<1> QED
  BY <1>1, <1>2, <1>3, <1>4, <1>5, <1>6, <1>7, <1>8, <1>9, <1>10, <1>11
     DEF Next, PassStep, WorkerAlone

(* Whenever a template is deleted, and whatever the reaper, the users and  *)
(* the workers do: no node without a template gets a job.                  *)
THEOREM TemplatesHoldWhatTheyStart == Spec => NoJobWithoutTemplate
<1>1. TemplateInv /\ [Next]_vars =>
         [\A n \in Nodes : (row[n].status = "none" /\ row'[n].status # "none")
                              => n \in templates]_vars
  BY NextTemplates
<1>2. TemplateInv /\ [Next]_vars => TemplateInv'
  BY NextTemplates
<1> QED BY <1>1, <1>2, InitTemplates, PTL DEF Spec, NoJobWithoutTemplate

----------------------------------------------------------------------------
(* Canceling.  The pass that ends a canceled workflow job tells the jobs   *)
(* of its nodes to stop; a worker that takes a message between that write  *)
(* and the commit finds a flag in the row.                                 *)
QueuedRow(r) == r.status = "waiting" \/ (r.status = "canceled" /\ r.cancel_flag)
Queue == \A n \in Nodes : worker[n] = "queued" => QueuedRow(row[n]) /\ QueuedRow(View(n))
Canceling == View(Workflow).status = "canceled" /\ row[Workflow].status = "running"
Told ==
    Canceling =>
        \A n \in Nodes :
            View(n).status = "running" \/ (worker[n] = "queued" /\ Unlocked(n))
                => View(n).cancel_flag
HaltInv == TemplateInv /\ Queue /\ Told

LEMMA InitHalt == Init => HaltInv
<1> SUFFICES ASSUME Init PROVE HaltInv
  OBVIOUS
<1>1. DOMAIN tx = {} /\ \A t : View(t) = row[t]
  BY DEF Init, View
<1>2. Queue /\ Told
  BY <1>1 DEF Init, Queue, Told, Canceling
<1> QED BY <1>2, InitTemplates DEF HaltInv

LEMMA ScheduleHalt ==
  ASSUME "slow_queue" \notin Env, HaltInv, TemplateInv',
         NEW reaped \in SUBSET {n \in Nodes : Lost(n)}, Schedule(reaped)
  PROVE  HaltInv'
<1>1. /\ UNCHANGED <<row, worker>> /\ DOMAIN tx' = reaped /\ DOMAIN tx = {}
  BY DEF Schedule, users, HaltInv, TemplateInv, EngineTypes
<1>2. \A n \in reaped : n \in Nodes /\ worker[n] = "none"
  BY DEF Lost
<1>3. \A t : t \notin reaped => View(t)' = row[t] /\ View(t) = row[t]
  BY <1>1 DEF View
<1>4. Workflow \notin reaped
  BY <1>2, NodeAssumption
<1>5. Queue'
  BY <1>1, <1>2, <1>3 DEF HaltInv, Queue
<1>6. ~Canceling'
  BY <1>1, <1>3, <1>4 DEF Canceling
<1> QED BY <1>5, <1>6 DEF HaltInv, Told

(* What the pass writes once the workflow job is canceled, if it is.       *)
LEMMA WritesHalt ==
  ASSUME HaltInv, TemplateInv', UNCHANGED <<row, worker>>,
         NEW f, tx' = Override(f),
         \A n \in DOMAIN f \ {Workflow} :
            /\ f[n].status = "running" => f[n].cancel_flag
            /\ worker[n] = "queued" => QueuedRow(f[n]),
         Workflow \in DOMAIN f /\ f[Workflow].status = "canceled" =>
            \A n \in Nodes : View(n).status \in Unfinished => n \in DOMAIN f
  PROVE  HaltInv'
<1>1. \A t : View(t)' = IF t \in DOMAIN f THEN f[t] ELSE View(t)
  BY ViewOverride
<1>2. \A n : Unlocked(n)' => Unlocked(n) /\ n \notin DOMAIN f
  BY DEF Unlocked, Override
<1>3. \A n \in Nodes : n # Workflow
  BY NodeAssumption
<1>4. Queue'
  BY <1>1, <1>3 DEF HaltInv, Queue
<1>5. ASSUME Canceling', NEW n \in Nodes,
             View(n)'.status = "running" \/ (worker'[n] = "queued" /\ Unlocked(n)')
      PROVE  View(n)'.cancel_flag
  <2>1. CASE n \in DOMAIN f
    BY <1>1, <1>2, <1>3, <1>5, <2>1
  <2>2. CASE n \notin DOMAIN f /\ Workflow \in DOMAIN f
    <3>1. View(n).status \notin Unfinished
      BY <1>1, <1>5, <2>2 DEF Canceling
    <3>2. worker[n] = "queued" /\ View(n)' = View(n)
      BY <1>1, <1>5, <2>2, <3>1 DEF Unfinished
    <3> QED BY <3>1, <3>2 DEF HaltInv, Queue, QueuedRow, Unfinished
  <2>3. CASE n \notin DOMAIN f /\ Workflow \notin DOMAIN f
    BY <1>1, <1>2, <1>5, <2>3 DEF HaltInv, Told, Canceling
  <2> QED BY <2>1, <2>2, <2>3
<1> QED BY <1>4, <1>5 DEF HaltInv, Told

LEMMA ProcessFinishedHalt ==
  ASSUME HaltInv, TemplateInv', ProcessFinished
  PROVE  HaltInv'
<1>1. UNCHANGED <<row, worker>> /\ EngineTypes
  BY DEF ProcessFinished, users, HaltInv, TemplateInv
<1>2. CASE UNCHANGED tx
  BY <1>1, <1>2 DEF HaltInv, Queue, Told, Canceling, View, Unlocked
<1>3. ASSUME NEW r \in Rows, NEW status \in {"failed", "successful"},
             tx' = Override(Ended(r, status))
      PROVE  HaltInv'
  <2> DEFINE f == Ended(r, status)
  <2>1. DOMAIN f \ {Workflow} = {} /\ f[Workflow].status # "canceled" /\ tx' = Override(f)
    BY <1>3 DEF Ended, Rows
  <2> HIDE DEF f
  <2> QED BY <1>1, <2>1, WritesHalt
<1>4. ASSUME NEW r \in Rows,
             tx' = Override([t \in DOMAIN cancel_node_jobs \cup {Workflow} |->
                              IF t = Workflow THEN Ended(r, "canceled")[t]
                              ELSE cancel_node_jobs[t]])
      PROVE  HaltInv'
  <2> DEFINE f == [t \in DOMAIN cancel_node_jobs \cup {Workflow} |->
                     IF t = Workflow THEN Ended(r, "canceled")[t]
                     ELSE cancel_node_jobs[t]]
  <2>1. /\ \A n \in DOMAIN f \ {Workflow} : n \in Nodes /\ f[n] = Cancelled(View(n))
        /\ \A n \in Nodes : View(n).status \in Unfinished => n \in DOMAIN f
    BY DEF cancel_node_jobs, CanCancel
  <2>2. tx' = Override(f)
    BY <1>4
  <2> HIDE DEF f
  <2>3. ASSUME NEW n \in DOMAIN f \ {Workflow}
        PROVE  /\ f[n].status = "running" => f[n].cancel_flag
               /\ worker[n] = "queued" => QueuedRow(f[n])
    <3>1. n \in Nodes /\ f[n] = Cancelled(View(n))
      BY <2>1
    <3>2. f[n].cancel_flag /\ (QueuedRow(View(n)) => QueuedRow(f[n]))
      BY <3>1 DEF Cancelled, Row, QueuedRow
    <3> QED BY <3>1, <3>2 DEF HaltInv, Queue
  <2> QED BY <1>1, <2>1, <2>2, <2>3, WritesHalt
<1> QED BY <1>1, <1>2, <1>3, <1>4 DEF ProcessFinished, EngineTypes

LEMMA SpawnJobsHalt ==
  ASSUME HaltInv, TemplateInv', SpawnJobs
  PROVE  HaltInv'
<1>1. UNCHANGED <<row, worker>>
  BY DEF SpawnJobs, users
<1>2. CASE UNCHANGED tx
  BY <1>1, <1>2 DEF HaltInv, Queue, Told, Canceling, View, Unlocked
<1>3. CASE tx' = Override(Spawned)
  <2>1. ASSUME NEW n \in DOMAIN Spawned
        PROVE  /\ n \in Nodes /\ View(n).status = "none"
               /\ Spawned[n].status \in {"pending", "failed"}
    <3>1. n \in Nodes /\ View(n).status = "none"
      BY DEF Spawned, bfs_nodes_to_run, Visited, HasJob
    <3>2. Spawned[n] = Row(IF n \in Unstartable THEN "failed" ELSE "pending", FALSE)
      BY DEF Spawned
    <3> QED BY <3>1, <3>2 DEF Row
  <2>2. \A n \in DOMAIN Spawned : worker[n] # "queued" /\ n # Workflow
    BY <2>1, NodeAssumption DEF HaltInv, Queue, QueuedRow
  <2> QED BY <1>1, <1>3, <2>1, <2>2, WritesHalt
<1> QED BY <1>2, <1>3 DEF SpawnJobs

LEMMA ProcessTasksHalt ==
  ASSUME HaltInv, TemplateInv', NEW started \in SUBSET pending, ProcessTasks(started)
  PROVE  HaltInv'
<1> DEFINE f == [t \in started |->
                   Row(IF t = Workflow THEN "running" ELSE "waiting", FALSE)]
<1>1. UNCHANGED <<row, worker>> /\ tx' = Override(f)
  BY DEF ProcessTasks, users
<1>2. /\ \A n \in DOMAIN f \ {Workflow} : f[n].status = "waiting"
      /\ Workflow \in DOMAIN f => f[Workflow].status = "running"
  BY DEF Row
<1> HIDE DEF f
<1> QED BY <1>1, <1>2, WritesHalt DEF QueuedRow

LEMMA CommitHalt ==
  ASSUME HaltInv, TemplateInv', Commit
  PROVE  /\ HaltInv'
         /\ row[Workflow].status = "running" /\ row'[Workflow].status = "canceled"
               => \A n \in Nodes : row'[n].status = "running" => row'[n].cancel_flag
<1>1. /\ row' = [t \in Tasks |-> View(t)] /\ DOMAIN tx' = {}
      /\ worker' = [n \in Nodes |-> IF n \in Submitted THEN "queued" ELSE worker[n]]
  BY DEF Commit
<1>2. /\ \A n \in Nodes : row'[n] = View(n) /\ View(n)' = View(n) /\ n # Workflow
      /\ row'[Workflow] = View(Workflow) /\ View(Workflow)' = row'[Workflow]
  BY <1>1, NodeAssumption DEF Tasks, View
<1>3. ASSUME NEW n \in Nodes, worker'[n] = "queued"
      PROVE  QueuedRow(View(n))
  <2>1. CASE n \in Submitted
    BY <2>1 DEF Submitted, QueuedRow, View
  <2>2. CASE n \notin Submitted
    BY <1>1, <1>3, <2>2 DEF HaltInv, Queue
  <2> QED BY <2>1, <2>2
<1>4. Queue'
  BY <1>2, <1>3 DEF Queue
<1>5. ~Canceling'
  BY <1>2 DEF Canceling
<1> QED BY <1>2, <1>4, <1>5 DEF HaltInv, Told, Canceling

(* A step outside the pass: a job that starts running has been queued, and *)
(* keeps its flag.                                                         *)
LEMMA OutsideHalt ==
  ASSUME HaltInv, TemplateInv', UNCHANGED tx, row'[Workflow].status = "running" =>
            row[Workflow].status = "running" /\ View(Workflow)' \in {View(Workflow), row'[Workflow]},
         \A n \in Nodes :
            /\ worker'[n] = "queued" => worker[n] = "queued"
            /\ \/ row'[n] = row[n]
               \/ /\ Unlocked(n)
                  /\ worker'[n] = "queued" => QueuedRow(row'[n])
                  /\ row'[n].status = "running" =>
                        \/ row[n].status = "running" \/ worker[n] = "queued"
                  /\ row[n].cancel_flag => row'[n].cancel_flag
  PROVE  HaltInv'
<1>1. \A n : /\ Unlocked(n)' <=> Unlocked(n)
             /\ Unlocked(n) => View(n) = row[n] /\ View(n)' = row'[n]
             /\ ~Unlocked(n) => View(n)' = View(n)
  BY DEF Unlocked, View
<1>2. Queue'
  BY <1>1 DEF HaltInv, Queue
<1>3. Canceling' => Canceling
  BY DEF Canceling
<1>4. Told'
  <2> SUFFICES ASSUME Canceling', NEW n \in Nodes,
                      View(n)'.status = "running" \/ (worker'[n] = "queued" /\ Unlocked(n)')
               PROVE  View(n)'.cancel_flag
    BY DEF Told
  <2>1. View(n).status = "running" \/ (worker[n] = "queued" /\ Unlocked(n))
    BY <1>1
  <2>2. View(n).cancel_flag
    BY <1>3, <2>1 DEF HaltInv, Told
  <2> QED BY <1>1, <2>2
<1> QED BY <1>2, <1>4 DEF HaltInv

LEMMA WorkerHalt ==
  ASSUME HaltInv, TemplateInv', NEW n \in Nodes, Unlocked(n),
         NEW status \in {"running"} \cup Terminal, status = "running" => worker[n] = "queued",
         NEW w \in {"none", "stopping", "playbook"},
         row' = [row EXCEPT ![n].status = status],
         worker' = [worker EXCEPT ![n] = w], UNCHANGED locals
  PROVE  HaltInv' /\ row'[Workflow] = row[Workflow]
<1>1. /\ row \in [Tasks -> Rows] /\ n \in Tasks /\ n # Workflow
      /\ worker \in [Nodes -> WorkerStates]
  BY NodeAssumption DEF HaltInv, TemplateInv, EngineTypes, Tasks
<1>2. /\ row'[n].status = status /\ row'[n].cancel_flag = row[n].cancel_flag
      /\ \A t \in Tasks \ {n} : row'[t] = row[t]
      /\ worker'[n] = w /\ \A m \in Nodes \ {n} : worker'[m] = worker[m]
  BY <1>1 DEF Rows
<1>3. UNCHANGED tx /\ row'[Workflow] = row[Workflow] /\ View(Workflow)' = View(Workflow)
  BY <1>1, <1>2 DEF locals, View, Tasks
<1>4. ASSUME NEW m \in Nodes
      PROVE  /\ worker'[m] = "queued" => worker[m] = "queued"
             /\ \/ row'[m] = row[m]
                \/ /\ Unlocked(m)
                   /\ worker'[m] = "queued" => QueuedRow(row'[m])
                   /\ row'[m].status = "running" =>
                         \/ row[m].status = "running" \/ worker[m] = "queued"
                   /\ row[m].cancel_flag => row'[m].cancel_flag
  BY <1>2 DEF Tasks
<1> QED BY <1>3, <1>4, OutsideHalt

LEMMA CancelHalt ==
  ASSUME HaltInv, TemplateInv', NEW t \in Tasks, Cancel(t)
  PROVE  HaltInv' /\ (row[Workflow].status = "running" => row'[Workflow].status = "running")
<1>1. /\ row' = [row EXCEPT ![t] = Cancelled(row[t])] /\ UNCHANGED <<tx, worker>>
      /\ row[t].status \in Unfinished /\ ~row[t].cancel_flag /\ Unlocked(t)
  BY DEF Cancel, CanCancel, locals
<1>2. row \in [Tasks -> Rows] /\ Workflow \in Tasks /\ \A n \in Nodes : n \in Tasks
  BY DEF HaltInv, TemplateInv, EngineTypes, Tasks
<1>3. row'[t] = Cancelled(row[t]) /\ \A u \in Tasks \ {t} : row'[u] = row[u]
  BY <1>1, <1>2
<1>4. /\ row'[t].cancel_flag
      /\ row'[t].status = IF row[t].status \in {"pending", "waiting"} THEN "canceled"
                          ELSE row[t].status
  BY <1>1, <1>3 DEF Cancelled, Row
<1>5. View(Workflow)' \in {View(Workflow), row'[Workflow]}
  BY <1>1, <1>2, <1>3 DEF View, Unlocked
<1>6. row'[Workflow].status = "running" <=> row[Workflow].status = "running"
  BY <1>2, <1>3, <1>4
<1>7. ASSUME NEW m \in Nodes
      PROVE  /\ worker'[m] = "queued" => worker[m] = "queued"
             /\ \/ row'[m] = row[m]
                \/ /\ Unlocked(m)
                   /\ worker'[m] = "queued" => QueuedRow(row'[m])
                   /\ row'[m].status = "running" =>
                         \/ row[m].status = "running" \/ worker[m] = "queued"
                   /\ row[m].cancel_flag => row'[m].cancel_flag
  <2>1. CASE m = t
    <3>1. worker[m] = "queued" => QueuedRow(row[m])
      BY DEF HaltInv, Queue
    <3>2. worker[m] = "queued" => QueuedRow(row'[m])
      BY <1>1, <1>4, <2>1, <3>1 DEF QueuedRow
    <3> QED BY <1>1, <1>4, <2>1, <3>2
  <2>2. CASE m # t
    BY <1>1, <1>2, <1>3, <2>2
  <2> QED BY <2>1, <2>2
<1>8. HaltInv'
  BY <1>1, <1>5, <1>6, <1>7, OutsideHalt
<1> QED BY <1>6, <1>8

LEMMA NextHalt ==
  ASSUME "slow_queue" \notin Env, HaltInv, [Next]_vars
  PROVE  /\ HaltInv'
         /\ row[Workflow].status = "running" /\ row'[Workflow].status = "canceled"
               => \A n \in Nodes : row'[n].status = "running" => row'[n].cancel_flag
<1> DEFINE Stopped == row[Workflow].status = "running" /\ row'[Workflow].status = "canceled"
               => \A n \in Nodes : row'[n].status = "running" => row'[n].cancel_flag
<1> SUFFICES HaltInv' /\ Stopped
  OBVIOUS
<1>1. TemplateInv'
  BY NextTemplates DEF HaltInv
<1>2. ASSUME NEW reaped \in SUBSET {n \in Nodes : Lost(n)}, Schedule(reaped)
      PROVE  HaltInv' /\ Stopped
  BY <1>1, <1>2, ScheduleHalt DEF Schedule, users
<1>3. CASE ProcessFinished
  BY <1>1, <1>3, ProcessFinishedHalt DEF ProcessFinished, users
<1>4. CASE SpawnJobs
  BY <1>1, <1>4, SpawnJobsHalt DEF SpawnJobs, users
<1>5. ASSUME NEW started \in SUBSET pending, ProcessTasks(started)
      PROVE  HaltInv' /\ Stopped
  BY <1>1, <1>5, ProcessTasksHalt DEF ProcessTasks, users
<1>6. CASE Commit
  BY <1>1, <1>6, CommitHalt
<1>7. ASSUME NEW n \in Nodes, JobStarts(n)
      PROVE  HaltInv' /\ Stopped
  <2> DEFINE w == IF row[n].cancel_flag THEN "stopping" ELSE "playbook"
  <2>1. w \in {"none", "stopping", "playbook"} /\ worker' = [worker EXCEPT ![n] = w]
    BY <1>7 DEF JobStarts
  <2>2. /\ row' = [row EXCEPT ![n].status = "running"] /\ UNCHANGED locals
        /\ worker[n] = "queued" /\ Unlocked(n)
    BY <1>7 DEF JobStarts
  <2> HIDE DEF w
  <2> QED BY <1>1, <2>1, <2>2, WorkerHalt
<1>8. ASSUME NEW n \in Nodes, JobFinishes(n)
      PROVE  HaltInv' /\ Stopped
  <2>1. /\ worker[n] \in Terminal /\ worker[n] # "running"
        /\ row' = [row EXCEPT ![n].status = worker[n]]
    BY <1>8 DEF JobFinishes, Terminal
  <2>2. worker' = [worker EXCEPT ![n] = "none"] /\ UNCHANGED locals /\ Unlocked(n)
    BY <1>8 DEF JobFinishes
  <2> QED BY <1>1, <2>1, <2>2, WorkerHalt
<1>9. ASSUME NEW n \in Nodes, WorkerAlone(n)
      PROVE  HaltInv' /\ Stopped
  <2>1. /\ UNCHANGED <<row, tx>>
        /\ \A m \in Nodes : worker'[m] = "queued" => worker[m] = "queued"
    BY <1>9, WorkerLeavesRows DEF HaltInv, TemplateInv, locals
  <2>2. View(Workflow)' = View(Workflow)
    BY <2>1 DEF View
  <2> QED BY <1>1, <2>1, <2>2, OutsideHalt
<1>10. ASSUME NEW n \in Nodes, DeleteTemplate(n)
       PROVE  HaltInv' /\ Stopped
  <2>1. UNCHANGED <<row, tx, worker>>
    BY <1>10 DEF DeleteTemplate, locals
  <2> QED BY <1>1, <2>1 DEF HaltInv, Queue, Told, Canceling, View, Unlocked
<1>11. ASSUME NEW t \in Tasks, Cancel(t)
       PROVE  HaltInv' /\ Stopped
  BY <1>1, <1>11, CancelHalt
<1>12. CASE UNCHANGED vars
  BY <1>1, <1>12 DEF vars, HaltInv, Queue, Told, Canceling, View, Unlocked
<1> HIDE DEF Stopped
<1> QED
  BY <1>2, <1>3, <1>4, <1>5, <1>6, <1>7, <1>8, <1>9, <1>10, <1>11, <1>12
     DEF Next, PassStep, WorkerAlone

(* However the messages, the workers and the users race with the pass that *)
(* ends a canceled workflow job, and whoever crashes: its commit leaves no *)
(* job running that has not been told to stop.  A message that is taken    *)
(* after the reaper has given its job up would.                            *)
THEOREM CancelReachesEveryJob ==
  ASSUME "slow_queue" \notin Env
  PROVE  Spec => RunningJobsAreStopped
<1>1. HaltInv /\ [Next]_vars =>
         [(row[Workflow].status = "running" /\ row'[Workflow].status = "canceled")
            => \A n \in Nodes : row'[n].status = "running" => row'[n].cancel_flag]_vars
  BY NextHalt
<1>2. HaltInv /\ [Next]_vars => HaltInv'
  BY NextHalt
<1> QED BY <1>1, <1>2, InitHalt, PTL DEF Spec, RunningJobsAreStopped
=============================================================================
