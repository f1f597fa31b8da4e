-------------------- MODULE TaskManagerUpdates_proofs --------------------
(***************************************************************************)
(* The updates that a pass of the task manager creates on behalf of the    *)
(* jobs: a job runs after all of them, and the jobs bound their number,    *)
(* whatever the passes, their transactions and the workers do.             *)
(***************************************************************************)
EXTENDS TaskManagerRules_proofs

----------------------------------------------------------------------------
(* Dependencies first.  A job is only submitted when none of its dependent *)
(* jobs is unfinished, in the view of the pass; as a finished row does not *)
(* change any more as long as nothing fails, and links are only added to   *)
(* tasks that are pending, this holds for as long as celery has the job.   *)
LinksOK ==
    /\ \A p \in ViewLinks : /\ View(p[1]).status # "none" /\ View(p[2]).status # "none"
                            /\ IsA(p[1], "job") => IsUpdate(p[2])
    /\ \A p \in dependent_jobs : row[p[1]].status # "none" /\ row[p[2]].status # "none"
    /\ phase # "pass" => links = {} /\ DOMAIN tx = {}

Served ==
    /\ \A t \in Tasks : (IsA(t, "job") /\ worker[t] # "none") =>
          /\ \A d \in DependentJobs(t, dependent_jobs) : row[d].status \in Terminal
          /\ \A d \in DependentJobs(t, ViewLinks) : View(d).status \in Terminal
    /\ \A t \in Started : IsA(t, "job") =>
          \A d \in DependentJobs(t, ViewLinks) : View(d).status \in Terminal

LinksInv == MutexInv /\ LinksOK /\ Served

LEMMA InitLinks == Init => LinksInv
<1> SUFFICES ASSUME Init PROVE LinksInv
  OBVIOUS
<1>1. MutexInv
  BY InitMutex
<1>2. /\ \A t \in Tasks : worker[t] = "none"
      /\ DOMAIN tx = {} /\ links = {} /\ dependent_jobs = {}
  BY NoRowsType DEF Init
<1> QED BY <1>1, <1>2 DEF LinksInv, LinksOK, Served, Started, ViewLinks

(* What the invariant says of a linked pair, with its types.               *)
LEMMA LinkedPair ==
  ASSUME LinksInv, NEW t \in Tasks, NEW d \in Tasks
  PROVE  /\ <<t, d>> \in ViewLinks => /\ View(t).status # "none" /\ View(d).status # "none"
                                      /\ IsA(t, "job") => IsUpdate(d)
         /\ <<t, d>> \in dependent_jobs => /\ row[t].status # "none"
                                           /\ row[d].status # "none"
<1>1. <<t, d>>[1] = t /\ <<t, d>>[2] = d
  OBVIOUS
<1> QED BY <1>1 DEF LinksInv, LinksOK

LEMMA LinkTypes ==
  ASSUME TypeOK
  PROVE  /\ ViewLinks \subseteq Tasks \X Tasks /\ dependent_jobs \subseteq Tasks \X Tasks
         /\ dependent_jobs \subseteq ViewLinks
         /\ \A p \in ViewLinks : p[1] \in Tasks /\ p[2] \in Tasks
         /\ \A p \in dependent_jobs : p[1] \in Tasks /\ p[2] \in Tasks
         /\ \A t \in Tasks : View(t) \in Rows /\ row[t] \in Rows
  BY DEF TypeOK, ViewLinks, View

(* A step outside the pass leaves final statuses final.                    *)
LEMMA OutsideLinks ==
  ASSUME LinksInv, MutexInv',
         UNCHANGED <<tx, dependent_jobs, links, phase>>,
         \A t \in Tasks : /\ row'[t].status = "none" => row[t].status = "none"
                          /\ row[t].status \in Terminal => row'[t].status \in Terminal
                          /\ worker'[t] # "none" => worker[t] # "none"
  PROVE  LinksInv'
<1>1. TypeOK /\ ViewLinks' = ViewLinks /\ Started' = Started
  BY DEF LinksInv, MutexInv, QuietInv, TypeInv, ViewLinks, Started
<1>2. \A t \in Tasks : /\ View(t)'.status = "none" => View(t).status = "none"
                       /\ View(t).status \in Terminal => View(t)'.status \in Terminal
  BY DEF View
<1>3. LinksOK'
  BY <1>1, <1>2, LinkTypes DEF LinksInv, LinksOK
<1>4. Served'
  <2>1. Started \subseteq Tasks
    BY <1>1 DEF TypeOK, Started
  <2>2. \A t \in Tasks : /\ DependentJobs(t, ViewLinks) \subseteq Tasks
                         /\ DependentJobs(t, dependent_jobs) \subseteq Tasks
    BY DEF DependentJobs
  <2> QED BY <1>1, <1>2, <2>1, <2>2 DEF LinksInv, Served
<1> QED BY <1>3, <1>4 DEF LinksInv

LEMMA BeginPassLinks ==
  ASSUME LinksInv, MutexInv',
         NEW reaped \in SUBSET {t \in Tasks : Lost(t)},
         NEW verdict \in Verdicts, BeginPass(reaped, verdict)
  PROVE  LinksInv'
<1>1. /\ phase = "idle" /\ phase' = "pass"
      /\ \A t \in DOMAIN tx' : tx'[t].status \in Terminal
      /\ UNCHANGED <<row, worker, dependent_jobs, links>>
  BY BeginPassRows DEF LinksInv, MutexInv, QuietInv, tables, celery
<1>2. links = {} /\ TypeOK
  BY <1>1 DEF LinksInv, LinksOK, MutexInv, QuietInv, TypeInv
<1>3. ViewLinks' = dependent_jobs /\ dependent_jobs' = dependent_jobs /\ Started' = {}
  BY <1>1, <1>2 DEF ViewLinks, Started, Terminal
<1>4. \A t \in Tasks : \/ View(t)'.status \in Terminal
                       \/ View(t)' = row[t]
  BY <1>1 DEF View
<1>5. "none" \notin Terminal
  BY DEF Terminal
<1>6. LinksOK'
  BY <1>1, <1>2, <1>3, <1>4, <1>5, LinkTypes DEF LinksInv, LinksOK
<1>7. Served'
  <2>1. \A t \in Tasks : DependentJobs(t, dependent_jobs) \subseteq Tasks
    BY DEF DependentJobs
  <2> QED BY <1>1, <1>3, <1>4, <2>1 DEF LinksInv, Served
<1> QED BY <1>6, <1>7 DEF LinksInv

(* The links of a pending job are added.                                   *)
LEMMA GenerateDependenciesLinks ==
  ASSUME NothingFails, LinksInv, MutexInv', NEW t \in Tasks, NEW expired,
         GenerateDependencies(t, expired)
  PROVE  LinksInv'
<1>1. PICK new \in SUBSET (Tasks \ Manual), all \in SUBSET Tasks :
         Generated(t, new, all)
  BY GenerateRows DEF LinksInv, MutexInv, QuietInv
<1>2. /\ phase = "pass" /\ new \subseteq all /\ t \in pending_tasks
      /\ UNCHANGED <<row, worker, dependent_jobs, phase>>
      /\ DOMAIN tx' = DOMAIN tx \cup new
      /\ \A u \in DOMAIN tx \ new : tx'[u] = tx[u]
      /\ \A u \in new : View(u).status = "none" /\ tx'[u] = DependencyRow(t, u)
      /\ \A u \in all \ new : View(u).status \in Unfinished
      /\ \A u \in all : IsUpdate(u)
      /\ all # {} => IsA(t, "job")
      /\ links' = IF all = {} THEN links ELSE links \cup Clique({t} \cup all)
  BY <1>1 DEF Generated, tables, celery
<1>3. \A u \in new : tx'[u].status = "pending"
  BY <1>2 DEF DependencyRow, NewRow
<1>4. /\ TypeOK /\ DOMAIN tx \subseteq Tasks /\ LinksOK /\ Served
      /\ worker[t] = "none"
  BY <1>2 DEF LinksInv, MutexInv, QuietInv, TypeInv, TypeOK, WorkflowInv, RulesInv, Placed
<1>5. all # {} => View(t).status = "pending" /\ t \notin all
  <2>1. IsA(t, "job") => ~IsUpdate(t)
    BY DEF IsA, IsUpdate
  <2> QED BY <1>2, <2>1 DEF LinksInv, MutexInv, StillPending
<1>6. \A u \in Tasks : /\ u \notin new => View(u)' = View(u)
                       /\ u \in new => View(u)'.status = "pending"
  BY <1>2, <1>3 DEF View
<1>7. ASSUME NEW p \in ViewLinks', p \notin ViewLinks
      PROVE  /\ p[1] \in {t} \cup all /\ p[2] \in {t} \cup all /\ p[1] # p[2] /\ all # {}
             /\ p = <<p[1], p[2]>>
  BY <1>2, <1>7 DEF ViewLinks, Clique
<1>8. \A u \in {t} \cup all : all # {} => View(u)'.status # "none"
  BY <1>2, <1>5, <1>6 DEF Unfinished
<1>9. LinksOK'
  <2>1. ASSUME NEW p \in ViewLinks'
        PROVE  /\ View(p[1])'.status # "none" /\ View(p[2])'.status # "none"
               /\ IsA(p[1], "job") => IsUpdate(p[2])
    <3>1. CASE p \in ViewLinks
      BY <1>2, <1>4, <1>6, <3>1, LinkTypes DEF LinksOK
    <3>2. CASE p \notin ViewLinks
      <4>1. View(p[1])'.status # "none" /\ View(p[2])'.status # "none"
        BY <1>7, <1>8, <3>2
      <4>2. IsA(p[1], "job") => p[1] = t
        BY <1>2, <1>7, <3>2 DEF IsUpdate, IsA
      <4> QED BY <1>2, <1>7, <3>2, <4>1, <4>2
    <3> QED BY <3>1, <3>2
  <2> QED BY <1>2, <1>4, <2>1 DEF LinksOK
(* Only the visited job has new links, and celery has it not.              *)
<1>10. ASSUME NEW u \in Tasks, NEW d \in Tasks, IsA(u, "job"),
              worker[u] # "none" \/ u \in Started, <<u, d>> \in ViewLinks'
       PROVE  <<u, d>> \in ViewLinks /\ View(d)' = View(d)
  <2>1. u # t \/ all = {}
    <3>1. t \in Started => View(t).status = "waiting"
      BY DEF Started, View
    <3> QED BY <1>4, <1>5, <1>10, <3>1
  <2>2. <<u, d>> \in ViewLinks
    <3>1. SUFFICES ASSUME <<u, d>> \notin ViewLinks PROVE FALSE
      OBVIOUS
    <3>2. u \in {t} \cup all /\ all # {}
      BY <1>7, <1>10, <3>1
    <3>3. u \notin all
      BY <1>2, <1>10 DEF IsUpdate, IsA
    <3> QED BY <2>1, <3>2, <3>3
  <2>3. d \notin new
    BY <1>2, <2>2, LinkedPair
  <2> QED BY <1>6, <2>2, <2>3
<1>11. Started' = Started
  <2>1. new \cap Started = {}
    BY <1>2 DEF Started, View
  <2> QED BY <1>2, <1>3, <2>1 DEF Started
<1>12. Served'
  <2>1. Started \subseteq Tasks
    BY <1>4 DEF Started
  <2> QED BY <1>2, <1>4, <1>10, <1>11, <2>1 DEF Served, DependentJobs
<1> QED BY <1>9, <1>12 DEF LinksInv

(* A visit writes a task that is pending, and submits a job only when all  *)
(* its dependent jobs have finished.                                       *)
LEMMA VisitLinks ==
  ASSUME LinksInv, MutexInv', NEW t \in Tasks, phase = "pass",
         UNCHANGED <<row, worker, dependent_jobs, links, phase>>,
         \/ tx' = tx
         \/ /\ DOMAIN tx' = DOMAIN tx \cup {t}
            /\ \A u \in DOMAIN tx \ {t} : tx'[u] = tx[u]
            /\ View(t).status = "pending" /\ tx'[t].status # "none"
            /\ tx'[t].status = "waiting" => DependentJobsFinished(t)
  PROVE  LinksInv'
<1>1. TypeOK /\ DOMAIN tx \subseteq Tasks /\ LinksOK /\ Served /\ ViewLinks' = ViewLinks
  BY DEF LinksInv, MutexInv, QuietInv, TypeInv, TypeOK, ViewLinks
<1>2. CASE tx' = tx
  BY <1>1, <1>2 DEF LinksInv, LinksOK, Served, View, Started
<1>3. CASE /\ DOMAIN tx' = DOMAIN tx \cup {t}
           /\ \A u \in DOMAIN tx \ {t} : tx'[u] = tx[u]
           /\ View(t).status = "pending" /\ tx'[t].status # "none"
           /\ tx'[t].status = "waiting" => DependentJobsFinished(t)
  <2>1. /\ \A u \in Tasks \ {t} : View(u)' = View(u)
        /\ View(t)' = tx'[t]
        /\ \A u \in Tasks : View(u).status \in Terminal => View(u)' = View(u)
    BY <1>3 DEF View, Terminal
  <2>2. LinksOK'
    BY <1>1, <1>3, <2>1, LinkTypes DEF LinksOK
  <2>3. Started' \subseteq Started \cup {t} /\ Started \subseteq Tasks
    BY <1>1, <1>3 DEF Started
  <2>4. ASSUME t \in Started', IsA(t, "job"), NEW d \in DependentJobs(t, ViewLinks)
        PROVE  View(d)'.status \in Terminal
    <3>1. View(d).status \notin Unfinished /\ d \in Tasks /\ <<t, d>> \in ViewLinks
      BY <1>3, <2>4 DEF Started, DependentJobsFinished, DependentJobs
    <3>2. View(d).status # "none" /\ View(d).status \in Statuses
      BY <1>1, <3>1, LinkedPair, LinkTypes DEF Rows
    <3> QED BY <2>1, <3>1, <3>2 DEF Statuses
  <2>5. Served'
    <3>1. \A u \in Tasks : DependentJobs(u, ViewLinks) \subseteq Tasks
      BY DEF DependentJobs
    <3>2. ASSUME NEW u \in Tasks, IsA(u, "job"), worker[u] # "none"
          PROVE  /\ \A d \in DependentJobs(u, dependent_jobs) : row[d].status \in Terminal
                 /\ \A d \in DependentJobs(u, ViewLinks) : View(d)'.status \in Terminal
      BY <1>1, <2>1, <3>1, <3>2 DEF Served
    <3>3. ASSUME NEW u \in Started', IsA(u, "job"), NEW d \in DependentJobs(u, ViewLinks)
          PROVE  View(d)'.status \in Terminal
      <4>1. CASE u = t
        BY <2>4, <3>3, <4>1
      <4>2. CASE u # t
        BY <1>1, <2>1, <2>3, <3>1, <3>3, <4>2 DEF Served
      <4> QED BY <4>1, <4>2
    <3> QED BY <1>1, <3>2, <3>3 DEF Served
  <2> QED BY <2>2, <2>5 DEF LinksInv
<1> QED BY <1>2, <1>3

LEMMA ProcessDependencyLinks ==
  ASSUME NothingFails, LinksInv, MutexInv', NEW d \in Tasks, ProcessDependency(d)
  PROVE  LinksInv'
<1>1. /\ d \in unvisited
      /\ \/ tx' = tx
         \/ ~Blocked(d) /\ \E chain, r : StartRow(d, dependencies[d], chain, r)
      /\ UNCHANGED <<row, worker, dependent_jobs, links, phase>>
  BY ProcessDependencyRows DEF LinksInv, MutexInv, QuietInv, tables, celery
<1>2. IsUpdate(d) /\ phase = "pass"
  BY <1>1 DEF LinksInv, MutexInv, QuietInv, TypeInv, TypeOK, WorkflowInv, RulesInv, Placed
<1>3. ~Blocked(d) => View(d).status = "pending" /\ DependentJobsFinished(d)
  BY <1>1, <1>2, UpdatesBlockThemselves DEF LinksInv, MutexInv, StillPending, Blocked
<1>4. \/ tx' = tx
      \/ /\ DOMAIN tx' = DOMAIN tx \cup {d}
         /\ \A u \in DOMAIN tx \ {d} : tx'[u] = tx[u]
         /\ View(d).status = "pending" /\ tx'[d].status # "none"
         /\ DependentJobsFinished(d)
  BY <1>1, <1>3 DEF StartRow, Written, Refused, Submitted
<1> QED BY <1>1, <1>2, <1>4, VisitLinks

LEMMA ProcessPendingLinks ==
  ASSUME NothingFails, LinksInv, MutexInv', NEW t \in Tasks, ProcessPending(t)
  PROVE  LinksInv'
<1>1. /\ current = t
      /\ \/ tx' = tx
         \/ ~Blocked(t) /\ \E r : Written(t, r) /\ r.status # "none"
      /\ UNCHANGED <<row, worker, dependent_jobs, links, phase>>
  BY ProcessPendingRows DEF LinksInv, MutexInv, QuietInv, tables, celery,
                            StartRow, Refused, Submitted
<1>2. t \in pending_tasks /\ phase = "pass"
  <2>1. current # NoTask
    BY <1>1, TaskAssumption
  <2> QED BY <1>1, <2>1 DEF LinksInv, MutexInv, WorkflowInv, RulesInv, Placed
<1>3. ~Blocked(t) => View(t).status = "pending" /\ DependentJobsFinished(t)
  BY <1>2, UpdatesBlockThemselves DEF LinksInv, MutexInv, StillPending, Blocked
<1>4. \/ tx' = tx
      \/ /\ DOMAIN tx' = DOMAIN tx \cup {t}
         /\ \A u \in DOMAIN tx \ {t} : tx'[u] = tx[u]
         /\ View(t).status = "pending" /\ tx'[t].status # "none"
         /\ DependentJobsFinished(t)
  BY <1>1, <1>3 DEF Written
<1> QED BY <1>1, <1>2, <1>4, VisitLinks

LEMMA CommitLinks ==
  ASSUME LinksInv, MutexInv', Commit
  PROVE  LinksInv'
<1>1. /\ \A t \in Tasks : row'[t] = View(t) /\ View(t)' = View(t)
      /\ \A t \in Tasks : worker'[t] # "none" => worker[t] # "none" \/ t \in Started
      /\ dependent_jobs' = ViewLinks /\ ViewLinks' = ViewLinks
      /\ Started' = {} /\ links' = {} /\ DOMAIN tx' = {}
  BY CommitRows
<1>2. TypeOK
  BY DEF LinksInv, MutexInv, QuietInv, TypeInv
<1>3. LinksOK'
  BY <1>1, <1>2, LinkTypes DEF LinksInv, LinksOK
<1>4. Served'
  <2>1. \A u \in Tasks : DependentJobs(u, ViewLinks) \subseteq Tasks
    BY DEF DependentJobs
  <2> QED BY <1>1, <2>1 DEF LinksInv, Served
<1> QED BY <1>3, <1>4 DEF LinksInv

LEMMA PassFailsLinks ==
  ASSUME LinksInv, MutexInv', PassFails
  PROVE  LinksInv'
<1>1. /\ \A t \in Tasks : View(t)' = row[t]
      /\ ViewLinks' = dependent_jobs /\ UNCHANGED <<row, worker, dependent_jobs>>
      /\ Started' = {} /\ links' = {} /\ DOMAIN tx' = {}
  BY PassFailsRows DEF tables, celery
<1>2. TypeOK
  BY DEF LinksInv, MutexInv, QuietInv, TypeInv
<1>3. LinksOK'
  BY <1>1, <1>2, LinkTypes DEF LinksInv, LinksOK
<1>4. Served'
  <2>1. \A u \in Tasks : DependentJobs(u, dependent_jobs) \subseteq Tasks
    BY DEF DependentJobs
  <2> QED BY <1>1, <2>1 DEF LinksInv, Served
<1> QED BY <1>3, <1>4 DEF LinksInv

LEMMA NextLinks ==
  ASSUME "slow_queue" \notin Env, NothingFails, LinksInv, [Next]_vars
  PROVE  LinksInv'
<1>1. MutexInv'
  BY NextMutex DEF LinksInv
<1>2. CASE Environment
  <2>1. EnvironmentHolds /\ UNCHANGED pass
    BY <1>2, EnvironmentHeld DEF LinksInv
  <2>2. UNCHANGED dependent_jobs
    BY <1>2 DEF Environment, Launch, Cancel, EnableUpdateOnLaunch, WorkerStart,
                WorkerFinish, WorkerCrash, HandleWorkError, tables
  <2> QED BY <1>1, <2>1, <2>2, OutsideLinks DEF EnvironmentHolds, Kept, Steady, NothingFails, pass
<1>3. CASE DispatchCrash \/ \E t \in Tasks : Dispatch(t)
  <2>1. /\ phase = "dispatch" /\ phase' # "pass" /\ UNCHANGED <<row, tx, dependent_jobs, links>>
        /\ \A u \in Tasks : worker'[u] # "none" => worker[u] # "none"
    BY <1>3, DispatchRows DEF LinksInv, MutexInv, QuietInv, TypeInv, tables
  <2>2. ViewLinks' = ViewLinks /\ Started' = Started /\ \A t : View(t)' = View(t)
    BY <2>1 DEF ViewLinks, Started, View
  <2> QED BY <1>1, <2>1, <2>2 DEF LinksInv, LinksOK, Served
<1>4. CASE UNCHANGED vars
  BY <1>1, <1>4, OutsideLinks DEF vars, tables, celery, pass
<1> QED BY <1>1, <1>2, <1>3, <1>4, BeginPassLinks, GenerateDependenciesLinks,
           ProcessDependencyLinks, ProcessPendingLinks, CommitLinks, PassFailsLinks
        DEF Next, Schedule, PassStep

(* As long as nothing fails and nobody cancels, a job's playbook never     *)
(* runs while an update that the job waits for is not finished.            *)
THEOREM UpdatesBeforeTheirJobs ==
  ASSUME "slow_queue" \notin Env, NothingFails
  PROVE  Spec => []DependenciesFirst
<1>1. Init => LinksInv
  BY InitLinks
<1>2. LinksInv /\ [Next]_vars => LinksInv'
  BY NextLinks
<1>3. LinksInv => DependenciesFirst
  <2>1. \A t \in Executing : worker[t] # "none" /\ t \in Tasks
    BY DEF Executing
  <2> QED BY <2>1 DEF LinksInv, Served, DependenciesFirst, Terminal, Unfinished
<1> QED BY <1>1, <1>2, <1>3, PTL DEF Spec

----------------------------------------------------------------------------
(* The updates that the pass creates are bounded by the jobs.  Each of     *)
(* them is dated from the job that it was created for and linked to it; a  *)
(* job that has links gets no further ones, and no two jobs are created at *)
(* the same time, so two updates of one resource were created for          *)
(* different jobs.  All of this needs that rows which are named by a link, *)
(* a chain or a variable of the pass exist, in the view of the pass or in  *)
(* the table, whatever the pass commits or rolls back.                     *)
Exists(t) == View(t).status # "none"
Committed(t) == row[t].status # "none"
Lead(u) == IF IsA(u, "project_update") THEN 1 ELSE 2

RowsExist ==
    /\ \A p \in ViewLinks : Exists(p[1]) /\ Exists(p[2])
    /\ \A p \in dependent_jobs : Committed(p[1]) /\ Committed(p[2])
    /\ \A t \in Tasks : \A u \in row[t].fail_chain : Committed(u)
    /\ \A t \in DOMAIN tx : \A u \in tx[t].fail_chain : Exists(u)
    /\ \A d \in DOMAIN dependencies : \A u \in dependencies[d].fail_chain : Exists(u)
    /\ \A d \in DOMAIN dependencies : /\ Exists(d)
                                      /\ dependencies[d].created = View(d).created
                                      /\ dependencies[d].status # "none"
    /\ \A t \in pending_tasks : Committed(t)
    /\ \A t \in DOMAIN tx : /\ Exists(t) /\ (t \in Manual => Committed(t))
                            /\ Committed(t) => tx[t].created = row[t].created
    /\ phase # "pass" => links = {} /\ DOMAIN tx = {}

LaunchTimes ==
    /\ \A t \in Launched : \E n \in 1..Cardinality(Launched) : row[t].created = 3 * n
    /\ \A a, b \in Launched : a # b => row[a].created # row[b].created

CausedBy(t, u, created, relation) ==
    /\ IsA(t, "job") /\ created = row[t].created - Lead(u)
    /\ <<t, u>> \in relation
Caused(u, created, relation) ==
    IsUpdate(u) /\ \E t \in Launched : CausedBy(t, u, created, relation)

UpdatesCaused ==
    /\ \A u \in Tasks \ Manual : Exists(u) => Caused(u, View(u).created, ViewLinks)
    /\ \A u \in Tasks \ Manual : Committed(u) => Caused(u, row[u].created, dependent_jobs)
    /\ \A u, v \in Tasks \ Manual :
          (/\ u # v /\ Exists(u) /\ Exists(v)
           /\ MarksOf(u) \cap MarksOf(v) \cap UpdateKeys # {})
          => View(u).created # View(v).created

BoundInv == RulesInv /\ RowsExist /\ LaunchTimes /\ UpdatesCaused

LEMMA InitBound == Init => BoundInv
<1> SUFFICES ASSUME Init PROVE BoundInv
  OBVIOUS
<1>1. RulesInv
  BY InitRules
<1>2. /\ \A t \in Tasks : row[t] = NewRow /\ View(t) = NewRow
      /\ DOMAIN tx = {} /\ DOMAIN dependencies = {} /\ pending_tasks = {}
      /\ links = {} /\ dependent_jobs = {}
  BY NoRowsType DEF Init, View
<1>3. NewRow.status = "none" /\ NewRow.fail_chain = {}
  BY DEF NewRow
<1>4. Launched = {}
  BY <1>2, <1>3, TaskAssumption DEF Launched
<1>5. RowsExist
  BY <1>2, <1>3 DEF RowsExist, ViewLinks
<1>6. LaunchTimes
  BY <1>4 DEF LaunchTimes
<1>7. UpdatesCaused
  BY <1>2, <1>3 DEF UpdatesCaused, Exists, Committed
<1> QED BY <1>1, <1>5, <1>6, <1>7 DEF BoundInv

(* A committed row exists, with the same date, whatever the pass wrote.    *)
LEMMA CommittedExists ==
  ASSUME RowsExist, NEW t, Committed(t)
  PROVE  Exists(t) /\ View(t).created = row[t].created
  BY DEF RowsExist, Exists, Committed, View

LEMMA LaunchedIsFinite ==
  /\ Launched \subseteq Tasks /\ IsFiniteSet(Launched)
  /\ Cardinality(Launched) \in Nat
  BY TaskAssumption, FS_Subset, FS_CardinalityType DEF Launched

(* Two tasks that mark the same update are updates of the same kind.       *)
LEMMA SameLead ==
  ASSUME NEW u \in Tasks, NEW v \in Tasks, MarksOf(u) \cap MarksOf(v) \cap UpdateKeys # {}
  PROVE  Lead(u) = Lead(v)
<1>1. PICK r : r \in MarksOf(u) /\ r \in MarksOf(v) /\ r \in UpdateKeys
  OBVIOUS
<1>2. r[1] \in {"project_updates", "inventory_source_updates"}
  BY <1>1 DEF UpdateKeys, ProjectKey, SourceKey
<1>3. ASSUME NEW w \in Tasks, r \in MarksOf(w)
      PROVE  IsA(w, "project_update") <=> r[1] = "project_updates"
  <2>1. Kind[w] \in Kinds
    BY KindAssumption
  <2> QED BY <1>2, <1>3, <2>1 DEF MarksOf, IsA, Kinds
<1> QED BY <1>1, <1>3 DEF Lead

----------------------------------------------------------------------------
(* Outside the pass.                                                       *)
SameBirth(u) ==
    /\ Committed(u)' <=> Committed(u)
    /\ row'[u].created = row[u].created /\ row'[u].fail_chain = row[u].fail_chain

LEMMA SameBirthBound ==
  ASSUME BoundInv, RulesInv', UNCHANGED <<dependent_jobs, links, tx, phase, dependencies,
                                          pending_tasks>>,
         \A u \in Tasks : SameBirth(u)
  PROVE  BoundInv'
<1>1. /\ ViewLinks' = ViewLinks /\ Launched' = Launched /\ TypeOK
      /\ Launched \subseteq Tasks
  BY LaunchedIsFinite, TaskAssumption
     DEF SameBirth, Committed, Launched, ViewLinks, BoundInv, RulesInv, TypeInv
<1>2. \A u \in Tasks : (Exists(u)' <=> Exists(u)) /\ View(u)'.created = View(u).created
  BY DEF SameBirth, Exists, Committed, View
<1>3. /\ \A p \in ViewLinks : p[1] \in Tasks /\ p[2] \in Tasks
      /\ \A p \in dependent_jobs : p[1] \in Tasks /\ p[2] \in Tasks
      /\ \A u \in Tasks : row[u].fail_chain \subseteq Tasks
      /\ \A u \in DOMAIN tx : u \in Tasks /\ tx[u].fail_chain \subseteq Tasks
      /\ \A u \in DOMAIN dependencies : u \in Tasks /\ dependencies[u].fail_chain \subseteq Tasks
      /\ pending_tasks \subseteq Tasks
  BY <1>1, LinkTypes DEF TypeOK, Rows
<1>4. RowsExist'
  BY <1>1, <1>2, <1>3 DEF SameBirth, BoundInv, RowsExist
<1>5. LaunchTimes'
  BY <1>1 DEF SameBirth, BoundInv, LaunchTimes
<1>6. \A t \in Launched : \A u, created, relation :
         CausedBy(t, u, created, relation) => CausedBy(t, u, created, relation)'
  BY <1>1 DEF CausedBy, SameBirth
<1>7. \A u, created, relation : Caused(u, created, relation) => Caused(u, created, relation)'
  BY <1>1, <1>6 DEF Caused
<1>8. UpdatesCaused'
  BY <1>1, <1>2, <1>7 DEF SameBirth, BoundInv, UpdatesCaused
<1> QED BY <1>4, <1>5, <1>8 DEF BoundInv

(* Only a launch makes a row outside the pass: it is the latest.           *)
LEMMA LaunchBound ==
  ASSUME BoundInv, RulesInv', NEW t \in Tasks, Launch(t)
  PROVE  BoundInv'
<1>1. TypeInv /\ row \in [Tasks -> Rows]
  BY DEF BoundInv, RulesInv, TypeInv, TypeOK
<1>2. /\ t \in Manual /\ ~Committed(t)
      /\ row' = [row EXCEPT ![t] = row'[t]] /\ Committed(t)'
      /\ row'[t].created = 3 * (Cardinality(Launched) + 1)
      /\ row'[t].fail_chain = row[t].fail_chain
      /\ UNCHANGED <<dependent_jobs, links, tx, phase, dependencies, pending_tasks>>
  BY <1>1, LaunchRows DEF Committed, pass, visit
<1>3. \A u \in Tasks \ {t} : row'[u] = row[u]
  BY <1>1, <1>2
<1>4. /\ Launched' = Launched \cup {t} /\ t \notin Launched
      /\ Launched \subseteq Tasks /\ IsFiniteSet(Launched)
      /\ Cardinality(Launched) \in Nat
  BY <1>2, <1>3, LaunchedIsFinite, TaskAssumption DEF Launched, Committed
<1>5. Cardinality(Launched') = Cardinality(Launched) + 1
  BY <1>4, FS_AddElement
<1>6. t \notin DOMAIN tx /\ ~Exists(t)
  BY <1>2 DEF BoundInv, RowsExist, Exists, Committed, View
<1>7. /\ \A u \in Tasks : Committed(u) => Committed(u)' /\ row'[u] = row[u]
      /\ \A u \in Tasks : Exists(u) => Exists(u)' /\ View(u)' = View(u)
      /\ \A u \in Tasks \ {t} : View(u)' = View(u)
  BY <1>2, <1>3, <1>6 DEF Exists, Committed, View
<1>8. /\ \A p \in ViewLinks : p[1] \in Tasks /\ p[2] \in Tasks
      /\ \A p \in dependent_jobs : p[1] \in Tasks /\ p[2] \in Tasks
      /\ \A u \in Tasks : row[u].fail_chain \subseteq Tasks
      /\ \A u \in DOMAIN tx : u \in Tasks /\ tx[u].fail_chain \subseteq Tasks
      /\ \A u \in DOMAIN dependencies : u \in Tasks /\ dependencies[u].fail_chain \subseteq Tasks
      /\ pending_tasks \subseteq Tasks /\ ViewLinks' = ViewLinks
  BY <1>1, <1>2, LinkTypes DEF TypeInv, TypeOK, Rows, ViewLinks
<1>9. RowsExist'
  <2>1. \A u \in Tasks : \A v \in row'[u].fail_chain : Committed(v)'
    BY <1>2, <1>3, <1>7, <1>8 DEF BoundInv, RowsExist
  <2>2. \A u \in DOMAIN tx : /\ u \in Manual => Committed(u)'
                             /\ Committed(u)' => tx[u].created = row'[u].created
    BY <1>3, <1>6, <1>7, <1>8 DEF BoundInv, RowsExist, Committed
  <2> QED BY <1>2, <1>7, <1>8, <2>1, <2>2 DEF BoundInv, RowsExist
<1>10. LaunchTimes'
  <2>1. ASSUME NEW a \in Launched
        PROVE  /\ row'[a].created = row[a].created
               /\ \E n \in 1..Cardinality(Launched) : row[a].created = 3 * n
               /\ a # t
    BY <1>3, <1>4 DEF BoundInv, LaunchTimes
  <2>2. \A a \in Launched : row'[a].created # row'[t].created
    BY <1>2, <1>4, <2>1
  <2>3. \A a \in Launched' : \E n \in 1..(Cardinality(Launched) + 1) : row'[a].created = 3 * n
    BY <1>2, <1>4, <2>1
  <2>4. \A a, b \in Launched : a # b => row'[a].created # row'[b].created
    BY <2>1 DEF BoundInv, LaunchTimes
  <2> QED BY <1>4, <1>5, <2>2, <2>3, <2>4 DEF LaunchTimes
<1>11. \A u, created, relation : Caused(u, created, relation) => Caused(u, created, relation)'
  <2>1. \A a \in Launched : \A u, created, relation :
           CausedBy(a, u, created, relation) => CausedBy(a, u, created, relation)'
    BY <1>3, <1>4 DEF CausedBy
  <2> QED BY <1>4, <2>1 DEF Caused
<1>12. UpdatesCaused'
  BY <1>2, <1>3, <1>7, <1>8, <1>11 DEF BoundInv, UpdatesCaused, Exists, Committed
<1> QED BY <1>9, <1>10, <1>12 DEF BoundInv

LEMMA EnvironmentBound ==
  ASSUME BoundInv, RulesInv', Environment
  PROVE  BoundInv'
<1>1. /\ TypeInv /\ row \in [Tasks -> Rows]
      /\ \A t \in Tasks : row[t].status = "none" => worker[t] = "none"
  BY DEF BoundInv, RulesInv, TypeInv, TypeOK, Placed, PlacedRow
<1>2. ASSUME NEW t \in Tasks, Cancel(t)
      PROVE  UNCHANGED <<dependent_jobs, pass>> /\ \A u \in Tasks : SameBirth(u)
  BY <1>1, <1>2, CancelRows DEF SamePlace, SameBirth, Committed, Unfinished
<1>3. ASSUME NEW t \in Tasks, WorkerStart(t) \/ \E outcome \in Outcomes :
                                                  WorkerFinish(t, outcome)
      PROVE  UNCHANGED <<dependent_jobs, pass>> /\ \A u \in Tasks : SameBirth(u)
  <2>1. /\ worker[t] # "none" /\ row' = [row EXCEPT ![t] = row'[t]]
        /\ row'[t].status # "none" /\ SamePlace(row[t], row'[t])
        /\ UNCHANGED <<dependent_jobs, pass>>
    BY <1>1, <1>3, WorkerStartRows, WorkerFinishRows DEF Terminal
  <2>2. \A u \in Tasks \ {t} : row'[u] = row[u]
    BY <1>1, <2>1
  <2> QED BY <1>1, <2>1, <2>2 DEF SamePlace, SameBirth, Committed
<1>4. ASSUME NEW t \in Tasks, HandleWorkError(t)
      PROVE  UNCHANGED <<dependent_jobs, pass>> /\ \A u \in Tasks : SameBirth(u)
  <2>1. /\ UNCHANGED <<dependent_jobs, pass>>
        /\ \A u \in Tasks : \/ row'[u] = row[u]
                            \/ /\ u \in row[t].fail_chain /\ SamePlace(row[u], row'[u])
                               /\ row'[u].status = "failed"
    BY <1>1, <1>4, HandleWorkErrorRows
  <2>2. \A u \in row[t].fail_chain : Committed(u)
    BY DEF BoundInv, RowsExist
  <2> QED BY <2>1, <2>2 DEF SamePlace, SameBirth, Committed
<1>5. ASSUME (\E t \in Tasks : WorkerCrash(t)) \/ (\E s \in Sources : EnableUpdateOnLaunch(s))
      PROVE  UNCHANGED <<dependent_jobs, pass>> /\ \A u \in Tasks : SameBirth(u)
  <2>1. UNCHANGED <<row, dependent_jobs, pass>>
    BY <1>5 DEF WorkerCrash, EnableUpdateOnLaunch, tables
  <2> QED BY <2>1 DEF SameBirth, Committed
<1>6. CASE UNCHANGED <<dependent_jobs, pass>> /\ \A u \in Tasks : SameBirth(u)
  BY <1>6, SameBirthBound DEF pass, visit
<1> QED BY <1>2, <1>3, <1>4, <1>5, <1>6, LaunchBound DEF Environment

----------------------------------------------------------------------------
(* The two ends of a pass.                                                 *)
LEMMA BeginPassBound ==
  ASSUME BoundInv, RulesInv',
         NEW reaped \in SUBSET {t \in Tasks : Lost(t)},
         NEW verdict \in Verdicts, BeginPass(reaped, verdict)
  PROVE  BoundInv'
<1>1. /\ phase = "idle" /\ phase' = "pass"
      /\ \A t \in DOMAIN tx' :
           /\ t \in Tasks /\ tx'[t].status \in Terminal /\ row[t].status \in Active
           /\ SamePlace(row[t], tx'[t])
      /\ pending_tasks' = {t \in Tasks : row[t].status = "pending"}
      /\ UNCHANGED <<row, dependent_jobs, links, dependencies>>
  BY BeginPassRows DEF BoundInv, RulesInv, tables, visit
<1>2. /\ DOMAIN dependencies = {} /\ links = {} /\ DOMAIN tx = {} /\ TypeOK
      /\ RowsExist /\ LaunchTimes /\ UpdatesCaused
  BY <1>1 DEF BoundInv, RulesInv, Placed, TypeInv, RowsExist
<1>3. /\ ViewLinks = dependent_jobs /\ ViewLinks' = dependent_jobs
      /\ \A u : View(u) = row[u]
  BY <1>1, <1>2 DEF ViewLinks, View
<1>4. \A u \in Tasks : /\ Committed(u)' <=> Committed(u)
                       /\ Exists(u)' <=> Committed(u)
                       /\ View(u)'.created = row[u].created
  BY <1>1 DEF Committed, Exists, View, SamePlace, Active, Terminal
<1>5. /\ \A p \in dependent_jobs : p[1] \in Tasks /\ p[2] \in Tasks
      /\ \A u \in Tasks : row[u].fail_chain \subseteq Tasks
  BY <1>2, LinkTypes DEF TypeOK, Rows
<1>6. RowsExist'
  <2>1. \A t \in DOMAIN tx' : /\ tx'[t].fail_chain = row[t].fail_chain /\ t \in Tasks
                              /\ tx'[t].created = row[t].created /\ Committed(t)
    BY <1>1 DEF SamePlace, Committed, Active
  <2>2. \A t \in pending_tasks' : Committed(t) /\ t \in Tasks
    BY <1>1 DEF Committed
  <2>3. \A t \in Tasks : \A u \in row[t].fail_chain : Committed(u)
    BY <1>2 DEF RowsExist
  <2>4. \A p \in dependent_jobs : Committed(p[1]) /\ Committed(p[2])
    BY <1>2 DEF RowsExist
  <2> QED BY <1>1, <1>2, <1>3, <1>4, <1>5, <2>1, <2>2, <2>3, <2>4 DEF RowsExist
<1>7. Launched' = Launched /\ LaunchTimes'
  BY <1>1, <1>2 DEF Launched, LaunchTimes
<1>8. \A u, created, relation : Caused(u, created, relation)' = Caused(u, created, relation)
  BY <1>1, <1>7 DEF Caused, CausedBy
<1>9. UpdatesCaused'
  <2>1. \A u \in Tasks \ Manual : Committed(u) => Caused(u, row[u].created, dependent_jobs)
    BY <1>2 DEF UpdatesCaused
  <2>2. \A u, v \in Tasks \ Manual :
          (/\ u # v /\ Committed(u) /\ Committed(v)
           /\ MarksOf(u) \cap MarksOf(v) \cap UpdateKeys # {})
          => row[u].created # row[v].created
    BY <1>2, <1>3 DEF UpdatesCaused, Exists, Committed
  <2> QED BY <1>1, <1>3, <1>4, <1>8, <2>1, <2>2 DEF UpdatesCaused
<1> QED BY <1>6, <1>7, <1>9 DEF BoundInv

LEMMA CommitBound ==
  ASSUME BoundInv, RulesInv', Commit
  PROVE  BoundInv'
<1>1. /\ \A t \in Tasks : row'[t] = View(t) /\ View(t)' = View(t)
      /\ DOMAIN tx' = {} /\ DOMAIN dependencies' = {} /\ links' = {}
      /\ dependent_jobs' = ViewLinks /\ ViewLinks' = ViewLinks
      /\ pending_tasks' = {}
  BY CommitRows
<1>2. TypeOK /\ RowsExist /\ LaunchTimes /\ UpdatesCaused
  BY DEF BoundInv, RulesInv, TypeInv
<1>3. \A u \in Tasks : /\ Committed(u)' <=> Exists(u)
                       /\ Exists(u)' <=> Exists(u)
  BY <1>1 DEF Committed, Exists
<1>4. /\ \A p \in ViewLinks : p[1] \in Tasks /\ p[2] \in Tasks
      /\ \A u \in Tasks : View(u).fail_chain \subseteq Tasks
  BY <1>2, LinkTypes DEF Rows
<1>5. RowsExist'
  <2>1. ASSUME NEW t \in Tasks, NEW u \in View(t).fail_chain PROVE Exists(u)
    <3>1. CASE t \in DOMAIN tx
      BY <1>2, <2>1, <3>1 DEF RowsExist, View
    <3>2. CASE t \notin DOMAIN tx
      BY <1>2, <2>1, <3>2, CommittedExists DEF RowsExist, View
    <3> QED BY <3>1, <3>2
  <2>2. \A p \in ViewLinks : Exists(p[1]) /\ Exists(p[2])
    BY <1>2 DEF RowsExist
  <2> QED BY <1>1, <1>3, <1>4, <2>1, <2>2 DEF RowsExist
<1>6. \A t \in Launched : row'[t].created = row[t].created /\ t \in Tasks
  BY <1>1, <1>2, CommittedExists, LaunchedIsFinite DEF Launched, Committed
<1>7. Launched' = Launched
  <2>1. \A t \in Manual : t \in Tasks /\ (Exists(t) <=> Committed(t))
    BY <1>2, TaskAssumption, CommittedExists DEF RowsExist, Exists, Committed, View
  <2> QED BY <1>3, <2>1 DEF Launched, Committed
<1>8. LaunchTimes'
  BY <1>2, <1>6, <1>7 DEF LaunchTimes
<1>9. \A u, created, relation : Caused(u, created, relation) => Caused(u, created, relation)'
  <2>1. \A t \in Launched : \A u, created, relation :
          CausedBy(t, u, created, relation) => CausedBy(t, u, created, relation)'
    BY <1>6 DEF CausedBy
  <2> QED BY <1>7, <2>1 DEF Caused
<1>10. UpdatesCaused'
  BY <1>1, <1>2, <1>3, <1>9 DEF UpdatesCaused
<1> QED BY <1>5, <1>8, <1>10 DEF BoundInv

LEMMA PassFailsBound ==
  ASSUME BoundInv, RulesInv', PassFails
  PROVE  BoundInv'
<1>1. /\ \A t \in Tasks : View(t)' = row[t]
      /\ DOMAIN tx' = {} /\ DOMAIN dependencies' = {} /\ links' = {}
      /\ ViewLinks' = dependent_jobs /\ pending_tasks' = {}
      /\ UNCHANGED <<row, dependent_jobs>>
  BY PassFailsRows DEF tables
<1>2. TypeOK /\ RowsExist /\ LaunchTimes /\ UpdatesCaused
  BY DEF BoundInv, RulesInv, TypeInv
<1>3. \A u \in Tasks : (Exists(u)' <=> Committed(u)) /\ (Committed(u)' <=> Committed(u))
  BY <1>1 DEF Committed, Exists
<1>4. RowsExist'
  <2>1. /\ \A p \in dependent_jobs : p[1] \in Tasks /\ p[2] \in Tasks
        /\ \A u \in Tasks : row[u].fail_chain \subseteq Tasks
    BY <1>2, LinkTypes DEF TypeOK, Rows
  <2> QED BY <1>1, <1>2, <1>3, <2>1 DEF RowsExist
<1>5. Launched' = Launched /\ LaunchTimes'
  BY <1>1, <1>2 DEF Launched, LaunchTimes
<1>6. \A u, created, relation : Caused(u, created, relation)' = Caused(u, created, relation)
  BY <1>1, <1>5 DEF Caused, CausedBy
<1>7. UpdatesCaused'
  <2>1. \A u, v \in Tasks \ Manual :
          (/\ u # v /\ Committed(u) /\ Committed(v)
           /\ MarksOf(u) \cap MarksOf(v) \cap UpdateKeys # {})
          => row[u].created # row[v].created
    BY <1>2, CommittedExists DEF UpdatesCaused
  <2> QED BY <1>1, <1>2, <1>3, <1>6, <2>1 DEF UpdatesCaused
<1> QED BY <1>4, <1>5, <1>7 DEF BoundInv

----------------------------------------------------------------------------
(* Inside the pass.  What is new is caused by the visited job, which had   *)
(* no links before.                                                        *)
LEMMA GenerateDependenciesBound ==
  ASSUME BoundInv, RulesInv', NEW t \in Tasks, NEW expired,
         GenerateDependencies(t, expired)
  PROVE  BoundInv'
<1>1. PICK new \in SUBSET (Tasks \ Manual), all \in SUBSET Tasks :
         Generated(t, new, all)
  BY GenerateRows DEF BoundInv, RulesInv
<1>2. /\ phase = "pass" /\ phase' = "pass" /\ new \subseteq all /\ t \in pending_tasks
      /\ UNCHANGED <<row, dependent_jobs, pending_tasks>>
      /\ DOMAIN tx' = DOMAIN tx \cup new
      /\ \A u \in DOMAIN tx \ new : tx'[u] = tx[u]
      /\ \A u \in new : /\ ~Exists(u) /\ ~AlreadyProcessed(t)
                        /\ tx'[u] = DependencyRow(t, u)
                        /\ dependencies'[u] = DependencyRow(t, u)
      /\ \A u \in all \ new : View(u).status \in Unfinished /\ dependencies'[u] = View(u)
      /\ \A u \in all : IsUpdate(u)
      /\ all # {} => IsA(t, "job")
      /\ DOMAIN dependencies' = all
      /\ links' = IF all = {} THEN links ELSE links \cup Clique({t} \cup all)
      /\ \A u, v \in new : u # v => MarksOf(u) \cap MarksOf(v) \cap UpdateKeys = {}
  BY <1>1 DEF Generated, tables, Exists
<1>3. /\ TypeOK /\ RowsExist /\ LaunchTimes /\ UpdatesCaused
      /\ DOMAIN tx \subseteq Tasks /\ row \in [Tasks -> Rows]
  BY DEF BoundInv, RulesInv, TypeInv, TypeOK
<1>4. Committed(t) /\ Exists(t) /\ View(t).created = row[t].created
  BY <1>2, <1>3, CommittedExists DEF RowsExist
<1>5. \A u \in new : LET r == DependencyRow(t, u)
                     IN  /\ r.status = "pending" /\ r.created = row[t].created - Lead(u)
                         /\ r.fail_chain = {}
  BY <1>4 DEF DependencyRow, NewRow, Lead
<1>6. /\ \A u \in Tasks \ new : View(u)' = View(u) /\ (Exists(u)' <=> Exists(u))
      /\ \A u \in new : Exists(u)' /\ View(u)'.created = row[t].created - Lead(u)
      /\ \A u \in Tasks : Exists(u) => Exists(u)' /\ View(u)' = View(u)
      /\ \A u \in Tasks : Committed(u)' <=> Committed(u)
  BY <1>2, <1>5 DEF View, Exists, Committed
<1>7. \A u \in all : Exists(u)'
  BY <1>2, <1>6 DEF Exists, Unfinished
(* A job is launched, for only updates are created by the pass.            *)
<1>8. all # {} => t \in Launched
  <2>1. IsA(t, "job") => ~IsUpdate(t)
    BY DEF IsA, IsUpdate
  <2>2. t \notin Manual => IsUpdate(t)
    BY <1>3, <1>4 DEF UpdatesCaused, Caused
  <2> QED BY <1>2, <1>4, <2>1, <2>2 DEF Launched, Committed
<1>9. /\ ViewLinks \subseteq ViewLinks'
      /\ \A p \in ViewLinks' \ ViewLinks : p[1] \in {t} \cup all /\ p[2] \in {t} \cup all
      /\ \A u \in all : u # t => <<t, u>> \in ViewLinks'
  BY <1>2 DEF ViewLinks, Clique
<1>10. RowsExist'
  <2>1. \A p \in ViewLinks' : Exists(p[1])' /\ Exists(p[2])'
    BY <1>3, <1>4, <1>6, <1>7, <1>9, LinkTypes DEF RowsExist
  <2>2. ASSUME NEW u \in DOMAIN tx'
        PROVE  /\ Exists(u)' /\ (u \in Manual => Committed(u)')
               /\ Committed(u)' => tx'[u].created = row'[u].created
               /\ \A v \in tx'[u].fail_chain : Exists(v)'
    <3>1. CASE u \in new
      BY <1>2, <1>3, <1>5, <1>6, <3>1, CommittedExists DEF RowsExist
    <3>2. CASE u \notin new
      <4>1. u \in DOMAIN tx /\ tx'[u] = tx[u] /\ tx[u].fail_chain \subseteq Tasks
        BY <1>2, <1>3, <2>2, <3>2 DEF TypeOK, Rows
      <4> QED BY <1>2, <1>3, <1>6, <4>1 DEF RowsExist
    <3> QED BY <3>1, <3>2
  <2>3. ASSUME NEW d \in all
        PROVE  /\ Exists(d)' /\ dependencies'[d].created = View(d)'.created
               /\ dependencies'[d].status # "none"
               /\ \A v \in dependencies'[d].fail_chain : Exists(v)'
    <3>1. CASE d \in new
      BY <1>2, <1>5, <1>6, <3>1
    <3>2. CASE d \notin new
      <4>1. /\ d \in Tasks /\ Exists(d) /\ dependencies'[d] = View(d)
            /\ View(d).status # "none" /\ View(d).fail_chain \subseteq Tasks
        BY <1>2, <1>3, <2>3, <3>2, LinkTypes DEF Exists, Unfinished, Rows
      <4>2. \A v \in View(d).fail_chain : Exists(v)
        <5>1. CASE d \in DOMAIN tx
          BY <1>3, <5>1 DEF RowsExist, View
        <5>2. CASE d \notin DOMAIN tx
          BY <1>3, <4>1, <5>2, CommittedExists DEF RowsExist, View
        <5> QED BY <5>1, <5>2
      <4> QED BY <1>6, <4>1, <4>2
    <3> QED BY <3>1, <3>2
  <2>4. /\ \A u \in Tasks : \A v \in row'[u].fail_chain : Committed(v)'
        /\ \A p \in dependent_jobs' : Committed(p[1])' /\ Committed(p[2])'
        /\ \A u \in pending_tasks' : Committed(u)'
    BY <1>2, <1>3 DEF RowsExist, Committed
  <2> QED BY <1>2, <2>1, <2>2, <2>3, <2>4 DEF RowsExist
<1>11. Launched' = Launched /\ LaunchTimes'
  BY <1>2, <1>3 DEF Launched, LaunchTimes
<1>12. /\ \A u, created : Caused(u, created, ViewLinks) => Caused(u, created, ViewLinks)'
       /\ \A u, created : Caused(u, created, dependent_jobs) => Caused(u, created, dependent_jobs)'
  BY <1>2, <1>9, <1>11 DEF Caused, CausedBy
<1>13. \A u \in new : Caused(u, View(u).created, ViewLinks)'
  <2> SUFFICES ASSUME NEW u \in new PROVE Caused(u, View(u).created, ViewLinks)'
    OBVIOUS
  <2>1. u \in all /\ IsUpdate(u) /\ t \in Launched /\ u # t /\ IsA(t, "job")
    BY <1>2, <1>4, <1>8
  <2>2. CausedBy(t, u, View(u).created, ViewLinks)'
    BY <1>2, <1>6, <1>9, <2>1 DEF CausedBy
  <2> QED BY <1>11, <2>1, <2>2 DEF Caused
(* An older update of the same date would have been created for this job.  *)
<1>14. ASSUME NEW u \in new, NEW v \in Tasks \ Manual, v \notin new, Exists(v),
              MarksOf(u) \cap MarksOf(v) \cap UpdateKeys # {}
       PROVE  View(u)'.created # View(v)'.created
  <2>1. PICK s \in Launched : CausedBy(s, v, View(v).created, ViewLinks)
    BY <1>3, <1>14 DEF UpdatesCaused, Caused
  <2>2. /\ View(v)'.created = row[s].created - Lead(v) /\ <<s, v>> \in ViewLinks
        /\ View(u)'.created = row[t].created - Lead(u)
        /\ t \in Launched /\ ~AlreadyProcessed(t)
    BY <1>2, <1>6, <1>8, <1>14, <2>1 DEF CausedBy
  <2>3. s # t
    BY <2>2, <1>14 DEF AlreadyProcessed, DependentJobs
  <2>4. /\ row[s].created # row[t].created
        /\ row[s].created \in Int /\ row[t].created \in Int
    BY <1>3, <2>2, <2>3, LaunchedIsFinite DEF LaunchTimes, Rows
  <2>5. Lead(u) = Lead(v) /\ Lead(u) \in Int
    <3>1. u \in Tasks
      OBVIOUS
    <3> QED BY <1>14, <3>1, SameLead DEF Lead
  <2> QED BY <2>2, <2>4, <2>5
<1>15. UpdatesCaused'
  <2>1. ASSUME NEW u \in Tasks \ Manual, Exists(u)'
        PROVE  Caused(u, View(u).created, ViewLinks)'
    <3>1. CASE u \in new
      BY <1>13, <3>1
    <3>2. CASE u \notin new
      <4>1. View(u)' = View(u) /\ Caused(u, View(u).created, ViewLinks)
        BY <1>3, <1>6, <2>1, <3>2 DEF UpdatesCaused
      <4> QED BY <1>12, <4>1
    <3> QED BY <3>1, <3>2
  <2>2. ASSUME NEW u \in Tasks \ Manual, Committed(u)'
        PROVE  Caused(u, row[u].created, dependent_jobs)'
    BY <1>2, <1>3, <1>6, <1>12, <2>2 DEF UpdatesCaused
  <2>3. ASSUME NEW u \in Tasks \ Manual, NEW v \in Tasks \ Manual, u # v,
               Exists(u)', Exists(v)', MarksOf(u) \cap MarksOf(v) \cap UpdateKeys # {}
        PROVE  View(u)'.created # View(v)'.created
    <3>1. MarksOf(v) \cap MarksOf(u) \cap UpdateKeys # {}
      BY <2>3
    <3>2. CASE u \in new /\ v \in new
      BY <1>2, <2>3, <3>2
    <3>3. CASE u \in new /\ v \notin new
      BY <1>6, <1>14, <2>3, <3>3
    <3>4. CASE u \notin new /\ v \in new
      BY <1>6, <1>14, <2>3, <3>1, <3>4
    <3>5. CASE u \notin new /\ v \notin new
      BY <1>3, <1>6, <2>3, <3>5 DEF UpdatesCaused
    <3> QED BY <3>2, <3>3, <3>4, <3>5
  <2> QED BY <2>1, <2>2, <2>3 DEF UpdatesCaused
<1> QED BY <1>10, <1>11, <1>15 DEF BoundInv

(* A visit rewrites a row that exists, without changing its date.          *)
LEMMA VisitBound ==
  ASSUME BoundInv, RulesInv', NEW t \in Tasks, phase' = "pass", Exists(t),
         UNCHANGED <<row, dependent_jobs, links>>,
         \/ tx' = tx
         \/ \E r : /\ Written(t, r) /\ r.status # "none"
                   /\ r.created = View(t).created
                   /\ \A u \in r.fail_chain : Exists(u),
         pending_tasks' \subseteq pending_tasks,
         DOMAIN dependencies' = {} \/ dependencies' = dependencies
  PROVE  BoundInv'
<1>1. /\ TypeOK /\ RowsExist /\ LaunchTimes /\ UpdatesCaused
      /\ ViewLinks' = ViewLinks /\ DOMAIN tx \subseteq Tasks
  BY DEF BoundInv, RulesInv, TypeInv, TypeOK, ViewLinks
<1>2. \A u \in Tasks : /\ Exists(u)' <=> Exists(u)
                       /\ View(u)'.created = View(u).created
                       /\ Committed(u)' <=> Committed(u)
  BY DEF Written, Exists, View, Committed
<1>3. ASSUME NEW u \in DOMAIN tx'
      PROVE  /\ Exists(u)' /\ (u \in Manual => Committed(u)')
             /\ Committed(u)' => tx'[u].created = row'[u].created
             /\ \A v \in tx'[u].fail_chain : Exists(v)'
  <2>1. CASE tx' = tx \/ u # t
    <3>1. u \in DOMAIN tx /\ tx'[u] = tx[u] /\ tx[u].fail_chain \subseteq Tasks
      BY <1>1, <1>3, <2>1 DEF Written, TypeOK, Rows
    <3> QED BY <1>1, <1>2, <3>1 DEF RowsExist
  <2>2. CASE tx' # tx /\ u = t
    <3>1. PICK r : /\ r \in Rows /\ tx'[t] = r
                   /\ r.created = View(t).created
                   /\ \A v \in r.fail_chain : Exists(v)
      BY <2>2 DEF Written
    <3>2. r.fail_chain \subseteq Tasks
      BY <3>1 DEF Rows
    <3>3. t \in Manual => Committed(t)
      BY <1>1 DEF RowsExist, Exists, Committed, View
    <3>4. Committed(t) => View(t).created = row[t].created
      BY <1>1, CommittedExists
    <3> QED BY <1>2, <2>2, <3>1, <3>2, <3>3, <3>4
  <2> QED BY <2>1, <2>2
<1>4. RowsExist'
  <2>1. /\ \A p \in ViewLinks : p[1] \in Tasks /\ p[2] \in Tasks
        /\ \A p \in dependent_jobs : p[1] \in Tasks /\ p[2] \in Tasks
        /\ \A u \in Tasks : row[u].fail_chain \subseteq Tasks
        /\ \A u \in DOMAIN dependencies : /\ u \in Tasks
                                          /\ dependencies[u].fail_chain \subseteq Tasks
        /\ pending_tasks \subseteq Tasks
    BY <1>1, LinkTypes DEF TypeOK, Rows
  <2>2. \A d \in DOMAIN dependencies' :
           /\ Exists(d)' /\ dependencies'[d].created = View(d)'.created
           /\ dependencies'[d].status # "none"
           /\ \A u \in dependencies'[d].fail_chain : Exists(u)'
    BY <1>1, <1>2, <2>1 DEF RowsExist
  <2> QED BY <1>1, <1>2, <1>3, <2>1, <2>2 DEF RowsExist
<1>5. Launched' = Launched /\ LaunchTimes'
  BY <1>1 DEF Launched, LaunchTimes
<1>6. \A u, created, relation : Caused(u, created, relation)' = Caused(u, created, relation)
  BY <1>5 DEF Caused, CausedBy
<1>7. UpdatesCaused'
  BY <1>1, <1>2, <1>6 DEF UpdatesCaused
<1> QED BY <1>4, <1>5, <1>7 DEF BoundInv

LEMMA ProcessDependencyBound ==
  ASSUME BoundInv, RulesInv', NEW d \in Tasks, ProcessDependency(d)
  PROVE  BoundInv'
<1> DEFINE chain == (DOMAIN dependencies \ {d}) \cup {current}
<1>1. /\ d \in unvisited /\ current \in Tasks
      /\ tx' = tx \/ \E r : StartRow(d, dependencies[d], chain, r)
      /\ UNCHANGED <<row, dependent_jobs, links, phase, pending_tasks, dependencies>>
  BY ProcessDependencyRows DEF BoundInv, RulesInv, tables
<1>2. /\ d \in DOMAIN dependencies /\ phase = "pass" /\ current \in pending_tasks
      /\ RowsExist
  BY <1>1, TaskAssumption DEF BoundInv, RulesInv, TypeInv, TypeOK, Placed
<1>3. /\ Exists(d) /\ dependencies[d].created = View(d).created
      /\ \A u \in dependencies[d].fail_chain : Exists(u)
      /\ \A u \in chain : Exists(u)
  BY <1>2, CommittedExists DEF RowsExist
<1> HIDE DEF chain
<1>4. \/ tx' = tx
      \/ \E r : /\ Written(d, r) /\ r.status # "none"
                /\ r.created = View(d).created
                /\ \A u \in r.fail_chain : Exists(u)
  BY <1>1, <1>3 DEF StartRow, Refused, Submitted, SamePlace
<1> QED BY <1>1, <1>2, <1>3, <1>4, VisitBound

LEMMA ProcessPendingBound ==
  ASSUME BoundInv, RulesInv', NEW t \in Tasks, ProcessPending(t)
  PROVE  BoundInv'
<1>1. /\ current = t /\ pending_tasks' = pending_tasks \ {t} /\ DOMAIN dependencies' = {}
      /\ \/ tx' = tx
         \/ \E r : /\ Written(t, r) /\ SamePlace(InMemory(t), r)
                   /\ r.status \in {"failed", "running"}
         \/ \E r : StartRow(t, InMemory(t), FailChain(t, ViewLinks), r)
      /\ UNCHANGED <<row, dependent_jobs, links, phase>>
  BY ProcessPendingRows DEF BoundInv, RulesInv, tables
<1>2. t \in pending_tasks /\ phase = "pass" /\ RowsExist
  <2>1. current # NoTask
    BY <1>1, TaskAssumption
  <2> QED BY <1>1, <2>1 DEF BoundInv, RulesInv, Placed
<1>3. Exists(t)
  BY <1>2, CommittedExists DEF RowsExist
<1>4. InMemory(t).created = View(t).created /\ InMemory(t).fail_chain = {}
  BY DEF InMemory, NewRow
<1>5. \A u \in FailChain(t, ViewLinks) : Exists(u)
  <2>1. \A u \in Tasks : <<t, u>>[2] = u
    OBVIOUS
  <2> QED BY <1>2, <2>1 DEF FailChain, DependentJobs, RowsExist
<1>6. \/ tx' = tx
      \/ \E r : /\ Written(t, r) /\ r.status # "none"
                /\ r.created = View(t).created
                /\ \A u \in r.fail_chain : Exists(u)
  BY <1>1, <1>4, <1>5 DEF StartRow, Refused, Submitted, SamePlace
<1> QED BY <1>1, <1>2, <1>3, <1>6, VisitBound

LEMMA NextBound == BoundInv /\ [Next]_vars => BoundInv'
<1> SUFFICES ASSUME BoundInv, [Next]_vars PROVE BoundInv'
  OBVIOUS
<1>1. RulesInv'
  BY NextRules DEF BoundInv
<1>2. CASE DispatchCrash \/ \E t \in Tasks : Dispatch(t)
  <2>1. /\ phase' # "pass"
        /\ UNCHANGED <<row, dependent_jobs, links, tx, dependencies, pending_tasks>>
    BY <1>2, DispatchRows DEF BoundInv, RulesInv, TypeInv, tables, visit
  <2>2. phase # "pass"
    BY <1>2, DispatchRows DEF BoundInv, RulesInv, TypeInv
  <2>3. /\ ViewLinks' = ViewLinks /\ Launched' = Launched
        /\ \A u : View(u)' = View(u) /\ Exists(u)' = Exists(u) /\ Committed(u)' = Committed(u)
    BY <2>1 DEF ViewLinks, Launched, View, Exists, Committed
  <2>4. \A u, created, relation : Caused(u, created, relation)' = Caused(u, created, relation)
    BY <2>1, <2>3 DEF Caused, CausedBy
  <2> QED BY <1>1, <2>1, <2>2, <2>3, <2>4
          DEF BoundInv, RowsExist, LaunchTimes, UpdatesCaused
<1>3. CASE UNCHANGED vars
  <2>1. /\ UNCHANGED <<row, dependent_jobs, links, tx, phase, dependencies, pending_tasks>>
        /\ \A u \in Tasks : SameBirth(u)
    BY <1>3 DEF vars, tables, pass, visit, SameBirth, Committed
  <2> QED BY <1>1, <2>1, SameBirthBound
<1> QED BY <1>1, <1>2, <1>3, EnvironmentBound, BeginPassBound, GenerateDependenciesBound,
           ProcessDependencyBound, ProcessPendingBound, CommitBound, PassFailsBound
        DEF Next, Schedule, PassStep

(* Whatever the caches answer, whatever fails, is canceled or rolled back, *)
(* there are never more created updates of a resource than launched jobs.  *)
THEOREM UpdatesAreBounded == Spec => []UpdatesBounded
<1>1. Init => BoundInv
  BY InitBound
<1>2. BoundInv /\ [Next]_vars => BoundInv'
  BY NextBound
<1>3. BoundInv => UpdatesBounded
  <2> SUFFICES ASSUME BoundInv, NEW r \in UpdateKeys
               PROVE  Cardinality(Existing(r) \ Manual)
                        <= Cardinality({t \in Launched : IsA(t, "job")})
    BY DEF UpdatesBounded
  <2> DEFINE created == Existing(r) \ Manual
             jobs == {t \in Launched : IsA(t, "job")}
             Cause(u) == CHOOSE t \in jobs : View(u).created = row[t].created - Lead(u)
             cause == [u \in created |-> Cause(u)]
  <2>1. ASSUME NEW u \in created
        PROVE  Cause(u) \in jobs /\ View(u).created = row[Cause(u)].created - Lead(u)
    <3>1. u \in Tasks \ Manual /\ Exists(u)
      BY DEF Existing, Exists
    <3>2. \E t \in jobs : View(u).created = row[t].created - Lead(u)
      BY <3>1 DEF BoundInv, UpdatesCaused, Caused, CausedBy
    <3> QED BY <3>2, Zenon
  <2> HIDE DEF Cause
  <2>2. ASSUME NEW u \in created, NEW v \in created, Cause(u) = Cause(v)
        PROVE  u = v
    <3>1. /\ u \in Tasks \ Manual /\ Exists(u) /\ v \in Tasks \ Manual /\ Exists(v)
          /\ r \in MarksOf(u) \cap MarksOf(v) \cap UpdateKeys
      BY DEF Existing, Exists
    <3>2. View(u).created = View(v).created
      BY <2>1, <2>2, <3>1, SameLead
    <3> QED BY <3>1, <3>2 DEF BoundInv, UpdatesCaused
  <2>3. IsFiniteSet(jobs)
    BY LaunchedIsFinite, FS_Subset
  <2>4. cause \in Injection(created, jobs)
    BY <2>1, <2>2 DEF Injection, IsInjective
  <2> HIDE DEF cause, created, jobs
  <2>5. Cardinality(created) <= Cardinality(jobs)
    BY <2>3, <2>4, FS_Injection
  <2> QED BY <2>5 DEF created, jobs
<1> QED BY <1>1, <1>2, <1>3, PTL DEF Spec
=============================================================================
