---------------------------- MODULE ProjectSync ----------------------------
(***************************************************************************)
(* The source tree of one project on one node, awx/main/tasks.py:          *)
(* RunProjectUpdate with its file lock, and the tasks that use the tree.   *)
(* A project update of the scheduler ("check") fetches the newest revision *)
(* of the repository and then updates the inventory sources that follow    *)
(* the project.  A Job and an InventoryUpdate of an scm source first run a *)
(* project update of their own ("sync"), which puts the tree back to the   *)
(* revision that the project had, and then use the tree.                   *)
(*                                                                         *)
(* A sync belongs to the one task that runs it, so both share an entry of  *)
(* the functions below.  What keeps tasks apart before they start is       *)
(* DependencyGraph; the syncs and the updates of followers have rows that  *)
(* the scheduler never starts.                                             *)
(***************************************************************************)
EXTENDS DependencyGraph, Naturals

CONSTANTS
    Followers,      \* inventory sources with update_on_project_update
    MaxRevision     \* bound: commits to the repository

Sources == {Source[t] : t \in Tasks} \cup Followers

(* 0 is the blank scm_revision of a project that was never updated.        *)
Blank == 0
Revisions == Blank..MaxRevision

ASSUME UsersOfTheTree ==
    \A t \in Tasks : Kind[t] \in {"project_update", "job", "inventory_update"}
ASSUME OneProject == \A t, u \in Tasks : Project[t] = Project[u]
ASSUME RevisionAssumption == MaxRevision \in Nat \ {0}

VARIABLES
    progress,          \* how far a task is
    process,        \* what the process that runs a task holds in memory
    holders,        \* who has the lock on get_lock_file(): nobody or one
    upstream,       \* the newest revision of the repository
    files,           \* the revision of the files on the node
    revision,       \* Project.scm_revision
    lastRevision,   \* InventorySource.scm_last_revision
    recorded        \* Job.scm_revision

RevisionVars == <<upstream, files, revision, lastRevision, recorded>>
SyncVars == <<progress, process, holders, RevisionVars>>

Phases == {"pending", "started", "created", "waiting", "working", "worked",
           "released", "dependents", "closing", "playbook", "lost", "done"}

(* The project update of a task: its cancel_flag and how it ended ("error" *)
(* counts as failed); the revision in the object that created a sync and   *)
(* in the one that its run has read; the revision that a check wrote to    *)
(* revision_path; the followers still to come, and the one being updated.  *)
Processes == [flag : BOOLEAN,
              outcome : {"none", "successful", "failed", "canceled"},
              read : Revisions, cached : Revisions, got : Revisions,
              todo : SUBSET Followers, importing : SUBSET Followers]

NoProcess == [flag |-> FALSE, outcome |-> "none",
              read |-> Blank, cached |-> Blank, got |-> Blank,
              todo |-> {}, importing |-> {}]

SyncTypeOK ==
    /\ progress \in [Tasks -> Phases]
    /\ process \in [Tasks -> Processes]
    /\ holders \in SUBSET Tasks
    /\ upstream \in Revisions /\ files \in Revisions /\ revision \in Revisions
    /\ lastRevision \in [Sources -> Revisions]
    /\ recorded \in [Tasks -> Revisions]

SyncInit ==
    /\ progress = [t \in Tasks |-> "pending"]
    /\ process = [t \in Tasks |-> NoProcess]
    /\ holders = {}
    /\ upstream = 1
    /\ files \in {Blank, 1} /\ revision = files
    /\ lastRevision = [s \in Sources |-> Blank]
    /\ recorded = [t \in Tasks |-> Blank]

----------------------------------------------------------------------------
IsCheck(t) == IsA(t, "project_update")

(* The rows that are waiting or running: the scheduler blocks on them.     *)
IsActive(t) == progress[t] \notin {"pending", "done"}

Canceled(t) == process[t].flag

GoTo(t, where) == progress' = [progress EXCEPT ![t] = where]

(* _build_scm_url_extra_vars and build_args: a sync asks for the revision  *)
(* of the project object it has read, if there is one.                     *)
Target(t) ==
    IF IsCheck(t) \/ process[t].cached = Blank THEN upstream
                                                ELSE process[t].cached

(* The scheduler starts what nothing active blocks.  A pass may have read  *)
(* its tasks before the update of a follower was created, so these rows do *)
(* not block.                                                              *)
StartTask(t) ==
    /\ progress[t] = "pending"
    /\ ~IsJobBlocked(UNION {MarksOf(u) : u \in {v \in Tasks : IsActive(v)}}, t)
    /\ GoTo(t, "started")
    /\ UNCHANGED <<process, holders, RevisionVars>>

(* pre_run_hook of RunJob and RunInventoryUpdate: create_project_update.   *)
CreateSync(t) ==
    /\ progress[t] = "started" /\ ~IsCheck(t)
    /\ GoTo(t, "created")
    /\ process' = [process EXCEPT ![t].read = revision]
    /\ UNCHANGED <<holders, RevisionVars>>

(* BaseTask.run up to acquire_lock: update_model loads the row, and saving *)
(* it loads the project, which the object keeps.                           *)
EnterRun(t) ==
    /\ progress[t] = IF IsCheck(t) THEN "started" ELSE "created"
    /\ GoTo(t, "waiting")
    /\ process' = [process EXCEPT ![t].cached = revision]
    /\ UNCHANGED <<holders, RevisionVars>>

(* The user cancels the update, or the task that waits for its sync: the   *)
(* row is running and only gets the flag.                                  *)
CancelUpdate(t) ==
    /\ IsActive(t) /\ progress[t] # "lost"
    /\ IsCheck(t) \/ progress[t] \in {"created", "waiting", "working", "worked"}
    /\ ~Canceled(t)
    /\ process' = [process EXCEPT ![t].flag = TRUE]
    /\ UNCHANGED <<progress, holders, RevisionVars>>

(* Faulty variant: the file is locked without LOCK_EX.                     *)
AcquireShared(t) ==
    /\ progress[t] = "waiting" /\ ~Canceled(t)
    /\ holders' = holders \cup {t}
    /\ GoTo(t, "working")
    /\ UNCHANGED <<process, RevisionVars>>

(* acquire_lock: every second the flag is read and the lock is tried.      *)
Acquire(t) ==
    /\ progress[t] = "waiting" /\ ~Canceled(t) /\ holders = {}
    /\ holders' = {t}
    /\ GoTo(t, "working")
    /\ UNCHANGED <<process, RevisionVars>>

(* Faulty variant: run does not test the flag that made acquire_lock       *)
(* return.                                                                 *)
GoOnWithoutLock(t) ==
    /\ progress[t] = "waiting" /\ Canceled(t)
    /\ GoTo(t, "working")
    /\ UNCHANGED <<process, holders, RevisionVars>>

(* Canceled while it waits: acquire_lock returns without the lock, and run *)
(* raises before the playbook, with the status canceled.                   *)
GiveUp(t) ==
    /\ progress[t] = "waiting" /\ Canceled(t)
    /\ process' = [process EXCEPT ![t].outcome = "canceled"]
    /\ GoTo(t, "worked")
    /\ UNCHANGED <<holders, RevisionVars>>

(* Opening or locking the file fails for another reason: acquire_lock      *)
(* raises, and so does release_lock, before post_run_hook has done         *)
(* anything.                                                               *)
LockFails(t) ==
    /\ progress[t] = "waiting"
    /\ process' = [process EXCEPT ![t].outcome = "failed"]
    /\ GoTo(t, "closing")
    /\ UNCHANGED <<holders, RevisionVars>>

(* run_pexpect returns.  A playbook that did not get to its end may or may *)
(* not have changed the tree.                                              *)
EndCheckout(t) ==
    /\ progress[t] = "working"
    /\ \/ /\ process' = [process EXCEPT
                  ![t].outcome = "successful",
                  ![t].got = IF IsCheck(t) THEN upstream ELSE @]
          /\ files' = Target(t)
       \/ /\ \E o \in {"failed", "canceled"} :
                /\ o = "canceled" => Canceled(t)
                /\ process' = [process EXCEPT ![t].outcome = o]
          /\ files' \in {files, Target(t)}
    /\ GoTo(t, "worked")
    /\ UNCHANGED <<holders, upstream, revision, lastRevision, recorded>>

(* What post_run_hook does after release_lock is for a check that did not  *)
(* fail.                                                                   *)
AfterRelease(t) ==
    IF IsCheck(t) /\ process[t].outcome = "successful" THEN "released"
                                                      ELSE "closing"

(* Faulty variant: an update that did not succeed keeps the lock.          *)
ReleaseIfSuccessful(t) ==
    /\ progress[t] = "worked"
    /\ holders' = IF process[t].outcome = "successful" THEN holders \ {t}
                                                       ELSE holders
    /\ GoTo(t, AfterRelease(t))
    /\ UNCHANGED <<process, RevisionVars>>

(* post_run_hook, release_lock, whatever happened; a process that does not *)
(* have the lock unlocks nothing.                                          *)
Release(t) ==
    /\ progress[t] = "worked"
    /\ holders' = holders \ {t}
    /\ GoTo(t, AfterRelease(t))
    /\ UNCHANGED <<process, RevisionVars>>

(* post_run_hook: a check saves what it has fetched and goes on with the   *)
(* followers.                                                              *)
SaveRevision(t) ==
    /\ progress[t] = "released"
    /\ revision' = process[t].got
    /\ process' = [process EXCEPT ![t].todo = Followers]
    /\ GoTo(t, "dependents")
    /\ UNCHANGED <<holders, upstream, files, lastRevision, recorded>>

----------------------------------------------------------------------------
(* _update_dependent_inventories                                           *)

(* An update of this source that is new, pending, waiting or running.      *)
BeingUpdated(s) ==
    \/ \E u \in Tasks : IsA(u, "inventory_update") /\ Source[u] = s
                           /\ progress[u] # "done"
    \/ \E u \in Tasks : s \in process[u].importing

IsSkipped(t, s) == lastRevision[s] = process[t].got \/ BeingUpdated(s)

SkipFollower(t) ==
    /\ progress[t] = "dependents" /\ process[t].importing = {}
    /\ \E s \in process[t].todo :
          /\ IsSkipped(t, s)
          /\ process' = [process EXCEPT ![t].todo = @ \ {s}]
    /\ UNCHANGED <<progress, holders, RevisionVars>>

StartImport(t) ==
    /\ progress[t] = "dependents" /\ process[t].importing = {}
    /\ \E s \in process[t].todo :
          /\ ~IsSkipped(t, s)
          /\ process' = [process EXCEPT ![t].importing = {s}]
    /\ UNCHANGED <<progress, holders, RevisionVars>>

(* The import ends.  A cancel of the check ends the loop before the source *)
(* is marked, and only a successful import marks it.                       *)
EndImport(t) ==
    /\ \E s \in process[t].importing :
          /\ \/ /\ ~Canceled(t)
                /\ lastRevision' = [lastRevision EXCEPT ![s] = process[t].got]
             \/ UNCHANGED lastRevision
          /\ process' = [process EXCEPT
                ![t].importing = {},
                ![t].todo = IF Canceled(t) THEN {} ELSE @ \ {s}]
    /\ UNCHANGED <<progress, holders, upstream, files, revision, recorded>>

----------------------------------------------------------------------------
(* The process leaves the task, whose row gets a final status.             *)
Ends(t) ==
    /\ GoTo(t, "done")
    /\ process' = [process EXCEPT ![t] = NoProcess]
    /\ UNCHANGED <<holders, RevisionVars>>

(* The end of BaseTask.run of a check.                                     *)
FinishCheck(t) ==
    /\ IsCheck(t)
    /\ \/ progress[t] = "closing"
       \/ progress[t] = "dependents" /\ process[t].todo = {}
    /\ Ends(t)

(* RunJob.pre_run_hook after the sync: it reads the project again.  When   *)
(* the sync was canceled, the exception is swallowed and the job goes on.  *)
JobGoesOn(t) ==
    /\ IsA(t, "job") /\ progress[t] = "closing"
    /\ \/ /\ process[t].outcome = "successful"
          /\ recorded' = [recorded EXCEPT ![t] = revision]
       \/ process[t].outcome = "canceled" /\ UNCHANGED recorded
    /\ GoTo(t, "playbook")
    /\ UNCHANGED <<process, holders, upstream, files, revision, lastRevision>>

(* RunInventoryUpdate.pre_run_hook after the sync: the source is marked    *)
(* with the revision of the object that created the sync.                  *)
ImportGoesOn(t) ==
    /\ IsA(t, "inventory_update") /\ progress[t] = "closing"
    /\ process[t].outcome = "successful"
    /\ lastRevision' = [lastRevision EXCEPT ![Source[t]] = process[t].read]
    /\ GoTo(t, "playbook")
    /\ UNCHANGED <<process, holders, upstream, files, revision, recorded>>

(* The sync has failed, and the task with it.                              *)
FailsWithSync(t) ==
    /\ progress[t] = "closing" /\ ~IsCheck(t)
    /\ process[t].outcome # "successful"
    /\ process[t].outcome = "canceled" => ~IsA(t, "job")
    /\ Ends(t)

PlaybookEnds(t) == progress[t] = "playbook" /\ Ends(t)

(* The worker's process dies, its lock goes with it, and a playbook that   *)
(* was working on the tree may have got any distance.                      *)
WorkerDies(t) ==
    /\ IsActive(t) /\ progress[t] # "lost"
    /\ \/ progress[t] = "working" /\ files' = Target(t)
       \/ UNCHANGED files
    /\ holders' = holders \ {t}
    /\ process' = [process EXCEPT ![t] = NoProcess]
    /\ GoTo(t, "lost")
    /\ UNCHANGED <<upstream, revision, lastRevision, recorded>>

(* The reaper of the task manager closes the row.                          *)
Reap(t) == progress[t] = "lost" /\ Ends(t)

(* Somebody pushes to the repository.                                      *)
Push ==
    /\ upstream < MaxRevision
    /\ upstream' = upstream + 1
    /\ UNCHANGED <<progress, process, holders, files, revision, lastRevision,
                   recorded>>

(* ControlledByScmMixin._reset_inv_src_rev: somebody edits the inventory   *)
(* of a follower, whose next import must not be skipped.                   *)
EditInventory(s) ==
    /\ lastRevision[s] # Blank
    /\ lastRevision' = [lastRevision EXCEPT ![s] = Blank]
    /\ UNCHANGED <<progress, process, holders, upstream, files, revision,
                   recorded>>

----------------------------------------------------------------------------
(* What a process does by itself.                                          *)
UpdateStep(t) ==
    \/ CreateSync(t) \/ EnterRun(t)
    \/ Acquire(t) \/ GiveUp(t)
    \/ EndCheckout(t) \/ Release(t) \/ SaveRevision(t)
    \/ SkipFollower(t) \/ StartImport(t) \/ EndImport(t)

TaskStep(t) ==
    FinishCheck(t) \/ JobGoesOn(t) \/ ImportGoesOn(t) \/ FailsWithSync(t)
        \/ PlaybookEnds(t)

SyncNext ==
    \/ \E t \in Tasks : \/ StartTask(t) \/ UpdateStep(t) \/ TaskStep(t)
                        \/ CancelUpdate(t) \/ LockFails(t)
                        \/ WorkerDies(t) \/ Reap(t)
    \/ \E s \in Followers : EditInventory(s)
    \/ Push

(* A process that is alive goes on; nobody has to cancel or to fail.       *)
SyncFairness == \A t \in Tasks : WF_SyncVars(UpdateStep(t))

SyncSpec == SyncInit /\ [][SyncNext]_SyncVars
FairSyncSpec == SyncSpec /\ SyncFairness

----------------------------------------------------------------------------
(* At most one process works on the files of the project, whoever is       *)
(* canceled, fails or dies meanwhile (acquire_lock, release_lock and the   *)
(* test of cancel_flag in run).                                            *)
OneCheckout ==
    \A t, u \in Tasks : progress[t] = "working" /\ progress[u] = "working" => t = u

(* Nobody waits for the lock for ever: it is given back by updates that    *)
(* succeed, fail, are canceled or die (post_run_hook).                     *)
WaitsEnd == \A t \in Tasks : []<>(progress[t] # "waiting")

(* Job.scm_revision, "The SCM Revision from the Project used for this      *)
(* job", is the revision of the files that the job's playbook comes from   *)
(* (models/jobs.py, RunJob.pre_run_hook).                                  *)
JobUsesItsRevision ==
    \A t \in Tasks :
        IsA(t, "job") /\ progress[t] = "playbook" /\ recorded[t] # Blank
            => files = recorded[t]
=============================================================================
