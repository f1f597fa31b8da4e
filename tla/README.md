# A TLA+ verification of the AWX task system

AWX runs Ansible for its users: it keeps inventories, projects and job templates
in a database, and turns launches into rows of one table, the *unified jobs*,
which a scheduler hands to celery workers on a cluster of nodes. This directory
holds TLA+ modules for two halves of AWX. In the **backend** several processes act
on the same rows and files: the task manager, the blocking rules, capacity and
placement, the workflow engine, the status protocol of the workers, the working
copies of projects, the heartbeats of the cluster, the way of job events to the
database. In the **web console** messages, requests, timers and clicks
meet in one browser: the live output of a job, its status, the workflow editor, the
websocket and the session. TLC checks the modules on small instances; TLAPS proves
some of the theorems for every instance.

Paths of the backend are relative to `src/awx/main`, paths of the console to
`src/awx/ui/client`, unless they start with `docs/` or `src/`.

## 1. The system

### Components, their state and operations

The backend:

| component | state it keeps | operations | what makes it correct |
|---|---|---|---|
| Unified job rows, `models/unified_jobs.py`, `models/mixins.py` | `status`, `cancel_flag`, `instance_group`, `execution_node`, `created`, `dependent_jobs` | `create_unified_job`, `signal_start`, `pre_start`, `cancel`, `get_jobs_fail_chain`, `dependent_jobs_finished`, `save` | a cancel is not undone; a submitted task finishes |
| Task manager, `scheduler/task_manager.py` | none between passes; in a pass the snapshot, a graph per group, consumed capacity | `schedule`: `cleanup_inconsistent_celery_tasks`, `process_finished_workflow_jobs`, `spawn_workflow_graph_jobs`, `process_tasks` | the rules of `docs/task_manager_system.md`; everything launched is served |
| Blocking rules, `scheduler/dependency_graph.py` | a dictionary of taken keys | `add_job`, `is_job_blocked` | a task is blocked exactly by what it conflicts with |
| Capacity and placement, `models/ha.py`, `managers.py` | capacity and membership of instances and groups | `capacity_values`, `fit_task_to_most_remaining_capacity_instance`, `find_largest_idle_instance`, `choose_online_controller_node` | instances are not overcommitted; isolated nodes get playbooks only |
| Workflow engine, `scheduler/dag_workflow.py` | `WorkflowJobNode.job`, its template, the three kinds of edges | `bfs_nodes_to_run`, `is_workflow_done`, `cancel_node_jobs` | only selected branches run; the verdict of `docs/workflow.md`; it ends |
| Task execution, `tasks.py` `BaseTask`, `handle_work_error` | the process of a run | `run`, `update_model`, hooks; the error callback | the final status tells what happened; siblings of a failed task are failed |
| Project sync, `tasks.py` `RunProjectUpdate`, `RunJob`, `RunInventoryUpdate` | a file lock per project, the files on the node, `Project.scm_revision`, `InventorySource.scm_last_revision` | `acquire_lock`, `release_lock`, `pre_run_hook`, `post_run_hook`, `_update_dependent_inventories` | one writer of a working copy, the lock is always freed |
| Cluster heartbeat and policies, `tasks.py`, `models/ha.py` | `Instance.modified`, `capacity`, group membership | `cluster_node_heartbeat`, `awx_isolated_heartbeat`, `apply_cluster_membership_policies` | a live node is not lost for good, a dead one is lost; policies converge |
| Callback receiver, `management/commands/run_callback_receiver.py` | a bounded queue per worker | `process_task`, `write_queue_worker`, `callback_worker` | every event is saved, or knowingly dropped |
| Periodic scheduler, `tasks.py` `awx_periodic_scheduler` | `schedule_last_run`, `next_run` | one pass per minute | no due run is lost or started twice |
| Playbook runner, isolated manager, `expect/` | a process, a directory of artifacts | `run_pexpect`, `dispatch`, `check`, `heartbeat` | cancel and timeout stop the process |
| RBAC, `models/rbac.py`, `fields.py`, `signals.py` | roles, parents, ancestors | `rebuild_role_ancestor_list` and the signals that call it | the ancestor table is the closure of the parents |
| Settings cache, `src/awx/conf` | memcached copies of rows | lookup, write, invalidation | no value stays stale for ever |
| Workflow graph editing, `src/awx/api/views` | edges of templates | associate, disassociate | no cycle, one parent |
| Inventory import, fact cache, notifications, API, SSO | | | see PROJECT.json |

The web console:

| component | state it keeps | operations | what makes it correct |
|---|---|---|---|
| Output stream, `features/output/stream.service.js` | buffer of events, counters, a chain of promises | `pushJobEvent`, `setFinalCounter`, `bufferAdd`, `bufferEmpty`, `emitFrames` | events are shown in order, once, and to the end |
| Output window, `render.service.js`; pages, `page.service.js` | rows on the screen, a record per event or gap, which pages are loaded | `pushFront`, `pushBack`, `popFront`, `popBack`, `clear`; next, previous, first and last page | the table keeps the order of the output and stays bounded |
| Output page, `index.controller.js`, `slide.service.js`, `scroll.service.js` | what is followed, locked, paused; requests under way | batches of the stream, the menu, the scroll bar, answers | one writer of the rows at a time; a pause ends |
| Job status line, `status.service.js` | status, started, finished | `pushStatusEvent`, `pushJobEvent`, `updateStats`, `sync` | the status ends up as the job's |
| Workflow editor, `src/templates/workflows/` | the drawn tree, what the database had, requests of a save | add, edit, delete a node; save | what is saved is what was drawn; a save ends |
| Live updates, `src/shared/socket/socket.service.js`, and the jobs list, `features/jobs/` | the socket, its subscription, what was put off | `subscribe`, `emit`, reconnection, the handler of `ws-jobs` | a page gets its messages, and none is forgotten |
| Session, `src/login/authenticationServices/` | the time of expiry and a flag in `localStorage`, a timer per tab | login, requests, logout, the timer | no tab stays in a session that is over |
| Forms, lists, layout, strings | | | see section 5 |

### How they interact

A user's request commits a row with status `pending` and asks celery for a
scheduling pass. A pass (`TaskManager.schedule`) runs on any node, under an
advisory lock and in **one transaction**. First it fails rows that claim to run
but are unknown to celery. Then it reads all unfinished tasks, once; closes and
extends running workflow jobs; and visits the pending tasks in order of creation:
it creates or joins the updates that a job needs (dated one or two seconds before
the job), tries to start those, and then the task itself, if nothing blocks it
and some preferred group has room. A started task becomes `waiting`. Only after
the commit do the `on_commit` hooks send messages to celery. A worker sets
`running`, runs the playbook, and sets a final status; if that is not success,
celery calls `handle_work_error` with the task's fail chain, later and in another
process. Users cancel at any time: the API writes the flag, and `canceled` when
the task is not running yet.

A project has one working copy per node. A project update of the scheduler fetches
the newest revision into it and then updates, in the same process, the inventory
sources that follow the project. A job, and an update of a source that is kept in a
project, first run a project update *of their own*, which the scheduler never sees,
to put the copy back to the revision that the project had. All of them take a file
lock around the checkout, and give it back before they use the files.

While a playbook runs, its events go through the callback receiver into the database
and over a websocket to the browsers. The output page takes them from there and,
when the user scrolls, from the API; its stream puts them in order, and the page
writes them into a table that is cut at one end when it grows at the other. The
status line is fed by the same events, by status messages and by the job's row. The
websocket sends what the current page has subscribed to; lists read their rows again
when a message says that one has changed. The workflow editor draws on a copy of the
workflow and turns it into requests when it is saved. All requests move the time at
which the tabs of the browser think that the session ends.

### What is hard

* The pass decides on a snapshot while users and workers go on writing, and the
  objects of the snapshot are saved back **whole**.
* The error callback, the reaper and the cancels write statuses without looking
  at what the task is doing now.
* The pass may die, before its commit or between commit and dispatch.
* The same update is visited twice, as a dependency and as a pending task, and
  is shared by several jobs.
* Both walks over a workflow (what to run, is it done) are made on rows that the
  same transaction has just changed, and have to agree.
* A project update that is canceled while it waits for the lock goes on without it
  as far as its clean-up. What a task has read of the project before the wait is old
  when the lock is got.
* A heartbeat decides by rows that it has read before it writes, while other
  instances start, stop and refresh them.
* A message of a job is acknowledged when it is in a queue in memory; the database,
  the workers and the receiver can fail on both sides of that moment.
* Events come in any order, some of them twice; two things announce their end; and
  the buffer gives up on events when it is full.
* A user's operation on the table waits for the API and for animation frames;
  batches of the stream, other clicks and failures come in between.
* A save of a workflow is many requests in parallel, derived from where the nodes
  were when the editor was opened, and it goes on when a counter that every
  operation has to maintain meets another.
* The connection is lost, the tab is hidden, a dialog is open: what comes meanwhile
  has to be remembered. Several tabs write the same keys of `localStorage`.

`hazards` in PROJECT.json lists each of these at its line.

## 2. Modules

| module | what it models |
|---|---|
| `DependencyGraph` | `dependency_graph.py`. A graph object is the set of its (table, key) pairs: `MarksOf` what a task adds, `BlockersOf` what it tests for. `Conflict` states the documented rules on pairs of tasks, independently of the tables. |
| `TaskManager` | the whole pass, step by step, with the API and the workers around it. |
| `MCTaskManager` | scenarios: a table with one record per task, capacities, groups. |
| `WorkflowRun` | abstract: what `docs/workflow.md` promises of a workflow job, without passes, rows or workers. |
| `WorkflowEngine` | `dag_workflow.py` and the workflow half of the pass; shown to implement `WorkflowRun`. |
| `MCWorkflowEngine` | a forest with every kind of edge, a fork and a chain. |
| `ProjectSync` | the working copy of one project on one node: `RunProjectUpdate` and the tasks that use the copy. Uses the rules of `DependencyGraph` to say what the scheduler starts. |
| `ClusterHeartbeat` | the rows of the instances, and `cluster_node_heartbeat` on each of them. |
| `CallbackReceiver` | the messages of one job from the runner's `dispatch` to `callback_worker`. |
| `EventLog` | abstract: what the stream of a job's output promises to the page. |
| `OutputConstants` | the sizes of `features/output/constants.js`. |
| `OutputStream` | `stream.service.js`; shown to implement `EventLog`. |
| `OutputWindow` | `render.service.js`: operations that take a window (`head`, `tail`, records, rows) and give the next. |
| `OutputPages` | the page mode: a finished job, `page.service.js`, `api.events.service.js`. |
| `OutputViewer` | the output page of a running job: `index.controller.js` with the stream, the window, the slide and the scroll service. |
| `JobStatus` | `status.service.js`. |
| `WorkflowMaker` | the workflow editor, and the part of the API that accepts or refuses its requests. |
| `LiveUpdates` | `socket.service.js` and the list of jobs. |
| `ConsoleSession` | the session in the tabs of one browser. |
| `MCComponents` | an instance with all of these, from `ProjectSync` on. |
| `TaskManager_proofs`, `TaskManagerRules_proofs`, `TaskManagerUpdates_proofs`, `TaskManagerPlacement_proofs` | theorems about the task manager: types; the blocking rules; updates on launch; where tasks are placed. |
| `WorkflowEngine_proofs`, `OutputStream_proofs`, `OutputViewer_proofs` | theorems about the modules of those names; `OutputViewer_proofs` also holds the lemmas about `OutputWindow` and the theorems about `OutputPages`. |
| `Components_proofs` | theorems about `LiveUpdates`, `ConsoleSession`, `ProjectSync` and `WorkflowMaker`. |

### TaskManager: state and steps

`row` is the committed table; `tx` and `links` are the rows and the
`dependent_jobs` links that the open transaction has written. The pass reads its
own writes (`View`), everybody else reads `row`, and waits for the commit before
writing a row that the pass has written (`Unlocked`, a row lock). `worker` says
where the celery task of a row is: in the `outbox` of the `on_commit` hooks,
`queued`, in a `playbook`, or `stopping` because the cancel flag was found set.
`errors` are the error callbacks that have not run.

| action | code |
|---|---|
| `Launch`, `Cancel`, `EnableUpdateOnLaunch` | `signal_start`; `UnifiedJob.cancel` with its chain; a user edits a source |
| `WorkerStart`, `WorkerFinish`, `WorkerCrash` | the two ends of `BaseTask.run`; the death of a worker |
| `HandleWorkError` | `handle_work_error`, in the order celery likes |
| `BeginPass` | the reaper, `get_tasks`, the ends of workflow jobs, `calculate_capacity_consumed`, `process_running_tasks` |
| `GenerateDependencies` | `generate_dependencies` for the oldest pending task |
| `ProcessDependency` | one turn of the loop of `process_dependencies` |
| `ProcessPending` | the rest of the body of `process_pending_tasks` |
| `Commit`, `PassFails` | the end of the transaction, either way |
| `Dispatch`, `DispatchCrash` | one `post_commit` hook; the process dies before the others |

What is abstracted:

* Time. Creation times are small integers, three apart so that the dates of
  dependencies fit in between. The answer of a cache timeout is left open
  (`expired`), which also covers the special case for timeout 0. The 60 seconds
  after which a waiting task may be found lost are left open; a message that
  stays queued longer is the fault `slow_queue`.
* The verdict on a running workflow job (`Verdicts`): that is WorkflowEngine.
* A group's consumed capacity is the *set* of tasks charged to it. The code adds
  numbers; the pass never charges a task twice to a group, so the sums agree.
* The project sync that a job runs itself (`job_type='run'`) has no row:
  `get_tasks` ignores it.
* A task submitted to celery a second time while its first run goes on is
  followed by its last submission only.
* The read and the write of one cancel are one step. Splitting them is the next module
  of the plan. The end of a run is one step too, but the flag, which `BaseTask.run` reads
  in a transaction before the one that writes the final status, may be seen or not
  (`FinalStatuses`).
* Which sources a callback has updated before it launches a job (so that the pass skips
  them) is a constant, `AlreadyUpdated`; in the run `rules` both jobs are of this kind.
* Instances do not change capacity or group during a behaviour.

### WorkflowEngine: state and steps

The row of a node is the row of `node.job`; status `none` means that the node has
no job. `templates` are the nodes whose `unified_job_template` is not null. One
pass is `Schedule` (reaper and reads), `ProcessFinished`, `SpawnJobs`,
`ProcessTasks`, `Commit`; which pending tasks are started is left open, since
blocking and capacity are TaskManager's subject. The two walks are `Visited`, the
least set that has the roots and the followed children of its members, with the
set of nodes at which a walk stops: `bfs_nodes_to_run` stops nowhere,
`is_workflow_done` at nodes without a template.

`worker` says what celery does with the job of a node. The end of a run is two steps, as
in `tasks.py:1071-1081`: `JobEnds` looks at the flag for the last time and keeps the status
that is to be written in `worker`, `JobFinishes` writes it. A cancel that is committed in between
leaves a job with its flag set and the outcome of its playbook; the pass may read either row, and
the worker may die there (`WorkerCrash`). `StoppedJobsEndCanceled` is therefore
about jobs that are told to stop before the first of the two.

### ProjectSync: state and steps

`progress` says how far a task is, `process` what its worker holds in memory: the
cancel flag of the project update, how the update ended, the revision in the object
that created it (`read`), in the one that its own run has loaded (`cached`), and the
one that a checkout has fetched (`got`). `holders` is who has the file lock;
`files`, `revision`, `lastRevision` and `recorded` are the working copy,
`Project.scm_revision`, `scm_last_revision` of the sources and `Job.scm_revision`.
A task and the project update that it runs itself share one entry: the row of the
latter belongs to nobody else.

| action | code |
|---|---|
| `StartTask` | the scheduler, reduced to its blocking rules |
| `CreateSync`, `JobGoesOn`, `ImportGoesOn`, `FailsWithSync` | `pre_run_hook` of `RunJob` and `RunInventoryUpdate`, before and after the project update |
| `EnterRun` | `BaseTask.run` up to the lock; the project is loaded here |
| `Acquire`, `GiveUp`, `LockFails` | the three ways out of `acquire_lock` |
| `EndCheckout`, `Release`, `SaveRevision`, `FinishCheck` | the playbook of an update, and `post_run_hook` |
| `SkipFollower`, `StartImport`, `EndImport` | one turn of `_update_dependent_inventories` |
| `CancelUpdate`, `WorkerDies`, `Reap`, `Push`, `EditInventory` | users, faults, the reaper, the repository |

One project on one node; its branch and its list of playbooks, the other columns of
the row, and the difference of `error` and `failed` are left out. A pass may have
read its tasks before the update of a follower was created, so those do not block.

### ClusterHeartbeat: state and steps

`row` is the table of instances: capacity (some or none), `enabled`, the version, and
for `modified` its age in minutes, which `Tick` counts up to what `is_lost` can tell
apart. `beat` is what a heartbeat has read: its own row, whether a newer version is
about, which instances are lost. `deprovisions` is the setting
`AWX_AUTO_DEPROVISION_INSTANCES`; both values are explored.

| action | code |
|---|---|
| `Tick` | a minute passes and celery beat sends the heartbeats; one still in the queue has expired |
| `Reads`, `Writes`, `MarksLost` | the three parts of `cluster_node_heartbeat`: the rows are read, the own row is written, the lost instances are marked or deleted one by one |
| `StopsForNewer`, `Stops`, `Crashes`, `StartsUp` | `stop_local_services`, a normal shutdown (`inform_cluster_of_shutdown` in both), a death, `celery_startup` |
| `UserEdits` | `InstanceDetail.update` |

Only through capacity 0 does a dead node leave the pass, and only so does the reaper
fail the tasks that it had, although its celery does not answer: this is the
assumption about instances that TaskManager makes. Policies, isolated instances and
the computation of the capacity are left out.

### CallbackReceiver: state and steps

A message is its number; the last one is EOF. `hand` is the message of `process_task`
with the queues that are still to be tried; `queue` and `work` are what the workers
have; `orphans` is what workers of a stopped receiver still handle after their
signal. `handled` and `dropped` are history: a message can be in both, since it can be
delivered twice.

| action | code |
|---|---|
| `Dispatches`, `JobFinishes` | `CallbackQueueDispatcher.dispatch`, with the retry that sends twice and the loss after the last one; the end of `BaseTask.run` |
| `Takes`, `Puts`, `QueueFull`, `Acks` | `process_task` and `write_queue_worker`; five seconds per full queue |
| `Gets`, `WorkerHandles`, `OrphanHandles` | the loop of `callback_worker`: a save, a retry, a refusal; EOF looks for the end of the job, and any error ends that without a retry |
| `ReceiverStops`, `ReceiverStarts` | `shutdown_handler`, also called by a worker that has lost the database; supervisor |

There is one receiver. The death of a single worker process, which the parent does not
notice, is left out: its queue would be waited for until the receiver is stopped.
`OutputStream` starts where this module ends: what is saved is sent over the
websocket, so that events come twice and in another order is what its `copies` assume.

### The output page: state and steps

`OutputStream` keeps the fields of the service under their names (`rx`, `min`, `max`,
`ready`, `total`, `framesPerRender`, `ending`, `ended`, `overflow`), the tasks on its
chain of promises, and `frames`, the batch that the page is showing. `copies` are
the events that the websocket still has. `delivered` and `upTo` are history, and
with `FinalCounter` and `ended` they are the variables of `EventLog`. An event is its
counter; the counters start with 1 and have no gap, and `playbook_on_stats` may have
any of `StatsCounters`, or there may be none.

`OutputWindow` has no variables. A record stands for an event or for a run of
missing ones; the HTML of a record is one row, or none for `playbook_on_start`. The
arithmetic of the code is kept where it is unusual (`popBack` over `count + 1`
counters, `slice(-0)`). `OutputPages` has a window and the page service; an operation
is one step, because the scroll service is paused and nothing else touches the window,
and `answered` says which of its requests fails.

`OutputViewer` puts stream and window together. Each click is a step up to its
request (`Click`), each answer one (`Answered`), `onFrames` two, before and after the
animation frame. Where the code asks for the scroll position, both answers are
possible. The events API answers with what is stored then. Left out: search, details,
collapsing, `showMissingEvents`, debug mode.

### The other console modules

* `JobStatus`: the job moves and its playbook writes events; each of these sends a
  message, and messages arrive in any order. `StreamStops` is `onStop`; `SyncReads`
  and `SyncArrives` are the two ends of the request of `sync`. Counts and times are
  left out but for whether there is a time.
* `WorkflowMaker`: `Draw` is one operation of the editor (`startAddNode`,
  `startEditNode`, `confirmNodeForm`, `confirmDeleteNode`, `closeForm`); a save
  goes through the phases of `saveWorkflowMaker`: new nodes are posted level by
  level, then disassociations, edits and deletions in parallel, then
  associations. `Recurse` is the walk of `recursiveNodeUpdates` from a visit on: it goes on
  when a posted node is answered, and the visit at which the count meets `totalNodes` calls
  `completionCallback` and goes no deeper. `requests` carry the number of the call
  that sent them (`round`), as a count that is changed may be met more than once.
  `Accepted` is what the API checks (`is_valid_relation`), on the
  edges that the database has when a request gets there.

  Nothing in the code keeps the user from drawing, or from closing the dialog, while a save
  waits for its answers, and nothing does in the model: `Draw` may change the tree in the
  phase `saving` too (`MaxLate` times), and the walk then reads the changed tree; a node that was
  deleted meanwhile is still visited when its POST is answered, with the children that it had
  (`removed`). `drawn` and `disturbed` are history: the tree that the save was begun with, and
  whether the tree or the count was changed while a node was being posted. The
  properties are about saves that were not disturbed. For the others TLC finds, when
  `~disturbed` is dropped from them: for 1 -> 8 (new) -> 2, when 1 is deleted while 8 is posted,
  the answer for 8 meets the smaller total and the dialog closes without the edge from 8 to 2; when
  a node is added or confirmed, the count never meets the total, and the save never
  ends although no request failed; and when a node is deleted whose child's association has been
  collected, the API gets an association with a node that is gone. Changes in the later
  phases do no harm, which is a part of what is checked and proved.

  Templates and prompts of a node and the layout are left out, and with them the request for
  the template that `startEditNode` waits for before it offers edge types; a save can be made
  once per opening, since what a second one would repeat is not a protocol but a defect (see the
  hazards).
* `LiveUpdates`: the socket with its reconnections, `emit` with its timer, pages that
  subscribe and pages that do not, hiding and showing the tab, the list of jobs with
  its launch dialog. `unread` is history: a message has come since the jobs were last
  asked for.
* `ConsoleSession`: two clocks, of the tabs (`left`) and of the API (`alive`), that
  run together; a request is sent (`Call`) and answered (`CallAnswered`) with the clock
  in between; a logout is a page, a request and an answer or a failure. `Navigate` is the start
  of a page transition: `app.js:331` looks at the timer, which moves it forward and sets the flag
  of the login, although a page such as About, whose configuration is cached, asks the API for nothing.
  `quiet` counts these since the API has last answered.

## 3. Runs

| run | question and result |
|---|---|
| `rules` | Do cancels, two groups and concurrent workers break the blocking rules? No: `PassRespectsRules` (nothing a pass starts conflicts with what was active or with what it starts), `MutualExclusion` (no two playbooks run that must not). |
| `dependencies` | Updates on launch for two jobs, with crashes of the pass and an inventory source that begins to update on launch at any moment: updates come first (`DependenciesFirst`), at most one of a resource per job (`UpdatesBounded`), jobs start in order (`ChronologicalOrder`). A command for an isolated group whose controllers are down exercises that refusal. |
| `placement` | `CapacityRespected` and `IsolatedTasksOnly` with two groups that share an instance and an isolated group. |
| `progress` | `PendingIsServed`, `SubmittedFinishes`, `OneWorkflowPerTemplate` under crashes of workers and of the dispatch, and a queue slower than the reaper. |
| `run` | The engine implements `WorkflowRun`, and a workflow job that runs ends. |
| `cancel` | Cancels of the workflow job and of its jobs and deletions of templates: `RightPath`, `NoJobWithoutTemplate`, `RunningJobsAreStopped`, `StoppedJobsEndCanceled`. |
| `siblings` | **violated**: `handle_work_error` marks a sibling update failed while it runs. |
| `wedge` | **violated**: an inventory source that never ran makes every pass raise an exception. |
| `lostcancel` | **violated**: the pass writes over a cancel. |
| `canceledspawns` | **violated**: a canceled workflow job spawns its next nodes. |
| `parts` | The components that share no state with others, each on its own. See below. |
| `revisions` | **violated**: a job runs on files of another revision than it has recorded. |

`parts` is one run for ten state machines, because they share no variable: the
initial state chooses one (`part`), the variables of the others rest. The product is
not explored, nor would it show anything. A property that only makes sense when its
part is chosen says so (`part = "..." => ...`); the others hold at rest too. At rest no
step is enabled that fairness asks for, so the fairness of a part does not exclude
behaviours of another.

| part | what happens in it | what is shown |
|---|---|---|
| `stream` | every order of four events and the summary, one of them twice | `StreamInv` (nothing twice, nothing behind the threshold, no silent hole), `ImplementsEventLog`, `HolesOnlyByOverflow`, `StreamEmpties` (at the end at most the newest event is held back) |
| `viewer` | the same four events under a page opened early or late, with all operations of the user and failing requests | `OneRendering` (the stream and the user never write the rows together), `ScreenInOrder`, `TableBounded`, `LockedWhileFollowing`, `ViewerPauseEnds` |
| `pages` | all ways through four pages with gaps | `PagesInOrder`, `JumpsReload` (a jump shows all events of its pages) |
| `status` | messages in all orders, with and without stats, hosts that fail | `JobStatusConverges` |
| `maker` | every workflow of two nodes, every way to add a third, to edit, delete and save, with failing requests and one change, or a close, during the save | `NothingRefused`, `SavedAsDrawn`, `SaveEnds` |
| `updates` | two losses, two failed attempts, three pages, two changes, a hidden tab | `SubscriptionSettles` (the server sends what the page needs), `NothingForgotten` |
| `session` | two tabs, sessions of two ticks, page transitions without requests, logouts that fail | `ClosedSessionLeft` (no tab stays in a session that is over), `TimerWithinSession` (the tabs' time passes the API's only by such a transition) |
| `tree` | a project update, a job and the update of a follower, with pushes, cancels, deaths | `OneCheckout`, `WaitsEnd` |
| `cluster` | two instances, two releases, three disturbances: stops, crashes, starts, edits, a late minute | `CapacitySettles`: in the end an instance has capacity exactly when it is up and enabled |
| `receiver` | two events and EOF, two workers, two faults: of the broker, the database, the receiver | `EventsSettle`: every message is handled or given up in a way that the code knows |

### What the violations show

* *siblings.* A job needs a project update and an inventory update; each has the
  other in its fail chain. One fails; its callback sets the other to `failed`
  although its playbook is running. The scheduler no longer sees it as active
  and starts something that conflicts with it.
* *wedge.* `should_update_inventory_source` answers False as soon as the job has
  dependent jobs, before it looks whether there is a latest update;
  `generate_dependencies` then reads the status of `None`. This needs a job that
  is still pending after its dependencies were generated, and a source of its
  inventory whose `update_on_launch` is turned on meanwhile and that never ran.
  The exception leaves the pass, the transaction is rolled back, and the next
  pass meets the same state.
* *lostcancel.* The task is read, the user cancels it, the pass saves the object
  it read: `cancel_flag` is False again and the job is submitted.
* *canceledspawns.* `_schedule` gives the list of workflow jobs that it has just
  canceled or finished to `spawn_workflow_graph_jobs`.
* *revisions.* The update of an inventory source that is kept in a project loads the
  project at revision 1 and waits for the lock, since the blocking rules let it run
  beside an update of the project. That one moves the project to revision 2. A job
  starts, syncs, records revision 2, releases the lock and runs its playbook. Then
  the waiting sync gets the lock and checks out revision 1 under it.

Other places where code and documents do not meet, seen while modelling and not
given a run of their own. A task that cannot be isolated can land on an isolated node:
the loop over the preferred groups of a task keeps the idle instance that it finds first
(`task_manager.py:505`) when it goes on to the next group, and `start_task` asks for the
controller of the group it ends up with. A project update that prefers an isolated group
and then an ordinary one, when the isolated group has no capacity left (its controller
runs another project update, charged to it) although its node is idle, and the ordinary
group's own instance does not take the task, is sent to the isolated node itself; TLC finds
this in a table of two project updates, which is why `IsolatedPlacement` below assumes
that such a task does not prefer groups of both kinds. A job can be overtaken by a later
job that asks for the same: both are too large for what is left, the first is passed
over, a playbook ends while the pass goes on, and the second finds an idle instance
(`ChronologicalOrder` fails in a table of two jobs of impact 3, a command and an instance of
capacity 2, and is checked where there is room for all). The reaper may fail a task that is only queued for more
than a minute, which the worker later runs, so `MutualExclusion` and
`CapacityRespected` are checked without `slow_queue`; a dependency that fails lets
its job run if the next pass comes before the error callback; an idle instance is
chosen without looking at `enabled`, and from a group other than the one the task
is recorded in; `is_workflow_done` ignores what is below a node whose template
was deleted, although `bfs_nodes_to_run` does not, so a workflow job can end
while such a job runs; `cleanup_jobs` deletes jobs of active workflow jobs and
their nodes look as if they had never run. In the console: a click on "go to end"
while the scroll service is paused makes the page follow without going to the end;
without stats the status of a job becomes `unknown` until `sync` answers, because
the last event is looked up where it is not kept; and when the first event's
neighbours cannot be loaded, no later event is shown. On the page of a finished job
`popFront` takes one counter more than it is asked for (its loop is `i >= min`), so each page on
the way up moves the tail of the window one event further below the pages that are
loaded. When the tail is a whole page too low, `pushBack` takes the events of
the previous page for newer ones and puts them above the rows *and* in the wrong order:
`PagesInOrder` fails with eight pages of two events, and with the sizes of the code it is proved
for up to 256 pages (12,800 events; see `PagesKeepTheirOrder`). In the cluster: the heartbeat
of a disabled instance never refreshes its row, so that it never marks others
(`CapacitySettles` asks for an enabled one), and where instances are deprovisioned
automatically its peers delete its row and it registers again, enabled. In the
receiver: a comment at the notifications of EOF says "when we've processed all events",
but EOF goes to a worker of its own and may overtake events of the others; and when the
job takes more than five seconds from the end of its output to its final status, its
notifications are not sent.

### Bounds, and why they are enough

* `rules`: four tasks. Every rule is about two tasks; with two jobs of one
  template, one project update and one inventory update each rule about jobs and
  updates has both of its parties, in both orders, across two groups. System jobs
  and commands use the same mechanism; `progress` and `dependencies` have them.
* `dependencies`: two jobs that may run at the same time (so that the second one's
  updates are held up by the first and nothing but its links holds the second)
  and three spare rows for each kind of update: one more
  than the jobs can need, so that `UpdatesBounded` can be violated. Outcomes are
  successful only, because of *siblings*.
* `placement`: four tasks, four instances with capacities 3 and 2, tasks of impact
  1, 1, 3 and 1: instances with room for one more, tasks that fit one instance
  only, and a task larger than its instance (the idle case) all occur.
* `progress`: a system job of impact 5 on instances of capacity 3 and 2, a command
  that always fails its pre-start check and two workflow jobs of one template.
* `run`: seven nodes in three trees: every kind of edge, three levels, a leaf
  without a template and one that cannot start. `cancel`: four nodes in two
  branches, since cancels and deletions multiply the states.
* Each task is launched at most once. No other counter grows.
* `parts`, output: four events (`LastEvent`) and a buffer of two (`MaxBuffer`), so
  that it overflows, with and without a hole below; two frame rates (`EventLimit` 2 has
  the factors 1 and 2) that a chain of four (`MaxLag`) reaches; two events per page
  (`PageSize`), so that a batch may end inside a page; a page opened before and after
  the middle of the job. `Stored` are eight counters out of ten with two gaps, and one of
  the eight has no lines (`Silent`); they make four pages of which two are kept
  (`PageLimit` 1), so that both ends are trimmed and come back.
* `parts`, editor: two old nodes and a new one: root and child, siblings, a chain, a
  node inserted between two others, a child that moves up, deletion and addition in
  one save. `MaxLate` 1: one change in the middle of a save is enough for each of the failures
  above (0 in `revisions`, where the editor rests).
* `parts`, session: `MaxQuiet` 2, so that two page transitions, of one tab or of both, may follow
  each other before the API answers. With transitions for ever and no answer the tabs never look
  expired, and `ClosedSessionLeft` would be false, as it is of the code.
* `parts`, updates and session: `MaxVisits` 3 so that a page is left and come back to;
  `MaxLosses` 2 and `MaxAttempts` 2 for a connection lost again while it is being made,
  and for one that is given up; two tabs, because what a tab does to another is
  pairwise; `Timeout` 2, the least for which a clock can be between its ends.
* `parts`, cluster: `Grace` is the 120 seconds in minutes; two instances, since one
  marks another; `MaxUpsets` 3 lets one crash, come back or be edited, and be late, in
  every order; `MaxVersion` 2 for a newer and an older release.
* `parts`, receiver: three messages and queues of one (`MaxQueueSize`), so that all
  queues are full with one in hand and another taken; `MaxFaults` 2 with `MaxRetries` 1 is
  enough for a save that fails for the last time, and for a message that comes twice
  before the receiver stops; `MaxPolls` 2.
* `parts`, tree, and `revisions`: one task of each kind that takes the lock, and two
  revisions after the blank one.

`parts` does not check for deadlock: a part that is at its end (the job is shown, the
dialog is closed, the tasks are done) stops. What must not stop is stated as
liveness. The other passing runs check it: a pass can always begin.

### Fairness

`FairSpec` of TaskManager: weak fairness of the pass (celery beat starts one every
30 seconds and every launch and end of a job starts one; the advisory lock makes
the others return at once) and of the workers together (queues are consumed, a
playbook ends or is canceled); strong fairness of a pass in which the reaper has
an answer from every node, and of one in which a workflow job is found ended,
because these need a condition that comes and goes between passes. No fairness
for users, crashes and faults. `SchedulerStep` counts an exception in the pass as
a step: it is the code's own doing. `FairSpec` of WorkflowEngine: the same, and
strong fairness of starting all pending tasks, which stands for TaskManager's
`PendingIsServed`.

The console. Weak fairness stands for the event loop of the browser: promises and
animation frames run (`StreamFairness`), requests are answered or fail
(`ViewerFairness`, `MakerFairness`, `SyncDone` in `StatusFairness`), timers fire
(`UpdatesFairness`, `SessionFairness`), the clock of a session ticks. `StatusFairness`
also lets the job move on and its status messages arrive: `status.service.js` has
nothing else to go by. There is none for the user, for events, for losses of
the connection, nor for the success of a request: where a request may fail, the
fairness is of "answered or failed".

`SyncFairness`: each process goes on with what it is doing (weak fairness of
`UpdateStep`, per task). `acquire_lock` tries once a second, so a free lock can be
taken from a waiting task again and again; it is not strong fairness that makes
`WaitsEnd` hold but that each of the finitely many tasks takes the lock once.
No fairness for cancels, failures and deaths.

`HeartbeatFairness`: celery beat ticks, and an instance that is up handles its
heartbeat. `ReceiverFairness`: the runner, the parent and each worker go on, a worker that
was told to stop handles what it has, a SIGINT arrives, and supervisor starts the
receiver again (`autorestart` in `installer/`). Errors and stops are not fair and bounded
in number: the promise is about what happens after them.

## 4. Proofs

All with Z3, Zenon and LS4 as TLAPS calls them; the assumptions are the named
ASSUMEs of the modules (finitely many tasks, events and nodes, functions with the right domains and
ranges, sizes that are positive numbers), which TLC evaluates on every instance.

* `TaskManagerRules_proofs`, `TablesExact`: what one task marks blocks another one if, and only
  if, the two are in `Conflict`, or in one of the cases of `AlsoBlocks`: what the tables forbid beyond
  the document. (Commands wait for commands and inventory updates of their inventory, in one
  direction only; templates without simultaneous runs wait even for a job that allows
  them.) `UnblockedDoesNotConflict` turns completeness around: a task that a graph does not
  block conflicts with no task whose marks the graph holds.
* `TaskManager_proofs`, `TypeCorrect`: `Spec => []TypeOK`. `TypeOK` is nearly inductive;
  the strengthening `TypeInv` adds what the types of later reads rest on.
* `TaskManagerRules_proofs`, `PassRespectsTheRules`: `Spec => []PassRespectsRules`.
  The property is not inductive: whether a task may be started is decided by the
  graphs, so the invariant has to say what the graphs hold. `RulesInv` is the
  conjunction of
  * `TypeInv`,
  * `Placed`: a task (not a workflow job) that is active, or that celery still
    holds, has an instance group, and celery holds nothing for a pending one;
    without it `process_running_tasks` would mark nothing for a task that a
    worker sets running,
  * `AllMarked`: the marks of every running task of the snapshot and of every task
    that the pass has started are in the graph of some group,
  * `PassRespectsRules`.

  `BeginPass` establishes `AllMarked` from `Placed`; `ProcessDependency` and
  `ProcessPending` keep it because `TryStart` marks before it starts; and
  `PassRespectsRules` then follows from `UnblockedDoesNotConflict`, since a task is
  started only when no graph blocks it. Nothing is assumed about the number of
  tasks, groups, instances or links, nor about which faults happen: cancels,
  crashes and failed siblings included.
* `TaskManagerRules_proofs`, `WorkflowsOfATemplateTakeTurns`:
  `Spec => []OneWorkflowPerTemplate`. The property is about `View`, and a pass that
  fails takes back what it wrote; so `WorkflowInv` says it of the committed rows too
  (`RowsExclusive`). That `running_workflow_templates` forgets nothing
  (`RunningRemembered`) holds because only `BeginPass`, which reads them all, and
  `StartWorkflow`, which adds its own, ever face a running workflow job: no workflow
  job is with celery, and none is a dependency of another task.

* `TaskManagerRules_proofs`, `PlaybooksRespectTheRules`: `Spec => []MutualExclusion`, if
  `slow_queue` is not in `Env`, and if nothing fails or is canceled (`NothingFails`)
  unless nothing is updated on launch (`NoUpdatesOnLaunch`); so cancels and failures are
  covered where tasks have no dependencies. It is not a consequence of
  `PassRespectsRules`, which is about what the pass *saw* active. `MutexInv` ties the two:
  a task that celery has, or is about to get, and that will run its playbook has an active
  row which the pass has not written (`HeldRows`), is among the running tasks of the pass
  (`HoldingSeen`), and conflicts with no other one (`HoldingApart`). Both assumptions
  are needed: with a slow queue TLC finds a playbook that starts after its row was
  failed and its place taken; with failing updates it is the run *siblings*.
* `TaskManagerUpdates_proofs`, `UpdatesBeforeTheirJobs`: `Spec => []DependenciesFirst`, if
  `NothingFails` and `slow_queue` is not in `Env`. `LinksInv` says of each job that celery
  has that all its dependent jobs, in the table and in what the pass sees, have ended; a
  link is only ever added to a job that is still pending. TLC refutes the property with
  cancels, with a slow queue and with failing updates, each of which
  lets a row end before its playbook does.
* `TaskManagerUpdates_proofs`, `UpdatesAreBounded`: `Spec => []UpdatesBounded`, in any
  environment. No pass counts the updates; that they are bounded
  rests on dates. Every created update is dated one or two ticks before a launched job
  and linked to it, no two jobs are launched at the same tick, and a job with links gets
  no further ones (`UpdatesCaused`, in the table and in the view, because a rolled back
  pass takes both the row and the link back). So two updates of one resource map to different jobs, and
  the bound is an injection (`FS_Injection`).
* `TaskManagerPlacement_proofs`, `LoadsRespectCapacity`: `Spec => []CapacityRespected`, for
  any groups, however they share instances, and any impacts and capacities, if neither
  `cancel` nor `slow_queue` is in `Env` and nothing is updated on launch or nothing fails. `LoadInv` keeps the load of every
  instance admissible in the table and in the view of the pass at once; as no row becomes active outside
  the pass, what workers commit in between only makes a load smaller (`SmallerLoad`), and
  what the pass submits fits (`ChosenHasRoom`). Each assumption is needed: a canceled
  waiting task gives its room away and is `running` once more, without a playbook, when
  the worker that takes it from the queue finds out; the two others let a row end before its playbook.
* `TaskManagerPlacement_proofs`, `IsolatedPlacement`: `Spec => []IsolatedTasksOnly`, in any
  environment and with any capacities, if no instance is in an ordinary and in
  an isolated group and controllers are ordinary (`GroupsApart`, which `docs/clustering.md`
  asks for), and if no task that cannot be isolated prefers groups of both
  kinds (`PreferencesApart`, which nothing guarantees: see above).


* `OutputStream_proofs`: `StreamInvariant`, `HolesByOverflow` and
  `StreamImplementsEventLog`, for any number of events, any sizes and any order of
  arrival. `StreamInv` is inductive and all three rest on it. Its heart is that
  `upTo < min`, with the buffer above `upTo` and all that was handed over at or
  below it: so a batch never goes back. The end rests on the conjunct that a last
  batch has reached the final counter, and the absence of holes on
  `min .. ready \subseteq rx` unless the buffer has overflowed. `ReadyUpToTheFirstHole`
  is the lemma about `ReadyCounter`, whose minimum over the missing counters needs
  `MinOfCounters`.
  `StreamIsEmptied` (`NothingHeldBack`, which the run `parts` checks as `StreamEmpties`) needs
  more, `HeldInv`: an event that is neither on the wire nor on the chain, and that the
  stream has not passed over, is in the buffer, and once nothing is to come the
  threshold has reached the last event.
* `OutputViewer_proofs`: `RowsHaveOneWriter` and `ScrollBarGivenBack`. `OneRendering`
  is not inductive; `ViewerInv` says what keeps the two apart: an operation that waits
  for the API has paused the scroll service *and* locked the frames, and a batch on
  its way to the rows has paused it too, so that no operation can begin.
* `OutputViewer_proofs`: `RowsKeepTheirOrder` (`ScreenInOrder`) and `TableStaysBounded`
  (`TableBounded`), for any number of events, any gaps and any sizes with
  `PageSize <= EventLimit` (`OUTPUT_EVENT_LIMIT` is `OUTPUT_PAGE_LIMIT` times
  `OUTPUT_PAGE_SIZE`; without it the first page would be larger than the table).
  The first half is about windows only. `Tidy` strengthens
  `InOrder`: the records follow each other as their counters do, a marker lies between the
  records around it and is shared only by neighbouring counters, and the rows are some
  of the records in that order. `popBack` and `popFront` move
  `head` by the number of records that they empty, not by that of counters, and take as many rows:
  that the rest stays tidy needs a count of how many records and rows the popped
  counters can have (`FewRecords`, `FewRows`, both by an injection).
  `PushFrontLoads` and `PushBackLoads` are about a fold over events, one after the other;
  `FoldExists` and `FoldsAgree` justify the recursion, and a smallest set of events after
  which the window is not tidy takes the place of induction.
  The second half, `PageInv`, is about what is computed before a wait and used after it:
  the number to pop that `onFrames` has worked out still is the one that its events need
  (`Fits`), and what `previousRange` has asked for still lies before `head` (`Asked`). Both
  hold only because `OneRendering` does.
* `OutputViewer_proofs`: `PagesKeepTheirOrder` (`PagesInOrder`),
  for any stored events with any gaps and any sizes, if the job has at most
  `PageLimit * (PageSize + 1) + 1` pages (`FewPages`): 256 with the constants of the code. The pages
  do not know where the window stands: what is popped is a number of *counters*, what
  is pushed goes above or below by comparing counters. `PagesInv` ties them together.
  The window is tidy, and either it was filled from above (`High`: its tail has lagged behind
  the last loaded page by at most one event for every page given up, `Slack`), or
  from below (`Low`: every event of a page before the loaded ones is before its head).
  `FullPages` counts the events of the pages below, so that a lag of fewer counters than a page
  has events never hides a page (`PageReached`). `FewPages` is where the lag is bounded; it is sufficient, and
  TLC shows that some bound is needed (see section 3).
* `OutputViewer_proofs`: `JumpsReloadThePages` (`JumpsReload`), for any number of pages: a jump also puts
  right a table whose order was lost. `clear` deletes the records from `head` to `tail` only, and the
  render service skips events that it has a record of, so what has to be shown is that no
  record is ever outside these two, in whatever order events were put there. That is `Contained`,
  which every operation keeps for any arguments (`AppendContained`, `PrependContained`,
  `PopBackContained`, `PopFrontContained`); a gap that is filled before its event
  may leave `head` and `tail` behind, and `Filled` says that the event then catches up.
* `Components_proofs`, list of jobs: `NoMessageForgotten`, for any bounds. `UpdatesInv` adds to the
  property that only the list of jobs has something unread, and that while it is
  being loaded this can only be for messages that a hidden tab has put off.
* `Components_proofs`, session: `TimerWithin`, for any number of tabs and any timeout.
  `SessionInv` adds that nothing is left for longer than the timeout, so that every
  answered request puts the API's clock ahead of the tabs'; each other step that moves
  the tabs' clock leaves a tab that waits or leaves, or is a page transition and is counted in `quiet`.
* `Components_proofs`, sync lock: `OneProcessWorks`, for any number of tasks and followers. `LockInv`:
  whoever works is the only holder of the lock. The way around the lock (`GiveUp` does
  not have it and still goes through `Release`) is where it could break.
* `Components_proofs`, editor: `SavesAreAccepted` (`NothingRefused`) and `SavesWriteTheDrawing`
  (`SavedAsDrawn`), for any finite sets of nodes, any workflow to begin with, any drawing and
  any order of the answers, failures included, and with any changes or a close of the dialog
  during the save, but for those that `disturbed` excludes: while new nodes are posted. `MakerInv`
  says `Drawn` of the phase `edit`, and `Saving` of every state that is not `disturbed`.
  * `Drawn` is about the tree before a save: its parents have smaller ranks, so there is no cycle (`IsTree`);
    the counter `totalNodes` is the number of nodes, which the save compares
    its own count with; and an old node stays somewhere below its parent of before as long as that
    one is there, with its edge type unless it is edited (`Over`, `Inherits`). The last is needed because
    the associations of a save meet a database in which old edges still stand, and an
    old edge must not close a cycle with the new ones.
  * `Saving` is about the tree that the save was begun with (`drawn`), of which `SavedTree` keeps what
    `Drawn` said. While nodes are posted, `Visited` says which old nodes the walk has come to, that what
    it has collected is what these and the answered new ones need, and that every subtree
    not visited yet hangs below a new node that has still to be answered. From this `AllVisited` concludes that the count
    meets the total exactly when all have been visited, with nothing left to post: so the walk completes once, and with
    everything. After that `First` and `Second` say which requests are on their way, which
    are done (`Asked`, `StillAsked`), and what the database has by then (`Cleaned`), none of which
    looks at the tree any more: that is why later changes do no harm.
  * `EdgeAccepted` is the point of it: when an association is made, all that stands in the database
    is edges of the drawing, so a second parent or a cycle would be one of the drawing.

  The recursive walks of the module (what a walk of the tree has visited, what is above a node
  in the database) are functions over numbers or sets; that they exist and stay within what they
  should is `GrowthExists` and `GrowthWithin`, each from a minimal counterexample.

* `WorkflowEngine_proofs`, for every forest of nodes, any missing templates and any jobs
  that cannot be started:
  * `OnlySelectedPaths`: `Spec => []RightPath` if `slow_queue` is not in `Env`. A job
    is right when it is spawned, because `SpawnJobs` takes what the walk reaches
    (`VisitedSelected`); it stays right only if the outcome of its parent is
    final. So `PathInv` adds that a node that was successful or failed is with no
    worker and not among the tasks that the pass may still start (`Held`), and that the
    path is right in what the pass sees as well (`ViewOnPath`). With a slow queue the
    theorem is false: the reaper fails a job that a worker takes later, its failure
    nodes are started, and the job runs after all. TLC shows it within seconds when
    the fault is added to the run `cancel`.
  * `EngineImplementsRun`: `Spec => ImplementsRun` if `Env` has nothing but
    `worker_crash` (`Calm`), as in the run `run`: the abstract run knows neither
    cancels nor templates that disappear. The hard step is `Commit`, where all that a
    pass has written becomes visible at once and must be one step of `WorkflowRun`.
    `RunInv` keeps what this needs: what the pass has given a job was selected by a
    committed outcome, and not by one that the pass itself has just written
    (`Written`, `Spawnable`); the engine has walked to every job (`Walked`); a pass
    that ends the workflow has left nothing to start, with the verdict that
    `WorkflowRun` defines (`Ending`); and nothing changes afterwards (`Over`).
    `DoneIsComplete` and `FailedIsFailed` relate the two walks of `dag_workflow.py` to
    the definitions of the document.

  * `TemplatesHoldWhatTheyStart`: `Spec => NoJobWithoutTemplate`, in any environment. The
    node row that a pass inserts keeps the template from being deleted until the commit
    (`InsertedWithTemplate`), and every task that is written outside of spawning has a
    job already (`JobsExist`).
  * `CancelReachesEveryJob`: `Spec => RunningJobsAreStopped` if `slow_queue` is not in `Env`.
    `HaltInv` says that once the pass sees the workflow job canceled, all jobs that run in its view,
    or that a worker could still take before the commit, carry the flag (`Told`): a queued task is
    waiting or already canceled (`Queue`), so none is overlooked. With a slow
    queue a job that the reaper has failed runs after all, and nobody has told it.

Sums over finite sets, as `TotalImpact`, are folds of the community modules. What is needed of
them (`TotalStep`, `TotalMonotone`, `TotalAdd`) is proved without induction, which would
need a theorem with an operator parameter: of the sets that refute the claim there
would be a smallest one (`SmallestSet`, from the well-foundedness of the strict subset
ordering), and it has an element to remove.

Model-checked only: the liveness properties (fairness and ENABLED are out of reach of the
prover); `ChronologicalOrder`, which is false where tasks have to wait for room (see
section 3) and would need a hypothesis about the whole table; `CancelIsKept`, whose run expects a violation.

## 5. Not modelled, and the plan

PROJECT.json lists every component with its status. The plan, in order:

1. `JobLifecycle`: one row at the granularity of reads and writes: `cancel`,
   `update_model` with its retries, the reaper, the API's relaunch; the questions
   are whether a terminal status is final and which writes are lost.
2. `apply_cluster_membership_policies` as an operator with a reference definition, and
   `awx_isolated_heartbeat`; ClusterHeartbeat composed with the reaper of TaskManager.
3. CallbackReceiver composed with `OutputStream`, whose websocket is its output; several
   receivers.
4. `PeriodicScheduler`, `RoleHierarchy`, `SettingsCache`, two editors of one workflow.

Proofs planned: `ChronologicalOrder` where every task has room.

Left out for good, in the backend: command lines, credentials, serializers,
authentication back ends and third-party inventory scripts: they keep no state
that several processes share. In the console: forms, lists, directives, routes, strings
and generated layout. They are most of its code by lines, and each of them turns
one answer of the API into HTML or one form into a request; nothing in them can come
in another order or fail half-way but the request itself. What the modules above
cover is the part of the console that keeps state between messages. Of that, these
are left: details and search of the output page, the host events, the dialogs that
warn of the expiry of a session, and the other lists, which handle messages as the
list of jobs does.

## 6. Running it

    tlc -config MCTaskManager_rules.cfg MCTaskManager
    tlapm TaskManagerRules_proofs.tla

    tlc -config MCWorkflowEngine_run.cfg MCWorkflowEngine
    tlapm WorkflowEngine_proofs.tla

    tlc -config MCComponents_parts.cfg MCComponents
    tlapm OutputStream_proofs.tla

`rules` (1.8 million states) takes about a minute, `parts` (650,000 states, with eleven
temporal properties) about two and a half.
