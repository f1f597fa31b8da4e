------------------------------ MODULE JobStatus -----------------------------
(***************************************************************************)
(* The status line of the output page (features/output/status.service.js). *)
(* It is put together from the status messages and the events that come    *)
(* over the websocket in any order, from the playbook_on_stats event when  *)
(* the stream has stopped, and from the job's row, which sync reads last.  *)
(***************************************************************************)
EXTENDS Integers

CONSTANT Expecting  \* values of isExpectingStatsEvent, by the type of the job

Complete == {"successful", "failed", "unknown"}
Incomplete == {"canceled", "error"}
Finished == Complete \cup Incomplete
Unfinished == {"pending", "waiting", "running"}
Results == Finished \ {"unknown"}
JobEvents == {"start", "line", "stats"}
Rows == [status : Finished \cup Unfinished, started : BOOLEAN]
NotAsked == [status |-> "none", started |-> FALSE]
Asked == [status |-> "asked", started |-> FALSE]

ASSUME ExpectingAssumption == Expecting \subseteq BOOLEAN

VARIABLES
    expecting,      \* isExpectingStatsEvent
    job,            \* the job's row: its status,
    begun,          \* and whether it has a time of its start
    ran,            \* the events that the playbook has produced
    sent,           \* statuses and events on their way to the page
    failing,        \* whether the stats count a failed or unreachable host
    view,           \* this.state: status, started, finished
    active,         \* a job event came
    latestTime,     \* some event gave a time
    statsEvent,     \* the playbook_on_stats event came
    onStop,         \* whether the stream has stopped: "no", "due" or "done"
    sync            \* the request of sync, then the row that it brings

server == <<expecting, job, begun, ran, failing>>
StatusVars == <<server, sent, view, active, latestTime, statsEvent, onStop, sync>>

StatusFrom(status) ==
    /\ expecting \in Expecting
    /\ job = status /\ begun = FALSE /\ ran = {} /\ sent = {} /\ failing \in BOOLEAN
    /\ view = [status |-> "pending", started |-> FALSE, finished |-> FALSE]
    /\ active = FALSE /\ latestTime = FALSE /\ statsEvent = FALSE
    /\ onStop = "no" /\ sync = NotAsked

StatusInit == StatusFrom("pending")

----------------------------------------------------------------------------
(* The server: the job moves on, and every status is sent; the playbook    *)
(* produces its events while the job runs.                                 *)
JobMoves ==
    /\ job \in Unfinished
    /\ job' \in CASE job = "pending" -> {"waiting", "canceled", "error"}
                  [] job = "waiting" -> {"running", "canceled", "error"}
                  [] job = "running" -> Results
    /\ begun' = (begun \/ job' = "running")
    /\ sent' = sent \cup {job'}
    /\ UNCHANGED <<expecting, ran, failing, view, active, latestTime,
                   statsEvent, onStop, sync>>

PlaybookRuns(event) ==
    /\ job = "running" /\ event \notin ran
    /\ event = "stats" => expecting
    /\ ran' = ran \cup {event}
    /\ sent' = sent \cup {event}
    /\ UNCHANGED <<expecting, job, begun, failing, view, active, latestTime,
                   statsEvent, onStop, sync>>

----------------------------------------------------------------------------
(* Setters; setJobStatus also fills in the times of a job without stats.   *)
(* Faulty variant: a late status may reopen a finished job.                *)
StatusOverwritten(v, status, time) ==
    LET ends == IF expecting THEN status \in Incomplete ELSE status \in Finished
    IN  [status |-> status,
         started |-> v.started \/ (ends /\ time),
         finished |-> v.finished \/ (ends /\ time)]

setJobStatus(v, status, time) ==
    LET ends == IF expecting THEN status \in Incomplete ELSE status \in Finished
    IN  IF v.status \in Finished /\ status \notin Finished THEN v
        ELSE [status |-> status,
              started |-> v.started \/ (ends /\ time),
              finished |-> v.finished \/ (ends /\ time)]

pushStatusEvent(status) ==
    /\ status \in sent \ JobEvents
    /\ sent' = sent \ {status}
    /\ view' = setJobStatus(view, status, latestTime)
    /\ UNCHANGED <<server, active, latestTime, statsEvent, onStop, sync>>

(* The stream stops some time after it has got the stats.                  *)
StatusJobEvent(event) ==
    LET opened == IF ~active /\ event # "stats"
                  THEN setJobStatus(view, "running", latestTime) ELSE view
    IN  /\ event \in sent \cap JobEvents
        /\ sent' = sent \ {event}
        /\ active' = (active \/ event # "stats")
        /\ latestTime' = TRUE
        /\ view' = [opened EXCEPT !.started = @ \/ event = "start"]
        /\ statsEvent' = (statsEvent \/ event = "stats")
        /\ onStop' = IF event = "stats" /\ onStop = "no" THEN "due" ELSE onStop
        /\ UNCHANGED <<server, sync>>

(* The summary of a job without stats, after its last event.               *)
pushSummary ==
    /\ ~expecting /\ "line" \in ran /\ onStop = "no"
    /\ onStop' = "due"
    /\ UNCHANGED <<server, sent, view, active, latestTime, statsEvent, sync>>

(* onStop: updateStats, then the request of sync.  The counter of the last *)
(* event is looked up in this.state, where it is not: without stats the    *)
(* status is unknown whatever the events said.                             *)
updateStats(v) ==
    IF statsEvent
    THEN setJobStatus([v EXCEPT !.finished = TRUE],
                      IF failing THEN "failed" ELSE "successful", latestTime)
    ELSE setJobStatus(v, "unknown", latestTime)

StreamStops ==
    /\ onStop = "due"
    /\ onStop' = "done"
    /\ view' = updateStats(view)
    /\ sync' = Asked
    /\ UNCHANGED <<server, sent, active, latestTime, statsEvent>>

(* The row is read, and later its status arrives.                          *)
SyncReads ==
    /\ sync = Asked
    /\ sync' = [status |-> job, started |-> begun]
    /\ UNCHANGED <<server, sent, view, active, latestTime, statsEvent, onStop>>

SyncArrives ==
    /\ sync \in Rows
    /\ sync' = NotAsked
    /\ view' = setJobStatus(
                   [view EXCEPT !.finished = @ \/ sync.status \in Finished,
                                !.started = @ \/ sync.started],
                   sync.status, latestTime)
    /\ UNCHANGED <<server, sent, active, latestTime, statsEvent, onStop>>

StatusArrives == \E status \in Finished \cup Unfinished : pushStatusEvent(status)
EventComes == \E event \in JobEvents : StatusJobEvent(event)
SyncDone == SyncReads \/ SyncArrives

StatusNext ==
    \/ JobMoves
    \/ \E event \in JobEvents : PlaybookRuns(event)
    \/ StatusArrives \/ EventComes
    \/ pushSummary \/ StreamStops
    \/ SyncDone

(* The job ends, its messages come and the row is read in the end.         *)
StatusFairness ==
    /\ WF_StatusVars(JobMoves)
    /\ WF_StatusVars(StatusArrives)
    /\ WF_StatusVars(SyncDone)
StatusSpec == StatusInit /\ [][StatusNext]_StatusVars /\ StatusFairness

----------------------------------------------------------------------------
running(v) == (v.started /\ ~v.finished) \/ v.status \in Unfinished

(* The page ends up with the status of the job, whatever the order of the  *)
(* messages was and whatever it made of the stats in between; and when the *)
(* stream has stopped with the stats, the job is not shown as running.     *)
StatusShown ==
    /\ view.status = job
    /\ (statsEvent /\ onStop = "done") => ~running(view)
=============================================================================
