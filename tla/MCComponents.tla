--------------------------- MODULE MCComponents ---------------------------
(***************************************************************************)
(* The components that share no state with others, for TLC: the pages of   *)
(* the web console, the source tree of a project, the heartbeats of the    *)
(* cluster and the callback receiver.  A behaviour stays in the part that  *)
(* its first state chooses, and the variables of the others rest.          *)
(***************************************************************************)
EXTENDS OutputViewer, OutputPages, JobStatus, WorkflowMaker, LiveUpdates,
        ConsoleSession, ProjectSync, ClusterHeartbeat, CallbackReceiver

(* A page that is opened early, and one that is opened late; a page that   *)
(* is open before the first event.                                         *)
EarlyAndLate == {<<4, 2>>, <<0, 3>>}
FromTheStart == {<<3, 0>>}

(* A project update, a job that uses the project, and an update of the     *)
(* source that follows it, which is in another inventory than the job's.   *)
CONSTANTS Update, Run, Import
SyncKind == (Update :> "project_update") @@ (Run :> "job")
                @@ (Import :> "inventory_update")
SyncProject == [t \in Tasks |-> "project"]
SyncInventory == (Update :> "none") @@ (Run :> "hosts") @@ (Import :> "scm hosts")
SyncSource == [t \in Tasks |-> "scm source"]
SyncTemplate == [t \in Tasks |-> "template"]

VARIABLE part

PartsVars == <<ViewerVars, PagesVars, StatusVars, MakerVars, UpdatesVars,
               SessionVars, SyncVars, HeartbeatVars, ReceiverVars, part>>

(* The parts that are not chosen rest where none of their steps is due.    *)
Some(S) == CHOOSE x \in S : TRUE
StreamRests == StreamInit /\ stats = Some(StatsCounters)
ViewerRests == PageOpens("none") /\ maxCounter = 0
StatusRests ==
    StatusFrom("successful") /\ expecting = Some(Expecting) /\ failing = FALSE
MakerRests == MakerInit /\ original = Some(Graphs)
UpdatesRest == UpdatesFrom("open")
SyncRests == SyncInit /\ files = Blank
HeartbeatRests == deprovisions = Some(AutoDeprovision) /\ HeartbeatFrom({})
ReceiverRests == ReceiverFrom(LastMessage)

PartsInit ==
    /\ part \in {"stream", "viewer", "pages", "status", "maker", "updates", "session",
                "tree", "cluster", "receiver"}
    /\ CASE part = "viewer" -> ViewerInit
         [] part = "stream" -> StreamInit /\ ViewerRests
         [] OTHER -> StreamRests /\ ViewerRests
    /\ PagesInit
    /\ IF part = "status" THEN StatusInit ELSE StatusRests
    /\ IF part = "maker" THEN MakerInit ELSE MakerRests
    /\ IF part = "updates" THEN UpdatesInit ELSE UpdatesRest
    /\ SessionInit
    /\ IF part = "tree" THEN SyncInit ELSE SyncRests
    /\ IF part = "cluster" THEN HeartbeatInit ELSE HeartbeatRests
    /\ IF part = "receiver" THEN ReceiverInit ELSE ReceiverRests

(* The output page, the other pages, and the backend.                      *)
OutputVars == <<ViewerVars, PagesVars, StatusVars>>
ConsoleVars == <<OutputVars, MakerVars, UpdatesVars, SessionVars>>
BackendVars == <<SyncVars, HeartbeatVars, ReceiverVars>>
OtherVars == <<MakerVars, UpdatesVars, SessionVars, BackendVars>>

PartsNext ==
    \/ /\ part = "stream" /\ StreamNext
       /\ UNCHANGED <<viewer, PagesVars, StatusVars, OtherVars>>
    \/ /\ part = "viewer" /\ ViewerNext
       /\ UNCHANGED <<PagesVars, StatusVars, OtherVars>>
    \/ /\ part = "pages" /\ PagesNext
       /\ UNCHANGED <<ViewerVars, StatusVars, OtherVars>>
    \/ /\ part = "status" /\ StatusNext
       /\ UNCHANGED <<ViewerVars, PagesVars, OtherVars>>
    \/ /\ part = "maker" /\ MakerNext
       /\ UNCHANGED <<OutputVars, UpdatesVars, SessionVars, BackendVars>>
    \/ /\ part = "updates" /\ UpdatesNext
       /\ UNCHANGED <<OutputVars, MakerVars, SessionVars, BackendVars>>
    \/ /\ part = "session" /\ SessionNext
       /\ UNCHANGED <<OutputVars, MakerVars, UpdatesVars, BackendVars>>
    \/ /\ part = "tree" /\ SyncNext
       /\ UNCHANGED <<ConsoleVars, HeartbeatVars, ReceiverVars>>
    \/ /\ part = "cluster" /\ HeartbeatNext
       /\ UNCHANGED <<ConsoleVars, SyncVars, ReceiverVars>>
    \/ /\ part = "receiver" /\ ReceiverNext
       /\ UNCHANGED <<ConsoleVars, SyncVars, HeartbeatVars>>

Parts == PartsInit /\ [][PartsNext /\ UNCHANGED part]_PartsVars

PartsSpec ==
    /\ Parts
    /\ ViewerFairness /\ StatusFairness /\ MakerFairness
    /\ UpdatesFairness /\ SessionFairness /\ SyncFairness
    /\ HeartbeatFairness /\ ReceiverFairness

----------------------------------------------------------------------------
(* The properties that the variables of a part only have when it is        *)
(* chosen: the stream alone, ...                                           *)
StreamEmpties == part = "stream" => NothingHeldBack

(* ... the scroll service of the output, which every operation that holds  *)
(* it up lets go of, whether the requests it makes succeed or fail, ...    *)
ViewerPauseEnds == []<>(part = "viewer" => ~paused)

(* ... and the status of a job, which the page ends up with for good       *)
(* whatever the order of the messages was.                                 *)
JobStatusConverges == <>[](part = "status" => StatusShown)
=============================================================================
