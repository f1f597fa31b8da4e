----------------------------- MODULE LiveUpdates -----------------------------
(***************************************************************************)
(* Live updates of the pages: the websocket of socket.service.js, which    *)
(* subscribes to what the current page needs and reconnects when it is     *)
(* lost, and the list of jobs (features/jobs/jobsList.controller.js),      *)
(* which reads its jobs again when a message says that one has changed.    *)
(* Messages are dropped while the browser's tab is hidden.                 *)
(***************************************************************************)
EXTENDS Naturals

CONSTANTS
    MaxVisits,      \* bound on the pages that the user visits,
    MaxChanges,     \* on the changes of jobs,
    MaxLosses,      \* on the losses of the connection,
    MaxAttempts     \* and maxReconnectAttempts

ASSUME UpdatesAssumption ==
    {MaxVisits, MaxChanges, MaxLosses, MaxAttempts} \subseteq Nat

PageKinds == {"jobs", "plain"}      \* a page that subscribes and one that does not

VARIABLES
    readyState,     \* of the socket: "connecting" or "open"
    attempts,       \* attempts to connect that have failed in a row
    connected,      \* socketPromise is resolved
    needsResubscribing,
    subscribed,     \* what the server sends to this connection
    last,           \* the page of getLast
    retrying,       \* a setTimeout of emit is pending
    arriving,       \* messages on the connection
    visits, changes, losses,
    visible, needsRefreshAfterBlur,
    loading,        \* the page is being loaded, or loaded again
    launchModalOpen, refreshAfterLaunchClose,
    unread          \* history: a message since the jobs were last asked for

socket == <<readyState, attempts, connected, needsResubscribing, subscribed,
            last, retrying>>
counts == <<visits, changes, losses>>
list == <<visible, needsRefreshAfterBlur, loading, launchModalOpen,
          refreshAfterLaunchClose, unread>>
UpdatesVars == <<socket, arriving, counts, list>>

UpdatesFrom(state) ==
    /\ readyState = state /\ attempts = 0 /\ connected = FALSE
    /\ needsResubscribing = FALSE /\ subscribed = "none" /\ last = "none"
    /\ retrying = FALSE /\ arriving = 0
    /\ visits = 0 /\ changes = 0 /\ losses = 0
    /\ visible = TRUE /\ needsRefreshAfterBlur = FALSE /\ loading = FALSE
    /\ launchModalOpen = FALSE /\ refreshAfterLaunchClose = FALSE /\ unread = FALSE

UpdatesInit == UpdatesFrom("connecting")

----------------------------------------------------------------------------
(* The socket.  emit sends what it is given, or what the current page      *)
(* needs half a second later.                                              *)
emit(page) ==
    IF readyState = "open"
    THEN subscribed' = page /\ retrying' = retrying
    ELSE subscribed' = subscribed /\ retrying' = TRUE

(* Faulty variant: a new connection is not told the groups.                *)
OpensForgetful ==
    /\ readyState = "connecting" /\ attempts < MaxAttempts
    /\ readyState' = "open" /\ attempts' = 0 /\ connected' = TRUE
    /\ UNCHANGED <<subscribed, needsResubscribing, last, retrying, arriving, counts, list>>

onopen ==
    /\ readyState = "connecting" /\ attempts < MaxAttempts
    /\ readyState' = "open" /\ attempts' = 0 /\ connected' = TRUE
    /\ IF needsResubscribing /\ last # "none"
       THEN subscribed' = last /\ needsResubscribing' = FALSE
       ELSE UNCHANGED <<subscribed, needsResubscribing>>
    /\ UNCHANGED <<last, retrying, arriving, counts, list>>

(* The connection is lost with what is on it; onconnecting.                *)
onclose ==
    /\ readyState = "open" /\ losses < MaxLosses
    /\ losses' = losses + 1
    /\ readyState' = "connecting" /\ needsResubscribing' = TRUE
    /\ subscribed' = "none" /\ arriving' = 0
    /\ UNCHANGED <<attempts, connected, last, retrying, visits, changes, list>>

AttemptFails ==
    /\ readyState = "connecting" /\ attempts < MaxAttempts
    /\ attempts' = attempts + 1
    /\ needsResubscribing' = TRUE
    /\ UNCHANGED <<readyState, connected, subscribed, last, retrying, arriving,
                   counts, list>>

Retry ==
    /\ retrying
    /\ IF readyState = "open"
       THEN subscribed' = last /\ retrying' = FALSE
       ELSE UNCHANGED <<subscribed, retrying>>
    /\ UNCHANGED <<readyState, attempts, connected, needsResubscribing, last,
                   arriving, counts, list>>

----------------------------------------------------------------------------
(* addStateResolve with subscribe and unsubscribe.  The groups of a page   *)
(* that has none are not sent after those of another such page, unless a   *)
(* retry has added the control group to them.                              *)
addStateResolve(page) ==
    /\ connected /\ visits < MaxVisits /\ visible
    /\ visits' = visits + 1
    /\ \/ emit(page)
       \/ page = "plain" /\ last = "plain" /\ UNCHANGED <<subscribed, retrying>>
    /\ last' = page
    /\ loading' = (page = "jobs")
    /\ launchModalOpen' = FALSE /\ refreshAfterLaunchClose' = FALSE
    /\ unread' = FALSE
    /\ UNCHANGED <<readyState, attempts, connected, needsResubscribing, arriving,
                   changes, losses, visible, needsRefreshAfterBlur>>

JobChanges ==
    /\ changes < MaxChanges
    /\ changes' = changes + 1
    /\ arriving' = arriving + (IF subscribed = "jobs" THEN 1 ELSE 0)
    /\ UNCHANGED <<socket, visits, losses, list>>

(* onMessage, and the handler of ws-jobs; while the list is being loaded   *)
(* there is none, or its work is thrown away.                              *)
onMessage ==
    /\ arriving > 0
    /\ arriving' = arriving - 1
    /\ \/ ~visible /\ needsRefreshAfterBlur' = TRUE
          /\ unread' = (unread \/ last = "jobs")
          /\ UNCHANGED refreshAfterLaunchClose
       \/ visible /\ last = "jobs" /\ ~loading /\ launchModalOpen
          /\ refreshAfterLaunchClose' = TRUE /\ unread' = TRUE
          /\ UNCHANGED needsRefreshAfterBlur
       \/ visible /\ last = "jobs" /\ ~loading /\ ~launchModalOpen
          /\ unread' = FALSE
          /\ UNCHANGED <<needsRefreshAfterBlur, refreshAfterLaunchClose>>
       \/ visible /\ (last # "jobs" \/ loading)
          /\ UNCHANGED <<needsRefreshAfterBlur, refreshAfterLaunchClose, unread>>
    /\ UNCHANGED <<socket, counts, visible, loading, launchModalOpen>>

(* The page is there: its controller starts with the jobs that were read.  *)
Loaded ==
    /\ loading
    /\ loading' = FALSE
    /\ launchModalOpen' = FALSE /\ refreshAfterLaunchClose' = FALSE
    /\ UNCHANGED <<socket, arriving, counts, visible, needsRefreshAfterBlur, unread>>

(* visibilitychange.                                                       *)
TabHidden ==
    /\ visible /\ visible' = FALSE
    /\ UNCHANGED <<socket, arriving, counts, needsRefreshAfterBlur, loading,
                   launchModalOpen, refreshAfterLaunchClose, unread>>

(* Loading the page again asks for the jobs, and subscribes again.         *)
TabVisible ==
    /\ ~visible /\ visible' = TRUE
    /\ needsRefreshAfterBlur' = FALSE
    /\ IF needsRefreshAfterBlur /\ last = "jobs"
       THEN loading' = TRUE /\ unread' = FALSE /\ emit(last)
       ELSE UNCHANGED <<loading, unread, subscribed, retrying>>
    /\ UNCHANGED <<readyState, attempts, connected, needsResubscribing, last,
                   arriving, counts, launchModalOpen, refreshAfterLaunchClose>>

(* Faulty variant: closing the dialog does not make up for the messages.   *)
LaunchForgets(isOpen) ==
    /\ last = "jobs" /\ ~loading /\ visible /\ launchModalOpen # isOpen
    /\ launchModalOpen' = isOpen /\ refreshAfterLaunchClose' = FALSE
    /\ UNCHANGED <<socket, arriving, counts, visible, needsRefreshAfterBlur, loading, unread>>

(* launchModalOpen.                                                        *)
LaunchModal(isOpen) ==
    /\ last = "jobs" /\ ~loading /\ visible /\ launchModalOpen # isOpen
    /\ launchModalOpen' = isOpen
    /\ IF ~isOpen /\ refreshAfterLaunchClose
       THEN refreshAfterLaunchClose' = FALSE /\ unread' = FALSE
       ELSE UNCHANGED <<refreshAfterLaunchClose, unread>>
    /\ UNCHANGED <<socket, arriving, counts, visible, needsRefreshAfterBlur, loading>>

UpdatesNext ==
    \/ onopen \/ onclose \/ AttemptFails \/ Retry
    \/ \E page \in PageKinds : addStateResolve(page)
    \/ JobChanges \/ onMessage
    \/ Loaded \/ TabHidden \/ TabVisible
    \/ \E isOpen \in BOOLEAN : LaunchModal(isOpen)

(* Connecting succeeds or fails in the end, and timers run.                *)
UpdatesFairness == WF_UpdatesVars(onopen \/ AttemptFails) /\ WF_UpdatesVars(Retry)
UpdatesSpec == UpdatesInit /\ [][UpdatesNext]_UpdatesVars /\ UpdatesFairness

----------------------------------------------------------------------------
(* However page changes and losses of the connection meet, the connection  *)
(* ends up with the subscription of the page that is shown, unless the     *)
(* socket has given up to connect.                                         *)
SubscriptionSettles ==
    <>[](\/ last \in {"none", subscribed}
         \/ last = "plain" /\ subscribed = "none"
         \/ attempts = MaxAttempts)

(* No message is forgotten: when the list has not asked for the jobs since *)
(* it came, the list remembers to do so, when the launch dialog closes or  *)
(* when the tab is visible again.                                          *)
NothingForgotten ==
    unread => \/ needsRefreshAfterBlur /\ ~visible
              \/ launchModalOpen /\ refreshAfterLaunchClose
=============================================================================
