-------------------------- MODULE Components_proofs --------------------------
(***************************************************************************)
(* Proofs about the small components, each for every value of its          *)
(* constants.                                                              *)
(*                                                                         *)
(* The list of jobs: no message is forgotten, however hidden tabs, reloads *)
(* of the page and the launch dialog meet.                                 *)
(*                                                                         *)
(* The session: the timer of the console never outlives the session of the *)
(* API, but for the time that a request or a logout takes.                 *)
(*                                                                         *)
(* The sync lock: one process at a time works on the files of a project,   *)
(* for any number of tasks, followers and commits.                         *)
(*                                                                         *)
(* The editor of workflow templates: no request of a save is one that the  *)
(* API has to refuse, and a save that comes to its end leaves the drawing  *)
(* in the database, for any sets of nodes, if the tree is left alone while *)
(* new nodes are posted.  The invariant has two parts: Drawn, what drawing *)
(* keeps true of the tree, and Saving, what each phase of a save has asked *)
(* for and what the database has by then, whatever is drawn meanwhile.     *)
(***************************************************************************)
EXTENDS LiveUpdates, ConsoleSession, ProjectSync, WorkflowMaker, FiniteSetTheorems,
        WellFoundedInduction, TLAPS

(* A message can only be unread on the list of jobs, and while the page is *)
(* being loaded, only a hidden tab can have got it.                        *)
UpdatesInv ==
    /\ NothingForgotten
    /\ unread => last = "jobs"
    /\ loading /\ unread => needsRefreshAfterBlur /\ ~visible

LEMMA UpdatesInductive ==
    ASSUME UpdatesInv, [UpdatesNext]_UpdatesVars
    PROVE  UpdatesInv'
<1>. USE DEF UpdatesInv, NothingForgotten
<1>1. CASE onopen \/ onclose \/ AttemptFails \/ Retry
    <2>1. UNCHANGED <<last, list>>
        BY <1>1 DEF onopen, onclose, AttemptFails, Retry
    <2>. QED
        BY <2>1 DEF list
<1>2. ASSUME NEW page \in PageKinds, addStateResolve(page)
      PROVE  UpdatesInv'
    BY <1>2 DEF addStateResolve
<1>3. CASE JobChanges
    BY <1>3 DEF JobChanges, socket, list
<1>4. CASE onMessage
    <2>1. UNCHANGED <<last, visible, loading, launchModalOpen>>
        BY <1>4 DEF onMessage, socket
    <2>2. CASE /\ ~visible /\ needsRefreshAfterBlur' = TRUE
               /\ unread' = (unread \/ last = "jobs")
               /\ UNCHANGED refreshAfterLaunchClose
        BY <2>1, <2>2
    <2>3. CASE /\ visible /\ last = "jobs" /\ ~loading /\ launchModalOpen
               /\ refreshAfterLaunchClose' = TRUE /\ unread' = TRUE
               /\ UNCHANGED needsRefreshAfterBlur
        BY <2>1, <2>3
    <2>4. CASE unread' = FALSE
        BY <2>1, <2>4
    <2>5. CASE UNCHANGED <<needsRefreshAfterBlur, refreshAfterLaunchClose, unread>>
        BY <2>1, <2>5
    <2>. QED
        BY <1>4, <2>2, <2>3, <2>4, <2>5 DEF onMessage
<1>5. CASE Loaded
    BY <1>5 DEF Loaded, socket
<1>6. CASE TabHidden
    BY <1>6 DEF TabHidden, socket
<1>7. CASE TabVisible
    BY <1>7 DEF TabVisible
<1>8. ASSUME NEW isOpen \in BOOLEAN, LaunchModal(isOpen)
      PROVE  UpdatesInv'
    BY <1>8 DEF LaunchModal, socket
<1>9. CASE UNCHANGED UpdatesVars
    BY <1>9 DEF UpdatesVars, socket, list
<1>. QED
    BY <1>1, <1>2, <1>3, <1>4, <1>5, <1>6, <1>7, <1>8, <1>9 DEF UpdatesNext

(* onMessage, the reload when the tab is visible again, and the refresh    *)
(* when the launch dialog closes together forget no message.               *)
THEOREM NoMessageForgotten == UpdatesSpec => []NothingForgotten
<1>1. UpdatesInit => UpdatesInv
    BY DEF UpdatesInit, UpdatesFrom, UpdatesInv, NothingForgotten
<1>2. UpdatesInv => NothingForgotten
    BY DEF UpdatesInv
<1>. QED
    BY <1>1, <1>2, UpdatesInductive, PTL DEF UpdatesSpec

----------------------------------------------------------------------------

(* No time left is longer than SESSION_COOKIE_AGE.                         *)
Times ==
    /\ left \in 0 .. Timeout /\ alive \in 0 .. Timeout
    /\ tab \in [Tabs -> TabStates] /\ quiet \in Nat

SessionInv == Times /\ TimerWithinSession

(* A tab that has a request under way or that leaves.                      *)
Busy == \E t \in Tabs : t \in calling \/ tab[t] \in {"leaving", "stuck"}

LEMMA TabGoes ==
    ASSUME Times, NEW t \in Tabs, NEW where \in TabStates, Go(t, where)
    PROVE  tab' \in [Tabs -> TabStates] /\ tab'[t] = where
BY DEF Times, Go

(* A step after which some tab leaves or waits for an answer.              *)
LEMMA LeavingIsBusy ==
    ASSUME NEW t \in Tabs, t \in calling' \/ tab'[t] \in {"leaving", "stuck"}
    PROVE  TimerWithinSession'
BY DEF TimerWithinSession

LEMMA SessionTimes ==
    ASSUME SessionInv, [SessionNext]_SessionVars
    PROVE  Times'
<1>. USE SessionAssumption
<1>1. Times /\ Timeout \in Nat
    BY DEF SessionInv
<1>2. CASE ClockTicks
    BY <1>1, <1>2 DEF ClockTicks, Times
<1>3. CASE UNCHANGED SessionVars
    BY <1>1, <1>3 DEF SessionVars, Times
<1>4. ASSUME NEW t \in Tabs,
             \/ Login(t) \/ Entered(t) \/ Call(t) \/ CallAnswered(t)
             \/ TimerFires(t) \/ SignOut(t) \/ LoggedOut(t) \/ LogoutFails(t)
             \/ Navigate(t)
      PROVE  Times'
    <2>1. /\ left' \in {left, Timeout} /\ alive' \in {alive, 0, Timeout}
          /\ quiet' \in {quiet, 0, quiet + 1}
        BY <1>4 DEF Login, Entered, Call, CallAnswered, TimerFires, SignOut, Navigate,
           LoggedOut, LogoutFails, IfExpired, moveForward, expireSession, Go
    <2>2. tab' \in [Tabs -> TabStates]
        <3>1. UNCHANGED tab \/ \E where \in TabStates : Go(t, where)
            BY <1>4 DEF Login, Entered, Call, CallAnswered, TimerFires, SignOut,
               LoggedOut, LogoutFails, Navigate, expireSession, TabStates
        <3>. QED
            BY <1>1, <3>1, TabGoes DEF Times
    <2>. QED
        BY <1>1, <2>1, <2>2 DEF Times
<1>. QED
    BY <1>2, <1>3, <1>4 DEF SessionNext

LEMMA SessionSteps ==
    ASSUME SessionInv, [SessionNext]_SessionVars
    PROVE  TimerWithinSession'
<1>. USE SessionAssumption
<1>1. Times /\ Times' /\ (loggedIn /\ quiet = 0 => left <= alive \/ Busy)
    BY SessionTimes DEF SessionInv, TimerWithinSession, Busy
<1>2. CASE ClockTicks
    <2>1. UNCHANGED <<loggedIn, tab, calling, quiet>> /\ (left <= alive => left' <= alive')
        BY <1>1, <1>2 DEF ClockTicks, Times
    <2>. QED
        BY <1>1, <2>1 DEF TimerWithinSession, Busy
<1>3. CASE UNCHANGED SessionVars
    BY <1>1, <1>3 DEF SessionVars, TimerWithinSession, Busy
<1>4. ASSUME alive' = Timeout
      PROVE  TimerWithinSession'
    BY <1>1, <1>4 DEF Times, TimerWithinSession
<1>5. ASSUME NEW t \in Tabs, Login(t) \/ Entered(t)
      PROVE  TimerWithinSession'
    BY <1>1, <1>4, <1>5, TabGoes, LeavingIsBusy DEF Login, Entered, TabStates
<1>6. ASSUME NEW t \in Tabs, Call(t) \/ CallAnswered(t)
      PROVE  TimerWithinSession'
    BY <1>1, <1>4, <1>6, TabGoes, LeavingIsBusy
       DEF Call, CallAnswered, expireSession, TabStates
<1>7. ASSUME NEW t \in Tabs, TimerFires(t) \/ SignOut(t) \/ LogoutFails(t)
      PROVE  TimerWithinSession'
    BY <1>1, <1>7, TabGoes, LeavingIsBusy
       DEF TimerFires, SignOut, LogoutFails, expireSession, TabStates
<1>8. ASSUME NEW t \in Tabs, LoggedOut(t)
      PROVE  TimerWithinSession'
    BY <1>8 DEF LoggedOut, TimerWithinSession
<1>9. ASSUME NEW t \in Tabs, Navigate(t)
      PROVE  TimerWithinSession'
    <2>1. CASE isExpired
        BY <1>1, <1>9, <2>1, TabGoes, LeavingIsBusy DEF Navigate, TabStates
    <2>2. CASE ~isExpired
        <3>1. quiet' = quiet + 1 /\ quiet \in Nat
            BY <1>1, <1>9, <2>2 DEF Navigate, Times
        <3>. QED
            BY <3>1 DEF TimerWithinSession
    <2>. QED
        BY <2>1, <2>2
<1>. QED
    BY <1>2, <1>3, <1>5, <1>6, <1>7, <1>8, <1>9 DEF SessionNext

(* moveForward gives the tabs as much time as the API gives with the       *)
(* request that follows, and every way out of a session passes a logout;   *)
(* where no request follows, the page was changed and quiet is not 0.      *)
THEOREM TimerWithin == SessionSpec => []TimerWithinSession
<1>1. SessionInit => SessionInv
    BY SessionAssumption
       DEF SessionInit, SessionInv, Times, TimerWithinSession, TabStates
<1>2. SessionInv /\ [SessionNext]_SessionVars => SessionInv'
    BY SessionTimes, SessionSteps DEF SessionInv
<1>3. SessionInv => TimerWithinSession
    BY DEF SessionInv
<1>. QED
    BY <1>1, <1>2, <1>3, PTL DEF SessionSpec

----------------------------------------------------------------------------
(* The file lock has one holder, and who works on the files has it: so     *)
(* whoever gives up, releases or dies takes it from nobody else.           *)
LockInv ==
    /\ progress \in [Tasks -> Phases]
    /\ \A t \in Tasks : progress[t] = "working" => holders = {t}

(* A step of a task that does not begin to work on the files and gives up  *)
(* at most its own lock.                                                   *)
LEMMA LockIsKept ==
    ASSUME LockInv, NEW t \in Tasks, NEW where \in Phases \ {"working"},
           GoTo(t, where), holders' \in {holders, holders \ {t}}
    PROVE  LockInv'
<1>1. progress' \in [Tasks -> Phases]
    BY DEF LockInv, GoTo
<1>2. ASSUME NEW u \in Tasks, progress'[u] = "working"
      PROVE  holders' = {u}
    <2>1. u # t /\ progress[u] = "working"
        BY <1>2 DEF GoTo, LockInv
    <2>2. holders = {u}
        BY <2>1 DEF LockInv
    <2>. QED
        BY <2>1, <2>2
<1>. QED
    BY <1>1, <1>2 DEF LockInv

LEMMA LockIsTaken ==
    ASSUME LockInv, NEW t \in Tasks, Acquire(t)
    PROVE  LockInv'
<1>1. \A u \in Tasks : progress[u] # "working"
    BY DEF Acquire, LockInv
<1>2. progress' = [progress EXCEPT ![t] = "working"] /\ holders' = {t}
    BY DEF Acquire, GoTo
<1>. QED
    BY <1>1, <1>2 DEF LockInv, Phases

(* The steps that leave the lock and the progress of all tasks alone.      *)
LEMMA LockUntouched ==
    ASSUME LockInv, UNCHANGED <<progress, holders>>
    PROVE  LockInv'
BY DEF LockInv

LEMMA LockSteps ==
    ASSUME LockInv, [SyncNext]_SyncVars
    PROVE  LockInv'
<1>1. CASE Push \/ UNCHANGED SyncVars \/ \E s \in Followers : EditInventory(s)
    BY <1>1, LockUntouched DEF Push, EditInventory, SyncVars
<1>2. ASSUME NEW t \in Tasks, Acquire(t)
      PROVE  LockInv'
    BY <1>2, LockIsTaken
<1>3. ASSUME NEW t \in Tasks,
             \/ CancelUpdate(t) \/ SkipFollower(t) \/ StartImport(t) \/ EndImport(t)
      PROVE  LockInv'
    BY <1>3, LockUntouched DEF CancelUpdate, SkipFollower, StartImport, EndImport
<1>4. ASSUME NEW t \in Tasks,
             \/ StartTask(t) \/ CreateSync(t) \/ EnterRun(t) \/ GiveUp(t)
             \/ LockFails(t) \/ EndCheckout(t) \/ SaveRevision(t)
      PROVE  LockInv'
    <2>1. \E where \in Phases \ {"working"} : GoTo(t, where)
        BY <1>4 DEF StartTask, CreateSync, EnterRun, GiveUp, LockFails,
           EndCheckout, SaveRevision, Phases
    <2>2. holders' = holders
        BY <1>4 DEF StartTask, CreateSync, EnterRun, GiveUp, LockFails,
           EndCheckout, SaveRevision
    <2>. QED
        BY <2>1, <2>2, LockIsKept
<1>5. ASSUME NEW t \in Tasks, Release(t) \/ WorkerDies(t)
      PROVE  LockInv'
    <2>1. \E where \in Phases \ {"working"} : GoTo(t, where)
        BY <1>5 DEF Release, AfterRelease, WorkerDies, Phases
    <2>2. holders' = holders \ {t}
        BY <1>5 DEF Release, WorkerDies
    <2>. QED
        BY <2>1, <2>2, LockIsKept
<1>6. ASSUME NEW t \in Tasks, TaskStep(t) \/ Reap(t)
      PROVE  LockInv'
    <2>1. \E where \in Phases \ {"working"} : GoTo(t, where)
        BY <1>6 DEF TaskStep, FinishCheck, JobGoesOn, ImportGoesOn,
           FailsWithSync, PlaybookEnds, Reap, Ends, Phases
    <2>2. holders' = holders
        BY <1>6 DEF TaskStep, FinishCheck, JobGoesOn, ImportGoesOn,
           FailsWithSync, PlaybookEnds, Reap, Ends
    <2>. QED
        BY <2>1, <2>2, LockIsKept
<1>. QED
    BY <1>1, <1>2, <1>3, <1>4, <1>5, <1>6 DEF SyncNext, UpdateStep

(* No two processes work on the files of the project at the same time, for *)
(* any number of tasks, whatever is canceled, fails or dies.               *)
THEOREM OneProcessWorks == SyncSpec => []OneCheckout
<1>1. SyncInit => LockInv
    BY DEF SyncInit, LockInv, Phases
<1>2. LockInv /\ [SyncNext]_SyncVars => LockInv'
    BY LockSteps
<1>3. LockInv => OneCheckout
    BY DEF LockInv, OneCheckout
<1>. QED
    BY <1>1, <1>2, <1>3, PTL DEF SyncSpec

----------------------------------------------------------------------------
(* A tree of nodes: every node is below another one or the start node, and *)
(* no node is below itself, which numbers that grow downwards show.        *)
TreeNodes ==
    [parent : AllNodes \cup {Start}, edge : EdgeTypes \cup {"none"},
     isRoot : BOOLEAN, edited : BOOLEAN, placeholder : BOOLEAN]
Ranks(t) == [DOMAIN t -> Nat \ {0}]
Ranked(t, r) == \A n \in DOMAIN t : t[n].parent \in DOMAIN t => r[t[n].parent] < r[n]

IsTree(t) ==
    /\ DOMAIN t \in SUBSET AllNodes /\ t \in [DOMAIN t -> TreeNodes]
    /\ \A n \in DOMAIN t : t[n].parent \in DOMAIN t \cup {Start}
    /\ \A n \in DOMAIN t : t[n].isRoot <=> t[n].parent = Start
    /\ \E r \in Ranks(t) : Ranked(t, r)

(* p is n, or above it.                                                    *)
Upwards(t, S) == \A n \in S : t[n].parent \in DOMAIN t => t[n].parent \in S
Over(t, p, n) == \A S \in SUBSET DOMAIN t : n \in S /\ Upwards(t, S) => p \in S

(* An old node stays below its parent of before as long as that one is     *)
(* there, and keeps its edge type unless it is edited.                     *)
Inherits(t, n) ==
    LET p == original[n].parent
    IN  /\ p \in DOMAIN t => Over(t, p, n)
        /\ p \in DOMAIN t \cup {Start} => t[n].edited \/ t[n].edge = original[n].edge

FormFits ==
    /\ form.mode \in {"idle", "add", "edit"}
    /\ form.mode = "idle" => form.options = {}
    /\ form.mode # "idle" => form.node \in DOMAIN tree
    /\ form.mode = "add" => form.node \in NewNodes
    /\ \A n \in DOMAIN tree : tree[n].placeholder <=> form.mode = "add" /\ n = form.node

Drawn ==
    /\ original \in Graphs
    /\ IsTree(tree) /\ \A n \in OldNodes \cap DOMAIN tree : Inherits(tree, n)
    /\ FormFits
    /\ totalNodes = Cardinality(Clickable)
    /\ deletedNodes = OldNodes \ DOMAIN tree

(* The tree that a save was begun with, when the user can be trusted not   *)
(* to change it: its edges, and what there is to do for them.              *)
Old == OldNodes \cap DOMAIN drawn
New == NewNodes \cap DOMAIN drawn
Done == NewNodes \cap rows
Dropped == OldNodes \ DOMAIN drawn
DrawnEdge(n) == Edge(drawn[n].parent, n, drawn[n].edge)
OldEdges == {OriginalEdge(n) : n \in {m \in OldNodes : original[m].parent # Start}}
DrawnEdges == {DrawnEdge(n) : n \in {m \in DOMAIN drawn : drawn[m].parent # Start}}
Changed(n) ==
    \/ drawn[n].parent # original[n].parent
    \/ drawn[n].edited /\ drawn[n].edge # original[n].edge

SavedTree ==
    /\ original \in Graphs
    /\ IsTree(drawn) /\ \A n \in Old : Inherits(drawn, n)
    /\ \A n \in DOMAIN drawn : ~drawn[n].placeholder
    /\ ~edgeConflict(drawn)

Posted(n) == [kind |-> "add", edge |-> Edge(drawn[n].parent, n, "none"), round |-> 0]
Deleted(n) == Request("delete", Edge(Start, n, "none"))
Edited(n) == Request("edit", Edge(Start, n, "none"))
Disassociated(n) == Request("disassociate", OriginalEdge(n))
Associated(n) == Request("associate", DrawnEdge(n))

(* What a save has collected when it has visited the old nodes V and has   *)
(* added the new nodes D.                                                  *)
Below(D) == {n \in D : ~drawn[n].isRoot}
AttachedOf(V) ==
    {n \in V : /\ drawn[n].parent # Start
               /\ original[n].parent = Start \/ Changed(n)}
FirstOf(V) ==
    {Disassociated(n) : n \in {m \in V : /\ original[m].parent # Start /\ Changed(m)
                                         /\ original[m].parent \notin Dropped}}
        \cup {Edited(n) : n \in {m \in V : drawn[m].edited}}
SecondOf(V, D) == {Associated(n) : n \in AttachedOf(V) \cup Below(D)}
Drops == {Deleted(n) : n \in Dropped}

(* The edges that a save leaves alone.                                     *)
Standing == {n \in Old : original[n].parent \in DOMAIN drawn /\ ~Changed(n)}

Editing ==
    /\ rows = OldNodes /\ edges = OldEdges /\ written = {} /\ completed = 0
    /\ iterated = 0 /\ requests = {} /\ associateRequests = {} /\ firstRequests = {}

(* The walk goes down from the start node and from the new nodes that were *)
(* added, and posts the new nodes that it meets.                           *)
Walked(V, D, now) ==
    /\ V \subseteq Old /\ D \subseteq New
    /\ \A n \in V \cup D : drawn[n].parent \in {Start} \cup V \cup D
    /\ \A r \in now : \E n \in New \ D :
          r = Posted(n) /\ drawn[n].parent \in {Start} \cup V \cup D

(* The tree is left alone while a node is posted.                          *)
LeftAlone ==
    tree = drawn /\ deletedNodes = Dropped /\ totalNodes = Cardinality(DOMAIN drawn)

Visited(V) ==
    /\ completed = 0
    /\ requests # {} => phase = "saving" /\ LeftAlone
    /\ rows = OldNodes \cup Done /\ edges = OldEdges /\ written = {}
    /\ Walked(V, Done, requests)
    /\ iterated = Cardinality(V) + Cardinality(Done)
    /\ firstRequests = FirstOf(V) /\ associateRequests = SecondOf(V, Done)

(* The first phase, while the requests now are not answered: what the tree *)
(* has is there, and what is still to be changed is asked for.             *)
Asked(now, ro, ed) ==
    /\ now \subseteq FirstOf(Old) \cup Drops
    /\ DOMAIN drawn \subseteq ro /\ ro \subseteq DOMAIN drawn \cup Dropped
    /\ \A n \in Dropped : Deleted(n) \in now => n \in ro
    /\ ed \subseteq OldEdges /\ \A n \in Standing : OriginalEdge(n) \in ed

StillAsked(now, ro, ed, wr) ==
    /\ \A n \in ro \ DOMAIN drawn : Deleted(n) \in now
    /\ \A n \in OldNodes :
          OriginalEdge(n) \in ed =>
              \/ n \in Standing
              \/ Deleted(n) \in now \/ Deleted(original[n].parent) \in now
              \/ Disassociated(n) \in now
    /\ \A n \in Old : drawn[n].edited => n \in wr \/ Edited(n) \in now

First(now) ==
    /\ completed = 1 /\ associateRequests = SecondOf(Old, New)
    /\ requests = Sent(now, 1) /\ (now # {} \/ 1 \in refused)
    /\ Asked(now, rows, edges)
    /\ 1 \in refused \/ StillAsked(now, rows, edges, written)

(* After it, only edges are missing.                                       *)
Cleaned(ro, ed, wr) ==
    /\ ro = DOMAIN drawn /\ \A n \in Old : drawn[n].edited => n \in wr
    /\ ed \subseteq DrawnEdges /\ \A n \in Standing : OriginalEdge(n) \in ed

Second(now) ==
    /\ completed = 1
    /\ requests = Sent(now, 1) /\ (now # {} \/ 1 \in refused)
    /\ now \subseteq SecondOf(Old, New)
    /\ Cleaned(rows, edges, written)
    /\ 1 \in refused \/ \A q \in SecondOf(Old, New) : q \in now \/ q.edge \in edges

Closed == requests = {} /\ Cleaned(rows, edges, written) /\ edges = DrawnEdges

Saving ==
    \/ phase \in {"edit", "left"} /\ Editing
    \/ /\ SavedTree /\ phase \in {"saving", "left"}
       /\ \E s : Visited(s) \/ First(s) \/ Second(s)
    \/ SavedTree /\ phase \in {"closed", "left"} /\ Closed

MakerInv ==
    /\ phase = "edit" => Drawn /\ Editing /\ drawn = tree
    /\ ~disturbed => Saving

LEMMA LeastNumber ==
    ASSUME NEW S \in SUBSET Nat, S # {}
    PROVE  \E m \in S : \A k \in S : m <= k
<1>1. PICK m \in S : \A k \in S : ~(<<k, m>> \in OpToRel(<, Nat))
    BY NatLessThanWellFounded, WFMin
<1>2. \A k \in S : ~(k < m)
    BY <1>1 DEF OpToRel
<1>. QED
    BY <1>2

LEMMA NodesAreNumbers ==
    /\ AllNodes \subseteq Nat \ {0} /\ IsFiniteSet(AllNodes)
    /\ \A n \in AllNodes : n # Start /\ (n \in OldNodes <=> n \notin NewNodes)
<1>1. IsFiniteSet(AllNodes)
    BY MakerAssumption, FS_Union DEF AllNodes
<1>. QED
    BY <1>1, MakerAssumption DEF AllNodes, Start

(* The tree g is t after removeNodeFromTree took n away.                   *)
Removed(g, t, n) ==
    /\ DOMAIN g = DOMAIN t \ {n} /\ g \in [DOMAIN g -> TreeNodes]
    /\ \A c \in DOMAIN g :
          /\ g[c].parent = IF t[c].parent = n THEN t[n].parent ELSE t[c].parent
          /\ g[c].isRoot = IF t[c].parent = n THEN t[n].isRoot ELSE t[c].isRoot
          /\ g[c].edge = IF t[c].parent = n /\ t[n].isRoot THEN "always" ELSE t[c].edge
          /\ g[c].edited = t[c].edited /\ g[c].placeholder = t[c].placeholder

LEMMA RemovedNode ==
    ASSUME NEW t, IsTree(t), NEW n \in DOMAIN t
    PROVE  Removed(removeNodeFromTree(t, n), t, n)
<1>. DEFINE g == removeNodeFromTree(t, n)
<1>1. DOMAIN g = DOMAIN t \ {n}
    BY DEF removeNodeFromTree
<1>2. t[n] \in TreeNodes /\ \A c \in DOMAIN t : t[c] \in TreeNodes
    BY DEF IsTree
<1>3. ASSUME NEW c \in DOMAIN g
      PROVE  /\ g[c] \in TreeNodes
             /\ g[c].parent = IF t[c].parent = n THEN t[n].parent ELSE t[c].parent
             /\ g[c].isRoot = IF t[c].parent = n THEN t[n].isRoot ELSE t[c].isRoot
             /\ g[c].edge = IF t[c].parent = n /\ t[n].isRoot THEN "always" ELSE t[c].edge
             /\ g[c].edited = t[c].edited /\ g[c].placeholder = t[c].placeholder
    <2>. DEFINE a == t[c] b == t[n]
    <2>1. a \in TreeNodes /\ b \in TreeNodes /\ "always" \in EdgeTypes \cup {"none"}
        BY <1>1, <1>2 DEF EdgeTypes
    <2>2. CASE t[c].parent # n
        <3>1. g[c] = a
            BY <1>1, <2>2 DEF removeNodeFromTree
        <3>. QED
            BY <2>1, <2>2, <3>1
    <2>3. CASE t[c].parent = n /\ t[n].isRoot
        <3>1. g[c] = [a EXCEPT !.parent = b.parent, !.isRoot = TRUE, !.edge = "always"]
            BY <1>1, <2>3 DEF removeNodeFromTree
        <3>2. b.isRoot = TRUE
            BY <2>1, <2>3 DEF TreeNodes
        <3>. HIDE DEF a, b
        <3>3. g[c] \in TreeNodes
            BY <2>1, <3>1 DEF TreeNodes
        <3>4. g[c].parent = b.parent /\ g[c].isRoot = TRUE /\ g[c].edge = "always"
              /\ g[c].edited = a.edited /\ g[c].placeholder = a.placeholder
            BY <2>1, <3>1 DEF TreeNodes
        <3>. QED
            BY <2>3, <3>2, <3>3, <3>4 DEF a, b
    <2>4. CASE t[c].parent = n /\ ~t[n].isRoot
        <3>1. g[c] = [a EXCEPT !.parent = b.parent]
            BY <1>1, <2>4 DEF removeNodeFromTree
        <3>2. b.isRoot = FALSE /\ a.isRoot = FALSE
            <4>1. a.parent # Start
                <5>1. n # Start
                    BY NodesAreNumbers DEF IsTree
                <5>. QED
                    BY <2>4, <5>1
            <4>2. a.isRoot <=> a.parent = Start
                BY <1>1 DEF IsTree
            <4>. QED
                BY <2>1, <2>4, <4>1, <4>2 DEF TreeNodes
        <3>. HIDE DEF a, b
        <3>3. g[c] \in TreeNodes
            BY <2>1, <3>1 DEF TreeNodes
        <3>4. g[c].parent = b.parent /\ g[c].isRoot = a.isRoot /\ g[c].edge = a.edge
              /\ g[c].edited = a.edited /\ g[c].placeholder = a.placeholder
            BY <2>1, <3>1 DEF TreeNodes
        <3>. QED
            BY <2>4, <3>2, <3>3, <3>4 DEF a, b
    <2>. QED
        BY <2>2, <2>3, <2>4
<1>4. g \in [DOMAIN g -> TreeNodes]
    BY <1>3 DEF removeNodeFromTree
<1>. HIDE DEF g
<1>5. Removed(g, t, n)
    BY <1>1, <1>3, <1>4 DEF Removed
<1>. QED
    BY <1>5 DEF g

LEMMA RemoveKeepsTree ==
    ASSUME NEW t, IsTree(t), NEW n \in DOMAIN t, NEW g, Removed(g, t, n)
    PROVE  IsTree(g)
<1>1. /\ DOMAIN g = DOMAIN t \ {n} /\ g \in [DOMAIN g -> TreeNodes]
      /\ \A c \in DOMAIN g :
            /\ g[c].parent = IF t[c].parent = n THEN t[n].parent ELSE t[c].parent
            /\ g[c].isRoot = IF t[c].parent = n THEN t[n].isRoot ELSE t[c].isRoot
    BY DEF Removed
<1>2. PICK r \in Ranks(t) : Ranked(t, r)
    BY DEF IsTree
<1>3. /\ DOMAIN t \in SUBSET AllNodes
      /\ \A c \in DOMAIN t : t[c].parent \in DOMAIN t \cup {Start}
      /\ \A c \in DOMAIN t : t[c].isRoot <=> t[c].parent = Start
    BY DEF IsTree
<1>4. t[n].parent # n
    <2>1. t[n].parent \in DOMAIN t => r[t[n].parent] < r[n] /\ r[n] \in Nat
        BY <1>2 DEF Ranks, Ranked
    <2>. QED
        BY <2>1
<1>5. \A c \in DOMAIN g : g[c].parent \in DOMAIN g \cup {Start}
    BY <1>1, <1>3, <1>4
<1>6. \A c \in DOMAIN g : g[c].isRoot <=> g[c].parent = Start
    BY <1>1, <1>3, NodesAreNumbers
<1>. DEFINE q == [c \in DOMAIN g |-> r[c]]
<1>7. q \in Ranks(g)
    BY <1>1, <1>2 DEF Ranks
<1>8. Ranked(g, q)
    <2>. SUFFICES ASSUME NEW c \in DOMAIN g, g[c].parent \in DOMAIN g
                  PROVE  r[g[c].parent] < r[c]
        BY DEF Ranked
    <2>1. \A x \in DOMAIN t : r[x] \in Nat /\ (t[x].parent \in DOMAIN t => r[t[x].parent] < r[x])
        BY <1>2 DEF Ranks, Ranked
    <2>2. c \in DOMAIN t /\ n \in DOMAIN t /\ g[c].parent \in DOMAIN t
        BY <1>1
    <2>3. CASE t[c].parent # n
        BY <1>1, <2>1, <2>2, <2>3
    <2>4. CASE t[c].parent = n
        <3>1. g[c].parent = t[n].parent
            BY <1>1, <2>4
        <3>2. r[n] < r[c] /\ r[t[n].parent] < r[n] /\ r[n] \in Nat /\ r[c] \in Nat
              /\ r[t[n].parent] \in Nat
            BY <2>1, <2>2, <2>4, <3>1
        <3>. QED
            BY <3>1, <3>2
    <2>. QED
        BY <2>3, <2>4
<1>. HIDE DEF q
<1>. QED
    BY <1>1, <1>3, <1>5, <1>6, <1>7, <1>8 DEF IsTree

LEMMA RemoveKeepsOver ==
    ASSUME NEW t, IsTree(t), NEW n \in DOMAIN t, NEW g, Removed(g, t, n),
           NEW p \in DOMAIN g, NEW c \in DOMAIN g, Over(t, p, c)
    PROVE  Over(g, p, c)
<1>1. /\ DOMAIN g = DOMAIN t \ {n}
      /\ \A x \in DOMAIN g : g[x].parent = IF t[x].parent = n THEN t[n].parent ELSE t[x].parent
    BY DEF Removed
<1>. SUFFICES ASSUME NEW S \in SUBSET DOMAIN g, c \in S, Upwards(g, S) PROVE p \in S
    BY DEF Over
<1>2. CASE \E x \in S : t[x].parent = n
    <2>1. Upwards(t, S \cup {n})
        <3>1. ASSUME NEW x \in S, t[x].parent \in DOMAIN t PROVE t[x].parent \in S \cup {n}
            BY <1>1, <3>1 DEF Upwards
        <3>2. ASSUME t[n].parent \in DOMAIN t PROVE t[n].parent \in S \cup {n}
            BY <1>1, <1>2, <3>2 DEF Upwards
        <3>. QED
            BY <3>1, <3>2 DEF Upwards
    <2>2. S \cup {n} \in SUBSET DOMAIN t
        BY <1>1
    <2>3. p \in S \cup {n}
        BY <2>1, <2>2 DEF Over
    <2>. QED
        BY <1>1, <2>3
<1>3. CASE \A x \in S : t[x].parent # n
    <2>1. Upwards(t, S)
        BY <1>1, <1>3 DEF Upwards
    <2>. QED
        BY <1>1, <2>1 DEF Over
<1>. QED
    BY <1>2, <1>3

(* The tree g is t with the new node n below parent, above the nodes below.*)
Added(g, t, parent, below, n) ==
    /\ DOMAIN g = DOMAIN t \cup {n} /\ g \in [DOMAIN g -> TreeNodes]
    /\ g[n].parent = parent /\ (g[n].isRoot <=> parent = Start)
    /\ g[n].edited = FALSE /\ g[n].placeholder = TRUE
    /\ \A c \in DOMAIN t :
          /\ g[c].parent = IF c \in below THEN n ELSE t[c].parent
          /\ g[c].isRoot = IF c \in below THEN FALSE ELSE t[c].isRoot
          /\ g[c].edge = t[c].edge
          /\ g[c].edited = t[c].edited /\ g[c].placeholder = t[c].placeholder

LEMMA AddedNode ==
    ASSUME NEW t, IsTree(t), NEW parent \in DOMAIN t \cup {Start}, NEW below \in SUBSET DOMAIN t,
           NEW n \in NewNodes \ DOMAIN t
    PROVE  Added(addPlaceholderNode(t, parent, below, n), t, parent, below, n)
<1>. DEFINE g == addPlaceholderNode(t, parent, below, n)
            new == [parent |-> parent, edge |-> "none", isRoot |-> parent = Start,
                    edited |-> FALSE, placeholder |-> TRUE]
<1>1. DOMAIN g = DOMAIN t \cup {n} /\ n \in AllNodes /\ n \notin below
    BY DEF addPlaceholderNode, AllNodes
<1>2. \A c \in DOMAIN t : t[c] \in TreeNodes
    BY DEF IsTree
<1>3. parent \in AllNodes \cup {Start}
    BY DEF IsTree
<1>4. g[n] = new
    BY <1>1 DEF addPlaceholderNode
<1>5. /\ g[n] \in TreeNodes /\ g[n].parent = parent /\ (g[n].isRoot <=> parent = Start)
      /\ g[n].edited = FALSE /\ g[n].placeholder = TRUE
    <2>1. new \in TreeNodes
        BY <1>3 DEF TreeNodes
    <2>2. new.parent = parent /\ new.edited = FALSE /\ new.placeholder = TRUE
        OBVIOUS
    <2>3. new.isRoot = (parent = Start)
        OBVIOUS
    <2>. HIDE DEF g, new
    <2>. QED
        BY <1>4, <2>1, <2>2, <2>3, Zenon
<1>6. ASSUME NEW c \in DOMAIN t
      PROVE  /\ g[c] \in TreeNodes
             /\ g[c].parent = IF c \in below THEN n ELSE t[c].parent
             /\ g[c].isRoot = IF c \in below THEN FALSE ELSE t[c].isRoot
             /\ g[c].edge = t[c].edge
             /\ g[c].edited = t[c].edited /\ g[c].placeholder = t[c].placeholder
    <2>. DEFINE a == t[c]
    <2>1. a \in TreeNodes /\ c # n
        BY <1>2
    <2>2. CASE c \in below
        <3>1. g[c] = [a EXCEPT !.parent = n, !.isRoot = FALSE]
            BY <1>1, <2>1, <2>2 DEF addPlaceholderNode
        <3>. HIDE DEF a, g
        <3>2. g[c] \in TreeNodes
            BY <1>1, <2>1, <3>1 DEF TreeNodes
        <3>3. g[c].parent = n /\ g[c].isRoot = FALSE /\ g[c].edge = a.edge
              /\ g[c].edited = a.edited /\ g[c].placeholder = a.placeholder
            BY <2>1, <3>1 DEF TreeNodes
        <3>. QED
            BY <2>2, <3>2, <3>3 DEF a
    <2>3. CASE c \notin below
        <3>1. g[c] = a
            BY <1>1, <2>1, <2>3 DEF addPlaceholderNode
        <3>. HIDE DEF g
        <3>. QED
            BY <2>1, <2>3, <3>1
    <2>. QED
        BY <2>2, <2>3
<1>7. g \in [DOMAIN g -> TreeNodes]
    <2>1. \A c \in DOMAIN g : g[c] \in TreeNodes
        BY <1>1, <1>5, <1>6
    <2>2. g = [c \in DOMAIN g |-> g[c]]
        BY DEF addPlaceholderNode
    <2>. HIDE DEF g
    <2>. QED
        BY <2>1, <2>2
<1>. HIDE DEF g
<1>8. Added(g, t, parent, below, n)
    BY <1>1, <1>5, <1>6, <1>7 DEF Added
<1>. QED
    BY <1>8 DEF g

LEMMA AddKeepsTree ==
    ASSUME NEW t, IsTree(t), NEW parent \in DOMAIN t \cup {Start}, NEW below \in SUBSET DOMAIN t,
           \A c \in below : t[c].parent = parent,
           NEW n \in NewNodes \ DOMAIN t, NEW g, Added(g, t, parent, below, n)
    PROVE  IsTree(g)
<1>1. PICK r \in Ranks(t) : Ranked(t, r)
    BY DEF IsTree
<1>2. /\ DOMAIN t \in SUBSET AllNodes
      /\ \A c \in DOMAIN t : t[c].parent \in DOMAIN t \cup {Start}
      /\ \A c \in DOMAIN t : t[c].isRoot <=> t[c].parent = Start
    BY DEF IsTree
<1>3. n \in AllNodes /\ n # Start /\ Start \notin DOMAIN t /\ parent # n
    BY <1>2, NodesAreNumbers DEF AllNodes
<1>4. DOMAIN g \in SUBSET AllNodes /\ g \in [DOMAIN g -> TreeNodes]
    BY <1>2, <1>3 DEF Added
<1>5. \A c \in DOMAIN g : g[c].parent \in DOMAIN g \cup {Start}
    BY <1>2 DEF Added
<1>6. \A c \in DOMAIN g : g[c].isRoot <=> g[c].parent = Start
    BY <1>2, <1>3 DEF Added
<1>. DEFINE low == IF parent = Start THEN 0 ELSE r[parent]
            q == [c \in DOMAIN g |-> IF c = n THEN 2 * low + 1 ELSE 2 * r[c]]
<1>7. low \in Nat /\ \A c \in DOMAIN t : r[c] \in Nat \ {0}
    BY <1>1 DEF Ranks
<1>8. q \in Ranks(g)
    <2>. HIDE DEF low
    <2>. SUFFICES ASSUME NEW c \in DOMAIN g
                  PROVE  (IF c = n THEN 2 * low + 1 ELSE 2 * r[c]) \in Nat \ {0}
        BY DEF Ranks
    <2>1. c = n \/ r[c] \in Nat \ {0}
        BY <1>7 DEF Added
    <2>. QED
        BY <1>7, <2>1
<1>9. Ranked(g, q)
    <2>. SUFFICES ASSUME NEW c \in DOMAIN g, g[c].parent \in DOMAIN g
                  PROVE  q[g[c].parent] < q[c]
        BY DEF Ranked
    <2>1. CASE c = n
        <3>1. g[c].parent = parent /\ parent \in DOMAIN t /\ low = r[parent]
            BY <1>3, <2>1 DEF Added
        <3>2. q[c] = 2 * low + 1 /\ q[g[c].parent] = 2 * r[parent]
            BY <1>3, <2>1, <3>1 DEF Added
        <3>. HIDE DEF q, low
        <3>. QED
            BY <1>7, <3>1, <3>2
    <2>2. CASE c # n /\ c \in below
        <3>1. c \in DOMAIN t /\ g[c].parent = n /\ t[c].parent = parent
            BY <2>2 DEF Added
        <3>2. q[c] = 2 * r[c] /\ q[g[c].parent] = 2 * low + 1
            BY <2>2, <3>1
        <3>3. low < r[c]
            BY <1>1, <1>7, <3>1 DEF Ranked
        <3>. HIDE DEF q, low
        <3>. QED
            BY <1>7, <3>1, <3>2, <3>3
    <2>3. CASE c # n /\ c \notin below
        <3>1. c \in DOMAIN t /\ g[c].parent = t[c].parent
            BY <2>3 DEF Added
        <3>2. t[c].parent \in DOMAIN t /\ t[c].parent # n
            BY <1>2, <1>3, <3>1 DEF Added
        <3>3. q[c] = 2 * r[c] /\ q[g[c].parent] = 2 * r[t[c].parent]
            BY <2>3, <3>1, <3>2
        <3>4. r[t[c].parent] < r[c]
            BY <1>1, <3>1, <3>2 DEF Ranked
        <3>. HIDE DEF q, low
        <3>. QED
            BY <1>7, <3>1, <3>2, <3>3, <3>4
    <2>. QED
        BY <2>1, <2>2, <2>3
<1>. HIDE DEF q
<1>. QED
    BY <1>4, <1>5, <1>6, <1>8, <1>9 DEF IsTree

LEMMA AddKeepsOver ==
    ASSUME NEW t, IsTree(t), NEW parent \in DOMAIN t \cup {Start}, NEW below \in SUBSET DOMAIN t,
           \A c \in below : t[c].parent = parent,
           NEW n \in NewNodes \ DOMAIN t, NEW g, Added(g, t, parent, below, n),
           NEW p \in DOMAIN t, NEW c \in DOMAIN t, Over(t, p, c)
    PROVE  Over(g, p, c)
<1>. SUFFICES ASSUME NEW S \in SUBSET DOMAIN g, c \in S, Upwards(g, S) PROVE p \in S
    BY DEF Over
<1>1. S \ {n} \in SUBSET DOMAIN t /\ c \in S \ {n}
    BY DEF Added
<1>2. Upwards(t, S \ {n})
    <2>. SUFFICES ASSUME NEW x \in S \ {n}, t[x].parent \in DOMAIN t PROVE t[x].parent \in S
        BY DEF Upwards
    <2>1. x \in DOMAIN t
        BY <1>1
    <2>2. CASE x \in below
        <3>1. g[x].parent = n /\ n \in DOMAIN g /\ t[x].parent = parent
            BY <2>1, <2>2 DEF Added
        <3>2. n \in S
            BY <3>1 DEF Upwards
        <3>3. g[n].parent = parent /\ parent \in DOMAIN g
            BY <3>1 DEF Added
        <3>. QED
            BY <3>1, <3>2, <3>3 DEF Upwards
    <2>3. CASE x \notin below
        <3>1. g[x].parent = t[x].parent /\ t[x].parent \in DOMAIN g
            BY <2>1, <2>3 DEF Added
        <3>. QED
            BY <3>1 DEF Upwards
    <2>. QED
        BY <2>2, <2>3
<1>. QED
    BY <1>1, <1>2 DEF Over

LEMMA SameParents ==
    ASSUME NEW t, NEW g, DOMAIN g = DOMAIN t,
           \A c \in DOMAIN t : g[c].parent = t[c].parent,
           NEW p, NEW c \in DOMAIN t, Over(t, p, c)
    PROVE  Over(g, p, c)
<1>. SUFFICES ASSUME NEW S \in SUBSET DOMAIN t, c \in S, Upwards(g, S) PROVE p \in S
    BY DEF Over
<1>1. Upwards(t, S)
    BY DEF Upwards
<1>. QED
    BY <1>1 DEF Over

LEMMA SavedGraph ==
    ASSUME NEW h \in Graphs, NEW n \in OldNodes
    PROVE  /\ h[n].parent \in OldNodes \cup {Start} /\ h[n].parent < n
           /\ h[n].parent # n /\ h[n].edge \in EdgeTypes
           /\ h[n].parent = Start => h[n].edge = "always"
<1>1. /\ h[n] \in [parent : OldNodes \cup {Start}, edge : EdgeTypes]
      /\ h[n].parent < n /\ (h[n].parent = Start => h[n].edge = "always")
    BY DEF Graphs
<1>2. h[n].parent \in Nat /\ n \in Nat
    <2>1. OldNodes \subseteq Nat /\ Start \in Nat
        BY MakerAssumption DEF Start
    <2>2. h[n].parent \in OldNodes \cup {Start}
        BY <1>1
    <2>. QED
        BY <2>1, <2>2
<1>. QED
    BY <1>1, <1>2

LEMMA RemoveKeepsInherits ==
    ASSUME original \in Graphs, NEW t, IsTree(t), NEW n \in DOMAIN t,
           \A c \in OldNodes \cap DOMAIN t : Inherits(t, c),
           NEW g, Removed(g, t, n), NEW c \in OldNodes \cap DOMAIN g
    PROVE  Inherits(g, c)
<1>. DEFINE p == original[c].parent
<1>1. /\ DOMAIN g = DOMAIN t \ {n} /\ c \in DOMAIN t /\ Inherits(t, c)
      /\ g[c].edge = (IF t[c].parent = n /\ t[n].isRoot THEN "always" ELSE t[c].edge)
      /\ g[c].edited = t[c].edited
    BY DEF Removed
<1>2. p \in OldNodes \cup {Start} /\ p # c /\ (p = Start => original[c].edge = "always")
    BY SavedGraph
<1>. HIDE DEF p
<1>3. p \in DOMAIN g => Over(g, p, c) /\ Over(t, p, c)
    <2>. SUFFICES ASSUME p \in DOMAIN g PROVE Over(g, p, c) /\ Over(t, p, c)
        OBVIOUS
    <2>1. Over(t, p, c)
        BY <1>1 DEF Inherits, p
    <2>. QED
        BY <2>1, RemoveKeepsOver
<1>4. ASSUME p \in DOMAIN g \cup {Start} PROVE g[c].edited \/ g[c].edge = original[c].edge
    <2>1. t[c].edited \/ t[c].edge = original[c].edge
        BY <1>1, <1>4 DEF Inherits, p
    <2>2. CASE ~(t[c].parent = n /\ t[n].isRoot)
        BY <1>1, <2>1, <2>2
    <2>3. CASE p = Start
        BY <1>1, <1>2, <2>1, <2>3
    <2>4. CASE p \in DOMAIN g /\ t[c].parent = n /\ t[n].isRoot
        <3>1. t[n].parent = Start /\ Start \notin DOMAIN t
            BY <2>4, NodesAreNumbers DEF IsTree
        <3>2. Upwards(t, {c, n})
            BY <2>4, <3>1 DEF Upwards
        <3>3. {c, n} \in SUBSET DOMAIN t /\ c \in {c, n}
            BY <1>1
        <3>4. p \in {c, n}
            BY <1>3, <2>4, <3>2, <3>3 DEF Over
        <3>. QED
            BY <1>1, <1>2, <2>4, <3>4
    <2>. QED
        BY <1>4, <2>2, <2>3, <2>4
<1>. QED
    BY <1>3, <1>4 DEF Inherits, p

LEMMA AddKeepsInherits ==
    ASSUME original \in Graphs, NEW t, IsTree(t), NEW parent \in DOMAIN t \cup {Start},
           NEW below \in SUBSET DOMAIN t, \A c \in below : t[c].parent = parent,
           \A c \in OldNodes \cap DOMAIN t : Inherits(t, c),
           NEW n \in NewNodes \ DOMAIN t, NEW g, Added(g, t, parent, below, n),
           NEW c \in OldNodes \cap DOMAIN g
    PROVE  Inherits(g, c)
<1>. DEFINE p == original[c].parent
<1>1. n \notin OldNodes /\ n # Start
    BY NodesAreNumbers DEF AllNodes
<1>2. /\ DOMAIN g = DOMAIN t \cup {n} /\ c \in DOMAIN t /\ Inherits(t, c)
      /\ g[c].edge = t[c].edge /\ g[c].edited = t[c].edited
    BY <1>1 DEF Added
<1>3. p \in OldNodes \cup {Start}
    BY SavedGraph
<1>. HIDE DEF p
<1>4. ASSUME p \in DOMAIN g PROVE Over(g, p, c)
    <2>1. p \in DOMAIN t
        BY <1>1, <1>2, <1>3, <1>4
    <2>2. Over(t, p, c)
        BY <1>2, <2>1 DEF Inherits, p
    <2>. QED
        BY <1>2, <2>1, <2>2, AddKeepsOver
<1>5. ASSUME p \in DOMAIN g \cup {Start} PROVE g[c].edited \/ g[c].edge = original[c].edge
    <2>1. p \in DOMAIN t \cup {Start}
        BY <1>1, <1>2, <1>3, <1>5
    <2>. QED
        BY <1>2, <2>1 DEF Inherits, p
<1>. QED
    BY <1>4, <1>5 DEF Inherits, p

(* Drawing, with the values that the step leaves.                          *)
TreeDrawn(t) ==
    /\ IsTree(t) /\ \A n \in OldNodes \cap DOMAIN t : Inherits(t, n)
FormFitsTo(f, t) ==
    /\ f.mode \in {"idle", "add", "edit"}
    /\ f.mode = "idle" => f.options = {}
    /\ f.mode # "idle" => f.node \in DOMAIN t
    /\ f.mode = "add" => f.node \in NewNodes
    /\ \A n \in DOMAIN t : t[n].placeholder <=> f.mode = "add" /\ n = f.node
Plain(t) == {n \in DOMAIN t : ~t[n].placeholder}

DrawnAs(t, f, total, deleted) ==
    /\ TreeDrawn(t) /\ FormFitsTo(f, t)
    /\ total = Cardinality(Plain(t)) /\ deleted = OldNodes \ DOMAIN t

LEMMA DrawnMeans ==
    Drawn <=> original \in Graphs /\ DrawnAs(tree, form, totalNodes, deletedNodes)
BY DEF Drawn, DrawnAs, TreeDrawn, FormFits, FormFitsTo, Clickable, Plain

LEMMA DrawnNext ==
    ASSUME Drawn, original' = original, DrawnAs(tree', form', totalNodes', deletedNodes')
    PROVE  Drawn'
<1>1. original' \in Graphs
    BY DEF Drawn
<1>. QED
    BY <1>1 DEF Drawn, DrawnAs, TreeDrawn, FormFits, FormFitsTo, Clickable, Plain, Inherits

LEMMA TreeNodesFinite ==
    ASSUME NEW t, IsTree(t), NEW S \in SUBSET DOMAIN t
    PROVE  S \in SUBSET AllNodes /\ IsFiniteSet(S) /\ Cardinality(S) \in Nat
<1>1. S \in SUBSET AllNodes
    BY DEF IsTree
<1>. QED
    BY <1>1, NodesAreNumbers, FS_Subset, FS_CardinalityType

(* cancelNodeForm leaves the nodes that are not placeholders.              *)
LEMMA FormCancelled ==
    ASSUME Drawn
    PROVE  LET t == cancelNodeForm(tree)
           IN  /\ TreeDrawn(t) /\ DOMAIN t = Clickable
               /\ \A c \in DOMAIN t : ~t[c].placeholder
               /\ \A c \in DOMAIN t : tree[c].parent \in Clickable \cup {Start} =>
                      t[c].parent = tree[c].parent
               /\ OldNodes \cap DOMAIN t = OldNodes \cap DOMAIN tree
<1>. DEFINE t == cancelNodeForm(tree)
<1>1. TreeDrawn(tree) /\ FormFitsTo(form, tree) /\ original \in Graphs
    BY DrawnMeans DEF DrawnAs
<1>2. CASE form.mode = "add"
    <2>. DEFINE n == form.node
    <2>1. n \in DOMAIN tree /\ n \in NewNodes /\ t = removeNodeFromTree(tree, n)
          /\ \A c \in DOMAIN tree : tree[c].placeholder <=> c = n
        BY <1>1, <1>2 DEF FormFitsTo, cancelNodeForm
    <2>. HIDE DEF n, t
    <2>2. Removed(t, tree, n)
        BY <1>1, <2>1, RemovedNode DEF TreeDrawn
    <2>3. TreeDrawn(t)
        <3>1. IsTree(t)
            BY <1>1, <2>1, <2>2, RemoveKeepsTree DEF TreeDrawn
        <3>2. ASSUME NEW c \in OldNodes \cap DOMAIN t PROVE Inherits(t, c)
            BY <1>1, <2>1, <2>2, RemoveKeepsInherits DEF TreeDrawn
        <3>. QED
            BY <3>1, <3>2 DEF TreeDrawn
    <2>4. n \notin OldNodes
        BY <2>1, NodesAreNumbers DEF AllNodes
    <2>5. n \notin Clickable /\ Clickable = DOMAIN tree \ {n}
        BY <2>1 DEF Clickable
    <2>6. /\ DOMAIN t = Clickable /\ \A c \in DOMAIN t : ~t[c].placeholder
          /\ OldNodes \cap DOMAIN t = OldNodes \cap DOMAIN tree
        BY <2>1, <2>2, <2>4, <2>5 DEF Removed
    <2>7. n # Start
        BY <2>1, NodesAreNumbers DEF AllNodes
    <2>8. \A c \in DOMAIN t : tree[c].parent \in Clickable \cup {Start} =>
                                  t[c].parent = tree[c].parent
        BY <2>2, <2>5, <2>7 DEF Removed
    <2>. QED
        BY <2>3, <2>6, <2>8 DEF t
<1>3. CASE form.mode # "add"
    <2>1. t = tree /\ \A c \in DOMAIN tree : ~tree[c].placeholder
        BY <1>1, <1>3 DEF FormFitsTo, cancelNodeForm
    <2>. HIDE DEF t
    <2>. QED
        BY <1>1, <2>1 DEF Clickable, t
<1>. QED
    BY <1>2, <1>3

LEMMA InitDrawn == MakerInit => Drawn
<1>. SUFFICES ASSUME MakerInit PROVE Drawn
    OBVIOUS
<1>1. /\ original \in Graphs /\ tree = buildTree(original) /\ totalNodes = Cardinality(OldNodes)
      /\ deletedNodes = {} /\ form = Idle
    BY DEF MakerInit
<1>2. \A n \in OldNodes : /\ original[n].parent \in OldNodes \cup {Start}
                          /\ original[n].parent < n /\ original[n].edge \in EdgeTypes
    BY <1>1, SavedGraph
<1>3. /\ DOMAIN tree = OldNodes
      /\ \A n \in OldNodes : tree[n] = [parent |-> original[n].parent, edge |-> original[n].edge,
                         isRoot |-> original[n].parent = Start,
                         edited |-> FALSE, placeholder |-> FALSE]
    BY <1>1 DEF buildTree
<1>4. ASSUME NEW n \in OldNodes
      PROVE  /\ tree[n] \in TreeNodes
             /\ tree[n].parent = original[n].parent /\ tree[n].edge = original[n].edge
             /\ (tree[n].isRoot <=> original[n].parent = Start) /\ ~tree[n].placeholder
    <2>. DEFINE p == original[n].parent e == original[n].edge b == (p = Start)
                a == [parent |-> p, edge |-> e, isRoot |-> b, edited |-> FALSE,
                      placeholder |-> FALSE]
    <2>1. tree[n] = a
        BY <1>3
    <2>2. b \in BOOLEAN /\ p \in AllNodes \cup {Start} /\ e \in EdgeTypes /\ (b <=> p = Start)
        BY <1>2 DEF AllNodes
    <2>. HIDE DEF p, e, b
    <2>3. a \in TreeNodes
        BY <2>2 DEF TreeNodes
    <2>4. a.parent = p /\ a.edge = e /\ a.placeholder = FALSE
        OBVIOUS
    <2>5. a.isRoot = b
        OBVIOUS
    <2>. HIDE DEF a
    <2>6. tree[n].parent = p /\ tree[n].edge = e /\ ~tree[n].placeholder /\ tree[n] \in TreeNodes
        BY <2>1, <2>3, <2>4
    <2>7. tree[n].isRoot <=> p = Start
        BY <2>1, <2>2, <2>5, Zenon
    <2>. QED
        BY <2>6, <2>7 DEF p, e
<1>5. tree \in [DOMAIN tree -> TreeNodes]
    BY <1>1, <1>3, <1>4 DEF buildTree
<1>6. OldNodes \subseteq AllNodes /\ OldNodes \subseteq Nat \ {0}
    BY MakerAssumption DEF AllNodes
<1>7. IsTree(tree)
    <2>. DEFINE r == [n \in OldNodes |-> n]
    <2>1. r \in Ranks(tree)
        BY <1>3, <1>6 DEF Ranks
    <2>2. Ranked(tree, r)
        BY <1>2, <1>3, <1>4 DEF Ranked
    <2>. HIDE DEF r
    <2>. QED
        BY <1>2, <1>3, <1>4, <1>5, <1>6, <2>1, <2>2 DEF IsTree
<1>8. ASSUME NEW n \in OldNodes PROVE Inherits(tree, n)
    <2>1. original[n].parent \in DOMAIN tree => Over(tree, original[n].parent, n)
        BY <1>4 DEF Over, Upwards
    <2>. QED
        BY <1>4, <2>1 DEF Inherits
<1>9. FormFitsTo(form, tree)
    BY <1>1, <1>3, <1>4 DEF FormFitsTo, Idle
<1>10. Plain(tree) = OldNodes
    BY <1>3, <1>4 DEF Plain
<1>. QED
    BY <1>1, <1>3, <1>7, <1>8, <1>9, <1>10, DrawnMeans DEF DrawnAs, TreeDrawn

LEMMA AddFormKeeps ==
    ASSUME Drawn, original' = original, NEW parent \in Clickable \cup {Start},
           NEW below \in SUBSET (Kids(tree, parent) \cap Clickable), startAddNode(parent, below)
    PROVE  Drawn'
<1>. DEFINE t == cancelNodeForm(tree)
            n == CHOOSE m \in Unused(t) : TRUE
            g == addPlaceholderNode(t, parent, below, n)
<1>1. /\ TreeDrawn(t) /\ DOMAIN t = Clickable
      /\ \A c \in DOMAIN t : ~t[c].placeholder
      /\ \A c \in DOMAIN t : tree[c].parent \in Clickable \cup {Start} =>
             t[c].parent = tree[c].parent
      /\ OldNodes \cap DOMAIN t = OldNodes \cap DOMAIN tree
    BY FormCancelled
<1>2. /\ Unused(t) # {} /\ tree' = g
      /\ form' = [mode |-> "add", node |-> n, options |-> addOptions(g, n)]
      /\ totalNodes' = totalNodes /\ deletedNodes' = deletedNodes
    BY DEF startAddNode, OpenForm
<1>. HIDE DEF t
<1>3. n \in NewNodes \ DOMAIN t
    BY <1>2 DEF Unused
<1>. HIDE DEF n
<1>4. /\ parent \in DOMAIN t \cup {Start} /\ below \in SUBSET DOMAIN t
      /\ \A c \in below : t[c].parent = parent
    BY <1>1 DEF Kids
<1>5. Added(g, t, parent, below, n)
    BY <1>1, <1>3, <1>4, AddedNode DEF TreeDrawn
<1>. HIDE DEF g
<1>6. TreeDrawn(g)
    <2>1. IsTree(g)
        BY <1>1, <1>3, <1>4, <1>5, AddKeepsTree DEF TreeDrawn
    <2>2. ASSUME NEW c \in OldNodes \cap DOMAIN g PROVE Inherits(g, c)
        <3>1. original \in Graphs
            BY DEF Drawn
        <3>. QED
            BY <1>1, <1>3, <1>4, <1>5, <3>1, AddKeepsInherits DEF TreeDrawn
    <2>. QED
        BY <2>1, <2>2 DEF TreeDrawn
<1>7. DOMAIN g = DOMAIN t \cup {n} /\ g[n].placeholder = TRUE
      /\ \A c \in DOMAIN t : g[c].placeholder = t[c].placeholder
    BY <1>5 DEF Added
<1>8. FormFitsTo(form', g)
    BY <1>1, <1>2, <1>3, <1>7 DEF FormFitsTo
<1>9. Plain(g) = Clickable
    BY <1>1, <1>3, <1>7 DEF Plain
<1>10. n \notin OldNodes
    BY <1>3, NodesAreNumbers DEF AllNodes
<1>11. OldNodes \ DOMAIN g = OldNodes \ DOMAIN tree
    BY <1>1, <1>7, <1>10
<1>12. DrawnAs(tree', form', totalNodes', deletedNodes')
    BY <1>2, <1>6, <1>8, <1>9, <1>11 DEF DrawnAs, Drawn
<1>. QED
    BY <1>12, DrawnNext

(* The other ways to leave a form.                                         *)
LEMMA CancelKeeps ==
    ASSUME Drawn, original' = original, tree' = cancelNodeForm(tree),
           form'.mode \in {"idle", "edit"}, form'.mode = "idle" => form'.options = {},
           form'.mode = "edit" => form'.node \in Clickable,
           UNCHANGED <<totalNodes, deletedNodes>>
    PROVE  Drawn'
<1>. DEFINE t == cancelNodeForm(tree)
<1>1. /\ TreeDrawn(t) /\ DOMAIN t = Clickable
      /\ \A c \in DOMAIN t : ~t[c].placeholder
      /\ OldNodes \cap DOMAIN t = OldNodes \cap DOMAIN tree
    BY FormCancelled
<1>. HIDE DEF t
<1>2. FormFitsTo(form', t)
    BY <1>1 DEF FormFitsTo
<1>3. Plain(t) = Clickable /\ OldNodes \ DOMAIN t = OldNodes \ DOMAIN tree
    BY <1>1 DEF Plain
<1>4. DrawnAs(tree', form', totalNodes', deletedNodes')
    BY <1>1, <1>2, <1>3 DEF DrawnAs, Drawn, t
<1>. QED
    BY <1>4, DrawnNext

LEMMA ConfirmKeeps ==
    ASSUME Drawn, original' = original, NEW type \in EdgeTypes, confirmNodeForm(type)
    PROVE  Drawn'
<1>. DEFINE n == form.node
            a == tree[n]
            b == [a EXCEPT !.edge = type, !.edited = @ \/ form.mode = "edit",
                           !.placeholder = FALSE]
            g == tree'
<1>1. /\ TreeDrawn(tree) /\ FormFitsTo(form, tree) /\ original \in Graphs
      /\ totalNodes = Cardinality(Plain(tree)) /\ deletedNodes = OldNodes \ DOMAIN tree
    BY DrawnMeans DEF DrawnAs
<1>2. /\ type \in form.options /\ form' = Idle /\ deletedNodes' = deletedNodes
      /\ totalNodes' = totalNodes + (IF form.mode = "add" THEN 1 ELSE 0)
      /\ g = [tree EXCEPT ![n].edge = type, ![n].edited = @ \/ form.mode = "edit",
                          ![n].placeholder = FALSE]
    BY DEF confirmNodeForm
<1>3. n \in DOMAIN tree /\ form.mode \in {"add", "edit"} /\ (form.mode = "add" => n \in NewNodes)
    BY <1>1, <1>2 DEF FormFitsTo
<1>4. tree \in [DOMAIN tree -> TreeNodes] /\ a \in TreeNodes
    BY <1>1, <1>3 DEF TreeDrawn, IsTree
<1>5. DOMAIN g = DOMAIN tree /\ g[n] = b /\ \A c \in DOMAIN tree \ {n} : g[c] = tree[c]
    <2>. HIDE DEF n
    <2>. QED
        BY <1>2, <1>3, <1>4
<1>. HIDE DEF n, g
<1>6. /\ b \in TreeNodes /\ b.parent = a.parent /\ b.isRoot = a.isRoot
      /\ (form.mode = "edit" => b.edited = TRUE) /\ b.placeholder = FALSE
    <2>. DEFINE e == a.edited \/ form.mode = "edit"
    <2>1. e \in BOOLEAN /\ (form.mode = "edit" => e = TRUE)
        OBVIOUS
    <2>2. b = [a EXCEPT !.edge = type, !.edited = e, !.placeholder = FALSE]
        BY <1>4 DEF TreeNodes
    <2>. HIDE DEF a, b, e
    <2>. QED
        BY <1>4, <2>1, <2>2 DEF TreeNodes
<1>. HIDE DEF a, b
<1>7. \A c \in DOMAIN tree : g[c] \in TreeNodes /\ g[c].parent = tree[c].parent
                             /\ g[c].isRoot = tree[c].isRoot
    BY <1>4, <1>5, <1>6 DEF a
<1>8. IsTree(g)
    <2>1. PICK r \in Ranks(tree) : Ranked(tree, r)
        BY <1>1 DEF TreeDrawn, IsTree
    <2>2. r \in Ranks(g) /\ Ranked(g, r)
        BY <1>5, <1>7, <2>1 DEF Ranks, Ranked
    <2>3. /\ DOMAIN tree \in SUBSET AllNodes
          /\ \A c \in DOMAIN tree : tree[c].parent \in DOMAIN tree \cup {Start}
          /\ \A c \in DOMAIN tree : tree[c].isRoot <=> tree[c].parent = Start
        BY <1>1 DEF TreeDrawn, IsTree
    <2>4. g \in [DOMAIN g -> TreeNodes]
        <3>1. g = [c \in DOMAIN tree |-> g[c]]
            BY <1>2
        <3>. QED
            BY <1>5, <1>7, <3>1
    <2>. QED
        BY <1>5, <1>7, <2>2, <2>3, <2>4 DEF IsTree
<1>9. ASSUME NEW c \in OldNodes \cap DOMAIN g PROVE Inherits(g, c)
    <2>. DEFINE p == original[c].parent
    <2>1. c \in DOMAIN tree /\ Inherits(tree, c)
        BY <1>1, <1>5 DEF TreeDrawn
    <2>. HIDE DEF p
    <2>2. p \in DOMAIN g => Over(g, p, c)
        <3>1. p \in DOMAIN g => Over(tree, p, c)
            BY <1>5, <2>1 DEF Inherits, p
        <3>. QED
            BY <1>5, <1>7, <2>1, <3>1, SameParents
    <2>3. p \in DOMAIN g \cup {Start} => g[c].edited \/ g[c].edge = original[c].edge
        <3>1. CASE c = n
            <4>1. form.mode = "edit"
                BY <1>3, <3>1, NodesAreNumbers DEF AllNodes
            <4>. QED
                BY <1>5, <1>6, <3>1, <4>1
        <3>2. CASE c # n
            BY <1>5, <2>1, <3>2 DEF Inherits, p
        <3>. QED
            BY <3>1, <3>2
    <2>. QED
        BY <2>2, <2>3 DEF Inherits, p
<1>10. \A c \in DOMAIN g : ~g[c].placeholder
    BY <1>1, <1>3, <1>5, <1>6 DEF FormFitsTo, n
<1>11. FormFitsTo(form', g)
    BY <1>2, <1>10 DEF FormFitsTo, Idle
<1>12. totalNodes' = Cardinality(Plain(g))
    <2>1. Plain(g) = DOMAIN tree
        BY <1>5, <1>10 DEF Plain
    <2>2. CASE form.mode = "edit"
        <3>1. Plain(tree) = DOMAIN tree
            BY <1>1, <2>2 DEF Plain, FormFitsTo
        <3>2. Cardinality(DOMAIN tree) \in Nat
            BY <1>1, TreeNodesFinite DEF TreeDrawn
        <3>. QED
            BY <1>1, <1>2, <2>1, <2>2, <3>1, <3>2
    <2>3. CASE form.mode = "add"
        <3>1. Plain(tree) = DOMAIN tree \ {n}
            BY <1>1, <1>3, <2>3 DEF Plain, FormFitsTo, n
        <3>2. IsFiniteSet(DOMAIN tree) /\ Cardinality(DOMAIN tree) \in Nat
            BY <1>1, TreeNodesFinite DEF TreeDrawn
        <3>3. Cardinality(DOMAIN tree \ {n}) = Cardinality(DOMAIN tree) - 1
            BY <1>3, <3>2, FS_RemoveElement
        <3>. QED
            BY <1>1, <1>2, <2>1, <2>3, <3>1, <3>2, <3>3
    <2>. QED
        BY <1>3, <2>2, <2>3
<1>13. DrawnAs(tree', form', totalNodes', deletedNodes')
    BY <1>1, <1>2, <1>5, <1>8, <1>9, <1>11, <1>12 DEF DrawnAs, TreeDrawn, g
<1>. QED
    BY <1>13, DrawnNext

LEMMA DeleteKeeps ==
    ASSUME Drawn, rows = OldNodes, original' = original, NEW n \in Clickable, confirmDeleteNode(n)
    PROVE  Drawn'
<1>. DEFINE g == removeNodeFromTree(tree, n)
<1>1. /\ TreeDrawn(tree) /\ FormFitsTo(form, tree) /\ original \in Graphs
      /\ totalNodes = Cardinality(Plain(tree)) /\ deletedNodes = OldNodes \ DOMAIN tree
      /\ n \in DOMAIN tree /\ ~tree[n].placeholder
    BY DrawnMeans DEF DrawnAs, Clickable
<1>2. /\ tree' = g /\ deletedNodes' = deletedNodes \cup ({n} \cap OldNodes)
      /\ totalNodes' = totalNodes - 1
      /\ (form.mode = "idle" \/ form.node = n) => form' = Idle
      /\ ~(form.mode = "idle" \/ form.node = n) =>
             form'.mode = form.mode /\ form'.node = form.node
    <2>1. {nodeId(m) : m \in {k \in {n} : ~isNew(k)}} = {n} \cap OldNodes
        <3>1. n \in AllNodes
            BY <1>1 DEF TreeDrawn, IsTree
        <3>2. isNew(n) <=> n \notin OldNodes
            BY <3>1, NodesAreNumbers DEF isNew
        <3>. QED
            BY <3>2 DEF nodeId
    <2>. QED
        BY <2>1 DEF confirmDeleteNode, Delete, OpenForm
<1>3. Removed(g, tree, n)
    BY <1>1, RemovedNode DEF TreeDrawn
<1>. HIDE DEF g
<1>4. TreeDrawn(g)
    <2>1. IsTree(g)
        BY <1>1, <1>3, RemoveKeepsTree DEF TreeDrawn
    <2>2. ASSUME NEW c \in OldNodes \cap DOMAIN g PROVE Inherits(g, c)
        BY <1>1, <1>3, RemoveKeepsInherits DEF TreeDrawn
    <2>. QED
        BY <2>1, <2>2 DEF TreeDrawn
<1>5. DOMAIN g = DOMAIN tree \ {n} /\ \A c \in DOMAIN g : g[c].placeholder = tree[c].placeholder
    BY <1>3 DEF Removed
<1>6. FormFitsTo(form', g)
    <2>1. CASE form.mode = "idle" \/ form.node = n
        <3>1. form.mode # "add"
            BY <1>1, <2>1 DEF FormFitsTo
        <3>. QED
            BY <1>1, <1>2, <1>5, <2>1, <3>1 DEF FormFitsTo, Idle
    <2>2. CASE ~(form.mode = "idle" \/ form.node = n)
        BY <1>1, <1>2, <1>5, <2>2 DEF FormFitsTo
    <2>. QED
        BY <2>1, <2>2
<1>7. totalNodes' = Cardinality(Plain(g))
    <2>1. Plain(g) = Plain(tree) \ {n} /\ n \in Plain(tree) /\ Plain(tree) \in SUBSET DOMAIN tree
        BY <1>1, <1>5 DEF Plain
    <2>2. IsFiniteSet(Plain(tree))
        BY <1>1, <2>1, TreeNodesFinite DEF TreeDrawn
    <2>3. Cardinality(Plain(tree) \ {n}) = Cardinality(Plain(tree)) - 1
        BY <2>1, <2>2, FS_RemoveElement
    <2>. QED
        BY <1>1, <1>2, <2>1, <2>3
<1>8. DrawnAs(tree', form', totalNodes', deletedNodes')
    BY <1>1, <1>2, <1>4, <1>5, <1>6, <1>7 DEF DrawnAs
<1>. QED
    BY <1>8, DrawnNext

LEMMA DrawKeeps ==
    ASSUME Drawn, rows = OldNodes, original' = original, Change
    PROVE  Drawn'
<1>1. ASSUME NEW parent \in Clickable \cup {Start}, startAddNode(parent, {})
      PROVE  Drawn'
    BY <1>1, AddFormKeeps
<1>2. ASSUME NEW parent \in Clickable \cup {Start}, NEW child \in Kids(tree, parent) \cap Clickable,
             startAddNode(parent, {child})
      PROVE  Drawn'
    BY <1>2, AddFormKeeps
<1>3. ASSUME NEW n \in Clickable, startEditNode(n)
      PROVE  Drawn'
    <2>1. /\ tree' = cancelNodeForm(tree) /\ form'.mode = "edit" /\ form'.node = n
          /\ UNCHANGED <<totalNodes, deletedNodes>>
        BY <1>3 DEF startEditNode, OpenForm
    <2>. QED
        BY <2>1, CancelKeeps
<1>4. ASSUME closeForm
      PROVE  Drawn'
    <2>1. /\ tree' = cancelNodeForm(tree) /\ form'.mode = "idle" /\ form'.options = {}
          /\ UNCHANGED <<totalNodes, deletedNodes>>
        BY <1>4 DEF closeForm, Idle
    <2>. QED
        BY <2>1, CancelKeeps
<1>. QED
    BY <1>1, <1>2, <1>3, <1>4, ConfirmKeeps, DeleteKeeps DEF Change

(* Sets that grow step by step, within C.                                  *)
Grow(f, base, step, K) ==
    f = [k \in K |-> IF k = 0 THEN base ELSE step[f[k - 1]]]

LEMMA GrowthAgrees ==
    ASSUME NEW base, NEW step, NEW m \in Nat, NEW n \in Nat, NEW f, NEW g,
           Grow(f, base, step, 0 .. m), Grow(g, base, step, 0 .. n),
           NEW k \in Nat, k <= m, k <= n
    PROVE  f[k] = g[k]
<1>. DEFINE S == {i \in Nat : i <= m /\ i <= n /\ f[i] # g[i]}
<1>. SUFFICES ASSUME S # {} PROVE FALSE
    OBVIOUS
<1>1. PICK i \in S : \A j \in S : i <= j
    BY LeastNumber
<1>2. i \in 0 .. m /\ i \in 0 .. n /\ i \in Nat /\ f[i] # g[i]
    OBVIOUS
<1>3. /\ f[i] = IF i = 0 THEN base ELSE step[f[i - 1]]
      /\ g[i] = IF i = 0 THEN base ELSE step[g[i - 1]]
    BY <1>2 DEF Grow
<1>4. i # 0 /\ i - 1 \in Nat /\ i - 1 <= m /\ i - 1 <= n
    BY <1>2, <1>3
<1>5. i - 1 \notin S
    BY <1>1, <1>2
<1>. QED
    BY <1>2, <1>3, <1>4, <1>5

LEMMA GrowthExists ==
    ASSUME NEW base, NEW step
    PROVE  \E f : Grow(f, base, step, Nat)
<1>. DEFINE S == {n \in Nat : ~\E f : Grow(f, base, step, 0 .. n)}
<1>1. S = {}
    <2>. SUFFICES ASSUME S # {} PROVE FALSE
        OBVIOUS
    <2>1. PICK n \in S : \A j \in S : n <= j
        <3>1. S \in SUBSET Nat
            OBVIOUS
        <3>. HIDE DEF S
        <3>. QED
            BY <3>1, LeastNumber
    <2>2. n \in Nat /\ ~\E f : Grow(f, base, step, 0 .. n)
        OBVIOUS
    <2>3. n # 0
        <3>. SUFFICES ASSUME n = 0 PROVE FALSE
            OBVIOUS
        <3>. DEFINE g == [k \in 0 .. 0 |-> base]
        <3>1. Grow(g, base, step, 0 .. 0)
            BY DEF Grow
        <3>. HIDE DEF g
        <3>. QED
            BY <2>2, <3>1
    <2>4. PICK f : Grow(f, base, step, 0 .. n - 1)
        <3>1. n - 1 \in Nat /\ ~(n <= n - 1)
            BY <2>2, <2>3
        <3>2. n - 1 \notin S
            BY <2>1, <3>1
        <3>. QED
            BY <3>1, <3>2
    <2>. DEFINE g == [k \in 0 .. n |-> IF k = n THEN step[f[n - 1]] ELSE f[k]]
    <2>5. \A k \in 0 .. n : g[k] = IF k = 0 THEN base ELSE step[g[k - 1]]
        <3>. SUFFICES ASSUME NEW k \in 0 .. n PROVE g[k] = IF k = 0 THEN base ELSE step[g[k - 1]]
            OBVIOUS
        <3>1. k \in Nat /\ n \in Nat
            BY <2>2
        <3>2. CASE k = n
            <4>1. k # 0 /\ k - 1 \in 0 .. n /\ k - 1 # n
                BY <2>3, <3>1, <3>2
            <4>2. g[k - 1] = f[n - 1]
                BY <3>2, <4>1
            <4>. QED
                BY <3>2, <4>1, <4>2
        <3>3. CASE k # n
            <4>1. k \in 0 .. n - 1
                BY <3>1, <3>3
            <4>2. f[k] = IF k = 0 THEN base ELSE step[f[k - 1]]
                BY <2>4, <4>1 DEF Grow
            <4>3. k # 0 => k - 1 \in 0 .. n /\ k - 1 # n
                BY <3>1, <3>3
            <4>4. g[k] = f[k] /\ (k # 0 => g[k - 1] = f[k - 1])
                BY <3>3, <4>3
            <4>. QED
                BY <4>2, <4>4
        <3>. QED
            BY <3>2, <3>3
    <2>6. Grow(g, base, step, 0 .. n)
        BY <2>5 DEF Grow
    <2>. HIDE DEF g
    <2>. QED
        BY <2>2, <2>6
<1>. DEFINE c(n) == CHOOSE f : Grow(f, base, step, 0 .. n)
            h == [k \in Nat |-> c(k)[k]]
<1>2. \A n \in Nat : Grow(c(n), base, step, 0 .. n)
    <2>. SUFFICES ASSUME NEW n \in Nat PROVE Grow(c(n), base, step, 0 .. n)
        OBVIOUS
    <2>1. \E f : Grow(f, base, step, 0 .. n)
        BY <1>1
    <2>. QED
        BY <2>1, Zenon
<1>. HIDE DEF c
<1>3. \A k \in Nat : h[k] = IF k = 0 THEN base ELSE step[h[k - 1]]
    <2>. SUFFICES ASSUME NEW k \in Nat PROVE h[k] = IF k = 0 THEN base ELSE step[h[k - 1]]
        OBVIOUS
    <2>1. c(k)[k] = IF k = 0 THEN base ELSE step[c(k)[k - 1]]
        <3>1. Grow(c(k), base, step, 0 .. k) /\ k \in 0 .. k
            BY <1>2
        <3>. QED
            BY <3>1 DEF Grow
    <2>2. CASE k = 0
        BY <2>1, <2>2
    <2>3. CASE k # 0
        <3>1. k - 1 \in Nat /\ k - 1 <= k - 1 /\ k - 1 <= k
            BY <2>3
        <3>2. Grow(c(k), base, step, 0 .. k) /\ Grow(c(k - 1), base, step, 0 .. k - 1)
            BY <1>2, <3>1
        <3>3. c(k)[k - 1] = c(k - 1)[k - 1]
            BY <3>1, <3>2, GrowthAgrees
        <3>4. h[k] = c(k)[k] /\ h[k - 1] = c(k - 1)[k - 1]
            BY <3>1
        <3>. HIDE DEF h
        <3>. QED
            BY <2>1, <2>3, <3>3, <3>4
    <2>. QED
        BY <2>2, <2>3
<1>4. Grow(h, base, step, Nat)
    BY <1>3 DEF Grow
<1>. HIDE DEF h
<1>. QED
    BY <1>4

LEMMA GrowthWithin ==
    ASSUME NEW C, NEW base \in SUBSET C, NEW step, \A X \in SUBSET C : step[X] \in SUBSET C,
           NEW f, Grow(f, base, step, Nat), NEW k \in Nat
    PROVE  f[k] \in SUBSET C
<1>. DEFINE S == {i \in Nat : f[i] \notin SUBSET C}
<1>. SUFFICES ASSUME S # {} PROVE FALSE
    OBVIOUS
<1>1. PICK i \in S : \A j \in S : i <= j
    BY LeastNumber
<1>2. i \in Nat /\ f[i] \notin SUBSET C
    OBVIOUS
<1>3. f[i] = IF i = 0 THEN base ELSE step[f[i - 1]]
    BY <1>2 DEF Grow
<1>4. i # 0 /\ i - 1 \in Nat /\ ~(i <= i - 1)
    BY <1>2, <1>3
<1>5. i - 1 \notin S
    BY <1>1, <1>4
<1>. QED
    BY <1>2, <1>3, <1>4, <1>5

(* The nodes above one are within every set that parents do not leave.     *)
IsClimb(f, es, n) ==
    f = [k \in Nat |-> IF k = 0 THEN {n}
                       ELSE f[k - 1] \cup UNION {ParentIn(es, m) : m \in f[k - 1]}]

LEMMA AboveWithin ==
    ASSUME NEW es, NEW n, NEW C, n \in C, \A m \in C : ParentIn(es, m) \subseteq C
    PROVE  Above(es, n) \subseteq C
<1>. DEFINE Next(X) == X \cup UNION {ParentIn(es, m) : m \in X}
            step == [X \in SUBSET C |-> Next(X)]
<1>1. \A X \in SUBSET C : Next(X) \in SUBSET C /\ step[X] = Next(X)
    OBVIOUS
<1>. HIDE DEF step, Next
<1>2. \E f : IsClimb(f, es, n)
    <2>1. PICK f : Grow(f, {n}, step, Nat)
        BY GrowthExists
    <2>2. ASSUME NEW k \in Nat PROVE f[k] \in SUBSET C
        <3>1. {n} \in SUBSET C /\ \A X \in SUBSET C : step[X] \in SUBSET C
            BY <1>1
        <3>. QED
            BY <2>1, <3>1, GrowthWithin
    <2>3. \A k \in Nat : f[k] = IF k = 0 THEN {n} ELSE step[f[k - 1]]
        BY <2>1 DEF Grow
    <2>4. ASSUME NEW k \in Nat PROVE f[k] = IF k = 0 THEN {n} ELSE Next(f[k - 1])
        <3>1. CASE k = 0
            BY <2>3, <3>1
        <3>2. CASE k # 0
            <4>1. k - 1 \in Nat
                BY <3>2
            <4>2. step[f[k - 1]] = Next(f[k - 1])
                BY <1>1, <2>2, <4>1
            <4>. QED
                BY <2>3, <3>2, <4>2
        <3>. QED
            BY <3>1, <3>2
    <2>5. f = [k \in Nat |-> f[k]]
        BY <2>1 DEF Grow
    <2>6. f = [k \in Nat |-> IF k = 0 THEN {n} ELSE Next(f[k - 1])]
        BY <2>4, <2>5
    <2>. QED
        BY <2>6 DEF IsClimb, Next
<1>. DEFINE h == CHOOSE f : IsClimb(f, es, n)
<1>3. IsClimb(h, es, n)
    BY <1>2, Zenon
<1>4. Above(es, n) = h[Cardinality(AllNodes)]
    BY DEF Above, IsClimb
<1>. HIDE DEF h
<1>5. \A k \in Nat : h[k] = IF k = 0 THEN {n} ELSE Next(h[k - 1])
    BY <1>3 DEF IsClimb, Next
<1>. DEFINE S == {i \in Nat : h[i] \notin SUBSET C}
<1>6. S = {}
    <2>. SUFFICES ASSUME S # {} PROVE FALSE
        OBVIOUS
    <2>1. PICK i \in S : \A j \in S : i <= j
        BY LeastNumber
    <2>2. i \in Nat /\ h[i] \notin SUBSET C
        OBVIOUS
    <2>3. i # 0 /\ h[i] = Next(h[i - 1])
        BY <1>5, <2>2
    <2>4. i - 1 \in Nat /\ ~(i <= i - 1)
        BY <2>2, <2>3
    <2>5. i - 1 \notin S
        BY <2>1, <2>4
    <2>. QED
        BY <1>1, <2>2, <2>3, <2>4, <2>5
<1>7. Cardinality(AllNodes) \in Nat
    BY NodesAreNumbers, FS_CardinalityType
<1>. QED
    BY <1>4, <1>6, <1>7

(* The requests of a save, and the edges of the drawing.                   *)
LEMMA Requests ==
    /\ \A m, n : /\ Deleted(m) = Deleted(n) => m = n
                 /\ Posted(m) = Posted(n) => m = n
                 /\ OriginalEdge(m) = OriginalEdge(n) => m = n
                 /\ DrawnEdge(m) = DrawnEdge(n) => m = n
    /\ \A n : /\ Deleted(n).kind = "delete" /\ Deleted(n).edge.node = n
              /\ Posted(n).kind = "add" /\ Posted(n).edge.node = n
              /\ Posted(n).edge.parent = drawn[n].parent
              /\ Edited(n).kind = "edit" /\ Edited(n).edge.node = n
              /\ Disassociated(n).kind = "disassociate" /\ Disassociated(n).edge = OriginalEdge(n)
              /\ Associated(n).kind = "associate" /\ Associated(n).edge = DrawnEdge(n)
              /\ OriginalEdge(n).node = n /\ OriginalEdge(n).parent = original[n].parent
              /\ DrawnEdge(n).node = n /\ DrawnEdge(n).parent = drawn[n].parent
              /\ DrawnEdge(n).type = drawn[n].edge
<1>1. \A n : /\ Deleted(n).kind = "delete" /\ Deleted(n).edge.node = n
             /\ Posted(n).kind = "add" /\ Posted(n).edge.node = n
             /\ Posted(n).edge.parent = drawn[n].parent
             /\ Edited(n).kind = "edit" /\ Edited(n).edge.node = n
    BY DEF Deleted, Posted, Edited, Request, Edge
<1>2. \A n : /\ Disassociated(n).kind = "disassociate" /\ Disassociated(n).edge = OriginalEdge(n)
             /\ Associated(n).kind = "associate" /\ Associated(n).edge = DrawnEdge(n)
    BY DEF Disassociated, Associated, Request
<1>3. \A n : /\ OriginalEdge(n).node = n /\ OriginalEdge(n).parent = original[n].parent
             /\ DrawnEdge(n).node = n /\ DrawnEdge(n).parent = drawn[n].parent
             /\ DrawnEdge(n).type = drawn[n].edge
    BY DEF OriginalEdge, DrawnEdge, Edge
<1>4. ASSUME NEW m, NEW n, Deleted(m) = Deleted(n) PROVE m = n
    BY ONLY <1>1, <1>4
<1>5. ASSUME NEW m, NEW n, Posted(m) = Posted(n) PROVE m = n
    BY ONLY <1>1, <1>5
<1>6. ASSUME NEW m, NEW n, OriginalEdge(m) = OriginalEdge(n) PROVE m = n
    BY ONLY <1>3, <1>6
<1>7. ASSUME NEW m, NEW n, DrawnEdge(m) = DrawnEdge(n) PROVE m = n
    BY ONLY <1>3, <1>7
<1>8. \A m, n : /\ Deleted(m) = Deleted(n) => m = n
                /\ Posted(m) = Posted(n) => m = n
                /\ OriginalEdge(m) = OriginalEdge(n) => m = n
                /\ DrawnEdge(m) = DrawnEdge(n) => m = n
    BY ONLY <1>4, <1>5, <1>6, <1>7, Zenon
<1>. QED
    BY ONLY <1>1, <1>2, <1>3, <1>8

(* A set of requests, and the same ones when they were sent.               *)
Unsent(S) == \A q \in S : q = Request(q.kind, q.edge)

LEMMA SentRequests ==
    ASSUME NEW S, NEW k, Unsent(S)
    PROVE  /\ Sent(S, k) = {} <=> S = {}
           /\ \A r \in Sent(S, k) : r.round = k
           /\ \A r \in Sent(S, k) : \E q \in S :
                 /\ q.kind = r.kind /\ q.edge = r.edge
                 /\ Sent(S, k) \ {r} = Sent(S \ {q}, k)
<1>. DEFINE sent(q) == [kind |-> q.kind, edge |-> q.edge, round |-> k]
<1>1. Sent(S, k) = {sent(q) : q \in S}
    BY DEF Sent
<1>2. \A q : sent(q).kind = q.kind /\ sent(q).edge = q.edge /\ sent(q).round = k
    OBVIOUS
<1>. HIDE DEF sent
<1>3. ASSUME NEW p \in S, NEW q \in S, sent(p) = sent(q) PROVE p = q
    <2>1. p.kind = q.kind /\ p.edge = q.edge
        BY <1>2, <1>3
    <2>. QED
        BY <2>1 DEF Unsent
<1>4. ASSUME NEW q \in S PROVE Sent(S, k) \ {sent(q)} = Sent(S \ {q}, k)
    <2>1. Sent(S \ {q}, k) = {sent(p) : p \in S \ {q}}
        BY DEF Sent, sent
    <2>. QED
        BY <1>1, <1>3, <2>1
<1>5. ASSUME NEW r \in Sent(S, k)
      PROVE  /\ r.round = k
             /\ \E q \in S : /\ q.kind = r.kind /\ q.edge = r.edge
                             /\ Sent(S, k) \ {r} = Sent(S \ {q}, k)
    <2>1. PICK q \in S : r = sent(q)
        BY <1>1
    <2>. QED
        BY <1>2, <1>4, <2>1
<1>. QED
    BY <1>1, <1>5

LEMMA FirstRequests ==
    /\ \A V, W : FirstOf(V \cup W) = FirstOf(V) \cup FirstOf(W)
    /\ \A V, r : r \in FirstOf(V) <=>
          \/ \E n \in V : /\ original[n].parent # Start /\ Changed(n)
                          /\ original[n].parent \notin Dropped
                          /\ r = Disassociated(n)
          \/ \E n \in V : drawn[n].edited /\ r = Edited(n)
    /\ \A r : r \in Drops <=> \E n \in Dropped : r = Deleted(n)
    /\ Unsent(FirstOf(Old) \cup Drops)
<1>1. \A V, r : r \in FirstOf(V) <=>
          \/ \E n \in V : /\ original[n].parent # Start /\ Changed(n)
                          /\ original[n].parent \notin Dropped
                          /\ r = Disassociated(n)
          \/ \E n \in V : drawn[n].edited /\ r = Edited(n)
    BY Zenon DEF FirstOf
<1>2. \A r : r \in Drops <=> \E n \in Dropped : r = Deleted(n)
    BY DEF Drops
<1>3. ASSUME NEW V, NEW W PROVE FirstOf(V \cup W) = FirstOf(V) \cup FirstOf(W)
    BY <1>1
<1>4. \A n : /\ Disassociated(n) = Request(Disassociated(n).kind, Disassociated(n).edge)
             /\ Edited(n) = Request(Edited(n).kind, Edited(n).edge)
             /\ Deleted(n) = Request(Deleted(n).kind, Deleted(n).edge)
    BY DEF Disassociated, Edited, Deleted, Request
<1>5. Unsent(FirstOf(Old) \cup Drops)
    BY <1>1, <1>2, <1>4 DEF Unsent
<1>. QED
    BY <1>1, <1>2, <1>3, <1>5

LEMMA SecondRequests ==
    ASSUME SavedTree
    PROVE  /\ \A V, D, r : r \in SecondOf(V, D) <=>
                 \E n : /\ n \in AttachedOf(V) \/ n \in Below(D)
                        /\ r = Associated(n)
           /\ \A r \in SecondOf(Old, New) : \E n \in DOMAIN drawn :
                 /\ drawn[n].parent # Start
                 /\ r = Associated(n)
                 /\ r.kind = "associate" /\ r.edge = DrawnEdge(n)
           /\ Unsent(SecondOf(Old, New))
<1>1. \A V, D, r : r \in SecondOf(V, D) <=>
          \E n : /\ n \in AttachedOf(V) \/ n \in Below(D)
                 /\ r = Associated(n)
    BY DEF SecondOf
<1>2. ASSUME NEW n \in AttachedOf(Old) \cup Below(New)
      PROVE  n \in DOMAIN drawn /\ drawn[n].parent # Start
    <2>1. CASE n \in AttachedOf(Old)
        BY <2>1 DEF AttachedOf, Old
    <2>2. CASE n \in Below(New)
        BY <2>2 DEF Below, New, SavedTree, IsTree
    <2>. QED
        BY <2>1, <2>2
<1>3. \A n : Associated(n).kind = "associate" /\ Associated(n).edge = DrawnEdge(n)
    BY Requests
<1>4. ASSUME NEW r \in SecondOf(Old, New)
      PROVE  /\ \E n \in DOMAIN drawn : /\ drawn[n].parent # Start
                                        /\ r = Associated(n)
                                        /\ r.kind = "associate" /\ r.edge = DrawnEdge(n)
             /\ r = Request(r.kind, r.edge)
    <2>1. PICK n : /\ n \in AttachedOf(Old) \/ n \in Below(New)
                   /\ r = Associated(n)
        BY <1>1
    <2>2. r = Request(r.kind, r.edge)
        BY <1>3, <2>1 DEF Associated
    <2>. QED
        BY <1>2, <1>3, <2>1, <2>2
<1>. QED
    BY <1>1, <1>4 DEF Unsent

(* What stands and what is associated makes the edges of the drawing.      *)
LEMMA EdgesOfTheDrawing ==
    ASSUME SavedTree
    PROVE  /\ \A n \in Standing : OriginalEdge(n) \in DrawnEdges
           /\ \A r \in SecondOf(Old, New) : r.edge \in DrawnEdges
           /\ \A e \in DrawnEdges : \/ \E n \in Standing : e = OriginalEdge(n)
                                    \/ \E r \in SecondOf(Old, New) : r.edge = e
<1>1. /\ original \in Graphs /\ IsTree(drawn) /\ \A n \in Old : Inherits(drawn, n)
      /\ DOMAIN drawn \in SUBSET AllNodes
    BY DEF SavedTree, Old, IsTree
<1>2. Start \notin DOMAIN drawn /\ DOMAIN drawn = Old \cup New
    BY <1>1, NodesAreNumbers DEF Old, New, AllNodes
<1>3. ASSUME NEW n \in Old, ~Changed(n), drawn[n].parent # Start
      PROVE  n \in Standing /\ OriginalEdge(n) = DrawnEdge(n)
    <2>1. drawn[n].parent = original[n].parent /\ drawn[n].parent \in DOMAIN drawn
        BY <1>1, <1>3 DEF Changed, IsTree, Old
    <2>2. drawn[n].edited \/ drawn[n].edge = original[n].edge
        BY <1>1, <2>1 DEF Inherits
    <2>3. drawn[n].edge = original[n].edge
        BY <1>3, <2>2 DEF Changed
    <2>. QED
        BY <1>3, <2>1, <2>3 DEF Standing, OriginalEdge, DrawnEdge
<1>4. ASSUME NEW n \in Standing PROVE OriginalEdge(n) \in DrawnEdges
    <2>1. n \in Old /\ n \in DOMAIN drawn /\ ~Changed(n) /\ drawn[n].parent # Start
        BY <1>2 DEF Standing, Changed, Old
    <2>. QED
        BY <1>3, <2>1 DEF DrawnEdges
<1>5. \A r \in SecondOf(Old, New) : r.edge \in DrawnEdges
    BY SecondRequests DEF DrawnEdges
<1>6. ASSUME NEW e \in DrawnEdges
      PROVE  \/ \E n \in Standing : e = OriginalEdge(n)
             \/ \E r \in SecondOf(Old, New) : r.edge = e
    <2>1. PICK n \in DOMAIN drawn : drawn[n].parent # Start /\ e = DrawnEdge(n)
        BY DEF DrawnEdges
    <2>2. CASE n \in AttachedOf(Old) \/ n \in Below(New)
        <3>. DEFINE r == Associated(n)
        <3>1. r \in SecondOf(Old, New)
            BY <2>2, SecondRequests
        <3>2. r.edge = e
            BY <2>1, Requests
        <3>. QED
            BY <3>1, <3>2
    <2>3. CASE ~(n \in AttachedOf(Old) \/ n \in Below(New))
        <3>1. n \notin New
            BY <1>1, <2>1, <2>3 DEF Below, IsTree
        <3>2. n \in Old
            BY <1>2, <2>1, <3>1
        <3>3. ~Changed(n)
            BY <2>1, <2>3, <3>2 DEF AttachedOf
        <3>. QED
            BY <1>3, <2>1, <3>2, <3>3
    <2>. QED
        BY <2>2, <2>3
<1>. QED
    BY <1>4, <1>5, <1>6

(* The first phase is over when nothing is asked for any more.             *)
LEMMA NothingAsked ==
    ASSUME SavedTree, NEW ro, NEW ed, NEW wr, Asked({}, ro, ed), StillAsked({}, ro, ed, wr)
    PROVE  Cleaned(ro, ed, wr)
<1>1. ro = DOMAIN drawn /\ \A n \in Old : drawn[n].edited => n \in wr
    BY DEF Asked, StillAsked
<1>2. ASSUME NEW e \in ed PROVE e \in DrawnEdges
    <2>1. PICK n \in OldNodes : e = OriginalEdge(n)
        BY DEF Asked, OldEdges
    <2>2. n \in Standing
        BY <2>1 DEF StillAsked
    <2>. QED
        BY <2>1, <2>2, EdgesOfTheDrawing
<1>. QED
    BY <1>1, <1>2 DEF Cleaned, Asked

(* All the requests of the first phase ask for all that is to be changed.  *)
LEMMA AllAsked ==
    ASSUME SavedTree
    PROVE  /\ Asked(FirstOf(Old) \cup Drops, OldNodes \cup New, OldEdges)
           /\ StillAsked(FirstOf(Old) \cup Drops, OldNodes \cup New, OldEdges, {})
<1>. DEFINE now == FirstOf(Old) \cup Drops
            ro == OldNodes \cup New
<1>1. /\ original \in Graphs /\ DOMAIN drawn \in SUBSET AllNodes
      /\ Dropped = OldNodes \ DOMAIN drawn
    BY DEF SavedTree, IsTree, Dropped
<1>2. \A n \in Dropped : Deleted(n) \in now
    BY FirstRequests
<1>3. DOMAIN drawn \subseteq ro /\ ro \subseteq DOMAIN drawn \cup Dropped
    BY <1>1 DEF New, AllNodes
<1>4. \A n \in Standing : OriginalEdge(n) \in OldEdges
    BY <1>1, NodesAreNumbers DEF Standing, OldEdges, Old
<1>5. Asked(now, ro, OldEdges)
    BY <1>1, <1>3, <1>4 DEF Asked
<1>6. ASSUME NEW n \in OldNodes, OriginalEdge(n) \in OldEdges
      PROVE  \/ n \in Standing
             \/ Deleted(n) \in now \/ Deleted(original[n].parent) \in now
             \/ Disassociated(n) \in now
    <2>1. original[n].parent # Start /\ original[n].parent \in OldNodes
        <3>1. PICK m \in OldNodes : original[m].parent # Start /\ OriginalEdge(n) = OriginalEdge(m)
            BY <1>6 DEF OldEdges
        <3>2. m = n
            BY <3>1, Requests
        <3>. QED
            BY <1>1, <3>1, <3>2, SavedGraph
    <2>2. CASE n \notin DOMAIN drawn
        BY <1>1, <1>2, <2>2
    <2>3. CASE original[n].parent \notin DOMAIN drawn
        BY <1>1, <1>2, <2>1, <2>3
    <2>4. CASE n \in DOMAIN drawn /\ original[n].parent \in DOMAIN drawn /\ ~Changed(n)
        BY <2>4 DEF Standing, Old
    <2>5. CASE n \in DOMAIN drawn /\ original[n].parent \in DOMAIN drawn /\ Changed(n)
        <3>1. n \in Old /\ original[n].parent \notin Dropped
            BY <1>1, <2>5 DEF Old
        <3>. QED
            BY <2>1, <2>5, <3>1, FirstRequests
    <2>. QED
        BY <2>2, <2>3, <2>4, <2>5
<1>7. \A n \in Old : drawn[n].edited => Edited(n) \in now
    BY FirstRequests
<1>8. \A n \in ro \ DOMAIN drawn : Deleted(n) \in now
    BY <1>1, <1>2, <1>3
<1>9. StillAsked(now, ro, OldEdges, {})
    <2>. HIDE DEF now, ro
    <2>. QED
        BY <1>6, <1>7, <1>8 DEF StillAsked
<1>. QED
    BY <1>5, <1>9

LEMMA SameSnapshot ==
    UNCHANGED <<original, drawn>> =>
        /\ Old' = Old /\ New' = New /\ OldEdges' = OldEdges /\ DrawnEdges' = DrawnEdges
        /\ (SavedTree' <=> SavedTree) /\ \A V, D : SecondOf(V, D)' = SecondOf(V, D)
        /\ \A V : FirstOf(V)' = FirstOf(V)
        /\ \A V, D, now : Walked(V, D, now)' <=> Walked(V, D, now)
        /\ \A now, ro, ed : Asked(now, ro, ed)' <=> Asked(now, ro, ed)
        /\ \A now, ro, ed, wr : StillAsked(now, ro, ed, wr)' <=> StillAsked(now, ro, ed, wr)
        /\ \A ro, ed, wr : Cleaned(ro, ed, wr)' <=> Cleaned(ro, ed, wr)
<1>. SUFFICES ASSUME UNCHANGED <<original, drawn>>
              PROVE  /\ Old' = Old /\ New' = New /\ OldEdges' = OldEdges /\ DrawnEdges' = DrawnEdges
                     /\ (SavedTree' <=> SavedTree) /\ \A V, D : SecondOf(V, D)' = SecondOf(V, D)
                     /\ \A V : FirstOf(V)' = FirstOf(V)
                     /\ \A V, D, now : Walked(V, D, now)' <=> Walked(V, D, now)
                     /\ \A now, ro, ed : Asked(now, ro, ed)' <=> Asked(now, ro, ed)
                     /\ \A now, ro, ed, wr :
                            StillAsked(now, ro, ed, wr)' <=> StillAsked(now, ro, ed, wr)
                     /\ \A ro, ed, wr : Cleaned(ro, ed, wr)' <=> Cleaned(ro, ed, wr)
    OBVIOUS
<1>1. original' = original /\ drawn' = drawn
    OBVIOUS
<1>2. Old' = Old /\ New' = New /\ Dropped' = Dropped
    BY <1>1 DEF Old, New, Dropped
<1>3. OldEdges' = OldEdges /\ DrawnEdges' = DrawnEdges
    BY <1>1 DEF OldEdges, DrawnEdges, OriginalEdge, DrawnEdge
<1>4. SavedTree' <=> SavedTree
    BY <1>1 DEF SavedTree, Inherits, Old
<1>5. \A n : OriginalEdge(n)' = OriginalEdge(n) /\ Disassociated(n)' = Disassociated(n)
    BY <1>1 DEF OriginalEdge, Disassociated
<1>6. \A V : FirstOf(V)' = FirstOf(V)
    BY <1>1, <1>2, <1>5 DEF FirstOf, Changed
<1>7. \A V, D : SecondOf(V, D)' = SecondOf(V, D)
    BY <1>1 DEF SecondOf, AttachedOf, Below, Changed, Associated, DrawnEdge
<1>8. Standing' = Standing /\ Drops' = Drops
    BY <1>1, <1>2 DEF Standing, Drops, Changed
<1>9. \A V, D, now : Walked(V, D, now)' <=> Walked(V, D, now)
    BY <1>1, <1>2 DEF Walked, Posted
<1>10. \A now, ro, ed : Asked(now, ro, ed)' <=> Asked(now, ro, ed)
    BY <1>1, <1>2, <1>3, <1>5, <1>6, <1>8 DEF Asked
<1>11. \A now, ro, ed, wr : StillAsked(now, ro, ed, wr)' <=> StillAsked(now, ro, ed, wr)
    BY <1>1, <1>2, <1>5, <1>8 DEF StillAsked
<1>12. \A ro, ed, wr : Cleaned(ro, ed, wr)' <=> Cleaned(ro, ed, wr)
    BY <1>1, <1>2, <1>3, <1>5, <1>8 DEF Cleaned
<1>. QED
    BY <1>2, <1>3, <1>4, <1>6, <1>7, <1>9, <1>10, <1>11, <1>12

(* What recursiveNodeUpdates visits.                                       *)
Lines(S) == {DrawnEdge(n) : n \in S}
IsReach(f, from, ends) ==
    f = [k \in Nat |->
            IF k = 0 THEN from
            ELSE f[k - 1] \cup
                     UNION {Onward(e) : e \in {x \in f[k - 1] : x.node \notin ends}}]

LEMMA VisitsOnTheWay ==
    ASSUME IsTree(drawn), tree = drawn, NEW F \in SUBSET DOMAIN drawn, NEW ends
    PROVE  \E U \in SUBSET DOMAIN drawn :
              /\ VisitsFrom(Lines(F), ends) = Lines(U) /\ F \subseteq U
              /\ \A x \in U : x \in F \/ drawn[x].parent \in U \ ends
<1>. DEFINE from == Lines(F)
            C == Lines(DOMAIN drawn)
            Next(X) == X \cup UNION {Onward(e) : e \in {x \in X : x.node \notin ends}}
            step == [X \in SUBSET C |-> Next(X)]
<1>1. ASSUME NEW e \in C, NEW d \in Onward(e)
      PROVE  d \in C /\ d.parent = e.node
    <2>1. PICK n \in DOMAIN drawn : e = DrawnEdge(n)
        BY DEF Lines
    <2>2. e.node = n
        BY <2>1, Requests
    <2>3. PICK c \in Kids(tree, n) : d = Edge(n, c, Node(c).edge)
        BY <2>2 DEF Onward, Children
    <2>4. c \in DOMAIN drawn /\ drawn[c].parent = n /\ Node(c) = drawn[c]
        BY <2>3 DEF Kids, Node
    <2>5. d = DrawnEdge(c)
        BY <2>3, <2>4 DEF DrawnEdge
    <2>. QED
        BY <2>2, <2>4, <2>5, Requests DEF Lines
<1>2. \A X \in SUBSET C : Next(X) \in SUBSET C /\ step[X] = Next(X)
    <2>1. \A X \in SUBSET C : Next(X) \in SUBSET C
        BY <1>1
    <2>. HIDE DEF C, Next
    <2>. QED
        BY <2>1
<1>3. from \in SUBSET C
    BY DEF Lines
<1>. HIDE DEF step, C, from
<1>4. \E f : IsReach(f, from, ends)
    <2>1. PICK f : Grow(f, from, step, Nat)
        BY GrowthExists
    <2>. HIDE DEF Next
    <2>2. ASSUME NEW k \in Nat PROVE f[k] \in SUBSET C
        <3>1. from \in SUBSET C /\ \A X \in SUBSET C : step[X] \in SUBSET C
            BY <1>2, <1>3
        <3>. QED
            BY <2>1, <3>1, GrowthWithin
    <2>3. \A k \in Nat : f[k] = IF k = 0 THEN from ELSE step[f[k - 1]]
        BY <2>1 DEF Grow
    <2>4. \A k \in Nat : f[k] = IF k = 0 THEN from ELSE Next(f[k - 1])
        BY <1>2, <2>2, <2>3
    <2>5. f = [k \in Nat |-> f[k]]
        BY <2>1 DEF Grow
    <2>6. f = [k \in Nat |-> IF k = 0 THEN from ELSE Next(f[k - 1])]
        BY <2>4, <2>5
    <2>. QED
        BY <2>6 DEF IsReach, Next
<1>. DEFINE h == CHOOSE f : IsReach(f, from, ends)
<1>5. IsReach(h, from, ends)
    BY <1>4, Zenon
<1>6. VisitsFrom(from, ends) = h[Cardinality(AllNodes)]
    BY DEF VisitsFrom, IsReach
<1>. HIDE DEF h
<1>7. \A k \in Nat : h[k] = IF k = 0 THEN from ELSE Next(h[k - 1])
    BY <1>5 DEF IsReach
<1>. DEFINE Fits(X) == /\ X \in SUBSET C /\ from \subseteq X
                       /\ \A e \in X : \/ e \in from
                                       \/ \E b \in X : b.node \notin ends /\ e.parent = b.node
            S == {i \in Nat : ~Fits(h[i])}
<1>8. Fits(from) /\ \A X : Fits(X) => Fits(Next(X))
    <2>1. Fits(from)
        BY <1>3
    <2>2. ASSUME NEW X, Fits(X) PROVE Fits(Next(X))
        <3>1. Next(X) \in SUBSET C /\ X \subseteq Next(X)
            BY <1>2, <2>2
        <3>2. ASSUME NEW e \in Next(X)
              PROVE  e \in from \/ \E b \in Next(X) : b.node \notin ends /\ e.parent = b.node
            <4>1. CASE e \in X
                BY <2>2, <3>1, <4>1
            <4>2. CASE e \notin X
                <5>1. PICK b \in X : b.node \notin ends /\ e \in Onward(b)
                    BY <4>2
                <5>2. e.parent = b.node
                    BY <1>1, <2>2, <5>1
                <5>. QED
                    BY <3>1, <5>1, <5>2
            <4>. QED
                BY <4>1, <4>2
        <3>. HIDE DEF Next
        <3>. QED
            BY <2>2, <3>1, <3>2
    <2>. QED
        BY <2>1, <2>2
<1>9. S = {}
    <2>. SUFFICES ASSUME S # {} PROVE FALSE
        OBVIOUS
    <2>. HIDE DEF Fits, Next
    <2>1. PICK i \in S : \A j \in S : i <= j
        BY LeastNumber
    <2>2. i \in Nat /\ ~Fits(h[i])
        OBVIOUS
    <2>3. i # 0 /\ h[i] = Next(h[i - 1])
        BY <1>7, <1>8, <2>2
    <2>4. i - 1 \in Nat /\ ~(i <= i - 1)
        BY <2>2, <2>3
    <2>5. i - 1 \notin S
        BY <2>1, <2>4
    <2>. QED
        BY <1>8, <2>2, <2>3, <2>4, <2>5
<1>10. Cardinality(AllNodes) \in Nat
    BY NodesAreNumbers, FS_CardinalityType
<1>. DEFINE X == VisitsFrom(from, ends)
            U == {n \in DOMAIN drawn : DrawnEdge(n) \in X}
<1>11. Fits(X)
    <2>. HIDE DEF Fits
    <2>. QED
        BY <1>6, <1>9, <1>10
<1>. HIDE DEF X, Next
<1>12. X = Lines(U)
    BY <1>11 DEF C, Lines
<1>13. F \subseteq U
    BY <1>11 DEF from, Lines
<1>14. ASSUME NEW x \in U PROVE x \in F \/ drawn[x].parent \in U \ ends
    <2>1. DrawnEdge(x) \in X /\ DrawnEdge(x).parent = drawn[x].parent
        BY Requests
    <2>2. CASE DrawnEdge(x) \in from
        BY <2>2, Requests DEF from, Lines
    <2>3. CASE \E b \in X : b.node \notin ends /\ DrawnEdge(x).parent = b.node
        <3>1. PICK b \in X : b.node \notin ends /\ drawn[x].parent = b.node
            BY <2>1, <2>3
        <3>2. PICK n \in DOMAIN drawn : b = DrawnEdge(n)
            BY <1>11 DEF C, Lines
        <3>3. b.node = n
            BY <3>2, Requests
        <3>. QED
            BY <3>1, <3>2, <3>3
    <2>. QED
        BY <1>11, <2>1, <2>2, <2>3
<1>. HIDE DEF U
<1>15. U \in SUBSET DOMAIN drawn
    BY DEF U
<1>. QED
    BY <1>12, <1>13, <1>14, <1>15 DEF X, from

(* What a walk collects on its visits to the nodes U.                      *)
LEMMA VisitsCollect ==
    ASSUME LeftAlone, NEW U \in SUBSET DOMAIN drawn
    PROVE  /\ Disassociates(Lines(U)) \cup Edits(Lines(U)) = FirstOf(U \cap OldNodes)
           /\ Associates(Attached(Lines(U))) = {Associated(n) : n \in AttachedOf(U \cap OldNodes)}
           /\ Deletes = Drops
<1>. DEFINE O == U \cap OldNodes
<1>1. \A n : /\ DrawnEdge(n).node = n /\ DrawnEdge(n).parent = drawn[n].parent
             /\ DrawnEdge(n).type = drawn[n].edge
    BY Requests
<1>2. /\ \A n \in U : Node(n) = drawn[n]
      /\ deletedNodes = Dropped
    BY DEF LeftAlone, Node
<1>3. OfOld(Lines(U)) = Lines(O)
    BY <1>1 DEF OfOld, Lines
<1>4. \A n \in O : Rewired(DrawnEdge(n)) <=> Changed(n)
    BY <1>1, <1>2 DEF Rewired, Moved, Changed
<1>5. \A n : /\ Disassociated(n) = Request("disassociate", OriginalEdge(n))
             /\ Associated(n) = Request("associate", DrawnEdge(n))
             /\ Edited(n) = Request("edit", Edge(Start, n, "none"))
    BY DEF Disassociated, Associated, Edited
<1>6. ASSUME NEW r
      PROVE  r \in Disassociates(Lines(U)) <=>
                 \E n \in O : /\ original[n].parent # Start /\ Changed(n)
                              /\ original[n].parent \notin Dropped /\ r = Disassociated(n)
    <2>1. r \in Disassociates(Lines(U)) <=>
              \E e \in Lines(O) : /\ original[e.node].parent # Start /\ Rewired(e)
                                  /\ original[e.node].parent \notin Dropped
                                  /\ r = Disassociated(e.node)
        BY <1>2, <1>3, <1>5 DEF Disassociates
    <2>. HIDE DEF O
    <2>. QED
        BY <1>1, <1>4, <2>1 DEF Lines
<1>7. ASSUME NEW r
      PROVE  r \in Edits(Lines(U)) <=> \E n \in O : drawn[n].edited /\ r = Edited(n)
    <2>1. r \in Edits(Lines(U)) <=>
              \E e \in Lines(O) : Node(e.node).edited /\ r = Edited(e.node)
        BY <1>3, <1>5 DEF Edits
    <2>2. \A n \in O : Node(n) = drawn[n]
        BY <1>2
    <2>. HIDE DEF O
    <2>. QED
        BY <1>1, <2>1, <2>2 DEF Lines
<1>8. Disassociates(Lines(U)) \cup Edits(Lines(U)) = FirstOf(O)
    <2>. HIDE DEF O
    <2>. QED
        BY <1>6, <1>7, FirstRequests
<1>9. Associates(Attached(Lines(U))) = {Associated(n) : n \in AttachedOf(O)}
    <2>1. Attached(Lines(U)) = Lines(AttachedOf(O))
        <3>1. Attached(Lines(U)) = {e \in Lines(O) : e.parent # Start
                                       /\ (original[e.node].parent = Start \/ Rewired(e))}
            BY <1>3 DEF Attached
        <3>. HIDE DEF O
        <3>. QED
            BY <1>1, <1>4, <3>1 DEF Lines, AttachedOf
    <2>. QED
        BY <2>1, <1>5 DEF Associates, Lines
<1>10. Deletes = Drops
    BY <1>2 DEF Deletes, Drops, Deleted
<1>. QED
    BY <1>8, <1>9, <1>10

(* A walk that begins with nodes F that were not met before meets none.    *)
LEMMA WalkIsNew ==
    ASSUME IsTree(drawn), NEW M, \A m \in M : drawn[m].parent \in {Start} \cup M,
           NEW U \in SUBSET DOMAIN drawn, NEW F, F \cap M = {},
           \A x \in U : x \in F \/ drawn[x].parent \in U
    PROVE  U \cap M = {}
<1>. DEFINE X == U \cap M
<1>1. PICK r \in Ranks(drawn) : Ranked(drawn, r)
    BY DEF IsTree
<1>2. \A x \in DOMAIN drawn :
          r[x] \in Nat /\ (drawn[x].parent \in DOMAIN drawn => r[drawn[x].parent] < r[x])
    BY <1>1 DEF Ranks, Ranked
<1>3. Start \notin DOMAIN drawn
    BY NodesAreNumbers DEF IsTree
<1>4. ASSUME NEW x \in X PROVE drawn[x].parent \in X
    BY <1>3
<1>. SUFFICES ASSUME X # {} PROVE FALSE
    OBVIOUS
<1>. DEFINE N == {r[x] : x \in X}
<1>5. N \in SUBSET Nat /\ N # {}
    BY <1>2
<1>6. PICK m \in N : \A k \in N : m <= k
    <2>. HIDE DEF N
    <2>. QED
        BY <1>5, LeastNumber
<1>7. PICK x \in X : m = r[x]
    BY <1>6
<1>8. r[drawn[x].parent] \in N /\ drawn[x].parent \in DOMAIN drawn
    BY <1>4
<1>9. r[drawn[x].parent] < r[x] /\ r[drawn[x].parent] \in Nat /\ r[x] \in Nat
    BY <1>2, <1>8
<1>. QED
    BY <1>6, <1>7, <1>8, <1>9

(* A tree without a root has no nodes.                                     *)
LEMMA NoRoots ==
    ASSUME IsTree(drawn), Kids(drawn, Start) = {}
    PROVE  DOMAIN drawn = {}
<1>1. \A x \in DOMAIN drawn : drawn[x].parent \in DOMAIN drawn
    BY DEF IsTree, Kids
<1>2. DOMAIN drawn \cap DOMAIN drawn = {}
    <2>1. \A m \in DOMAIN drawn : drawn[m].parent \in {Start} \cup DOMAIN drawn
        BY <1>1
    <2>2. DOMAIN drawn \in SUBSET DOMAIN drawn /\ {} \cap DOMAIN drawn = {}
          /\ \A x \in DOMAIN drawn : x \in {} \/ drawn[x].parent \in DOMAIN drawn
        BY <1>1
    <2>. QED
        BY <2>1, <2>2, WalkIsNew
<1>. QED
    BY <1>2

LEMMA DisjointCount ==
    ASSUME NEW S, NEW T, IsFiniteSet(S), IsFiniteSet(T), S \cap T = {}
    PROVE  Cardinality(S \cup T) = Cardinality(S) + Cardinality(T)
<1>1. Cardinality(S \cup T) = Cardinality(S) + Cardinality(T) - Cardinality(S \cap T)
    BY FS_Union
<1>2. Cardinality(S) \in Nat /\ Cardinality(T) \in Nat
    BY FS_CardinalityType
<1>3. Cardinality(S \cap T) = 0
    BY FS_EmptySet
<1>. QED
    BY <1>1, <1>2, <1>3

(* The count meets the number of the nodes exactly when all were visited.  *)
LEMMA AllVisited ==
    ASSUME IsTree(drawn), NEW V \in SUBSET DOMAIN drawn, NEW D \in SUBSET DOMAIN drawn,
           NEW B \in SUBSET DOMAIN drawn, V \cap D = {}, (V \cup D) \cap B = {}
    PROVE  /\ Cardinality(V) \in Nat /\ Cardinality(D) \in Nat /\ Cardinality(B) \in Nat
           /\ Cardinality(V \cup D) = Cardinality(V) + Cardinality(D)
           /\ Cardinality(V) + Cardinality(D) + Cardinality(B) = Cardinality(DOMAIN drawn) =>
                  V \cup D \cup B = DOMAIN drawn
<1>1. /\ IsFiniteSet(V) /\ Cardinality(V) \in Nat /\ IsFiniteSet(D) /\ Cardinality(D) \in Nat
      /\ IsFiniteSet(B) /\ Cardinality(B) \in Nat
      /\ IsFiniteSet(V \cup D) /\ IsFiniteSet(DOMAIN drawn)
    BY TreeNodesFinite
<1>2. Cardinality(V \cup D) = Cardinality(V) + Cardinality(D)
    BY <1>1, DisjointCount
<1>3. Cardinality((V \cup D) \cup B) = Cardinality(V \cup D) + Cardinality(B)
    BY <1>1, DisjointCount
<1>4. (V \cup D) \cup B \in SUBSET DOMAIN drawn
    OBVIOUS
<1>5. Cardinality((V \cup D) \cup B) = Cardinality(DOMAIN drawn) => (V \cup D) \cup B = DOMAIN drawn
    BY <1>1, <1>4, FS_Subset
<1>. QED
    BY <1>1, <1>2, <1>3, <1>5

(* A walk that is over asks for all that the drawing needs.                *)
LEMMA CompleteKeeps ==
    ASSUME SavedTree, UNCHANGED <<original, drawn>>,
           phase \in {"edit", "saving"}, completed = 0,
           edges' = OldEdges, written' = {}, rows' = OldNodes \cup New,
           associateRequests' = SecondOf(Old, New),
           completionCallback(FirstOf(Old) \cup Drops, {})
    PROVE  Saving'
<1>1. PICK first, later : first = FirstOf(Old) \cup Drops /\ later = SecondOf(Old, New)
    OBVIOUS
<1>. DEFINE now == IF first # {} THEN first ELSE later
<1>2. /\ completed' = 1 /\ requests' = Sent(now, 1)
      /\ now = {} => phase' = "closed"
      /\ now # {} => phase' = "saving"
    BY <1>1 DEF completionCallback, closeDialog, GoesOn
<1>3. /\ Asked(first, rows', edges') /\ StillAsked(first, rows', edges', written')
    BY <1>1, AllAsked
<1>4. SavedTree' /\ associateRequests' = SecondOf(Old, New)'
    BY SameSnapshot
<1>5. CASE first # {}
    <2>1. Asked(first, rows, edges)' /\ StillAsked(first, rows, edges, written)'
        BY <1>3, SameSnapshot
    <2>2. First(first)'
        BY <1>2, <1>4, <1>5, <2>1 DEF First
    <2>. QED
        BY <1>2, <1>4, <1>5, <2>2 DEF Saving
<1>6. ASSUME first = {} PROVE Cleaned(rows', edges', written')
    BY <1>3, <1>6, NothingAsked
<1>7. CASE first = {} /\ later # {}
    <2>1. Cleaned(rows, edges, written)' /\ later = SecondOf(Old, New)'
        BY <1>1, <1>6, <1>7, SameSnapshot
    <2>2. Second(later)'
        BY <1>2, <1>7, <2>1 DEF Second
    <2>. QED
        BY <1>2, <1>4, <1>7, <2>2 DEF Saving
<1>8. CASE first = {} /\ later = {}
    <2>1. phase' = "closed" /\ requests' = {}
        BY <1>2, <1>8 DEF Sent
    <2>2. edges' = DrawnEdges
        BY <1>1, <1>6, <1>8, EdgesOfTheDrawing DEF Cleaned
    <2>3. Cleaned(rows, edges, written)' /\ edges' = DrawnEdges'
        BY <1>6, <1>8, <2>2, SameSnapshot
    <2>4. Closed'
        BY <2>1, <2>3 DEF Closed
    <2>. QED
        BY <1>4, <2>1, <2>4 DEF Saving
<1>. QED
    BY <1>5, <1>7, <1>8

(* A walk from the nodes F, which is over or goes on with posts; P are the *)
(* nodes of F that were added just now.                                    *)
LEMMA RecurseKeeps ==
    ASSUME SavedTree, LeftAlone, LeftAlone', UNCHANGED <<original, drawn>>,
           phase \in {"edit", "saving"}, completed = 0, edges' = OldEdges, written' = {},
           NEW V \in SUBSET Old, NEW D \in SUBSET New, NEW P \in SUBSET New, P \cap D = {},
           rows' = OldNodes \cup D \cup P,
           NEW F \in SUBSET DOMAIN drawn, F \cap (V \cup D) = {}, P \subseteq F,
           \A m \in V \cup D \cup F : drawn[m].parent \in {Start} \cup V \cup D,
           NEW waiting,
           \A r \in waiting : \E n \in New \ (D \cup P) :
              r = Posted(n) /\ drawn[n].parent \in {Start} \cup V \cup D,
           iterated = Cardinality(V) + Cardinality(D), firstRequests = FirstOf(V),
           NEW parents, associateRequests \cup parents = SecondOf(V, D \cup P),
           Recurse(Lines(F), parents, waiting, NewNodes \ (D \cup P))
    PROVE  Saving'
<1>. DEFINE Q == D \cup P
            new == NewNodes \ Q
            from == Lines(F)
            Counted(walk) == {e.node : e \in walk} \ new
            all == VisitsFrom(from, new)
            owed == totalNodes - iterated
            completes == owed \in 1 .. Cardinality(Counted(all))
            posts(walk) == Posts({e \in walk : e.node \in new})
            Walk(walk, before) ==
                /\ iterated' = iterated + Cardinality(Counted(walk))
                /\ firstRequests' =
                       firstRequests \cup Disassociates(walk) \cup Edits(walk)
                /\ associateRequests' =
                       associateRequests \cup parents \cup Associates(Attached(walk))
                /\ IF completes
                   THEN completionCallback(firstRequests \cup Disassociates(before) \cup Edits(before)
                                     \cup Deletes,
                                 waiting \cup Sent(posts(walk), 0))
                   ELSE /\ GoesOn /\ requests' = waiting \cup Sent(posts(walk), 0)
                        /\ UNCHANGED completed
<1>1. \/ ~completes /\ Walk(all, {})
      \/ /\ completes
         /\ \E final \in {e \in all : e.node \notin new} :
               LET walk == VisitsFrom(from, new \cup {final.node})
               IN  \E before \in UpTo(final, walk) :
                       Cardinality(Counted(before)) = owed /\ Walk(walk, before)
    BY DEF Recurse
<1>2. /\ IsTree(drawn) /\ tree = drawn /\ totalNodes = Cardinality(DOMAIN drawn)
      /\ DOMAIN drawn \in SUBSET AllNodes
      /\ V \in SUBSET DOMAIN drawn /\ D \in SUBSET DOMAIN drawn /\ P \in SUBSET DOMAIN drawn
      /\ V \subseteq OldNodes /\ Q \subseteq NewNodes /\ V \cap Q = {}
    BY MakerAssumption DEF SavedTree, LeftAlone, IsTree, Old, New
<1>3. ASSUME NEW ends, new \subseteq ends
      PROVE  \E U \in SUBSET DOMAIN drawn :
                /\ VisitsFrom(from, ends) = Lines(U) /\ P \subseteq U
                /\ U \cap (V \cup D) = {} /\ U \ new = (U \cap OldNodes) \cup P
                /\ \A x \in U : drawn[x].parent \in {Start} \cup V \cup D \cup (U \ new)
    <2>1. PICK U \in SUBSET DOMAIN drawn :
              /\ VisitsFrom(from, ends) = Lines(U) /\ F \subseteq U
              /\ \A x \in U : x \in F \/ drawn[x].parent \in U \ ends
        BY <1>2, VisitsOnTheWay
    <2>2. U \cap (V \cup D) = {}
        <3>1. PICK M : M = V \cup D
            OBVIOUS
        <3>2. /\ \A m \in M : drawn[m].parent \in {Start} \cup M
              /\ F \cap M = {} /\ \A x \in U : x \in F \/ drawn[x].parent \in U
            BY <2>1, <3>1
        <3>3. U \cap M = {}
            BY <1>2, <3>2, WalkIsNew
        <3>. QED
            BY <3>1, <3>3
    <2>3. U \ new = (U \cap OldNodes) \cup P
        <3>1. \A x \in U : x \in OldNodes <=> x \notin NewNodes
            BY <1>2, NodesAreNumbers
        <3>. QED
            BY <1>2, <2>1, <2>2, <3>1
    <2>4. \A x \in U : drawn[x].parent \in {Start} \cup V \cup D \cup (U \ new)
        BY <1>3, <2>1
    <2>. QED
        BY <2>1, <2>2, <2>3, <2>4
<1>4. \A U : {e.node : e \in Lines(U)} = U
    BY Requests DEF Lines
<1>5. ASSUME NEW U \in SUBSET DOMAIN drawn
      PROVE  /\ firstRequests \cup Disassociates(Lines(U)) \cup Edits(Lines(U))
                    = FirstOf(V \cup (U \cap OldNodes))
             /\ associateRequests \cup parents \cup Associates(Attached(Lines(U)))
                    = SecondOf(V \cup (U \cap OldNodes), Q)
    <2>. DEFINE W == U \cap OldNodes
    <2>1. /\ Disassociates(Lines(U)) \cup Edits(Lines(U)) = FirstOf(W)
          /\ Associates(Attached(Lines(U))) = {Associated(n) : n \in AttachedOf(W)}
        BY VisitsCollect
    <2>2. FirstOf(V \cup W) = FirstOf(V) \cup FirstOf(W)
        BY FirstRequests
    <2>3. AttachedOf(V \cup W) = AttachedOf(V) \cup AttachedOf(W)
        BY DEF AttachedOf
    <2>4. SecondOf(V \cup W, Q) = SecondOf(V, Q) \cup {Associated(n) : n \in AttachedOf(W)}
        BY <2>3 DEF SecondOf
    <2>. HIDE DEF W, Q
    <2>5. associateRequests \cup parents = SecondOf(V, Q)
        BY DEF Q
    <2>. QED
        BY <2>1, <2>2, <2>4, <2>5 DEF W
<1>6. SavedTree'
    BY SameSnapshot
<1>7. CASE ~completes /\ Walk(all, {})
    <2>1. PICK U \in SUBSET DOMAIN drawn :
              /\ all = Lines(U) /\ P \subseteq U
              /\ U \cap (V \cup D) = {} /\ U \ new = (U \cap OldNodes) \cup P
              /\ \A x \in U : drawn[x].parent \in {Start} \cup V \cup D \cup (U \ new)
        BY <1>3
    <2>2. PICK V2 : V2 = V \cup (U \cap OldNodes)
        OBVIOUS
    <2>3. /\ iterated' = iterated + Cardinality(U \ new)
          /\ firstRequests' = FirstOf(V2) /\ associateRequests' = SecondOf(V2, Q)
          /\ phase' = "saving" /\ completed' = 0
          /\ requests' = waiting \cup Sent(posts(all), 0)
        <3>1. /\ iterated' = iterated + Cardinality(Counted(all))
              /\ firstRequests' = firstRequests \cup Disassociates(all) \cup Edits(all)
              /\ associateRequests' = associateRequests \cup parents \cup Associates(Attached(all))
              /\ GoesOn /\ requests' = waiting \cup Sent(posts(all), 0) /\ UNCHANGED completed
            BY <1>7
        <3>2. Counted(all) = U \ new
            BY <1>4, <2>1
        <3>3. phase' = "saving" /\ completed' = 0
            BY <3>1 DEF GoesOn
        <3>. HIDE DEF all, posts, Counted, new, Q
        <3>. QED
            BY <1>5, <2>1, <2>2, <3>1, <3>2, <3>3
    <2>4. iterated' = Cardinality(V2) + Cardinality(Q)
        <3>. DEFINE W == U \cap OldNodes
        <3>1. W \cap P = {} /\ V \cap W = {} /\ D \cap P = {} /\ W \in SUBSET DOMAIN drawn
            BY <1>2, <2>1, MakerAssumption DEF New
        <3>2. /\ Cardinality(V) \in Nat /\ Cardinality(D) \in Nat
              /\ Cardinality(W) \in Nat /\ Cardinality(P) \in Nat
            BY <1>2, <3>1, TreeNodesFinite
        <3>3. /\ Cardinality(W \cup P) = Cardinality(W) + Cardinality(P)
              /\ Cardinality(V \cup W) = Cardinality(V) + Cardinality(W)
              /\ Cardinality(D \cup P) = Cardinality(D) + Cardinality(P)
            <4>1. IsFiniteSet(V) /\ IsFiniteSet(D) /\ IsFiniteSet(W) /\ IsFiniteSet(P)
                BY <1>2, <3>1, TreeNodesFinite
            <4>. QED
                BY <3>1, <4>1, DisjointCount
        <3>4. iterated' = iterated + Cardinality(W \cup P)
            BY <2>1, <2>3
        <3>. HIDE DEF W
        <3>. QED
            BY <2>2, <3>2, <3>3, <3>4 DEF W
    <2>5. Done' = Q
        BY <1>2, MakerAssumption DEF Done
    <2>6. Walked(V2, Q, requests')
        <3>1. V2 \subseteq Old /\ Q \subseteq New
            BY <2>2 DEF Old
        <3>2. U \ new \subseteq V2 \cup Q
            BY <2>1, <2>2
        <3>3. \A n \in V2 \cup Q : drawn[n].parent \in {Start} \cup V2 \cup Q
            BY <2>1, <2>2, <3>2
        <3>4. ASSUME NEW r \in Sent(posts(all), 0)
              PROVE  \E n \in New \ Q : r = Posted(n) /\ drawn[n].parent \in {Start} \cup V2 \cup Q
            <4>1. PICK q \in posts(all) : r = [kind |-> q.kind, edge |-> q.edge, round |-> 0]
                BY DEF Sent
            <4>2. PICK e \in all :
                      e.node \in new /\ q = Request("add", Edge(e.parent, e.node, "none"))
                BY <4>1 DEF Posts
            <4>3. PICK n \in U : e = DrawnEdge(n)
                BY <2>1, <4>2 DEF Lines
            <4>4. e.node = n /\ e.parent = drawn[n].parent
                BY <4>3, Requests
            <4>5. n \in New \ Q
                BY <4>2, <4>4 DEF New
            <4>6. r = Posted(n)
                <5>1. q.kind = "add" /\ q.edge = Edge(drawn[n].parent, n, "none")
                    BY <4>2, <4>4 DEF Request
                <5>. QED
                    BY <4>1, <5>1 DEF Posted
            <4>7. drawn[n].parent \in {Start} \cup V2 \cup Q
                BY <2>1, <2>2, <3>2
            <4>. QED
                BY <4>5, <4>6, <4>7
        <3>5. \A r \in waiting : \E n \in New \ Q :
                  r = Posted(n) /\ drawn[n].parent \in {Start} \cup V2 \cup Q
            BY <2>2
        <3>. HIDE DEF posts, all, Q
        <3>. QED
            BY <2>3, <3>1, <3>3, <3>4, <3>5 DEF Walked
    <2>. HIDE DEF Q, all, posts, new, completes, Walk
    <2>7. Walked(V2, Done, requests)'
        BY <2>5, <2>6, SameSnapshot
    <2>8. firstRequests' = FirstOf(V2)' /\ associateRequests' = SecondOf(V2, Done)'
        BY <2>3, <2>5, SameSnapshot
    <2>9. /\ rows' = OldNodes \cup Done' /\ edges' = OldEdges'
          /\ iterated' = Cardinality(V2) + Cardinality(Done')
        BY <2>4, <2>5, SameSnapshot DEF Q
    <2>10. Visited(V2)'
        BY <2>3, <2>7, <2>8, <2>9 DEF Visited
    <2>. QED
        BY <1>6, <2>3, <2>10 DEF Saving
<1>8. ASSUME completes, NEW final \in all,
             NEW walk, walk = VisitsFrom(from, new \cup {final.node}),
             NEW before \in UpTo(final, walk), Cardinality(Counted(before)) = owed,
             Walk(walk, before)
      PROVE  Saving'
    <2>1. PICK U \in SUBSET DOMAIN drawn :
              /\ walk = Lines(U) /\ P \subseteq U
              /\ U \cap (V \cup D) = {} /\ U \ new = (U \cap OldNodes) \cup P
        <3>1. new \subseteq new \cup {final.node}
            OBVIOUS
        <3>. QED
            BY <1>3, <1>8, <3>1
    <2>. DEFINE B == {n \in U : DrawnEdge(n) \in before}
    <2>2. before = Lines(B) /\ B \in SUBSET DOMAIN drawn
        <3>1. before \subseteq walk
            BY DEF UpTo
        <3>. QED
            BY <2>1, <3>1 DEF Lines
    <2>. HIDE DEF B
    <2>3. B \subseteq U
        BY DEF B
    <2>4. V \cup D \cup (B \ new) = DOMAIN drawn
        <3>1. Counted(before) = B \ new
            BY <1>4, <2>2
        <3>2. B \ new \in SUBSET DOMAIN drawn /\ V \cap D = {} /\ (V \cup D) \cap (B \ new) = {}
            BY <1>2, <2>1, <2>2, <2>3
        <3>. HIDE DEF new, Counted
        <3>3. Cardinality(B \ new) = Cardinality(DOMAIN drawn) - (Cardinality(V) + Cardinality(D))
            BY <1>2, <1>8, <3>1
        <3>4. Cardinality(V) \in Nat /\ Cardinality(D) \in Nat /\ Cardinality(B \ new) \in Nat
              /\ Cardinality(DOMAIN drawn) \in Nat
            BY <1>2, <3>2, TreeNodesFinite
        <3>5. Cardinality(V) + Cardinality(D) + Cardinality(B \ new) = Cardinality(DOMAIN drawn)
            BY <3>3, <3>4
        <3>. QED
            BY <1>2, <3>2, <3>5, AllVisited
    <2>5. Q = New /\ new \cap DOMAIN drawn = {}
        <3>1. ASSUME NEW n \in New PROVE n \in Q
            <4>1. n \in DOMAIN drawn /\ n \in NewNodes /\ n \notin V
                BY <1>2, MakerAssumption DEF New
            <4>. QED
                BY <2>4, <4>1
        <3>. QED
            BY <3>1 DEF New
    <2>6. V \cup (B \cap OldNodes) = Old /\ V \cup (U \cap OldNodes) = Old
        <3>1. ASSUME NEW n \in Old PROVE n \in V \cup (B \cap OldNodes)
            <4>1. n \in DOMAIN drawn /\ n \in OldNodes /\ n \notin D
                BY MakerAssumption DEF Old, New
            <4>. QED
                BY <2>4, <4>1
        <3>2. U \cap OldNodes \subseteq Old
            BY DEF Old
        <3>. QED
            BY <2>3, <3>1, <3>2
    <2>7. waiting = {} /\ posts(walk) = {}
        <3>1. waiting = {}
            BY <2>5
        <3>2. {e \in walk : e.node \in new} = {}
            <4>1. \A e \in walk : e.node \in DOMAIN drawn
                BY <1>4, <2>1
            <4>. QED
                BY <2>5, <4>1
        <3>3. Posts({}) = {}
            BY DEF Posts
        <3>. QED
            BY <3>1, <3>2, <3>3
    <2>8. waiting \cup Sent(posts(walk), 0) = {}
        <3>1. Sent({}, 0) = {}
            BY DEF Sent
        <3>. HIDE DEF posts
        <3>. QED
            BY <2>7, <3>1
    <2>. HIDE DEF posts, new, Q, Counted, all
    <2>9. /\ associateRequests' = associateRequests \cup parents \cup Associates(Attached(walk))
          /\ completionCallback(firstRequests \cup Disassociates(before) \cup Edits(before)
                                 \cup Deletes, {})
        <3>1. /\ associateRequests' = associateRequests \cup parents \cup Associates(Attached(walk))
              /\ completionCallback(firstRequests \cup Disassociates(before) \cup Edits(before)
                                     \cup Deletes,
                                 waiting \cup Sent(posts(walk), 0))
            BY <1>8
        <3>. QED
            BY <2>8, <3>1
    <2>10. associateRequests' = SecondOf(Old, New)
        BY <1>5, <2>1, <2>5, <2>6, <2>9
    <2>11. completionCallback(FirstOf(Old) \cup Drops, {})
        <3>1. firstRequests \cup Disassociates(before) \cup Edits(before) = FirstOf(Old)
            BY <1>5, <2>2, <2>6
        <3>2. Deletes = Drops
            BY <2>1, VisitsCollect
        <3>. QED
            BY <2>9, <3>1, <3>2
    <2>12. rows' = OldNodes \cup New
        BY <2>5 DEF Q
    <2>. QED
        BY <2>10, <2>11, <2>12, CompleteKeeps
<1>9. CASE /\ completes
           /\ \E final \in {e \in all : e.node \notin new} :
                 LET walk == VisitsFrom(from, new \cup {final.node})
                 IN  \E before \in UpTo(final, walk) :
                         Cardinality(Counted(before)) = owed /\ Walk(walk, before)
    <2>. HIDE DEF completes, all, Walk, Counted, owed, new, from
    <2>. QED
        BY <1>8, <1>9
<1>. HIDE DEF completes, all, Walk, Counted, owed, new, from
<1>. QED
    BY <1>1, <1>7, <1>9

LEMMA SaveBegins ==
    ASSUME Drawn, Editing, phase = "edit", drawn = tree, saveWorkflowMaker
    PROVE  Saving'
<1>. DEFINE roots == {Edge(Start, n, tree[n].edge) : n \in Kids(tree, Start)}
            F == Kids(drawn, Start)
<1>1. /\ form.mode # "add" /\ ~edgeConflict(tree)
      /\ IF roots # {} THEN Recurse(roots, {}, {}, NewNodes \ rows)
         ELSE UNCHANGED collected /\ completionCallback(Deletes, {})
      /\ UNCHANGED <<drawing, refused, database, watched>>
    BY DEF saveWorkflowMaker
<1>2. /\ UNCHANGED <<original, tree, totalNodes, deletedNodes, rows, edges, written, drawn>>
      /\ UNCHANGED <<original, drawn>>
    BY <1>1 DEF drawing, database, watched
<1>3. SavedTree /\ LeftAlone
    <2>1. /\ original \in Graphs /\ IsTree(tree)
          /\ \A n \in OldNodes \cap DOMAIN tree : Inherits(tree, n)
          /\ totalNodes = Cardinality(Clickable) /\ deletedNodes = OldNodes \ DOMAIN tree
          /\ \A n \in DOMAIN tree : ~tree[n].placeholder
        BY <1>1 DEF Drawn, FormFits
    <2>2. Clickable = DOMAIN tree
        BY <2>1 DEF Clickable
    <2>. QED
        BY <1>1, <2>1, <2>2 DEF SavedTree, LeftAlone, Old, Dropped
<1>4. LeftAlone'
    BY <1>2, <1>3 DEF LeftAlone, Dropped
<1>5. /\ rows = OldNodes /\ edges = OldEdges /\ written = {} /\ completed = 0
      /\ iterated = 0 /\ associateRequests = {} /\ firstRequests = {}
    BY DEF Editing
<1>6. edges' = OldEdges /\ written' = {} /\ rows' = OldNodes
    BY <1>2, <1>5
<1>7. FirstOf({}) = {} /\ SecondOf({}, {}) = {}
    <2>1. FirstOf({}) = {}
        BY FirstRequests
    <2>2. SecondOf({}, {}) = {}
        BY <1>3, SecondRequests DEF AttachedOf, Below
    <2>. QED
        BY <2>1, <2>2
<1>8. CASE roots = {}
    <2>1. Old = {} /\ New = {}
        <3>1. Kids(drawn, Start) = {}
            BY <1>8
        <3>. QED
            BY <1>3, <3>1, NoRoots DEF SavedTree, Old, New
    <2>2. completionCallback(Deletes, {}) /\ associateRequests' = {}
        BY <1>1, <1>5, <1>8 DEF collected
    <2>3. Deletes = Drops
        <3>1. {} \in SUBSET DOMAIN drawn
            OBVIOUS
        <3>. QED
            BY <1>3, <3>1, VisitsCollect
    <2>4. completionCallback(FirstOf(Old) \cup Drops, {}) /\ associateRequests' = SecondOf(Old, New)
          /\ rows' = OldNodes \cup New
        BY <1>6, <1>7, <2>1, <2>2, <2>3
    <2>. HIDE DEF roots
    <2>. QED
        BY <1>2, <1>3, <1>5, <1>6, <2>4, CompleteKeeps
<1>9. CASE roots # {}
    <2>1. roots = Lines(F)
        BY DEF Lines, DrawnEdge, Kids
    <2>2. NewNodes \ rows = NewNodes \ ({} \cup {})
        BY <1>5, MakerAssumption
    <2>3. Recurse(Lines(F), {}, {}, NewNodes \ ({} \cup {}))
        <3>1. Recurse(roots, {}, {}, NewNodes \ rows)
            BY <1>1, <1>9
        <3>. HIDE DEF roots, F
        <3>. QED
            BY <2>1, <2>2, <3>1
    <2>4. /\ F \in SUBSET DOMAIN drawn
          /\ \A m \in {} \cup {} \cup F : drawn[m].parent \in {Start} \cup {} \cup {}
        BY DEF Kids
    <2>5. /\ iterated = Cardinality({}) + Cardinality({}) /\ firstRequests = FirstOf({})
          /\ associateRequests \cup {} = SecondOf({}, {} \cup {})
        BY <1>5, <1>7, FS_EmptySet
    <2>6. /\ {} \in SUBSET Old /\ {} \in SUBSET New /\ {} \cap {} = {}
          /\ rows' = OldNodes \cup {} \cup {}
          /\ F \cap ({} \cup {}) = {} /\ {} \subseteq F
          /\ \A r \in {} : \E n \in New \ ({} \cup {}) :
                 r = Posted(n) /\ drawn[n].parent \in {Start} \cup {} \cup {}
        BY <1>6
    <2>. HIDE DEF F, roots
    <2>. QED
        BY <1>2, <1>3, <1>4, <1>5, <1>6, <2>3, <2>4, <2>5, <2>6, RecurseKeeps
<1>. QED
    BY <1>8, <1>9

LEMMA NodeAddedKeeps ==
    ASSUME SavedTree, NEW V, Visited(V), NEW r \in requests, NodeAdded(r)
    PROVE  Saving'
<1>1. PICK D, p, waiting, parents, edge :
          /\ D = Done /\ p = r.edge.node /\ waiting = requests \ {r}
          /\ edge = Edge(r.edge.parent, p, Node(p).edge)
          /\ parents = IF Node(p).isRoot THEN {} ELSE Associates({edge})
    OBVIOUS
<1>2. /\ completed = 0 /\ phase = "saving" /\ LeftAlone
      /\ rows = OldNodes \cup D /\ edges = OldEdges /\ written = {}
      /\ V \in SUBSET Old /\ D \in SUBSET New
      /\ \A n \in V \cup D : drawn[n].parent \in {Start} \cup V \cup D
      /\ \A s \in requests : \E n \in New \ D :
            s = Posted(n) /\ drawn[n].parent \in {Start} \cup V \cup D
      /\ iterated = Cardinality(V) + Cardinality(D)
      /\ firstRequests = FirstOf(V) /\ associateRequests = SecondOf(V, D)
    BY <1>1 DEF Visited, Walked
<1>3. /\ rows' = rows \cup {p} /\ Recurse({edge}, parents, waiting, NewNodes \ rows')
      /\ UNCHANGED <<drawing, refused, edges, written, watched>>
    BY <1>1 DEF NodeAdded
<1>4. UNCHANGED <<original, tree, totalNodes, deletedNodes, drawn>> /\ UNCHANGED <<original, drawn>>
    BY <1>3 DEF drawing, watched
<1>5. LeftAlone' /\ edges' = OldEdges /\ written' = {}
    BY <1>2, <1>3, <1>4 DEF LeftAlone, Dropped
<1>6. /\ p \in New \ D /\ drawn[p].parent \in {Start} \cup V \cup D
      /\ r.edge.parent = drawn[p].parent
      /\ \A s \in waiting : \E n \in New \ (D \cup {p}) :
            s = Posted(n) /\ drawn[n].parent \in {Start} \cup V \cup D
    <2>1. PICK m \in New \ D : r = Posted(m) /\ drawn[m].parent \in {Start} \cup V \cup D
        BY <1>2
    <2>2. p = m /\ r.edge.parent = drawn[m].parent
        BY <1>1, <2>1, Requests
    <2>. QED
        BY <1>1, <1>2, <2>1, <2>2
<1>7. p \in DOMAIN drawn /\ p \notin V \cup D /\ Node(p) = drawn[p]
    BY <1>2, <1>6, MakerAssumption DEF Old, New, Node, LeftAlone
<1>8. edge = DrawnEdge(p) /\ {edge} = Lines({p})
    BY <1>1, <1>6, <1>7 DEF DrawnEdge, Lines
<1>9. NewNodes \ rows' = NewNodes \ (D \cup {p})
    BY <1>2, <1>3, MakerAssumption
<1>10. associateRequests \cup parents = SecondOf(V, D \cup {p})
    <2>1. Below(D \cup {p}) = Below(D) \cup (IF drawn[p].isRoot THEN {} ELSE {p})
        BY DEF Below
    <2>2. parents = IF drawn[p].isRoot THEN {} ELSE {Associated(p)}
        BY <1>1, <1>7, <1>8 DEF Associates, Associated
    <2>3. SecondOf(V, D \cup {p}) = SecondOf(V, D) \cup parents
        BY <2>1, <2>2 DEF SecondOf
    <2>. QED
        BY <1>2, <2>3
<1>11. /\ {p} \in SUBSET New /\ {p} \cap D = {} /\ {p} \subseteq {p}
       /\ {p} \in SUBSET DOMAIN drawn /\ {p} \cap (V \cup D) = {}
       /\ \A m \in V \cup D \cup {p} : drawn[m].parent \in {Start} \cup V \cup D
       /\ rows' = OldNodes \cup D \cup {p}
    BY <1>2, <1>3, <1>6, <1>7
<1>12. Recurse(Lines({p}), parents, waiting, NewNodes \ (D \cup {p}))
    BY <1>3, <1>8, <1>9
<1>13. phase \in {"edit", "saving"}
    BY <1>2
<1>. QED
    BY <1>2, <1>4, <1>5, <1>6, <1>10, <1>11, <1>12, <1>13, RecurseKeeps

(* What the requests of each phase are.                                    *)
LEMMA RequestsOfFirst ==
    ASSUME NEW now, First(now), NEW r \in now
    PROVE  \/ \E m \in Old : /\ original[m].parent # Start /\ Changed(m)
                             /\ original[m].parent \notin Dropped
                             /\ r = Disassociated(m)
           \/ \E m \in Old : r = Edited(m)
           \/ \E m \in Dropped : r = Deleted(m)
<1>1. r \in FirstOf(Old) \/ r \in Drops
    BY DEF First, Asked
<1>. QED
    BY <1>1, FirstRequests

LEMMA RequestsAreSent ==
    /\ \A s : Visited(s) => \A r \in requests : r.kind = "add"
    /\ \A now : First(now) =>
          /\ Unsent(now) /\ \A q \in now : q.kind \in {"disassociate", "edit", "delete"}
          /\ \A r \in requests : r.kind \in {"disassociate", "edit", "delete"}
    /\ \A now : SavedTree /\ Second(now) =>
          /\ Unsent(now) /\ \A q \in now : q.kind = "associate"
          /\ \A r \in requests : r.kind = "associate"
<1>1. ASSUME NEW V, Visited(V), NEW r \in requests PROVE r.kind = "add"
    <2>1. PICK n : r = Posted(n)
        BY <1>1 DEF Visited, Walked
    <2>. QED
        BY <2>1, Requests
<1>2. ASSUME NEW now, First(now)
      PROVE  /\ Unsent(now) /\ \A q \in now : q.kind \in {"disassociate", "edit", "delete"}
             /\ \A r \in requests : r.kind \in {"disassociate", "edit", "delete"}
    <2>1. Unsent(now)
        BY <1>2, FirstRequests DEF First, Asked, Unsent
    <2>2. \A q \in now : q.kind \in {"disassociate", "edit", "delete"}
        BY <1>2, RequestsOfFirst, Requests
    <2>3. requests = Sent(now, 1)
        BY <1>2 DEF First
    <2>4. ASSUME NEW r \in requests PROVE r.kind \in {"disassociate", "edit", "delete"}
        <3>1. PICK q \in now : q.kind = r.kind
            BY <2>1, <2>3, SentRequests
        <3>. QED
            BY <2>2, <3>1
    <2>. QED
        BY <2>1, <2>2, <2>4
<1>3. ASSUME SavedTree, NEW now, Second(now)
      PROVE  /\ Unsent(now) /\ \A q \in now : q.kind = "associate"
             /\ \A r \in requests : r.kind = "associate"
    <2>1. Unsent(now)
        BY <1>3, SecondRequests DEF Second, Unsent
    <2>2. \A q \in now : q.kind = "associate"
        BY <1>3, SecondRequests DEF Second
    <2>3. requests = Sent(now, 1)
        BY <1>3 DEF Second
    <2>4. ASSUME NEW r \in requests PROVE r.kind = "associate"
        <3>1. PICK q \in now : q.kind = r.kind
            BY <2>1, <2>3, SentRequests
        <3>. QED
            BY <2>2, <3>1
    <2>. QED
        BY <2>1, <2>2, <2>4
<1>. QED
    BY <1>1, <1>2, <1>3

(* A request of the first phase does its part, and nothing else.           *)
LEMMA FirstStep ==
    ASSUME SavedTree, NEW now, First(now), NEW r \in now, Perform(r)
    PROVE  /\ Asked(now \ {r}, rows', edges')
           /\ 1 \in refused \/ StillAsked(now \ {r}, rows', edges', written')
<1>. DEFINE rest == now \ {r}
<1>1. /\ now \subseteq FirstOf(Old) \cup Drops
      /\ DOMAIN drawn \subseteq rows /\ rows \subseteq DOMAIN drawn \cup Dropped
      /\ \A n \in Dropped : Deleted(n) \in now => n \in rows
      /\ edges \subseteq OldEdges /\ \A n \in Standing : OriginalEdge(n) \in edges
      /\ 1 \in refused \/ StillAsked(now, rows, edges, written)
      /\ Dropped = OldNodes \ DOMAIN drawn
    BY DEF First, Asked, Dropped
<1>2. rest \subseteq now /\ \A s \in now : s # r => s \in rest
    OBVIOUS
<1>3. rest \subseteq FirstOf(Old) \cup Drops
    BY <1>1
<1>. HIDE DEF rest
<1>4. CASE \E m \in Old : /\ original[m].parent # Start /\ Changed(m)
                          /\ original[m].parent \notin Dropped /\ r = Disassociated(m)
    <2>1. PICK m \in Old : Changed(m) /\ r = Disassociated(m)
        BY <1>4
    <2>2. rows' = rows /\ written' = written /\ edges' = edges \ {OriginalEdge(m)}
        BY <2>1, Requests DEF Perform
    <2>3. \A n : Deleted(n) # r /\ Edited(n) # r
        BY <2>1, Requests
    <2>4. \A n : n # m => OriginalEdge(n) # OriginalEdge(m) /\ Disassociated(n) # r
        BY <2>1, Requests
    <2>5. ASSUME NEW n \in Standing PROVE OriginalEdge(n) \in edges'
        BY <1>1, <2>1, <2>2, <2>4 DEF Standing
    <2>6. Asked(rest, rows', edges')
        BY <1>1, <1>2, <1>3, <2>2, <2>5 DEF Asked
    <2>7. ASSUME StillAsked(now, rows, edges, written)
          PROVE  StillAsked(rest, rows', edges', written')
        <3>1. \A n \in rows' \ DOMAIN drawn : Deleted(n) \in rest
            BY <1>2, <2>2, <2>3, <2>7 DEF StillAsked
        <3>2. \A n \in Old : drawn[n].edited => n \in written' \/ Edited(n) \in rest
            BY <1>2, <2>2, <2>3, <2>7 DEF StillAsked
        <3>3. ASSUME NEW n \in OldNodes, OriginalEdge(n) \in edges'
              PROVE  \/ n \in Standing
                     \/ Deleted(n) \in rest \/ Deleted(original[n].parent) \in rest
                     \/ Disassociated(n) \in rest
            <4>1. OriginalEdge(n) \in edges /\ n # m
                BY <2>2, <3>3
            <4>2. \/ n \in Standing
                  \/ Deleted(n) \in now \/ Deleted(original[n].parent) \in now
                  \/ Disassociated(n) \in now
                BY <2>7, <4>1 DEF StillAsked
            <4>3. Disassociated(n) # r
                BY <2>4, <4>1
            <4>. QED
                BY <1>2, <2>3, <4>2, <4>3
        <3>. QED
            BY <3>1, <3>2, <3>3 DEF StillAsked
    <2>. QED
        BY <1>1, <2>6, <2>7 DEF rest
<1>5. CASE \E m \in Old : r = Edited(m)
    <2>1. PICK m \in Old : r = Edited(m)
        BY <1>5
    <2>2. rows' = rows /\ edges' = edges /\ written' = written \cup {m}
        <3>1. r.kind = "edit" /\ r.edge.node = m
            BY <2>1, Requests
        <3>. QED
            BY <3>1 DEF Perform
    <2>3. \A n : Deleted(n) # r /\ Disassociated(n) # r /\ (n # m => Edited(n) # r)
        BY <2>1, Requests
    <2>4. Asked(rest, rows', edges')
        BY <1>1, <1>2, <1>3, <2>2 DEF Asked
    <2>5. StillAsked(now, rows, edges, written) => StillAsked(rest, rows', edges', written')
        BY <1>2, <2>2, <2>3 DEF StillAsked
    <2>. QED
        BY <1>1, <2>4, <2>5 DEF rest
<1>6. CASE \E m \in Dropped : r = Deleted(m)
    <2>1. PICK m \in Dropped : r = Deleted(m)
        BY <1>6
    <2>2. r.kind = "delete" /\ r.edge.node = m
        BY <2>1, Requests
    <2>3. /\ rows' = rows \ {r.edge.node} /\ written' = written
          /\ edges' = {e \in edges : r.edge.node \notin {e.node, e.parent}}
        BY <2>2 DEF Perform
    <2>4. /\ rows' = rows \ {m} /\ written' = written /\ edges' \subseteq edges
          /\ \A e \in edges' : e.node # m /\ e.parent # m
          /\ \A e \in edges : e.node # m /\ e.parent # m => e \in edges'
        BY <2>2, <2>3
    <2>5. \A n : /\ Disassociated(n) # r /\ Edited(n) # r /\ (n # m => Deleted(n) # r)
                 /\ OriginalEdge(n).node = n /\ OriginalEdge(n).parent = original[n].parent
        BY <2>1, Requests
    <2>6. m \notin DOMAIN drawn /\ m \in OldNodes
        BY <1>1, <2>1
    <2>7. Asked(rest, rows', edges')
        <3>1. ASSUME NEW n \in Dropped, Deleted(n) \in rest PROVE n \in rows'
            <4>1. n # m
                BY <2>1, <3>1 DEF rest
            <4>. QED
                BY <1>1, <1>2, <2>4, <3>1, <4>1
        <3>2. ASSUME NEW n \in Standing PROVE OriginalEdge(n) \in edges'
            <4>1. n # m /\ original[n].parent # m /\ OriginalEdge(n) \in edges
                BY <1>1, <2>6 DEF Standing, Old
            <4>. QED
                BY <2>4, <2>5, <4>1
        <3>3. DOMAIN drawn \subseteq rows'
            BY <1>1, <2>4, <2>6
        <3>. QED
            BY <1>1, <1>3, <2>4, <3>1, <3>2, <3>3 DEF Asked
    <2>8. ASSUME StillAsked(now, rows, edges, written)
          PROVE  StillAsked(rest, rows', edges', written')
        <3>1. \A n \in rows' \ DOMAIN drawn : Deleted(n) \in rest
            BY <1>2, <2>4, <2>5, <2>8 DEF StillAsked
        <3>2. ASSUME NEW n \in OldNodes, OriginalEdge(n) \in edges'
              PROVE  \/ n \in Standing
                     \/ Deleted(n) \in rest \/ Deleted(original[n].parent) \in rest
                     \/ Disassociated(n) \in rest
            <4>1. OriginalEdge(n) \in edges /\ n # m /\ original[n].parent # m
                BY <2>4, <2>5, <3>2
            <4>. QED
                BY <1>2, <2>5, <2>8, <4>1 DEF StillAsked
        <3>3. \A n \in Old : drawn[n].edited => n \in written' \/ Edited(n) \in rest
            BY <1>2, <2>4, <2>5, <2>8 DEF StillAsked
        <3>. QED
            BY <3>1, <3>2, <3>3 DEF StillAsked
    <2>. QED
        BY <1>1, <2>7, <2>8 DEF rest
<1>. QED
    BY <1>4, <1>5, <1>6, RequestsOfFirst

(* The last answer of a phase, unless a request was refused, sends later.  *)
LEMMA PhaseStep ==
    ASSUME NEW now, Unsent(now), requests = Sent(now, 1), NEW r \in requests, RequestDone(r)
    PROVE  \E q \in now :
              /\ q.kind = r.kind /\ Perform(q)
              /\ now \ {q} # {} \/ 1 \in refused =>
                     requests' = Sent(now \ {q}, 1) /\ phase' = phase
              /\ ~(now \ {q} # {} \/ 1 \in refused) =>
                     \E later :
                        /\ later = IF r.kind = "associate" THEN {} ELSE associateRequests
                        /\ requests' = Sent(later, 1)
                        /\ IF later = {} THEN closeDialog ELSE phase' = phase
<1>1. PICK q \in now : /\ q.kind = r.kind /\ q.edge = r.edge
                       /\ requests \ {r} = Sent(now \ {q}, 1)
    BY SentRequests
<1>2. PICK rest, later : /\ rest = now \ {q}
                         /\ later = IF r.kind = "associate" THEN {} ELSE associateRequests
    OBVIOUS
<1>3. r.round = 1
    BY SentRequests
<1>4. /\ Perform(r)
      /\ IF 1 \in refused \cup {o.round : o \in Sent(rest, 1)}
         THEN requests' = Sent(rest, 1) /\ UNCHANGED phase
         ELSE /\ requests' = Sent(rest, 1) \cup Sent(later, 1)
              /\ IF later = {} THEN closeDialog ELSE UNCHANGED phase
    BY <1>1, <1>2, <1>3 DEF RequestDone
<1>5. Perform(q)
    BY <1>1, <1>4 DEF Perform
<1>6. Unsent(rest)
    BY <1>2 DEF Unsent
<1>7. ASSUME rest # {} PROVE 1 \in {o.round : o \in Sent(rest, 1)}
    <2>1. PICK o : o \in Sent(rest, 1)
        BY <1>6, <1>7, SentRequests
    <2>2. o.round = 1
        BY <1>6, <2>1, SentRequests
    <2>. QED
        BY <2>1, <2>2
<1>8. ASSUME rest = {} PROVE Sent(rest, 1) = {} /\ {o.round : o \in Sent(rest, 1)} = {}
    BY <1>6, <1>8, SentRequests
<1>9. CASE rest # {} \/ 1 \in refused
    BY <1>1, <1>2, <1>4, <1>5, <1>7, <1>9
<1>10. CASE ~(rest # {} \/ 1 \in refused)
    <2>1. /\ requests' = Sent(later, 1)
          /\ IF later = {} THEN closeDialog ELSE phase' = phase
        BY <1>4, <1>8, <1>10
    <2>. QED
        BY <1>1, <1>2, <1>5, <1>10, <2>1
<1>. QED
    BY <1>9, <1>10

LEMMA FirstDone ==
    ASSUME SavedTree, NEW now, First(now), phase \in {"saving", "left"},
           NEW r \in requests, RequestDone(r)
    PROVE  Saving'
<1>1. /\ completed = 1 /\ associateRequests = SecondOf(Old, New) /\ requests = Sent(now, 1)
      /\ UNCHANGED <<original, drawn, associateRequests, completed, refused>>
      /\ UNCHANGED <<original, drawn>>
    BY DEF First, RequestDone, drawing, watched, collected
<1>2. Unsent(now) /\ r.kind # "associate"
    BY RequestsAreSent
<1>3. PICK q \in now :
          /\ q.kind = r.kind /\ Perform(q)
          /\ now \ {q} # {} \/ 1 \in refused =>
                 requests' = Sent(now \ {q}, 1) /\ phase' = phase
          /\ ~(now \ {q} # {} \/ 1 \in refused) =>
                 \E later :
                    /\ later = IF r.kind = "associate" THEN {} ELSE associateRequests
                    /\ requests' = Sent(later, 1)
                    /\ IF later = {} THEN closeDialog ELSE phase' = phase
    BY <1>1, <1>2, PhaseStep
<1>4. PICK rest : rest = now \ {q}
    OBVIOUS
<1>5. /\ Asked(rest, rows', edges')
      /\ 1 \in refused \/ StillAsked(rest, rows', edges', written')
    BY <1>3, <1>4, FirstStep
<1>6. SavedTree'
    BY <1>1, SameSnapshot
<1>7. CASE rest # {} \/ 1 \in refused
    <2>1. requests' = Sent(rest, 1) /\ phase' = phase
        BY <1>3, <1>4, <1>7
    <2>2. /\ Asked(rest, rows, edges)'
          /\ (1 \in refused \/ StillAsked(rest, rows, edges, written))'
          /\ associateRequests' = SecondOf(Old, New)'
        BY <1>1, <1>5, SameSnapshot
    <2>3. First(rest)'
        BY <1>1, <1>7, <2>1, <2>2 DEF First
    <2>. QED
        BY <1>6, <2>1, <2>3 DEF Saving
<1>8. CASE ~(rest # {} \/ 1 \in refused)
    <2>1. PICK later : /\ later = SecondOf(Old, New) /\ requests' = Sent(later, 1)
                       /\ IF later = {} THEN closeDialog ELSE phase' = phase
        BY <1>1, <1>2, <1>3, <1>4, <1>8
    <2>2. Cleaned(rows', edges', written')
        BY <1>5, <1>8, NothingAsked
    <2>3. Cleaned(rows, edges, written)' /\ later = SecondOf(Old, New)'
        BY <1>1, <2>1, <2>2, SameSnapshot
    <2>4. CASE later # {}
        <3>1. Second(later)'
            BY <1>1, <2>1, <2>3, <2>4 DEF Second
        <3>. QED
            BY <1>6, <2>1, <2>4, <3>1 DEF Saving
    <2>5. CASE later = {}
        <3>1. phase' \in {"closed", "left"} /\ requests' = {}
            BY <2>1, <2>5 DEF closeDialog, Sent
        <3>2. edges' = DrawnEdges
            BY <2>1, <2>2, <2>5, EdgesOfTheDrawing DEF Cleaned
        <3>3. Closed'
            BY <1>1, <2>3, <3>1, <3>2, SameSnapshot DEF Closed
        <3>. QED
            BY <1>6, <3>1, <3>3 DEF Saving
    <2>. QED
        BY <2>4, <2>5
<1>. QED
    BY <1>7, <1>8

LEMMA SecondDone ==
    ASSUME SavedTree, NEW now, Second(now), phase \in {"saving", "left"},
           NEW r \in requests, RequestDone(r)
    PROVE  Saving'
<1>1. /\ completed = 1 /\ requests = Sent(now, 1) /\ now \subseteq SecondOf(Old, New)
      /\ UNCHANGED <<original, drawn, completed, refused>> /\ UNCHANGED <<original, drawn>>
      /\ rows = DOMAIN drawn /\ \A n \in Old : drawn[n].edited => n \in written
      /\ edges \subseteq DrawnEdges /\ \A n \in Standing : OriginalEdge(n) \in edges
      /\ 1 \in refused \/ \A s \in SecondOf(Old, New) : s \in now \/ s.edge \in edges
    BY DEF Second, Cleaned, RequestDone, drawing, watched
<1>2. Unsent(now) /\ r.kind = "associate"
    BY RequestsAreSent
<1>3. PICK q \in now :
          /\ q.kind = r.kind /\ Perform(q)
          /\ now \ {q} # {} \/ 1 \in refused =>
                 requests' = Sent(now \ {q}, 1) /\ phase' = phase
          /\ ~(now \ {q} # {} \/ 1 \in refused) =>
                 \E later :
                    /\ later = IF r.kind = "associate" THEN {} ELSE associateRequests
                    /\ requests' = Sent(later, 1)
                    /\ IF later = {} THEN closeDialog ELSE phase' = phase
    BY <1>1, <1>2, PhaseStep
<1>4. PICK rest : rest = now \ {q}
    OBVIOUS
<1>5. q.edge \in DrawnEdges
    BY <1>1, EdgesOfTheDrawing
<1>6. rows' = rows /\ written' = written /\ edges' = edges \cup {q.edge}
    BY <1>2, <1>3 DEF Perform
<1>7. Cleaned(rows', edges', written')
    BY <1>1, <1>5, <1>6 DEF Cleaned
<1>8. 1 \in refused \/ \A s \in SecondOf(Old, New) : s \in rest \/ s.edge \in edges'
    BY <1>1, <1>4, <1>6
<1>9. SavedTree' /\ Cleaned(rows, edges, written)'
    BY <1>1, <1>7, SameSnapshot
<1>10. CASE rest # {} \/ 1 \in refused
    <2>1. requests' = Sent(rest, 1) /\ phase' = phase
        BY <1>3, <1>4, <1>10
    <2>2. /\ rest \subseteq SecondOf(Old, New)'
          /\ 1 \in refused' \/ \A s \in SecondOf(Old, New)' : s \in rest \/ s.edge \in edges'
        BY <1>1, <1>4, <1>8, SameSnapshot
    <2>3. Second(rest)'
        BY <1>1, <1>9, <1>10, <2>1, <2>2 DEF Second
    <2>. QED
        BY <1>9, <2>1, <2>3 DEF Saving
<1>11. CASE ~(rest # {} \/ 1 \in refused)
    <2>1. requests' = Sent({}, 1) /\ closeDialog
        BY <1>2, <1>3, <1>4, <1>11
    <2>2. phase' \in {"closed", "left"} /\ requests' = {}
        BY <2>1 DEF closeDialog, Sent
    <2>3. edges' = DrawnEdges
        BY <1>7, <1>8, <1>11, EdgesOfTheDrawing DEF Cleaned
    <2>4. Closed'
        BY <1>1, <1>9, <2>2, <2>3, SameSnapshot DEF Closed
    <2>. QED
        BY <1>9, <2>2, <2>4 DEF Saving
<1>. QED
    BY <1>10, <1>11

LEMMA RefusedKeeps ==
    ASSUME SavedTree, NEW s, Visited(s) \/ First(s) \/ Second(s), phase \in {"saving", "left"},
           NEW r \in requests, RequestRefused(r)
    PROVE  Saving'
<1>1. /\ refused' = refused \cup {r.round} /\ requests' = requests \ {r} /\ phase' = phase
      /\ UNCHANGED <<original, tree, totalNodes, deletedNodes, drawn>>
      /\ UNCHANGED <<original, drawn>>
      /\ UNCHANGED <<iterated, associateRequests, firstRequests, completed>>
      /\ UNCHANGED <<rows, edges, written>>
    BY DEF RequestRefused, drawing, collected, database, watched
<1>2. SavedTree'
    BY <1>1, SameSnapshot
<1>3. CASE Visited(s)
    <2>1. Done' = Done
        BY <1>1 DEF Done
    <2>2. Walked(s, Done, requests')
        BY <1>1, <1>3 DEF Visited, Walked
    <2>3. Walked(s, Done, requests)'
        BY <1>1, <2>1, <2>2, SameSnapshot
    <2>4. firstRequests' = FirstOf(s)' /\ associateRequests' = SecondOf(s, Done)'
        BY <1>1, <1>3, <2>1, SameSnapshot DEF Visited
    <2>5. iterated' = Cardinality(s) + Cardinality(Done')
        BY <1>1, <1>3, <2>1 DEF Visited
    <2>6. completed' = 0 /\ rows' = OldNodes \cup Done' /\ edges' = OldEdges' /\ written' = {}
        BY <1>1, <1>3, <2>1, SameSnapshot DEF Visited
    <2>7. phase' = "saving" /\ LeftAlone'
        BY <1>1, <1>3 DEF Visited, LeftAlone, Dropped
    <2>8. Visited(s)'
        BY <2>3, <2>4, <2>5, <2>6, <2>7 DEF Visited
    <2>. QED
        BY <1>1, <1>2, <2>8 DEF Saving
<1>4. ASSUME First(s) \/ Second(s)
      PROVE  \E rest : /\ rest \subseteq s /\ requests' = Sent(rest, 1)
                       /\ refused' = refused \cup {1}
    <2>1. Unsent(s) /\ requests = Sent(s, 1)
        BY <1>4, RequestsAreSent DEF First, Second
    <2>2. PICK q \in s : requests \ {r} = Sent(s \ {q}, 1)
        BY <2>1, SentRequests
    <2>3. r.round = 1
        BY <2>1, SentRequests
    <2>4. s \ {q} \subseteq s
        OBVIOUS
    <2>. QED
        BY <1>1, <2>2, <2>3, <2>4
<1>5. CASE First(s)
    <2>1. PICK rest : rest \subseteq s /\ requests' = Sent(rest, 1) /\ refused' = refused \cup {1}
        BY <1>4, <1>5
    <2>2. Asked(rest, rows', edges')
        BY <1>1, <1>5, <2>1 DEF First, Asked
    <2>3. Asked(rest, rows, edges)' /\ associateRequests' = SecondOf(Old, New)' /\ completed' = 1
        BY <1>1, <1>5, <2>2, SameSnapshot DEF First
    <2>4. First(rest)'
        BY <2>1, <2>3 DEF First
    <2>. QED
        BY <1>1, <1>2, <2>4 DEF Saving
<1>6. CASE Second(s)
    <2>1. PICK rest : rest \subseteq s /\ requests' = Sent(rest, 1) /\ refused' = refused \cup {1}
        BY <1>4, <1>6
    <2>2. Cleaned(rows', edges', written') /\ rest \subseteq SecondOf(Old, New)
        BY <1>1, <1>6, <2>1 DEF Second
    <2>3. Cleaned(rows, edges, written)' /\ rest \subseteq SecondOf(Old, New)' /\ completed' = 1
        BY <1>1, <1>6, <2>2, SameSnapshot DEF Second
    <2>4. Second(rest)'
        BY <2>1, <2>3 DEF Second
    <2>. QED
        BY <1>1, <1>2, <2>4 DEF Saving
<1>. QED
    BY <1>3, <1>5, <1>6

(* A save is not affected by what the user does while no node is posted.   *)
LEMMA SameSave ==
    ASSUME UNCHANGED <<original, drawn, iterated, associateRequests, firstRequests, requests,
                       completed, refused, rows, edges, written>>,
           Posting => UNCHANGED <<phase, tree, totalNodes, deletedNodes>>
    PROVE  /\ Editing' <=> Editing
           /\ SavedTree' <=> SavedTree
           /\ Closed' <=> Closed
           /\ \A s : Visited(s) \/ First(s) \/ Second(s) => Visited(s)' \/ First(s)' \/ Second(s)'
<1>1. /\ UNCHANGED <<iterated, associateRequests, firstRequests, requests, completed, refused>>
      /\ UNCHANGED <<rows, edges, written>> /\ UNCHANGED <<original, drawn>>
    OBVIOUS
<1>2. /\ Editing' <=> Editing
      /\ SavedTree' <=> SavedTree
      /\ Closed' <=> Closed
    BY <1>1, SameSnapshot DEF Editing, Closed
<1>3. ASSUME NEW s, First(s) PROVE First(s)'
    BY <1>1, <1>3, SameSnapshot DEF First
<1>4. ASSUME NEW s, Second(s) PROVE Second(s)'
    BY <1>1, <1>4, SameSnapshot DEF Second
<1>5. ASSUME NEW s, Visited(s) PROVE Visited(s)'
    <2>1. Done' = Done
        BY <1>1 DEF Done
    <2>2. Walked(s, Done, requests)'
        BY <1>1, <1>5, <2>1, SameSnapshot DEF Visited
    <2>3. firstRequests' = FirstOf(s)' /\ associateRequests' = SecondOf(s, Done)'
        BY <1>1, <1>5, <2>1, SameSnapshot DEF Visited
    <2>4. /\ iterated' = Cardinality(s) + Cardinality(Done') /\ completed' = 0
          /\ rows' = OldNodes \cup Done' /\ edges' = OldEdges' /\ written' = {}
        BY <1>1, <1>5, <2>1, SameSnapshot DEF Visited
    <2>5. ASSUME requests' # {} PROVE phase' = "saving" /\ LeftAlone'
        <3>1. PICK r : r \in requests
            BY <1>1, <2>5
        <3>2. Posting
            BY <1>5, <3>1, RequestsAreSent DEF Posting
        <3>3. phase = "saving" /\ LeftAlone
            BY <1>5, <3>1 DEF Visited
        <3>. QED
            BY <1>1, <3>2, <3>3 DEF LeftAlone, Dropped
    <2>. QED
        BY <2>2, <2>3, <2>4, <2>5 DEF Visited
<1>. QED
    BY <1>2, <1>3, <1>4, <1>5

(* The dialog does not go back to a tree that no save was begun with.      *)
LEMMA LeavesEdit ==
    ASSUME saveWorkflowMaker \/ (RequestEnds /\ phase # "edit")
    PROVE  phase' # "edit"
<1>1. ASSUME NEW first, NEW others, completionCallback(first, others) PROVE phase' # "edit"
    BY <1>1 DEF completionCallback, closeDialog, GoesOn
<1>2. GoesOn => phase' # "edit"
    BY DEF GoesOn
<1>3. ASSUME NEW from, NEW parents, NEW waiting, NEW new, Recurse(from, parents, waiting, new)
      PROVE  phase' # "edit"
    BY <1>1, <1>2, <1>3 DEF Recurse
<1>4. CASE saveWorkflowMaker
    BY <1>1, <1>3, <1>4 DEF saveWorkflowMaker
<1>5. ASSUME NEW r \in requests, NodeAdded(r) PROVE phase' # "edit"
    BY <1>3, <1>5 DEF NodeAdded
<1>6. ASSUME NEW r \in requests, RequestDone(r), phase # "edit" PROVE phase' # "edit"
    BY <1>6 DEF RequestDone, closeDialog
<1>7. ASSUME NEW r \in requests, RequestRefused(r), phase # "edit" PROVE phase' # "edit"
    BY <1>7 DEF RequestRefused
<1>. QED
    BY <1>4, <1>5, <1>6, <1>7 DEF RequestEnds

LEMMA StutterKeeps ==
    ASSUME MakerInv, UNCHANGED MakerVars
    PROVE  MakerInv'
<1>1. /\ UNCHANGED <<original, tree, totalNodes, deletedNodes, form>>
      /\ UNCHANGED <<original, drawn, iterated, associateRequests, firstRequests, requests,
                     completed, refused, rows, edges, written>>
      /\ UNCHANGED <<phase, tree, totalNodes, deletedNodes>> /\ disturbed' = disturbed
    BY DEF MakerVars, drawing, collected, database, watched
<1>2. Drawn => Drawn'
    <2>1. Drawn => DrawnAs(tree', form', totalNodes', deletedNodes')
        BY <1>1, DrawnMeans
    <2>. QED
        BY <1>1, <2>1, DrawnNext
<1>3. /\ Editing' <=> Editing
      /\ SavedTree' <=> SavedTree
      /\ Closed' <=> Closed
      /\ \A s : Visited(s) \/ First(s) \/ Second(s) => Visited(s)' \/ First(s)' \/ Second(s)'
    BY <1>1, SameSave
<1>4. ASSUME Saving PROVE Saving'
    BY <1>1, <1>3, <1>4 DEF Saving
<1>5. phase' = phase /\ drawn' = drawn /\ tree' = tree
    BY <1>1
<1>. QED
    BY <1>1, <1>2, <1>3, <1>4, <1>5 DEF MakerInv

LEMMA DrawKeepsSaving ==
    ASSUME MakerInv, Draw
    PROVE  MakerInv'
<1>1. /\ UNCHANGED <<original, iterated, associateRequests, firstRequests, requests,
                     completed, refused, rows, edges, written>>
      /\ phase' = phase /\ drawn' = IF phase = "edit" THEN tree' ELSE drawn
      /\ disturbed' = (disturbed \/ (Posting /\ walkedBy' # walkedBy))
      /\ phase \in {"edit", "saving"} /\ Change /\ original' = original
    BY DEF Draw, collected, database
<1>2. CASE phase = "edit"
    <2>1. Drawn /\ Editing /\ rows = OldNodes
        BY <1>2 DEF MakerInv, Editing
    <2>2. Drawn'
        BY <1>1, <2>1, DrawKeeps
    <2>3. Editing'
        <3>1. OldEdges' = OldEdges
            BY <1>1 DEF OldEdges, OriginalEdge
        <3>. QED
            BY <1>1, <2>1, <3>1 DEF Editing
    <2>. QED
        BY <1>1, <1>2, <2>2, <2>3 DEF MakerInv, Saving
<1>3. CASE phase = "saving"
    <2>1. UNCHANGED <<original, drawn, iterated, associateRequests, firstRequests, requests,
                      completed, refused, rows, edges, written>>
        BY <1>1, <1>3
    <2>2. ASSUME ~disturbed' PROVE Saving'
        <3>1. ~disturbed /\ (Posting => walkedBy' = walkedBy)
            BY <1>1, <2>2
        <3>2. Posting => UNCHANGED <<phase, tree, totalNodes, deletedNodes>>
            BY <1>1, <3>1 DEF walkedBy
        <3>3. PICK s : SavedTree /\ (Visited(s) \/ First(s) \/ Second(s))
            BY <1>3, <3>1 DEF MakerInv, Saving
        <3>4. SavedTree' /\ (Visited(s)' \/ First(s)' \/ Second(s)')
            BY <2>1, <3>2, <3>3, SameSave
        <3>. QED
            BY <1>1, <1>3, <3>4 DEF Saving
    <2>. QED
        BY <1>1, <1>3, <2>2 DEF MakerInv
<1>. QED
    BY <1>1, <1>2, <1>3

LEMMA CloseKeeps ==
    ASSUME MakerInv, closeWorkflowMaker
    PROVE  MakerInv'
<1>1. /\ UNCHANGED <<original, drawn, iterated, associateRequests, firstRequests, requests,
                     completed, refused, rows, edges, written>>
      /\ phase' = "left" /\ phase \in {"edit", "saving"}
      /\ disturbed' = (disturbed \/ Posting)
    BY DEF closeWorkflowMaker, collected, database
<1>2. ASSUME ~disturbed' PROVE Saving'
    <2>1. ~disturbed /\ ~Posting /\ Saving
        BY <1>1, <1>2 DEF MakerInv
    <2>2. Posting => UNCHANGED <<phase, tree, totalNodes, deletedNodes>>
        BY <2>1
    <2>3. /\ Editing' <=> Editing
          /\ SavedTree' <=> SavedTree
          /\ \A s : Visited(s) \/ First(s) \/ Second(s) => Visited(s)' \/ First(s)' \/ Second(s)'
        BY <1>1, <2>2, SameSave
    <2>. QED
        BY <1>1, <2>1, <2>3 DEF Saving
<1>. QED
    BY <1>1, <1>2 DEF MakerInv

LEMMA MakerInductive ==
    ASSUME MakerInv, [MakerNext]_MakerVars
    PROVE  MakerInv'
<1>1. CASE UNCHANGED MakerVars
    BY <1>1, StutterKeeps
<1>2. CASE Draw
    BY <1>2, DrawKeepsSaving
<1>3. CASE saveWorkflowMaker
    <2>1. phase = "edit" /\ Drawn /\ Editing /\ drawn = tree
        BY <1>3 DEF saveWorkflowMaker, MakerInv
    <2>2. Saving'
        BY <1>3, <2>1, SaveBegins
    <2>3. phase' # "edit"
        BY <1>3, LeavesEdit
    <2>. QED
        BY <2>2, <2>3 DEF MakerInv
<1>4. CASE closeWorkflowMaker
    BY <1>4, CloseKeeps
<1>5. ASSUME NEW r \in requests, NodeAdded(r) \/ RequestDone(r) \/ RequestRefused(r)
      PROVE  MakerInv'
    <2>1. phase # "edit" /\ phase' # "edit"
        <3>1. phase # "edit"
            BY <1>5 DEF MakerInv, Editing
        <3>2. RequestEnds
            BY <1>5 DEF RequestEnds
        <3>. QED
            BY <3>1, <3>2, LeavesEdit
    <2>2. disturbed' = disturbed
        BY <1>5 DEF NodeAdded, RequestDone, RequestRefused, watched
    <2>3. ASSUME ~disturbed PROVE Saving'
        <3>1. PICK s : /\ SavedTree /\ phase \in {"saving", "left"}
                       /\ Visited(s) \/ First(s) \/ Second(s)
            BY <2>1, <2>3 DEF MakerInv, Saving, Editing, Closed
        <3>2. CASE NodeAdded(r)
            <4>1. r.kind = "add"
                BY <3>2 DEF NodeAdded
            <4>2. Visited(s)
                BY <3>1, <4>1, RequestsAreSent
            <4>. QED
                BY <3>1, <3>2, <4>2, NodeAddedKeeps
        <3>3. CASE RequestDone(r)
            <4>1. r.kind # "add"
                BY <3>3 DEF RequestDone
            <4>2. First(s) \/ Second(s)
                BY <3>1, <4>1, RequestsAreSent
            <4>. QED
                BY <3>1, <3>3, <4>2, FirstDone, SecondDone
        <3>4. CASE RequestRefused(r)
            BY <3>1, <3>4, RefusedKeeps
        <3>. QED
            BY <1>5, <3>2, <3>3, <3>4
    <2>. QED
        BY <2>1, <2>2, <2>3 DEF MakerInv
<1>. QED
    BY <1>1, <1>2, <1>3, <1>4, <1>5 DEF MakerNext, RequestEnds

(* The API accepts the edges of the drawing in any order.                  *)
LEMMA EdgeAccepted ==
    ASSUME SavedTree, rows = DOMAIN drawn, edges \subseteq DrawnEdges,
           NEW n \in DOMAIN drawn, drawn[n].parent # Start
    PROVE  Accepted(Associated(n))
<1>. DEFINE e == DrawnEdge(n)
            p == drawn[n].parent
<1>1. e.node = n /\ e.parent = p /\ e.type = drawn[n].edge
    BY Requests
<1>2. p \in DOMAIN drawn
    BY DEF SavedTree, IsTree
<1>3. \A x \in edges : \E k \in DOMAIN drawn :
          x = DrawnEdge(k) /\ x.node = k /\ x.parent = drawn[k].parent /\ x.type = drawn[k].edge
    <2>1. ASSUME NEW x \in edges PROVE \E k \in DOMAIN drawn : x = DrawnEdge(k)
        BY DEF DrawnEdges
    <2>. QED
        BY <2>1, Requests
<1>. HIDE DEF e
<1>4. ~Mixed({x.type : x \in {y \in edges : y.parent = e.parent}} \cup {e.type})
    <2>1. ~Mixed({drawn[c].edge : c \in Kids(drawn, p)})
        BY <1>2 DEF SavedTree, edgeConflict
    <2>2. {x.type : x \in {y \in edges : y.parent = e.parent}} \cup {e.type}
              \subseteq {drawn[c].edge : c \in Kids(drawn, p)}
        BY <1>1, <1>3 DEF Kids
    <2>. QED
        BY <2>1, <2>2 DEF Mixed
<1>5. e \in edges \/ ParentIn(edges, n) = {}
    <2>1. ASSUME NEW x \in edges, x.node = n PROVE x = e
        BY <1>3, <2>1 DEF e
    <2>. QED
        BY <2>1 DEF ParentIn
<1>6. n \notin Above(edges, p)
    <2>1. PICK q \in Ranks(drawn) : Ranked(drawn, q)
        BY DEF SavedTree, IsTree
    <2>2. \A x \in DOMAIN drawn :
              q[x] \in Nat /\ (drawn[x].parent \in DOMAIN drawn => q[drawn[x].parent] < q[x])
        BY <2>1 DEF Ranks, Ranked
    <2>. DEFINE C == {x \in DOMAIN drawn : q[x] <= q[p]}
    <2>3. p \in C /\ n \notin C
        BY <1>2, <2>2
    <2>4. ASSUME NEW m \in C, NEW k \in ParentIn(edges, m) PROVE k \in C
        <3>1. k \in DOMAIN drawn /\ k = drawn[m].parent
            <4>1. PICK x \in edges : x.node = m /\ k = x.parent
                BY DEF ParentIn
            <4>2. PICK j \in DOMAIN drawn : drawn[j].parent # Start /\ x = DrawnEdge(j)
                BY <4>1 DEF DrawnEdges
            <4>3. j = m /\ k = drawn[m].parent
                BY <4>1, <4>2, Requests
            <4>. QED
                BY <4>2, <4>3 DEF SavedTree, IsTree
        <3>2. q[k] < q[m] /\ q[m] <= q[p] /\ q[k] \in Nat /\ q[m] \in Nat /\ q[p] \in Nat
            BY <1>2, <2>2, <3>1
        <3>. QED
            BY <3>1, <3>2
    <2>. HIDE DEF C
    <2>5. Above(edges, p) \subseteq C
        BY <2>3, <2>4, AboveWithin
    <2>. QED
        BY <2>3, <2>5
<1>7. is_valid_relation(e)
    BY <1>1, <1>4, <1>5, <1>6 DEF is_valid_relation
<1>. DEFINE r == Associated(n)
<1>8. r.kind = "associate" /\ r.edge = e
    BY Requests DEF e
<1>. HIDE DEF r
<1>9. Accepted(r)
    BY <1>1, <1>2, <1>7, <1>8 DEF Accepted
<1>. QED
    BY <1>9 DEF r

LEMMA MakerSafe == MakerInv => NothingRefused /\ SavedAsDrawn
<1>. SUFFICES ASSUME MakerInv, ~disturbed
              PROVE  /\ \A r \in requests : Accepted(r)
                     /\ SavedAsDrawn
    BY DEF NothingRefused, SavedAsDrawn
<1>1. Saving
    BY DEF MakerInv
<1>2. ASSUME NEW r \in requests PROVE Accepted(r)
    <2>1. PICK s : SavedTree /\ (Visited(s) \/ First(s) \/ Second(s))
        BY <1>1 DEF Saving, Editing, Closed
    <2>2. CASE Visited(s)
        <3>1. r.kind = "add"
            BY <2>2, RequestsAreSent
        <3>. QED
            BY <3>1 DEF Accepted
    <2>3. ASSUME First(s) \/ Second(s)
          PROVE  \E q \in s : q.kind = r.kind /\ q.edge = r.edge
        <3>1. Unsent(s) /\ requests = Sent(s, 1)
            BY <2>1, <2>3, RequestsAreSent DEF First, Second
        <3>. QED
            BY <3>1, SentRequests
    <2>4. ASSUME NEW q, q.kind = r.kind, q.edge = r.edge, Accepted(q) PROVE Accepted(r)
        BY <2>4 DEF Accepted
    <2>5. CASE First(s)
        <3>1. DOMAIN drawn \subseteq rows /\ \A n \in Dropped : Deleted(n) \in s => n \in rows
            BY <2>5 DEF First, Asked
        <3>2. PICK q \in s : q.kind = r.kind /\ q.edge = r.edge
            BY <2>3, <2>5
        <3>3. ASSUME NEW m \in Old, original[m].parent # Start,
                     original[m].parent \notin Dropped, q = Disassociated(m)
              PROVE  Accepted(q)
            <4>1. q.kind = "disassociate" /\ q.edge.node = m /\ q.edge.parent = original[m].parent
                BY <3>3, Requests
            <4>2. original[m].parent \in OldNodes /\ m \in DOMAIN drawn
                BY <2>1, <3>3, SavedGraph DEF SavedTree, Old
            <4>3. original[m].parent \in DOMAIN drawn
                BY <3>3, <4>2 DEF Dropped
            <4>. QED
                BY <3>1, <4>1, <4>2, <4>3 DEF Accepted
        <3>4. ASSUME NEW m \in Old, q = Edited(m) PROVE Accepted(q)
            <4>1. q.kind = "edit" /\ q.edge.node = m /\ m \in DOMAIN drawn
                BY <3>4, Requests DEF Old
            <4>. QED
                BY <3>1, <4>1 DEF Accepted
        <3>5. ASSUME NEW m \in Dropped, q = Deleted(m) PROVE Accepted(q)
            <4>1. q.kind = "delete" /\ q.edge.node = m
                BY <3>5, Requests
            <4>2. m \in rows
                BY <3>1, <3>2, <3>5
            <4>. QED
                BY <4>1, <4>2 DEF Accepted
        <3>6. Accepted(q)
            BY <2>5, <3>3, <3>4, <3>5, RequestsOfFirst
        <3>. QED
            BY <2>4, <3>2, <3>6
    <2>6. CASE Second(s)
        <3>1. rows = DOMAIN drawn /\ edges \subseteq DrawnEdges /\ s \subseteq SecondOf(Old, New)
            BY <2>6 DEF Second, Cleaned
        <3>2. PICK q \in s : q.kind = r.kind /\ q.edge = r.edge
            BY <2>3, <2>6
        <3>3. PICK n \in DOMAIN drawn : drawn[n].parent # Start /\ q = Associated(n)
            BY <2>1, <3>1, <3>2, SecondRequests
        <3>4. Accepted(q)
            BY <2>1, <3>1, <3>3, EdgeAccepted
        <3>. QED
            BY <2>4, <3>2, <3>4
    <2>. QED
        BY <2>1, <2>2, <2>5, <2>6
<1>3. ASSUME phase = "closed" \/ (completed > 0 /\ requests = {} /\ refused = {})
      PROVE  Closed
    <2>1. ~(phase \in {"edit", "left"} /\ Editing)
        BY <1>3 DEF Editing
    <2>2. ASSUME NEW s, Visited(s) \/ First(s) \/ Second(s), phase # "closed" PROVE FALSE
        <3>1. completed > 0 /\ requests = {} /\ refused = {}
            BY <1>3, <2>2
        <3>2. ~Visited(s)
            BY <3>1 DEF Visited
        <3>3. CASE First(s) \/ Second(s)
            <4>1. requests = Sent(s, 1) /\ s # {}
                BY <3>1, <3>3 DEF First, Second
            <4>2. Sent(s, 1) # {}
                BY <4>1 DEF Sent
            <4>. QED
                BY <3>1, <4>1, <4>2
        <3>. QED
            BY <2>2, <3>2, <3>3
    <2>. QED
        BY <1>1, <1>3, <2>1, <2>2 DEF Saving
<1>4. SavedAsDrawn
    <2>1. Closed => /\ rows = DOMAIN drawn /\ edges = DrawnEdges
                    /\ \A n \in Old : drawn[n].edited => n \in written
        BY DEF Closed, Cleaned
    <2>. QED
        BY <1>3, <2>1 DEF SavedAsDrawn, DrawnEdges, DrawnEdge, Old
<1>. QED
    BY <1>2, <1>4

LEMMA MakerStart == MakerInit => MakerInv
<1>. SUFFICES ASSUME MakerInit PROVE MakerInv
    OBVIOUS
<1>1. Drawn
    BY InitDrawn
<1>2. Editing
    BY DEF MakerInit, Editing, OldEdges, OriginalEdge
<1>. QED
    BY <1>1, <1>2 DEF MakerInv, Saving, MakerInit

LEMMA MakerInvariant == MakerSpec => []MakerInv
BY MakerStart, MakerInductive, PTL DEF MakerSpec

(* saveWorkflowMaker asks for nothing that the API refuses, in whatever    *)
(* order the requests of a phase reach it, as long as the tree is left     *)
(* alone while nodes are posted: the disassociations of one save name no   *)
(* deleted node, and the associations neither mix the edge types of a node *)
(* nor give one two parents, nor close a cycle.  The user may draw on, or  *)
(* close the dialog, in the phases after the posts.                        *)
THEOREM SavesAreAccepted == MakerSpec => []NothingRefused
BY MakerInvariant, MakerSafe, PTL

(* When a save has come to its end, and the tree was left alone while      *)
(* nodes were posted, the nodes and edges that the requests left in the    *)
(* database are the ones of the tree that the save was begun with, and the *)
(* nodes that were edited were written; what the user did in the phases    *)
(* after the posts does not matter.                                        *)
THEOREM SavesWriteTheDrawing == MakerSpec => []SavedAsDrawn
BY MakerInvariant, MakerSafe, PTL
=============================================================================
