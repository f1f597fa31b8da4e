---------------------------- MODULE OutputViewer ----------------------------
(***************************************************************************)
(* The output page of a job that is still running: the controller          *)
(* (features/output/index.controller.js) between the stream, the sliding   *)
(* window of slide.service.js, the rows of the render service and the      *)
(* scroll service.  The user's operations wait for the API and for         *)
(* animation frames, and batches of the stream arrive in between; paused   *)
(* and lockFrames are what keeps them off each other's rows.  Where the    *)
(* scroll position decides, either way is possible.                        *)
(***************************************************************************)
EXTENDS OutputStream, OutputWindow

CONSTANTS
    Opens,          \* pairs of a counter of stats, and the number of events
                    \* that came before the page was opened
    Radius,         \* handleJobEvent loads this many events on each side
    ApiFails        \* whether a request to the events API may fail

ASSUME ViewerAssumption ==
    /\ Opens \subseteq StatsCounters \X (0 .. LastEvent) /\ Radius \in Nat
    /\ ApiFails \in BOOLEAN

VARIABLES
    allSaved,       \* whether the job has run and all its events are stored
    screen,         \* the window of the render service
    slide,          \* buffer.events of the slide service
    maxCounter,     \* the largest counter that the events API has returned
    op,             \* the user's operation that waits for the API
    asked,          \* the counters that it asked for
    pushing,        \* the events that onFrames is adding to the rows
    following, lockFrames, lockFollow, followOnce,
    paused, locked, \* the scroll service; it hides what it locks
    slow,           \* how many of the last frame rates were 1, at most 5
    listening, streaming, waiting  \* the handler of job events

flags == <<lockFrames, lockFollow, followOnce>>
request == <<op, asked>>
scroll == <<paused, locked, following>>
listener == <<listening, streaming, waiting>>
viewer == <<allSaved, screen, slide, maxCounter, request, pushing, flags, scroll, slow, listener>>
ViewerVars == <<StreamVars, viewer>>

Nothing == [on |-> FALSE, events |-> {}, popCount |-> 0]
Ask(kind, counters) == op' = kind /\ asked' = counters
AskNothing == Ask("none", {})

----------------------------------------------------------------------------
(* The events API: an event is stored before it comes over the websocket,  *)
(* and the job may be far ahead of the websocket.                          *)
Arrived == {e \in Events : copies[e] = 0}
Saved == IF allSaved THEN Events ELSE Arrived

MaxOf(S, least) == Max(S \cup {least})
FirstEvents(S) == {e \in S : Cardinality({f \in S : f <= e}) <= PageSize}
LastEvents(S) ==
    LET rest == Cardinality(S) % PageSize
        count == IF rest = 0 THEN PageSize ELSE rest
    IN  {e \in S : Cardinality({f \in S : f >= e}) <= count}

(* getLast forgets the largest counter when the last page is full.         *)
LastCounter(S) ==
    IF Cardinality(S) > PageSize /\ Cardinality(S) % PageSize = 0 THEN 0
    ELSE MaxOf(S, 0)

(* The page opens with lastRange; its first request is under way.          *)
PageOpens(first) ==
    /\ allSaved = FALSE
    /\ screen = NoRows /\ slide = {} /\ pushing = Nothing
    /\ op = first /\ asked = {} /\ paused = TRUE /\ lockFrames = TRUE
    /\ lockFollow = FALSE /\ followOnce = TRUE
    /\ following = FALSE /\ locked = FALSE /\ slow = 5
    /\ listening = TRUE /\ streaming = "none" /\ waiting = <<>>

ViewerInit ==
    /\ \E open \in Opens :
          /\ stats = open[1] /\ summary = (stats = 0)
          /\ copies = [e \in Events |-> IF e <= open[2] THEN 0 ELSE 1]
          /\ maxCounter = LastCounter(1 .. open[2])
    /\ bufferInit
    /\ PageOpens("last")

(* The sliding window.                                                     *)
slideMax == IF MaxOf(slide, 0) > 1 THEN Max(slide) ELSE maxCounter

isOnLastPage(buffered) ==
    IF buffered # {} THEN screen.tail >= Min(buffered) - 1
    ELSE screen.tail >= maxCounter - PageSize

getBoundedRange(S) == {e \in S : 1 <= e /\ e <= slideMax}
NextRange(w) == getBoundedRange(w.tail + 1 .. w.tail + 1 + PageSize)
PreviousRange == getBoundedRange(screen.head - 1 - PageSize .. screen.head - 1)

(* What pushFrames keeps of the frames: the newest batch goes last.        *)
Kept(batch) ==
    LET all == slide \cup batch
    IN  IF Cardinality(all) <= MaxBuffer THEN {all}
        ELSE {k \in kSubset(MaxBuffer, all) : batch \subseteq k \/ k \subseteq batch}

----------------------------------------------------------------------------
(* Following.                                                              *)
(* Faulty variant: the scroll bar is not given back.                       *)
StopsLocked == following' = FALSE /\ locked' = locked

stopFollowing ==
    /\ following' = FALSE
    /\ locked' = (locked /\ ~following)

(* canStartFollowing: the last page and the end of the scroll bar, or once *)
(* its start when there is a page of output below.                         *)
MayFollow(buffered, bottom, top) ==
    /\ ~lockFollow
    /\ \/ bottom /\ isOnLastPage(buffered)
       \/ top /\ followOnce /\ screen.tail - screen.head >= PageSize

(* onFrames, up to its first animation frame.                              *)
onFrames(batch) ==
    \E kept \in Kept(batch), bottom \in BOOLEAN, top \in BOOLEAN :
        LET events == IF screen.tail = screen.head THEN kept
                      ELSE {e \in kept : e > screen.tail}
            popCount == Cardinality(events) - getCapacity(screen)
            start == ~following /\ MayFollow(kept, bottom, top)
        IN  /\ slide' = kept
            /\ IF lockFrames THEN UNCHANGED <<following, followOnce, pushing, paused>>
               ELSE /\ following' = (following \/ start)
                    /\ followOnce' = (followOnce /\ ~start)
                    /\ IF following' \/ popCount <= 0
                       THEN /\ paused' = TRUE
                            /\ pushing' = [on |-> TRUE, events |-> events,
                                           popCount |-> popCount]
                       ELSE UNCHANGED <<pushing, paused>>

(* onFrameRate.                                                            *)
NextSlow == IF framesPerRender' > 1 THEN 0 ELSE Min({slow + 1, 5})
onFrameRate ==
    IF total' % PageSize = 0
    THEN /\ slow' = NextSlow
         /\ locked' = CASE framesPerRender' > 1 /\ following -> TRUE
                        [] NextSlow = 5 -> FALSE
                        [] OTHER -> locked
    ELSE UNCHANGED <<slow, locked>>

ViewerPushTask ==
    /\ PushTask
    /\ onFrameRate
    /\ IF frames'.busy THEN onFrames(frames'.events)
       ELSE UNCHANGED <<slide, following, followOnce, pushing, paused>>
    /\ UNCHANGED <<allSaved, screen, maxCounter, request, lockFrames, lockFollow,
                   listener>>

ViewerFinalTask ==
    /\ FinalCounterTask
    /\ IF frames'.busy THEN onFrames(frames'.events)
       ELSE UNCHANGED <<slide, following, followOnce, pushing, paused>>
    /\ UNCHANGED <<allSaved, screen, maxCounter, request, lockFrames, lockFollow,
                   slow, locked, listener>>

(* The rest of onFrames, and onStop after the last batch.                  *)
ViewerFramesShown ==
    /\ FramesShown
    /\ pushing' = Nothing
    /\ IF pushing.on
       THEN /\ screen' = pushFront(popBack(screen, pushing.popCount), pushing.events)
            /\ paused' = FALSE
       ELSE UNCHANGED <<screen, paused>>
    /\ IF frames.last
       THEN /\ lockFollow' = TRUE /\ following' = FALSE /\ locked' = FALSE
            /\ listening' = FALSE
       ELSE UNCHANGED <<lockFollow, following, locked, listening>>
    /\ UNCHANGED <<allSaved, slide, maxCounter, request, lockFrames, followOnce,
                   slow, streaming, waiting>>

ViewerStreamTask == ViewerPushTask \/ ViewerFinalTask \/ ViewerFramesShown

----------------------------------------------------------------------------
(* The websocket.  The first event loads its neighbours, and the others    *)
(* wait for them; when that fails, nothing is listened to any more.        *)
handleJobEvent(e) ==
    /\ copies[e] > 0
    /\ copies' = [copies EXCEPT ![e] = @ - 1]
    /\ CASE ~listening \/ streaming = "failed" -> UNCHANGED <<chain, streaming, waiting>>
         [] listening /\ streaming = "on" ->
                pushJobEvent(e) /\ UNCHANGED <<streaming, waiting>>
         [] listening /\ streaming \in {"none", "fetching"} ->
                /\ streaming' = "fetching" /\ waiting' = Append(waiting, e)
                /\ chain' = chain
    /\ UNCHANGED <<stats, summary, buffer, ending, ended, frames, history,
                   allSaved, screen, slide, maxCounter, request, pushing, flags,
                   scroll, slow, listening>>

JobRuns ==
    /\ ~allSaved
    /\ allSaved' = TRUE
    /\ UNCHANGED <<StreamVars, screen, slide, maxCounter, request, pushing, flags,
                   scroll, slow, listener>>

handleSummaryEvent ==
    /\ summary
    /\ summary' = FALSE
    /\ IF listening THEN setFinalCounter ELSE chain' = chain
    /\ UNCHANGED <<stats, copies, buffer, ending, ended, frames, history, viewer>>

(* Of the neighbours, those after the last one that is missing.            *)
Contiguous(S) ==
    LET missing == (Min(S) .. Max(S)) \ S
    IN  {e \in S : \A m \in missing : e > m}

pushJobEvents(tasks, results) ==
    MapThenFoldSet(LAMBDA e, before : Append(before, e), tasks,
                   LAMBDA e : e, LAMBDA T : Max(T), results)

Fetched ==
    /\ streaming = "fetching"
    /\ LET e == Head(waiting)
           near == {n \in Saved : e - Radius <= n /\ n <= e + Radius}
           results == Contiguous(near)
           again == IF e \in results THEN <<e>> ELSE <<>>
       IN  /\ chain' = pushJobEvents(chain, results) \o again \o waiting
           /\ setMissingCounterThreshold(Min(near))
           /\ maxCounter' = MaxOf(near, maxCounter)
    /\ streaming' = "on" /\ waiting' = <<>>
    /\ UNCHANGED <<wire, rx, max, ready, total, overflow, framesPerRender,
                   ending, ended, frames, history, allSaved, screen, slide, request,
                   pushing, flags, scroll, slow, listening>>

FetchFails ==
    /\ ApiFails
    /\ streaming = "fetching"
    /\ streaming' = "failed" /\ waiting' = <<>>
    /\ UNCHANGED <<StreamVars, allSaved, screen, slide, maxCounter, request, pushing, flags,
                   scroll, slow, listening>>

----------------------------------------------------------------------------
(* The user's operations, up to their request.                             *)
(* Faulty variant: the batches of the stream are not kept off.             *)
BeginUnlocked(kind, counters) ==
    /\ paused' = TRUE /\ lockFrames' = lockFrames
    /\ Ask(kind, counters)

Begin(kind, counters) ==
    /\ paused' = TRUE /\ lockFrames' = TRUE
    /\ Ask(kind, counters)

firstRange ==
    /\ ~paused
    /\ stopFollowing /\ lockFollow' = TRUE
    /\ IF screen.head = 1 THEN UNCHANGED <<request, paused, lockFrames>>
       ELSE Begin("first", {})
    /\ UNCHANGED followOnce

nextRange ==
    /\ ~following /\ ~paused
    /\ Begin("next", NextRange(screen))
    /\ UNCHANGED <<following, locked, lockFollow, followOnce>>

previousRange ==
    /\ ~paused
    /\ stopFollowing
    /\ Begin("previous", PreviousRange)
    /\ UNCHANGED <<lockFollow, followOnce>>

(* lastRange returns at once while the scroll service is paused, and the   *)
(* page follows all the same.                                              *)
menuLastRange ==
    /\ IF following
       THEN stopFollowing /\ lockFollow' = TRUE /\ UNCHANGED <<request, paused, lockFrames>>
       ELSE /\ lockFollow' = FALSE /\ locked' = locked
            /\ IF paused
               THEN following' = TRUE /\ UNCHANGED <<request, paused, lockFrames>>
               ELSE Begin("menuLast", {}) /\ following' = following
    /\ UNCHANGED followOnce

onThresholdLeave ==
    /\ followOnce' = FALSE /\ lockFollow' = FALSE
    /\ stopFollowing
    /\ UNCHANGED <<request, paused, lockFrames>>

Click ==
    /\ firstRange \/ nextRange \/ previousRange \/ menuLastRange \/ onThresholdLeave
    /\ UNCHANGED <<StreamVars, allSaved, screen, slide, maxCounter, pushing, slow, listener>>

----------------------------------------------------------------------------
(* The answers of the API.                                                 *)
Others == <<wire, rx, max, ready, total, overflow, framesPerRender, ending, ended,
          chain, frames, history, allSaved, slide, pushing, followOnce, locked,
          slow, listener>>

firstLoaded ==
    /\ op = "first"
    /\ LET results == FirstEvents(Saved)
           w == pushFront(cleared(screen), results)
       IN  /\ screen' = w
           /\ maxCounter' = MaxOf(results, maxCounter)
           /\ Ask("firstNext", NextRange(w))
    /\ UNCHANGED <<min, paused, lockFrames, lockFollow, following, Others>>

(* Faulty variant: the operation leaves the scroll service paused.         *)
EndPaused == AskNothing /\ paused' = paused

(* The end of an operation; the scroll service resumes.                    *)
End == AskNothing /\ paused' = FALSE

(* Faulty variant: what was loaded is added to what is there.              *)
ShiftUnbounded(results) == pushFront(screen, results)

(* Make room at the far end and add what was loaded.                       *)
Shift(results) ==
    pushFront(popBack(screen, Cardinality(results) - getCapacity(screen)), results)
ShiftBack(results) ==
    pushBack(popFront(screen, Cardinality(results) - getCapacity(screen)), results)

rangeLoaded ==
    /\ op \in {"firstNext", "next", "previous"}
    /\ LET results == asked \cap Saved
       IN  /\ screen' = IF op = "previous" THEN ShiftBack(results)
                        ELSE Shift(results)
           /\ maxCounter' = MaxOf(results, maxCounter)
    /\ End
    /\ lockFrames' = (op = "firstNext")
    /\ lockFollow' = (lockFollow /\ op # "firstNext")
    /\ UNCHANGED <<min, following, Others>>

lastLoaded ==
    /\ op \in {"last", "menuLast"}
    /\ LET results == IF slide # {} THEN slide ELSE LastEvents(Saved)
           w == pushFront(cleared(screen), results)
       IN  /\ screen' = w
           /\ maxCounter' = IF slide # {} THEN maxCounter
                            ELSE Max({maxCounter, LastCounter(Saved)})
           /\ setMissingCounterThreshold(w.tail + 1)
    /\ End /\ lockFrames' = FALSE
    /\ following' = (following \/ op = "menuLast")
    /\ UNCHANGED <<lockFollow, Others>>

requestFails ==
    /\ ApiFails
    /\ \/ op \in {"first", "firstNext", "next", "previous"}
       \/ op \in {"last", "menuLast"} /\ slide = {}
    /\ screen' = IF op \in {"first", "last", "menuLast"} THEN cleared(screen)
                 ELSE screen
    /\ End
    /\ lockFrames' = (op \notin {"next", "previous"})
    /\ lockFollow' = (lockFollow /\ op \notin {"first", "firstNext"})
    /\ UNCHANGED <<min, maxCounter, following, Others>>

Answered == firstLoaded \/ rangeLoaded \/ lastLoaded \/ requestFails

ViewerNext ==
    \/ \E e \in Events : handleJobEvent(e)
    \/ handleSummaryEvent
    \/ JobRuns
    \/ Fetched \/ FetchFails
    \/ ViewerStreamTask
    \/ Click
    \/ Answered

(* Promises and animation frames run, and every request is answered.       *)
ViewerFairness ==
    /\ StreamFairness
    /\ WF_ViewerVars(Fetched \/ FetchFails)
    /\ WF_op(op # "none" /\ op' \in {"firstNext", "none"} \ {op})
ViewerSpec == ViewerInit /\ [][ViewerNext]_ViewerVars /\ ViewerFairness

----------------------------------------------------------------------------
(* Two operations never work on the rows at the same time: each computes   *)
(* what to pop and to add from the head and the tail that it started with. *)
OneRendering == pushing.on => op = "none"

(* The rows keep the order of the output and their records.                *)
ScreenInOrder == IsWindow(screen) /\ InOrder(screen)

(* The scroll bar is taken away from the user only while the page follows. *)
LockedWhileFollowing == locked => following

(* The page stays bounded: scrolling and following pop as many records of  *)
(* events as they add, and jumping to the end adds no more than the buffer *)
(* holds.                                                                  *)
TableBounded ==
    Cardinality({id \in Range(screen.uuids) : ~IsMarker(id)})
        <= Max({EventLimit + 1, MaxBuffer})
=============================================================================
