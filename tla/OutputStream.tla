---------------------------- MODULE OutputStream ----------------------------
(***************************************************************************)
(* The stream of job events behind the output page of a running job        *)
(* (features/output/stream.service.js).  Events come over the websocket in *)
(* any order, some of them twice, and are handled one at a time on a chain *)
(* of promises.  They wait in the buffer rx until the counters up to them  *)
(* are complete, and are then handed to the page in batches; the chain     *)
(* stands still while the page shows a batch.                              *)
(***************************************************************************)
EXTENDS OutputConstants, Sequences, FiniteSets, FiniteSetsExt

CONSTANTS
    StatsCounters,  \* counters that playbook_on_stats may have, 0 for none
    Twice           \* events that arrive once more

FinalTask == 0      \* the task of setFinalCounter on the chain
Batches == [events : SUBSET Events, last : BOOLEAN, busy : {TRUE}]
NoFrames == [events |-> {}, last |-> FALSE, busy |-> FALSE]

ASSUME StreamAssumption ==
    StatsCounters \subseteq Events \cup {0} /\ Twice \subseteq Events

VARIABLES
    stats,          \* the counter of the job's playbook_on_stats event, or 0
    copies,         \* how often each event still comes over the websocket
    summary,        \* the websocket still has the job's final counter
    rx,             \* counters of the buffered events
    min, max, ready, total,     \* this.counters
    ending, ended, overflow,    \* this.state
    framesPerRender,
    chain,          \* the tasks that are not done, the current one first
    frames,         \* the batch that the page is showing
    delivered,      \* history: the counters emitted so far
    upTo            \* history: the last threshold of bufferEmpty

wire == <<stats, copies, summary>>
buffer == <<rx, min, max, ready, total, overflow, framesPerRender>>
history == <<delivered, upTo>>
StreamVars == <<wire, buffer, ending, ended, chain, frames, history>>

----------------------------------------------------------------------------
(* Frames per render: divisors of the event limit, larger ones for a       *)
(* longer chain.                                                           *)
calcFactors == {i \in 1 .. EventLimit : EventLimit % i = 0}

lag == Len(SelectSeq(chain, LAMBDA task : task # FinalTask))

(* The one factor at the index, counted from 0.                            *)
FactorAt(index) ==
    {f \in calcFactors : Cardinality({g \in calcFactors : g < f}) = index}

FramesFor(waiting) ==
    LET size == Cardinality(calcFactors)
    IN  FactorAt(Min({size - 1, (waiting * size) \div MaxLag}))

(* bufferInit: nothing has arrived.                                        *)
bufferInit ==
    /\ rx = {} /\ min = 1 /\ max = -1 /\ ready = -1 /\ total = 0
    /\ ending = FALSE /\ ended = FALSE /\ overflow = FALSE
    /\ framesPerRender = 1
    /\ chain = <<>> /\ frames = NoFrames
    /\ delivered = {} /\ upTo = 0

StreamInit ==
    /\ stats \in StatsCounters
    /\ copies = [e \in Events |-> IF e \in Twice THEN 2 ELSE 1]
    /\ summary = (stats = 0)
    /\ bufferInit

----------------------------------------------------------------------------
(* The websocket: the tasks are only chained here.                         *)
pushJobEvent(e) == chain' = Append(chain, e)

setFinalCounter == chain' = Append(chain, FinalTask)

EventArrives(e) ==
    /\ copies[e] > 0
    /\ copies' = [copies EXCEPT ![e] = @ - 1]
    /\ pushJobEvent(e)
    /\ UNCHANGED <<stats, summary, buffer, ending, ended, frames, history>>

SummaryArrives ==
    /\ summary
    /\ summary' = FALSE
    /\ setFinalCounter
    /\ UNCHANGED <<stats, copies, buffer, ending, ended, frames, history>>

(* The events below a threshold are loaded another way.                    *)
setMissingCounterThreshold(counter) ==
    min' = IF counter > min THEN counter ELSE min

FinalCounter == IF stats = 0 THEN LastEvent ELSE stats

----------------------------------------------------------------------------
(* The tasks of the chain.                                                 *)
(* Faulty variant: the counters before min + framesPerRender are given up  *)
(* even when there is room to wait for them.                               *)
ReadyThroughHoles(missing, full, top) ==
    IF missing = {} THEN top ELSE min + framesPerRender

(* Up to where the buffer is complete, or given up since it is full.       *)
ReadyCounter(missing, full, top) ==
    CASE missing = {} -> top
      [] missing # {} /\ full -> min + framesPerRender
      [] OTHER -> Min(missing) - 1

(* Faulty variant: the end of the output does not hurry the rest.          *)
ReadyUnhurried(readyCount, count, rate, hurry) ==
    /\ readyCount > 0
    /\ \/ count % rate = 0
       \/ count < PageSize /\ readyCount % rate = 0

isReadyToRender(readyCount, count, rate, hurry) ==
    /\ readyCount > 0
    /\ \/ hurry
       \/ count % rate = 0
       \/ count < PageSize /\ readyCount % rate = 0

TaskDone == chain' = Tail(chain) /\ frames' = NoFrames

(* Faulty variant: the buffer is emptied one counter too far.              *)
EmptyTooFar(held, threshold) ==
    /\ rx' = {e \in held : e > threshold}
    /\ min' = threshold
    /\ delivered' = delivered \cup {e \in held : e <= threshold}
    /\ upTo' = threshold

bufferEmpty(held, threshold) ==
    /\ rx' = {e \in held : e > threshold}
    /\ min' = threshold + 1
    /\ delivered' = delivered \cup {e \in held : e <= threshold}
    /\ upTo' = threshold

(* The page starts to show a batch; the task ends when it is done.         *)
emitFrames(batch, last) ==
    /\ frames' = [events |-> batch, last |-> last, busy |-> TRUE]
    /\ chain' = chain

(* bufferAdd, setFramesPerRender and the decision to render.               *)
PushTask ==
    LET e == Head(chain)
        top == IF e > max THEN e ELSE max
        held == IF e >= min THEN rx \cup {e} ELSE rx
        full == Cardinality(held) > MaxBuffer
        threshold == ReadyCounter((min .. top) \ held, full, top)
        batch == {b \in held : b <= threshold}
    IN  /\ chain # <<>> /\ e # FinalTask /\ ~frames.busy
        /\ ending' = (ending \/ e = stats)
        /\ max' = top /\ overflow' = full /\ ready' = threshold
        /\ total' = total + 1
        /\ framesPerRender' \in IF total' % PageSize = 0 THEN FramesFor(lag)
                                ELSE {framesPerRender}
        /\ IF isReadyToRender(threshold - min, total', framesPerRender', ending')
           THEN /\ bufferEmpty(held, threshold)
                /\ IF batch = {} THEN TaskDone
                   ELSE emitFrames(batch, ending' /\ threshold >= FinalCounter)
           ELSE rx' = held /\ TaskDone /\ UNCHANGED <<min, history>>
        /\ UNCHANGED <<wire, ended>>

FinalCounterTask ==
    /\ chain # <<>> /\ Head(chain) = FinalTask /\ ~frames.busy
    /\ ending' = TRUE
    /\ IF FinalCounter <= ready /\ ready > min
       THEN /\ bufferEmpty(rx, ready)
            /\ emitFrames({b \in rx : b <= ready}, TRUE)
       ELSE TaskDone /\ UNCHANGED <<rx, min, history>>
    /\ UNCHANGED <<wire, max, ready, total, overflow, framesPerRender, ended>>

(* The page has shown the batch.                                           *)
FramesShown ==
    /\ frames.busy
    /\ TaskDone
    /\ IF frames.last
       THEN ending' = FALSE /\ ended' = TRUE
       ELSE UNCHANGED <<ending, ended>>
    /\ UNCHANGED <<wire, buffer, history>>

StreamTask == PushTask \/ FinalCounterTask \/ FramesShown

(* The page loads the events below a counter from the API.                 *)
PageLoaded ==
    /\ \E counter \in Events : /\ counter > min
                               /\ setMissingCounterThreshold(counter)
    /\ UNCHANGED <<wire, rx, max, ready, total, overflow, framesPerRender,
                   ending, ended, chain, frames, history>>

StreamNext ==
    \/ \E e \in Events : EventArrives(e)
    \/ SummaryArrives
    \/ StreamTask
    \/ PageLoaded

(* Promises are resolved: the head of the chain is shown or done.          *)
TaskMoves ==
    /\ chain # <<>>
    /\ \/ ~frames.busy /\ chain' = chain /\ frames' \in Batches
       \/ TaskDone

StreamFairness == WF_<<chain, frames>>(TaskMoves)
StreamSpec == StreamInit /\ [][StreamNext]_StreamVars /\ StreamFairness

----------------------------------------------------------------------------
StreamTypeOK ==
    /\ stats \in Events \cup {0}
    /\ copies \in [Events -> 0 .. 2] /\ summary \in BOOLEAN
    /\ rx \subseteq Events
    /\ min \in Nat \ {0} /\ max \in Events \cup {-1} /\ ready \in Int
    /\ total \in Nat /\ framesPerRender \in calcFactors
    /\ ending \in BOOLEAN /\ ended \in BOOLEAN /\ overflow \in BOOLEAN
    /\ chain \in Seq(Events \cup {FinalTask})
    /\ frames \in Batches \cup {NoFrames}
    /\ delivered \subseteq Events /\ upTo \in Nat

(* What makes the promises below hold at every step: what was handed over  *)
(* lies behind the threshold and what is still to come before it, a last   *)
(* batch has reached the final counter, and up to ready nothing is missing *)
(* but by an overflow.                                                     *)
StreamInv ==
    /\ StreamTypeOK
    /\ upTo < min
    /\ \A e \in rx : upTo < e
    /\ \A e \in delivered : e <= upTo
    /\ frames.busy => chain # <<>>
    /\ frames.last \/ ended => FinalCounter <= upTo
    /\ ~overflow => min .. ready \subseteq rx

(* The stream keeps the promise of EventLog: the batches that it hands to  *)
(* the page follow each other in the order of the counters, whatever order *)
(* the websocket has, and the page hears of the end of the output only     *)
(* when everything up to the final counter was handed over or given up.    *)
Log == INSTANCE EventLog WITH final <- FinalCounter, closed <- ended
ImplementsEventLog == Log!LogSpec

(* When the end is known and every event has come and gone through the     *)
(* chain, no more than the newest event is held back in the buffer.        *)
NothingHeldBack ==
    (/\ ending /\ chain = <<>> /\ ~summary
     /\ \A e \in Events : copies[e] = 0)
        => Cardinality({e \in rx : e >= min}) <= 1

(* A batch leaves out an event between its bounds only when the buffer has *)
(* overflowed, or when the page has loaded that part another way.          *)
HolesOnlyByOverflow ==
    [][upTo' > upTo /\ ~overflow' => min .. upTo' \subseteq delivered']_StreamVars
=============================================================================
