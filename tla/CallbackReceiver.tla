-------------------------- MODULE CallbackReceiver --------------------------
(***************************************************************************)
(* The way of the events of one job from its runner (awx/main/queue.py)    *)
(* through the broker to the database (run_callback_receiver.py).  The     *)
(* parent of the receiver hands each message to one of its workers, by a   *)
(* bounded queue in memory, and acknowledges it then: what the workers     *)
(* have not handled when the receiver stops is gone.  The last message is  *)
(* EOF, which sends the notifications of the job.                          *)
(***************************************************************************)
EXTENDS Naturals, Sequences, SequencesExt

CONSTANTS
    LastMessage,        \* the events of the job are 1 .. LastMessage - 1
    JobEventWorkers,    \* JOB_EVENT_WORKERS, numbered from 0
    MaxQueueSize,       \* JOB_EVENT_MAX_QUEUE_SIZE
    MaxRetries,         \* MAX_RETRIES of a save
    MaxPolls,           \* the looks of EOF at whether the job has finished
    MaxFaults           \* bound: errors and stops

ASSUME ReceiverAssumption ==
    /\ {LastMessage, JobEventWorkers, MaxQueueSize, MaxPolls} \subseteq Nat \ {0}
    /\ {MaxRetries, MaxFaults} \subseteq Nat

VARIABLES
    published,          \* the messages that the runner has dispatched
    jobFinished,        \* finished of the job
    broker,             \* the messages that wait for the receiver
    serving,            \* whether the receiver runs
    killed,             \* whether a worker has sent it a SIGINT
    hand,               \* the message of process_task, and the queues to try
    queue,              \* the queue of each worker
    work,               \* what each worker handles
    orphans,            \* what the workers of stopped receivers still handle
    handled,            \* the messages that are saved, or for EOF sent
    dropped,            \* the messages of which a copy was given up
    faults

ReceiverVars == <<published, jobFinished, broker, serving, killed, hand, queue,
                  work, orphans, handled, dropped, faults>>

EOF == LastMessage
Workers == 0 .. JobEventWorkers - 1
NoMessage == [msg |-> 0, left |-> <<>>]
Free == [msg |-> 0, tries |-> 0]
Left == [msg |-> 0, tries |-> 1]    \* a worker that has returned

(* Nothing is published yet, or all is over.                               *)
ReceiverFrom(sent) ==
    /\ published = sent /\ jobFinished = (sent = LastMessage)
    /\ broker = <<>> /\ serving = TRUE /\ killed = FALSE /\ hand = NoMessage
    /\ queue = [w \in Workers |-> <<>>] /\ work = [w \in Workers |-> Free]
    /\ orphans = {} /\ handled = 1 .. sent /\ dropped = {} /\ faults = 0

ReceiverInit == ReceiverFrom(0)

Fault == faults < MaxFaults /\ faults' = faults + 1

----------------------------------------------------------------------------
(* dispatch: an error while publishing leads to a retry, so that a message *)
(* can arrive twice; after four of them it is given up.                    *)
Dispatches ==
    LET m == published + 1
    IN  /\ published < LastMessage
        /\ published' = m
        /\ \/ broker' = Append(broker, m) /\ UNCHANGED <<dropped, faults>>
           \/ broker' = broker \o <<m, m>> /\ Fault /\ UNCHANGED dropped
           \/ dropped' = dropped \cup {m} /\ Fault /\ UNCHANGED broker
        /\ UNCHANGED <<jobFinished, serving, killed, hand, queue, work, orphans,
                       handled>>

(* The runner saves the status of the job after it has closed its output.  *)
JobFinishes ==
    /\ published = LastMessage /\ ~jobFinished
    /\ jobFinished' = TRUE
    /\ UNCHANGED <<published, broker, serving, killed, hand, queue, work, orphans,
                   handled, dropped, faults>>

----------------------------------------------------------------------------
(* process_task: the queue of the worker that the uuid points to is tried  *)
(* first, and then the others in their order.                              *)
QueueOrder(preferred) ==
    <<preferred>> \o SetToSortSeq(Workers \ {preferred}, <)

Takes ==
    /\ serving /\ hand = NoMessage /\ broker # <<>>
    /\ \E preferred \in Workers :
          hand' = [msg |-> Head(broker), left |-> QueueOrder(preferred)]
    /\ broker' = Tail(broker)
    /\ UNCHANGED <<published, jobFinished, serving, killed, queue, work, orphans,
                   handled, dropped, faults>>

Puts ==
    LET w == Head(hand.left)
    IN  /\ serving /\ hand.left # <<>>
        /\ Len(queue[w]) < MaxQueueSize
        /\ queue' = [queue EXCEPT ![w] = Append(@, hand.msg)]
        /\ hand' = [hand EXCEPT !.left = <<>>]
        /\ UNCHANGED <<published, jobFinished, broker, serving, killed, work,
                       orphans, handled, dropped, faults>>

(* A queue that stays full for 5 seconds; when all do the message is lost. *)
QueueFull ==
    /\ serving /\ hand.left # <<>>
    /\ Len(queue[Head(hand.left)]) = MaxQueueSize
    /\ hand' = [hand EXCEPT !.left = Tail(@)]
    /\ dropped' = IF Len(hand.left) = 1 THEN dropped \cup {hand.msg} ELSE dropped
    /\ UNCHANGED <<published, jobFinished, broker, serving, killed, queue, work,
                   orphans, handled, faults>>

Acks ==
    /\ serving /\ hand # NoMessage /\ hand.left = <<>>
    /\ hand' = NoMessage
    /\ UNCHANGED <<published, jobFinished, broker, serving, killed, queue, work,
                   orphans, handled, dropped, faults>>

----------------------------------------------------------------------------
(* callback_worker.                                                        *)
Gets(w) ==
    /\ serving /\ work[w] = Free /\ queue[w] # <<>>
    /\ work' = [work EXCEPT ![w].msg = Head(queue[w])]
    /\ queue' = [queue EXCEPT ![w] = Tail(@)]
    /\ UNCHANGED <<published, jobFinished, broker, serving, killed, hand, orphans,
                   handled, dropped, faults>>

(* EOF looks for the end of the job a few times, a second after the other, *)
(* and is given up after any error.  An event is saved; it is tried again  *)
(* when the connection has failed, and given up for another error of the   *)
(* database.                                                               *)
Succeeds(b) ==
    /\ b.msg = EOF => jobFinished
    /\ handled' = handled \cup {b.msg} /\ UNCHANGED <<dropped, faults>>

TriesAgain(b) ==
    /\ IF b.msg = EOF THEN ~jobFinished /\ b.tries + 1 < MaxPolls /\ UNCHANGED faults
                      ELSE b.tries < MaxRetries /\ Fault
    /\ UNCHANGED <<handled, dropped>>

GivesUp(b) ==
    /\ \/ Fault
       \/ b.msg = EOF /\ ~jobFinished /\ b.tries + 1 = MaxPolls /\ UNCHANGED faults
    /\ dropped' = dropped \cup {b.msg} /\ UNCHANGED handled

(* The last failure of the connection; the worker returns.                 *)
Disconnected(b) == b.msg # EOF /\ b.tries = MaxRetries

WorkerHandles(w) ==
    LET b == work[w]
    IN  /\ serving /\ b.msg # 0
        /\ \/ /\ Succeeds(b) \/ GivesUp(b)
              /\ work' = [work EXCEPT ![w] = Free] /\ killed' = killed
           \/ /\ TriesAgain(b)
              /\ work' = [work EXCEPT ![w].tries = @ + 1] /\ killed' = killed
           \/ /\ Disconnected(b) /\ GivesUp(b)
              /\ work' = [work EXCEPT ![w] = Left] /\ killed' = TRUE
        /\ UNCHANGED <<published, jobFinished, broker, serving, hand, queue, orphans>>

(* A worker that was told to terminate handles what it has.                *)
OrphanHandles(b) ==
    /\ b \in orphans
    /\ \/ (Succeeds(b) \/ GivesUp(b)) /\ orphans' = orphans \ {b}
       \/ TriesAgain(b)
          /\ orphans' = (orphans \ {b}) \cup {[b EXCEPT !.tries = @ + 1]}
    /\ UNCHANGED <<published, jobFinished, broker, serving, killed, hand, queue, work>>

----------------------------------------------------------------------------
(* Faulty variant: a message is acknowledged when it is taken.             *)
AckedWhenTaken == <<>>

(* What the broker delivers once more.                                     *)
Unacknowledged == IF hand = NoMessage THEN <<>> ELSE <<hand.msg>>

(* The receiver is stopped, by a worker or from outside.                   *)
ReceiverStops ==
    /\ serving
    /\ IF killed THEN UNCHANGED faults ELSE Fault
    /\ serving' = FALSE /\ killed' = FALSE
    /\ broker' = Unacknowledged \o broker /\ hand' = NoMessage
    /\ dropped' = dropped \cup UNION {ToSet(queue[w]) : w \in Workers}
    /\ queue' = [w \in Workers |-> <<>>]
    /\ orphans' = orphans \cup {work[w] : w \in {v \in Workers : work[v].msg # 0}}
    /\ work' = [w \in Workers |-> Free]
    /\ UNCHANGED <<published, jobFinished, handled>>

(* supervisor starts it again.                                             *)
ReceiverStarts ==
    /\ ~serving /\ serving' = TRUE
    /\ UNCHANGED <<published, jobFinished, broker, killed, hand, queue, work, orphans,
                   handled, dropped, faults>>

----------------------------------------------------------------------------
Works(w) == Gets(w) \/ WorkerHandles(w)

OrphanWorks == \E b \in orphans : OrphanHandles(b)

ReceiverNext ==
    \/ Dispatches \/ JobFinishes
    \/ Takes \/ Puts \/ QueueFull \/ Acks
    \/ \E w \in Workers : Works(w)
    \/ OrphanWorks
    \/ ReceiverStops \/ ReceiverStarts

(* The runner goes on, the parent and each worker go on, and supervisor    *)
(* has autorestart.                                                        *)
ReceiverFairness ==
    /\ WF_ReceiverVars(Dispatches \/ JobFinishes)
    /\ WF_ReceiverVars(Takes \/ Puts \/ QueueFull \/ Acks)
    /\ \A w \in Workers : WF_ReceiverVars(Works(w))
    /\ WF_ReceiverVars(OrphanWorks)
    /\ WF_ReceiverVars(killed /\ ReceiverStops) /\ WF_ReceiverVars(ReceiverStarts)

ReceiverSpec == ReceiverInit /\ [][ReceiverNext]_ReceiverVars /\ ReceiverFairness

----------------------------------------------------------------------------
(* Every message that a runner has dispatched is handled in the end or     *)
(* given up in one of the ways in which the code gives messages up: not    *)
(* published, in no queue, refused by the database, in memory when the     *)
(* receiver stopped, or an EOF that came too early.  None is forgotten or  *)
(* stuck, whatever fails between the broker and the database.              *)
EventsSettle == <>[](handled \cup dropped = 1 .. LastMessage)
=============================================================================
