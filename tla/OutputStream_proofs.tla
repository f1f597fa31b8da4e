------------------------ MODULE OutputStream_proofs ------------------------
(* For every size of the buffer, of the lag and of the pages, and for      *)
(* every order in which the websocket brings the events: what the stream   *)
(* of a running job promises to the output page.                           *)
EXTENDS OutputStream, FiniteSetTheorems, TLAPS

USE SizeAssumption, StreamAssumption

(* The least of some counters is one of them and no greater than another:  *)
(* of what lies below each of them, the least set belongs to the least.    *)
LEMMA MinOfCounters ==
    ASSUME NEW S \in SUBSET Nat, IsFiniteSet(S), S # {}
    PROVE  Min(S) \in S /\ \A c \in S : Min(S) <= c
<1>. DEFINE UpTo(c) == {d \in S : d <= c}
            Cuts == {UpTo(c) : c \in S}
<1>1. IsWellFoundedOn(StrictSubsetOrdering(S), SUBSET S)
    BY FS_StrictSubsetOrderingWellFounded, FS_FiniteSubsetsOfFinite
<1>2. Cuts \subseteq SUBSET S /\ Cuts # {}
    <2>1. \A c \in S : UpTo(c) \in SUBSET S
        OBVIOUS
    <2>2. \E c \in S : UpTo(c) \in Cuts
        OBVIOUS
    <2>. HIDE DEF UpTo
    <2>. QED
        BY <2>1, <2>2
<1>3. PICK cut \in Cuts : \A d \in Cuts : ~(<<d, cut>> \in StrictSubsetOrdering(S))
    BY <1>1, <1>2, WFMin
<1>4. PICK least \in S : cut = UpTo(least)
    BY <1>3
<1>5. ASSUME NEW c \in S, c < least
      PROVE  FALSE
    <2>1. \A d \in S : d \in Nat
        OBVIOUS
    <2>2. \A d \in S : d <= c => d <= least
        BY <1>4, <1>5, <2>1
    <2>3. least <= least /\ ~(least <= c)
        BY <1>4, <1>5, <2>1
    <2>4. UpTo(c) \subseteq UpTo(least) /\ least \in UpTo(least) /\ least \notin UpTo(c)
        BY <1>4, <2>2, <2>3
    <2>5. <<UpTo(c), cut>> \in StrictSubsetOrdering(S)
        BY <1>4, <2>4 DEF StrictSubsetOrdering
    <2>. QED
        BY <1>3, <2>5
<1>6. \A c \in S : least <= c
    BY <1>5
<1>. QED
    BY <1>6 DEF Min

(* Up to where the buffer is ready is a counter, and when the buffer has   *)
(* room, no counter from min up to there is missing.                       *)
LEMMA ReadyUpToTheFirstHole ==
    ASSUME StreamTypeOK, NEW full \in BOOLEAN, NEW top \in Int,
           NEW held \in SUBSET Events, NEW threshold,
           threshold = ReadyCounter((min .. top) \ held, full, top)
    PROVE  /\ threshold \in Int
           /\ ~full => min .. threshold \subseteq held
<1>. DEFINE missing == (min .. top) \ held
<1>1. min \in Nat /\ framesPerRender \in Nat
    BY DEF StreamTypeOK, calcFactors
<1>2. CASE missing = {}
    BY <1>1, <1>2 DEF ReadyCounter
<1>3. CASE missing # {} /\ full
    BY <1>1, <1>3 DEF ReadyCounter
<1>4. CASE missing # {} /\ ~full
    <2>1. missing \in SUBSET Nat /\ IsFiniteSet(missing)
        <3>1. IsFiniteSet(min .. top) /\ missing \in SUBSET (min .. top)
            BY <1>1, FS_Interval
        <3>. QED
            BY <1>1, <3>1, FS_Subset
    <2>. DEFINE first == Min(missing)
    <2>2. first \in missing /\ \A c \in missing : first <= c
        BY <1>4, <2>1, MinOfCounters
    <2>3. threshold = first - 1
        BY <1>4 DEF ReadyCounter
    <2>. HIDE DEF first
    <2>4. first \in Nat /\ first \in min .. top
        BY <2>1, <2>2
    <2>5. ASSUME NEW c \in min .. threshold
          PROVE  c \in held
        <3>1. c \in min .. top /\ ~(first <= c)
            BY <1>1, <2>3, <2>4
        <3>2. c \notin missing
            BY <2>2, <3>1
        <3>. QED
            BY <3>1, <3>2
    <2>. QED
        BY <2>3, <2>4, <2>5
<1>. QED
    BY <1>2, <1>3, <1>4

(* One more task on the chain.                                             *)
LEMMA ChainGrows ==
    ASSUME StreamTypeOK, NEW task \in Events \cup {FinalTask}
    PROVE  /\ Append(chain, task) \in Seq(Events \cup {FinalTask})
           /\ Append(chain, task) # <<>>
<1>1. chain \in Seq(Events \cup {FinalTask})
    BY DEF StreamTypeOK
<1>2. Len(Append(chain, task)) = Len(chain) + 1 /\ Len(chain) \in Nat
    BY <1>1
<1>. QED
    BY <1>1, <1>2

LEMMA ChainShrinks ==
    ASSUME StreamTypeOK, chain # <<>>
    PROVE  /\ Head(chain) \in Events \cup {FinalTask}
           /\ Tail(chain) \in Seq(Events \cup {FinalTask})
BY DEF StreamTypeOK

LEMMA InitStream == StreamInit => StreamInv
<1>. SUFFICES ASSUME StreamInit PROVE StreamInv
    OBVIOUS
<1>1. stats \in Events \cup {0} /\ copies \in [Events -> 0 .. 2] /\ summary \in BOOLEAN
    BY DEF StreamInit
<1>2. 1 \in calcFactors
    BY DEF calcFactors
<1>3. chain \in Seq(Events \cup {FinalTask}) /\ frames \in Batches \cup {NoFrames}
    BY DEF StreamInit, bufferInit
<1>4. /\ rx \subseteq Events /\ delivered \subseteq Events
      /\ min \in Nat \ {0} /\ max \in Events \cup {-1} /\ ready \in Int
      /\ total \in Nat /\ upTo \in Nat
    BY DEF StreamInit, bufferInit
<1>5. ending \in BOOLEAN /\ ended \in BOOLEAN /\ overflow \in BOOLEAN
    BY DEF StreamInit, bufferInit
<1>6. StreamTypeOK
    BY <1>1, <1>2, <1>3, <1>4, <1>5 DEF StreamInit, bufferInit, StreamTypeOK
<1>. QED
    BY <1>6 DEF StreamInit, bufferInit, StreamInv, NoFrames

----------------------------------------------------------------------------
(* What bufferEmpty does to the history of a batch.                        *)
BatchAhead ==
    /\ upTo' > upTo /\ delivered \subseteq delivered'
    /\ delivered' \ delivered \subseteq upTo + 1 .. upTo'

LEMMA EmptiedUpTo ==
    ASSUME StreamInv, NEW held \in SUBSET Events, \A e \in held : upTo < e,
           NEW threshold \in Int, min < threshold, bufferEmpty(held, threshold)
    PROVE  /\ rx' \subseteq Events /\ delivered' \subseteq Events
           /\ min' \in Nat \ {0} /\ upTo' \in Nat /\ upTo' < min'
           /\ \A e \in rx' : upTo' < e
           /\ \A e \in delivered' : e <= upTo'
           /\ min' = threshold + 1 /\ upTo' = threshold
           /\ BatchAhead
<1>1. /\ upTo \in Nat /\ min \in Nat /\ upTo < min
      /\ delivered \subseteq Events /\ Events \subseteq Nat
      /\ \A e \in delivered : e <= upTo
    BY DEF StreamInv, StreamTypeOK, Events
<1>2. /\ rx' = {e \in held : e > threshold} /\ min' = threshold + 1
      /\ delivered' = delivered \cup {e \in held : e <= threshold}
      /\ upTo' = threshold
    BY DEF bufferEmpty
<1>3. /\ upTo < upTo' /\ upTo' \in Nat /\ min' \in Nat \ {0} /\ upTo' < min'
    BY <1>1, <1>2
<1>4. \A e \in rx' : upTo' < e
    BY <1>1, <1>2
<1>5. \A e \in delivered' : e <= upTo'
    BY <1>1, <1>2
<1>6. ASSUME NEW e \in delivered' \ delivered
      PROVE  e \in upTo + 1 .. upTo'
    BY <1>1, <1>2
<1>. QED
    BY <1>1, <1>2, <1>3, <1>4, <1>5, <1>6 DEF BatchAhead

(* The part of the invariant that is left when a batch goes out or none.   *)
Numbers ==
    /\ rx \subseteq Events /\ delivered \subseteq Events
    /\ min \in Nat \ {0} /\ upTo \in Nat /\ upTo < min
    /\ \A e \in rx : upTo < e
    /\ \A e \in delivered : e <= upTo

Rest ==
    /\ stats \in Events \cup {0}
    /\ copies \in [Events -> 0 .. 2] /\ summary \in BOOLEAN
    /\ max \in Events \cup {-1} /\ ready \in Int
    /\ total \in Nat /\ framesPerRender \in calcFactors
    /\ ending \in BOOLEAN /\ ended \in BOOLEAN /\ overflow \in BOOLEAN
    /\ chain \in Seq(Events \cup {FinalTask})
    /\ frames \in Batches \cup {NoFrames}

Shows == frames.busy => chain # <<>>
AtTheEnd == frames.last \/ ended => FinalCounter <= upTo
Complete == ~overflow => min .. ready \subseteq rx

LEMMA Parts == StreamInv => StreamTypeOK /\ Numbers /\ Rest /\ Shows /\ AtTheEnd /\ Complete
BY DEF StreamInv, StreamTypeOK, Numbers, Rest, Shows, AtTheEnd, Complete

----------------------------------------------------------------------------
(* What a step has to show: the invariant, the step of the abstract log,   *)
(* and that a batch has no hole unless the buffer overflowed.              *)
NoHole == upTo' > upTo /\ ~overflow' => min .. upTo' \subseteq delivered'
LogStands == UNCHANGED <<stats, delivered, upTo, ended>>
GoodStep ==
    /\ StreamInv'
    /\ NoHole
    /\ LogStands \/ (BatchAhead /\ UNCHANGED <<stats, ended>>)
       \/ (/\ ~ended /\ ended' /\ FinalCounter <= upTo
           /\ UNCHANGED <<stats, delivered, upTo>>)

(* A job event or the summary joins the chain.                             *)
LEMMA ArrivalIsGood ==
    ASSUME StreamInv,
           \/ \E e \in Events : EventArrives(e)
           \/ SummaryArrives
    PROVE  GoodStep
<1>1. Numbers /\ Rest /\ Shows /\ AtTheEnd /\ Complete /\ StreamTypeOK
    BY Parts
<1>. DEFINE Joined ==
        /\ UNCHANGED <<stats, buffer, ending, ended, frames, history>>
        /\ copies' \in [Events -> 0 .. 2] /\ summary' \in BOOLEAN
        /\ chain' \in Seq(Events \cup {FinalTask}) /\ chain' # <<>>
<1>2. Joined
    <2>1. ASSUME NEW e \in Events, EventArrives(e)
          PROVE  Joined
        BY <1>1, <2>1, ChainGrows DEF EventArrives, pushJobEvent, Rest
    <2>2. ASSUME SummaryArrives
          PROVE  Joined
        BY <1>1, <2>2, ChainGrows DEF SummaryArrives, setFinalCounter, Rest
    <2>. QED
        BY <2>1, <2>2
<1>3. /\ UNCHANGED <<rx, min, max, ready, total, overflow, framesPerRender>>
      /\ UNCHANGED <<delivered, upTo, stats, ending, ended, frames>>
    BY <1>2 DEF buffer, history
<1>4. Numbers' /\ Rest'
    BY <1>1, <1>2, <1>3 DEF Numbers, Rest
<1>5. Shows' /\ AtTheEnd' /\ Complete'
    BY <1>1, <1>2, <1>3 DEF Shows, AtTheEnd, Complete, FinalCounter
<1>6. upTo \in Nat
    BY <1>1 DEF Numbers
<1>7. StreamInv'
    BY <1>4, <1>5 DEF StreamInv, StreamTypeOK, Numbers, Rest, Shows, AtTheEnd, Complete
<1>8. NoHole
    BY <1>3, <1>6 DEF NoHole
<1>. QED
    BY <1>3, <1>7, <1>8 DEF GoodStep, LogStands

(* The page has loaded the events below a counter.                         *)
LEMMA PageLoadedIsGood ==
    ASSUME StreamInv, PageLoaded
    PROVE  GoodStep
<1>1. StreamTypeOK /\ Numbers /\ Rest /\ Shows /\ AtTheEnd /\ Complete
    BY Parts
<1>2. /\ UNCHANGED <<stats, copies, summary>>
      /\ UNCHANGED <<rx, max, ready, total, overflow, framesPerRender>>
      /\ UNCHANGED <<ending, ended, chain, frames, delivered, upTo>>
    BY DEF PageLoaded, wire, history
<1>3. min \in Nat \ {0} /\ min' \in Nat \ {0} /\ min <= min'
    BY <1>1 DEF PageLoaded, setMissingCounterThreshold, Numbers, Events
<1>4. Numbers'
    BY <1>1, <1>2, <1>3 DEF Numbers
<1>5. Rest'
    BY <1>1, <1>2 DEF Rest
<1>6. Shows' /\ AtTheEnd'
    BY <1>1, <1>2 DEF Shows, AtTheEnd, FinalCounter
<1>7. Complete'
    BY <1>1, <1>2, <1>3 DEF Complete, Rest
<1>8. StreamInv'
    BY <1>4, <1>5, <1>6, <1>7
       DEF StreamInv, StreamTypeOK, Numbers, Rest, Shows, AtTheEnd, Complete
<1>9. NoHole
    BY <1>1, <1>2 DEF NoHole, Numbers
<1>. QED
    BY <1>2, <1>8, <1>9 DEF GoodStep, LogStands

(* A batch has been shown; the last one ends the output.                   *)
LEMMA ShownIsGood ==
    ASSUME StreamInv, FramesShown
    PROVE  GoodStep
<1>1. StreamTypeOK /\ Numbers /\ Rest /\ Shows /\ AtTheEnd /\ Complete
    BY Parts
<1>2. /\ UNCHANGED <<stats, copies, summary>>
      /\ UNCHANGED <<rx, min, max, ready, total, overflow, framesPerRender>>
      /\ UNCHANGED <<delivered, upTo>>
    BY DEF FramesShown, wire, buffer, history
<1>3. frames.busy /\ chain' = Tail(chain) /\ frames' = NoFrames
    BY DEF FramesShown, TaskDone
<1>4. /\ ended' = (ended \/ frames.last)
      /\ ending' \in BOOLEAN /\ ended' \in BOOLEAN
    BY <1>1 DEF FramesShown, Rest, Batches, NoFrames
<1>5. chain' \in Seq(Events \cup {FinalTask}) /\ frames' \in Batches \cup {NoFrames}
    BY <1>1, <1>3, ChainShrinks DEF Shows
<1>6. Numbers'
    BY <1>1, <1>2 DEF Numbers
<1>7. Rest'
    BY <1>1, <1>2, <1>4, <1>5 DEF Rest
<1>8. Shows' /\ AtTheEnd'
    BY <1>1, <1>2, <1>3, <1>4 DEF Shows, AtTheEnd, FinalCounter, NoFrames
<1>9. Complete'
    BY <1>1, <1>2 DEF Complete
<1>10. StreamInv'
    BY <1>6, <1>7, <1>8, <1>9
       DEF StreamInv, StreamTypeOK, Numbers, Rest, Shows, AtTheEnd, Complete
<1>11. NoHole
    BY <1>1, <1>2 DEF NoHole, Numbers
<1>12. ended' = ended \/ (~ended /\ ended' /\ FinalCounter <= upTo)
    BY <1>1, <1>4 DEF Rest, AtTheEnd, NoFrames, Batches
<1>. QED
    BY <1>2, <1>10, <1>11, <1>12 DEF GoodStep, LogStands

(* The task of the final counter.                                          *)
LEMMA FinalTaskIsGood ==
    ASSUME StreamInv, FinalCounterTask
    PROVE  GoodStep
<1>1. StreamTypeOK /\ Numbers /\ Rest /\ Shows /\ AtTheEnd /\ Complete
    BY Parts
<1>2. /\ UNCHANGED <<stats, copies, summary, ended>>
      /\ UNCHANGED <<max, ready, total, overflow, framesPerRender>>
      /\ chain # <<>> /\ ending'
    BY DEF FinalCounterTask, wire
<1>3. CASE FinalCounter <= ready /\ ready > min
    <2>1. bufferEmpty(rx, ready) /\ emitFrames({b \in rx : b <= ready}, TRUE)
        BY <1>3 DEF FinalCounterTask
    <2>2. Numbers' /\ BatchAhead /\ min' = ready + 1 /\ upTo' = ready
        <3>1. /\ rx \in SUBSET Events /\ (\A e \in rx : upTo < e)
              /\ ready \in Int /\ min < ready /\ min \in Nat
            BY <1>1, <1>3 DEF Numbers, Rest
        <3>. QED
            BY <2>1, <3>1, EmptiedUpTo DEF Numbers
    <2>3. /\ chain' = chain /\ frames' \in Batches
        BY <1>1, <2>1 DEF emitFrames, Batches, Numbers
    <2>4. Rest' /\ Shows'
        BY <1>1, <1>2, <2>3 DEF Rest, Shows
    <2>5. AtTheEnd'
        BY <1>2, <1>3, <2>2 DEF AtTheEnd, FinalCounter
    <2>6. Complete'
        BY <1>1, <1>2, <2>2 DEF Complete, Rest
    <2>7. StreamInv'
        BY <2>2, <2>4, <2>5, <2>6
           DEF StreamInv, StreamTypeOK, Numbers, Rest, Shows, AtTheEnd, Complete
    <2>8. NoHole
        <3>1. delivered' = delivered \cup {e \in rx : e <= ready}
            BY <2>1 DEF bufferEmpty
        <3>2. ASSUME ~overflow, NEW c \in min .. ready
              PROVE  c \in delivered'
            BY <1>1, <3>1, <3>2 DEF Complete, Numbers, Rest
        <3>. QED
            BY <1>2, <2>2, <3>2 DEF NoHole
    <2>. QED
        BY <1>2, <2>2, <2>7, <2>8 DEF GoodStep
<1>4. CASE ~(FinalCounter <= ready /\ ready > min)
    <2>1. TaskDone /\ UNCHANGED <<rx, min, delivered, upTo>>
        BY <1>4 DEF FinalCounterTask, history
    <2>2. Numbers'
        BY <1>1, <2>1 DEF Numbers
    <2>3. Rest' /\ Shows'
        BY <1>1, <1>2, <2>1, ChainShrinks DEF Rest, Shows, TaskDone, NoFrames
    <2>4. AtTheEnd' /\ Complete'
        BY <1>1, <1>2, <2>1 DEF AtTheEnd, Complete, FinalCounter, TaskDone, NoFrames
    <2>5. StreamInv'
        BY <2>2, <2>3, <2>4
           DEF StreamInv, StreamTypeOK, Numbers, Rest, Shows, AtTheEnd, Complete
    <2>6. NoHole
        BY <1>1, <2>1 DEF NoHole, Numbers
    <2>. QED
        BY <1>2, <2>1, <2>5, <2>6 DEF GoodStep, LogStands
<1>. QED
    BY <1>3, <1>4

(* The task of a job event: what it puts into the buffer may complete it   *)
(* up to some counter, or fill it.                                         *)
LEMMA PushTaskIsGood ==
    ASSUME StreamInv, PushTask
    PROVE  GoodStep
<1>. DEFINE e == Head(chain)
            top == IF e > max THEN e ELSE max
            held == IF e >= min THEN rx \cup {e} ELSE rx
            full == Cardinality(held) > MaxBuffer
            threshold == ReadyCounter((min .. top) \ held, full, top)
            batch == {b \in held : b <= threshold}
            rendered == isReadyToRender(threshold - min, total', framesPerRender', ending')
<1>1. StreamTypeOK /\ Numbers /\ Rest /\ Shows /\ AtTheEnd /\ Complete
    BY Parts
<1>2. /\ UNCHANGED <<stats, copies, summary, ended>>
      /\ chain # <<>> /\ e # FinalTask /\ ~frames.busy
      /\ ending' = (ending \/ e = stats)
      /\ max' = top /\ overflow' = full /\ ready' = threshold
      /\ total' = total + 1
      /\ framesPerRender' \in IF total' % PageSize = 0 THEN FramesFor(lag)
                              ELSE {framesPerRender}
    BY DEF PushTask, wire
<1>3. IF rendered
      THEN /\ bufferEmpty(held, threshold)
           /\ IF batch = {} THEN TaskDone
              ELSE emitFrames(batch, ending' /\ threshold >= FinalCounter)
      ELSE rx' = held /\ TaskDone /\ UNCHANGED <<min, history>>
    BY DEF PushTask
<1>4. e \in Events
    BY <1>1, <1>2, ChainShrinks
<1>5. Events \subseteq Nat /\ top \in Events
    BY <1>1, <1>4 DEF Events, Rest
<1>6. held \in SUBSET Events /\ (\A h \in held : upTo < h)
    <2>1. rx \subseteq Events /\ (\A h \in rx : upTo < h)
        BY <1>1 DEF Numbers
    <2>2. e \in Nat /\ min \in Nat /\ upTo \in Nat /\ upTo < min
        BY <1>1, <1>4 DEF Numbers, Events
    <2>3. e >= min => upTo < e
        BY <2>2
    <2>. QED
        BY <1>4, <2>1, <2>3
<1>7. full \in BOOLEAN
    OBVIOUS
<1>. HIDE DEF full, top, held
<1>8. threshold \in Int /\ (~full => min .. threshold \subseteq held)
    <2>1. top \in Int /\ threshold = ReadyCounter((min .. top) \ held, full, top)
        BY <1>5
    <2>. QED
        BY <1>1, <1>6, <1>7, <2>1, ReadyUpToTheFirstHole
<1>9. framesPerRender' \in calcFactors
    BY <1>1, <1>2 DEF Rest, FramesFor, FactorAt
<1>. HIDE DEF threshold
<1>10. /\ max' \in Events \cup {-1} /\ ready' \in Int /\ total' \in Nat
       /\ ending' \in BOOLEAN /\ ended' \in BOOLEAN /\ overflow' \in BOOLEAN
    BY <1>1, <1>2, <1>5, <1>7, <1>8 DEF Rest
<1>11. TaskDone => /\ chain' \in Seq(Events \cup {FinalTask}) /\ frames' = NoFrames
    BY <1>1, <1>2, ChainShrinks DEF TaskDone
<1>12. CASE rendered
    <2>1. min < threshold
        BY <1>1, <1>8, <1>12 DEF isReadyToRender, Numbers
    <2>2. Numbers' /\ BatchAhead /\ min' = threshold + 1 /\ upTo' = threshold
        BY <1>3, <1>6, <1>8, <1>12, <2>1, EmptiedUpTo DEF Numbers
    <2>. HIDE DEF rendered
    <2>3. ASSUME batch = {}
          PROVE  Rest' /\ Shows' /\ AtTheEnd'
        <3>1. Rest' /\ Shows'
            BY <1>1, <1>2, <1>3, <1>9, <1>10, <1>11, <1>12, <2>3
               DEF Rest, Shows, NoFrames
        <3>2. ended' = ended /\ frames' = NoFrames /\ upTo < upTo'
            BY <1>2, <1>3, <1>11, <1>12, <2>2, <2>3 DEF BatchAhead
        <3>3. AtTheEnd'
            BY <1>1, <1>2, <2>2, <3>2 DEF AtTheEnd, FinalCounter, NoFrames, Numbers, Rest, Events
        <3>. QED
            BY <3>1, <3>3
    <2>4. ASSUME batch # {}
          PROVE  Rest' /\ Shows' /\ AtTheEnd'
        <3>1. /\ chain' = chain
              /\ frames' = [events |-> batch, busy |-> TRUE,
                            last |-> ending' /\ threshold >= FinalCounter]
            BY <1>3, <1>12, <2>4 DEF emitFrames
        <3>2. batch \in SUBSET Events
            BY <1>6
        <3>3. (ending' /\ threshold >= FinalCounter) \in BOOLEAN
            OBVIOUS
        <3>4. frames' \in Batches
            BY <3>1, <3>2, <3>3 DEF Batches
        <3>5. Rest' /\ Shows'
            BY <1>1, <1>2, <1>9, <1>10, <3>1, <3>4 DEF Rest, Shows
        <3>6. FinalCounter \in Nat /\ FinalCounter' = FinalCounter /\ upTo < upTo'
            BY <1>1, <1>2, <1>5, <2>2 DEF FinalCounter, Rest, BatchAhead
        <3>7. frames'.last => FinalCounter <= upTo'
            BY <1>8, <2>2, <3>1, <3>6
        <3>8. ended' => FinalCounter <= upTo'
            <4>1. ended => FinalCounter <= upTo
                BY <1>1 DEF AtTheEnd
            <4>2. upTo \in Nat /\ upTo' \in Nat
                BY <1>1, <2>2 DEF Numbers
            <4>. QED
                BY <1>2, <3>6, <4>1, <4>2
        <3>. QED
            BY <3>5, <3>6, <3>7, <3>8 DEF AtTheEnd
    <2>5. Complete'
        BY <1>2, <1>8, <2>2 DEF Complete
    <2>6. StreamInv'
        BY <2>2, <2>3, <2>4, <2>5
           DEF StreamInv, StreamTypeOK, Numbers, Rest, Shows, AtTheEnd, Complete
    <2>7. NoHole
        <3>1. delivered' = delivered \cup batch
            BY <1>3, <1>12 DEF bufferEmpty
        <3>2. ASSUME ~full, NEW c \in min .. threshold
              PROVE  c \in batch
            BY <1>1, <1>8, <3>2 DEF Numbers
        <3>. QED
            BY <1>2, <2>2, <3>1, <3>2 DEF NoHole
    <2>. QED
        BY <1>2, <2>2, <2>6, <2>7 DEF GoodStep
<1>13. CASE ~rendered
    <2>1. rx' = held /\ TaskDone /\ UNCHANGED <<min, delivered, upTo>>
        BY <1>3, <1>13 DEF history
    <2>2. Numbers'
        BY <1>1, <1>6, <2>1 DEF Numbers
    <2>3. Rest' /\ Shows'
        BY <1>1, <1>2, <1>9, <1>10, <1>11, <2>1 DEF Rest, Shows, NoFrames
    <2>4. AtTheEnd'
        BY <1>1, <1>2, <1>11, <2>1 DEF AtTheEnd, FinalCounter, NoFrames
    <2>5. Complete'
        BY <1>2, <1>8, <2>1 DEF Complete
    <2>6. StreamInv'
        BY <2>2, <2>3, <2>4, <2>5
           DEF StreamInv, StreamTypeOK, Numbers, Rest, Shows, AtTheEnd, Complete
    <2>7. NoHole
        BY <1>1, <2>1 DEF NoHole, Numbers
    <2>. QED
        BY <1>2, <2>1, <2>6, <2>7 DEF GoodStep, LogStands
<1>. QED
    BY <1>12, <1>13

----------------------------------------------------------------------------
LEMMA EveryStepIsGood ==
    ASSUME StreamInv, [StreamNext]_StreamVars
    PROVE  GoodStep
<1>1. CASE StreamNext
    BY <1>1, ArrivalIsGood, PageLoadedIsGood, ShownIsGood, FinalTaskIsGood,
       PushTaskIsGood DEF StreamNext, StreamTask
<1>2. CASE UNCHANGED StreamVars
    <2>1. /\ UNCHANGED <<stats, copies, summary, rx, min, max, ready, total>>
          /\ UNCHANGED <<overflow, framesPerRender, ending, ended, chain, frames>>
          /\ UNCHANGED <<delivered, upTo>>
        BY <1>2 DEF StreamVars, wire, buffer, history
    <2>2. StreamInv'
        BY <2>1 DEF StreamInv, StreamTypeOK, FinalCounter
    <2>3. NoHole
        BY <2>1, Parts DEF NoHole, Numbers
    <2>. QED
        BY <2>1, <2>2, <2>3 DEF GoodStep, LogStands
<1>. QED
    BY <1>1, <1>2

(* StreamInv holds in every state: the buffer never holds an event that    *)
(* was handed over, and the page hears of the end after the last batch.    *)
THEOREM StreamInvariant == StreamSpec => []StreamInv
<1>1. StreamInv /\ [StreamNext]_StreamVars => StreamInv'
    BY EveryStepIsGood DEF GoodStep
<1>. QED
    BY InitStream, <1>1, PTL DEF StreamSpec

(* A batch has a hole only when the buffer has overflowed (pushJobEvent,   *)
(* setFinalCounter).                                                       *)
THEOREM HolesByOverflow == StreamSpec => HolesOnlyByOverflow
<1>1. StreamInv /\ [StreamNext]_StreamVars
        => [NoHole]_StreamVars
    BY EveryStepIsGood DEF GoodStep
<1>. QED
    BY <1>1, StreamInvariant, PTL DEF StreamSpec, HolesOnlyByOverflow, NoHole

(* The stream is an implementation of the abstract event log.              *)
THEOREM StreamImplementsEventLog == StreamSpec => ImplementsEventLog
<1>1. StreamInit => Log!LogInit
    <2>. SUFFICES ASSUME StreamInit PROVE Log!LogInit
        OBVIOUS
    <2>1. FinalCounter \in Nat
        BY InitStream, Parts DEF FinalCounter, Rest, Events
    <2>. QED
        BY <2>1 DEF Log!LogInit, StreamInit, bufferInit
<1>2. StreamInv /\ [StreamNext]_StreamVars => [Log!LogNext]_Log!logVars
    <2>. SUFFICES ASSUME StreamInv, [StreamNext]_StreamVars
                  PROVE  [Log!LogNext]_Log!logVars
        OBVIOUS
    <2>1. CASE LogStands
        BY <2>1 DEF LogStands, Log!logVars, FinalCounter
    <2>2. CASE BatchAhead /\ UNCHANGED <<stats, ended>>
        BY <2>2 DEF BatchAhead, Log!LogNext, Log!Deliver, FinalCounter
    <2>3. CASE /\ ~ended /\ ended' /\ FinalCounter <= upTo
               /\ UNCHANGED <<stats, delivered, upTo>>
        <3>1. ended' = TRUE /\ upTo >= FinalCounter
            BY <2>3, EveryStepIsGood DEF GoodStep, StreamInv, StreamTypeOK,
               FinalCounter, Events
        <3>. QED
            BY <2>3, <3>1 DEF Log!LogNext, Log!Close, FinalCounter
    <2>. QED
        BY <2>1, <2>2, <2>3, EveryStepIsGood DEF GoodStep
<1>. QED
    BY <1>1, <1>2, StreamInvariant, PTL
       DEF StreamSpec, ImplementsEventLog, Log!LogSpec

----------------------------------------------------------------------------
(* Nothing is forgotten in the buffer.  The events that are still to be    *)
(* looked at come over the websocket or wait on the chain; what has been   *)
(* looked at and not been passed over is in the buffer.                    *)
Start == IF frames.busy THEN 2 ELSE 1
OnChain(e) == \E i \in Start .. Len(chain) : chain[i] = e
ToCome == {e \in Events : copies[e] > 0 \/ OnChain(e)}

Held ==
    /\ \A e \in Events \ ToCome : e <= max /\ (e >= min => e \in rx)
    /\ ToCome = {} => ready = LastEvent /\ (ending => min >= LastEvent)
HeldInv == StreamInv /\ Held

LEMMA InitHeld == StreamInit => HeldInv
<1>. SUFFICES ASSUME StreamInit PROVE HeldInv
    OBVIOUS
<1>1. \A e \in Events : copies[e] > 0
    BY DEF StreamInit
<1>2. ToCome = Events /\ LastEvent \in Events
    BY <1>1 DEF ToCome, Events
<1>. QED
    BY <1>2, InitStream DEF HeldInv, Held

(* One more task on the chain, and one copy less to come.                  *)
LEMMA AppendKeeps ==
    ASSUME StreamInv, NEW task \in Events \cup {FinalTask},
           chain' = Append(chain, task), UNCHANGED frames
    PROVE  /\ \A e : OnChain(e) => OnChain(e)'
           /\ OnChain(task)'
<1>1. /\ chain \in Seq(Events \cup {FinalTask}) /\ (frames.busy => chain # <<>>)
      /\ Start \in {1, 2} /\ Start' = Start /\ (Start = 2 => frames.busy)
    BY DEF StreamInv, StreamTypeOK, Start
<1>2. /\ Len(chain) \in Nat /\ (chain # <<>> => Len(chain) >= 1)
      /\ Len(chain') = Len(chain) + 1 /\ chain'[Len(chain) + 1] = task
      /\ \A i \in 1 .. Len(chain) : chain'[i] = chain[i]
    BY <1>1
<1>3. Len(chain) + 1 \in Start .. Len(chain')
    BY <1>1, <1>2
<1>4. \A i \in Start .. Len(chain) : i \in 1 .. Len(chain) /\ i \in Start .. Len(chain')
    BY <1>1, <1>2
<1>. QED
    BY <1>1, <1>2, <1>3, <1>4 DEF OnChain

(* The current task is done, or the page shows what it has emitted.        *)
LEMMA TaskKeeps ==
    ASSUME StreamInv, chain # <<>>,
           \/ TaskDone
           \/ ~frames.busy /\ chain' = chain /\ frames'.busy
    PROVE  /\ \A e : OnChain(e)' => OnChain(e)
           /\ \A e : OnChain(e) => OnChain(e)' \/ (~frames.busy /\ e = Head(chain))
<1>1. /\ chain \in Seq(Events \cup {FinalTask}) /\ Len(chain) \in Nat /\ Len(chain) >= 1
      /\ Head(chain) = chain[1]
    BY DEF StreamInv, StreamTypeOK
<1>2. CASE TaskDone
    <2>1. /\ Len(chain') = Len(chain) - 1 /\ Start' = 1
          /\ \A i \in 1 .. Len(chain') : chain'[i] = chain[i + 1]
        BY <1>1, <1>2 DEF TaskDone, Start, NoFrames
    <2>2. ASSUME NEW e, NEW i \in 1 .. Len(chain'), chain'[i] = e
          PROVE  OnChain(e)
        <3>1. i + 1 \in Start .. Len(chain) /\ chain[i + 1] = e
            BY <1>1, <2>1, <2>2 DEF Start
        <3>. QED
            BY <3>1 DEF OnChain
    <2>3. ASSUME NEW e, NEW i \in Start .. Len(chain), chain[i] = e,
                 frames.busy \/ e # Head(chain)
          PROVE  OnChain(e)'
        <3>1. i - 1 \in 1 .. Len(chain') /\ chain'[i - 1] = e
            BY <1>1, <2>1, <2>3 DEF Start
        <3>. QED
            BY <2>1, <3>1 DEF OnChain
    <2>. QED
        BY <2>1, <2>2, <2>3 DEF OnChain
<1>3. CASE ~frames.busy /\ chain' = chain /\ frames'.busy
    <2>1. Start = 1 /\ Start' = 2
        BY <1>3 DEF Start
    <2>2. \A i \in 1 .. Len(chain) : i = 1 \/ i \in 2 .. Len(chain)
        BY <1>1
    <2>3. \A i \in 2 .. Len(chain) : i \in 1 .. Len(chain)
        BY <1>1
    <2>. QED
        BY <1>1, <1>3, <2>1, <2>2, <2>3 DEF OnChain
<1>. QED
    BY <1>2, <1>3

LEMMA ArrivalHeld ==
    ASSUME HeldInv, StreamInv',
           \/ \E e \in Events : EventArrives(e)
           \/ SummaryArrives
    PROVE  HeldInv'
<1>1. copies \in [Events -> 0 .. 2]
    BY DEF HeldInv, StreamInv, StreamTypeOK
<1>2. /\ UNCHANGED <<rx, min, max, ready, ending, frames>>
      /\ \A e \in Events : e \in ToCome => e \in ToCome'
    <2>1. ASSUME NEW f \in Events, EventArrives(f)
          PROVE  /\ UNCHANGED <<rx, min, max, ready, ending, frames>>
                 /\ \A e \in Events : e \in ToCome => e \in ToCome'
        <3>1. /\ UNCHANGED <<rx, min, max, ready, ending, frames>>
              /\ chain' = Append(chain, f)
              /\ \A e \in Events \ {f} : copies'[e] = copies[e]
            BY <1>1, <2>1 DEF EventArrives, buffer, pushJobEvent
        <3>2. (\A e : OnChain(e) => OnChain(e)') /\ OnChain(f)'
            BY <3>1, AppendKeeps DEF HeldInv
        <3>. QED
            BY <3>1, <3>2 DEF ToCome
    <2>2. ASSUME SummaryArrives
          PROVE  /\ UNCHANGED <<rx, min, max, ready, ending, frames>>
                 /\ \A e \in Events : e \in ToCome => e \in ToCome'
        <3>1. /\ UNCHANGED <<rx, min, max, ready, ending, frames, copies>>
              /\ chain' = Append(chain, FinalTask)
            BY <2>2 DEF SummaryArrives, buffer, setFinalCounter
        <3>2. \A e : OnChain(e) => OnChain(e)'
            BY <3>1, AppendKeeps DEF HeldInv
        <3>. QED
            BY <3>1, <3>2 DEF ToCome
    <2>. QED
        BY <2>1, <2>2
<1>3. ToCome \subseteq Events /\ ToCome' \subseteq Events /\ ToCome \subseteq ToCome'
    BY <1>2 DEF ToCome
<1>. QED
    BY <1>2, <1>3 DEF HeldInv, Held

LEMMA PageLoadedHeld ==
    ASSUME HeldInv, StreamInv', PageLoaded
    PROVE  HeldInv'
<1>1. UNCHANGED <<copies, rx, max, ready, ending, chain, frames>>
    BY DEF PageLoaded, wire
<1>2. /\ min \in Nat /\ min' \in Nat /\ min <= min' /\ LastEvent \in Nat
      /\ \A e \in Events : e \in Nat
    BY DEF HeldInv, StreamInv, StreamTypeOK, PageLoaded, setMissingCounterThreshold, Events
<1>3. ToCome' = ToCome
    BY <1>1 DEF ToCome, OnChain, Start
<1>. QED
    BY <1>1, <1>2, <1>3 DEF HeldInv, Held

LEMMA FramesShownHeld ==
    ASSUME HeldInv, StreamInv', FramesShown
    PROVE  HeldInv'
<1>1. /\ UNCHANGED <<copies, rx, min, max, ready>>
      /\ frames.busy /\ TaskDone /\ chain # <<>> /\ (ending' => ending)
    BY DEF FramesShown, wire, buffer, HeldInv, StreamInv
<1>2. \A e : OnChain(e) <=> OnChain(e)'
    BY <1>1, TaskKeeps DEF HeldInv
<1>3. ToCome' = ToCome
    BY <1>1, <1>2 DEF ToCome
<1>. QED
    BY <1>1, <1>3 DEF HeldInv, Held

LEMMA FinalCounterTaskHeld ==
    ASSUME HeldInv, StreamInv', FinalCounterTask
    PROVE  HeldInv'
<1>1. /\ UNCHANGED <<copies, max, ready>> /\ chain # <<>> /\ ~frames.busy
      /\ Head(chain) = FinalTask /\ FinalTask \notin Events
    BY DEF FinalCounterTask, wire, FinalTask, Events
<1>2. /\ min \in Nat /\ ready \in Int /\ stats \in Events \cup {0} /\ LastEvent \in Nat
      /\ \A e \in Events : e \in Nat /\ e <= LastEvent
    BY DEF HeldInv, StreamInv, StreamTypeOK, Events
<1>3. FinalCounter <= LastEvent /\ FinalCounter \in Nat
    BY <1>2 DEF FinalCounter, Events
<1>4. TaskDone \/ (chain' = chain /\ frames'.busy)
    BY DEF FinalCounterTask, emitFrames
<1>5. ToCome' = ToCome
    <2>1. \A e : OnChain(e)' => OnChain(e)
        BY <1>1, <1>4, TaskKeeps DEF HeldInv
    <2>2. \A e \in Events : OnChain(e) => OnChain(e)'
        BY <1>1, <1>4, TaskKeeps DEF HeldInv
    <2>. QED
        BY <1>1, <2>1, <2>2 DEF ToCome
<1>6. CASE FinalCounter <= ready /\ ready > min
    <2>1. rx' = {b \in rx : b > ready} /\ min' = ready + 1
        BY <1>6 DEF FinalCounterTask, bufferEmpty
    <2>. QED
        BY <1>1, <1>2, <1>5, <1>6, <2>1 DEF HeldInv, Held
<1>7. CASE ~(FinalCounter <= ready /\ ready > min)
    <2>1. UNCHANGED <<rx, min>>
        BY <1>7 DEF FinalCounterTask
    <2>. QED
        BY <1>1, <1>2, <1>3, <1>5, <1>7, <2>1 DEF HeldInv, Held
<1>. QED
    BY <1>6, <1>7

(* When the last event is looked at, no counter is missing.                *)
LEMMA PushTaskHeld ==
    ASSUME HeldInv, StreamInv', PushTask
    PROVE  HeldInv'
<1>. DEFINE e == Head(chain)
            top == IF e > max THEN e ELSE max
            held == IF e >= min THEN rx \cup {e} ELSE rx
            full == Cardinality(held) > MaxBuffer
            threshold == ReadyCounter((min .. top) \ held, full, top)
            batch == {b \in held : b <= threshold}
            rendered == isReadyToRender(threshold - min, total', framesPerRender', ending')
<1>1. /\ UNCHANGED copies /\ chain # <<>> /\ e # FinalTask /\ ~frames.busy
      /\ max' = top /\ ready' = threshold
    BY DEF PushTask, wire
<1>2. IF rendered
      THEN /\ bufferEmpty(held, threshold)
           /\ IF batch = {} THEN TaskDone
              ELSE emitFrames(batch, ending' /\ threshold >= FinalCounter)
      ELSE rx' = held /\ TaskDone /\ UNCHANGED <<min, history>>
    BY DEF PushTask
<1>. HIDE DEF rendered, batch, held, top, threshold, full
<1>3. TaskDone \/ (chain' = chain /\ frames'.busy)
    BY <1>2 DEF emitFrames
<1>4. /\ e \in Events /\ min \in Nat /\ max \in Events \cup {-1} /\ rx \subseteq Events
      /\ LastEvent \in Nat /\ \A f \in Events : f \in Nat /\ f <= LastEvent
    BY <1>1, ChainShrinks DEF HeldInv, StreamInv, StreamTypeOK, Events
<1>5. top \in Events /\ held \subseteq Events /\ e <= top /\ max <= top
    BY <1>4 DEF top, held
<1>6. /\ \A f \in Events \ ToCome' : f \in Events \ ToCome \/ f = e
      /\ \A f \in ToCome' : f \in ToCome
    <2>1. \A f : (OnChain(f)' => OnChain(f)) /\ (OnChain(f) => OnChain(f)' \/ f = e)
        BY <1>3, <1>1, TaskKeeps DEF HeldInv
    <2>. QED
        BY <1>1, <2>1 DEF ToCome
<1>7. \A f \in Events \ ToCome' : f <= top /\ (f >= min => f \in held)
    BY <1>4, <1>5, <1>6 DEF HeldInv, Held, held
<1>8. threshold \in Int
    <2>1. StreamTypeOK /\ full \in BOOLEAN /\ top \in Int
        BY <1>4, <1>5 DEF HeldInv, StreamInv, full
    <2>2. threshold = ReadyCounter((min .. top) \ held, full, top)
        BY DEF threshold
    <2>3. held \in SUBSET Events
        BY <1>5
    <2>4. ASSUME NEW f \in BOOLEAN, NEW n \in Int, NEW h \in SUBSET Events,
                 NEW t, t = ReadyCounter((min .. n) \ h, f, n)
          PROVE  t \in Int
        BY <2>1, <2>4, ReadyUpToTheFirstHole
    <2>. HIDE DEF e
    <2>. QED
        BY <2>1, <2>2, <2>3, <2>4
<1>9. ToCome' = {} => threshold = LastEvent
    <2>. SUFFICES ASSUME ToCome' = {} PROVE threshold = LastEvent
        OBVIOUS
    <2>1. LastEvent \in Events
        BY DEF Events
    <2>2. top = LastEvent
        BY <1>4, <1>5, <1>7, <2>1
    <2>3. \A f \in min .. top : f \in held \/ f = 0
        BY <1>4, <1>7, <2>2 DEF Events
    <2>4. min > 0
        BY DEF HeldInv, StreamInv, StreamTypeOK
    <2>5. (min .. top) \ held = {}
        BY <1>4, <1>5, <2>3, <2>4
    <2>. QED
        BY <2>2, <2>5 DEF ReadyCounter, threshold
<1>10. CASE rendered
    <2>1. min < threshold
        BY <1>4, <1>8, <1>10 DEF isReadyToRender, rendered
    <2>2. rx' = {h \in held : h > threshold} /\ min' = threshold + 1
        BY <1>2, <1>10 DEF bufferEmpty
    <2>. QED
        BY <1>1, <1>4, <1>7, <1>8, <1>9, <2>1, <2>2 DEF HeldInv, Held
<1>11. CASE ~rendered
    <2>1. rx' = held /\ min' = min
        BY <1>2, <1>11
    <2>2. ending' => ~(threshold - min > 0)
        BY <1>11 DEF isReadyToRender, rendered
    <2>. QED
        BY <1>1, <1>4, <1>7, <1>8, <1>9, <2>1, <2>2 DEF HeldInv, Held
<1>. QED
    BY <1>10, <1>11

LEMMA NextHeld ==
    ASSUME HeldInv, [StreamNext]_StreamVars
    PROVE  HeldInv'
<1>1. StreamInv'
    BY EveryStepIsGood DEF HeldInv, GoodStep
<1>2. CASE UNCHANGED StreamVars
    BY <1>1, <1>2 DEF StreamVars, wire, buffer, HeldInv, Held, ToCome, OnChain, Start
<1>. QED
    BY <1>1, <1>2, ArrivalHeld, PageLoadedHeld, FramesShownHeld, FinalCounterTaskHeld,
       PushTaskHeld DEF StreamNext, StreamTask

(* Once the end of the output is known and every event has come, whatever  *)
(* the order, the duplicates and the overflows were, the stream holds back *)
(* no more than the newest event.                                          *)
THEOREM StreamIsEmptied == StreamSpec => []NothingHeldBack
<1>1. HeldInv => NothingHeldBack
    <2>. SUFFICES ASSUME HeldInv, ending, chain = <<>>, \A e \in Events : copies[e] = 0
                  PROVE  Cardinality({e \in rx : e >= min}) <= 1
        BY DEF NothingHeldBack
    <2>1. ~frames.busy /\ rx \subseteq Events /\ min \in Nat
        BY DEF HeldInv, StreamInv, StreamTypeOK
    <2>2. ToCome = {}
        BY <2>1 DEF ToCome, OnChain, Start
    <2>3. min >= LastEvent /\ LastEvent \in Nat
        BY <2>2 DEF HeldInv, Held
    <2>4. \A e \in rx : e \in Nat /\ (e >= min => e = LastEvent)
        BY <2>1, <2>3 DEF Events
    <2>. DEFINE left == {e \in rx : e >= min}
    <2>5. IsFiniteSet({LastEvent}) /\ Cardinality({LastEvent}) = 1
        BY FS_Singleton
    <2>6. left \in SUBSET {LastEvent}
        BY <2>4
    <2>. HIDE DEF left
    <2>7. Cardinality(left) <= Cardinality({LastEvent})
        BY <2>5, <2>6, FS_Subset
    <2>. QED
        BY <2>5, <2>7 DEF left
<1>2. HeldInv /\ [StreamNext]_StreamVars => HeldInv'
    BY NextHeld
<1>. QED
    BY <1>1, <1>2, InitHeld, PTL DEF StreamSpec
============================================================================
