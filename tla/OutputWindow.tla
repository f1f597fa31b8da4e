---------------------------- MODULE OutputWindow ----------------------------
(***************************************************************************)
(* The rows of a job's output that are in the page, and their bookkeeping  *)
(* (features/output/render.service.js).  head and tail bound the counters  *)
(* that are loaded, uuids maps a counter to the record that stands for it, *)
(* rows is the table on the screen.  A record stands for one event, or for *)
(* a run of counters between two events whose events are missing; such a   *)
(* marker has one row, like an event.  The operations take a window and    *)
(* give the next one.                                                      *)
(***************************************************************************)
EXTENDS OutputConstants, Sequences, FiniteSets, FiniteSetsExt, SequencesExt,
        Functions

CONSTANTS
    Silent,         \* events without lines: a gap of them shows no marker
    StartEvent      \* counter of playbook_on_start, which has a record, no row

EventRecord(e) == <<e, e>>
Marker(before, after) == <<before, after>>
IsMarker(id) == id[1] < id[2]

NoRows == [head |-> 0, tail |-> 0, uuids |-> <<>>, rows |-> <<>>]

getCapacity(w) == EventLimit - (w.tail - w.head)

Standing(w, e) == e \in DOMAIN w.uuids
Mapped(w, counters, id) ==
    [c \in DOMAIN w.uuids \cup counters |->
        IF c \in counters THEN id ELSE w.uuids[c]]

Lines(e) == IF e = StartEvent THEN <<>> ELSE <<EventRecord(e)>>

----------------------------------------------------------------------------
(* transformEvent and createRecord: an event that has a record is skipped. *)
transformEvent(w, e) ==
    IF EventRecord(e) \in Range(w.uuids) THEN w
    ELSE [w EXCEPT !.head = IF w.head = 0 \/ e < w.head THEN e ELSE w.head,
                   !.tail = IF w.tail = 0 \/ e > w.tail THEN e ELSE w.tail,
                   !.uuids = Mapped(w, {e}, EventRecord(e))]

(* The counters between the tail and the next event join the marker at the *)
(* tail, or get one of their own, which has no row if no line is missing.  *)
appendMissingEventGroup(w, e) ==
    LET gap == w.tail + 1 .. e - 1
        last == w.uuids[w.tail]
        id == IF IsMarker(last) THEN last ELSE Marker(w.tail, e)
        visible == ~IsMarker(last) /\ ~(gap \subseteq Silent)
    IN  IF ~Standing(w, w.tail) THEN w
        ELSE [w EXCEPT !.uuids = Mapped(w, gap, id),
                       !.rows = IF visible THEN Append(@, id) ELSE @]

prependMissingEventGroup(w, e) ==
    LET gap == e + 1 .. w.head - 1
        first == w.uuids[w.head]
        id == IF IsMarker(first) THEN first ELSE Marker(e, w.head)
        visible == ~IsMarker(first) /\ ~(gap \subseteq Silent)
    IN  IF ~Standing(w, w.head) THEN w
        ELSE [w EXCEPT !.uuids = Mapped(w, gap, id),
                       !.rows = IF visible THEN <<id>> \o @ ELSE @]

AppendEvent(w, e) ==
    LET filled == IF w.tail # 0 /\ e # w.tail + 1
                  THEN appendMissingEventGroup(w, e) ELSE w
        next == transformEvent(filled, e)
    IN  IF next = filled THEN filled
        ELSE [next EXCEPT !.rows = @ \o Lines(e)]

PrependEvent(w, e) ==
    LET filled == IF w.head # 0 /\ e # w.head - 1
                  THEN prependMissingEventGroup(w, e) ELSE w
        next == transformEvent(filled, e)
    IN  IF next = filled THEN filled
        ELSE [next EXCEPT !.rows = Lines(e) \o @]

(* Events are added one after the other, from the tail upwards or from the *)
(* head downwards.                                                         *)
pushFront(w, events) ==
    MapThenFoldSet(LAMBDA e, before : AppendEvent(before, e), w,
                   LAMBDA e : e, LAMBDA T : Max(T), {e \in events : e > w.tail})

pushBack(w, events) ==
    MapThenFoldSet(LAMBDA e, before : PrependEvent(before, e), w,
                   LAMBDA e : e, LAMBDA T : Min(T),
                   {e \in events : e < w.head \/ e > w.tail})

----------------------------------------------------------------------------
(* Popping count counters removes count + 1 of them; head and tail move by *)
(* the number of records that are left without counters, and as many rows  *)
(* are taken from the end of the table (every one if there is none: slice  *)
(* with -0 takes the whole table).                                         *)
Emptied(w, popped) ==
    {id \in Range(w.uuids) :
        \A c \in DOMAIN w.uuids : w.uuids[c] = id => c \in popped}

Unmapped(w, popped) == Restrict(w.uuids, DOMAIN w.uuids \ popped)

DropFirst(rows, n) == SubSeq(rows, n + 1, Len(rows))
DropLast(rows, n) == SubSeq(rows, 1, IF n = 0 THEN 0 ELSE Len(rows) - n)

popBack(w, count) ==
    LET popped == w.head .. w.head + count
        lines == Cardinality(Emptied(w, popped))
    IN  IF count <= 0 THEN w
        ELSE [w EXCEPT !.head = @ + lines, !.uuids = Unmapped(w, popped),
                       !.rows = DropFirst(@, lines)]

popFront(w, count) ==
    LET popped == w.tail - count .. w.tail
        lines == Cardinality(Emptied(w, popped))
    IN  IF count <= 0 THEN w
        ELSE [w EXCEPT !.tail = @ - lines, !.uuids = Unmapped(w, popped),
                       !.rows = DropLast(@, lines)]

(* Faulty variant: the records stay.                                       *)
ClearedRowsOnly(w) == [NoRows EXCEPT !.uuids = w.uuids]

(* Every row goes, and the records between head and tail.                  *)
cleared(w) ==
    [NoRows EXCEPT !.uuids = Unmapped(w, w.head .. w.tail)]

----------------------------------------------------------------------------
IsWindow(w) ==
    /\ w.head \in Nat /\ w.tail \in Nat
    /\ DOMAIN w.uuids \subseteq Nat
    /\ \A c \in DOMAIN w.uuids :
          w.uuids[c] = EventRecord(c) \/ IsMarker(w.uuids[c])
    /\ \A i \in DOMAIN w.rows : w.rows[i] \in Nat \X Nat

(* The table shows the output in its order and no line twice, and the      *)
(* record of every row that can be clicked is there, between head and tail.*)
InOrder(w) ==
    /\ \A i \in 1 .. Len(w.rows) - 1 :
          /\ w.rows[i][2] <= w.rows[i + 1][1]
          /\ w.rows[i] # w.rows[i + 1]
    /\ Range(w.rows) \subseteq Range(w.uuids)
    /\ DOMAIN w.uuids \subseteq w.head .. w.tail
=============================================================================
