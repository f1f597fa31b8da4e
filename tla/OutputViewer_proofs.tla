------------------------- MODULE OutputViewer_proofs -------------------------
(***************************************************************************)
(* Proofs about the output page of a running job, for every number of      *)
(* events, sizes of pages and buffers, and gaps.                           *)
(*                                                                         *)
(* The first part is about windows alone.  A window is tidy when its       *)
(* records cover the counters in their order and its rows are some of the  *)
(* records in that order; every operation of the render service keeps a    *)
(* window tidy, whatever it pops or pushes, and brings in no events but    *)
(* those that it was given.  pushFront and pushBack add events one by one: *)
(* a minimal counterexample among the sets of events takes the place of an *)
(* induction.                                                              *)
(*                                                                         *)
(* The second part is about the page: two operations never work on the     *)
(* rows at once, the scroll bar is only taken away while the page follows, *)
(* and therefore what an operation computed before it waited still fits    *)
(* when the answer comes: the rows stay in order and bounded.              *)
(*                                                                         *)
(* The third part is about the pages of a finished job: where the window   *)
(* stands relative to the pages that the page service counts as loaded, so *)
(* that a page is always added at one end of the rows.                     *)
(* For jumps less is enough and holds always: no record outside head and   *)
(* tail.                                                                   *)
(***************************************************************************)
EXTENDS OutputViewer, OutputPages, FiniteSetTheorems, SequenceTheorems, WellFoundedInduction,
        TLAPS

LEMMA SmallestSet ==
    ASSUME NEW S, IsFiniteSet(S), NEW F \in SUBSET SUBSET S, F # {}
    PROVE  \E m \in F : \A s \in F : s \subseteq m => s = m
<1>1. IsWellFoundedOn(StrictSubsetOrdering(S), SUBSET S)
    BY FS_StrictSubsetOrderingWellFounded, FS_FiniteSubsetsOfFinite
<1>2. PICK m \in F : \A s \in F : <<s, m>> \notin StrictSubsetOrdering(S)
    BY <1>1, WFMin, Zenon
<1>. QED
    BY <1>2 DEF StrictSubsetOrdering

FoldStep(f, s, pick, step, base) ==
    IF s = {} THEN base ELSE step[<<pick[s], f[s \ {pick[s]}]>>]
IsFold(f, S, pick, step, base) ==
    f = [s \in SUBSET S |-> FoldStep(f, s, pick, step, base)]
Picks(pick, S) == \A s \in SUBSET S : s # {} => pick[s] \in s

LEMMA FoldsAgree ==
    ASSUME NEW S, IsFiniteSet(S), NEW T \in SUBSET S, NEW pick, Picks(pick, S),
           NEW step, NEW base, NEW f, NEW g,
           IsFold(f, S, pick, step, base), IsFold(g, T, pick, step, base)
    PROVE  f[T] = g[T]
<1>. DEFINE F == {s \in SUBSET T : f[s] # g[s]}
<1>. SUFFICES ASSUME F # {} PROVE FALSE
    OBVIOUS
<1>1. IsFiniteSet(T)
    BY FS_Subset
<1>2. PICK m \in F : \A s \in F : s \subseteq m => s = m
    <2>1. F \in SUBSET SUBSET T
        OBVIOUS
    <2>. HIDE DEF F
    <2>. QED
        BY <1>1, <2>1, SmallestSet
<1>3. /\ f[m] = FoldStep(f, m, pick, step, base)
      /\ g[m] = FoldStep(g, m, pick, step, base)
    <2>1. m \in SUBSET T /\ m \in SUBSET S
        BY <1>2
    <2>. QED
        BY <2>1 DEF IsFold
<1>4. m # {}
    BY <1>2, <1>3 DEF FoldStep
<1>5. m \ {pick[m]} \notin F
    BY <1>2, <1>4 DEF Picks
<1>. QED
    BY <1>2, <1>3, <1>4, <1>5 DEF FoldStep

LEMMA FoldExists ==
    ASSUME NEW S, IsFiniteSet(S), NEW pick, Picks(pick, S), NEW step, NEW base
    PROVE  \E f : IsFold(f, S, pick, step, base)
<1>. DEFINE Folds(f, s) == IsFold(f, s, pick, step, base)
            F == {s \in SUBSET S : ~\E f : Folds(f, s)}
<1>. SUFFICES ASSUME F # {} PROVE FALSE
    BY Zenon
<1>1. PICK m \in F : \A s \in F : s \subseteq m => s = m
    <2>1. F \in SUBSET SUBSET S
        OBVIOUS
    <2>. HIDE DEF F
    <2>. QED
        BY <2>1, SmallestSet
<1>. DEFINE g(s) == CHOOSE f : Folds(f, s)
            r(s) == s \ {pick[s]}
            h == [s \in SUBSET m |-> IF s = {} THEN base ELSE step[<<pick[s], g(r(s))[r(s)]>>]]
<1>2. \A s \in SUBSET m : s # m => Folds(g(s), s)
    <2>. SUFFICES ASSUME NEW s \in SUBSET m, s # m PROVE Folds(g(s), s)
        OBVIOUS
    <2>1. \E f : Folds(f, s)
        BY <1>1
    <2>. HIDE DEF Folds
    <2>. QED
        BY <2>1, Zenon
<1>3. \A s \in SUBSET m : s # {} => r(s) \in SUBSET s /\ r(s) # s /\ pick[s] \in s
    BY <1>1 DEF Picks
<1>4. \A s \in SUBSET m : s # m => h[s] = g(s)[s]
    <2>. SUFFICES ASSUME NEW s \in SUBSET m, s # m PROVE h[s] = g(s)[s]
        OBVIOUS
    <2>1. g(s)[s] = FoldStep(g(s), s, pick, step, base)
        <3>1. Folds(g(s), s)
            BY <1>2, Zenon
        <3>. HIDE DEF g
        <3>. QED
            BY <3>1 DEF IsFold
    <2>2. CASE s = {}
        BY <2>1, <2>2 DEF FoldStep
    <2>3. CASE s # {}
        <3>1. r(s) \in SUBSET s /\ r(s) \in SUBSET m /\ r(s) # m
            BY <1>3, <2>3
        <3>2. Folds(g(s), s) /\ Folds(g(r(s)), r(s))
            BY <1>2, <3>1, Zenon
        <3>3. g(s)[r(s)] = g(r(s))[r(s)]
            <4>1. IsFiniteSet(s) /\ Picks(pick, s)
                BY <1>1, FS_Subset DEF Picks
            <4>. HIDE DEF g, h, r
            <4>. QED
                BY <3>1, <3>2, <4>1, FoldsAgree
        <3>4. h[s] = step[<<pick[s], g(r(s))[r(s)]>>]
            <4>. HIDE DEF g, r
            <4>. QED
                BY <2>3
        <3>5. g(s)[s] = step[<<pick[s], g(s)[r(s)]>>]
            <4>. HIDE DEF g, h
            <4>. QED
                BY <2>1, <2>3 DEF FoldStep
        <3>. QED
            BY <3>3, <3>4, <3>5
    <2>. QED
        BY <2>2, <2>3
<1>5. Folds(h, m)
    <2>. SUFFICES ASSUME NEW s \in SUBSET m
                  PROVE  h[s] = FoldStep(h, s, pick, step, base)
        BY DEF IsFold
    <2>1. CASE s = {}
        BY <2>1 DEF FoldStep
    <2>2. CASE s # {}
        <3>1. r(s) \in SUBSET m /\ r(s) # m
            BY <1>3, <2>2
        <3>2. h[r(s)] = g(r(s))[r(s)]
            BY <1>4, <3>1, Zenon
        <3>3. h[s] = step[<<pick[s], g(r(s))[r(s)]>>]
            <4>. HIDE DEF g, r
            <4>. QED
                BY <2>2
        <3>. HIDE DEF g, h
        <3>. QED
            BY <2>2, <3>2, <3>3 DEF FoldStep
    <2>. QED
        BY <2>1, <2>2
<1>. HIDE DEF h
<1>. QED
    BY <1>1, <1>5

Family(F, S) == IsFiniteSet(S) /\ F \in SUBSET SUBSET S /\ F # {}
Minimal(F, m) == m \in F /\ \A s \in F : s \subseteq m => s = m

LEMMA SmallestOf ==
    ASSUME NEW F, NEW S, Family(F, S)
    PROVE  \E m : Minimal(F, m)
BY SmallestSet DEF Family, Minimal

----------------------------------------------------------------------------
Ids == Nat \X Nat
Windows == [head : Nat, tail : Nat, uuids : UNION {[T -> Ids] : T \in SUBSET Nat},
            rows : Seq(Ids)]

RecordsTidy(u, head, tail) ==
    /\ head <= tail + 1 /\ (head = 0 => tail = 0)
    /\ DOMAIN u \subseteq (head .. tail) \ {0}
    /\ \A c \in DOMAIN u :
          /\ u[c] \in Ids /\ head - 1 <= u[c][1] /\ u[c][2] <= tail + 1
          /\ u[c] = <<c, c>> \/ u[c][1] < u[c][2]
    /\ \A c, d \in DOMAIN u :
          (c < d /\ u[c] # u[d]) =>
              u[c][2] <= d /\ c <= u[d][1] /\ u[c][2] <= u[d][1]

RowsTidy(u, rows) ==
    /\ \A i \in DOMAIN rows : \E c \in DOMAIN u : u[c] = rows[i]
    /\ \A i, j \in DOMAIN rows : \A c, d \in DOMAIN u :
          (i < j /\ u[c] = rows[i] /\ u[d] = rows[j]) => c < d

Tidy(w) ==
    w \in Windows /\ RecordsTidy(w.uuids, w.head, w.tail) /\ RowsTidy(w.uuids, w.rows)

EventsIn(w) == {c \in DOMAIN w.uuids : w.uuids[c] = <<c, c>>}

LEMMA TidyInOrder ==
    ASSUME NEW w, Tidy(w)
    PROVE  IsWindow(w) /\ InOrder(w)
<1>. DEFINE u == w.uuids
<1>1. w \in Windows /\ RecordsTidy(u, w.head, w.tail) /\ RowsTidy(u, w.rows)
    BY DEF Tidy
<1>2. IsWindow(w)
    <2>1. w.head \in Nat /\ w.tail \in Nat /\ DOMAIN u \subseteq Nat
        BY <1>1 DEF Windows
    <2>2. \A c \in DOMAIN u : u[c] = EventRecord(c) \/ IsMarker(u[c])
        BY <1>1 DEF RecordsTidy, EventRecord, IsMarker
    <2>3. \A i \in DOMAIN w.rows : w.rows[i] \in Nat \X Nat
        BY <1>1 DEF Windows, Ids
    <2>. QED
        BY <2>1, <2>2, <2>3 DEF IsWindow
<1>3. Range(w.rows) \subseteq Range(u) /\ DOMAIN u \subseteq w.head .. w.tail
    BY <1>1 DEF RecordsTidy, RowsTidy, Range
<1>4. ASSUME NEW i \in 1 .. Len(w.rows) - 1
      PROVE  w.rows[i][2] <= w.rows[i + 1][1] /\ w.rows[i] # w.rows[i + 1]
    <2>1. /\ w.rows \in Seq(Ids) /\ DOMAIN w.rows = 1 .. Len(w.rows) /\ Len(w.rows) \in Nat
          /\ i \in DOMAIN w.rows /\ i + 1 \in DOMAIN w.rows /\ i < i + 1
        BY <1>1 DEF Windows
    <2>2. PICK c \in DOMAIN u : u[c] = w.rows[i]
        BY <1>1, <2>1 DEF RowsTidy
    <2>3. PICK d \in DOMAIN u : u[d] = w.rows[i + 1]
        BY <1>1, <2>1 DEF RowsTidy
    <2>4. c < d /\ c \in Nat /\ d \in Nat
        <3>1. \A x, y \in DOMAIN u : (u[x] = w.rows[i] /\ u[y] = w.rows[i + 1]) => x < y
            BY <1>1, <2>1 DEF RowsTidy
        <3>2. DOMAIN u \subseteq Nat
            BY <1>1 DEF Windows
        <3>. QED
            BY <2>2, <2>3, <3>1, <3>2
    <2>5. u[c] # u[d]
        <3>1. (u[d] = w.rows[i] /\ u[d] = w.rows[i + 1]) => d < d
            BY <1>1, <2>1 DEF RowsTidy
        <3>. QED
            BY <2>2, <2>3, <2>4, <3>1
    <2>6. u[c][2] <= u[d][1]
        BY <1>1, <2>4, <2>5 DEF RecordsTidy
    <2>. QED
        BY <2>2, <2>3, <2>5, <2>6
<1>. QED
    BY <1>2, <1>3, <1>4 DEF InOrder

(* What stands for counters, and the marker that an event above the tail   *)
(* extends or gets.                                                        *)
Put(u, counters, id) ==
    [c \in DOMAIN u \cup counters |-> IF c \in counters THEN id ELSE u[c]]
TailMarker(u, tail, e) == IF u[tail][1] < u[tail][2] THEN u[tail] ELSE <<tail, e>>

(* The counters between the tail and the next event e.                     *)
LEMMA GapAtTail ==
    ASSUME NEW u, NEW head \in Nat, NEW tail \in Nat, NEW e \in Nat,
           RecordsTidy(u, head, tail), tail \in DOMAIN u, e > tail + 1,
           NEW id, id = TailMarker(u, tail, e),
           NEW v, v = Put(u, tail + 1 .. e - 1, id)
    PROVE  /\ RecordsTidy(v, head, e - 1)
           /\ DOMAIN u \subseteq DOMAIN v /\ \A c \in DOMAIN u : v[c] = u[c]
           /\ \A c \in DOMAIN v : c \in DOMAIN u \/ (c \in tail + 1 .. e - 1 /\ v[c] = id)
           /\ id \in Ids /\ id[1] < id[2]
<1>1. /\ DOMAIN u \subseteq Nat \ {0} /\ tail # 0
      /\ \A c \in DOMAIN u : c <= tail /\ head <= c
    BY DEF RecordsTidy
<1>2. u[tail] \in Ids /\ (u[tail] = <<tail, tail>> \/ u[tail][1] < u[tail][2])
      /\ head - 1 <= u[tail][1] /\ u[tail][2] <= tail + 1
    BY DEF RecordsTidy
<1>3. id = IF u[tail][1] < u[tail][2] THEN u[tail] ELSE <<tail, e>>
    BY DEF TailMarker
<1>4. id \in Ids /\ id[1] < id[2] /\ head - 1 <= id[1] /\ id[2] <= e
    BY <1>3, <1>1, <1>2 DEF Ids
<1>5. /\ DOMAIN v = DOMAIN u \cup (tail + 1 .. e - 1)
      /\ \A c \in DOMAIN u : v[c] = u[c]
      /\ \A c \in tail + 1 .. e - 1 : v[c] = id
    BY <1>1 DEF Put
<1>6. head <= e /\ (head = 0 => e - 1 = 0)
    BY <1>1 DEF RecordsTidy
<1>7. DOMAIN v \subseteq (head .. e - 1) \ {0}
    <2>1. head <= tail
        BY <1>1
    <2>. QED
        BY <1>1, <1>5, <2>1
<1>8. ASSUME NEW c \in DOMAIN v
      PROVE  /\ v[c] \in Ids /\ head - 1 <= v[c][1] /\ v[c][2] <= (e - 1) + 1
             /\ v[c] = <<c, c>> \/ v[c][1] < v[c][2]
    <2>1. CASE c \in DOMAIN u
        <3>1. u[c] \in Ids /\ head - 1 <= u[c][1] /\ u[c][2] <= tail + 1
              /\ (u[c] = <<c, c>> \/ u[c][1] < u[c][2])
            BY <2>1 DEF RecordsTidy
        <3>. QED
            BY <1>5, <2>1, <3>1 DEF Ids
    <2>2. CASE c \in tail + 1 .. e - 1
        BY <1>4, <1>5, <2>2
    <2>. QED
        BY <1>5, <2>1, <2>2
<1>9. ASSUME NEW c \in DOMAIN v, NEW d \in DOMAIN v, c < d, v[c] # v[d]
      PROVE  v[c][2] <= d /\ c <= v[d][1] /\ v[c][2] <= v[d][1]
    <2>1. CASE d \in DOMAIN u
        <3>1. c \in DOMAIN u
            BY <1>1, <1>5, <1>9, <2>1
        <3>. QED
            BY <1>5, <1>9, <2>1, <3>1 DEF RecordsTidy
    <2>2. CASE c \in DOMAIN u /\ d \in tail + 1 .. e - 1
        <3>1. v[c] = u[c] /\ v[d] = id /\ u[c] \in Ids /\ u[c][2] <= tail + 1 /\ c <= tail
            BY <1>1, <1>5, <2>2 DEF RecordsTidy
        <3>2. CASE c = tail
            <4>1. u[tail] # id
                BY <1>9, <3>1, <3>2
            <4>2. u[tail] = <<tail, tail>> /\ id = <<tail, e>>
                BY <1>3, <1>2, <4>1
            <4>. QED
                BY <2>2, <3>1, <3>2, <4>2
        <3>3. CASE c < tail /\ u[c] # u[tail]
            <4>1. u[c][2] <= tail /\ c <= u[tail][1] /\ u[c][2] <= u[tail][1]
                BY <2>2, <3>3 DEF RecordsTidy
            <4>2. id[1] = u[tail][1] \/ id[1] = tail
                BY <1>3 DEF Ids
            <4>. QED
                BY <1>1, <1>2, <1>4, <2>2, <3>1, <3>3, <4>1, <4>2 DEF Ids
        <3>4. CASE c < tail /\ u[c] = u[tail]
            <4>1. id = <<tail, e>> /\ u[tail] = <<tail, tail>>
                BY <1>3, <1>2, <1>9, <3>1, <3>4
            <4>2. u[c] = <<c, c>> \/ u[c][1] < u[c][2]
                BY <2>2 DEF RecordsTidy
            <4>. QED
                BY <1>1, <2>2, <3>4, <4>1, <4>2
        <3>. QED
            BY <1>1, <2>2, <3>1, <3>2, <3>3, <3>4
    <2>3. CASE c \in tail + 1 .. e - 1 /\ d \in tail + 1 .. e - 1
        BY <1>5, <1>9, <2>3
    <2>4. CASE c \in tail + 1 .. e - 1 /\ d \in DOMAIN u
        BY <2>1, <2>4
    <2>. QED
        BY <1>5, <2>1, <2>2, <2>3
<1>10. RecordsTidy(v, head, e - 1)
    <2>1. head <= (e - 1) + 1 /\ (head = 0 => e - 1 = 0)
        BY <1>6
    <2>2. \A c, d \in DOMAIN v : (c < d /\ v[c] # v[d]) =>
              v[c][2] <= d /\ c <= v[d][1] /\ v[c][2] <= v[d][1]
        BY <1>9
    <2>3. \A c \in DOMAIN v :
              /\ v[c] \in Ids /\ head - 1 <= v[c][1] /\ v[c][2] <= (e - 1) + 1
              /\ v[c] = <<c, c>> \/ v[c][1] < v[c][2]
        BY <1>8
    <2>. QED
        BY <1>7, <2>1, <2>2, <2>3, Zenon DEF RecordsTidy
<1>. QED
    BY <1>4, <1>5, <1>10

(* A row for what stands above every other counter.                        *)
LEMMA RowsAbove ==
    ASSUME NEW u, NEW v, NEW rows \in Seq(Ids), NEW id \in Ids,
           DOMAIN u \subseteq DOMAIN v, DOMAIN v \subseteq Nat,
           \A c \in DOMAIN u : v[c] = u[c],
           \A c \in DOMAIN v \ DOMAIN u : v[c] = id /\ \A d \in DOMAIN u : d < c,
           \/ \E t \in DOMAIN u : u[t] = id /\ \A d \in DOMAIN u : d <= t
           \/ \A d \in DOMAIN u : u[d] # id,
           RowsTidy(u, rows)
    PROVE  /\ RowsTidy(v, rows)
           /\ (\A d \in DOMAIN u : u[d] # id) /\ DOMAIN v # DOMAIN u
                 => RowsTidy(v, Append(rows, id))
<1>1. \A i \in DOMAIN rows : \E c \in DOMAIN u : u[c] = rows[i]
    BY DEF RowsTidy
<1>2. \A i \in DOMAIN rows : \E c \in DOMAIN v : v[c] = rows[i]
    BY <1>1
<1>3. DOMAIN rows = 1 .. Len(rows) /\ Len(rows) \in Nat
    OBVIOUS
<1>4. ASSUME NEW i \in DOMAIN rows, NEW j \in DOMAIN rows, i < j,
             NEW c \in DOMAIN v, NEW d \in DOMAIN v, v[c] = rows[i], v[d] = rows[j]
      PROVE  c < d
    <2>1. CASE c \in DOMAIN u /\ d \in DOMAIN u
        BY <1>4, <2>1 DEF RowsTidy
    <2>2. CASE c \in DOMAIN u /\ d \notin DOMAIN u
        BY <2>2
    <2>3. CASE c \notin DOMAIN u
        <3>1. v[c] = id
            BY <2>3
        <3>2. PICK t \in DOMAIN u : u[t] = id /\ \A k \in DOMAIN u : k <= t
            BY <1>1, <1>4, <3>1
        <3>3. PICK k \in DOMAIN u : u[k] = rows[j]
            BY <1>1
        <3>4. t < k
            BY <1>4, <3>1, <3>2, <3>3 DEF RowsTidy
        <3>. QED
            BY <3>2, <3>3, <3>4
    <2>. QED
        BY <2>1, <2>2, <2>3
<1>5. RowsTidy(v, rows)
    BY <1>2, <1>4 DEF RowsTidy
<1>6. ASSUME \A d \in DOMAIN u : u[d] # id, DOMAIN v # DOMAIN u
      PROVE  RowsTidy(v, Append(rows, id))
    <2>. DEFINE all == Append(rows, id)
                n == Len(rows) + 1
    <2>1. /\ DOMAIN all = 1 .. n /\ all[n] = id
          /\ \A i \in DOMAIN rows : all[i] = rows[i]
          /\ \A i \in DOMAIN all : i = n \/ i \in DOMAIN rows
        BY <1>3
    <2>2. PICK new \in DOMAIN v \ DOMAIN u : v[new] = id
        BY <1>6
    <2>3. \A i \in DOMAIN all : \E c \in DOMAIN v : v[c] = all[i]
        BY <1>2, <2>1, <2>2
    <2>4. ASSUME NEW i \in DOMAIN all, NEW j \in DOMAIN all, i < j,
                 NEW c \in DOMAIN v, NEW d \in DOMAIN v, v[c] = all[i], v[d] = all[j]
          PROVE  c < d
        <3>1. i \in DOMAIN rows /\ all[i] = rows[i]
            BY <1>3, <2>1, <2>4
        <3>2. CASE j \in DOMAIN rows
            BY <1>4, <2>1, <2>4, <3>1, <3>2
        <3>3. CASE j = n
            <4>1. v[d] = id /\ v[c] # id
                BY <1>1, <1>6, <2>1, <2>4, <3>1, <3>3
            <4>2. d \notin DOMAIN u /\ c \in DOMAIN u
                BY <1>6, <4>1
            <4>. QED
                BY <4>2
        <3>. QED
            BY <2>1, <3>2, <3>3
    <2>. HIDE DEF all
    <2>5. RowsTidy(v, all)
        BY <2>3, <2>4 DEF RowsTidy
    <2>. QED
        BY <2>5 DEF all
<1>. QED
    BY <1>5, <1>6

(* The record of an event after the tail.                                  *)
LEMMA AddAtTail ==
    ASSUME NEW u, NEW head \in Nat, NEW tail \in Nat, NEW e \in Nat,
           RecordsTidy(u, head, tail), e > tail,
           NEW v, v = Put(u, {e}, <<e, e>>),
           NEW h, h = IF head = 0 THEN e ELSE head
    PROVE  /\ RecordsTidy(v, h, e)
           /\ \A c \in DOMAIN u : c < e /\ u[c] # <<e, e>>
<1>1. /\ DOMAIN u \subseteq Nat \ {0}
      /\ \A c \in DOMAIN u : c <= tail /\ head <= c /\ c # e
      /\ head <= tail + 1 /\ (head = 0 => tail = 0)
    BY DEF RecordsTidy
<1>2. \A c \in DOMAIN u : /\ u[c] \in Ids /\ head - 1 <= u[c][1] /\ u[c][2] <= tail + 1
                          /\ u[c] = <<c, c>> \/ u[c][1] < u[c][2]
    BY DEF RecordsTidy
<1>3. /\ DOMAIN v = DOMAIN u \cup {e} /\ v[e] = <<e, e>>
      /\ \A c \in DOMAIN u : v[c] = u[c]
    BY <1>1 DEF Put
<1>4. \A c \in DOMAIN u : u[c] # <<e, e>>
    BY <1>1, <1>2
<1>5. /\ h \in Nat /\ h <= e /\ h # 0 /\ h - 1 <= e
      /\ \A c \in DOMAIN u : head = h
    BY <1>1
<1>6. DOMAIN v \subseteq (h .. e) \ {0}
    BY <1>1, <1>3, <1>5
<1>7. \A c \in DOMAIN v : /\ v[c] \in Ids /\ h - 1 <= v[c][1] /\ v[c][2] <= e + 1
                          /\ v[c] = <<c, c>> \/ v[c][1] < v[c][2]
    <2>. SUFFICES ASSUME NEW c \in DOMAIN v
                  PROVE  /\ v[c] \in Ids /\ h - 1 <= v[c][1] /\ v[c][2] <= e + 1
                         /\ v[c] = <<c, c>> \/ v[c][1] < v[c][2]
        OBVIOUS
    <2>1. CASE c \in DOMAIN u
        <3>1. v[c] = u[c] /\ head = h /\ u[c] \in Ids
            BY <1>2, <1>3, <1>5, <2>1
        <3>. QED
            BY <1>2, <2>1, <3>1 DEF Ids
    <2>2. CASE c = e
        BY <1>3, <1>5, <2>2 DEF Ids
    <2>. QED
        BY <1>3, <2>1, <2>2
<1>8. \A c, d \in DOMAIN v : (c < d /\ v[c] # v[d]) =>
          v[c][2] <= d /\ c <= v[d][1] /\ v[c][2] <= v[d][1]
    <2>. SUFFICES ASSUME NEW c \in DOMAIN v, NEW d \in DOMAIN v, c < d, v[c] # v[d]
                  PROVE  v[c][2] <= d /\ c <= v[d][1] /\ v[c][2] <= v[d][1]
        OBVIOUS
    <2>1. c \in DOMAIN u
        BY <1>1, <1>3
    <2>2. CASE d \in DOMAIN u
        BY <1>3, <2>1, <2>2 DEF RecordsTidy
    <2>3. CASE d = e
        <3>1. u[c] \in Ids /\ u[c][2] <= tail + 1 /\ c <= tail
            BY <1>1, <1>2, <2>1
        <3>2. v[c] = u[c] /\ v[d][1] = e /\ d = e
            BY <1>3, <2>1, <2>3
        <3>3. u[c][2] \in Nat
            BY <3>1 DEF Ids
        <3>. QED
            BY <1>1, <2>1, <3>1, <3>2, <3>3
    <2>. QED
        BY <1>3, <2>2, <2>3
<1>9. RecordsTidy(v, h, e)
    <2>1. h <= e + 1 /\ (h = 0 => e = 0)
        BY <1>5
    <2>. QED
        BY <1>6, <1>7, <1>8, <2>1, Zenon DEF RecordsTidy
<1>10. \A c \in DOMAIN u : c < e /\ e # c
    BY <1>1
<1>. QED
    BY <1>3, <1>4, <1>9, <1>10

(* The rows after events were added: those of before, and theirs.          *)
Shows(v, w, s) ==
    /\ Range(w.rows) \subseteq Range(v.rows)
    /\ \A e \in s \ {StartEvent} : EventRecord(e) \in Range(v.rows)

LEMMA MoreRows ==
    ASSUME NEW rows \in Seq(Ids), NEW more \in Seq(Ids)
    PROVE  /\ Range(rows) \subseteq Range(rows \o more)
           /\ Range(more) \subseteq Range(rows \o more)
<1>. DEFINE all == rows \o more
<1>1. /\ DOMAIN all = 1 .. Len(rows) + Len(more)
      /\ DOMAIN rows = 1 .. Len(rows) /\ Len(rows) \in Nat
      /\ DOMAIN more = 1 .. Len(more) /\ Len(more) \in Nat
    OBVIOUS
<1>2. \A i \in DOMAIN rows : i \in DOMAIN all /\ all[i] = rows[i]
    OBVIOUS
<1>3. \A i \in DOMAIN more : i + Len(rows) \in DOMAIN all /\ all[i + Len(rows)] = more[i]
    OBVIOUS
<1>. HIDE DEF all
<1>4. Range(rows) \subseteq Range(all)
    BY <1>2 DEF Range
<1>5. Range(more) \subseteq Range(all)
    BY <1>3 DEF Range
<1>. QED
    BY <1>4, <1>5 DEF all

LEMMA LineOf ==
    ASSUME NEW e \in Nat
    PROVE  /\ Lines(e) \in Seq(Ids)
           /\ e # StartEvent => EventRecord(e) \in Range(Lines(e))
<1>1. EventRecord(e) \in Ids
    BY DEF EventRecord, Ids
<1>2. CASE e = StartEvent
    BY <1>2 DEF Lines
<1>3. CASE e # StartEvent
    <2>1. Lines(e) = <<EventRecord(e)>>
        BY <1>3 DEF Lines
    <2>. QED
        BY <1>1, <2>1 DEF Range
<1>. QED
    BY <1>2, <1>3

(* The window after an event above the tail, and below the head.           *)
Grown(v, w, e, head, tail) ==
    /\ Tidy(v) /\ EventsIn(v) \subseteq EventsIn(w) \cup {e}
    /\ v.head = head /\ v.tail = tail
    /\ Shows(v, w, {e})

LEMMA AppendKeepsTidy ==
    ASSUME NEW w, Tidy(w), NEW e \in Nat, e > w.tail
    PROVE  Grown(AppendEvent(w, e), w, e, IF w.head = 0 THEN e ELSE w.head, e)
<1>. DEFINE u == w.uuids
            h == w.head
            t == w.tail
            gapped == t # 0 /\ e # t + 1 /\ t \in DOMAIN u
            filled == IF gapped THEN appendMissingEventGroup(w, e) ELSE w
            f == filled.uuids
            low == IF gapped THEN e - 1 ELSE t
            added == Put(f, {e}, <<e, e>>)
            h2 == IF h = 0 THEN e ELSE h
<1>1. /\ w \in Windows /\ h \in Nat /\ t \in Nat /\ w.rows \in Seq(Ids)
      /\ DOMAIN u \subseteq Nat /\ RecordsTidy(u, h, t) /\ RowsTidy(u, w.rows)
      /\ w = [head |-> h, tail |-> t, uuids |-> u, rows |-> w.rows]
      /\ h <= t + 1
    BY DEF Tidy, Windows, RecordsTidy
<1>2. /\ filled = [head |-> h, tail |-> t, uuids |-> f, rows |-> filled.rows]
      /\ DOMAIN f \subseteq Nat /\ filled.rows \in Seq(Ids)
      /\ RecordsTidy(f, h, low) /\ RowsTidy(f, filled.rows)
      /\ {c \in DOMAIN f : f[c] = <<c, c>>} \subseteq EventsIn(w)
      /\ low \in Nat /\ low < e
      /\ filled.rows = w.rows \/ \E id \in Ids : filled.rows = Append(w.rows, id)
    <2>1. CASE ~gapped
        BY <1>1, <2>1 DEF EventsIn
    <2>2. CASE gapped
        <3>. DEFINE gap == t + 1 .. e - 1
                    last == u[t]
                    id == TailMarker(u, t, e)
                    g == Put(u, gap, id)
                    visible == ~(last[1] < last[2]) /\ ~(gap \subseteq Silent)
        <3>1. filled = [head |-> h, tail |-> t, uuids |-> g,
                        rows |-> IF visible THEN Append(w.rows, id) ELSE w.rows]
            <4>1. filled = [w EXCEPT !.uuids = g,
                                     !.rows = IF visible THEN Append(@, id) ELSE @]
                <5>. HIDE DEF visible
                <5>. QED
                    BY <2>2
                       DEF appendMissingEventGroup, Standing, Mapped, IsMarker, Marker, visible,
                                TailMarker, Put
            <4>. HIDE DEF filled, g, visible, id
            <4>. QED
                BY <1>1, <4>1
        <3>2. e > t + 1
            BY <1>1, <2>2
        <3>3. /\ RecordsTidy(g, h, e - 1) /\ DOMAIN u \subseteq DOMAIN g
              /\ \A c \in DOMAIN u : g[c] = u[c]
              /\ \A c \in DOMAIN g : c \in DOMAIN u \/ (c \in gap /\ g[c] = id)
              /\ id \in Ids /\ id[1] < id[2]
            <4>1. RecordsTidy(u, h, t) /\ t \in DOMAIN u /\ h \in Nat /\ t \in Nat
                BY <1>1, <2>2
            <4>. HIDE DEF u, h, t
            <4>. QED
                BY <3>2, <4>1, GapAtTail
        <3>4. /\ \A d \in DOMAIN u : d <= t /\ u[d] \in Ids /\ u[d][2] <= t + 1
              /\ DOMAIN g \subseteq Nat
              /\ t + 1 \in DOMAIN g /\ t + 1 \notin DOMAIN u
            BY <1>1, <3>2 DEF RecordsTidy, Put
        <3>5. /\ last[1] < last[2] => id = u[t]
              /\ ~(last[1] < last[2]) => \A d \in DOMAIN u : u[d] # id
            <4>1. id = IF last[1] < last[2] THEN last ELSE <<t, e>>
                BY DEF TailMarker
            <4>2. ASSUME ~(last[1] < last[2]) PROVE \A d \in DOMAIN u : u[d][2] # id[2]
                <5>1. id[2] = e
                    BY <4>2, <4>1
                <5>. HIDE DEF id
                <5>. QED
                    BY <1>1, <3>2, <3>4, <5>1 DEF Ids
            <4>. QED
                BY <4>2, <4>1
        <3>6. /\ RowsTidy(g, w.rows)
              /\ visible => RowsTidy(g, Append(w.rows, id))
            <4>1. \A c \in DOMAIN g \ DOMAIN u : g[c] = id /\ \A d \in DOMAIN u : d < c
                <5>. HIDE DEF g, id
                <5>. QED
                    BY <1>1, <3>3, <3>4
            <4>2. \/ \E k \in DOMAIN u : u[k] = id /\ \A d \in DOMAIN u : d <= k
                  \/ \A d \in DOMAIN u : u[d] # id
                <5>. HIDE DEF g, id
                <5>. QED
                    BY <2>2, <3>4, <3>5
            <4>. HIDE DEF g, id
            <4>3. RowsTidy(g, w.rows) /\ ((\A d \in DOMAIN u : u[d] # id) /\ DOMAIN g # DOMAIN u
                                              => RowsTidy(g, Append(w.rows, id)))
                BY <1>1, <3>3, <3>4, <4>1, <4>2, RowsAbove
            <4>. QED
                BY <3>4, <3>5, <4>3
        <3>7. {c \in DOMAIN g : g[c] = <<c, c>>} \subseteq EventsIn(w)
            <4>. HIDE DEF g, id
            <4>. QED
                BY <1>1, <3>3, <3>4 DEF EventsIn
        <3>8. f = g /\ filled.rows = (IF visible THEN Append(w.rows, id) ELSE w.rows)
            <4>. HIDE DEF filled, g, visible, id
            <4>. QED
                BY <3>1
        <3>9. /\ filled = [head |-> h, tail |-> t, uuids |-> f, rows |-> filled.rows]
              /\ filled.rows \in Seq(Ids)
            <4>. HIDE DEF filled, g, visible, id
            <4>. QED
                BY <1>1, <3>1, <3>3, <3>8
        <3>10. low = e - 1 /\ low \in Nat /\ low < e
            BY <1>1, <2>2, <3>2
        <3>11. RowsTidy(g, filled.rows)
            <4>. HIDE DEF filled, g, visible, id
            <4>. QED
                BY <3>6, <3>8
        <3>12. filled.rows = w.rows \/ \E x \in Ids : filled.rows = Append(w.rows, x)
            <4>. HIDE DEF filled, g, visible, id
            <4>. QED
                BY <3>3, <3>8
        <3>. HIDE DEF filled, g, visible, id, low
        <3>. QED
            BY <3>3, <3>4, <3>7, <3>8, <3>9, <3>10, <3>11, <3>12
    <2>. QED
        BY <2>1, <2>2
<1>3. /\ RecordsTidy(added, h2, e)
      /\ e \notin DOMAIN f /\ DOMAIN added = DOMAIN f \cup {e} /\ added[e] = <<e, e>>
      /\ \A c \in DOMAIN f : c < e /\ added[c] = f[c] /\ f[c] # <<e, e>>
    <2>1. h \in Nat /\ low \in Nat /\ e > low /\ RecordsTidy(f, h, low)
        <3>. HIDE DEF filled, low
        <3>. QED
            BY <1>1, <1>2
    <2>2. h2 = IF h = 0 THEN e ELSE h
        OBVIOUS
    <2>. HIDE DEF f, h, low, h2
    <2>3. added = Put(f, {e}, <<e, e>>)
        OBVIOUS
    <2>. HIDE DEF added
    <2>4. RecordsTidy(added, h2, e) /\ \A c \in DOMAIN f : c < e /\ f[c] # <<e, e>>
        BY <2>2, <2>1, <2>3, AddAtTail
    <2>5. DOMAIN added = DOMAIN f \cup {e} /\ added[e] = <<e, e>>
          /\ \A c \in DOMAIN f : c # e => added[c] = f[c]
        BY <2>3 DEF Put
    <2>. QED
        BY <2>4, <2>5
<1>4. AppendEvent(w, e) = [head |-> h2, tail |-> e, uuids |-> added,
                           rows |-> filled.rows \o Lines(e)]
    <2>. DEFINE next == transformEvent(filled, e)
                opened == IF w.tail # 0 /\ e # w.tail + 1
                          THEN appendMissingEventGroup(w, e) ELSE w
    <2>1. opened = filled
        BY <1>1 DEF appendMissingEventGroup, Standing
    <2>2. AppendEvent(w, e) = IF next = filled THEN filled
                              ELSE [next EXCEPT !.rows = @ \o Lines(e)]
        <3>1. AppendEvent(w, e) = IF transformEvent(opened, e) = opened THEN opened
                                  ELSE [transformEvent(opened, e) EXCEPT !.rows = @ \o Lines(e)]
            BY DEF AppendEvent
        <3>. HIDE DEF opened, filled
        <3>. QED
            BY <2>1, <3>1
    <2>3. next = [head |-> h2, tail |-> e, uuids |-> added, rows |-> filled.rows]
        <3>1. EventRecord(e) \notin Range(f)
            <4>. HIDE DEF filled
            <4>. QED
                BY <1>3 DEF EventRecord, Range
        <3>2. filled.head = h /\ filled.tail = t
            <4>. HIDE DEF filled
            <4>. QED
                BY <1>2
        <3>3. Mapped(filled, {e}, EventRecord(e)) = added
            BY DEF Mapped, EventRecord, Put
        <3>4. (IF filled.head = 0 \/ e < filled.head THEN e ELSE filled.head) = h2
            BY <1>1, <3>2
        <3>5. (IF filled.tail = 0 \/ e > filled.tail THEN e ELSE filled.tail) = e
            BY <1>1, <3>2
        <3>. HIDE DEF filled, added, h2
        <3>. QED
            BY <1>2, <3>1, <3>3, <3>4, <3>5 DEF transformEvent
    <2>4. next # filled
        <3>1. next.tail = e /\ filled.tail = t
            <4>. HIDE DEF filled, added, next, h2
            <4>. QED
                BY <1>2, <2>3
        <3>. HIDE DEF filled, next
        <3>. QED
            BY <1>1, <3>1
    <2>. HIDE DEF filled, added, next, h2
    <2>. QED
        BY <2>2, <2>3, <2>4
<1>5. RowsTidy(added, filled.rows \o Lines(e)) /\ filled.rows \o Lines(e) \in Seq(Ids)
    <2>1. DOMAIN added \subseteq Nat /\ <<e, e>> \in Ids
        <3>. HIDE DEF filled, added
        <3>. QED
            BY <1>2, <1>3 DEF Ids
    <2>2. RowsTidy(added, filled.rows) /\ RowsTidy(added, Append(filled.rows, <<e, e>>))
        <3>1. \A c \in DOMAIN added \ DOMAIN f : added[c] = <<e, e>> /\ \A d \in DOMAIN f : d < c
            <4>. HIDE DEF filled, added
            <4>. QED
                BY <1>3
        <3>2. (\A d \in DOMAIN f : f[d] # <<e, e>>) /\ DOMAIN added # DOMAIN f
              /\ DOMAIN f \subseteq DOMAIN added /\ \A c \in DOMAIN f : added[c] = f[c]
            <4>. HIDE DEF filled, added
            <4>. QED
                BY <1>3
        <3>. HIDE DEF filled, added
        <3>. QED
            BY <1>2, <2>1, <3>1, <3>2, RowsAbove
    <2>3. \/ filled.rows \o Lines(e) = filled.rows
          \/ filled.rows \o Lines(e) = Append(filled.rows, <<e, e>>)
        <3>. HIDE DEF filled
        <3>. QED
            BY <1>2 DEF Lines, EventRecord
    <2>4. filled.rows \in Seq(Ids) /\ Append(filled.rows, <<e, e>>) \in Seq(Ids)
        <3>. HIDE DEF filled
        <3>. QED
            BY <1>2, <2>1
    <2>. HIDE DEF filled, added
    <2>. QED
        BY <2>2, <2>3, <2>4
<1>. DEFINE v == AppendEvent(w, e)
<1>6. /\ v = [head |-> h2, tail |-> e, uuids |-> added, rows |-> v.rows]
      /\ v.rows = filled.rows \o Lines(e)
    <2>. HIDE DEF filled, added, h2
    <2>. QED
        BY <1>4
<1>7. Tidy(v)
    <2>1. h2 \in Nat /\ added \in [DOMAIN added -> Ids] /\ DOMAIN added \in SUBSET Nat
        <3>1. h2 \in Nat
            BY <1>1
        <3>. HIDE DEF filled, h2
        <3>2. \A c \in DOMAIN added : added[c] \in Ids
            <4>. HIDE DEF added
            <4>. QED
                BY <1>3 DEF RecordsTidy
        <3>3. added = [c \in DOMAIN added |-> added[c]]
            BY DEF Put
        <3>. HIDE DEF added
        <3>. QED
            BY <1>2, <1>3, <3>1, <3>2, <3>3
    <2>2. RecordsTidy(added, h2, e)
        BY <1>3
    <2>. HIDE DEF filled, added, h2, v
    <2>3. v \in Windows
        <3>1. added \in UNION {[T -> Ids] : T \in SUBSET Nat}
            BY <2>1
        <3>2. [head |-> h2, tail |-> e, uuids |-> added, rows |-> v.rows] \in Windows
            BY <1>5, <1>6, <2>1, <3>1 DEF Windows
        <3>. QED
            BY <1>6, <3>2, Zenon
    <2>. QED
        BY <1>5, <1>6, <2>2, <2>3 DEF Tidy
<1>8. EventsIn(v) \subseteq EventsIn(w) \cup {e}
    <2>. HIDE DEF filled, added, h2, v
    <2>1. v.uuids = added
        BY <1>6
    <2>2. EventsIn(v) = {c \in DOMAIN added : added[c] = <<c, c>>}
        BY <2>1 DEF EventsIn
    <2>3. \A c \in DOMAIN added : c = e \/ (c \in DOMAIN f /\ added[c] = f[c])
        BY <1>3
    <2>. QED
        BY <1>2, <2>2, <2>3
<1>9. Shows(v, w, {e})
    <2>1. filled.rows = w.rows \/ \E id \in Ids : filled.rows = w.rows \o <<id>>
        <3>1. \A id \in Ids : Append(w.rows, id) = w.rows \o <<id>>
            BY <1>1, AppendIsConcat
        <3>. HIDE DEF filled
        <3>. QED
            BY <1>2, <3>1
    <2>2. filled.rows \in Seq(Ids) /\ w.rows \in Seq(Ids)
        <3>. HIDE DEF filled
        <3>. QED
            BY <1>1, <1>2
    <2>3. v.rows = filled.rows \o Lines(e)
        BY <1>6
    <2>. HIDE DEF filled, v
    <2>4. Range(w.rows) \subseteq Range(filled.rows)
        <3>1. ASSUME NEW id \in Ids
              PROVE  Range(w.rows) \subseteq Range(w.rows \o <<id>>)
            <4>1. <<id>> \in Seq(Ids)
                OBVIOUS
            <4>. QED
                BY <2>2, <4>1, MoreRows
        <3>. QED
            BY <2>1, <3>1
    <2>5. Range(filled.rows) \subseteq Range(v.rows) /\ Range(Lines(e)) \subseteq Range(v.rows)
        BY <2>2, <2>3, LineOf, MoreRows
    <2>. QED
        BY <2>4, <2>5, LineOf DEF Shows
<1>. QED
    <2>. HIDE DEF filled, added, v
    <2>1. v.head = h2 /\ v.tail = e
        <3>. HIDE DEF h2
        <3>. QED
            BY <1>6
    <2>. QED
        BY <1>7, <1>8, <1>9, <2>1 DEF Grown, v

HeadMarker(u, head, e) == IF u[head][1] < u[head][2] THEN u[head] ELSE <<e, head>>

(* The counters between the next event e and the head.                     *)
LEMMA GapAtHead ==
    ASSUME NEW u, NEW head \in Nat, NEW tail \in Nat, NEW e \in Nat,
           RecordsTidy(u, head, tail), head \in DOMAIN u, e < head - 1,
           NEW id, id = HeadMarker(u, head, e),
           NEW v, v = Put(u, e + 1 .. head - 1, id)
    PROVE  /\ RecordsTidy(v, e + 1, tail)
           /\ DOMAIN u \subseteq DOMAIN v /\ \A c \in DOMAIN u : v[c] = u[c]
           /\ \A c \in DOMAIN v : c \in DOMAIN u \/ (c \in e + 1 .. head - 1 /\ v[c] = id)
           /\ id \in Ids /\ id[1] < id[2]
<1>1. /\ DOMAIN u \subseteq Nat \ {0} /\ head # 0 /\ head <= tail
      /\ \A c \in DOMAIN u : c <= tail /\ head <= c
    BY DEF RecordsTidy
<1>2. u[head] \in Ids /\ (u[head] = <<head, head>> \/ u[head][1] < u[head][2])
      /\ head - 1 <= u[head][1] /\ u[head][2] <= tail + 1
    BY DEF RecordsTidy
<1>3. id = IF u[head][1] < u[head][2] THEN u[head] ELSE <<e, head>>
    BY DEF HeadMarker
<1>4. id \in Ids /\ id[1] < id[2] /\ e <= id[1] /\ id[2] <= tail + 1
    BY <1>3, <1>1, <1>2 DEF Ids
<1>5. /\ DOMAIN v = DOMAIN u \cup (e + 1 .. head - 1)
      /\ \A c \in DOMAIN u : v[c] = u[c]
      /\ \A c \in e + 1 .. head - 1 : v[c] = id
    BY <1>1 DEF Put
<1>6. DOMAIN v \subseteq (e + 1 .. tail) \ {0}
    BY <1>1, <1>5
<1>7. ASSUME NEW c \in DOMAIN v
      PROVE  /\ v[c] \in Ids /\ (e + 1) - 1 <= v[c][1] /\ v[c][2] <= tail + 1
             /\ v[c] = <<c, c>> \/ v[c][1] < v[c][2]
    <2>1. CASE c \in DOMAIN u
        <3>1. u[c] \in Ids /\ head - 1 <= u[c][1] /\ u[c][2] <= tail + 1
              /\ (u[c] = <<c, c>> \/ u[c][1] < u[c][2])
            BY <2>1 DEF RecordsTidy
        <3>2. v[c] = u[c]
            BY <1>5, <2>1
        <3>. QED
            BY <3>1, <3>2 DEF Ids
    <2>2. CASE c \in e + 1 .. head - 1
        <3>1. v[c] = id
            BY <1>5, <2>2
        <3>. QED
            BY <1>4, <3>1
    <2>. QED
        BY <1>5, <2>1, <2>2
<1>8. ASSUME NEW c \in DOMAIN v, NEW d \in DOMAIN v, c < d, v[c] # v[d]
      PROVE  v[c][2] <= d /\ c <= v[d][1] /\ v[c][2] <= v[d][1]
    <2>1. CASE c \in DOMAIN u
        <3>1. d \in DOMAIN u
            BY <1>1, <1>5, <1>8, <2>1
        <3>. QED
            BY <1>5, <1>8, <2>1, <3>1 DEF RecordsTidy
    <2>2. CASE d \in DOMAIN u /\ c \in e + 1 .. head - 1
        <3>1. v[d] = u[d] /\ v[c] = id /\ u[d] \in Ids /\ head - 1 <= u[d][1] /\ head <= d
            BY <1>1, <1>5, <2>2 DEF RecordsTidy
        <3>2. CASE d = head
            <4>1. u[head] # id
                BY <1>8, <3>1, <3>2
            <4>2. u[head] = <<head, head>> /\ id = <<e, head>>
                BY <1>3, <1>2, <4>1
            <4>. QED
                BY <2>2, <3>1, <3>2, <4>2
        <3>3. CASE head < d /\ u[d] # u[head]
            <4>1. u[head][2] <= d /\ head <= u[d][1] /\ u[head][2] <= u[d][1]
                BY <2>2, <3>3 DEF RecordsTidy
            <4>2. id[2] = u[head][2] \/ id[2] = head
                BY <1>3 DEF Ids
            <4>. QED
                BY <1>1, <1>2, <1>4, <2>2, <3>1, <3>3, <4>1, <4>2 DEF Ids
        <3>4. CASE head < d /\ u[d] = u[head]
            <4>1. id = <<e, head>> /\ u[head] = <<head, head>>
                BY <1>3, <1>2, <1>8, <3>1, <3>4
            <4>2. u[d] = <<d, d>> \/ u[d][1] < u[d][2]
                BY <2>2 DEF RecordsTidy
            <4>. QED
                BY <1>1, <2>2, <3>4, <4>1, <4>2
        <3>. QED
            BY <1>1, <2>2, <3>1, <3>2, <3>3, <3>4
    <2>3. CASE c \in e + 1 .. head - 1 /\ d \in e + 1 .. head - 1
        BY <1>5, <1>8, <2>3
    <2>. QED
        BY <1>5, <2>1, <2>2, <2>3
<1>9. RecordsTidy(v, e + 1, tail)
    <2>1. e + 1 <= tail + 1 /\ (e + 1 = 0 => tail = 0)
        BY <1>1
    <2>2. \A c, d \in DOMAIN v : (c < d /\ v[c] # v[d]) =>
              v[c][2] <= d /\ c <= v[d][1] /\ v[c][2] <= v[d][1]
        BY <1>8
    <2>3. \A c \in DOMAIN v :
              /\ v[c] \in Ids /\ (e + 1) - 1 <= v[c][1] /\ v[c][2] <= tail + 1
              /\ v[c] = <<c, c>> \/ v[c][1] < v[c][2]
        BY <1>7
    <2>. QED
        BY <1>6, <2>1, <2>2, <2>3, Zenon DEF RecordsTidy
<1>. QED
    BY <1>4, <1>5, <1>9

(* A row for what stands below every other counter.                        *)
LEMMA RowsBelow ==
    ASSUME NEW u, NEW v, NEW rows \in Seq(Ids), NEW id \in Ids,
           DOMAIN u \subseteq DOMAIN v, DOMAIN v \subseteq Nat,
           \A c \in DOMAIN u : v[c] = u[c],
           \A c \in DOMAIN v \ DOMAIN u : v[c] = id /\ \A d \in DOMAIN u : c < d,
           \/ \E t \in DOMAIN u : u[t] = id /\ \A d \in DOMAIN u : t <= d
           \/ \A d \in DOMAIN u : u[d] # id,
           RowsTidy(u, rows)
    PROVE  /\ RowsTidy(v, rows)
           /\ (\A d \in DOMAIN u : u[d] # id) /\ DOMAIN v # DOMAIN u
                 => RowsTidy(v, <<id>> \o rows)
<1>1. \A i \in DOMAIN rows : \E c \in DOMAIN u : u[c] = rows[i]
    BY DEF RowsTidy
<1>2. \A i \in DOMAIN rows : \E c \in DOMAIN v : v[c] = rows[i]
    BY <1>1
<1>3. DOMAIN rows = 1 .. Len(rows) /\ Len(rows) \in Nat
    OBVIOUS
<1>4. ASSUME NEW i \in DOMAIN rows, NEW j \in DOMAIN rows, i < j,
             NEW c \in DOMAIN v, NEW d \in DOMAIN v, v[c] = rows[i], v[d] = rows[j]
      PROVE  c < d
    <2>1. CASE c \in DOMAIN u /\ d \in DOMAIN u
        BY <1>4, <2>1 DEF RowsTidy
    <2>2. CASE c \notin DOMAIN u /\ d \in DOMAIN u
        BY <2>2
    <2>3. CASE d \notin DOMAIN u
        <3>1. v[d] = id
            BY <2>3
        <3>2. PICK t \in DOMAIN u : u[t] = id /\ \A k \in DOMAIN u : t <= k
            BY <1>1, <1>4, <3>1
        <3>3. PICK k \in DOMAIN u : u[k] = rows[i]
            BY <1>1
        <3>4. k < t
            BY <1>4, <3>1, <3>2, <3>3 DEF RowsTidy
        <3>. QED
            BY <3>2, <3>3, <3>4
    <2>. QED
        BY <2>1, <2>2, <2>3
<1>5. RowsTidy(v, rows)
    BY <1>2, <1>4 DEF RowsTidy
<1>6. ASSUME \A d \in DOMAIN u : u[d] # id, DOMAIN v # DOMAIN u
      PROVE  RowsTidy(v, <<id>> \o rows)
    <2>. DEFINE all == <<id>> \o rows
    <2>1. /\ DOMAIN all = 1 .. Len(rows) + 1 /\ all[1] = id
          /\ \A i \in DOMAIN all : i # 1 => i - 1 \in DOMAIN rows /\ all[i] = rows[i - 1]
        BY <1>3
    <2>2. PICK new \in DOMAIN v \ DOMAIN u : v[new] = id
        BY <1>6
    <2>3. \A i \in DOMAIN all : \E c \in DOMAIN v : v[c] = all[i]
        <3>. SUFFICES ASSUME NEW i \in DOMAIN all PROVE \E c \in DOMAIN v : v[c] = all[i]
            OBVIOUS
        <3>. HIDE DEF all
        <3>1. CASE i = 1
            BY <2>1, <2>2, <3>1
        <3>2. CASE i # 1
            BY <1>2, <2>1, <3>2
        <3>. QED
            BY <3>1, <3>2
    <2>4. ASSUME NEW i \in DOMAIN all, NEW j \in DOMAIN all, i < j,
                 NEW c \in DOMAIN v, NEW d \in DOMAIN v, v[c] = all[i], v[d] = all[j]
          PROVE  c < d
        <3>1. i \in Nat /\ j \in Nat /\ i >= 1
            BY <1>3, <2>1
        <3>. HIDE DEF all
        <3>2. j - 1 \in DOMAIN rows /\ all[j] = rows[j - 1]
            BY <2>1, <2>4, <3>1
        <3>3. CASE i # 1
            <4>1. i - 1 \in DOMAIN rows /\ all[i] = rows[i - 1] /\ i - 1 < j - 1
                BY <2>1, <2>4, <3>1, <3>3
            <4>. QED
                BY <1>4, <2>4, <3>2, <4>1
        <3>4. CASE i = 1
            <4>1. v[c] = id /\ v[d] # id
                BY <1>1, <1>6, <2>1, <2>4, <3>2, <3>4
            <4>2. c \notin DOMAIN u /\ d \in DOMAIN u
                BY <1>6, <4>1
            <4>. QED
                BY <4>2
        <3>. QED
            BY <3>3, <3>4
    <2>. HIDE DEF all
    <2>5. RowsTidy(v, all)
        BY <2>3, <2>4 DEF RowsTidy
    <2>. QED
        BY <2>5 DEF all
<1>. QED
    BY <1>5, <1>6

(* The record of an event before the head.                                 *)
LEMMA AddAtHead ==
    ASSUME NEW u, NEW head \in Nat, NEW tail \in Nat, NEW e \in Nat \ {0},
           RecordsTidy(u, head, tail), e < head,
           NEW v, v = Put(u, {e}, <<e, e>>)
    PROVE  /\ RecordsTidy(v, e, tail)
           /\ \A c \in DOMAIN u : e < c /\ u[c] # <<e, e>>
<1>1. /\ DOMAIN u \subseteq Nat \ {0}
      /\ \A c \in DOMAIN u : c <= tail /\ head <= c /\ c # e
      /\ head <= tail + 1
    BY DEF RecordsTidy
<1>2. \A c \in DOMAIN u : /\ u[c] \in Ids /\ head - 1 <= u[c][1] /\ u[c][2] <= tail + 1
                          /\ u[c] = <<c, c>> \/ u[c][1] < u[c][2]
    BY DEF RecordsTidy
<1>3. /\ DOMAIN v = DOMAIN u \cup {e} /\ v[e] = <<e, e>>
      /\ \A c \in DOMAIN u : v[c] = u[c]
    BY <1>1 DEF Put
<1>4. \A c \in DOMAIN u : u[c] # <<e, e>>
    BY <1>1, <1>2
<1>5. DOMAIN v \subseteq (e .. tail) \ {0}
    BY <1>1, <1>3
<1>6. \A c \in DOMAIN v : /\ v[c] \in Ids /\ e - 1 <= v[c][1] /\ v[c][2] <= tail + 1
                          /\ v[c] = <<c, c>> \/ v[c][1] < v[c][2]
    <2>. SUFFICES ASSUME NEW c \in DOMAIN v
                  PROVE  /\ v[c] \in Ids /\ e - 1 <= v[c][1] /\ v[c][2] <= tail + 1
                         /\ v[c] = <<c, c>> \/ v[c][1] < v[c][2]
        OBVIOUS
    <2>1. CASE c \in DOMAIN u
        <3>1. v[c] = u[c] /\ u[c] \in Ids
            BY <1>2, <1>3, <2>1
        <3>. QED
            BY <1>2, <2>1, <3>1 DEF Ids
    <2>2. CASE c = e
        BY <1>1, <1>3, <2>2 DEF Ids
    <2>. QED
        BY <1>3, <2>1, <2>2
<1>7. \A c, d \in DOMAIN v : (c < d /\ v[c] # v[d]) =>
          v[c][2] <= d /\ c <= v[d][1] /\ v[c][2] <= v[d][1]
    <2>. SUFFICES ASSUME NEW c \in DOMAIN v, NEW d \in DOMAIN v, c < d, v[c] # v[d]
                  PROVE  v[c][2] <= d /\ c <= v[d][1] /\ v[c][2] <= v[d][1]
        OBVIOUS
    <2>1. d \in DOMAIN u
        BY <1>1, <1>3
    <2>2. CASE c \in DOMAIN u
        BY <1>3, <2>1, <2>2 DEF RecordsTidy
    <2>3. CASE c = e
        <3>1. u[d] \in Ids /\ head - 1 <= u[d][1] /\ head <= d
            BY <1>1, <1>2, <2>1
        <3>2. v[d] = u[d] /\ v[c][2] = e /\ c = e
            BY <1>3, <2>1, <2>3
        <3>3. u[d][1] \in Nat
            BY <3>1 DEF Ids
        <3>. QED
            BY <1>1, <2>1, <3>1, <3>2, <3>3
    <2>. QED
        BY <1>3, <2>2, <2>3
<1>8. RecordsTidy(v, e, tail)
    <2>1. e <= tail + 1 /\ (e = 0 => tail = 0)
        BY <1>1
    <2>. QED
        BY <1>5, <1>6, <1>7, <2>1, Zenon DEF RecordsTidy
<1>9. \A c \in DOMAIN u : e < c
    BY <1>1
<1>. QED
    BY <1>4, <1>8, <1>9

LEMMA PrependKeepsTidy ==
    ASSUME NEW w, Tidy(w), NEW e \in Nat \ {0}, e < w.head
    PROVE  Grown(PrependEvent(w, e), w, e, e, w.tail)
<1>. DEFINE u == w.uuids
            h == w.head
            t == w.tail
            gapped == h # 0 /\ e # h - 1 /\ h \in DOMAIN u
            filled == IF gapped THEN prependMissingEventGroup(w, e) ELSE w
            f == filled.uuids
            high == IF gapped THEN e + 1 ELSE h
            added == Put(f, {e}, <<e, e>>)
<1>1. /\ w \in Windows /\ h \in Nat /\ t \in Nat /\ w.rows \in Seq(Ids)
      /\ DOMAIN u \subseteq Nat /\ RecordsTidy(u, h, t) /\ RowsTidy(u, w.rows)
      /\ w = [head |-> h, tail |-> t, uuids |-> u, rows |-> w.rows]
      /\ h <= t + 1
    BY DEF Tidy, Windows, RecordsTidy
<1>2. /\ filled = [head |-> h, tail |-> t, uuids |-> f, rows |-> filled.rows]
      /\ DOMAIN f \subseteq Nat /\ filled.rows \in Seq(Ids)
      /\ RecordsTidy(f, high, t) /\ RowsTidy(f, filled.rows)
      /\ {c \in DOMAIN f : f[c] = <<c, c>>} \subseteq EventsIn(w)
      /\ high \in Nat /\ e < high
      /\ filled.rows = w.rows \/ \E id \in Ids : filled.rows = <<id>> \o w.rows
    <2>1. CASE ~gapped
        BY <1>1, <2>1 DEF EventsIn
    <2>2. CASE gapped
        <3>. DEFINE gap == e + 1 .. h - 1
                    first == u[h]
                    id == HeadMarker(u, h, e)
                    g == Put(u, gap, id)
                    visible == ~(first[1] < first[2]) /\ ~(gap \subseteq Silent)
        <3>1. filled = [head |-> h, tail |-> t, uuids |-> g,
                        rows |-> IF visible THEN <<id>> \o w.rows ELSE w.rows]
            <4>1. filled = [w EXCEPT !.uuids = g,
                                     !.rows = IF visible THEN <<id>> \o @ ELSE @]
                <5>. HIDE DEF visible
                <5>. QED
                    BY <2>2
                       DEF prependMissingEventGroup, Standing, Mapped, IsMarker, Marker, visible,
                                HeadMarker, Put
            <4>. HIDE DEF filled, g, visible, id
            <4>. QED
                BY <1>1, <4>1
        <3>2. e < h - 1
            BY <1>1, <2>2
        <3>3. /\ RecordsTidy(g, e + 1, t) /\ DOMAIN u \subseteq DOMAIN g
              /\ \A c \in DOMAIN u : g[c] = u[c]
              /\ \A c \in DOMAIN g : c \in DOMAIN u \/ (c \in gap /\ g[c] = id)
              /\ id \in Ids /\ id[1] < id[2]
            <4>1. RecordsTidy(u, h, t) /\ h \in DOMAIN u /\ h \in Nat /\ t \in Nat
                BY <1>1, <2>2
            <4>. HIDE DEF u, h, t
            <4>. QED
                BY <3>2, <4>1, GapAtHead
        <3>4. /\ \A d \in DOMAIN u : h <= d /\ u[d] \in Ids /\ h - 1 <= u[d][1]
              /\ DOMAIN g \subseteq Nat
              /\ h - 1 \in DOMAIN g /\ h - 1 \notin DOMAIN u
            BY <1>1, <3>2 DEF RecordsTidy, Put
        <3>5. /\ first[1] < first[2] => id = u[h]
              /\ ~(first[1] < first[2]) => \A d \in DOMAIN u : u[d] # id
            <4>1. id = IF first[1] < first[2] THEN first ELSE <<e, h>>
                BY DEF HeadMarker
            <4>2. ASSUME ~(first[1] < first[2]) PROVE \A d \in DOMAIN u : u[d][1] # id[1]
                <5>1. id[1] = e
                    BY <4>2, <4>1
                <5>. HIDE DEF id
                <5>. QED
                    BY <1>1, <3>2, <3>4, <5>1 DEF Ids
            <4>. QED
                BY <4>2, <4>1
        <3>6. /\ RowsTidy(g, w.rows)
              /\ visible => RowsTidy(g, <<id>> \o w.rows)
            <4>1. \A c \in DOMAIN g \ DOMAIN u : g[c] = id /\ \A d \in DOMAIN u : c < d
                <5>. HIDE DEF g, id
                <5>. QED
                    BY <1>1, <3>3, <3>4
            <4>2. \/ \E k \in DOMAIN u : u[k] = id /\ \A d \in DOMAIN u : k <= d
                  \/ \A d \in DOMAIN u : u[d] # id
                <5>. HIDE DEF g, id
                <5>. QED
                    BY <2>2, <3>4, <3>5
            <4>. HIDE DEF g, id
            <4>3. RowsTidy(g, w.rows) /\ ((\A d \in DOMAIN u : u[d] # id) /\ DOMAIN g # DOMAIN u
                                              => RowsTidy(g, <<id>> \o w.rows))
                BY <1>1, <3>3, <3>4, <4>1, <4>2, RowsBelow
            <4>. QED
                BY <3>4, <3>5, <4>3
        <3>7. {c \in DOMAIN g : g[c] = <<c, c>>} \subseteq EventsIn(w)
            <4>. HIDE DEF g, id
            <4>. QED
                BY <1>1, <3>3, <3>4 DEF EventsIn
        <3>8. f = g /\ filled.rows = (IF visible THEN <<id>> \o w.rows ELSE w.rows)
            <4>. HIDE DEF filled, g, visible, id
            <4>. QED
                BY <3>1
        <3>9. /\ filled = [head |-> h, tail |-> t, uuids |-> f, rows |-> filled.rows]
              /\ filled.rows \in Seq(Ids)
            <4>. HIDE DEF filled, g, visible, id
            <4>1. <<id>> \in Seq(Ids) /\ w.rows \in Seq(Ids)
                BY <1>1, <3>3
            <4>2. <<id>> \o w.rows \in Seq(Ids)
                BY <4>1
            <4>. QED
                BY <3>1, <3>8, <4>1, <4>2
        <3>10. high = e + 1 /\ high \in Nat /\ e < high
            BY <1>1, <2>2, <3>2
        <3>11. RowsTidy(g, filled.rows)
            <4>. HIDE DEF filled, g, visible, id
            <4>. QED
                BY <3>6, <3>8
        <3>12. filled.rows = w.rows \/ \E x \in Ids : filled.rows = <<x>> \o w.rows
            <4>. HIDE DEF filled, g, visible, id
            <4>. QED
                BY <3>3, <3>8
        <3>. HIDE DEF filled, g, visible, id, high
        <3>. QED
            BY <3>3, <3>4, <3>7, <3>8, <3>9, <3>10, <3>11, <3>12
    <2>. QED
        BY <2>1, <2>2
<1>3. /\ RecordsTidy(added, e, t)
      /\ e \notin DOMAIN f /\ DOMAIN added = DOMAIN f \cup {e} /\ added[e] = <<e, e>>
      /\ \A c \in DOMAIN f : e < c /\ added[c] = f[c] /\ f[c] # <<e, e>>
    <2>1. t \in Nat /\ high \in Nat /\ e < high /\ RecordsTidy(f, high, t)
        <3>. HIDE DEF filled, high
        <3>. QED
            BY <1>1, <1>2
    <2>. HIDE DEF f, t, high
    <2>2. added = Put(f, {e}, <<e, e>>)
        OBVIOUS
    <2>. HIDE DEF added
    <2>3. RecordsTidy(added, e, t) /\ \A c \in DOMAIN f : e < c /\ f[c] # <<e, e>>
        BY <2>1, <2>2, AddAtHead
    <2>4. DOMAIN added = DOMAIN f \cup {e} /\ added[e] = <<e, e>>
          /\ \A c \in DOMAIN f : c # e => added[c] = f[c]
        BY <2>2 DEF Put
    <2>. QED
        BY <2>3, <2>4
<1>4. PrependEvent(w, e) = [head |-> e, tail |-> t, uuids |-> added,
                            rows |-> Lines(e) \o filled.rows]
    <2>. DEFINE next == transformEvent(filled, e)
                opened == IF w.head # 0 /\ e # w.head - 1
                          THEN prependMissingEventGroup(w, e) ELSE w
    <2>1. opened = filled
        BY <1>1 DEF prependMissingEventGroup, Standing
    <2>2. PrependEvent(w, e) = IF next = filled THEN filled
                               ELSE [next EXCEPT !.rows = Lines(e) \o @]
        <3>1. PrependEvent(w, e) = IF transformEvent(opened, e) = opened THEN opened
                                   ELSE [transformEvent(opened, e) EXCEPT !.rows = Lines(e) \o @]
            BY DEF PrependEvent
        <3>. HIDE DEF opened, filled
        <3>. QED
            BY <2>1, <3>1
    <2>3. next = [head |-> e, tail |-> t, uuids |-> added, rows |-> filled.rows]
        <3>1. EventRecord(e) \notin Range(f)
            <4>. HIDE DEF filled
            <4>. QED
                BY <1>3 DEF EventRecord, Range
        <3>2. filled.head = h /\ filled.tail = t
            <4>. HIDE DEF filled
            <4>. QED
                BY <1>2
        <3>3. Mapped(filled, {e}, EventRecord(e)) = added
            BY DEF Mapped, EventRecord, Put
        <3>4. (IF filled.head = 0 \/ e < filled.head THEN e ELSE filled.head) = e
            BY <1>1, <3>2
        <3>5. (IF filled.tail = 0 \/ e > filled.tail THEN e ELSE filled.tail) = t
            BY <1>1, <3>2
        <3>. HIDE DEF filled, added
        <3>. QED
            BY <1>2, <3>1, <3>3, <3>4, <3>5 DEF transformEvent
    <2>4. next # filled
        <3>1. next.head = e /\ filled.head = h
            <4>. HIDE DEF filled, added, next
            <4>. QED
                BY <1>2, <2>3
        <3>. HIDE DEF filled, next
        <3>. QED
            BY <1>1, <3>1
    <2>. HIDE DEF filled, added, next
    <2>. QED
        BY <2>2, <2>3, <2>4
<1>5. RowsTidy(added, Lines(e) \o filled.rows) /\ Lines(e) \o filled.rows \in Seq(Ids)
    <2>1. DOMAIN added \subseteq Nat /\ <<e, e>> \in Ids
        <3>. HIDE DEF filled, added
        <3>. QED
            BY <1>2, <1>3 DEF Ids
    <2>2. RowsTidy(added, filled.rows) /\ RowsTidy(added, <<<<e, e>>>> \o filled.rows)
        <3>1. \A c \in DOMAIN added \ DOMAIN f : added[c] = <<e, e>> /\ \A d \in DOMAIN f : c < d
            <4>. HIDE DEF filled, added
            <4>. QED
                BY <1>3
        <3>2. (\A d \in DOMAIN f : f[d] # <<e, e>>) /\ DOMAIN added # DOMAIN f
              /\ DOMAIN f \subseteq DOMAIN added /\ \A c \in DOMAIN f : added[c] = f[c]
            <4>. HIDE DEF filled, added
            <4>. QED
                BY <1>3
        <3>. HIDE DEF filled, added
        <3>. QED
            BY <1>2, <2>1, <3>1, <3>2, RowsBelow
    <2>3. \/ Lines(e) \o filled.rows = filled.rows
          \/ Lines(e) \o filled.rows = <<<<e, e>>>> \o filled.rows
        <3>. HIDE DEF filled
        <3>. QED
            BY <1>2 DEF Lines, EventRecord
    <2>4. filled.rows \in Seq(Ids) /\ <<<<e, e>>>> \o filled.rows \in Seq(Ids)
        <3>. HIDE DEF filled
        <3>1. <<<<e, e>>>> \in Seq(Ids) /\ filled.rows \in Seq(Ids)
            BY <1>2, <2>1
        <3>. QED
            BY <3>1
    <2>. HIDE DEF filled, added
    <2>. QED
        BY <2>2, <2>3, <2>4
<1>. DEFINE v == PrependEvent(w, e)
<1>6. /\ v = [head |-> e, tail |-> t, uuids |-> added, rows |-> v.rows]
      /\ v.rows = Lines(e) \o filled.rows
    <2>. HIDE DEF filled, added
    <2>. QED
        BY <1>4
<1>7. Tidy(v)
    <2>1. added \in [DOMAIN added -> Ids] /\ DOMAIN added \in SUBSET Nat
        <3>. HIDE DEF filled
        <3>1. \A c \in DOMAIN added : added[c] \in Ids
            <4>. HIDE DEF added
            <4>. QED
                BY <1>3 DEF RecordsTidy
        <3>2. added = [c \in DOMAIN added |-> added[c]]
            BY DEF Put
        <3>. HIDE DEF added
        <3>. QED
            BY <1>2, <1>3, <3>1, <3>2
    <2>2. RecordsTidy(added, e, t)
        BY <1>3
    <2>. HIDE DEF filled, added, v
    <2>3. v \in Windows
        <3>1. added \in UNION {[T -> Ids] : T \in SUBSET Nat}
            BY <2>1
        <3>2. [head |-> e, tail |-> t, uuids |-> added, rows |-> v.rows] \in Windows
            BY <1>1, <1>5, <1>6, <2>1, <3>1 DEF Windows
        <3>. QED
            BY <1>6, <3>2, Zenon
    <2>. QED
        BY <1>5, <1>6, <2>2, <2>3 DEF Tidy
<1>8. EventsIn(v) \subseteq EventsIn(w) \cup {e}
    <2>. HIDE DEF filled, added, v
    <2>1. v.uuids = added
        BY <1>6
    <2>2. EventsIn(v) = {c \in DOMAIN added : added[c] = <<c, c>>}
        BY <2>1 DEF EventsIn
    <2>3. \A c \in DOMAIN added : c = e \/ (c \in DOMAIN f /\ added[c] = f[c])
        BY <1>3
    <2>. QED
        BY <1>2, <2>2, <2>3
<1>9. Shows(v, w, {e})
    <2>1. filled.rows = w.rows \/ \E id \in Ids : filled.rows = <<id>> \o w.rows
        <3>. HIDE DEF filled
        <3>. QED
            BY <1>2
    <2>2. filled.rows \in Seq(Ids) /\ w.rows \in Seq(Ids)
        <3>. HIDE DEF filled
        <3>. QED
            BY <1>1, <1>2
    <2>3. v.rows = Lines(e) \o filled.rows
        BY <1>6
    <2>. HIDE DEF filled, v
    <2>4. Range(w.rows) \subseteq Range(filled.rows)
        <3>1. ASSUME NEW id \in Ids
              PROVE  Range(w.rows) \subseteq Range(<<id>> \o w.rows)
            <4>1. <<id>> \in Seq(Ids)
                OBVIOUS
            <4>. QED
                BY <2>2, <4>1, MoreRows
        <3>. QED
            BY <2>1, <3>1
    <2>5. Range(filled.rows) \subseteq Range(v.rows) /\ Range(Lines(e)) \subseteq Range(v.rows)
        BY <2>2, <2>3, LineOf, MoreRows
    <2>. QED
        BY <2>4, <2>5, LineOf DEF Shows
<1>. QED
    <2>. HIDE DEF filled, added, v
    <2>1. v.head = e /\ v.tail = t
        BY <1>6
    <2>. QED
        BY <1>7, <1>8, <1>9, <2>1 DEF Grown, v

(* An empty window gets its first event either way.                        *)
LEMMA EmptyWindow ==
    ASSUME NEW w, Tidy(w), w.head = 0
    PROVE  w.tail = 0 /\ DOMAIN w.uuids = {} /\ w.rows = <<>>
<1>1. RecordsTidy(w.uuids, w.head, w.tail) /\ RowsTidy(w.uuids, w.rows) /\ w.rows \in Seq(Ids)
    BY DEF Tidy, Windows
<1>2. w.tail = 0 /\ DOMAIN w.uuids = {}
    BY <1>1 DEF RecordsTidy
<1>3. DOMAIN w.rows = {}
    BY <1>1, <1>2 DEF RowsTidy
<1>4. Len(w.rows) = 0
    <2>1. Len(w.rows) \in Nat /\ DOMAIN w.rows = 1 .. Len(w.rows)
        BY <1>1, LenProperties, Zenon
    <2>2. 1 \notin 1 .. Len(w.rows)
        BY <1>3, <2>1, Zenon
    <2>. QED
        BY <2>1, <2>2
<1>5. w.rows = <<>>
    BY <1>1, <1>4, EmptySeq
<1>. QED
    BY <1>2, <1>5

LEMMA FirstEvent ==
    ASSUME NEW w, Tidy(w), w.head = 0, NEW e \in Nat \ {0}
    PROVE  Grown(PrependEvent(w, e), w, e, e, e)
<1>1. w.tail = 0 /\ w.rows = <<>>
    BY EmptyWindow
<1>2. Grown(AppendEvent(w, e), w, e, e, e)
    BY <1>1, AppendKeepsTidy
<1>3. PrependEvent(w, e) = AppendEvent(w, e)
    <2>. DEFINE next == transformEvent(w, e)
    <2>1. next.rows = w.rows
        <3>1. w = [head |-> w.head, tail |-> w.tail, uuids |-> w.uuids, rows |-> w.rows]
            BY DEF Tidy, Windows
        <3>. QED
            BY <3>1 DEF transformEvent
    <2>2. <<>> \o Lines(e) = Lines(e) \o <<>>
        BY LineOf
    <2>3. /\ PrependEvent(w, e) = IF next = w THEN w ELSE [next EXCEPT !.rows = Lines(e) \o @]
          /\ AppendEvent(w, e) = IF next = w THEN w ELSE [next EXCEPT !.rows = @ \o Lines(e)]
        BY <1>1 DEF PrependEvent, AppendEvent
    <2>. HIDE DEF next
    <2>. QED
        BY <1>1, <2>1, <2>2, <2>3
<1>. QED
    BY <1>2, <1>3

(* The records of counters in an interval are no more than the counters.   *)
LEMMA FewRecords ==
    ASSUME NEW E, NEW lo \in Int, NEW hi \in Int, lo <= hi + 1, NEW u,
           \A id \in E : \E c \in lo .. hi : u[c] = id
    PROVE  /\ IsFiniteSet(E) /\ Cardinality(E) \in Nat
           /\ Cardinality(E) <= hi - lo + 1
<1>. DEFINE f == [id \in E |-> CHOOSE c \in lo .. hi : u[c] = id]
<1>1. \A id \in E : f[id] \in lo .. hi /\ u[f[id]] = id
    OBVIOUS
<1>2. f \in Injection(E, lo .. hi)
    <2>1. f \in [E -> lo .. hi]
        BY <1>1
    <2>. HIDE DEF f
    <2>. QED
        BY <1>1, <2>1 DEF Injection, IsInjective
<1>3. IsFiniteSet(lo .. hi) /\ Cardinality(lo .. hi) = hi - lo + 1
    BY FS_Interval
<1>. HIDE DEF f
<1>4. IsFiniteSet(E) /\ Cardinality(E) <= Cardinality(lo .. hi)
    BY <1>2, <1>3, FS_Injection
<1>. QED
    BY <1>3, <1>4, FS_CardinalityType

(* No record has two rows.                                                 *)
LEMMA FewRows ==
    ASSUME NEW u, DOMAIN u \subseteq Nat, NEW rows \in Seq(Ids), RowsTidy(u, rows),
           NEW E, IsFiniteSet(E), NEW i \in Nat, NEW j \in Nat, i <= j + 1,
           i .. j \subseteq DOMAIN rows, \A k \in i .. j : rows[k] \in E
    PROVE  j - i + 1 <= Cardinality(E)
<1>. DEFINE f == [k \in i .. j |-> rows[k]]
<1>1. \A k, l \in i .. j : k < l => rows[k] # rows[l]
    <2>. SUFFICES ASSUME NEW k \in i .. j, NEW l \in i .. j, k < l, rows[k] = rows[l]
                  PROVE  FALSE
        OBVIOUS
    <2>1. k \in DOMAIN rows /\ l \in DOMAIN rows
        OBVIOUS
    <2>2. PICK c \in DOMAIN u : u[c] = rows[k]
        BY <2>1 DEF RowsTidy
    <2>3. c < c
        BY <2>1, <2>2 DEF RowsTidy
    <2>. QED
        BY <2>2, <2>3
<1>2. f \in Injection(i .. j, E)
    <2>1. f \in [i .. j -> E]
        OBVIOUS
    <2>2. \A k, l \in i .. j : f[k] = f[l] => k = l
        BY <1>1
    <2>. HIDE DEF f
    <2>. QED
        BY <2>1, <2>2 DEF Injection, IsInjective
<1>3. Cardinality(i .. j) <= Cardinality(E)
    <2>. HIDE DEF f
    <2>. QED
        BY <1>2, FS_Injection
<1>4. Cardinality(i .. j) = IF i > j THEN 0 ELSE j - i + 1
    BY FS_Interval
<1>5. j - i + 1 = Cardinality(i .. j)
    BY <1>4
<1>. QED
    BY <1>3, <1>5

(* Counters are taken away; the rows that stay are a run of the rows.      *)
Run(u, rows, v, kept, n) ==
    /\ DOMAIN u \subseteq Nat /\ RowsTidy(u, rows)
    /\ DOMAIN v \subseteq DOMAIN u /\ \A c \in DOMAIN v : v[c] = u[c]
    /\ kept \in Seq(Ids) /\ n \in Nat
    /\ \A i \in DOMAIN kept : i + n \in DOMAIN rows /\ kept[i] = rows[i + n]
    /\ \A i \in DOMAIN kept : \E c \in DOMAIN v : u[c] = rows[i + n]

LEMMA RowsKept ==
    ASSUME NEW u, NEW rows, NEW v, NEW kept, NEW n, Run(u, rows, v, kept, n)
    PROVE  RowsTidy(v, kept)
<1>1. /\ DOMAIN kept \subseteq Nat /\ n \in Nat /\ DOMAIN u \subseteq Nat
      /\ DOMAIN v \subseteq DOMAIN u /\ RowsTidy(u, rows)
      /\ \A c \in DOMAIN v : v[c] = u[c]
      /\ \A i \in DOMAIN kept : i + n \in DOMAIN rows /\ kept[i] = rows[i + n]
    BY DEF Run
<1>2. \A i \in DOMAIN kept : \E c \in DOMAIN v : v[c] = kept[i]
    BY DEF Run
<1>3. ASSUME NEW i \in DOMAIN kept, NEW j \in DOMAIN kept, i < j,
             NEW c \in DOMAIN v, NEW d \in DOMAIN v, v[c] = kept[i], v[d] = kept[j]
      PROVE  c < d
    <2>1. i + n < j + n /\ u[c] = rows[i + n] /\ u[d] = rows[j + n]
        BY <1>1, <1>3
    <2>. QED
        BY <1>1, <1>3, <2>1 DEF RowsTidy
<1>. QED
    BY <1>2, <1>3 DEF RowsTidy

(* The records that are left without counters, and those that stay.        *)
Split(u, popped, v, E) ==
    /\ DOMAIN v = DOMAIN u \ popped
    /\ \A c \in DOMAIN v : v[c] = u[c]
    /\ v \in UNION {[T -> Ids] : T \in SUBSET Nat}
    /\ \A id \in E : \E c \in DOMAIN u \cap popped : u[c] = id
    /\ \A c \in DOMAIN v : u[c] \notin E
    /\ \A c \in DOMAIN u : u[c] \notin E => \E d \in DOMAIN v : u[d] = u[c]

LEMMA Emptying ==
    ASSUME NEW w \in Windows, NEW popped
    PROVE  Split(w.uuids, popped, Unmapped(w, popped), Emptied(w, popped))
<1>. DEFINE u == w.uuids
            v == Unmapped(w, popped)
            E == Emptied(w, popped)
<1>1. PICK T \in SUBSET Nat : u \in [T -> Ids]
    BY DEF Windows
<1>2. v = [c \in DOMAIN u \ popped |-> u[c]]
    BY DEF Unmapped, Restrict
<1>3. E = {id \in {u[c] : c \in DOMAIN u} : \A c \in DOMAIN u : u[c] = id => c \in popped}
    BY DEF Emptied, Range
<1>. HIDE DEF u, v, E
<1>4. v \in [DOMAIN u \ popped -> Ids] /\ DOMAIN u \ popped \in SUBSET Nat
    BY <1>1, <1>2
<1>5. v \in UNION {[S -> Ids] : S \in SUBSET Nat}
    BY <1>4
<1>6. \A id \in E : \E c \in DOMAIN u \cap popped : u[c] = id
    BY <1>3
<1>7. \A c \in DOMAIN v : u[c] \notin E
    BY <1>2, <1>3
<1>8. \A c \in DOMAIN u : u[c] \notin E => \E d \in DOMAIN v : u[d] = u[c]
    BY <1>2, <1>3
<1>. QED
    BY <1>2, <1>5, <1>6, <1>7, <1>8 DEF u, v, E, Split

(* What is left after popping, and what no longer has a record.            *)
Shrunk(v, w, popped) ==
    Tidy(v) /\ EventsIn(v) \subseteq EventsIn(w) \ popped

LEMMA PopBackKeepsTidy ==
    ASSUME NEW w, Tidy(w), NEW count \in Int
    PROVE  /\ Shrunk(popBack(w, count), w, IF count <= 0 THEN {} ELSE w.head .. w.head + count)
           /\ popBack(w, count).tail = w.tail
<1>1. CASE count <= 0
    BY <1>1 DEF popBack, Shrunk
<1>2. CASE count > 0
    <2>. DEFINE u == w.uuids
                h == w.head
                t == w.tail
                popped == h .. h + count
                E == Emptied(w, popped)
                n == Cardinality(E)
                v == Unmapped(w, popped)
                rows == DropFirst(w.rows, n)
    <2>1. /\ w \in Windows /\ h \in Nat /\ t \in Nat /\ w.rows \in Seq(Ids)
          /\ DOMAIN u \subseteq Nat /\ RecordsTidy(u, h, t) /\ RowsTidy(u, w.rows)
          /\ h <= t + 1
        BY DEF Tidy, Windows, RecordsTidy
    <2>2. /\ DOMAIN v = DOMAIN u \ popped
          /\ \A c \in DOMAIN v : v[c] = u[c]
          /\ v \in UNION {[T -> Ids] : T \in SUBSET Nat}
          /\ \A id \in E : \E c \in DOMAIN u \cap popped : u[c] = id
          /\ \A c \in DOMAIN v : u[c] \notin E
          /\ \A c \in DOMAIN u : u[c] \notin E => \E d \in DOMAIN v : u[d] = u[c]
        <3>1. Split(u, popped, v, E)
            BY <2>1, Emptying
        <3>. HIDE DEF u, v, E, popped
        <3>. QED
            BY <3>1 DEF Split
    <2>3. popBack(w, count) = [head |-> h + n, tail |-> t, uuids |-> v, rows |-> rows]
        <3>1. popBack(w, count) = [w EXCEPT !.head = @ + n, !.uuids = v,
                                            !.rows = DropFirst(@, n)]
            <4>1. ~(count <= 0)
                BY <1>2
            <4>. QED
                BY <4>1 DEF popBack
        <3>2. w = [head |-> h, tail |-> t, uuids |-> u, rows |-> w.rows]
            BY <2>1 DEF Windows
        <3>. HIDE DEF n, v
        <3>. QED
            BY <3>1, <3>2
    <2>. HIDE DEF E, v
    <2>4. /\ \A c \in DOMAIN u : /\ h <= c /\ c <= t /\ u[c] \in Ids
                                 /\ h - 1 <= u[c][1] /\ u[c][2] <= t + 1
                                 /\ (u[c] = <<c, c>> \/ u[c][1] < u[c][2])
          /\ \A c \in DOMAIN u : c # 0
          /\ h = 0 => t = 0
        BY <2>1 DEF RecordsTidy
    <2>5. IsFiniteSet(E) /\ n \in Nat /\ n <= t - h + 1 /\ n <= count + 1
        <3>1. \A id \in E : \E c \in h .. t : u[c] = id
            BY <2>1, <2>2, <2>4
        <3>2. \A id \in E : \E c \in h .. h + count : u[c] = id
            BY <2>2
        <3>3. IsFiniteSet(E) /\ n \in Nat /\ n <= t - h + 1
            <4>1. h \in Int /\ t \in Int /\ h <= t + 1
                BY <2>1
            <4>. HIDE DEF u, h, t
            <4>. QED
                BY <3>1, <4>1, FewRecords
        <3>4. Cardinality(E) <= (h + count) - h + 1
            <4>1. h \in Int /\ h + count \in Int /\ h <= (h + count) + 1
                BY <1>2, <2>1
            <4>. HIDE DEF u, h
            <4>. QED
                BY <3>2, <4>1, FewRecords
        <3>. QED
            BY <2>1, <3>3, <3>4
    <2>6. h + n = 0 => t = 0
        BY <2>1, <2>4, <2>5
    <2>7. \A c \in DOMAIN v : h + count < c /\ c \in DOMAIN u
        BY <2>1, <2>2, <2>4
    <2>8. DOMAIN v \subseteq (h + n .. t) \ {0}
        BY <2>1, <2>4, <2>5, <2>7
    <2>9. ASSUME NEW c \in DOMAIN v PROVE (h + n) - 1 <= u[c][1]
        <3>1. u[c][1] \in Nat /\ h - 1 <= u[c][1] /\ c \in DOMAIN u
            BY <2>4, <2>7 DEF Ids
        <3>2. ASSUME NEW id \in E PROVE \E d \in h .. u[c][1] : u[d] = id
            <4>1. PICK d \in DOMAIN u \cap popped : u[d] = id
                BY <2>2
            <4>2. d < c /\ u[d] # u[c] /\ h <= d
                <5>1. u[d] # u[c]
                    BY <2>2, <4>1
                <5>2. d < c /\ h <= d
                    BY <2>1, <2>4, <2>7
                <5>. QED
                    BY <5>1, <5>2
            <4>3. d <= u[c][1]
                <5>1. \A x, y \in DOMAIN u : (x < y /\ u[x] # u[y]) => x <= u[y][1]
                    BY <2>1 DEF RecordsTidy
                <5>. QED
                    BY <2>7, <4>1, <4>2, <5>1
            <4>. QED
                BY <2>1, <3>1, <4>1, <4>2, <4>3
        <3>3. Cardinality(E) <= u[c][1] - h + 1
            <4>1. h \in Int /\ u[c][1] \in Int /\ h <= u[c][1] + 1
                BY <2>1, <3>1
            <4>. DEFINE b == u[c][1]
            <4>2. b \in Int /\ h <= b + 1 /\ \A id \in E : \E d \in h .. b : u[d] = id
                BY <3>2, <4>1
            <4>. HIDE DEF u, h, b
            <4>3. Cardinality(E) <= b - h + 1
                BY <4>1, <4>2, FewRecords
            <4>. QED
                BY <4>3 DEF b
        <3>. QED
            BY <2>1, <2>5, <3>1, <3>3
    <2>10. RecordsTidy(v, h + n, t)
        <3>1. h + n <= t + 1
            BY <2>1, <2>5
        <3>2. \A c \in DOMAIN v : /\ v[c] \in Ids /\ (h + n) - 1 <= v[c][1] /\ v[c][2] <= t + 1
                                  /\ v[c] = <<c, c>> \/ v[c][1] < v[c][2]
            BY <2>2, <2>4, <2>7, <2>9
        <3>3. \A c, d \in DOMAIN v : (c < d /\ v[c] # v[d]) =>
                  v[c][2] <= d /\ c <= v[d][1] /\ v[c][2] <= v[d][1]
            <4>1. \A c, d \in DOMAIN u : (c < d /\ u[c] # u[d]) =>
                      u[c][2] <= d /\ c <= u[d][1] /\ u[c][2] <= u[d][1]
                BY <2>1 DEF RecordsTidy
            <4>2. \A c \in DOMAIN v : c \in DOMAIN u /\ v[c] = u[c]
                BY <2>2
            <4>. HIDE DEF u
            <4>. QED
                BY <4>1, <4>2
        <3>. DEFINE h2 == h + n
        <3>. HIDE DEF n
        <3>4. h2 <= t + 1 /\ (h2 = 0 => t = 0)
            BY <2>6, <3>1
        <3>5. DOMAIN v \subseteq (h2 .. t) \ {0}
            BY <2>8
        <3>6. \A c \in DOMAIN v : /\ v[c] \in Ids /\ h2 - 1 <= v[c][1] /\ v[c][2] <= t + 1
                                  /\ v[c] = <<c, c>> \/ v[c][1] < v[c][2]
            <4>. HIDE DEF t, h
            <4>. QED
                BY <3>2, Zenon
        <3>. HIDE DEF h2
        <3>7. RecordsTidy(v, h2, t)
            BY <3>3, <3>4, <3>5, <3>6, Zenon DEF RecordsTidy
        <3>. QED
            BY <3>7 DEF h2
    <2>11. RowsTidy(v, rows) /\ rows \in Seq(Ids)
        <3>. HIDE DEF n, h
        <3>1. /\ rows \in Seq(Ids)
              /\ \A i \in DOMAIN rows : i + n \in DOMAIN w.rows /\ rows[i] = w.rows[i + n]
                                        /\ i \in Nat /\ i > 0
            <4>1. \A i \in n + 1 .. Len(w.rows) : w.rows[i] \in Ids
                BY <2>1, <2>5
            <4>2. Len(w.rows) \in Nat /\ DOMAIN w.rows = 1 .. Len(w.rows)
                BY <2>1
            <4>3. rows = SubSeq(w.rows, n + 1, Len(w.rows))
                BY DEF DropFirst
            <4>4. /\ rows \in Seq(Ids)
                  /\ Len(rows) = IF n + 1 <= Len(w.rows) THEN Len(w.rows) - (n + 1) + 1 ELSE 0
                  /\ \A i \in 1 .. Len(w.rows) - (n + 1) + 1 : rows[i] = w.rows[n + 1 + i - 1]
                BY <2>5, <4>1, <4>2, <4>3, SubSeqProperties
            <4>. HIDE DEF rows
            <4>5. DOMAIN rows = 1 .. Len(rows)
                BY <4>4
            <4>. QED
                BY <2>5, <4>2, <4>4, <4>5
        <3>. HIDE DEF rows
        <3>2. ASSUME NEW i \in DOMAIN rows PROVE \E c \in DOMAIN v : u[c] = w.rows[i + n]
            <4>1. PICK c \in DOMAIN u : u[c] = w.rows[i + n]
                BY <2>1, <3>1 DEF RowsTidy
            <4>2. u[c] \notin E
                <5>. SUFFICES ASSUME u[c] \in E PROVE FALSE
                    OBVIOUS
                <5>1. ASSUME NEW k \in 1 .. i + n PROVE w.rows[k] \in E
                    <6>1. k \in DOMAIN w.rows
                        BY <2>1, <2>5, <3>1
                    <6>2. CASE k = i + n
                        BY <4>1, <6>2
                    <6>3. CASE k < i + n
                        <7>1. PICK d \in DOMAIN u : u[d] = w.rows[k]
                            BY <2>1, <6>1 DEF RowsTidy
                        <7>2. u[d] \in E
                            <8>1. \A x \in DOMAIN u : u[x] = u[d] => x < c
                                BY <2>1, <3>1, <4>1, <6>1, <6>3, <7>1 DEF RowsTidy
                            <8>2. c \in popped
                                BY <2>2, <4>1
                            <8>3. \A x \in DOMAIN v : u[x] # u[d]
                                BY <2>1, <2>7, <8>1, <8>2 DEF h
                            <8>. QED
                                BY <2>2, <8>3
                        <7>. QED
                            BY <7>1, <7>2
                    <6>4. k = i + n \/ k < i + n
                        <7>1. i + n \in Int
                            BY <2>5, <3>1
                        <7>. QED
                            BY <7>1
                    <6>. QED
                        BY <6>2, <6>3, <6>4
                <5>2. 1 .. i + n \subseteq DOMAIN w.rows /\ i + n \in Nat
                    BY <2>1, <2>5, <3>1
                <5>. DEFINE m == i + n
                <5>3. m - 1 + 1 <= Cardinality(E)
                    <6>1. m \in Nat /\ 1 <= m + 1 /\ 1 .. m \subseteq DOMAIN w.rows
                          /\ \A k \in 1 .. m : w.rows[k] \in E
                        BY <5>1, <5>2
                    <6>. HIDE DEF m, u
                    <6>. QED
                        BY <2>1, <2>5, <6>1, FewRows
                <5>. QED
                    BY <2>5, <3>1, <5>3 DEF n
            <4>. QED
                BY <2>2, <4>1, <4>2
        <3>3. DOMAIN v \subseteq DOMAIN u
            BY <2>2
        <3>4. \A i \in DOMAIN rows : i + n \in DOMAIN w.rows /\ rows[i] = w.rows[i + n]
            BY <3>1
        <3>5. \A i \in DOMAIN rows : \E c \in DOMAIN v : u[c] = w.rows[i + n]
            BY <3>2
        <3>6. \A c \in DOMAIN v : v[c] = u[c]
            BY <2>2
        <3>7. RowsTidy(v, rows)
            <4>1. Run(u, w.rows, v, rows, n)
                BY <2>1, <2>5, <3>1, <3>3, <3>4, <3>5, <3>6 DEF Run
            <4>. QED
                BY <4>1, RowsKept
        <3>. QED
            BY <3>1, <3>7
    <2>. DEFINE p == popBack(w, count)
    <2>12. p.head = h + n /\ p.tail = t /\ p.uuids = v /\ p.rows = rows
        <3>. HIDE DEF n, rows
        <3>. QED
            BY <2>3
    <2>13. Tidy(p)
        <3>1. p \in Windows
            <4>1. h + n \in Nat
                BY <2>1, <2>5
            <4>2. v \in UNION {[T -> Ids] : T \in SUBSET Nat}
                BY <2>2
            <4>. HIDE DEF n, rows
            <4>3. [head |-> h + n, tail |-> t, uuids |-> v, rows |-> rows] \in Windows
                BY <2>1, <2>11, <4>1, <4>2 DEF Windows
            <4>. QED
                BY <2>3, <4>3, Zenon
        <3>. HIDE DEF n, rows, p
        <3>. QED
            BY <2>10, <2>11, <2>12, <3>1 DEF Tidy
    <2>14. EventsIn(p) \subseteq EventsIn(w) \ popped
        <3>. HIDE DEF p
        <3>. QED
            BY <2>2, <2>12 DEF EventsIn
    <2>. QED
        BY <1>2, <2>12, <2>13, <2>14 DEF Shrunk
<1>. QED
    BY <1>1, <1>2

LEMMA PopFrontKeepsTidy ==
    ASSUME NEW w, Tidy(w), NEW count \in Int
    PROVE  /\ Shrunk(popFront(w, count), w, IF count <= 0 THEN {} ELSE w.tail - count .. w.tail)
           /\ popFront(w, count).head = w.head
           /\ popFront(w, count).tail <= w.tail
           /\ w.tail - (IF count <= 0 THEN 0 ELSE count + 1) <= popFront(w, count).tail
<1>1. CASE count <= 0
    <2>1. w.tail \in Nat
        BY DEF Tidy, Windows
    <2>. QED
        BY <1>1, <2>1 DEF popFront, Shrunk
<1>2. CASE count > 0
    <2>. DEFINE u == w.uuids
                h == w.head
                t == w.tail
                popped == t - count .. t
                E == Emptied(w, popped)
                n == Cardinality(E)
                v == Unmapped(w, popped)
                rows == DropLast(w.rows, n)
    <2>1. /\ w \in Windows /\ h \in Nat /\ t \in Nat /\ w.rows \in Seq(Ids)
          /\ DOMAIN u \subseteq Nat /\ RecordsTidy(u, h, t) /\ RowsTidy(u, w.rows)
          /\ h <= t + 1
        BY DEF Tidy, Windows, RecordsTidy
    <2>2. /\ DOMAIN v = DOMAIN u \ popped
          /\ \A c \in DOMAIN v : v[c] = u[c]
          /\ v \in UNION {[T -> Ids] : T \in SUBSET Nat}
          /\ \A id \in E : \E c \in DOMAIN u \cap popped : u[c] = id
          /\ \A c \in DOMAIN v : u[c] \notin E
          /\ \A c \in DOMAIN u : u[c] \notin E => \E d \in DOMAIN v : u[d] = u[c]
        <3>1. Split(u, popped, v, E)
            BY <2>1, Emptying
        <3>. HIDE DEF u, v, E, popped
        <3>. QED
            BY <3>1 DEF Split
    <2>3. popFront(w, count) = [head |-> h, tail |-> t - n, uuids |-> v, rows |-> rows]
        <3>1. popFront(w, count) = [w EXCEPT !.tail = @ - n, !.uuids = v,
                                             !.rows = DropLast(@, n)]
            <4>1. ~(count <= 0)
                BY <1>2
            <4>. QED
                BY <4>1 DEF popFront
        <3>2. w = [head |-> h, tail |-> t, uuids |-> u, rows |-> w.rows]
            BY <2>1 DEF Windows
        <3>. HIDE DEF n, v
        <3>. QED
            BY <3>1, <3>2
    <2>. HIDE DEF E, v
    <2>4. /\ \A c \in DOMAIN u : /\ h <= c /\ c <= t /\ u[c] \in Ids
                                 /\ h - 1 <= u[c][1] /\ u[c][2] <= t + 1
                                 /\ (u[c] = <<c, c>> \/ u[c][1] < u[c][2])
          /\ \A c \in DOMAIN u : c # 0
          /\ h = 0 => t = 0
        BY <2>1 DEF RecordsTidy
    <2>5. IsFiniteSet(E) /\ n \in Nat /\ n <= t - h + 1 /\ n <= count + 1
        <3>1. \A id \in E : \E c \in h .. t : u[c] = id
            BY <2>1, <2>2, <2>4
        <3>2. \A id \in E : \E c \in t - count .. t : u[c] = id
            BY <2>2
        <3>3. IsFiniteSet(E) /\ n \in Nat /\ n <= t - h + 1
            <4>1. h \in Int /\ t \in Int /\ h <= t + 1
                BY <2>1
            <4>. HIDE DEF u, h, t
            <4>. QED
                BY <3>1, <4>1, FewRecords
        <3>4. Cardinality(E) <= t - (t - count) + 1
            <4>1. t \in Int /\ t - count \in Int /\ t - count <= t + 1
                BY <1>2, <2>1
            <4>. HIDE DEF u, t
            <4>. QED
                BY <3>2, <4>1, FewRecords
        <3>. QED
            BY <2>1, <3>3, <3>4
    <2>6. /\ h = 0 => n = 0
          /\ t - n \in Nat /\ (h = 0 => t - n = 0) /\ h <= (t - n) + 1
        <3>1. ASSUME h = 0 PROVE n = 0
            <4>1. DOMAIN u = {}
                BY <2>1, <2>4, <3>1
            <4>2. E = {}
                BY <2>2, <4>1
            <4>. QED
                BY <4>2, FS_EmptySet
        <3>. HIDE DEF n
        <3>. QED
            BY <2>1, <2>4, <2>5, <3>1
    <2>7. \A c \in DOMAIN v : c < t - count /\ c \in DOMAIN u
        BY <2>1, <2>2, <2>4
    <2>8. DOMAIN v \subseteq (h .. t - n) \ {0}
        BY <2>1, <2>4, <2>5, <2>7
    <2>9. ASSUME NEW c \in DOMAIN v PROVE u[c][2] <= (t - n) + 1
        <3>1. u[c][2] \in Nat /\ u[c][2] <= t + 1 /\ c \in DOMAIN u
            BY <2>4, <2>7 DEF Ids
        <3>2. ASSUME NEW id \in E PROVE \E d \in u[c][2] .. t : u[d] = id
            <4>1. PICK d \in DOMAIN u \cap popped : u[d] = id
                BY <2>2
            <4>2. c < d /\ u[d] # u[c] /\ d <= t
                <5>1. u[d] # u[c]
                    BY <2>2, <4>1
                <5>2. c < d /\ d <= t
                    BY <2>1, <2>4, <2>7
                <5>. QED
                    BY <5>1, <5>2
            <4>3. u[c][2] <= d
                <5>1. \A x, y \in DOMAIN u : (x < y /\ u[x] # u[y]) => u[x][2] <= y
                    BY <2>1 DEF RecordsTidy
                <5>. QED
                    BY <2>7, <4>1, <4>2, <5>1
            <4>. QED
                BY <2>1, <3>1, <4>1, <4>2, <4>3
        <3>3. Cardinality(E) <= t - u[c][2] + 1
            <4>1. t \in Int /\ u[c][2] \in Int /\ u[c][2] <= t + 1
                BY <2>1, <3>1
            <4>. DEFINE b == u[c][2]
            <4>2. b \in Int /\ b <= t + 1 /\ \A id \in E : \E d \in b .. t : u[d] = id
                BY <3>2, <4>1
            <4>. HIDE DEF u, t, b
            <4>3. Cardinality(E) <= t - b + 1
                BY <4>1, <4>2, FewRecords
            <4>. QED
                BY <4>3 DEF b
        <3>4. n <= t - u[c][2] + 1 /\ n \in Int /\ t \in Int /\ u[c][2] \in Int
            BY <2>1, <2>5, <3>1, <3>3
        <3>. HIDE DEF n, t, u
        <3>. QED
            BY <3>4
    <2>10. RecordsTidy(v, h, t - n)
        <3>1. \A c \in DOMAIN v : /\ v[c] \in Ids /\ h - 1 <= v[c][1] /\ v[c][2] <= (t - n) + 1
                                  /\ v[c] = <<c, c>> \/ v[c][1] < v[c][2]
            BY <2>2, <2>4, <2>7, <2>9
        <3>2. \A c, d \in DOMAIN v : (c < d /\ v[c] # v[d]) =>
                  v[c][2] <= d /\ c <= v[d][1] /\ v[c][2] <= v[d][1]
            <4>1. \A c, d \in DOMAIN u : (c < d /\ u[c] # u[d]) =>
                      u[c][2] <= d /\ c <= u[d][1] /\ u[c][2] <= u[d][1]
                BY <2>1 DEF RecordsTidy
            <4>2. \A c \in DOMAIN v : c \in DOMAIN u /\ v[c] = u[c]
                BY <2>2
            <4>. HIDE DEF u
            <4>. QED
                BY <4>1, <4>2
        <3>. DEFINE t2 == t - n
        <3>. HIDE DEF n
        <3>3. h <= t2 + 1 /\ (h = 0 => t2 = 0)
            BY <2>6
        <3>4. DOMAIN v \subseteq (h .. t2) \ {0}
            BY <2>8
        <3>5. \A c \in DOMAIN v : /\ v[c] \in Ids /\ h - 1 <= v[c][1] /\ v[c][2] <= t2 + 1
                                  /\ v[c] = <<c, c>> \/ v[c][1] < v[c][2]
            BY <3>1
        <3>. HIDE DEF t2
        <3>6. RecordsTidy(v, h, t2)
            BY <3>2, <3>3, <3>4, <3>5, Zenon DEF RecordsTidy
        <3>. QED
            BY <3>6 DEF t2
    <2>11. RowsTidy(v, rows) /\ rows \in Seq(Ids)
        <3>. HIDE DEF n, t
        <3>1. /\ rows \in Seq(Ids)
              /\ \A i \in DOMAIN rows : i \in DOMAIN w.rows /\ rows[i] = w.rows[i]
                                        /\ i \in Nat /\ i > 0 /\ n # 0 /\ i <= Len(w.rows) - n
            <4>. DEFINE m == IF n = 0 THEN 0 ELSE Len(w.rows) - n
            <4>1. Len(w.rows) \in Nat /\ DOMAIN w.rows = 1 .. Len(w.rows) /\ m \in Int
                  /\ m <= Len(w.rows)
                BY <2>1, <2>5
            <4>2. \A i \in 1 .. m : w.rows[i] \in Ids
                BY <2>1, <4>1
            <4>3. rows = SubSeq(w.rows, 1, m)
                BY DEF DropLast
            <4>. HIDE DEF m
            <4>4. /\ rows \in Seq(Ids)
                  /\ Len(rows) = IF 1 <= m THEN m - 1 + 1 ELSE 0
                  /\ \A i \in 1 .. m - 1 + 1 : rows[i] = w.rows[1 + i - 1]
                BY <4>1, <4>2, <4>3, SubSeqProperties
            <4>. HIDE DEF rows
            <4>5. DOMAIN rows = 1 .. Len(rows)
                BY <4>4
            <4>6. \A i \in DOMAIN rows : i \in 1 .. m /\ rows[i] = w.rows[i]
                BY <4>1, <4>4, <4>5
            <4>. QED
                BY <2>5, <4>1, <4>4, <4>6 DEF m
        <3>. HIDE DEF rows
        <3>2. ASSUME NEW i \in DOMAIN rows PROVE \E c \in DOMAIN v : u[c] = w.rows[i]
            <4>. DEFINE z == Len(w.rows)
            <4>1. z \in Nat /\ DOMAIN w.rows = 1 .. z /\ i \in Nat /\ i > 0
                  /\ i <= z - n /\ i <= z + 1 /\ n > 0
                BY <2>1, <2>5, <3>1
            <4>2. PICK c \in DOMAIN u : u[c] = w.rows[i]
                BY <2>1, <3>1 DEF RowsTidy
            <4>3. u[c] \notin E
                <5>. SUFFICES ASSUME u[c] \in E PROVE FALSE
                    OBVIOUS
                <5>1. ASSUME NEW k \in i .. z PROVE w.rows[k] \in E
                    <6>1. k \in DOMAIN w.rows
                        BY <4>1
                    <6>2. CASE k = i
                        BY <4>2, <6>2
                    <6>3. CASE i < k
                        <7>1. PICK d \in DOMAIN u : u[d] = w.rows[k]
                            BY <2>1, <6>1 DEF RowsTidy
                        <7>2. u[d] \in E
                            <8>1. \A x \in DOMAIN u : u[x] = u[d] => c < x
                                BY <2>1, <3>1, <4>2, <6>1, <6>3, <7>1 DEF RowsTidy
                            <8>2. c \in popped
                                BY <2>2, <4>2
                            <8>3. \A x \in DOMAIN v : u[x] # u[d]
                                BY <2>1, <2>7, <8>1, <8>2 DEF t
                            <8>. QED
                                BY <2>2, <8>3
                        <7>. QED
                            BY <7>1, <7>2
                    <6>4. k = i \/ i < k
                        <7>. HIDE DEF z
                        <7>. QED
                            BY <4>1
                    <6>. QED
                        BY <6>2, <6>3, <6>4
                <5>2. i .. z \subseteq DOMAIN w.rows
                    BY <4>1
                <5>. HIDE DEF z, u
                <5>3. z - i + 1 <= Cardinality(E)
                    BY <2>1, <2>5, <4>1, <5>1, <5>2, FewRows
                <5>. QED
                    BY <2>5, <4>1, <5>3 DEF n
            <4>. QED
                BY <2>2, <4>2, <4>3
        <3>3. DOMAIN v \subseteq DOMAIN u
            BY <2>2
        <3>4. \A i \in DOMAIN rows : i + 0 \in DOMAIN w.rows /\ rows[i] = w.rows[i + 0]
                                     /\ \E c \in DOMAIN v : u[c] = w.rows[i + 0]
            <4>1. \A i \in DOMAIN rows : i + 0 = i
                BY <3>1
            <4>. QED
                BY <3>1, <3>2, <4>1
        <3>5. \A c \in DOMAIN v : v[c] = u[c]
            BY <2>2
        <3>6. RowsTidy(v, rows)
            <4>1. Run(u, w.rows, v, rows, 0)
                BY <2>1, <3>1, <3>3, <3>4, <3>5 DEF Run
            <4>. QED
                BY <4>1, RowsKept
        <3>. QED
            BY <3>1, <3>6
    <2>. DEFINE p == popFront(w, count)
    <2>12. p.head = h /\ p.tail = t - n /\ p.uuids = v /\ p.rows = rows
        <3>. HIDE DEF n, rows
        <3>. QED
            BY <2>3
    <2>13. Tidy(p)
        <3>1. p \in Windows
            <4>1. t - n \in Nat
                BY <2>6
            <4>2. v \in UNION {[T -> Ids] : T \in SUBSET Nat}
                BY <2>2
            <4>. HIDE DEF n, rows
            <4>3. [head |-> h, tail |-> t - n, uuids |-> v, rows |-> rows] \in Windows
                BY <2>1, <2>11, <4>1, <4>2 DEF Windows
            <4>. QED
                BY <2>3, <4>3, Zenon
        <3>. HIDE DEF n, rows, p
        <3>. QED
            BY <2>10, <2>11, <2>12, <3>1 DEF Tidy
    <2>14. EventsIn(p) \subseteq EventsIn(w) \ popped
        <3>. HIDE DEF p
        <3>. QED
            BY <2>2, <2>12 DEF EventsIn
    <2>. QED
        <3>1. p.tail <= t /\ t - (count + 1) <= p.tail
            <4>. HIDE DEF n, p
            <4>. QED
                BY <2>1, <2>5, <2>12
        <3>. QED
            BY <1>2, <2>12, <2>13, <2>14, <3>1 DEF Shrunk
<1>. QED
    BY <1>1, <1>2

(* Even where the order is lost, no record lies beyond head or tail, which *)
(* is what clear needs to forget them all.                                 *)
Recorded(u) ==
    \A c \in DOMAIN u : c # 0 /\ u[c] \in Ids /\ (u[c] = <<c, c>> \/ u[c][1] < u[c][2])

Contained(w) ==
    /\ w \in Windows /\ Recorded(w.uuids)
    /\ w.head <= w.tail + 1 /\ (w.head = 0 => w.tail = 0 /\ DOMAIN w.uuids = {})
    /\ DOMAIN w.uuids \subseteq w.head .. w.tail

LEMMA TidyIsContained ==
    ASSUME NEW w, Tidy(w)
    PROVE  Contained(w)
<1>1. w \in Windows /\ w.head \in Nat /\ w.tail \in Nat /\ RecordsTidy(w.uuids, w.head, w.tail)
    BY DEF Tidy, Windows
<1>. DEFINE u == w.uuids
<1>2. /\ w.head <= w.tail + 1 /\ (w.head = 0 => w.tail = 0)
      /\ DOMAIN u \subseteq (w.head .. w.tail) \ {0}
      /\ \A c \in DOMAIN u : u[c] \in Ids /\ (u[c] = <<c, c>> \/ u[c][1] < u[c][2])
    BY <1>1 DEF RecordsTidy
<1>3. Recorded(u)
    BY <1>2 DEF Recorded
<1>4. w.head = 0 => DOMAIN u = {}
    BY <1>1, <1>2
<1>. QED
    BY <1>1, <1>2, <1>3, <1>4 DEF Contained

LEMMA ClearedForgets ==
    ASSUME NEW w, Contained(w)
    PROVE  /\ Tidy(cleared(w)) /\ EventsIn(cleared(w)) = {}
           /\ cleared(w).tail = 0 /\ cleared(w).head = 0
<1>. DEFINE u == w.uuids
            v == Unmapped(w, w.head .. w.tail)
<1>1. w \in Windows /\ DOMAIN u \subseteq w.head .. w.tail
    BY DEF Contained
<1>2. v \in UNION {[T -> Ids] : T \in SUBSET Nat} /\ DOMAIN v = {}
    <2>1. Split(u, w.head .. w.tail, v, Emptied(w, w.head .. w.tail))
        BY <1>1, Emptying
    <2>. HIDE DEF v, u
    <2>. QED
        BY <1>1, <2>1 DEF Split
<1>3. cleared(w) = [head |-> 0, tail |-> 0, uuids |-> v, rows |-> <<>>]
    <2>. HIDE DEF v
    <2>. QED
        BY DEF cleared, NoRows, v
<1>. DEFINE p == cleared(w)
<1>. HIDE DEF v
<1>4. p.head = 0 /\ p.tail = 0 /\ p.uuids = v /\ p.rows = <<>>
    BY <1>3
<1>5. p \in Windows
    <2>1. [head |-> 0, tail |-> 0, uuids |-> v, rows |-> <<>>] \in Windows
        BY <1>2 DEF Windows
    <2>. QED
        BY <1>3, <2>1, Zenon
<1>. HIDE DEF p
<1>6. RecordsTidy(v, 0, 0) /\ RowsTidy(v, <<>>)
    BY <1>2 DEF RecordsTidy, RowsTidy
<1>7. EventsIn(p) = {}
    BY <1>2, <1>4 DEF EventsIn
<1>. QED
    BY <1>4, <1>5, <1>6, <1>7 DEF Tidy, p

LEMMA ClearedIsTidy ==
    ASSUME NEW w, Tidy(w)
    PROVE  /\ Tidy(cleared(w)) /\ EventsIn(cleared(w)) = {}
           /\ cleared(w).tail = 0 /\ cleared(w).head = 0
BY TidyIsContained, ClearedForgets

LEMMA MaxOfCounters ==
    ASSUME NEW S \in SUBSET Int, IsFiniteSet(S), S # {}
    PROVE  Max(S) \in S /\ \A c \in S : c <= Max(S)
<1>. DEFINE Above(c) == {d \in S : d > c}
            Cuts == {Above(c) : c \in S}
<1>1. PICK cut \in Cuts : \A d \in Cuts : d \subseteq cut => d = cut
    <2>1. Family(Cuts, S)
        BY DEF Family
    <2>. HIDE DEF Cuts
    <2>2. PICK cut : Minimal(Cuts, cut)
        BY <2>1, SmallestOf
    <2>. QED
        BY <2>2 DEF Minimal
<1>2. PICK top \in S : cut = Above(top)
    BY <1>1
<1>3. ASSUME NEW c \in S, c > top PROVE FALSE
    <2>1. Above(c) \in Cuts
        OBVIOUS
    <2>2. Above(c) \subseteq Above(top) /\ c \in Above(top) /\ c \notin Above(c)
        <3>1. \A d \in S : d \in Int
            OBVIOUS
        <3>2. \A d \in S : d > c => d > top
            BY <1>3, <3>1
        <3>3. ~(c > c)
            BY <3>1
        <3>. QED
            BY <1>3, <3>2, <3>3
    <2>. HIDE DEF Above, Cuts
    <2>. QED
        BY <1>1, <1>2, <2>1, <2>2
<1>4. \A c \in S : top >= c
    BY <1>3
<1>5. \E x \in S : \A c \in S : x >= c
    BY <1>4
<1>6. Max(S) \in S /\ \A c \in S : Max(S) >= c
    <2>. DEFINE P(x) == \A c \in S : x >= c
    <2>1. \E x \in S : P(x)
        BY <1>5
    <2>. HIDE DEF P
    <2>2. (CHOOSE x \in S : P(x)) \in S /\ P(CHOOSE x \in S : P(x))
        BY <2>1
    <2>. QED
        BY <2>2 DEF P, Max
<1>. QED
    BY <1>6

LEMMA MinOfSome ==
    ASSUME NEW S \in SUBSET Int, IsFiniteSet(S), S # {}
    PROVE  Min(S) \in S /\ \A c \in S : Min(S) <= c
<1>. DEFINE Lower(c) == {d \in S : d < c}
            Cuts == {Lower(c) : c \in S}
<1>1. PICK cut \in Cuts : \A d \in Cuts : d \subseteq cut => d = cut
    <2>1. Family(Cuts, S)
        BY DEF Family
    <2>. HIDE DEF Cuts
    <2>2. PICK cut : Minimal(Cuts, cut)
        BY <2>1, SmallestOf
    <2>. QED
        BY <2>2 DEF Minimal
<1>2. PICK least \in S : cut = Lower(least)
    BY <1>1
<1>3. ASSUME NEW c \in S, c < least PROVE FALSE
    <2>1. Lower(c) \in Cuts
        OBVIOUS
    <2>2. Lower(c) \subseteq Lower(least) /\ c \in Lower(least) /\ c \notin Lower(c)
        <3>1. \A d \in S : d \in Int
            OBVIOUS
        <3>2. \A d \in S : d < c => d < least
            BY <1>3, <3>1
        <3>3. ~(c < c)
            BY <3>1
        <3>. QED
            BY <1>3, <3>2, <3>3
    <2>. HIDE DEF Lower, Cuts
    <2>. QED
        BY <1>1, <1>2, <2>1, <2>2
<1>4. \E x \in S : \A c \in S : x <= c
    BY <1>3
<1>5. Min(S) \in S /\ \A c \in S : Min(S) <= c
    <2>. DEFINE P(x) == \A c \in S : x <= c
    <2>1. \E x \in S : P(x)
        BY <1>4
    <2>. HIDE DEF P
    <2>2. (CHOOSE x \in S : P(x)) \in S /\ P(CHOOSE x \in S : P(x))
        BY <2>1
    <2>. QED
        BY <2>2 DEF P, Min
<1>. QED
    BY <1>5

(* The window w after the counters s were loaded above its tail.           *)
Loaded(v, w, s) ==
    /\ Tidy(v) /\ EventsIn(v) \subseteq EventsIn(w) \cup s
    /\ v.tail = IF s = {} THEN w.tail ELSE Max(s)
    /\ Shows(v, w, s)

Below(s) == s \ {Max(s)}
AppendStep(f, w, s) == IF s = {} THEN w ELSE AppendEvent(f[Below(s)], Max(s))
IsAppending(f, w, S) == f = [s \in SUBSET S |-> AppendStep(f, w, s)]

LEMMA OneMore ==
    ASSUME NEW w, NEW s \in SUBSET Nat, IsFiniteSet(s), s # {}, \A e \in s : e > w.tail,
           NEW v, Loaded(v, w, Below(s))
    PROVE  Loaded(AppendEvent(v, Max(s)), w, s)
<1>. DEFINE e == Max(s)
            r == Below(s)
<1>1. e \in s /\ e \in Nat /\ \A c \in s : c <= e
    <2>1. s \in SUBSET Int /\ IsFiniteSet(s) /\ s # {}
        OBVIOUS
    <2>2. Max(s) \in s /\ \A c \in s : c <= Max(s)
        BY <2>1, MaxOfCounters, Zenon
    <2>. QED
        BY <2>2
<1>2. r \subseteq s /\ e \notin r /\ IsFiniteSet(r)
    BY FS_Subset DEF Below
<1>3. e > v.tail
    <2>1. CASE r = {}
        BY <1>1, <2>1 DEF Loaded
    <2>2. CASE r # {}
        <3>1. Max(r) \in r
            <4>1. r \in SUBSET Int
                <5>1. \A c \in s : c \in Int
                    OBVIOUS
                <5>2. \A c \in r : c \in s
                    BY <1>2
                <5>. HIDE DEF r
                <5>. QED
                    BY <5>1, <5>2
            <4>2. IsFiniteSet(r) /\ r # {}
                BY <1>2, <2>2
            <4>. HIDE DEF r
            <4>. QED
                BY <4>1, <4>2, MaxOfCounters
        <3>2. v.tail = Max(r)
            BY <2>2 DEF Loaded
        <3>. DEFINE top == Max(r)
        <3>3. top \in s /\ top # e /\ v.tail = top
            BY <1>2, <3>1, <3>2
        <3>. HIDE DEF e, top
        <3>. QED
            BY <1>1, <3>3
    <2>. QED
        BY <2>1, <2>2
<1>4. Tidy(v) /\ EventsIn(v) \subseteq EventsIn(w) \cup r
    BY DEF Loaded
<1>. DEFINE x == AppendEvent(v, e)
<1>5. /\ Tidy(x) /\ EventsIn(x) \subseteq EventsIn(v) \cup {e} /\ x.tail = e
      /\ Shows(x, v, {e})
    <2>1. Grown(x, v, e, IF v.head = 0 THEN e ELSE v.head, e)
        <3>. HIDE DEF e
        <3>. QED
            BY <1>1, <1>3, <1>4, AppendKeepsTidy
    <2>. HIDE DEF x, e
    <2>. QED
        BY <2>1 DEF Grown
<1>6. Loaded(x, w, s)
    <2>. HIDE DEF x
    <2>1. EventsIn(x) \subseteq EventsIn(w) \cup s
        <3>. HIDE DEF e, r
        <3>. QED
            BY <1>1, <1>2, <1>4, <1>5
    <2>2. Shows(x, w, s)
        <3>1. Shows(v, w, r) /\ s \subseteq r \cup {e}
            BY DEF Loaded, Below
        <3>. HIDE DEF e, r
        <3>. QED
            BY <1>5, <3>1 DEF Shows
    <2>. QED
        BY <1>5, <2>1, <2>2 DEF Loaded
<1>. QED
    BY <1>6

LEMMA AppendedOneByOne ==
    ASSUME NEW w, Tidy(w), NEW S \in SUBSET Nat, IsFiniteSet(S), \A e \in S : e > w.tail,
           NEW f,
           \A s \in SUBSET S : (s = {} \/ Loaded(f[Below(s)], w, Below(s)))
                                   => f[s] = AppendStep(f, w, s)
    PROVE  \A s \in SUBSET S : Loaded(f[s], w, s)
<1>. DEFINE F == {s \in SUBSET S : ~Loaded(f[s], w, s)}
<1>. SUFFICES ASSUME F # {} PROVE FALSE
    OBVIOUS
<1>1. PICK m \in F : \A s \in F : s \subseteq m => s = m
    <2>1. Family(F, S)
        BY DEF Family
    <2>. HIDE DEF F
    <2>2. PICK m : Minimal(F, m)
        BY <2>1, SmallestOf
    <2>. QED
        BY <2>2 DEF Minimal
<1>2. m \in SUBSET S /\ ~Loaded(f[m], w, m)
    BY <1>1
<1>3. m # {}
    <2>. SUFFICES ASSUME m = {} PROVE FALSE
        OBVIOUS
    <2>1. f[m] = w
        BY <1>2 DEF AppendStep
    <2>2. Loaded(w, w, m)
        BY <1>2 DEF Loaded, Shows
    <2>. QED
        BY <1>2, <2>1, <2>2
<1>4. IsFiniteSet(m) /\ m \in SUBSET Nat /\ \A e \in m : e > w.tail
    <2>1. IsFiniteSet(m)
        BY <1>2, FS_Subset, Zenon
    <2>. QED
        BY <1>2, <2>1
<1>5. Max(m) \in m
    <2>1. m \in SUBSET Int
        BY <1>4
    <2>. QED
        BY <1>3, <1>4, <2>1, MaxOfCounters, Zenon
<1>6. Below(m) \in SUBSET S /\ Below(m) \subseteq m /\ Below(m) # m
    BY <1>2, <1>5 DEF Below
<1>7. Loaded(f[Below(m)], w, Below(m))
    BY <1>1, <1>6
<1>8. f[m] = AppendEvent(f[Below(m)], Max(m))
    BY <1>2, <1>3, <1>7 DEF AppendStep
<1>9. Loaded(AppendEvent(f[Below(m)], Max(m)), w, m)
    BY <1>3, <1>4, <1>7, OneMore
<1>. QED
    BY <1>2, <1>8, <1>9

LEMMA AppendingExists ==
    ASSUME NEW w, Tidy(w), NEW S \in SUBSET Nat, IsFiniteSet(S), \A e \in S : e > w.tail
    PROVE  \E f : IsAppending(f, w, S)
<1>. DEFINE Tidies == {v \in Windows : Tidy(v)}
            step == [p \in S \X Tidies |-> AppendEvent(p[2], p[1])]
            pick == [s \in SUBSET S |-> Max(s)]
<1>1. Picks(pick, S)
    <2>. SUFFICES ASSUME NEW s \in SUBSET S, s # {} PROVE Max(s) \in s
        BY DEF Picks
    <2>1. IsFiniteSet(s)
        BY FS_Subset, Zenon
    <2>2. s \in SUBSET Int
        OBVIOUS
    <2>. QED
        BY <2>1, <2>2, MaxOfCounters, Zenon
<1>2. PICK f : IsFold(f, S, pick, step, w)
    <2>. HIDE DEF pick, step
    <2>. QED
        BY <1>1, FoldExists
<1>3. \A s \in SUBSET S : f[s] = FoldStep(f, s, pick, step, w)
    <2>. HIDE DEF pick, step
    <2>. QED
        BY <1>2 DEF IsFold
<1>4. ASSUME NEW s \in SUBSET S, s = {} \/ Loaded(f[Below(s)], w, Below(s))
      PROVE  f[s] = AppendStep(f, w, s)
    <2>1. CASE s = {}
        BY <1>3, <2>1 DEF FoldStep, AppendStep
    <2>2. CASE s # {}
        <3>1. pick[s] = Max(s) /\ s \ {pick[s]} = Below(s)
            BY DEF Below
        <3>2. f[s] = step[<<Max(s), f[Below(s)]>>]
            <4>. HIDE DEF pick, step
            <4>. QED
                BY <1>3, <2>2, <3>1 DEF FoldStep
        <3>3. <<Max(s), f[Below(s)]>> \in S \X Tidies
            <4>1. Max(s) \in S
                BY <1>1, <2>2, <3>1 DEF Picks
            <4>2. Tidy(f[Below(s)])
                BY <1>4, <2>2 DEF Loaded
            <4>. QED
                BY <4>1, <4>2 DEF Tidy
        <3>4. step[<<Max(s), f[Below(s)]>>] = AppendEvent(f[Below(s)], Max(s))
            <4>. HIDE DEF Tidies
            <4>. QED
                BY <3>3
        <3>. QED
            BY <2>2, <3>2, <3>4 DEF AppendStep
    <2>. QED
        BY <2>1, <2>2
<1>5. \A s \in SUBSET S : Loaded(f[s], w, s)
    BY <1>4, AppendedOneByOne
<1>6. \A s \in SUBSET S : Below(s) \in SUBSET S
    BY DEF Below
<1>7. \A s \in SUBSET S : f[s] = AppendStep(f, w, s)
    BY <1>4, <1>5, <1>6
<1>8. f = [s \in SUBSET S |-> f[s]]
    <2>. HIDE DEF pick, step
    <2>. QED
        BY <1>2 DEF IsFold
<1>9. f = [s \in SUBSET S |-> AppendStep(f, w, s)]
    BY <1>7, <1>8
<1>. QED
    BY <1>9 DEF IsAppending

(* What pushFront leaves.                                                  *)
LEMMA PushFrontLoads ==
    ASSUME NEW w, Tidy(w), NEW events \in SUBSET Nat, IsFiniteSet(events)
    PROVE  /\ Tidy(pushFront(w, events))
           /\ EventsIn(pushFront(w, events)) \subseteq EventsIn(w) \cup events
           /\ w.tail <= pushFront(w, events).tail
           /\ pushFront(w, events).tail \in events \cup {w.tail}
           /\ \A e \in events : e <= pushFront(w, events).tail
           /\ Shows(pushFront(w, events), w, {e \in events : e > w.tail})
<1>. DEFINE S == {e \in events : e > w.tail}
            f == CHOOSE g : IsAppending(g, w, S)
<1>1. pushFront(w, events) = f[S]
    BY DEF pushFront, MapThenFoldSet, IsAppending, AppendStep, Below
<1>2. S \in SUBSET Nat /\ IsFiniteSet(S) /\ \A e \in S : e > w.tail
    BY FS_Subset
<1>. HIDE DEF S
<1>3. IsAppending(f, w, S)
    <2>1. \E g : IsAppending(g, w, S)
        BY <1>2, AppendingExists
    <2>. QED
        BY <2>1, Zenon
<1>. HIDE DEF f
<1>4. \A s \in SUBSET S : f[s] = AppendStep(f, w, s)
    BY <1>3 DEF IsAppending
<1>5. Loaded(f[S], w, S)
    BY <1>2, <1>4, AppendedOneByOne
<1>6. /\ w.tail <= f[S].tail /\ f[S].tail \in events \cup {w.tail}
      /\ \A e \in events : e <= f[S].tail
    <2>1. w.tail \in Nat /\ f[S].tail = IF S = {} THEN w.tail ELSE Max(S)
        BY <1>5 DEF Tidy, Windows, Loaded
    <2>2. \A e \in events : e \in Nat
        OBVIOUS
    <2>3. CASE S = {}
        <3>1. \A e \in events : ~(e > w.tail)
            BY <2>3 DEF S
        <3>. QED
            BY <2>1, <2>2, <2>3, <3>1
    <2>4. CASE S # {}
        <3>1. S \in SUBSET Int /\ IsFiniteSet(S)
            BY <1>2
        <3>2. Max(S) \in S /\ \A c \in S : c <= Max(S)
            BY <2>4, <3>1, MaxOfCounters, Zenon
        <3>3. Max(S) > w.tail /\ Max(S) \in Nat
            BY <1>2, <3>2
        <3>4. S \subseteq events /\ \A e \in events : e <= w.tail \/ e \in S
            <4>1. w.tail \in Nat
                BY <2>1
            <4>2. ASSUME NEW e \in events PROVE e <= w.tail \/ e > w.tail
                BY <2>2, <4>1
            <4>. QED
                BY <4>2 DEF S
        <3>5. f[S].tail = Max(S)
            BY <2>1, <2>4
        <3>. DEFINE top == Max(S)
        <3>6. top \in Nat /\ top > w.tail /\ top \in events /\ \A c \in S : c <= top
            BY <3>2, <3>3, <3>4
        <3>7. f[S].tail = top
            BY <3>5
        <3>. HIDE DEF top
        <3>8. \A e \in events : e <= top
            BY <2>1, <2>2, <3>4, <3>6
        <3>. QED
            BY <2>1, <3>6, <3>7, <3>8
    <2>. QED
        BY <2>3, <2>4
<1>. QED
    BY <1>1, <1>5, <1>6 DEF Loaded, S

(* The window w after the counters s were loaded below its head.           *)
LoadedBelow(v, w, s) ==
    /\ Tidy(v) /\ EventsIn(v) \subseteq EventsIn(w) \cup s
    /\ v.head = IF s = {} THEN w.head ELSE Min(s)
    /\ IF w.head = 0 THEN \A c \in s : c <= v.tail ELSE v.tail = w.tail
    /\ Shows(v, w, s)

Above(s) == s \ {Min(s)}
PrependStep(f, w, s) == IF s = {} THEN w ELSE PrependEvent(f[Above(s)], Min(s))
IsPrepending(f, w, S) == f = [s \in SUBSET S |-> PrependStep(f, w, s)]

LEMMA OneBefore ==
    ASSUME NEW w, NEW s \in SUBSET (Nat \ {0}), IsFiniteSet(s), s # {},
           Tidy(w), w.head = 0 \/ \A e \in s : e < w.head,
           NEW v, LoadedBelow(v, w, Above(s))
    PROVE  LoadedBelow(PrependEvent(v, Min(s)), w, s)
<1>. DEFINE e == Min(s)
            r == Above(s)
<1>1. e \in s /\ e \in Nat \ {0} /\ \A c \in s : e <= c
    <2>1. s \in SUBSET Int /\ IsFiniteSet(s) /\ s # {}
        OBVIOUS
    <2>2. Min(s) \in s /\ \A c \in s : Min(s) <= c
        BY <2>1, MinOfSome, Zenon
    <2>. QED
        BY <2>2
<1>2. r \subseteq s /\ e \notin r /\ IsFiniteSet(r)
    BY FS_Subset DEF Above
<1>3. v.head = 0 \/ e < v.head
    <2>1. CASE r = {}
        BY <1>1, <2>1 DEF LoadedBelow
    <2>2. CASE r # {}
        <3>1. Min(r) \in r
            <4>1. r \in SUBSET Int
                <5>1. \A c \in s : c \in Int
                    OBVIOUS
                <5>2. \A c \in r : c \in s
                    BY <1>2
                <5>. HIDE DEF r
                <5>. QED
                    BY <5>1, <5>2
            <4>2. IsFiniteSet(r) /\ r # {}
                BY <1>2, <2>2
            <4>. HIDE DEF r
            <4>. QED
                BY <4>1, <4>2, MinOfSome
        <3>2. v.head = Min(r)
            BY <2>2 DEF LoadedBelow
        <3>. DEFINE least == Min(r)
        <3>3. least \in s /\ least # e /\ v.head = least
            BY <1>2, <3>1, <3>2
        <3>. HIDE DEF e, least
        <3>. QED
            BY <1>1, <3>3
    <2>. QED
        BY <2>1, <2>2
<1>4. Tidy(v) /\ EventsIn(v) \subseteq EventsIn(w) \cup r
    BY DEF LoadedBelow
<1>. DEFINE x == PrependEvent(v, e)
<1>5. Grown(x, v, e, e, IF v.head = 0 THEN e ELSE v.tail)
    <2>. HIDE DEF e
    <2>. QED
        BY <1>1, <1>3, <1>4, FirstEvent, PrependKeepsTidy
<1>6. /\ Tidy(x) /\ EventsIn(x) \subseteq EventsIn(v) \cup {e} /\ x.head = e
      /\ x.tail = (IF v.head = 0 THEN e ELSE v.tail) /\ Shows(x, v, {e})
    <2>. HIDE DEF x, e
    <2>. QED
        BY <1>5 DEF Grown
<1>7. s \subseteq r \cup {e}
    BY DEF Above
<1>8. IF w.head = 0 THEN \A c \in s : c <= x.tail ELSE x.tail = w.tail
    <2>1. CASE v.head = 0
        <3>1. r = {}
            <4>. SUFFICES ASSUME r # {} PROVE FALSE
                OBVIOUS
            <4>1. r \in SUBSET (Nat \ {0})
                <5>1. s \in SUBSET (Nat \ {0})
                    OBVIOUS
                <5>. HIDE DEF r
                <5>. QED
                    BY <1>2, <5>1
            <4>2. Min(r) \in r
                <5>. HIDE DEF r
                <5>1. r \in SUBSET Int
                    BY <4>1
                <5>. QED
                    BY <1>2, <5>1, MinOfSome, Zenon
            <4>3. v.head = Min(r)
                BY DEF LoadedBelow
            <4>. QED
                BY <2>1, <4>1, <4>2, <4>3
        <3>2. s \subseteq {e} /\ w.head = 0 /\ x.tail = e
            <4>1. w.head = v.head
                BY <3>1 DEF LoadedBelow
            <4>. QED
                BY <1>6, <1>7, <2>1, <3>1, <4>1
        <3>. HIDE DEF e, x
        <3>. QED
            BY <1>1, <3>2
    <2>2. CASE v.head # 0
        <3>1. x.tail = v.tail /\ v.tail \in Nat /\ v.head \in Nat /\ e <= v.tail
            <4>1. v.head \in Nat /\ v.tail \in Nat /\ v.head <= v.tail + 1
                BY <1>4 DEF Tidy, Windows, RecordsTidy
            <4>. HIDE DEF e, x
            <4>. QED
                BY <1>1, <1>3, <1>6, <2>2, <4>1
        <3>2. IF w.head = 0 THEN \A c \in r : c <= v.tail ELSE v.tail = w.tail
            BY DEF LoadedBelow
        <3>. HIDE DEF e, x, r
        <3>. QED
            BY <1>7, <3>1, <3>2
    <2>. QED
        BY <2>1, <2>2
<1>9. LoadedBelow(x, w, s)
    <2>. HIDE DEF x
    <2>1. EventsIn(x) \subseteq EventsIn(w) \cup s
        <3>. HIDE DEF e, r
        <3>. QED
            BY <1>1, <1>2, <1>4, <1>6
    <2>2. Shows(x, w, s)
        <3>1. Shows(v, w, r)
            BY DEF LoadedBelow
        <3>. HIDE DEF e, r
        <3>. QED
            BY <1>6, <1>7, <3>1 DEF Shows
    <2>. QED
        BY <1>6, <1>8, <2>1, <2>2 DEF LoadedBelow
<1>. QED
    BY <1>9

LEMMA PrependedOneByOne ==
    ASSUME NEW w, Tidy(w), NEW S \in SUBSET (Nat \ {0}), IsFiniteSet(S),
           w.head = 0 \/ \A e \in S : e < w.head,
           NEW f,
           \A s \in SUBSET S : (s = {} \/ LoadedBelow(f[Above(s)], w, Above(s)))
                                   => f[s] = PrependStep(f, w, s)
    PROVE  \A s \in SUBSET S : LoadedBelow(f[s], w, s)
<1>. DEFINE F == {s \in SUBSET S : ~LoadedBelow(f[s], w, s)}
<1>. SUFFICES ASSUME F # {} PROVE FALSE
    OBVIOUS
<1>1. PICK m \in F : \A s \in F : s \subseteq m => s = m
    <2>1. Family(F, S)
        BY DEF Family
    <2>. HIDE DEF F
    <2>2. PICK m : Minimal(F, m)
        BY <2>1, SmallestOf
    <2>. QED
        BY <2>2 DEF Minimal
<1>2. m \in SUBSET S /\ ~LoadedBelow(f[m], w, m)
    BY <1>1
<1>3. m # {}
    <2>. SUFFICES ASSUME m = {} PROVE FALSE
        OBVIOUS
    <2>1. f[m] = w
        BY <1>2 DEF PrependStep
    <2>2. LoadedBelow(w, w, m)
        BY <1>2 DEF LoadedBelow, Shows
    <2>. QED
        BY <1>2, <2>1, <2>2
<1>4. /\ IsFiniteSet(m) /\ m \in SUBSET (Nat \ {0})
      /\ w.head = 0 \/ \A e \in m : e < w.head
    <2>1. IsFiniteSet(m)
        BY <1>2, FS_Subset, Zenon
    <2>. QED
        BY <1>2, <2>1
<1>5. Min(m) \in m
    <2>1. m \in SUBSET Int
        BY <1>4
    <2>. QED
        BY <1>3, <1>4, <2>1, MinOfSome, Zenon
<1>6. Above(m) \in SUBSET S /\ Above(m) \subseteq m /\ Above(m) # m
    BY <1>2, <1>5 DEF Above
<1>7. LoadedBelow(f[Above(m)], w, Above(m))
    BY <1>1, <1>6
<1>8. f[m] = PrependEvent(f[Above(m)], Min(m))
    BY <1>2, <1>3, <1>7 DEF PrependStep
<1>9. LoadedBelow(PrependEvent(f[Above(m)], Min(m)), w, m)
    BY <1>3, <1>4, <1>7, OneBefore
<1>. QED
    BY <1>2, <1>8, <1>9

LEMMA PrependingExists ==
    ASSUME NEW w, Tidy(w), NEW S \in SUBSET (Nat \ {0}), IsFiniteSet(S),
           w.head = 0 \/ \A e \in S : e < w.head
    PROVE  \E f : IsPrepending(f, w, S)
<1>. DEFINE Tidies == {v \in Windows : Tidy(v)}
            step == [p \in S \X Tidies |-> PrependEvent(p[2], p[1])]
            pick == [s \in SUBSET S |-> Min(s)]
<1>1. Picks(pick, S)
    <2>. SUFFICES ASSUME NEW s \in SUBSET S, s # {} PROVE Min(s) \in s
        BY DEF Picks
    <2>1. IsFiniteSet(s)
        BY FS_Subset, Zenon
    <2>2. s \in SUBSET Int
        OBVIOUS
    <2>. QED
        BY <2>1, <2>2, MinOfSome, Zenon
<1>2. PICK f : IsFold(f, S, pick, step, w)
    <2>. HIDE DEF pick, step
    <2>. QED
        BY <1>1, FoldExists
<1>3. \A s \in SUBSET S : f[s] = FoldStep(f, s, pick, step, w)
    <2>. HIDE DEF pick, step
    <2>. QED
        BY <1>2 DEF IsFold
<1>4. ASSUME NEW s \in SUBSET S, s = {} \/ LoadedBelow(f[Above(s)], w, Above(s))
      PROVE  f[s] = PrependStep(f, w, s)
    <2>1. CASE s = {}
        BY <1>3, <2>1 DEF FoldStep, PrependStep
    <2>2. CASE s # {}
        <3>1. pick[s] = Min(s) /\ s \ {pick[s]} = Above(s)
            BY DEF Above
        <3>2. f[s] = step[<<Min(s), f[Above(s)]>>]
            <4>. HIDE DEF pick, step
            <4>. QED
                BY <1>3, <2>2, <3>1 DEF FoldStep
        <3>3. <<Min(s), f[Above(s)]>> \in S \X Tidies
            <4>1. Min(s) \in S
                BY <1>1, <2>2, <3>1 DEF Picks
            <4>2. Tidy(f[Above(s)])
                BY <1>4, <2>2 DEF LoadedBelow
            <4>. QED
                BY <4>1, <4>2 DEF Tidy
        <3>4. step[<<Min(s), f[Above(s)]>>] = PrependEvent(f[Above(s)], Min(s))
            <4>. HIDE DEF Tidies
            <4>. QED
                BY <3>3
        <3>. QED
            BY <2>2, <3>2, <3>4 DEF PrependStep
    <2>. QED
        BY <2>1, <2>2
<1>5. \A s \in SUBSET S : LoadedBelow(f[s], w, s)
    BY <1>4, PrependedOneByOne
<1>6. \A s \in SUBSET S : Above(s) \in SUBSET S
    BY DEF Above
<1>7. \A s \in SUBSET S : f[s] = PrependStep(f, w, s)
    BY <1>4, <1>5, <1>6
<1>8. f = [s \in SUBSET S |-> f[s]]
    <2>. HIDE DEF pick, step
    <2>. QED
        BY <1>2 DEF IsFold
<1>9. f = [s \in SUBSET S |-> PrependStep(f, w, s)]
    BY <1>7, <1>8
<1>. QED
    BY <1>9 DEF IsPrepending

(* What pushBack leaves.                                                  *)
LEMMA PushBackLoads ==
    ASSUME NEW w, Tidy(w), NEW events \in SUBSET (Nat \ {0}), IsFiniteSet(events),
           w.head = 0 \/ \A e \in events : e < w.head \/ e <= w.tail
    PROVE  LET v == pushBack(w, events)
               new == {e \in events : e < w.head \/ e > w.tail}
           IN  /\ Tidy(v) /\ EventsIn(v) \subseteq EventsIn(w) \cup events
               /\ v.head = IF new = {} THEN w.head ELSE Min(new)
               /\ IF w.head = 0 THEN \A e \in new : e <= v.tail ELSE v.tail = w.tail
               /\ Shows(v, w, new)
<1>. DEFINE S == {e \in events : e < w.head \/ e > w.tail}
            f == CHOOSE g : IsPrepending(g, w, S)
<1>1. pushBack(w, events) = f[S]
    BY DEF pushBack, MapThenFoldSet, IsPrepending, PrependStep, Above
<1>2. /\ S \in SUBSET (Nat \ {0}) /\ IsFiniteSet(S)
      /\ w.head = 0 \/ \A e \in S : e < w.head
    <2>1. S \in SUBSET events
        OBVIOUS
    <2>2. IsFiniteSet(S)
        BY <2>1, FS_Subset, Zenon
    <2>3. w.head \in Nat /\ w.tail \in Nat
        BY DEF Tidy, Windows
    <2>4. \A e \in S : e \in Nat \ {0} /\ (e < w.head \/ e > w.tail)
        OBVIOUS
    <2>5. \A e \in S : e < w.head \/ e <= w.tail \/ w.head = 0
        OBVIOUS
    <2>. HIDE DEF S
    <2>. QED
        BY <2>2, <2>3, <2>4, <2>5
<1>. HIDE DEF S
<1>3. IsPrepending(f, w, S)
    <2>1. \E g : IsPrepending(g, w, S)
        BY <1>2, PrependingExists
    <2>. QED
        BY <2>1, Zenon
<1>. HIDE DEF f
<1>4. \A s \in SUBSET S : f[s] = PrependStep(f, w, s)
    BY <1>3 DEF IsPrepending
<1>5. LoadedBelow(f[S], w, S)
    BY <1>2, <1>4, PrependedOneByOne
<1>. QED
    BY <1>1, <1>5 DEF LoadedBelow, S

(* The tasks of some counters, after those of the chain.                   *)
ListStep(f, base, s) == IF s = {} THEN base ELSE Append(f[Below(s)], Max(s))
IsListing(f, base, S) == f = [s \in SUBSET S |-> ListStep(f, base, s)]

LEMMA ListedOneByOne ==
    ASSUME NEW T, NEW base \in Seq(T), NEW S \in SUBSET Int, IsFiniteSet(S), S \subseteq T,
           NEW f,
           \A s \in SUBSET S : (s = {} \/ f[Below(s)] \in Seq(T)) => f[s] = ListStep(f, base, s)
    PROVE  \A s \in SUBSET S : f[s] \in Seq(T)
<1>. DEFINE F == {s \in SUBSET S : f[s] \notin Seq(T)}
<1>. SUFFICES ASSUME F # {} PROVE FALSE
    OBVIOUS
<1>1. PICK m \in F : \A s \in F : s \subseteq m => s = m
    <2>1. Family(F, S)
        BY DEF Family
    <2>. HIDE DEF F
    <2>2. PICK m : Minimal(F, m)
        BY <2>1, SmallestOf
    <2>. QED
        BY <2>2 DEF Minimal
<1>2. m \in SUBSET S /\ f[m] \notin Seq(T)
    BY <1>1
<1>3. m # {}
    BY <1>2 DEF ListStep
<1>4. IsFiniteSet(m)
    BY <1>2, FS_Subset, Zenon
<1>5. Max(m) \in m
    <2>1. m \in SUBSET Int
        BY <1>2
    <2>. QED
        BY <1>3, <1>4, <2>1, MaxOfCounters, Zenon
<1>6. Below(m) \in SUBSET S /\ Below(m) \subseteq m /\ Below(m) # m
    BY <1>2, <1>5 DEF Below
<1>7. f[Below(m)] \in Seq(T)
    BY <1>1, <1>6
<1>8. f[m] = Append(f[Below(m)], Max(m))
    BY <1>2, <1>3, <1>7 DEF ListStep
<1>9. Max(m) \in T
    BY <1>2, <1>5
<1>. QED
    BY <1>2, <1>7, <1>8, <1>9

LEMMA EventsListed ==
    ASSUME NEW T, NEW base \in Seq(T), NEW S \in SUBSET Int, IsFiniteSet(S), S \subseteq T
    PROVE  pushJobEvents(base, S) \in Seq(T)
<1>. DEFINE step == [p \in S \X Seq(T) |-> Append(p[2], p[1])]
            pick == [s \in SUBSET S |-> Max(s)]
            g == CHOOSE f : IsListing(f, base, S)
<1>1. Picks(pick, S)
    <2>. SUFFICES ASSUME NEW s \in SUBSET S, s # {} PROVE Max(s) \in s
        BY DEF Picks
    <2>1. IsFiniteSet(s)
        BY FS_Subset, Zenon
    <2>2. s \in SUBSET Int
        OBVIOUS
    <2>. QED
        BY <2>1, <2>2, MaxOfCounters, Zenon
<1>2. PICK f : IsFold(f, S, pick, step, base)
    <2>. HIDE DEF pick, step
    <2>. QED
        BY <1>1, FoldExists
<1>3. \A s \in SUBSET S : f[s] = FoldStep(f, s, pick, step, base)
    <2>. HIDE DEF pick, step
    <2>. QED
        BY <1>2 DEF IsFold
<1>4. ASSUME NEW s \in SUBSET S, s = {} \/ f[Below(s)] \in Seq(T)
      PROVE  f[s] = ListStep(f, base, s)
    <2>1. CASE s = {}
        BY <1>3, <2>1 DEF FoldStep, ListStep
    <2>2. CASE s # {}
        <3>1. pick[s] = Max(s) /\ s \ {pick[s]} = Below(s)
            BY DEF Below
        <3>2. f[s] = step[<<Max(s), f[Below(s)]>>]
            <4>. HIDE DEF pick, step
            <4>. QED
                BY <1>3, <2>2, <3>1 DEF FoldStep
        <3>3. Max(s) \in S /\ f[Below(s)] \in Seq(T)
            BY <1>1, <1>4, <2>2, <3>1 DEF Picks
        <3>4. step[<<Max(s), f[Below(s)]>>] = Append(f[Below(s)], Max(s))
            BY <3>3
        <3>. HIDE DEF step
        <3>. QED
            BY <2>2, <3>2, <3>4 DEF ListStep
    <2>. QED
        BY <2>1, <2>2
<1>5. \A s \in SUBSET S : f[s] \in Seq(T)
    BY <1>4, ListedOneByOne
<1>6. \A s \in SUBSET S : Below(s) \in SUBSET S
    BY DEF Below
<1>7. \A s \in SUBSET S : f[s] = ListStep(f, base, s)
    BY <1>4, <1>5, <1>6
<1>8. f = [s \in SUBSET S |-> f[s]]
    <2>. HIDE DEF pick, step
    <2>. QED
        BY <1>2 DEF IsFold
<1>9. IsListing(f, base, S)
    BY <1>7, <1>8 DEF IsListing
<1>10. IsListing(g, base, S)
    BY <1>9, Zenon
<1>11. pushJobEvents(base, S) = g[S]
    BY DEF pushJobEvents, MapThenFoldSet, IsListing, ListStep, Below
<1>. HIDE DEF g
<1>12. \A s \in SUBSET S : g[s] = ListStep(g, base, s)
    BY <1>10 DEF IsListing
<1>13. g[S] \in Seq(T)
    BY <1>12, ListedOneByOne
<1>. QED
    BY <1>11, <1>13

(* What a gap leaves before the event e is added.                          *)
Filled(v, w, e) ==
    /\ v \in Windows /\ Recorded(v.uuids) /\ (v.head = 0 => DOMAIN v.uuids = {})
    /\ v.head = w.head /\ v.tail = w.tail
    /\ \A c \in DOMAIN v.uuids : v.head <= c \/ e < c
    /\ \A c \in DOMAIN v.uuids : c <= v.tail \/ c < e

(* What each operation leaves, field by field.                             *)
LEMMA GapFilled ==
    ASSUME NEW w \in Windows, NEW u, NEW rows
    PROVE  [w EXCEPT !.uuids = u, !.rows = rows]
               = [head |-> w.head, tail |-> w.tail, uuids |-> u, rows |-> rows]
<1>. PICK a, b, c, d : w = [head |-> a, tail |-> b, uuids |-> c, rows |-> d]
    BY DEF Windows
<1>1. ASSUME NEW v, v = [w EXCEPT !.uuids = u, !.rows = rows]
      PROVE  v = [head |-> a, tail |-> b, uuids |-> u, rows |-> rows]
    BY <1>1
<1>2. w.head = a /\ w.tail = b /\ w.uuids = c /\ w.rows = d
    OBVIOUS
<1>. QED
    BY <1>1, <1>2, Zenon

LEMMA EventRecorded ==
    ASSUME NEW w \in Windows, NEW h, NEW t, NEW u
    PROVE  [w EXCEPT !.head = h, !.tail = t, !.uuids = u]
               = [head |-> h, tail |-> t, uuids |-> u, rows |-> w.rows]
<1>. PICK a, b, c, d : w = [head |-> a, tail |-> b, uuids |-> c, rows |-> d]
    BY DEF Windows
<1>1. ASSUME NEW v, v = [w EXCEPT !.head = h, !.tail = t, !.uuids = u]
      PROVE  v = [head |-> h, tail |-> t, uuids |-> u, rows |-> d]
    BY <1>1
<1>2. w.head = a /\ w.tail = b /\ w.uuids = c /\ w.rows = d
    OBVIOUS
<1>. QED
    BY <1>1, <1>2, Zenon

LEMMA HeadPopped ==
    ASSUME NEW w \in Windows, NEW h, NEW u, NEW rows
    PROVE  [w EXCEPT !.head = h, !.uuids = u, !.rows = rows]
               = [head |-> h, tail |-> w.tail, uuids |-> u, rows |-> rows]
<1>. PICK a, b, c, d : w = [head |-> a, tail |-> b, uuids |-> c, rows |-> d]
    BY DEF Windows
<1>1. ASSUME NEW v, v = [w EXCEPT !.head = h, !.uuids = u, !.rows = rows]
      PROVE  v = [head |-> h, tail |-> b, uuids |-> u, rows |-> rows]
    BY <1>1
<1>2. w.head = a /\ w.tail = b /\ w.uuids = c /\ w.rows = d
    OBVIOUS
<1>. QED
    BY <1>1, <1>2, Zenon

LEMMA TailPopped ==
    ASSUME NEW w \in Windows, NEW t, NEW u, NEW rows
    PROVE  [w EXCEPT !.tail = t, !.uuids = u, !.rows = rows]
               = [head |-> w.head, tail |-> t, uuids |-> u, rows |-> rows]
<1>. PICK a, b, c, d : w = [head |-> a, tail |-> b, uuids |-> c, rows |-> d]
    BY DEF Windows
<1>1. ASSUME NEW v, v = [w EXCEPT !.tail = t, !.uuids = u, !.rows = rows]
      PROVE  v = [head |-> a, tail |-> t, uuids |-> u, rows |-> rows]
    BY <1>1
<1>2. w.head = a /\ w.tail = b /\ w.uuids = c /\ w.rows = d
    OBVIOUS
<1>. QED
    BY <1>1, <1>2, Zenon

LEMMA RowsSet ==
    ASSUME NEW w \in Windows, NEW rows
    PROVE  [w EXCEPT !.rows = rows]
               = [head |-> w.head, tail |-> w.tail, uuids |-> w.uuids, rows |-> rows]
<1>. PICK a, b, c, d : w = [head |-> a, tail |-> b, uuids |-> c, rows |-> d]
    BY DEF Windows
<1>1. ASSUME NEW v, v = [w EXCEPT !.rows = rows]
      PROVE  v = [head |-> a, tail |-> b, uuids |-> c, rows |-> rows]
    BY <1>1
<1>2. w.head = a /\ w.tail = b /\ w.uuids = c /\ w.rows = d
    OBVIOUS
<1>. QED
    BY <1>1, <1>2, Zenon

LEMMA MappedRecords ==
    ASSUME NEW w, Contained(w), NEW gap \in SUBSET (Nat \ {0}), NEW id,
           gap = {} \/ (id \in Ids /\ id[1] < id[2])
    PROVE  /\ DOMAIN Mapped(w, gap, id) = DOMAIN w.uuids \cup gap
           /\ Recorded(Mapped(w, gap, id))
           /\ Mapped(w, gap, id) \in UNION {[T -> Ids] : T \in SUBSET Nat}
<1>. DEFINE u == w.uuids
            v == Mapped(w, gap, id)
<1>1. /\ DOMAIN v = DOMAIN u \cup gap
      /\ \A c \in DOMAIN v : v[c] = IF c \in gap THEN id ELSE u[c]
    BY DEF Mapped
<1>2. DOMAIN u \in SUBSET Nat /\ Recorded(u)
    BY DEF Contained, Windows
<1>3. \A c \in DOMAIN v : c # 0 /\ v[c] \in Ids /\ (v[c] = <<c, c>> \/ v[c][1] < v[c][2])
    BY <1>1, <1>2 DEF Recorded
<1>4. DOMAIN v \in SUBSET Nat /\ v = [c \in DOMAIN v |-> v[c]]
    BY <1>1, <1>2 DEF Mapped
<1>. HIDE DEF v
<1>5. v \in [DOMAIN v -> Ids]
    BY <1>3, <1>4
<1>. QED
    BY <1>1, <1>3, <1>4, <1>5 DEF Recorded, v

LEMMA FilledGap ==
    ASSUME NEW w, Contained(w), NEW e, NEW gap \in SUBSET (Nat \ {0}), NEW id,
           gap = {} \/ (id \in Ids /\ id[1] < id[2]), NEW rows \in Seq(Ids), w.head # 0,
           \A c \in gap : (w.head <= c /\ c < e) \/ (e < c /\ c <= w.tail)
    PROVE  Filled([w EXCEPT !.uuids = Mapped(w, gap, id), !.rows = rows], w, e)
<1>. DEFINE u == Mapped(w, gap, id)
            v == [w EXCEPT !.uuids = u, !.rows = rows]
<1>1. /\ w \in Windows /\ w.head \in Nat /\ w.tail \in Nat
      /\ \A c \in DOMAIN w.uuids : w.head <= c /\ c <= w.tail
    BY DEF Contained, Windows
<1>2. /\ DOMAIN u = DOMAIN w.uuids \cup gap /\ Recorded(u)
      /\ u \in UNION {[T -> Ids] : T \in SUBSET Nat}
    BY MappedRecords
<1>. HIDE DEF u
<1>3. v = [head |-> w.head, tail |-> w.tail, uuids |-> u, rows |-> rows]
    BY <1>1, GapFilled
<1>. HIDE DEF v
<1>4. v.head = w.head /\ v.tail = w.tail /\ v.uuids = u
    BY <1>3
<1>5. v \in Windows
    <2>1. [head |-> w.head, tail |-> w.tail, uuids |-> u, rows |-> rows] \in Windows
        BY <1>1, <1>2 DEF Windows
    <2>. QED
        BY <1>3, <2>1, Zenon
<1>6. \A c \in DOMAIN v.uuids : (v.head <= c \/ e < c) /\ (c <= v.tail \/ c < e)
    BY <1>1, <1>2, <1>4
<1>7. Filled(v, w, e)
    BY <1>2, <1>4, <1>5, <1>6 DEF Filled
<1>. QED
    BY <1>7 DEF u, v

LEMMA FilledAtOnce ==
    ASSUME NEW w, Contained(w), NEW e
    PROVE  Filled(w, w, e)
BY DEF Contained, Filled, Windows

LEMMA StandingContained ==
    ASSUME NEW w, NEW e \in Nat \ {0}, NEW v, Filled(v, w, e),
           EventRecord(e) \in Range(v.uuids)
    PROVE  Contained(v)
<1>1. /\ v \in Windows
      /\ v.head \in Nat /\ v.tail \in Nat /\ Recorded(v.uuids) /\ DOMAIN v.uuids \in SUBSET Nat
      /\ v.head = 0 => DOMAIN v.uuids = {}
      /\ \A c \in DOMAIN v.uuids : v.head <= c \/ e < c
      /\ \A c \in DOMAIN v.uuids : c <= v.tail \/ c < e
    BY DEF Filled, Windows
<1>2. PICK d \in DOMAIN v.uuids : v.uuids[d] = <<e, e>>
    BY DEF Range, EventRecord
<1>3. d = e
    <2>1. v.uuids[d] = <<d, d>> \/ v.uuids[d][1] < v.uuids[d][2]
        BY <1>1 DEF Recorded
    <2>2. ~(v.uuids[d][1] < v.uuids[d][2])
        BY <1>2
    <2>. QED
        BY <1>2, <2>1, <2>2
<1>4. v.head <= e /\ e <= v.tail /\ v.head # 0
    BY <1>1, <1>2, <1>3
<1>5. DOMAIN v.uuids \subseteq v.head .. v.tail
    BY <1>1, <1>4
<1>. QED
    BY <1>1, <1>4, <1>5 DEF Contained

LEMMA RecordContained ==
    ASSUME NEW w, NEW e \in Nat \ {0}, NEW v, Filled(v, w, e),
           EventRecord(e) \notin Range(v.uuids), NEW rows \in Seq(Ids)
    PROVE  /\ Contained([transformEvent(v, e) EXCEPT !.rows = rows])
           /\ transformEvent(v, e) # v /\ transformEvent(v, e).rows = v.rows
<1>. DEFINE h == IF v.head = 0 \/ e < v.head THEN e ELSE v.head
            t == IF v.tail = 0 \/ e > v.tail THEN e ELSE v.tail
            u == Mapped(v, {e}, EventRecord(e))
            x == [v EXCEPT !.head = h, !.tail = t, !.uuids = u]
            y == [head |-> h, tail |-> t, uuids |-> u, rows |-> rows]
<1>1. /\ v \in Windows
      /\ v.head \in Nat /\ v.tail \in Nat /\ Recorded(v.uuids) /\ DOMAIN v.uuids \in SUBSET Nat
      /\ v.head = 0 => DOMAIN v.uuids = {}
      /\ \A c \in DOMAIN v.uuids : v.head <= c \/ e < c
      /\ \A c \in DOMAIN v.uuids : c <= v.tail \/ c < e
    BY DEF Filled, Windows
<1>3. transformEvent(v, e) = x
    BY DEF transformEvent
<1>4. /\ DOMAIN u = DOMAIN v.uuids \cup {e}
      /\ \A c \in DOMAIN u : u[c] = IF c = e THEN <<e, e>> ELSE v.uuids[c]
    BY DEF Mapped, EventRecord
<1>5. u = [c \in DOMAIN u |-> u[c]]
    BY <1>4 DEF Mapped
<1>. HIDE DEF u
<1>6. Recorded(u) /\ \A c \in DOMAIN u : u[c] \in Ids
    <2>1. <<e, e>> \in Ids
        BY DEF Ids
    <2>2. ASSUME NEW c \in DOMAIN u PROVE c # 0 /\ u[c] \in Ids /\ (u[c] = <<c, c>> \/ u[c][1] < u[c][2])
        <3>1. CASE c = e
            BY <1>4, <2>1, <3>1
        <3>2. CASE c # e
            BY <1>1, <1>4, <3>2 DEF Recorded
        <3>. QED
            BY <3>1, <3>2
    <2>. QED
        BY <2>2 DEF Recorded
<1>7. u \in UNION {[T -> Ids] : T \in SUBSET Nat}
    <2>1. u \in [DOMAIN u -> Ids] /\ DOMAIN u \in SUBSET Nat
        BY <1>1, <1>4, <1>5, <1>6
    <2>. QED
        BY <2>1
<1>8. h \in Nat /\ t \in Nat /\ h # 0 /\ \A c \in DOMAIN u : h <= c /\ c <= t /\ c \in Nat
    BY <1>1, <1>4
<1>15. h <= t
    BY <1>1
<1>. HIDE DEF h, t
<1>9. x = [head |-> h, tail |-> t, uuids |-> u, rows |-> v.rows]
    <2>1. v \in Windows
        BY <1>1
    <2>2. [v EXCEPT !.head = h, !.tail = t, !.uuids = u]
              = [head |-> h, tail |-> t, uuids |-> u, rows |-> v.rows]
        BY <2>1, EventRecorded
    <2>. QED
        BY <2>2
<1>. HIDE DEF x
<1>10. v.rows \in Seq(Ids) /\ x \in Windows /\ x.uuids = u /\ x.rows = v.rows
       /\ x.head = h /\ x.tail = t
    <2>1. v.rows \in Seq(Ids)
        BY <1>1 DEF Windows
    <2>2. [head |-> h, tail |-> t, uuids |-> u, rows |-> v.rows] \in Windows
        BY <1>7, <1>8, <2>1 DEF Windows
    <2>. QED
        BY <1>9, <2>1, <2>2
<1>11. [x EXCEPT !.rows = rows] = y
    BY <1>10, RowsSet
<1>12. y \in Windows
    BY <1>7, <1>8 DEF Windows
<1>13. Contained(y)
    <2>1. y.head = h /\ y.tail = t /\ y.uuids = u
        OBVIOUS
    <2>. HIDE DEF y
    <2>2. DOMAIN y.uuids \subseteq y.head .. y.tail
        BY <1>8, <2>1
    <2>. QED
        BY <1>6, <1>8, <1>12, <1>15, <2>1, <2>2 DEF Contained
<1>14. x # v
    <2>1. e \in DOMAIN u /\ u[e] = EventRecord(e)
        BY <1>4 DEF EventRecord
    <2>2. v.uuids # u
        BY <2>1 DEF Range
    <2>. QED
        BY <1>10, <2>2
<1>. QED
    BY <1>3, <1>10, <1>11, <1>13, <1>14

LEMMA EventContained ==
    ASSUME NEW w, NEW e \in Nat \ {0}, NEW v, Filled(v, w, e)
    PROVE  LET next == transformEvent(v, e)
           IN  /\ Contained(IF next = v THEN v ELSE [next EXCEPT !.rows = @ \o Lines(e)])
               /\ Contained(IF next = v THEN v ELSE [next EXCEPT !.rows = Lines(e) \o @])
<1>. DEFINE next == transformEvent(v, e)
<1>1. CASE EventRecord(e) \in Range(v.uuids)
    <2>1. next = v
        BY <1>1 DEF transformEvent
    <2>. QED
        BY <1>1, <2>1, StandingContained
<1>2. CASE EventRecord(e) \notin Range(v.uuids)
    <2>1. v.rows \in Seq(Ids) /\ Lines(e) \in Seq(Ids)
        <3>1. v.rows \in Seq(Ids)
            BY DEF Filled, Windows
        <3>2. <<e, e>> \in Ids
            BY DEF Ids
        <3>. QED
            BY <3>1, <3>2 DEF Lines, EventRecord
    <2>. DEFINE after == v.rows \o Lines(e)
                before == Lines(e) \o v.rows
    <2>2. after \in Seq(Ids) /\ before \in Seq(Ids)
        BY <2>1
    <2>. HIDE DEF next
    <2>3. next # v /\ next.rows = v.rows
        BY <1>2, <2>1, RecordContained DEF next
    <2>4. [next EXCEPT !.rows = @ \o Lines(e)] = [next EXCEPT !.rows = after]
        BY <2>3
    <2>5. [next EXCEPT !.rows = Lines(e) \o @] = [next EXCEPT !.rows = before]
        BY <2>3
    <2>. HIDE DEF after, before
    <2>6. Contained([next EXCEPT !.rows = after]) /\ Contained([next EXCEPT !.rows = before])
        BY <1>2, <2>2, RecordContained DEF next
    <2>. QED
        BY <2>3, <2>4, <2>5, <2>6 DEF next
<1>. QED
    BY <1>1, <1>2

LEMMA AppendContained ==
    ASSUME NEW w, Contained(w), NEW e \in Nat \ {0}
    PROVE  Contained(AppendEvent(w, e))
<1>. DEFINE gapped == w.tail # 0 /\ e # w.tail + 1
            v == IF gapped THEN appendMissingEventGroup(w, e) ELSE w
<1>1. w.head \in Nat /\ w.tail \in Nat /\ w.rows \in Seq(Ids) /\ Recorded(w.uuids)
      /\ w.head <= w.tail + 1 /\ (w.head = 0 => w.tail = 0)
    BY DEF Contained, Windows
<1>2. Filled(v, w, e)
    <2>1. CASE ~gapped \/ ~Standing(w, w.tail)
        <3>1. v = w
            BY <2>1 DEF appendMissingEventGroup
        <3>. QED
            BY <3>1, FilledAtOnce
    <2>2. CASE gapped /\ Standing(w, w.tail)
        <3>. DEFINE gap == w.tail + 1 .. e - 1
                    last == w.uuids[w.tail]
                    id == IF IsMarker(last) THEN last ELSE Marker(w.tail, e)
                    visible == ~IsMarker(last) /\ ~(gap \subseteq Silent)
                    rows == IF visible THEN Append(w.rows, id) ELSE w.rows
        <3>1. v = [w EXCEPT !.uuids = Mapped(w, gap, id), !.rows = rows]
            BY <2>2 DEF appendMissingEventGroup
        <3>2. gap \in SUBSET (Nat \ {0}) /\ \A c \in gap : w.head <= c /\ c < e
            BY <1>1
        <3>3. gap = {} \/ (id \in Ids /\ id[1] < id[2])
            <4>1. last \in Ids
                BY <1>1, <2>2 DEF Recorded, Standing
            <4>2. gap = {} \/ w.tail < e
                BY <1>1
            <4>. QED
                BY <1>1, <4>1, <4>2 DEF IsMarker, Marker, Ids
        <3>4. rows \in Seq(Ids)
            <4>1. gap = {} => ~visible
                OBVIOUS
            <4>. HIDE DEF gap, id
            <4>. QED
                BY <1>1, <3>3, <4>1
        <3>5. w.head # 0
            BY <1>1, <2>2
        <3>. HIDE DEF gap, id, rows, v
        <3>. QED
            BY <3>1, <3>2, <3>3, <3>4, <3>5, FilledGap
    <2>. QED
        BY <2>1, <2>2
<1>. QED
    BY <1>2, EventContained DEF AppendEvent

LEMMA PrependContained ==
    ASSUME NEW w, Contained(w), NEW e \in Nat \ {0}
    PROVE  Contained(PrependEvent(w, e))
<1>. DEFINE gapped == w.head # 0 /\ e # w.head - 1
            v == IF gapped THEN prependMissingEventGroup(w, e) ELSE w
<1>1. w.head \in Nat /\ w.tail \in Nat /\ w.rows \in Seq(Ids) /\ Recorded(w.uuids)
      /\ w.head <= w.tail + 1 /\ (w.head = 0 => w.tail = 0)
    BY DEF Contained, Windows
<1>2. Filled(v, w, e)
    <2>1. CASE ~gapped \/ ~Standing(w, w.head)
        <3>1. v = w
            BY <2>1 DEF prependMissingEventGroup
        <3>. QED
            BY <3>1, FilledAtOnce
    <2>2. CASE gapped /\ Standing(w, w.head)
        <3>. DEFINE gap == e + 1 .. w.head - 1
                    first == w.uuids[w.head]
                    id == IF IsMarker(first) THEN first ELSE Marker(e, w.head)
                    visible == ~IsMarker(first) /\ ~(gap \subseteq Silent)
                    rows == IF visible THEN <<id>> \o w.rows ELSE w.rows
        <3>1. v = [w EXCEPT !.uuids = Mapped(w, gap, id), !.rows = rows]
            BY <2>2 DEF prependMissingEventGroup
        <3>2. gap \in SUBSET (Nat \ {0}) /\ \A c \in gap : e < c /\ c <= w.tail
            BY <1>1
        <3>3. gap = {} \/ (id \in Ids /\ id[1] < id[2])
            <4>1. first \in Ids
                BY <1>1, <2>2 DEF Recorded, Standing
            <4>2. gap = {} \/ e < w.head
                BY <1>1
            <4>. QED
                BY <1>1, <4>1, <4>2 DEF IsMarker, Marker, Ids
        <3>4. rows \in Seq(Ids)
            <4>1. gap = {} => ~visible
                OBVIOUS
            <4>. HIDE DEF gap, id
            <4>. QED
                BY <1>1, <3>3, <4>1
        <3>5. w.head # 0
            BY <1>1, <2>2
        <3>. HIDE DEF gap, id, rows, v
        <3>. QED
            BY <3>1, <3>2, <3>3, <3>4, <3>5, FilledGap
    <2>. QED
        BY <2>1, <2>2
<1>. QED
    BY <1>2, EventContained DEF PrependEvent

LEMMA PoppedWindow ==
    ASSUME NEW w, Contained(w), NEW popped, NEW a \in Nat, NEW b \in Nat,
           \A c \in DOMAIN w.uuids : c \in popped => a <= c /\ c <= b,
           a <= b + 1
    PROVE  LET n == Cardinality(Emptied(w, popped))
               v == Unmapped(w, popped)
           IN  /\ n \in Nat /\ n <= b - a + 1 /\ Recorded(v)
               /\ v \in UNION {[T -> Ids] : T \in SUBSET Nat}
               /\ DOMAIN v = DOMAIN w.uuids \ popped
               /\ DOMAIN w.uuids = {} => n = 0
               /\ \A m \in Int, k \in Int :
                     1 <= m /\ k <= Len(w.rows) => SubSeq(w.rows, m, k) \in Seq(Ids)
<1>. DEFINE u == w.uuids
            v == Unmapped(w, popped)
            E == Emptied(w, popped)
<1>1. w \in Windows /\ Recorded(u) /\ w.rows \in Seq(Ids)
    BY DEF Contained, Windows
<1>2. Split(u, popped, v, E)
    BY <1>1, Emptying
<1>. HIDE DEF v, E
<1>3. /\ DOMAIN v = DOMAIN u \ popped /\ v \in UNION {[T -> Ids] : T \in SUBSET Nat}
      /\ \A c \in DOMAIN v : v[c] = u[c]
      /\ \A id \in E : \E c \in DOMAIN u \cap popped : u[c] = id
    BY <1>2 DEF Split
<1>4. Recorded(v)
    BY <1>1, <1>3 DEF Recorded
<1>5. Cardinality(E) \in Nat /\ Cardinality(E) <= b - a + 1
    <2>1. \A c \in DOMAIN u \cap popped : c \in a .. b
        <3>1. \A c \in DOMAIN u : c \in Nat
            BY <1>1 DEF Windows
        <3>2. \A c \in DOMAIN u : c \in popped => a <= c /\ c <= b
            OBVIOUS
        <3>. HIDE DEF u
        <3>. QED
            BY <3>1, <3>2
    <2>2. \A id \in E : \E c \in a .. b : u[c] = id
        BY <1>3, <2>1
    <2>3. a \in Int /\ b \in Int /\ a <= b + 1
        OBVIOUS
    <2>. HIDE DEF u
    <2>. QED
        BY <2>2, <2>3, FewRecords
<1>6. DOMAIN u = {} => Cardinality(E) = 0
    <2>. SUFFICES ASSUME DOMAIN u = {} PROVE E = {}
        BY FS_EmptySet
    <2>. QED
        BY <1>3
<1>7. ASSUME NEW m \in Int, NEW k \in Int, 1 <= m, k <= Len(w.rows)
      PROVE  SubSeq(w.rows, m, k) \in Seq(Ids)
    <2>1. \A i \in m .. k : w.rows[i] \in Ids
        BY <1>1, <1>7
    <2>. QED
        BY <2>1, SubSeqProperties
<1>. QED
    BY <1>3, <1>4, <1>5, <1>6, <1>7 DEF v, E

LEMMA PopBackContained ==
    ASSUME NEW w, Contained(w), NEW count \in Int
    PROVE  Contained(popBack(w, count))
<1>1. CASE count <= 0
    BY <1>1 DEF popBack
<1>2. CASE count > 0
    <2>. DEFINE h == w.head
                t == w.tail
                popped == h .. h + count
                n == Cardinality(Emptied(w, popped))
                v == Unmapped(w, popped)
                rows == DropFirst(w.rows, n)
                g == h + n
                x == [head |-> g, tail |-> t, uuids |-> v, rows |-> rows]
    <2>1. /\ w \in Windows /\ h \in Nat /\ t \in Nat /\ h <= t + 1 /\ w.rows \in Seq(Ids)
          /\ h = 0 => t = 0 /\ DOMAIN w.uuids = {}
          /\ \A c \in DOMAIN w.uuids : c \in Nat /\ h <= c /\ c <= t
        BY DEF Contained, Windows
    <2>2. /\ n \in Nat /\ n <= t - h + 1 /\ Recorded(v)
          /\ v \in UNION {[T -> Ids] : T \in SUBSET Nat}
          /\ DOMAIN v = DOMAIN w.uuids \ popped
          /\ DOMAIN w.uuids = {} => n = 0
          /\ \A m \in Int, k \in Int :
                1 <= m /\ k <= Len(w.rows) => SubSeq(w.rows, m, k) \in Seq(Ids)
        <3>1. \A c \in DOMAIN w.uuids : c \in popped => h <= c /\ c <= t
            BY <2>1
        <3>. HIDE DEF popped
        <3>. QED
            BY <2>1, <3>1, PoppedWindow
    <2>3. n <= count + 1
        <3>1. h \in Nat /\ h + count \in Nat /\ h <= (h + count) + 1
            BY <1>2, <2>1
        <3>2. \A c \in DOMAIN w.uuids : c \in popped => h <= c /\ c <= h + count
            OBVIOUS
        <3>. DEFINE b == h + count
        <3>3. b \in Nat /\ h <= b + 1 /\ \A c \in DOMAIN w.uuids : c \in popped => h <= c /\ c <= b
            BY <3>1, <3>2
        <3>. HIDE DEF b, popped
        <3>4. n <= b - h + 1
            BY <2>1, <3>3, PoppedWindow
        <3>. QED
            BY <2>1, <3>4 DEF b
    <2>4. rows \in Seq(Ids)
        BY <2>1, <2>2 DEF DropFirst
    <2>5. \A c \in DOMAIN v : h + n <= c /\ c <= t /\ c \in Nat
        BY <1>2, <2>1, <2>2, <2>3
    <2>6. popBack(w, count) = [w EXCEPT !.head = g, !.uuids = v, !.rows = rows]
        <3>. HIDE DEF n, v
        <3>. QED
            BY <1>2 DEF popBack, n, v
    <2>10. g \in Nat /\ g <= t + 1 /\ (g = 0 => t = 0 /\ DOMAIN v = {}) /\ DOMAIN v \subseteq g .. t
        <3>1. g \in Nat /\ g <= t + 1
            BY <2>1, <2>2
        <3>2. g = 0 => t = 0 /\ DOMAIN v = {}
            BY <2>1, <2>2
        <3>3. \A c \in DOMAIN v : c \in Nat /\ g <= c /\ c <= t
            BY <2>5
        <3>. HIDE DEF g, v
        <3>. QED
            BY <2>1, <3>1, <3>2, <3>3
    <2>. HIDE DEF g, n, v, rows
    <2>7. popBack(w, count) = x
        BY <2>1, <2>6, HeadPopped
    <2>8. x \in Windows
        BY <2>1, <2>2, <2>4, <2>10 DEF Windows
    <2>9. Contained(x)
        <3>1. x.head = g /\ x.tail = t /\ x.uuids = v
            OBVIOUS
        <3>. HIDE DEF x
        <3>. QED
            BY <2>2, <2>8, <2>10, <3>1 DEF Contained
    <2>. QED
        BY <2>7, <2>9
<1>. QED
    BY <1>1, <1>2

LEMMA PopFrontContained ==
    ASSUME NEW w, Contained(w), NEW count \in Int
    PROVE  Contained(popFront(w, count))
<1>1. CASE count <= 0
    BY <1>1 DEF popFront
<1>2. CASE count > 0
    <2>. DEFINE h == w.head
                t == w.tail
                popped == t - count .. t
                n == Cardinality(Emptied(w, popped))
                v == Unmapped(w, popped)
                rows == DropLast(w.rows, n)
                g == t - n
                x == [head |-> h, tail |-> g, uuids |-> v, rows |-> rows]
    <2>1. /\ w \in Windows /\ h \in Nat /\ t \in Nat /\ h <= t + 1 /\ w.rows \in Seq(Ids)
          /\ h = 0 => t = 0 /\ DOMAIN w.uuids = {}
          /\ \A c \in DOMAIN w.uuids : c \in Nat /\ h <= c /\ c <= t
        BY DEF Contained, Windows
    <2>2. /\ n \in Nat /\ n <= t - h + 1 /\ Recorded(v)
          /\ v \in UNION {[T -> Ids] : T \in SUBSET Nat}
          /\ DOMAIN v = DOMAIN w.uuids \ popped
          /\ DOMAIN w.uuids = {} => n = 0
          /\ \A m \in Int, k \in Int :
                1 <= m /\ k <= Len(w.rows) => SubSeq(w.rows, m, k) \in Seq(Ids)
        <3>1. \A c \in DOMAIN w.uuids : c \in popped => h <= c /\ c <= t
            BY <2>1
        <3>. HIDE DEF popped
        <3>. QED
            BY <2>1, <3>1, PoppedWindow
    <2>3. \A c \in DOMAIN v : c <= t - n
        <3>. SUFFICES ASSUME NEW c \in DOMAIN v PROVE c <= t - n
            OBVIOUS
        <3>1. c \in Nat /\ h <= c /\ c < t - count /\ c <= t
            BY <1>2, <2>1, <2>2
        <3>. DEFINE a == t - count
        <3>2. a \in Nat /\ a <= t + 1 /\ \A d \in DOMAIN w.uuids : d \in popped => a <= d /\ d <= t
            BY <1>2, <2>1, <3>1
        <3>3. a = t - count
            OBVIOUS
        <3>. HIDE DEF a, popped
        <3>4. n <= t - a + 1
            BY <2>1, <3>2, PoppedWindow
        <3>. QED
            BY <1>2, <2>1, <2>2, <3>1, <3>2, <3>3, <3>4
    <2>4. rows \in Seq(Ids)
        <3>1. Len(w.rows) \in Nat
            BY <2>1
        <3>. DEFINE k == IF n = 0 THEN 0 ELSE Len(w.rows) - n
        <3>2. k \in Int /\ k <= Len(w.rows) /\ rows = SubSeq(w.rows, 1, k)
            BY <2>2, <3>1 DEF DropLast
        <3>. HIDE DEF k, n
        <3>. QED
            BY <2>2, <3>2
    <2>5. popFront(w, count) = [w EXCEPT !.tail = g, !.uuids = v, !.rows = rows]
        <3>. HIDE DEF n, v
        <3>. QED
            BY <1>2 DEF popFront, n, v
    <2>7. g \in Nat /\ h <= g + 1 /\ (h = 0 => g = 0 /\ DOMAIN v = {}) /\ DOMAIN v \subseteq h .. g
        <3>1. g \in Nat /\ h <= g + 1
            BY <2>1, <2>2
        <3>2. ASSUME h = 0 PROVE g = 0 /\ DOMAIN v = {}
            <4>1. t = 0 /\ DOMAIN w.uuids = {}
                BY <2>1, <3>2
            <4>2. n = 0 /\ DOMAIN v = {}
                BY <2>2, <4>1
            <4>. HIDE DEF n, v
            <4>. QED
                BY <4>1, <4>2
        <3>3. \A c \in DOMAIN v : c \in Nat /\ h <= c /\ c <= g
            BY <2>1, <2>2, <2>3
        <3>. HIDE DEF g, v
        <3>. QED
            BY <3>1, <3>2, <3>3
    <2>. HIDE DEF g, n, v, rows
    <2>6. popFront(w, count) = x
        BY <2>1, <2>5, TailPopped
    <2>8. x \in Windows
        BY <2>1, <2>2, <2>4, <2>7 DEF Windows
    <2>9. Contained(x)
        <3>1. x.head = h /\ x.tail = g /\ x.uuids = v
            OBVIOUS
        <3>. HIDE DEF x
        <3>. QED
            BY <2>2, <2>7, <2>8, <3>1 DEF Contained
    <2>. QED
        BY <2>6, <2>9
<1>. QED
    BY <1>1, <1>2

(* A fold whose steps keep windows contained.                              *)
LEMMA FoldContained ==
    ASSUME NEW S, IsFiniteSet(S), NEW pick, Picks(pick, S), NEW f, Contained(f[{}]),
           \A s \in SUBSET S : s # {} /\ Contained(f[s \ {pick[s]}]) => Contained(f[s])
    PROVE  \A s \in SUBSET S : Contained(f[s])
<1>. DEFINE F == {s \in SUBSET S : ~Contained(f[s])}
<1>. SUFFICES ASSUME F # {} PROVE FALSE
    OBVIOUS
<1>1. PICK m \in F : \A s \in F : s \subseteq m => s = m
    <2>1. F \in SUBSET SUBSET S
        OBVIOUS
    <2>. HIDE DEF F
    <2>. QED
        BY <2>1, SmallestSet
<1>2. m \in SUBSET S /\ ~Contained(f[m]) /\ m # {}
    BY <1>1
<1>3. pick[m] \in m /\ m \ {pick[m]} \in SUBSET S
    BY <1>2 DEF Picks
<1>4. Contained(f[m \ {pick[m]}])
    BY <1>1, <1>3
<1>. QED
    BY <1>2, <1>4

LEMMA PushFrontContained ==
    ASSUME NEW w, Contained(w), NEW events \in SUBSET (Nat \ {0}), IsFiniteSet(events)
    PROVE  Contained(pushFront(w, events))
<1>. DEFINE S == {e \in events : e > w.tail}
            f == CHOOSE g : IsAppending(g, w, S)
            Containing == {v \in Windows : Contained(v)}
            step == [p \in S \X Containing |-> AppendEvent(p[2], p[1])]
            pick == [s \in SUBSET S |-> Max(s)]
<1>1. pushFront(w, events) = f[S]
    BY DEF pushFront, MapThenFoldSet, IsAppending, AppendStep, Below
<1>2. S \in SUBSET (Nat \ {0}) /\ IsFiniteSet(S)
    BY FS_Subset
<1>. HIDE DEF S
<1>3. \A s \in SUBSET S : s # {} =>
          pick[s] = Max(s) /\ Max(s) \in s /\ s \ {pick[s]} = Below(s)
    <2>. SUFFICES ASSUME NEW s \in SUBSET S, s # {} PROVE Max(s) \in s
        BY DEF Below
    <2>1. IsFiniteSet(s)
        BY <1>2, FS_Subset, Zenon
    <2>2. s \in SUBSET Int
        BY <1>2
    <2>. QED
        BY <2>1, <2>2, MaxOfCounters, Zenon
<1>4. Picks(pick, S)
    BY <1>3 DEF Picks
<1>. HIDE DEF pick
<1>5. ASSUME NEW e \in S, NEW v, Contained(v)
      PROVE  step[<<e, v>>] = AppendEvent(v, e) /\ Contained(AppendEvent(v, e))
    <2>1. v \in Containing /\ e \in Nat \ {0}
        BY <1>2, <1>5 DEF Contained
    <2>. HIDE DEF Containing
    <2>2. step[<<e, v>>] = AppendEvent(v, e)
        BY <2>1
    <2>. QED
        BY <1>5, <2>1, <2>2, AppendContained
<1>. HIDE DEF step
<1>6. PICK g : IsFold(g, S, pick, step, w)
    BY <1>2, <1>4, FoldExists
<1>7. \A s \in SUBSET S : g[s] = FoldStep(g, s, pick, step, w)
    BY <1>6 DEF IsFold
<1>8. \A s \in SUBSET S : Contained(g[s])
    <2>1. Contained(g[{}])
        BY <1>7 DEF FoldStep
    <2>2. ASSUME NEW s \in SUBSET S, s # {}, Contained(g[s \ {pick[s]}])
          PROVE  Contained(g[s])
        <3>1. pick[s] \in S
            BY <1>3, <2>2
        <3>2. g[s] = step[<<pick[s], g[s \ {pick[s]}]>>]
            BY <1>7, <2>2 DEF FoldStep
        <3>. QED
            BY <1>5, <2>2, <3>1, <3>2
    <2>. QED
        BY <1>2, <1>4, <2>1, <2>2, FoldContained
<1>9. IsAppending(g, w, S)
    <2>1. ASSUME NEW s \in SUBSET S PROVE FoldStep(g, s, pick, step, w) = AppendStep(g, w, s)
        <3>1. CASE s = {}
            BY <3>1 DEF FoldStep, AppendStep
        <3>2. CASE s # {}
            <4>1. pick[s] = Max(s) /\ s \ {pick[s]} = Below(s) /\ Max(s) \in S
                BY <1>3, <3>2
            <4>2. Contained(g[Below(s)])
                BY <1>8, <4>1
            <4>3. step[<<Max(s), g[Below(s)]>>] = AppendEvent(g[Below(s)], Max(s))
                BY <1>5, <4>1, <4>2
            <4>. QED
                BY <3>2, <4>1, <4>3 DEF FoldStep, AppendStep
        <3>. QED
            BY <3>1, <3>2
    <2>. QED
        BY <1>6, <2>1 DEF IsFold, IsAppending
<1>10. IsAppending(f, w, S)
    <2>1. \E h : IsAppending(h, w, S)
        BY <1>9
    <2>. QED
        BY <2>1, Zenon
<1>. HIDE DEF f
<1>11. \A s \in SUBSET S : f[s] = AppendStep(f, w, s)
    BY <1>10 DEF IsAppending
<1>12. \A s \in SUBSET S : Contained(f[s])
    <2>1. Contained(f[{}])
        BY <1>11 DEF AppendStep
    <2>2. ASSUME NEW s \in SUBSET S, s # {}, Contained(f[s \ {pick[s]}])
          PROVE  Contained(f[s])
        <3>1. s \ {pick[s]} = Below(s) /\ Max(s) \in S
            BY <1>3, <2>2
        <3>2. f[s] = AppendEvent(f[Below(s)], Max(s))
            BY <1>11, <2>2 DEF AppendStep
        <3>. QED
            BY <1>5, <2>2, <3>1, <3>2
    <2>. QED
        BY <1>2, <1>4, <2>1, <2>2, FoldContained
<1>. QED
    BY <1>1, <1>12

LEMMA PushBackContained ==
    ASSUME NEW w, Contained(w), NEW events \in SUBSET (Nat \ {0}), IsFiniteSet(events)
    PROVE  Contained(pushBack(w, events))
<1>. DEFINE S == {e \in events : e < w.head \/ e > w.tail}
            f == CHOOSE g : IsPrepending(g, w, S)
            Containing == {v \in Windows : Contained(v)}
            step == [p \in S \X Containing |-> PrependEvent(p[2], p[1])]
            pick == [s \in SUBSET S |-> Min(s)]
<1>1. pushBack(w, events) = f[S]
    BY DEF pushBack, MapThenFoldSet, IsPrepending, PrependStep, Above
<1>2. S \in SUBSET (Nat \ {0}) /\ IsFiniteSet(S)
    BY FS_Subset
<1>. HIDE DEF S
<1>3. \A s \in SUBSET S : s # {} =>
          pick[s] = Min(s) /\ Min(s) \in s /\ s \ {pick[s]} = Above(s)
    <2>. SUFFICES ASSUME NEW s \in SUBSET S, s # {} PROVE Min(s) \in s
        BY DEF Above
    <2>1. IsFiniteSet(s)
        BY <1>2, FS_Subset, Zenon
    <2>2. s \in SUBSET Int
        BY <1>2
    <2>. QED
        BY <2>1, <2>2, MinOfSome, Zenon
<1>4. Picks(pick, S)
    BY <1>3 DEF Picks
<1>. HIDE DEF pick
<1>5. ASSUME NEW e \in S, NEW v, Contained(v)
      PROVE  step[<<e, v>>] = PrependEvent(v, e) /\ Contained(PrependEvent(v, e))
    <2>1. v \in Containing /\ e \in Nat \ {0}
        BY <1>2, <1>5 DEF Contained
    <2>. HIDE DEF Containing
    <2>2. step[<<e, v>>] = PrependEvent(v, e)
        BY <2>1
    <2>. QED
        BY <1>5, <2>1, <2>2, PrependContained
<1>. HIDE DEF step
<1>6. PICK g : IsFold(g, S, pick, step, w)
    BY <1>2, <1>4, FoldExists
<1>7. \A s \in SUBSET S : g[s] = FoldStep(g, s, pick, step, w)
    BY <1>6 DEF IsFold
<1>8. \A s \in SUBSET S : Contained(g[s])
    <2>1. Contained(g[{}])
        BY <1>7 DEF FoldStep
    <2>2. ASSUME NEW s \in SUBSET S, s # {}, Contained(g[s \ {pick[s]}])
          PROVE  Contained(g[s])
        <3>1. pick[s] \in S
            BY <1>3, <2>2
        <3>2. g[s] = step[<<pick[s], g[s \ {pick[s]}]>>]
            BY <1>7, <2>2 DEF FoldStep
        <3>. QED
            BY <1>5, <2>2, <3>1, <3>2
    <2>. QED
        BY <1>2, <1>4, <2>1, <2>2, FoldContained
<1>9. IsPrepending(g, w, S)
    <2>1. ASSUME NEW s \in SUBSET S PROVE FoldStep(g, s, pick, step, w) = PrependStep(g, w, s)
        <3>1. CASE s = {}
            BY <3>1 DEF FoldStep, PrependStep
        <3>2. CASE s # {}
            <4>1. pick[s] = Min(s) /\ s \ {pick[s]} = Above(s) /\ Min(s) \in S
                BY <1>3, <3>2
            <4>2. Contained(g[Above(s)])
                BY <1>8, <4>1
            <4>3. step[<<Min(s), g[Above(s)]>>] = PrependEvent(g[Above(s)], Min(s))
                BY <1>5, <4>1, <4>2
            <4>. QED
                BY <3>2, <4>1, <4>3 DEF FoldStep, PrependStep
        <3>. QED
            BY <3>1, <3>2
    <2>. QED
        BY <1>6, <2>1 DEF IsFold, IsPrepending
<1>10. IsPrepending(f, w, S)
    <2>1. \E h : IsPrepending(h, w, S)
        BY <1>9
    <2>. QED
        BY <2>1, Zenon
<1>. HIDE DEF f
<1>11. \A s \in SUBSET S : f[s] = PrependStep(f, w, s)
    BY <1>10 DEF IsPrepending
<1>12. \A s \in SUBSET S : Contained(f[s])
    <2>1. Contained(f[{}])
        BY <1>11 DEF PrependStep
    <2>2. ASSUME NEW s \in SUBSET S, s # {}, Contained(f[s \ {pick[s]}])
          PROVE  Contained(f[s])
        <3>1. s \ {pick[s]} = Above(s) /\ Min(s) \in S
            BY <1>3, <2>2
        <3>2. f[s] = PrependEvent(f[Above(s)], Min(s))
            BY <1>11, <2>2 DEF PrependStep
        <3>. QED
            BY <1>5, <2>2, <3>1, <3>2
    <2>. QED
        BY <1>2, <1>4, <2>1, <2>2, FoldContained
<1>. QED
    BY <1>1, <1>12

----------------------------------------------------------------------------
(* An operation that waits for the API keeps the scroll service paused and *)
(* the batches off the rows; a batch on its way to the rows keeps it       *)
(* paused too, so that no operation can begin.                             *)
OpAlone == op # "none" => paused /\ lockFrames /\ ~pushing.on
PushPauses == pushing.on => paused /\ frames.busy
ViewerInv == OpAlone /\ PushPauses /\ LockedWhileFollowing

LEMMA InitViewer == ViewerInit => ViewerInv
BY DEF ViewerInit, PageOpens, Nothing, ViewerInv, OpAlone, PushPauses,
       LockedWhileFollowing

----------------------------------------------------------------------------
(* What a step of the stream or of the websocket leaves alone.             *)
LEMMA Untouched ==
    ASSUME ViewerInv,
           UNCHANGED <<op, paused, lockFrames, pushing, following, locked>>,
           frames' = frames
    PROVE  ViewerInv'
BY DEF ViewerInv, OpAlone, PushPauses, LockedWhileFollowing

LEMMA ListeningKeeps ==
    ASSUME ViewerInv,
           \/ \E e \in Events : handleJobEvent(e)
           \/ handleSummaryEvent \/ JobRuns \/ Fetched \/ FetchFails
           \/ UNCHANGED ViewerVars
    PROVE  ViewerInv'
<1>1. UNCHANGED <<op, paused, lockFrames, pushing, following, locked, frames>>
    BY DEF handleJobEvent, handleSummaryEvent, JobRuns, Fetched, FetchFails,
       ViewerVars, StreamVars, viewer, request, flags, scroll
<1>. QED
    BY <1>1, Untouched

(* onFrames touches the rows only when no operation is under way, and then *)
(* pauses.                                                                 *)
LEMMA OnFramesKeeps ==
    ASSUME ViewerInv, NEW batch, onFrames(batch), frames'.busy,
           UNCHANGED <<op, lockFrames>>, ~pushing.on
    PROVE  OpAlone' /\ PushPauses' /\ (following => following')
<1>1. CASE UNCHANGED <<pushing, paused>>
    BY <1>1 DEF onFrames, ViewerInv, OpAlone, PushPauses
<1>2. CASE ~lockFrames /\ paused' = TRUE
    BY <1>2 DEF onFrames, ViewerInv, OpAlone, PushPauses
<1>3. UNCHANGED <<pushing, paused>> \/ (~lockFrames /\ paused' = TRUE)
    BY DEF onFrames
<1>. QED
    BY <1>1, <1>2, <1>3

LEMMA StreamTaskKeeps ==
    ASSUME ViewerInv, ViewerStreamTask
    PROVE  ViewerInv'
<1>1. ASSUME ~frames.busy, UNCHANGED <<op, lockFrames>>,
             IF frames'.busy THEN onFrames(frames'.events)
             ELSE UNCHANGED <<following, pushing, paused>>
      PROVE  OpAlone' /\ PushPauses' /\ (following => following')
    <2>1. ~pushing.on
        BY <1>1 DEF ViewerInv, PushPauses
    <2>2. CASE frames'.busy
        BY <1>1, <2>1, <2>2, OnFramesKeeps
    <2>3. CASE ~frames'.busy
        BY <1>1, <2>1, <2>3 DEF ViewerInv, OpAlone, PushPauses
    <2>. QED
        BY <2>2, <2>3
<1>2. CASE ViewerPushTask
    <2>1. OpAlone' /\ PushPauses' /\ (following => following')
        BY <1>1, <1>2 DEF ViewerPushTask, PushTask, request
    <2>2. locked' => locked \/ following
        BY <1>2 DEF ViewerPushTask, onFrameRate
    <2>. QED
        BY <2>1, <2>2 DEF ViewerInv, LockedWhileFollowing
<1>3. CASE ViewerFinalTask
    <2>1. OpAlone' /\ PushPauses' /\ (following => following')
        BY <1>1, <1>3 DEF ViewerFinalTask, FinalCounterTask, request
    <2>2. locked' = locked
        BY <1>3 DEF ViewerFinalTask
    <2>. QED
        BY <2>1, <2>2 DEF ViewerInv, LockedWhileFollowing
<1>4. CASE ViewerFramesShown
    <2>1. ~pushing'.on /\ UNCHANGED <<op, lockFrames>>
        BY <1>4 DEF ViewerFramesShown, Nothing, request
    <2>2. pushing.on \/ paused' = paused
        BY <1>4 DEF ViewerFramesShown
    <2>3. locked' => following'
        BY <1>4 DEF ViewerFramesShown, ViewerInv, LockedWhileFollowing
    <2>. QED
        BY <2>1, <2>2, <2>3 DEF ViewerInv, OpAlone, PushPauses, LockedWhileFollowing
<1>. QED
    BY <1>2, <1>3, <1>4 DEF ViewerStreamTask

(* An operation begins only when the scroll service is not paused, that is *)
(* when there is no other and no batch on its way.                         *)
LEMMA ClickKeeps ==
    ASSUME ViewerInv, Click
    PROVE  ViewerInv'
<1>1. UNCHANGED <<frames, pushing>>
    BY DEF Click, StreamVars
<1>2. ASSUME UNCHANGED <<op, asked, paused, lockFrames>> \/
             (~paused /\ \E kind, counters : Begin(kind, counters))
      PROVE  OpAlone' /\ PushPauses'
    BY <1>1, <1>2 DEF Begin, Ask, ViewerInv, OpAlone, PushPauses
<1>3. stopFollowing => (locked' => following')
    BY DEF stopFollowing, ViewerInv, LockedWhileFollowing
<1>4. CASE firstRange
    BY <1>2, <1>3, <1>4 DEF firstRange, request, ViewerInv, LockedWhileFollowing
<1>5. CASE nextRange
    BY <1>2, <1>5 DEF nextRange, ViewerInv, LockedWhileFollowing
<1>6. CASE previousRange
    BY <1>2, <1>3, <1>6 DEF previousRange, ViewerInv, LockedWhileFollowing
<1>7. CASE menuLastRange
    BY <1>2, <1>3, <1>7 DEF menuLastRange, request, ViewerInv, LockedWhileFollowing
<1>8. CASE onThresholdLeave
    BY <1>2, <1>3, <1>8 DEF onThresholdLeave, request, ViewerInv, LockedWhileFollowing
<1>. QED
    BY <1>4, <1>5, <1>6, <1>7, <1>8 DEF Click

(* The answer of the API ends the operation, or goes on with its next      *)
(* request; no batch is on its way to the rows.                            *)
LEMMA AnswerKeeps ==
    ASSUME ViewerInv, Answered
    PROVE  ViewerInv'
<1>1. /\ op # "none" /\ UNCHANGED <<frames, pushing, locked>>
      /\ following => following'
    <2>1. op # "none"
        BY DEF Answered, firstLoaded, rangeLoaded, lastLoaded, requestFails
    <2>2. UNCHANGED Others
        BY DEF Answered, firstLoaded, rangeLoaded, lastLoaded, requestFails
    <2>3. following => following'
        BY DEF Answered, firstLoaded, rangeLoaded, lastLoaded, requestFails
    <2>. QED
        BY <2>1, <2>2, <2>3 DEF Others
<1>2. \/ op' = "none"
      \/ UNCHANGED <<paused, lockFrames>>
    BY DEF Answered, firstLoaded, rangeLoaded, lastLoaded, requestFails, End,
       AskNothing, Ask
<1>3. ~pushing.on /\ paused /\ lockFrames
    BY <1>1 DEF ViewerInv, OpAlone
<1>. QED
    BY <1>1, <1>2, <1>3 DEF ViewerInv, OpAlone, PushPauses, LockedWhileFollowing

----------------------------------------------------------------------------
LEMMA ViewerInvariant == ViewerSpec => []ViewerInv
<1>1. ViewerInv /\ [ViewerNext]_ViewerVars => ViewerInv'
    BY ListeningKeeps, StreamTaskKeeps, ClickKeeps, AnswerKeeps DEF ViewerNext
<1>. QED
    BY InitViewer, <1>1, PTL DEF ViewerSpec

(* paused and lockFrames keep the operations and onFrames off each other's *)
(* rows.                                                                   *)
THEOREM RowsHaveOneWriter == ViewerSpec => []OneRendering
<1>1. ViewerInv => OneRendering
    BY DEF ViewerInv, OpAlone, OneRendering
<1>. QED
    BY <1>1, ViewerInvariant, PTL

(* startFollowing, stopFollowing, onFrameRate and onStop never leave the   *)
(* scroll bar locked when the page does not follow.                        *)
THEOREM ScrollBarGivenBack == ViewerSpec => []LockedWhileFollowing
<1>1. ViewerInv => LockedWhileFollowing
    BY DEF ViewerInv
<1>. QED
    BY <1>1, ViewerInvariant, PTL

----------------------------------------------------------------------------
(* How many events a table may have: a full page and one, or the buffer.   *)
Most == Max({EventLimit + 1, MaxBuffer})
Few(S) == IsFiniteSet(S) /\ Cardinality(S) <= Most

LEMMA MostBounds ==
    Most \in Nat /\ EventLimit + 1 <= Most /\ MaxBuffer <= Most
<1>1. EventLimit \in Nat /\ MaxBuffer \in Nat
    BY SizeAssumption
<1>2. IsFiniteSet({EventLimit + 1, MaxBuffer})
    <2>1. IsFiniteSet({EventLimit + 1} \cup {MaxBuffer})
        BY FS_Singleton, FS_AddElement, Zenon
    <2>2. {EventLimit + 1, MaxBuffer} = {EventLimit + 1} \cup {MaxBuffer}
        OBVIOUS
    <2>. QED
        BY <2>1, <2>2, Zenon
<1>3. {EventLimit + 1, MaxBuffer} \in SUBSET Int /\ {EventLimit + 1, MaxBuffer} # {}
    BY <1>1
<1>4. /\ Most \in {EventLimit + 1, MaxBuffer}
      /\ \A c \in {EventLimit + 1, MaxBuffer} : c <= Most
    BY <1>2, <1>3, MaxOfCounters, Zenon DEF Most
<1>. QED
    BY <1>1, <1>4

LEMMA SomeEvents ==
    ASSUME NEW S \in SUBSET Events
    PROVE  IsFiniteSet(S) /\ S \in SUBSET (Nat \ {0}) /\ S \in SUBSET Int
<1>1. LastEvent \in Nat
    BY SizeAssumption
<1>2. IsFiniteSet(1 .. LastEvent)
    BY <1>1, FS_Interval
<1>3. IsFiniteSet(S)
    BY <1>2, FS_Subset, Zenon DEF Events
<1>. QED
    BY <1>1, <1>3 DEF Events

LEMMA Joined ==
    ASSUME NEW S, IsFiniteSet(S), NEW T, IsFiniteSet(T), NEW U \in SUBSET (S \cup T)
    PROVE  /\ IsFiniteSet(U) /\ Cardinality(U) \in Nat
           /\ Cardinality(U) <= Cardinality(S) + Cardinality(T)
<1>1. /\ IsFiniteSet(S \cup T)
      /\ Cardinality(S \cup T) = Cardinality(S) + Cardinality(T) - Cardinality(S \cap T)
    BY FS_Union
<1>2. IsFiniteSet(S \cap T)
    <2>1. S \cap T \in SUBSET S
        OBVIOUS
    <2>. QED
        BY <2>1, FS_Subset, Zenon
<1>3. IsFiniteSet(U) /\ Cardinality(U) <= Cardinality(S \cup T)
    BY <1>1, FS_Subset, Zenon
<1>4. /\ Cardinality(S) \in Nat /\ Cardinality(T) \in Nat /\ Cardinality(U) \in Nat
      /\ Cardinality(S \cap T) \in Nat
    BY <1>2, <1>3, FS_CardinalityType
<1>. QED
    BY <1>1, <1>3, <1>4

(* What popBack or popFront take from a window.                            *)
Pops(w, count, popped) ==
    \/ popped = IF count <= 0 THEN {} ELSE w.head .. w.head + count
    \/ popped = IF count <= 0 THEN {} ELSE w.tail - count .. w.tail

(* A window that was popped by as much as the new events need, and them.   *)
LEMMA FewEvents ==
    ASSUME NEW w, Tidy(w), NEW popped, NEW v, Shrunk(v, w, popped), NEW R, Few(R),
           NEW count, count = Cardinality(R) - getCapacity(w), Pops(w, count, popped),
           NEW U \in SUBSET (EventsIn(v) \cup R)
    PROVE  Few(U)
<1>. DEFINE room == IF count <= 0 THEN w.head .. w.tail
                    ELSE IF popped = w.head .. w.head + count
                    THEN w.head + count + 1 .. w.tail ELSE w.head .. (w.tail - count) - 1
            n == Cardinality(R)
<1>1. /\ w.head \in Nat /\ w.tail \in Nat /\ w.head <= w.tail + 1
      /\ DOMAIN w.uuids \subseteq w.head .. w.tail
    BY DEF Tidy, Windows, RecordsTidy
<1>2. /\ n \in Nat /\ EventLimit \in Nat /\ count \in Int
      /\ count = n - (EventLimit - (w.tail - w.head))
    BY <1>1, SizeAssumption, FS_CardinalityType DEF Few, getCapacity
<1>3. EventsIn(v) \subseteq room
    <2>1. EventsIn(v) \subseteq EventsIn(w) \ popped /\ EventsIn(w) \subseteq w.head .. w.tail
        BY <1>1 DEF Shrunk, EventsIn
    <2>. HIDE DEF n
    <2>2. CASE count <= 0
        BY <2>1, <2>2
    <2>3. CASE count > 0 /\ popped = w.head .. w.head + count
        BY <1>1, <1>2, <2>1, <2>3
    <2>4. CASE count > 0 /\ popped # w.head .. w.head + count
        BY <1>1, <1>2, <2>1, <2>4 DEF Pops
    <2>. QED
        BY <1>2, <2>2, <2>3, <2>4
<1>. HIDE DEF n
<1>4. ASSUME NEW a \in Int, NEW b \in Int
      PROVE  IsFiniteSet(a .. b) /\ Cardinality(a .. b) = IF a > b THEN 0 ELSE b - a + 1
    BY FS_Interval, Zenon
<1>5. w.head \in Int /\ w.tail \in Int /\ w.head + count + 1 \in Int /\ (w.tail - count) - 1 \in Int
    BY <1>1, <1>2
<1>6. /\ IsFiniteSet(w.head .. w.tail)
      /\ Cardinality(w.head .. w.tail) = IF w.head > w.tail THEN 0 ELSE w.tail - w.head + 1
    BY <1>4, <1>5, Zenon
<1>7. /\ IsFiniteSet(w.head + count + 1 .. w.tail)
       /\ Cardinality(w.head + count + 1 .. w.tail)
              = IF w.head + count + 1 > w.tail THEN 0 ELSE w.tail - (w.head + count + 1) + 1
    BY <1>4, <1>5, Zenon
<1>8. /\ IsFiniteSet(w.head .. (w.tail - count) - 1)
       /\ Cardinality(w.head .. (w.tail - count) - 1)
              = IF w.head > (w.tail - count) - 1 THEN 0 ELSE (w.tail - count) - 1 - w.head + 1
    BY <1>4, <1>5, Zenon
<1>9. /\ IsFiniteSet(room) /\ Cardinality(room) \in Nat
      /\ Cardinality(room) + n <= EventLimit + 1 \/ Cardinality(room) + n <= n
    <2>1. CASE count <= 0
        <3>1. IsFiniteSet(room) /\ Cardinality(room) = (w.tail - w.head) + 1
            <4>1. room = w.head .. w.tail
                BY <2>1
            <4>. HIDE DEF room
            <4>. QED
                BY <1>1, <1>6, <4>1
        <3>. QED
            BY <1>1, <1>2, <2>1, <3>1
    <2>2. CASE count > 0
        <3>1. /\ IsFiniteSet(room)
              /\ Cardinality(room) = IF count > w.tail - w.head THEN 0
                                     ELSE (w.tail - w.head) - count
            <4>1. CASE popped = w.head .. w.head + count
                <5>1. room = w.head + count + 1 .. w.tail
                    BY <1>2, <2>2, <4>1 DEF Pops
                <5>. HIDE DEF room
                <5>. QED
                    BY <1>1, <1>2, <1>7, <2>2, <5>1
            <4>2. CASE popped # w.head .. w.head + count
                <5>1. room = w.head .. (w.tail - count) - 1
                    BY <1>2, <2>2, <4>2 DEF Pops
                <5>. HIDE DEF room
                <5>. QED
                    BY <1>1, <1>2, <1>8, <2>2, <5>1
            <4>. QED
                BY <4>1, <4>2
        <3>. DEFINE k == Cardinality(room)
                    d == w.tail - w.head
        <3>2. /\ k = IF count > d THEN 0 ELSE d - count
              /\ d \in Int /\ count = n - (EventLimit - d)
            BY <1>1, <1>2, <3>1
        <3>. HIDE DEF k, d
        <3>3. k \in Nat /\ (k + n <= EventLimit + 1 \/ k + n <= n)
            BY <1>2, <2>2, <3>2
        <3>. QED
            BY <3>1, <3>3 DEF k
    <2>. QED
        BY <1>2, <2>1, <2>2
<1>10. U \in SUBSET (room \cup R)
    BY <1>3
<1>. HIDE DEF room
<1>11. IsFiniteSet(U) /\ Cardinality(U) \in Nat /\ Cardinality(U) <= Cardinality(room) + n
    BY <1>9, <1>10, Joined, Zenon DEF Few, n
<1>. QED
    BY <1>2, <1>9, <1>11, MostBounds DEF Few, n

(* getFirst and getLast give no more than a page.                          *)
LEMMA PageIsSmall ==
    ASSUME NEW S \in SUBSET Events
    PROVE  /\ Few(FirstEvents(S)) /\ FirstEvents(S) \in SUBSET Events
           /\ Few(LastEvents(S)) /\ LastEvents(S) \in SUBSET Events
<1>1. PageSize \in Nat \ {0} /\ PageSize <= EventLimit /\ EventLimit \in Nat
    BY SizeAssumption
<1>2. IsFiniteSet(S) /\ S \in SUBSET Int
    BY SomeEvents
<1>3. ASSUME NEW F \in SUBSET S, NEW T \in SUBSET S, F \subseteq T,
             F = {} \/ Cardinality(T) <= PageSize
      PROVE  Few(F)
    <2>1. IsFiniteSet(T) /\ IsFiniteSet(F)
        BY <1>2, FS_Subset, Zenon
    <2>2. Cardinality(F) \in Nat /\ Cardinality(T) \in Nat
        BY <2>1, FS_CardinalityType
    <2>3. Cardinality(F) <= Cardinality(T) \/ Cardinality(F) = 0
        BY <1>3, <2>1, FS_Subset, Zenon
    <2>4. F = {} => Cardinality(F) = 0
        BY FS_EmptySet
    <2>. QED
        BY <1>1, <1>3, <2>1, <2>2, <2>3, <2>4, MostBounds DEF Few
<1>4. Few(FirstEvents(S))
    <2>1. CASE FirstEvents(S) = {}
        BY <1>3, <2>1
    <2>2. CASE FirstEvents(S) # {}
        <3>. DEFINE F == FirstEvents(S)
                    m == Max(F)
        <3>1. F \in SUBSET Int /\ F \in SUBSET S
            BY <1>2 DEF FirstEvents
        <3>2. IsFiniteSet(F)
            BY <1>2, <3>1, FS_Subset, Zenon
        <3>3. m \in F /\ \A c \in F : c <= m
            BY <2>2, <3>1, <3>2, MaxOfCounters, Zenon
        <3>4. Cardinality({f \in S : f <= m}) <= PageSize
            BY <3>3 DEF FirstEvents
        <3>. HIDE DEF F
        <3>5. F \subseteq {f \in S : f <= m}
            BY <3>1, <3>3
        <3>. QED
            BY <1>3, <3>1, <3>4, <3>5 DEF F
    <2>. QED
        BY <2>1, <2>2
<1>5. Few(LastEvents(S))
    <2>. DEFINE rest == Cardinality(S) % PageSize
                many == IF rest = 0 THEN PageSize ELSE rest
                F == LastEvents(S)
                m == Min(F)
    <2>1. many \in Nat /\ many <= PageSize
        <3>1. Cardinality(S) \in Nat
            BY <1>2, FS_CardinalityType
        <3>. QED
            BY <1>1, <3>1
    <2>. HIDE DEF rest
    <2>2. CASE F = {}
        BY <1>3, <2>2
    <2>3. CASE F # {}
        <3>1. F \in SUBSET Int /\ F \in SUBSET S
            BY <1>2 DEF LastEvents
        <3>2. IsFiniteSet(F)
            BY <1>2, <3>1, FS_Subset, Zenon
        <3>3. m \in F /\ \A c \in F : m <= c
            BY <2>3, <3>1, <3>2, MinOfSome, Zenon
        <3>4. Cardinality({f \in S : f >= m}) <= many
            BY <3>3 DEF LastEvents, rest
        <3>5. IsFiniteSet({f \in S : f >= m})
            <4>1. {f \in S : f >= m} \in SUBSET S
                OBVIOUS
            <4>. QED
                BY <1>2, <4>1, FS_Subset, Zenon
        <3>6. Cardinality({f \in S : f >= m}) \in Nat
            BY <3>5, FS_CardinalityType
        <3>7. Cardinality({f \in S : f >= m}) <= PageSize
            BY <1>1, <2>1, <3>4, <3>6
        <3>. HIDE DEF F, many
        <3>8. F \subseteq {f \in S : f >= m}
            BY <3>1, <3>3
        <3>. QED
            BY <1>3, <3>1, <3>7, <3>8 DEF F
    <2>. QED
        BY <2>2, <2>3
<1>. QED
    BY <1>4, <1>5 DEF FirstEvents, LastEvents

----------------------------------------------------------------------------
(* What the handlers pass on are events, no more than they hold; the rows  *)
(* make as much room as a batch or an answer needs, and what is loaded     *)
(* before the rows belongs there.                                          *)
Chained ==
    chain \in Seq(Events \cup {FinalTask}) /\ (frames.busy => chain # <<>>)
Waits ==
    /\ streaming \in {"none", "fetching", "on", "failed"}
    /\ waiting \in Seq(Events) /\ (streaming = "fetching" => waiting # <<>>)
Passed ==
    /\ rx \subseteq Events /\ Chained /\ Waits
    /\ frames.busy => frames.events \subseteq Events
    /\ slide \subseteq Events /\ Cardinality(slide) <= MaxBuffer

Fits(w, p) ==
    p.on => /\ p.events \subseteq Events /\ Cardinality(p.events) <= MaxBuffer
            /\ p.popCount = Cardinality(p.events) - getCapacity(w)

Asked(w, kind, counters) ==
    kind \in {"firstNext", "next", "previous"} =>
        /\ IsFiniteSet(counters) /\ Cardinality(counters) <= PageSize + 1
        /\ kind = "previous" => \A e \in counters : e < w.head

TidyTable(w) == Tidy(w) /\ Few(EventsIn(w))

Rows == TidyTable(screen) /\ Fits(screen, pushing) /\ Asked(screen, op, asked)
PageInv == ViewerInv /\ Passed /\ Rows

LEMMA InitPage == ViewerInit => PageInv
<1>. SUFFICES ASSUME ViewerInit PROVE PageInv
    OBVIOUS
<1>1. Passed
    <2>1. rx = {} /\ chain = <<>> /\ waiting = <<>> /\ slide = {}
          /\ ~frames.busy /\ streaming = "none"
        BY DEF ViewerInit, bufferInit, PageOpens, NoFrames
    <2>2. Cardinality({}) = 0 /\ MaxBuffer \in Nat
        BY FS_EmptySet, SizeAssumption
    <2>. QED
        BY <2>1, <2>2 DEF Passed, Chained, Waits
<1>2. screen = NoRows /\ pushing.on = FALSE /\ op = "last"
    BY DEF ViewerInit, PageOpens, Nothing
<1>3. Tidy(NoRows)
    <2>1. <<>> \in [{} -> Ids] /\ {} \in SUBSET Nat
        OBVIOUS
    <2>2. <<>> \in UNION {[T -> Ids] : T \in SUBSET Nat}
        BY <2>1
    <2>3. NoRows \in Windows
        BY <2>2 DEF NoRows, Windows
    <2>4. DOMAIN NoRows.uuids = {} /\ DOMAIN NoRows.rows = {} /\ NoRows.head = 0 /\ NoRows.tail = 0
        BY DEF NoRows
    <2>. QED
        BY <2>3, <2>4 DEF Tidy, RecordsTidy, RowsTidy
<1>4. EventsIn(NoRows) = {}
    BY DEF EventsIn, NoRows
<1>5. Few({})
    BY FS_EmptySet, MostBounds DEF Few
<1>. QED
    BY InitViewer, <1>1, <1>2, <1>3, <1>4, <1>5
       DEF PageInv, Rows, TidyTable, Fits, Asked

----------------------------------------------------------------------------
LEMMA PartOfFew ==
    ASSUME NEW S, Few(S), NEW T \in SUBSET S
    PROVE  Few(T)
<1>1. IsFiniteSet(T) /\ Cardinality(T) <= Cardinality(S)
    BY FS_Subset, Zenon DEF Few
<1>2. Cardinality(T) \in Nat /\ Cardinality(S) \in Nat
    BY <1>1, FS_CardinalityType DEF Few
<1>. QED
    BY <1>1, <1>2, MostBounds DEF Few

(* onFrames and the operations make room and add.                          *)
LEMMA Shifted ==
    ASSUME NEW w, TidyTable(w), NEW R \in SUBSET Events, Few(R)
    PROVE  /\ TidyTable(pushFront(popBack(w, Cardinality(R) - getCapacity(w)), R))
           /\ (\A e \in R : e < w.head) =>
                  TidyTable(pushBack(popFront(w, Cardinality(R) - getCapacity(w)), R))
<1>. DEFINE count == Cardinality(R) - getCapacity(w)
<1>1. w.head \in Nat /\ w.tail \in Nat /\ Tidy(w)
    BY DEF TidyTable, Tidy, Windows
<1>2. count \in Int
    BY <1>1, SizeAssumption, FS_CardinalityType DEF Few, getCapacity
<1>3. IsFiniteSet(R) /\ R \in SUBSET Nat /\ R \in SUBSET (Nat \ {0})
    BY SomeEvents
<1>4. count = Cardinality(R) - getCapacity(w)
    OBVIOUS
<1>. HIDE DEF count
<1>5. TidyTable(pushFront(popBack(w, count), R))
    <2>. DEFINE v == popBack(w, count)
                popped == IF count <= 0 THEN {} ELSE w.head .. w.head + count
    <2>1. Shrunk(v, w, popped)
        BY <1>1, <1>2, PopBackKeepsTidy, Zenon
    <2>2. Tidy(v)
        BY <2>1 DEF Shrunk
    <2>3. Pops(w, count, popped)
        BY DEF Pops
    <2>. HIDE DEF v, popped
    <2>4. Tidy(pushFront(v, R)) /\ EventsIn(pushFront(v, R)) \in SUBSET (EventsIn(v) \cup R)
        BY <1>3, <2>2, PushFrontLoads
    <2>5. Few(EventsIn(pushFront(v, R)))
        BY <1>1, <1>4, <2>1, <2>4, <2>3, FewEvents, Zenon
    <2>. QED
        BY <2>4, <2>5 DEF TidyTable, v
<1>6. ASSUME \A e \in R : e < w.head
      PROVE  TidyTable(pushBack(popFront(w, count), R))
    <2>. DEFINE v == popFront(w, count)
                popped == IF count <= 0 THEN {} ELSE w.tail - count .. w.tail
    <2>1. Shrunk(v, w, popped) /\ v.head = w.head
        BY <1>1, <1>2, PopFrontKeepsTidy, Zenon
    <2>2. Tidy(v)
        BY <2>1 DEF Shrunk
    <2>3. Pops(w, count, popped)
        BY DEF Pops
    <2>. HIDE DEF v, popped
    <2>4. Tidy(pushBack(v, R)) /\ EventsIn(pushBack(v, R)) \in SUBSET (EventsIn(v) \cup R)
        BY <1>3, <1>6, <2>1, <2>2, PushBackLoads
    <2>5. Few(EventsIn(pushBack(v, R)))
        BY <1>1, <1>4, <2>1, <2>4, <2>3, FewEvents, Zenon
    <2>. QED
        BY <2>4, <2>5 DEF TidyTable, v
<1>. QED
    BY <1>5, <1>6 DEF count

(* firstRange and lastRange clear the rows and add.                        *)
LEMMA LoadedAnew ==
    ASSUME NEW w, TidyTable(w), NEW R \in SUBSET Events, Few(R)
    PROVE  TidyTable(cleared(w)) /\ TidyTable(pushFront(cleared(w), R))
<1>1. Tidy(cleared(w)) /\ EventsIn(cleared(w)) = {}
    BY ClearedIsTidy DEF TidyTable
<1>2. IsFiniteSet(R) /\ R \in SUBSET Nat
    BY SomeEvents
<1>. DEFINE v == cleared(w)
<1>. HIDE DEF v
<1>3. Tidy(pushFront(v, R)) /\ EventsIn(pushFront(v, R)) \subseteq EventsIn(v) \cup R
    BY <1>1, <1>2, PushFrontLoads DEF v
<1>4. EventsIn(v) = {} /\ EventsIn(v) \in SUBSET R /\ EventsIn(pushFront(v, R)) \in SUBSET R
    BY <1>1, <1>3 DEF v
<1>5. Few(EventsIn(v)) /\ Few(EventsIn(pushFront(v, R)))
    BY <1>4, PartOfFew, Zenon
<1>. QED
    BY <1>1, <1>3, <1>5 DEF TidyTable, v

----------------------------------------------------------------------------
(* The websocket and the requests of handleJobEvent.                       *)
LEMMA ListeningPasses ==
    ASSUME PageInv,
           \/ \E e \in Events : handleJobEvent(e)
           \/ handleSummaryEvent \/ JobRuns \/ Fetched \/ FetchFails
           \/ UNCHANGED ViewerVars
    PROVE  Passed' /\ Rows'
<1>1. Passed /\ Rows
    BY DEF PageInv
<1>2. UNCHANGED <<rx, frames, slide, screen, pushing, op, asked>>
    BY DEF handleJobEvent, handleSummaryEvent, JobRuns, Fetched, FetchFails,
       ViewerVars, StreamVars, buffer, viewer, request
<1>3. Rows'
    BY <1>1, <1>2 DEF Rows
<1>4. Chained /\ Waits
    BY <1>1 DEF Passed
<1>. USE DEF Chained, Waits
<1>5. <<>> \in Seq(Events)
    OBVIOUS
<1>6. ASSUME NEW e \in Events, handleJobEvent(e)
      PROVE  Chained' /\ Waits'
    <2>1. CASE UNCHANGED <<chain, streaming, waiting>>
        BY <1>2, <1>4, <2>1
    <2>2. CASE pushJobEvent(e) /\ UNCHANGED <<streaming, waiting>>
        BY <1>2, <1>4, <2>2 DEF pushJobEvent
    <2>3. CASE streaming' = "fetching" /\ waiting' = Append(waiting, e) /\ chain' = chain
        <3>1. Append(waiting, e) \in Seq(Events) /\ Append(waiting, e) # <<>>
            BY <1>4
        <3>. QED
            BY <1>2, <1>4, <2>3, <3>1
    <2>. QED
        <3>1. CASE ~listening \/ streaming = "failed"
            BY <1>6, <2>1, <3>1 DEF handleJobEvent
        <3>2. CASE listening /\ streaming = "on"
            BY <1>6, <2>2, <3>2 DEF handleJobEvent
        <3>3. CASE listening /\ streaming \in {"none", "fetching"}
            BY <1>6, <2>3, <3>3 DEF handleJobEvent
        <3>. QED
            BY <1>4, <3>1, <3>2, <3>3
<1>7. ASSUME handleSummaryEvent
      PROVE  Chained' /\ Waits'
    <2>1. chain' = chain \/ chain' = Append(chain, FinalTask)
        BY <1>7 DEF handleSummaryEvent, setFinalCounter
    <2>2. UNCHANGED <<waiting, streaming>>
        BY <1>7 DEF handleSummaryEvent, viewer, listener
    <2>. QED
        BY <1>2, <1>4, <2>1, <2>2
<1>8. ASSUME JobRuns \/ FetchFails \/ UNCHANGED ViewerVars
      PROVE  Chained' /\ Waits'
    <2>1. chain' = chain
        BY <1>8 DEF JobRuns, FetchFails, ViewerVars, StreamVars
    <2>2. UNCHANGED <<waiting, streaming>> \/ (waiting' = <<>> /\ streaming' = "failed")
        BY <1>8 DEF JobRuns, FetchFails, ViewerVars, viewer, listener
    <2>. QED
        BY <1>2, <1>4, <1>5, <2>1, <2>2
<1>9. ASSUME Fetched
      PROVE  Chained' /\ Waits'
    <2>. DEFINE e == Head(waiting)
                near == {n \in Saved : e - Radius <= n /\ n <= e + Radius}
                results == Contiguous(near)
                again == IF e \in results THEN <<e>> ELSE <<>>
    <2>1. chain' = pushJobEvents(chain, results) \o again \o waiting
        BY <1>9 DEF Fetched
    <2>2. waiting' = <<>> /\ streaming' = "on" /\ waiting # <<>>
        BY <1>4, <1>9 DEF Fetched
    <2>3. results \in SUBSET Events
        BY DEF Saved, Arrived, Contiguous
    <2>4. IsFiniteSet(results) /\ results \in SUBSET Int
          /\ results \subseteq Events \cup {FinalTask}
        BY <2>3, SomeEvents
    <2>5. pushJobEvents(chain, results) \in Seq(Events \cup {FinalTask})
        <3>. HIDE DEF results
        <3>. QED
            BY <1>4, <2>4, EventsListed
    <2>6. e \in Events
        BY <1>4, <2>2
    <2>7. again \in Seq(Events \cup {FinalTask})
        <3>1. <<e>> \in Seq(Events \cup {FinalTask}) /\ <<>> \in Seq(Events \cup {FinalTask})
            <4>. HIDE DEF e
            <4>. QED
                BY <2>6
        <3>2. again = <<e>> \/ again = <<>>
            OBVIOUS
        <3>. HIDE DEF again, e
        <3>. QED
            BY <3>1, <3>2
    <2>8. waiting \in Seq(Events \cup {FinalTask})
        <3>1. Events \subseteq Events \cup {FinalTask}
            OBVIOUS
        <3>2. waiting \in [1 .. Len(waiting) -> Events] /\ Len(waiting) \in Nat
            BY <1>4
        <3>. QED
            BY <3>1, <3>2
    <2>. HIDE DEF again, results, near, e
    <2>9. chain' \in Seq(Events \cup {FinalTask})
        <3>1. \A a, b \in Seq(Events \cup {FinalTask}) : a \o b \in Seq(Events \cup {FinalTask})
            OBVIOUS
        <3>2. pushJobEvents(chain, results) \o again \in Seq(Events \cup {FinalTask})
            BY <2>5, <2>7, <3>1, Zenon
        <3>. QED
            BY <2>1, <2>8, <3>1, <3>2, Zenon
    <2>10. chain' # <<>>
        <3>1. \A a, b \in Seq(Events \cup {FinalTask}) :
                  a \o b \in Seq(Events \cup {FinalTask}) /\ (b # <<>> => a \o b # <<>>)
            OBVIOUS
        <3>2. pushJobEvents(chain, results) \o again \in Seq(Events \cup {FinalTask})
            BY <2>5, <2>7, <3>1, Zenon
        <3>. QED
            BY <2>1, <2>2, <2>8, <3>1, <3>2, Zenon
    <2>. QED
        <3>1. Chained'
            BY <2>9, <2>10
        <3>2. Waits'
            BY <1>5, <2>2
        <3>. QED
            BY <3>1, <3>2
<1>10. Chained' /\ Waits'
    BY <1>6, <1>7, <1>8, <1>9
<1>. QED
    BY <1>1, <1>2, <1>3, <1>10 DEF Passed

(* onFrames, up to its first frame.                                        *)
LEMMA OnFramesPasses ==
    ASSUME PageInv, NEW batch \in SUBSET Events, onFrames(batch)
    PROVE  /\ slide' \in SUBSET Events /\ Cardinality(slide') <= MaxBuffer
           /\ pushing' = pushing \/ Fits(screen, pushing')
<1>1. PICK kept \in Kept(batch) :
          /\ slide' = kept
          /\ \/ pushing' = pushing
             \/ \E events \in SUBSET kept :
                    pushing' = [on |-> TRUE, events |-> events,
                                popCount |-> Cardinality(events) - getCapacity(screen)]
    BY DEF onFrames
<1>2. slide \in SUBSET Events /\ MaxBuffer \in Nat
    BY SizeAssumption DEF PageInv, Passed
<1>3. kept \in SUBSET (slide \cup batch) /\ Cardinality(kept) <= MaxBuffer
    <2>1. CASE Cardinality(slide \cup batch) <= MaxBuffer
        BY <2>1 DEF Kept
    <2>2. CASE ~(Cardinality(slide \cup batch) <= MaxBuffer)
        <3>1. kept \in kSubset(MaxBuffer, slide \cup batch)
            BY <2>2 DEF Kept
        <3>. QED
            BY <1>2, <3>1 DEF kSubset
    <2>. QED
        BY <2>1, <2>2
<1>4. kept \in SUBSET Events
    BY <1>2, <1>3
<1>5. ASSUME NEW events \in SUBSET kept,
             pushing' = [on |-> TRUE, events |-> events,
                         popCount |-> Cardinality(events) - getCapacity(screen)]
      PROVE  Fits(screen, pushing')
    <2>1. IsFiniteSet(kept)
        BY <1>4, SomeEvents
    <2>2. IsFiniteSet(events) /\ Cardinality(events) <= Cardinality(kept)
        BY <2>1, FS_Subset, Zenon
    <2>3. Cardinality(events) \in Nat /\ Cardinality(kept) \in Nat
        BY <2>1, <2>2, FS_CardinalityType
    <2>4. Cardinality(events) <= MaxBuffer
        BY <1>2, <1>3, <2>2, <2>3
    <2>. QED
        BY <1>4, <1>5, <2>4 DEF Fits
<1>. QED
    BY <1>1, <1>3, <1>4, <1>5

(* The tasks of the chain, and the rest of onFrames.                       *)
LEMMA StreamTaskPasses ==
    ASSUME PageInv, ViewerStreamTask
    PROVE  Passed' /\ Rows'
<1>1. ViewerInv /\ Passed /\ Rows
    BY DEF PageInv
<1>2. chain \in Seq(Events \cup {FinalTask}) /\ (frames.busy => chain # <<>>)
      /\ rx \in SUBSET Events /\ Waits
    BY <1>1 DEF Passed, Chained
<1>3. UNCHANGED <<streaming, waiting, op, asked>>
    BY DEF ViewerStreamTask, ViewerPushTask, ViewerFinalTask, ViewerFramesShown, request,
       listener
<1>4. chain # <<>> => Tail(chain) \in Seq(Events \cup {FinalTask})
    BY <1>2
<1>5. ASSUME NEW batch \in SUBSET Events, ~frames.busy, rx' \in SUBSET Events,
             screen' = screen, chain' = chain \/ (chain # <<>> /\ chain' = Tail(chain)),
             \/ /\ frames'.busy /\ frames'.events = batch /\ onFrames(batch)
                /\ chain' = chain /\ chain # <<>>
             \/ ~frames'.busy /\ UNCHANGED <<slide, pushing>>
      PROVE  Passed' /\ Rows'
    <2>1. /\ slide' \in SUBSET Events /\ Cardinality(slide') <= MaxBuffer
          /\ pushing' = pushing \/ Fits(screen, pushing')
        BY <1>1, <1>5, OnFramesPasses DEF Passed
    <2>2. frames'.busy => frames'.events \subseteq Events
        BY <1>5
    <2>3. Passed'
        BY <1>2, <1>3, <1>4, <1>5, <2>1, <2>2 DEF Passed, Chained, Waits
    <2>4. Rows'
        BY <1>1, <1>3, <1>5, <2>1 DEF Rows
    <2>. QED
        BY <2>3, <2>4
<1>6. TaskDone /\ chain # <<>> => chain' = Tail(chain) /\ ~frames'.busy
    BY DEF TaskDone, NoFrames
<1>7. ASSUME NEW batch, NEW last, emitFrames(batch, last)
      PROVE  chain' = chain /\ frames'.busy /\ frames'.events = batch
    BY <1>7 DEF emitFrames
<1>8. ASSUME ViewerPushTask
      PROVE  Passed' /\ Rows'
    <2>. DEFINE e == Head(chain)
                top == IF e > max THEN e ELSE max
                held == IF e >= min THEN rx \cup {e} ELSE rx
                full == Cardinality(held) > MaxBuffer
                threshold == ReadyCounter((min .. top) \ held, full, top)
                batch == {b \in held : b <= threshold}
    <2>1. chain # <<>> /\ e # FinalTask /\ ~frames.busy
        BY <1>8 DEF ViewerPushTask, PushTask
    <2>2. e \in Events
        BY <1>2, <2>1
    <2>. HIDE DEF e
    <2>3. held \in SUBSET Events
        BY <1>2, <2>2
    <2>4. batch \in SUBSET Events
        BY <2>3
    <2>5. \/ bufferEmpty(held, threshold) /\ TaskDone
          \/ bufferEmpty(held, threshold) /\ \E last : emitFrames(batch, last)
          \/ rx' = held /\ TaskDone
        BY <1>8 DEF ViewerPushTask, PushTask, e
    <2>. HIDE DEF batch, held, threshold
    <2>6. rx' \in SUBSET Events
        BY <2>3, <2>5 DEF bufferEmpty
    <2>7. \/ chain' = Tail(chain) /\ ~frames'.busy
          \/ chain' = chain /\ frames'.busy /\ frames'.events = batch
        BY <1>6, <1>7, <2>1, <2>5
    <2>8. /\ screen' = screen
          /\ IF frames'.busy THEN onFrames(frames'.events) ELSE UNCHANGED <<slide, pushing>>
        BY <1>8 DEF ViewerPushTask
    <2>. QED
        BY <1>5, <2>1, <2>4, <2>6, <2>7, <2>8
<1>9. ASSUME ViewerFinalTask
      PROVE  Passed' /\ Rows'
    <2>. DEFINE batch == {b \in rx : b <= ready}
    <2>1. chain # <<>> /\ ~frames.busy
        BY <1>9 DEF ViewerFinalTask, FinalCounterTask
    <2>2. batch \in SUBSET Events
        BY <1>2
    <2>3. \/ bufferEmpty(rx, ready) /\ emitFrames(batch, TRUE)
          \/ TaskDone /\ rx' = rx
        BY <1>9 DEF ViewerFinalTask, FinalCounterTask
    <2>. HIDE DEF batch
    <2>4. rx' \in SUBSET Events
        BY <1>2, <2>3 DEF bufferEmpty
    <2>5. \/ chain' = Tail(chain) /\ ~frames'.busy
          \/ chain' = chain /\ frames'.busy /\ frames'.events = batch
        BY <1>6, <1>7, <2>1, <2>3
    <2>6. /\ screen' = screen
          /\ IF frames'.busy THEN onFrames(frames'.events) ELSE UNCHANGED <<slide, pushing>>
        BY <1>9 DEF ViewerFinalTask
    <2>. QED
        BY <1>5, <2>1, <2>2, <2>4, <2>5, <2>6
<1>10. ASSUME ViewerFramesShown
       PROVE  Passed' /\ Rows'
    <2>1. chain' = Tail(chain) /\ ~frames'.busy /\ UNCHANGED <<rx, slide>> /\ ~pushing'.on
        BY <1>10 DEF ViewerFramesShown, FramesShown, TaskDone, NoFrames, buffer, Nothing
    <2>2. ASSUME pushing.on
          PROVE  Rows'
        <3>1. op = "none"
            BY <1>1, <2>2 DEF ViewerInv, OpAlone
        <3>2. screen' = pushFront(popBack(screen, pushing.popCount), pushing.events)
            BY <1>10, <2>2 DEF ViewerFramesShown
        <3>3. /\ pushing.events \in SUBSET Events /\ Cardinality(pushing.events) <= MaxBuffer
              /\ pushing.popCount = Cardinality(pushing.events) - getCapacity(screen)
            BY <1>1, <2>2 DEF Rows, Fits
        <3>4. Few(pushing.events)
            <4>1. IsFiniteSet(pushing.events)
                BY <3>3, SomeEvents
            <4>2. Cardinality(pushing.events) \in Nat /\ MaxBuffer \in Nat
                BY <4>1, FS_CardinalityType, SizeAssumption
            <4>. QED
                BY <3>3, <4>1, <4>2, MostBounds DEF Few
        <3>5. TidyTable(screen')
            <4>1. TidyTable(screen)
                BY <1>1 DEF Rows
            <4>2. TidyTable(pushFront(popBack(screen, Cardinality(pushing.events)
                                      - getCapacity(screen)), pushing.events))
                BY <3>3, <3>4, <4>1, Shifted, Zenon
            <4>. QED
                BY <3>2, <3>3, <4>2
        <3>. QED
            BY <1>3, <2>1, <3>1, <3>5 DEF Rows, Fits, Asked, TidyTable
    <2>3. ASSUME ~pushing.on
          PROVE  Rows'
        <3>1. screen' = screen
            BY <1>10, <2>3 DEF ViewerFramesShown
        <3>. QED
            BY <1>1, <1>3, <2>1, <3>1 DEF Rows, Fits
    <2>4. frames.busy /\ chain' \in Seq(Events \cup {FinalTask})
        BY <1>2, <1>4, <1>10, <2>1 DEF ViewerFramesShown, FramesShown
    <2>5. Passed'
        BY <1>1, <1>3, <2>1, <2>4 DEF Passed, Chained, Waits
    <2>. QED
        BY <2>2, <2>3, <2>5
<1>. QED
    BY <1>8, <1>9, <1>10 DEF ViewerStreamTask

(* An operation asks for a page of counters; those of previousRange lie    *)
(* before the rows.                                                        *)
LEMMA PageAsked ==
    ASSUME NEW w, TidyTable(w)
    PROVE  /\ Asked(w, "firstNext", NextRange(w)) /\ Asked(w, "next", NextRange(w))
           /\ w = screen => Asked(w, "previous", PreviousRange)
<1>1. w.head \in Nat /\ w.tail \in Nat /\ PageSize \in Nat
    BY SizeAssumption DEF TidyTable, Tidy, Windows
<1>2. ASSUME NEW lo \in Int, NEW C \in SUBSET (lo .. lo + PageSize)
      PROVE  IsFiniteSet(C) /\ Cardinality(C) <= PageSize + 1
    <2>1. lo + PageSize \in Int
        BY <1>1
    <2>2. /\ IsFiniteSet(lo .. lo + PageSize)
          /\ Cardinality(lo .. lo + PageSize)
                 = IF lo > lo + PageSize THEN 0 ELSE (lo + PageSize) - lo + 1
        BY <2>1, FS_Interval, Zenon
    <2>3. IsFiniteSet(C) /\ Cardinality(C) <= Cardinality(lo .. lo + PageSize)
        BY <2>2, FS_Subset, Zenon
    <2>. QED
        BY <1>1, <2>2, <2>3
<1>3. IsFiniteSet(NextRange(w)) /\ Cardinality(NextRange(w)) <= PageSize + 1
    <2>1. w.tail + 1 \in Int /\ NextRange(w) \in SUBSET (w.tail + 1 .. (w.tail + 1) + PageSize)
        BY <1>1 DEF NextRange, getBoundedRange
    <2>. QED
        BY <1>2, <2>1, Zenon
<1>4. ASSUME w = screen
      PROVE  /\ IsFiniteSet(PreviousRange) /\ Cardinality(PreviousRange) <= PageSize + 1
             /\ \A e \in PreviousRange : e < w.head
    <2>1. PreviousRange \in SUBSET (w.head - 1 - PageSize .. w.head - 1)
        BY <1>4 DEF PreviousRange, getBoundedRange
    <2>2. /\ (w.head - 1) - PageSize \in Int
          /\ PreviousRange \in SUBSET
                 ((w.head - 1) - PageSize .. ((w.head - 1) - PageSize) + PageSize)
        BY <1>1, <2>1
    <2>3. IsFiniteSet(PreviousRange) /\ Cardinality(PreviousRange) <= PageSize + 1
        BY <1>2, <2>2, Zenon
    <2>. QED
        BY <1>1, <2>1, <2>3
<1>. QED
    BY <1>3, <1>4 DEF Asked

LEMMA ClickPasses ==
    ASSUME PageInv, Click
    PROVE  Passed' /\ Rows'
<1>1. Passed /\ Rows
    BY DEF PageInv
<1>2. UNCHANGED <<rx, chain, frames, screen, slide, pushing, streaming, waiting>>
    BY DEF Click, StreamVars, buffer, listener
<1>3. Passed'
    BY <1>1, <1>2 DEF Passed, Chained, Waits
<1>4. \/ op' \in {"first", "menuLast"} \/ UNCHANGED <<op, asked>>
      \/ op' = "next" /\ asked' = NextRange(screen)
      \/ op' = "previous" /\ asked' = PreviousRange
    BY DEF Click, firstRange, nextRange, previousRange, menuLastRange, onThresholdLeave,
       Begin, Ask, request
<1>5. TidyTable(screen) /\ Asked(screen, op, asked)
    BY <1>1 DEF Rows
<1>6. Asked(screen, op', asked')
    <2>1. CASE op' \in {"first", "menuLast"} \/ UNCHANGED <<op, asked>>
        BY <1>5, <2>1 DEF Asked
    <2>2. CASE op' = "next" /\ asked' = NextRange(screen)
        BY <1>5, <2>2, PageAsked
    <2>3. CASE op' = "previous" /\ asked' = PreviousRange
        BY <1>5, <2>3, PageAsked
    <2>. QED
        BY <1>4, <2>1, <2>2, <2>3
<1>7. Rows'
    BY <1>1, <1>2, <1>6 DEF Rows
<1>. QED
    BY <1>3, <1>7

(* The answers of the API.                                                 *)
LEMMA AnswerPasses ==
    ASSUME PageInv, Answered
    PROVE  Passed' /\ Rows'
<1>1. ViewerInv /\ Passed /\ Rows
    BY DEF PageInv
<1>2. UNCHANGED <<rx, chain, frames, slide, pushing, streaming, waiting>>
    <2>1. UNCHANGED Others
        BY DEF Answered, firstLoaded, rangeLoaded, lastLoaded, requestFails
    <2>. QED
        BY <2>1 DEF Others, listener
<1>3. op # "none" /\ ~pushing.on
    <2>1. op # "none"
        BY DEF Answered, firstLoaded, rangeLoaded, lastLoaded, requestFails
    <2>. QED
        BY <1>1, <2>1 DEF ViewerInv, OpAlone
<1>4. Passed'
    BY <1>1, <1>2 DEF Passed, Chained, Waits
<1>5. TidyTable(screen) /\ Asked(screen, op, asked)
    BY <1>1 DEF Rows
<1>6. Saved \in SUBSET Events
    BY DEF Saved, Arrived
<1>7. ASSUME TidyTable(screen'), Asked(screen', op', asked')
      PROVE  Rows'
    BY <1>2, <1>3, <1>7 DEF Rows, Fits
<1>8. ASSUME NEW w, TidyTable(w)
      PROVE  Asked(w, "none", {}) /\ Asked(w, "firstNext", NextRange(w))
    BY <1>8, PageAsked DEF Asked
<1>9. ASSUME firstLoaded
      PROVE  Rows'
    <2>. DEFINE w == pushFront(cleared(screen), FirstEvents(Saved))
    <2>1. screen' = w /\ op' = "firstNext" /\ asked' = NextRange(w)
        BY <1>9 DEF firstLoaded, Ask
    <2>2. TidyTable(w)
        BY <1>5, <1>6, PageIsSmall, LoadedAnew
    <2>. HIDE DEF w
    <2>. QED
        BY <1>7, <1>8, <2>1, <2>2
<1>10. ASSUME rangeLoaded
       PROVE  Rows'
    <2>. DEFINE results == asked \cap Saved
    <2>1. /\ op \in {"firstNext", "next", "previous"} /\ op' = "none" /\ asked' = {}
          /\ screen' = IF op = "previous" THEN ShiftBack(results) ELSE Shift(results)
        BY <1>10 DEF rangeLoaded, End, AskNothing, Ask
    <2>2. /\ IsFiniteSet(asked) /\ Cardinality(asked) <= PageSize + 1
          /\ op = "previous" => \A e \in asked : e < screen.head
        BY <1>5, <2>1 DEF Asked
    <2>3. Few(results)
        <3>1. results \in SUBSET asked
            OBVIOUS
        <3>2. IsFiniteSet(results) /\ Cardinality(results) <= Cardinality(asked)
            BY <2>2, <3>1, FS_Subset, Zenon
        <3>3. Cardinality(results) \in Nat /\ Cardinality(asked) \in Nat
            BY <2>2, <3>2, FS_CardinalityType
        <3>. QED
            BY <2>2, <3>2, <3>3, MostBounds, SizeAssumption DEF Few
    <2>4. results \in SUBSET Events
        BY <1>6
    <2>5. TidyTable(screen')
        <3>1. TidyTable(Shift(results))
            BY <1>5, <2>3, <2>4, Shifted DEF Shift
        <3>2. CASE op = "previous"
            <4>1. \A e \in results : e < screen.head
                BY <2>2, <3>2
            <4>2. TidyTable(ShiftBack(results))
                BY <1>5, <2>3, <2>4, <4>1, Shifted DEF ShiftBack
            <4>. QED
                BY <2>1, <3>2, <4>2
        <3>. QED
            BY <2>1, <3>1, <3>2
    <2>. QED
        BY <1>7, <1>8, <2>1, <2>5
<1>11. ASSUME lastLoaded
       PROVE  Rows'
    <2>. DEFINE results == IF slide # {} THEN slide ELSE LastEvents(Saved)
    <2>1. /\ screen' = pushFront(cleared(screen), results)
          /\ op' = "none" /\ asked' = {}
        BY <1>11 DEF lastLoaded, End, AskNothing, Ask
    <2>2. slide \in SUBSET Events /\ Few(slide)
        <3>1. slide \in SUBSET Events /\ Cardinality(slide) <= MaxBuffer
            BY <1>1 DEF Passed
        <3>2. IsFiniteSet(slide)
            BY <3>1, SomeEvents
        <3>3. Cardinality(slide) \in Nat /\ MaxBuffer \in Nat
            BY <3>2, FS_CardinalityType, SizeAssumption
        <3>. QED
            BY <3>1, <3>2, <3>3, MostBounds DEF Few
    <2>3. results \in SUBSET Events /\ Few(results)
        BY <1>6, <2>2, PageIsSmall
    <2>. HIDE DEF results
    <2>4. TidyTable(pushFront(cleared(screen), results))
        BY <1>5, <2>3, LoadedAnew
    <2>. QED
        BY <1>7, <1>8, <2>1, <2>4
<1>12. ASSUME requestFails
       PROVE  Rows'
    <2>1. screen' \in {screen, cleared(screen)} /\ op' = "none" /\ asked' = {}
        BY <1>12 DEF requestFails, End, AskNothing, Ask
    <2>2. {} \in SUBSET Events /\ Few({})
        BY FS_EmptySet, MostBounds DEF Few
    <2>3. TidyTable(cleared(screen))
        BY <1>5, <2>2, LoadedAnew
    <2>4. TidyTable(screen')
        BY <1>5, <2>1, <2>3
    <2>. QED
        BY <1>7, <1>8, <2>1, <2>4
<1>. QED
    BY <1>4, <1>9, <1>10, <1>11, <1>12 DEF Answered

----------------------------------------------------------------------------
LEMMA PageInvariant == ViewerSpec => []PageInv
<1>1. PageInv /\ [ViewerNext]_ViewerVars => PageInv'
    <2>. SUFFICES ASSUME PageInv, [ViewerNext]_ViewerVars
                  PROVE  PageInv'
        OBVIOUS
    <2>1. ViewerInv
        BY DEF PageInv
    <2>2. ViewerInv'
        BY <2>1, ListeningKeeps, StreamTaskKeeps, ClickKeeps, AnswerKeeps DEF ViewerNext
    <2>3. Passed' /\ Rows'
        BY ListeningPasses, StreamTaskPasses, ClickPasses, AnswerPasses DEF ViewerNext
    <2>. QED
        BY <2>2, <2>3 DEF PageInv
<1>. QED
    BY InitPage, <1>1, PTL DEF ViewerSpec

(* Whatever pushFront, pushBack, popFront, popBack and clear are called    *)
(* with by onFrames and by the operations, the rows keep the order of the  *)
(* output and their records.                                               *)
THEOREM RowsKeepTheirOrder == ViewerSpec => []ScreenInOrder
<1>1. PageInv => ScreenInOrder
    BY TidyInOrder DEF PageInv, Rows, TidyTable, ScreenInOrder
<1>. QED
    BY <1>1, PageInvariant, PTL

(* The table never has more events than a full page and one, or than the   *)
(* buffer of the slide service holds.                                      *)
THEOREM TableStaysBounded == ViewerSpec => []TableBounded
<1>1. PageInv => TableBounded
    <2>. SUFFICES ASSUME PageInv PROVE TableBounded
        OBVIOUS
    <2>. DEFINE u == screen.uuids
                S == {id \in Range(u) : ~IsMarker(id)}
                E == EventsIn(screen)
                f == [id \in S |-> id[1]]
    <2>1. Tidy(screen) /\ Few(E)
        BY DEF PageInv, Rows, TidyTable
    <2>2. ASSUME NEW id \in S
          PROVE  id[1] \in E /\ id = <<id[1], id[1]>>
        <3>1. PICK c \in DOMAIN u : u[c] = id
            BY DEF Range
        <3>2. u[c] = <<c, c>>
            BY <2>1, <3>1 DEF Tidy, RecordsTidy, IsMarker
        <3>. QED
            BY <3>1, <3>2 DEF EventsIn
    <2>. HIDE DEF S, E
    <2>3. f \in Injection(S, E)
        BY <2>2 DEF Injection, IsInjective
    <2>. HIDE DEF f
    <2>4. IsFiniteSet(S) /\ Cardinality(S) <= Cardinality(E)
        BY <2>1, <2>3, FS_Injection, Zenon DEF Few
    <2>5. Cardinality(S) \in Nat /\ Cardinality(E) \in Nat
        BY <2>1, <2>4, FS_CardinalityType DEF Few
    <2>6. Cardinality(S) <= Most
        BY <2>1, <2>4, <2>5, MostBounds DEF Few
    <2>. QED
        BY <2>6 DEF TableBounded, Most, S
<1>. QED
    BY <1>1, PageInvariant, PTL

----------------------------------------------------------------------------
(* The pages of a finished job, as the API cuts them.                      *)
UpTo(k) == {e \in Stored : PageOf(e) <= k}
Rank(e) == Cardinality({f \in Stored : f <= e})

LEMMA StoredEvents ==
    ASSUME NEW S \in SUBSET Stored
    PROVE  /\ IsFiniteSet(S) /\ S \in SUBSET (Nat \ {0}) /\ S \in SUBSET Int
           /\ Cardinality(S) \in Nat
<1>1. IsFiniteSet(S)
    BY StoredAssumption, FS_Subset
<1>. QED
    BY <1>1, StoredAssumption, FS_CardinalityType

LEMMA Multiples ==
    ASSUME NEW P \in Nat \ {0}, NEW r \in Nat \ {0}, NEW q, q = (r + P - 1) \div P
    PROVE  q \in Nat \ {0} /\ \A g \in Int : q <= g <=> r <= g * P
<1>1. q \in Int /\ q * P <= r + P - 1 /\ r + P - 1 < q * P + P
    BY Z3
<1>2. q > 0
    <2>. SUFFICES ASSUME q <= 0 PROVE FALSE
        BY <1>1
    <2>1. q * P <= 0
        BY <1>1
    <2>. QED
        BY <1>1, <2>1
<1>3. ASSUME NEW g \in Int, q <= g PROVE r <= g * P
    <2>1. q * P <= g * P
        BY <1>1, <1>3
    <2>2. g * P \in Int
        OBVIOUS
    <2>. QED
        BY <1>1, <2>1, <2>2
<1>4. ASSUME NEW g \in Int, q > g PROVE r > g * P
    <2>1. (g + 1) * P <= q * P
        BY <1>1, <1>4
    <2>2. (g + 1) * P = g * P + P /\ g * P \in Int
        OBVIOUS
    <2>. QED
        BY <1>1, <2>1, <2>2
<1>5. \A g \in Int : g * P \in Int
    OBVIOUS
<1>. QED
    BY <1>1, <1>2, <1>3, <1>4, <1>5

(* The number of the page of an event is decided by its rank.              *)
LEMMA PageOfRank ==
    ASSUME NEW e \in Stored
    PROVE  /\ Rank(e) \in Nat \ {0} /\ PageOf(e) \in Nat \ {0}
           /\ \A g \in Int : PageOf(e) <= g <=> Rank(e) <= g * PageSize
<1>. DEFINE S == {f \in Stored : f <= e}
<1>1. IsFiniteSet(S) /\ Cardinality(S) \in Nat /\ e \in S
    <2>1. e \in Int
        BY StoredEvents
    <2>. QED
        BY <2>1, StoredEvents
<1>2. Cardinality(S) # 0
    BY <1>1, FS_EmptySet
<1>3. Rank(e) \in Nat \ {0} /\ PageOf(e) = (Rank(e) + PageSize - 1) \div PageSize
    BY <1>1, <1>2 DEF Rank, PageOf
<1>4. PageSize \in Nat \ {0}
    BY SizeAssumption
<1>. QED
    BY <1>3, <1>4, Multiples

LEMMA PagesOrdered ==
    ASSUME NEW e \in Stored, NEW f \in Stored, e <= f
    PROVE  PageOf(e) <= PageOf(f)
<1>. DEFINE S == {x \in Stored : x <= e}
            T == {x \in Stored : x <= f}
<1>1. S \subseteq T
    BY StoredEvents
<1>2. IsFiniteSet(T)
    BY StoredEvents
<1>3. Rank(e) <= Rank(f)
    BY <1>1, <1>2, FS_Subset DEF Rank
<1>4. PageOf(f) \in Nat /\ Rank(f) <= PageOf(f) * PageSize
    BY PageOfRank
<1>5. Rank(e) <= PageOf(f) * PageSize
    <2>1. PageOf(f) * PageSize \in Int
        BY <1>4, SizeAssumption
    <2>. QED
        BY <1>3, <1>4, <2>1, PageOfRank
<1>. QED
    BY <1>4, <1>5, PageOfRank

LEMMA NewestStored ==
    /\ Max(Stored) \in Stored /\ \A e \in Stored : e <= Max(Stored)
    /\ getLastPageNumber \in Nat \ {0}
    /\ \A e \in Stored : PageOf(e) \in 1 .. getLastPageNumber
<1>1. Max(Stored) \in Stored /\ \A e \in Stored : e <= Max(Stored)
    BY StoredAssumption, StoredEvents, MaxOfCounters
<1>2. getLastPageNumber \in Nat \ {0}
    BY <1>1, PageOfRank DEF getLastPageNumber
<1>3. \A e \in Stored : PageOf(e) \in Nat \ {0} /\ PageOf(e) <= getLastPageNumber
    BY <1>1, PageOfRank, PagesOrdered DEF getLastPageNumber
<1>. QED
    BY <1>1, <1>2, <1>3

(* All pages but the last are full, ...                                    *)
LEMMA FullPages ==
    ASSUME NEW k \in Nat, k < getLastPageNumber
    PROVE  k * PageSize <= Cardinality(UpTo(k))
<1>. DEFINE R == Stored \ UpTo(k)
            m == Min(R)
            B == {f \in Stored : f < m}
<1>1. Max(Stored) \in R /\ Max(Stored) \in Stored
    <2>1. PageOf(Max(Stored)) = getLastPageNumber /\ getLastPageNumber \in Nat
        BY NewestStored DEF getLastPageNumber
    <2>. QED
        BY <2>1, NewestStored DEF UpTo
<1>2. m \in R /\ \A c \in R : m <= c
    <2>1. R \in SUBSET Int /\ IsFiniteSet(R) /\ R # {}
        BY <1>1, StoredEvents
    <2>. HIDE DEF R
    <2>. QED
        BY <2>1, MinOfSome
<1>3. m \in Stored /\ m \in Int /\ \A f \in Stored : f \in Int
    BY <1>2, StoredEvents
<1>4. B \subseteq UpTo(k)
    <2>. SUFFICES ASSUME NEW f \in Stored, f < m, f \notin UpTo(k) PROVE FALSE
        OBVIOUS
    <2>1. f \in Int /\ m <= f
        BY <1>2, <1>3
    <2>. HIDE DEF m
    <2>. QED
        BY <1>3, <2>1
<1>5. Cardinality(B) <= Cardinality(UpTo(k)) /\ Cardinality(UpTo(k)) \in Nat
    <2>1. UpTo(k) \in SUBSET Stored
        BY DEF UpTo
    <2>2. IsFiniteSet(UpTo(k)) /\ Cardinality(UpTo(k)) \in Nat
        BY <2>1, StoredEvents
    <2>. QED
        BY <1>4, <2>2, FS_Subset
<1>6. Rank(m) = Cardinality(B) + 1 /\ Cardinality(B) \in Nat
    <2>1. {f \in Stored : f <= m} = B \cup {m} /\ m \notin B
        <3>. HIDE DEF m
        <3>1. \A f \in Stored : f <= m <=> f < m \/ f = m
            BY <1>3
        <3>2. m \in Stored /\ ~(m < m)
            BY <1>3
        <3>. QED
            BY <3>1, <3>2
    <2>2. IsFiniteSet(B) /\ Cardinality(B) \in Nat
        BY StoredEvents
    <2>3. Rank(m) = Cardinality(B \cup {m})
        BY <2>1, Zenon DEF Rank
    <2>. HIDE DEF B, m
    <2>4. Cardinality(B \cup {m}) = Cardinality(B) + 1
        BY <2>1, <2>2, FS_AddElement
    <2>. QED
        BY <2>2, <2>3, <2>4
<1>7. ~(PageOf(m) <= k)
    BY <1>2 DEF UpTo
<1>8. Rank(m) > k * PageSize
    <2>1. k * PageSize \in Int /\ k \in Int
        BY SizeAssumption
    <2>2. Rank(m) \in Nat /\ \A g \in Int : PageOf(m) <= g <=> Rank(m) <= g * PageSize
        BY <1>3, PageOfRank
    <2>. HIDE DEF m
    <2>. QED
        BY <1>7, <2>1, <2>2
<1>. QED
    <2>1. k * PageSize \in Int
        BY SizeAssumption
    <2>. HIDE DEF B, m
    <2>. QED
        BY <1>5, <1>6, <1>8, <2>1

(* ... and none is empty.                                                  *)
LEMMA NoEmptyPage ==
    ASSUME NEW k \in 1 .. getLastPageNumber
    PROVE  getPage(k) # {}
<1>1. CASE k = getLastPageNumber
    BY <1>1, NewestStored DEF getPage, getLastPageNumber
<1>2. CASE k < getLastPageNumber
    <2>. DEFINE U == UpTo(k)
                e == Max(U)
    <2>1. k \in Nat \ {0} /\ PageSize \in Nat \ {0} /\ (k - 1) * PageSize + PageSize = k * PageSize
          /\ (k - 1) * PageSize \in Nat
        <3>1. k \in Nat \ {0} /\ PageSize \in Nat \ {0} /\ k - 1 \in Nat
            BY SizeAssumption, NewestStored
        <3>. QED
            BY <3>1
    <2>2. k * PageSize <= Cardinality(U)
        BY <1>2, <2>1, FullPages
    <2>3. U \in SUBSET Stored
        BY DEF UpTo
    <2>4. IsFiniteSet(U) /\ Cardinality(U) \in Nat /\ U \in SUBSET Int
        BY <2>3, StoredEvents
    <2>5. U # {}
        BY <2>1, <2>2, FS_EmptySet
    <2>. HIDE DEF U
    <2>6. e \in U /\ \A c \in U : c <= e
        BY <2>4, <2>5, MaxOfCounters
    <2>. HIDE DEF e
    <2>7. e \in Stored /\ PageOf(e) <= k
        BY <2>3, <2>6 DEF U, UpTo
    <2>8. Cardinality(U) <= Rank(e)
        <3>1. U \subseteq {f \in Stored : f <= e}
            BY <2>3, <2>6
        <3>2. IsFiniteSet({f \in Stored : f <= e})
            BY StoredEvents
        <3>. QED
            BY <3>1, <3>2, FS_Subset DEF Rank
    <2>9. ~(PageOf(e) <= k - 1)
        <3>1. Rank(e) \in Nat /\ \A g \in Int : PageOf(e) <= g <=> Rank(e) <= g * PageSize
            BY <2>7, PageOfRank
        <3>2. ~(Rank(e) <= (k - 1) * PageSize)
            BY <2>1, <2>2, <2>4, <2>8, <3>1
        <3>. QED
            BY <2>1, <3>1, <3>2
    <2>10. PageOf(e) = k
        BY <2>1, <2>7, <2>9, PageOfRank
    <2>. QED
        BY <2>7, <2>10 DEF getPage
<1>. QED
    BY <1>1, <1>2, NewestStored

LEMMA CountersBetween ==
    ASSUME NEW a \in Int, NEW b \in Int, a <= b,
           NEW S, \A c \in S : c \in Int /\ a < c /\ c <= b
    PROVE  IsFiniteSet(S) /\ Cardinality(S) \in Nat /\ Cardinality(S) <= b - a
<1>. DEFINE lo == a + 1
            I == lo .. b
<1>1. lo \in Int /\ (IF lo > b THEN 0 ELSE b - lo + 1) = b - a
    OBVIOUS
<1>2. S \subseteq I
    OBVIOUS
<1>3. IsFiniteSet(I) /\ Cardinality(I) = b - a
    <2>. HIDE DEF lo
    <2>1. IsFiniteSet(lo .. b) /\ Cardinality(lo .. b) = IF lo > b THEN 0 ELSE b - lo + 1
        BY <1>1, FS_Interval
    <2>. QED
        BY <1>1, <2>1
<1>4. IsFiniteSet(S) /\ Cardinality(S) <= Cardinality(I)
    <2>. HIDE DEF I
    <2>. QED
        BY <1>2, <1>3, FS_Subset
<1>. HIDE DEF I
<1>. QED
    BY <1>3, <1>4, FS_CardinalityType

(* Above an event there are all those of the full pages that follow it.    *)
LEMMA EventsBetween ==
    ASSUME NEW g \in Nat, NEW k \in Nat, g <= k, k < getLastPageNumber,
           NEW e \in UpTo(g), NEW x \in Int, \A f \in UpTo(k) : f <= x
    PROVE  e + (k - g) * PageSize <= x
<1>. DEFINE B == {f \in UpTo(k) : f > e}
            T == {f \in Stored : f <= e}
<1>1. e \in Stored /\ e \in Int /\ PageOf(e) <= g /\ \A f \in Stored : f \in Int
    BY StoredEvents DEF UpTo
<1>2. UpTo(k) = T \cup B /\ T \cap B = {}
    <2>1. ASSUME NEW f \in T PROVE f \in UpTo(k)
        <3>1. PageOf(f) <= PageOf(e) /\ PageOf(f) \in Nat /\ PageOf(e) \in Nat
            BY <1>1, <2>1, PagesOrdered, PageOfRank
        <3>. QED
            BY <1>1, <2>1, <3>1 DEF UpTo
    <2>2. \A f \in UpTo(k) : f \in T \/ f \in B
        BY <1>1 DEF UpTo
    <2>3. B \subseteq UpTo(k) /\ \A f \in B : ~(f <= e)
        <3>1. \A f \in UpTo(k) : f \in Int
            BY <1>1 DEF UpTo
        <3>. QED
            BY <1>1, <3>1
    <2>4. \A f \in T : f <= e
        OBVIOUS
    <2>. HIDE DEF T, B
    <2>. QED
        BY <2>1, <2>2, <2>3, <2>4
<1>3. IsFiniteSet(T) /\ IsFiniteSet(B) /\ Cardinality(T) \in Nat /\ Cardinality(B) \in Nat
    <2>1. T \in SUBSET Stored /\ B \in SUBSET Stored
        BY DEF UpTo
    <2>. QED
        BY <2>1, StoredEvents
<1>4. Cardinality(UpTo(k)) = Cardinality(T) + Cardinality(B)
    <2>1. Cardinality(T \cap B) = 0
        BY <1>2, FS_EmptySet
    <2>. HIDE DEF T, B
    <2>2. Cardinality(T \cup B) = Cardinality(T) + Cardinality(B) - Cardinality(T \cap B)
        BY <1>3, FS_Union
    <2>. QED
        BY <1>2, <1>3, <2>1, <2>2
<1>5. e <= x
    <2>1. e \in T
        BY <1>1
    <2>. QED
        BY <1>2, <2>1
<1>6. Cardinality(B) <= x - e
    <2>1. \A c \in B : c \in Int /\ e < c /\ c <= x
        <3>1. \A c \in UpTo(k) : c \in Int /\ c <= x
            BY <1>1 DEF UpTo
        <3>. QED
            BY <1>1, <3>1
    <2>. HIDE DEF B
    <2>. QED
        BY <1>1, <1>5, <2>1, CountersBetween
<1>7. Cardinality(T) <= g * PageSize
    BY <1>1, PageOfRank DEF Rank
<1>8. k * PageSize <= Cardinality(UpTo(k))
    BY FullPages
<1>9. k * PageSize = g * PageSize + (k - g) * PageSize /\ g * PageSize \in Int
      /\ (k - g) * PageSize \in Int /\ k * PageSize \in Int
    BY SizeAssumption
<1>. HIDE DEF T, B
<1>. QED
    BY <1>1, <1>3, <1>4, <1>6, <1>7, <1>8, <1>9

(* Those of a page lie between the events before it and its last one.      *)
LEMMA OnePageOn ==
    ASSUME NEW k \in 1 .. getLastPageNumber, NEW e \in UpTo(k - 1),
           NEW x \in Int, \A f \in UpTo(k) : f <= x
    PROVE  e + Cardinality(getPage(k)) <= x /\ Cardinality(getPage(k)) \in Nat
<1>1. /\ e \in Stored /\ e \in Int /\ PageOf(e) <= k - 1 /\ k \in Nat
      /\ \A f \in Stored : f \in Int /\ PageOf(f) \in Nat
    BY StoredEvents, PageOfRank, NewestStored DEF UpTo
<1>2. getPage(k) \in SUBSET Stored
    BY DEF getPage
<1>3. ASSUME NEW f \in getPage(k) PROVE f \in Int /\ e < f /\ f <= x
    <2>1. f \in Stored /\ PageOf(f) = k /\ f \in UpTo(k)
        BY <1>1 DEF getPage, UpTo
    <2>2. ~(f <= e)
        BY <1>1, <2>1, PagesOrdered
    <2>. QED
        BY <1>1, <2>1, <2>2
<1>4. e <= x
    <2>1. e \in UpTo(k)
        BY <1>1 DEF UpTo
    <2>. QED
        BY <2>1
<1>5. Cardinality(getPage(k)) \in Nat /\ Cardinality(getPage(k)) <= x - e
    BY <1>1, <1>3, <1>4, CountersBetween
<1>. QED
    BY <1>1, <1>5

LEMMA LessOrMore ==
    ASSUME NEW a \in Int, NEW b \in Int
    PROVE  Min({a, b}) = (IF a <= b THEN a ELSE b) /\ Max({a, b}) = IF a <= b THEN b ELSE a
<1>1. IsFiniteSet({a, b}) /\ {a, b} \in SUBSET Int /\ {a, b} # {}
    <2>1. IsFiniteSet({a} \cup {b}) /\ {a} \cup {b} = {a, b}
        BY FS_Singleton, FS_AddElement
    <2>. QED
        BY <2>1, Zenon
<1>2. Min({a, b}) \in {a, b} /\ \A c \in {a, b} : Min({a, b}) <= c
    BY <1>1, MinOfSome
<1>3. Max({a, b}) \in {a, b} /\ \A c \in {a, b} : c <= Max({a, b})
    BY <1>1, MaxOfCounters
<1>. QED
    BY <1>2, <1>3

(* Jobs that the pages keep in order: with the constants of the code, those*)
(* of at most 5 * 51 + 1 = 256 pages, or 12,800 events.                    *)
FewPages == getLastPageNumber <= PageLimit * (PageSize + 1) + 1

PagesOK(p) ==
    /\ p \in [head : 0 .. getLastPageNumber, tail : 0 .. getLastPageNumber]
    /\ p.tail - p.head <= PageLimit
    /\ p.head <= p.tail \/ p = [head |-> 1, tail |-> 0]

Reaches(k, x) == \A e \in UpTo(k) : e <= x
Top(p) == IF p.tail = 0 THEN 1 ELSE p.tail
Slack(p) == IF p.head >= 1 /\ p.tail - p.head = PageLimit
            THEN getLastPageNumber - p.tail ELSE 0

(* Where the window stands relative to the pages.  popFront takes one      *)
(* counter more than the page has, so that the tail of the window may lag  *)
(* behind the last page by one counter for every page that was given up,   *)
(* ...                                                                     *)
High(w, p) == Reaches(Top(p), w.tail + Slack(p))

(* ... or it was filled from below its head and is above the pages before. *)
Low(w, p) ==
    /\ \A e \in Stored : PageOf(e) < p.head => e < w.head
    /\ p.head <= 1 => Reaches(1, w.tail)

Placed(w, p) == w.head = 0 \/ High(w, p) \/ Low(w, p)
PagesInv == Tidy(shown) /\ PagesOK(pages) /\ Placed(shown, pages)

LEMMA PagesTyped ==
    ASSUME NEW p, PagesOK(p)
    PROVE  /\ p.head \in Nat /\ p.tail \in Nat /\ p.head <= getLastPageNumber
           /\ p.tail <= getLastPageNumber /\ p.tail - p.head <= PageLimit
           /\ p.head <= p.tail \/ (p.head = 1 /\ p.tail = 0)
           /\ p = [head |-> p.head, tail |-> p.tail]
           /\ getLastPageNumber \in Nat \ {0} /\ PageLimit \in Nat
           /\ Slack(p) \in Nat /\ Slack(p) <= getLastPageNumber - p.tail
           /\ Top(p) \in Nat /\ Top(p) >= p.head /\ Top(p) >= 1
<1>1. getLastPageNumber \in Nat \ {0} /\ PageLimit \in Nat
    BY NewestStored, SizeAssumption
<1>2. /\ p \in [head : 0 .. getLastPageNumber, tail : 0 .. getLastPageNumber]
      /\ p.tail - p.head <= PageLimit
      /\ p.head <= p.tail \/ p = [head |-> 1, tail |-> 0]
    BY DEF PagesOK
<1>3. /\ p.head \in Nat /\ p.tail \in Nat /\ p.head <= getLastPageNumber
      /\ p.tail <= getLastPageNumber
      /\ p = [head |-> p.head, tail |-> p.tail]
    BY <1>1, <1>2
<1>4. p.head <= p.tail \/ (p.head = 1 /\ p.tail = 0)
    BY <1>2
<1>. QED
    BY <1>1, <1>2, <1>3, <1>4 DEF Slack, Top

LEMMA ReachesLess ==
    ASSUME NEW k \in Nat, NEW g \in Nat, g <= k, NEW x \in Int, NEW y \in Int, x <= y,
           Reaches(k, x)
    PROVE  Reaches(g, y)
<1>1. ASSUME NEW e \in UpTo(g) PROVE e <= y
    <2>1. e \in Stored /\ e \in Int /\ PageOf(e) \in Nat /\ PageOf(e) <= g
        BY StoredEvents, PageOfRank DEF UpTo
    <2>2. e \in UpTo(k)
        BY <2>1 DEF UpTo
    <2>. QED
        BY <2>1, <2>2 DEF Reaches
<1>. QED
    BY <1>1 DEF Reaches

(* A page is loaded up to its last event when the tail is there.           *)
LEMMA PageReached ==
    ASSUME NEW k \in 1 .. getLastPageNumber, NEW x \in Int, \A e \in getPage(k) : e <= x
    PROVE  Reaches(k, x)
<1>1. PICK e \in getPage(k) : TRUE
    BY NoEmptyPage
<1>2. e \in Stored /\ PageOf(e) = k /\ k \in Nat /\ e \in Int
    BY <1>1, StoredEvents, NewestStored DEF getPage
<1>3. ASSUME NEW f \in UpTo(k) PROVE f <= x
    <2>1. f \in Stored /\ PageOf(f) <= k /\ f \in Int /\ PageOf(f) \in Nat
        BY StoredEvents, PageOfRank DEF UpTo
    <2>2. CASE PageOf(f) = k
        BY <2>1, <2>2 DEF getPage
    <2>3. CASE PageOf(f) # k
        <3>1. ~(e <= f)
            BY <1>2, <2>1, <2>3, PagesOrdered
        <3>. QED
            BY <1>1, <1>2, <2>1, <3>1
    <2>. QED
        BY <2>2, <2>3
<1>. QED
    BY <1>3 DEF Reaches

(* While the tail lags behind, it stays above the first page.              *)
LEMMA RoomBelow ==
    ASSUME FewPages, NEW w, w.tail \in Int, NEW p, PagesOK(p), p.head >= 1, High(w, p)
    PROVE  Reaches(p.head, w.tail)
<1>1. /\ p.head \in Nat /\ p.tail \in Nat /\ p.tail <= getLastPageNumber
      /\ getLastPageNumber \in Nat \ {0} /\ PageLimit \in Nat
      /\ Slack(p) \in Nat /\ Top(p) \in Nat /\ Top(p) >= p.head
    BY PagesTyped
<1>2. CASE Slack(p) = 0
    BY <1>1, <1>2, ReachesLess DEF High
<1>3. CASE Slack(p) # 0
    <2>1. /\ p.tail - p.head = PageLimit /\ Slack(p) = getLastPageNumber - p.tail
          /\ p.tail < getLastPageNumber /\ p.head <= p.tail
        BY <1>1, <1>3 DEF Slack
    <2>2. Top(p) = p.tail
        BY <1>1, <2>1 DEF Top
    <2>3. PageLimit * PageSize \in Int /\ getLastPageNumber <= PageLimit * PageSize + PageLimit + 1
        BY <1>1, SizeAssumption DEF FewPages
    <2>4. ASSUME NEW e \in UpTo(p.head) PROVE e <= w.tail
        <3>. DEFINE x == w.tail + Slack(p)
        <3>1. x \in Int /\ \A f \in UpTo(p.tail) : f <= x
            BY <1>1, <2>2 DEF High, Reaches
        <3>2. e \in Int
            BY StoredEvents DEF UpTo
        <3>. HIDE DEF x
        <3>3. e + (p.tail - p.head) * PageSize <= x
            BY <1>1, <2>1, <3>1, EventsBetween
        <3>4. e + PageLimit * PageSize <= w.tail + (getLastPageNumber - p.tail)
            BY <2>1, <3>3 DEF x
        <3>. QED
            BY <1>1, <2>1, <2>3, <3>2, <3>4
    <2>. QED
        BY <2>4 DEF Reaches
<1>. QED
    BY <1>2, <1>3

(* What an operation leaves.                                               *)
PlacedWell(w, p) == Tidy(w) /\ PagesOK(p) /\ Placed(w, p)

LEMMA PageLoads ==
    ASSUME NEW k \in Int
    PROVE  /\ getPage(k) \in SUBSET Nat /\ getPage(k) \in SUBSET (Nat \ {0})
           /\ IsFiniteSet(getPage(k)) /\ Cardinality(getPage(k)) \in Nat
BY StoredEvents DEF getPage

(* Numbers of pages after getNext and getPrevious.                         *)
LEMMA NextPages ==
    ASSUME NEW p, PagesOK(p)
    PROVE  LET t == IF p.tail + 1 <= getLastPageNumber THEN p.tail + 1 ELSE getLastPageNumber
               h == IF t - p.head > PageLimit THEN t - PageLimit ELSE p.head
           IN  /\ getNext(p) = [head |-> p.head, tail |-> t]
               /\ trimHead(getNext(p)) = [head |-> h, tail |-> t]
               /\ PagesOK([head |-> h, tail |-> t])
               /\ t \in 1 .. getLastPageNumber
<1>. DEFINE t == IF p.tail + 1 <= getLastPageNumber THEN p.tail + 1 ELSE getLastPageNumber
            h == IF t - p.head > PageLimit THEN t - PageLimit ELSE p.head
<1>1. /\ p.head \in Nat /\ p.tail \in Nat /\ p.tail <= getLastPageNumber
      /\ p.head <= getLastPageNumber
      /\ getLastPageNumber \in Nat \ {0} /\ PageLimit \in Nat
      /\ p = [head |-> p.head, tail |-> p.tail] /\ p.tail - p.head <= PageLimit
      /\ p.head <= p.tail \/ (p.head = 1 /\ p.tail = 0)
    BY PagesTyped
<1>2. Min({p.tail + 1, getLastPageNumber}) = t
    BY <1>1, LessOrMore
<1>3. t \in 1 .. getLastPageNumber /\ t >= p.tail /\ t <= p.tail + 1
    BY <1>1
<1>. HIDE DEF t
<1>4. getNext(p) = [head |-> p.head, tail |-> t]
    BY <1>1, <1>2 DEF getNext
<1>5. trimHead(getNext(p)) = [head |-> h, tail |-> t]
    BY <1>4 DEF trimHead, isOverCapacity
<1>6. h \in 0 .. getLastPageNumber /\ t - h <= PageLimit /\ h <= t
    BY <1>1, <1>3
<1>. HIDE DEF h
<1>7. PagesOK([head |-> h, tail |-> t])
    BY <1>1, <1>3, <1>6 DEF PagesOK
<1>. QED
    BY <1>3, <1>4, <1>5, <1>7 DEF t, h

LEMMA PreviousPages ==
    ASSUME NEW p, PagesOK(p)
    PROVE  LET h == IF p.head >= 2 THEN p.head - 1 ELSE 1
               full == p.tail - h > PageLimit
               t == IF full THEN p.tail - 1 ELSE p.tail
           IN  /\ getPrevious(p) = [head |-> h, tail |-> p.tail]
               /\ trimTail(getPrevious(p)) = [head |-> h, tail |-> t]
               /\ PagesOK([head |-> h, tail |-> t])
               /\ h \in 1 .. getLastPageNumber
               /\ full => /\ p.head >= 2 /\ p.tail \in 2 .. getLastPageNumber
                          /\ p.tail - p.head = PageLimit /\ t - h = PageLimit
<1>. DEFINE h == IF p.head >= 2 THEN p.head - 1 ELSE 1
            full == p.tail - h > PageLimit
            t == IF full THEN p.tail - 1 ELSE p.tail
<1>1. /\ p.head \in Nat /\ p.tail \in Nat /\ p.tail <= getLastPageNumber
      /\ p.head <= getLastPageNumber
      /\ getLastPageNumber \in Nat \ {0} /\ PageLimit \in Nat
      /\ p = [head |-> p.head, tail |-> p.tail] /\ p.tail - p.head <= PageLimit
      /\ p.head <= p.tail \/ (p.head = 1 /\ p.tail = 0)
    BY PagesTyped
<1>2. Max({p.head - 1, 1}) = h
    <2>1. p.head - 1 \in Int /\ 1 \in Int
        BY <1>1
    <2>2. Max({p.head - 1, 1}) = IF p.head - 1 <= 1 THEN 1 ELSE p.head - 1
        BY <2>1, LessOrMore
    <2>. QED
        BY <1>1, <2>2
<1>3. h \in 1 .. getLastPageNumber
    BY <1>1
<1>4. getPrevious(p) = [head |-> h, tail |-> p.tail]
    BY <1>1, <1>2 DEF getPrevious
<1>5. full => /\ p.head >= 2 /\ p.tail \in 2 .. getLastPageNumber
              /\ p.tail - p.head = PageLimit /\ p.tail - 1 - h = PageLimit
    BY <1>1
<1>6. full => h + PageLimit = p.tail - 1
    BY <1>1, <1>3, <1>5
<1>7. trimTail(getPrevious(p)) = [head |-> h, tail |-> t]
    <2>. HIDE DEF h
    <2>. QED
        BY <1>4, <1>6 DEF trimTail, isOverCapacity
<1>8. /\ t \in 0 .. getLastPageNumber /\ t - h <= PageLimit
      /\ h <= t \/ (h = 1 /\ t = 0)
    BY <1>1
<1>9. full => t - h = PageLimit
    BY <1>5
<1>. HIDE DEF h, t
<1>10. PagesOK([head |-> h, tail |-> t])
    BY <1>1, <1>3, <1>8 DEF PagesOK
<1>. QED
    BY <1>3, <1>4, <1>5, <1>7, <1>9, <1>10 DEF h, t

LEMMA Popped ==
    /\ \A g, k : popCount(g, k) \in Nat
    /\ \A g : popCount(g, g) = 0
    /\ \A h, t \in Int :
          h <= t => popCount([head |-> h, tail |-> t], [head |-> h, tail |-> t - 1])
                        = Cardinality(getPage(t))
<1>1. ASSUME NEW g, NEW k PROVE popCount(g, k) \in Nat
    BY StoredEvents DEF popCount
<1>2. ASSUME NEW g PROVE popCount(g, g) = 0
    <2>1. {e \in Stored : /\ PageOf(e) \in g.head .. g.tail
                          /\ PageOf(e) \notin g.head .. g.tail} = {}
        OBVIOUS
    <2>. QED
        BY <2>1, FS_EmptySet DEF popCount
<1>3. ASSUME NEW h \in Int, NEW t \in Int, h <= t
      PROVE  popCount([head |-> h, tail |-> t], [head |-> h, tail |-> t - 1])
                  = Cardinality(getPage(t))
    <2>1. {e \in Stored : PageOf(e) \in h .. t /\ PageOf(e) \notin h .. t - 1} = getPage(t)
        <3>1. \A e \in Stored : PageOf(e) \in Int
            BY PageOfRank
        <3>2. \A n \in Int : (n \in h .. t /\ n \notin h .. t - 1) <=> n = t
            BY <1>3
        <3>. QED
            BY <3>1, <3>2 DEF getPage
    <2>. QED
        BY <2>1 DEF popCount
<1>. QED
    BY <1>1, <1>2, <1>3

(* Forwards: the page is appended, and the tail is above all it has.       *)
LEMMA NextStays ==
    ASSUME NEW w, Tidy(w), NEW p, PagesOK(p), ShowNext(w, p)
    PROVE  PlacedWell(shown', pages')
<1>. DEFINE t == IF p.tail + 1 <= getLastPageNumber THEN p.tail + 1 ELSE getLastPageNumber
            h == IF t - p.head > PageLimit THEN t - PageLimit ELSE p.head
            kept == [head |-> h, tail |-> t]
            count == popCount(getNext(p), kept)
            page == getPage(t)
            b == popBack(w, count)
            v == pushFront(b, page)
<1>1. /\ getNext(p) = [head |-> p.head, tail |-> t] /\ trimHead(getNext(p)) = kept
      /\ PagesOK(kept) /\ t \in 1 .. getLastPageNumber
    BY NextPages
<1>. HIDE DEF h, t
<1>2. pages' = kept /\ shown' = v
    BY <1>1 DEF ShowNext
<1>3. count \in Int
    BY Popped
<1>. HIDE DEF count
<1>4. Tidy(b)
    BY <1>3, PopBackKeepsTidy DEF Shrunk
<1>5. t \in Int /\ getLastPageNumber \in Nat
    BY <1>1, NewestStored
<1>6. page \in SUBSET Nat /\ IsFiniteSet(page)
    BY <1>5, PageLoads
<1>. HIDE DEF b, page
<1>7. Tidy(v) /\ \A e \in page : e <= v.tail
    BY <1>4, <1>6, PushFrontLoads
<1>. HIDE DEF v
<1>8. v.tail \in Nat
    BY <1>7 DEF Tidy, Windows
<1>9. Reaches(t, v.tail)
    BY <1>1, <1>7, <1>8, PageReached DEF page
<1>10. High(v, kept)
    <2>1. Top(kept) = t /\ t \in Nat
        BY <1>1 DEF Top
    <2>2. Slack(kept) \in Nat
        BY <1>1, PagesTyped
    <2>. HIDE DEF kept
    <2>. QED
        BY <1>8, <1>9, <2>1, <2>2, ReachesLess DEF High
<1>. QED
    BY <1>1, <1>2, <1>7, <1>10 DEF PlacedWell, Placed

(* A page loaded into an empty window.                                     *)
LEMMA FirstPageStays ==
    ASSUME NEW w, Tidy(w), w.head = 0, NEW p, PagesOK(p), p.head \in 1 .. getLastPageNumber
    PROVE  LET v == pushBack(w, getPage(p.head))
           IN  /\ Tidy(v) /\ Low(v, p) /\ Shows(v, w, getPage(p.head))
               /\ v.head \in getPage(p.head) /\ \A e \in getPage(p.head) : v.head <= e
<1>. DEFINE page == getPage(p.head)
            new == {e \in page : e < w.head \/ e > w.tail}
            v == pushBack(w, page)
<1>1. p.head \in Int /\ getLastPageNumber \in Nat
    BY NewestStored
<1>2. /\ page \in SUBSET (Nat \ {0}) /\ IsFiniteSet(page) /\ page # {} /\ page \in SUBSET Int
      /\ \A e \in page : e \in Stored /\ PageOf(e) = p.head
    <2>1. page # {}
        BY NoEmptyPage
    <2>2. page \in SUBSET (Nat \ {0}) /\ IsFiniteSet(page)
        BY <1>1, PageLoads
    <2>3. \A e \in page : e \in Stored /\ PageOf(e) = p.head
        BY DEF getPage
    <2>. HIDE DEF page
    <2>. QED
        BY <2>1, <2>2, <2>3
<1>. HIDE DEF page
<1>3. w.tail = 0
    BY EmptyWindow
<1>4. new = page
    <2>1. \A e \in page : e > 0
        BY <1>2
    <2>. QED
        BY <1>3, <2>1, Zenon
<1>5. /\ Tidy(v) /\ v.head = (IF new = {} THEN w.head ELSE Min(new))
      /\ (IF w.head = 0 THEN \A e \in new : e <= v.tail ELSE v.tail = w.tail)
      /\ Shows(v, w, new)
    BY <1>2, PushBackLoads
<1>. HIDE DEF v, new
<1>6. v.head = Min(page) /\ \A e \in page : e <= v.tail
    BY <1>2, <1>4, <1>5
<1>7. Min(page) \in page /\ \A e \in page : Min(page) <= e
    BY <1>2, MinOfSome
<1>8. ASSUME NEW e \in Stored, PageOf(e) < p.head PROVE e < v.head
    <2>1. v.head \in Stored /\ PageOf(v.head) = p.head /\ v.head \in Int /\ e \in Int
          /\ PageOf(e) \in Int
        <3>1. v.head \in page
            BY <1>6, <1>7
        <3>2. v.head \in Stored /\ PageOf(v.head) = p.head
            BY <1>2, <3>1
        <3>3. \A f \in Stored : f \in Int /\ PageOf(f) \in Int
            BY StoredEvents, PageOfRank
        <3>. QED
            BY <3>2, <3>3
    <2>2. ~(v.head <= e)
        BY <1>1, <1>8, <2>1, PagesOrdered
    <2>. QED
        BY <2>1, <2>2
<1>9. v.tail \in Nat
    BY <1>5 DEF Tidy, Windows
<1>10. Reaches(p.head, v.tail)
    BY <1>6, <1>9, PageReached DEF page
<1>11. p.head <= 1 => p.head = 1
    BY <1>1
<1>. QED
    BY <1>4, <1>5, <1>6, <1>7, <1>8, <1>10, <1>11 DEF Low, v, page

(* Backwards from an empty window, ...                                     *)
LEMMA PreviousOfNone ==
    ASSUME NEW w, Tidy(w), w.head = 0, NEW p, PagesOK(p), ShowPrevious(w, p)
    PROVE  PlacedWell(shown', pages')
<1>. DEFINE h == IF p.head >= 2 THEN p.head - 1 ELSE 1
            full == p.tail - h > PageLimit
            t == IF full THEN p.tail - 1 ELSE p.tail
            kept == [head |-> h, tail |-> t]
            count == popCount(getPrevious(p), kept)
            b == popFront(w, count)
            v == pushBack(b, getPage(h))
<1>1. /\ getPrevious(p) = [head |-> h, tail |-> p.tail] /\ trimTail(getPrevious(p)) = kept
      /\ PagesOK(kept) /\ h \in 1 .. getLastPageNumber
    BY PreviousPages
<1>. HIDE DEF h, t
<1>2. pages' = kept /\ shown' = v
    BY <1>1 DEF ShowPrevious
<1>3. count \in Int
    BY Popped
<1>. HIDE DEF count
<1>4. Tidy(b) /\ b.head = 0
    BY <1>3, PopFrontKeepsTidy DEF Shrunk
<1>. HIDE DEF b
<1>5. kept.head = h
    OBVIOUS
<1>. HIDE DEF kept
<1>6. Tidy(v) /\ Low(v, kept)
    BY <1>1, <1>4, <1>5, FirstPageStays
<1>. QED
    BY <1>1, <1>2, <1>6 DEF PlacedWell, Placed

(* ... and from one with events: what is loaded is below its head, or      *)
(* there already.                                                          *)
LEMMA PreviousOfSome ==
    ASSUME FewPages, NEW w, Tidy(w), w.head # 0, NEW p, PagesOK(p), Placed(w, p),
           ShowPrevious(w, p)
    PROVE  PlacedWell(shown', pages')
<1>. DEFINE h == IF p.head >= 2 THEN p.head - 1 ELSE 1
            full == p.tail - h > PageLimit
            t == IF full THEN p.tail - 1 ELSE p.tail
            kept == [head |-> h, tail |-> t]
            count == popCount(getPrevious(p), kept)
            page == getPage(h)
            b == popFront(w, count)
            new == {e \in page : e < b.head \/ e > b.tail}
            v == pushBack(b, page)
<1>1. /\ getPrevious(p) = [head |-> h, tail |-> p.tail] /\ trimTail(getPrevious(p)) = kept
      /\ PagesOK(kept) /\ h \in 1 .. getLastPageNumber
      /\ full => /\ p.head >= 2 /\ p.tail \in 2 .. getLastPageNumber
                 /\ p.tail - p.head = PageLimit /\ t - h = PageLimit
    BY PreviousPages
<1>2. /\ p.head \in Nat /\ p.tail \in Nat /\ p.head <= getLastPageNumber
      /\ p.tail <= getLastPageNumber /\ p.tail - p.head <= PageLimit
      /\ p.head <= p.tail \/ (p.head = 1 /\ p.tail = 0)
      /\ getLastPageNumber \in Nat \ {0} /\ PageLimit \in Nat
      /\ Slack(p) \in Nat /\ Slack(p) <= getLastPageNumber - p.tail
      /\ Top(p) \in Nat /\ Top(p) >= p.head /\ Top(p) >= 1
    BY PagesTyped
<1>3. pages' = kept /\ shown' = v
    BY <1>1 DEF ShowPrevious
<1>4. count \in Nat /\ (~full => count = 0) /\ (full => count = Cardinality(getPage(p.tail)))
    <2>1. count \in Nat
        BY Popped
    <2>2. ASSUME ~full PROVE count = 0
        <3>1. kept = getPrevious(p)
            BY <1>1, <2>2
        <3>. QED
            BY <3>1, Popped
    <2>3. ASSUME full PROVE count = Cardinality(getPage(p.tail))
        <3>1. h <= p.tail /\ h \in Int /\ p.tail \in Int
            BY <1>1, <1>2, <2>3
        <3>2. count = popCount([head |-> h, tail |-> p.tail], [head |-> h, tail |-> p.tail - 1])
            BY <1>1, <2>3, Zenon
        <3>. HIDE DEF h
        <3>. QED
            BY <3>1, <3>2, Popped
    <2>. QED
        BY <2>1, <2>2, <2>3
<1>. HIDE DEF count
<1>5. w.head \in Nat /\ w.tail \in Nat
    BY DEF Tidy, Windows
<1>6. /\ Tidy(b) /\ b.head = w.head /\ b.tail <= w.tail /\ b.head <= b.tail + 1
      /\ b.tail \in Nat /\ (~full => b.tail = w.tail) /\ w.tail - count - 1 <= b.tail
    <2>1. /\ Tidy(b) /\ b.head = w.head /\ b.tail <= w.tail
          /\ w.tail - (IF count <= 0 THEN 0 ELSE count + 1) <= b.tail
        <3>1. count \in Int
            BY <1>4
        <3>. QED
            BY <3>1, PopFrontKeepsTidy DEF Shrunk
    <2>2. b.tail \in Nat /\ b.head <= b.tail + 1
        BY <2>1 DEF Tidy, Windows, RecordsTidy
    <2>3. w.tail - count - 1 <= b.tail
        BY <1>4, <1>5, <2>1, <2>2
    <2>. HIDE DEF b
    <2>4. ~full => b.tail = w.tail
        BY <1>4, <1>5, <2>1, <2>2
    <2>. QED
        BY <2>1, <2>2, <2>3, <2>4
<1>. HIDE DEF b
<1>7. /\ page \in SUBSET (Nat \ {0}) /\ IsFiniteSet(page)
      /\ \A e \in page : e \in Stored /\ PageOf(e) = h /\ e \in UpTo(h)
    <2>1. h \in Int
        BY <1>1
    <2>2. page \in SUBSET (Nat \ {0}) /\ IsFiniteSet(page)
        BY <2>1, PageLoads
    <2>. HIDE DEF h
    <2>3. \A e \in page : e \in Stored /\ PageOf(e) = h /\ e \in UpTo(h)
        BY <2>1 DEF getPage, UpTo
    <2>. QED
        BY <2>2, <2>3
<1>. HIDE DEF page
<1>8. (\A e \in page : e < b.head \/ e <= b.tail) =>
          /\ Tidy(v) /\ v.tail = b.tail
          /\ v.head = IF new = {} THEN b.head ELSE Min(new)
    BY <1>5, <1>6, <1>7, PushBackLoads
<1>. HIDE DEF v
<1>. SUFFICES /\ \A e \in page : e < b.head \/ e <= b.tail
              /\ v.tail = b.tail /\ v.head = (IF new = {} THEN b.head ELSE Min(new))
                 => Placed(v, kept)
    BY <1>1, <1>3, <1>8 DEF PlacedWell
<1>9. CASE High(w, p)
    <2>1. h \in Nat /\ t \in Nat /\ h >= 1 /\ Top(kept) \in Nat /\ Slack(kept) \in Nat
        <3>1. kept.head = h /\ kept.tail = t
            OBVIOUS
        <3>. HIDE DEF kept
        <3>. QED
            BY <1>1, <3>1, PagesTyped
    <2>2. CASE ~full
        <3>1. Reaches(h, w.tail)
            <4>1. CASE p.head = 0
                <5>1. Slack(p) = 0 /\ h = 1
                    BY <4>1 DEF Slack
                <5>2. Reaches(Top(p), w.tail)
                    BY <1>5, <1>9, <5>1 DEF High
                <5>. QED
                    BY <1>2, <1>5, <5>1, <5>2, ReachesLess
            <4>2. CASE p.head # 0
                <5>1. Reaches(p.head, w.tail)
                    BY <1>2, <1>5, <1>9, <4>2, RoomBelow
                <5>2. h <= p.head
                    BY <1>2, <4>2
                <5>. HIDE DEF h
                <5>. QED
                    BY <1>2, <1>5, <2>1, <5>1, <5>2, ReachesLess
            <4>. QED
                BY <4>1, <4>2
        <3>2. \A e \in page : e <= b.tail
            BY <1>6, <1>7, <2>2, <3>1 DEF Reaches
        <3>3. Top(kept) = Top(p) /\ Slack(p) <= Slack(kept)
            <4>1. kept.tail = p.tail /\ kept.head = h
                BY <2>2
            <4>2. Slack(kept) = Slack(p) \/ Slack(p) = 0
                <5>1. CASE p.head >= 2
                    BY <1>2, <2>2, <5>1 DEF Slack
                <5>2. CASE p.head = 1
                    BY <2>2, <4>1, <5>2 DEF Slack
                <5>3. CASE p.head = 0
                    BY <5>3 DEF Slack
                <5>. QED
                    BY <1>2, <5>1, <5>2, <5>3
            <4>. HIDE DEF kept, h, t
            <4>. QED
                BY <1>2, <2>1, <4>1, <4>2 DEF Top
        <3>4. v.tail = b.tail => High(v, kept)
            <4>1. w.tail + Slack(p) <= w.tail + Slack(kept)
                BY <1>2, <1>5, <2>1, <3>3
            <4>2. Reaches(Top(kept), w.tail + Slack(kept))
                BY <1>2, <1>5, <1>9, <2>1, <3>3, <4>1, ReachesLess DEF High
            <4>. QED
                BY <1>6, <2>2, <4>2 DEF High
        <3>. QED
            BY <3>2, <3>4 DEF Placed
    <2>3. CASE full
        <3>1. /\ p.head >= 2 /\ p.tail - p.head = PageLimit /\ p.tail \in 1 .. getLastPageNumber
              /\ t = p.tail - 1 /\ t - h = PageLimit /\ t >= 1 /\ Top(p) = p.tail
            BY <1>1, <1>2, <2>3 DEF Top
        <3>2. Slack(p) = getLastPageNumber - p.tail /\ Slack(kept) = Slack(p) + 1 /\ Top(kept) = t
            <4>. HIDE DEF h, t
            <4>1. Slack(p) = getLastPageNumber - p.tail
                BY <1>2, <3>1 DEF Slack
            <4>2. kept.head = h /\ kept.tail = t
                OBVIOUS
            <4>. HIDE DEF kept
            <4>3. Slack(kept) = getLastPageNumber - t
                BY <2>1, <3>1, <4>2 DEF Slack
            <4>4. Top(kept) = t
                BY <3>1, <4>2 DEF Top
            <4>. QED
                BY <1>2, <3>1, <4>1, <4>3, <4>4
        <3>3. Reaches(t, b.tail + Slack(kept))
            <4>1. ASSUME NEW e \in UpTo(t) PROVE e <= b.tail + Slack(kept)
                <5>. DEFINE x == w.tail + Slack(p)
                <5>1. x \in Int /\ \A f \in UpTo(p.tail) : f <= x
                    BY <1>2, <1>5, <1>9, <3>1 DEF High, Reaches
                <5>2. e \in UpTo(p.tail - 1) /\ e \in Int
                    BY <3>1, StoredEvents DEF UpTo
                <5>. HIDE DEF x, t, h
                <5>3. e + Cardinality(getPage(p.tail)) <= x
                    BY <3>1, <5>1, <5>2, OnePageOn
                <5>4. e + count <= w.tail + Slack(p)
                    BY <1>4, <2>3, <5>3 DEF x
                <5>. QED
                    BY <1>2, <1>4, <1>5, <1>6, <3>2, <5>2, <5>4
            <4>. QED
                BY <4>1 DEF Reaches
        <3>4. High(b, kept)
            BY <3>2, <3>3 DEF High
        <3>5. Reaches(h, b.tail)
            <4>1. kept.head = h /\ b.tail \in Int
                BY <1>6
            <4>. HIDE DEF kept
            <4>. QED
                BY <1>1, <2>1, <3>4, <4>1, RoomBelow
        <3>6. \A e \in page : e <= b.tail
            BY <1>7, <3>5 DEF Reaches
        <3>7. v.tail = b.tail => High(v, kept)
            BY <3>4 DEF High
        <3>. QED
            BY <3>6, <3>7 DEF Placed
    <2>. QED
        BY <2>2, <2>3
<1>10. CASE Low(w, p)
    <2>1. \A e \in Stored : PageOf(e) < p.head => e < b.head
        BY <1>6, <1>10 DEF Low
    <2>2. p.head <= 1 => Reaches(1, b.tail)
        BY <1>1, <1>2, <1>6, <1>10 DEF Low
    <2>3. CASE p.head >= 2
        <3>1. h = p.head - 1 /\ h < p.head
            BY <1>2, <2>3
        <3>. HIDE DEF h
        <3>2. \A e \in page : e < b.head
            BY <1>7, <2>1, <3>1
        <3>3. h <= 1 => Reaches(1, b.tail)
            <4>1. ASSUME h <= 1, NEW e \in UpTo(1) PROVE e <= b.tail
                <5>1. e \in Stored /\ PageOf(e) < p.head /\ e \in Int
                    <6>1. e \in Stored /\ PageOf(e) <= 1
                        BY <4>1 DEF UpTo
                    <6>2. e \in Int /\ PageOf(e) \in Nat
                        BY <6>1, StoredEvents, PageOfRank
                    <6>. QED
                        BY <1>2, <2>3, <6>1, <6>2
                <5>2. e < b.head
                    BY <2>1, <5>1
                <5>. QED
                    BY <1>5, <1>6, <5>1, <5>2
            <4>. QED
                BY <4>1 DEF Reaches
        <3>4. v.head = (IF new = {} THEN b.head ELSE Min(new)) =>
                  \A e \in Stored : PageOf(e) < h => e < v.head
            <4>1. new = page
                BY <3>2
            <4>2. page # {}
                BY <1>1, NoEmptyPage DEF page
            <4>3. Min(page) \in page
                <5>1. page \in SUBSET Int
                    BY <1>7
                <5>. QED
                    BY <1>7, <4>2, <5>1, MinOfSome
            <4>4. ASSUME NEW e \in Stored, PageOf(e) < h PROVE e < Min(page)
                <5>1. Min(page) \in Stored /\ PageOf(Min(page)) = h
                    BY <1>7, <4>3
                <5>2. e \in Int /\ Min(page) \in Int
                    BY <5>1, StoredEvents
                <5>3. ~(h <= PageOf(e))
                    BY <1>1, <4>4, PageOfRank
                <5>4. ~(Min(page) <= e)
                    BY <5>1, <5>3, PagesOrdered
                <5>. QED
                    BY <5>2, <5>4
            <4>. HIDE DEF new
            <4>. QED
                BY <4>1, <4>2, <4>4
        <3>5. kept.head = h
            OBVIOUS
        <3>. HIDE DEF kept
        <3>. QED
            BY <3>2, <3>3, <3>4, <3>5 DEF Placed, Low
    <2>4. CASE p.head <= 1
        <3>1. h = 1
            BY <1>2, <2>4
        <3>. HIDE DEF h
        <3>2. \A e \in page : e <= b.tail
            BY <1>7, <2>2, <2>4, <3>1 DEF Reaches
        <3>3. \A e \in Stored : ~(PageOf(e) < h)
            BY <3>1, PageOfRank
        <3>4. kept.head = h
            OBVIOUS
        <3>. HIDE DEF kept
        <3>. QED
            BY <2>2, <2>4, <3>2, <3>3, <3>4 DEF Placed, Low
    <2>. QED
        BY <1>2, <2>3, <2>4
<1>. QED
    BY <1>9, <1>10 DEF Placed

LEMMA PreviousStays ==
    ASSUME FewPages, NEW w, NEW p, PlacedWell(w, p), ShowPrevious(w, p)
    PROVE  PlacedWell(shown', pages')
<1>1. CASE w.head = 0
    BY <1>1, PreviousOfNone DEF PlacedWell
<1>2. CASE w.head # 0
    BY <1>2, PreviousOfSome DEF PlacedWell
<1>. QED
    BY <1>1, <1>2

(* The window after clear, and with its first page.                        *)
LEMMA OnePageOK ==
    ASSUME NEW k \in 1 .. getLastPageNumber
    PROVE  PagesOK(OnePage(k)) /\ OnePage(k).head = k /\ OnePage(k).tail = k
<1>1. k \in Int /\ getLastPageNumber \in Nat /\ PageLimit \in Nat
    BY NewestStored, SizeAssumption
<1>. QED
    BY <1>1 DEF PagesOK, OnePage

LEMMA OpenedAtFirst ==
    ASSUME NEW w, Contained(w)
    PROVE  LET v == pushFront(cleared(w), getPage(1))
           IN  /\ PlacedWell(v, OnePage(1)) /\ v.tail \in getPage(1)
               /\ Shows(v, cleared(w), getPage(1))
<1>. DEFINE c == cleared(w)
            page == getPage(1)
            v == pushFront(c, page)
            p == OnePage(1)
<1>1. Tidy(c) /\ c.head = 0 /\ c.tail = 0
    BY ClearedForgets
<1>2. 1 \in 1 .. getLastPageNumber
    BY NewestStored
<1>3. page \in SUBSET (Nat \ {0}) /\ page \in SUBSET Nat /\ IsFiniteSet(page) /\ page # {}
    BY <1>2, PageLoads, NoEmptyPage
<1>4. page = {e \in page : e > c.tail}
    <2>1. \A e \in page : e > 0
        BY <1>3
    <2>. HIDE DEF page, c
    <2>. QED
        BY <1>1, <2>1, Zenon
<1>. HIDE DEF c, page
<1>5. /\ Tidy(v) /\ v.tail \in page \cup {c.tail} /\ \A e \in page : e <= v.tail
      /\ Shows(v, c, {e \in page : e > c.tail})
    BY <1>1, <1>3, PushFrontLoads
<1>. HIDE DEF v
<1>6. v.tail \in page /\ v.tail \in Nat
    <2>1. v.tail # 0
        <3>1. PICK f \in page : TRUE
            BY <1>3
        <3>2. f \in Nat \ {0} /\ f <= v.tail
            BY <1>3, <1>5
        <3>3. v.tail \in Nat
            BY <1>5 DEF Tidy, Windows
        <3>. QED
            BY <3>2, <3>3
    <2>. QED
        BY <1>1, <1>3, <1>5, <2>1
<1>7. Reaches(1, v.tail)
    BY <1>2, <1>5, <1>6, PageReached DEF page
<1>8. High(v, p)
    <2>1. PagesOK(p) /\ p.tail = 1
        BY <1>2, OnePageOK
    <2>. HIDE DEF p
    <2>2. Slack(p) \in Nat /\ Top(p) = 1
        BY <2>1, PagesTyped DEF Top
    <2>3. 1 \in Nat /\ v.tail + Slack(p) \in Int /\ v.tail <= v.tail + Slack(p)
        BY <1>6, <2>2
    <2>. QED
        BY <1>6, <1>7, <2>2, <2>3, ReachesLess DEF High
<1>. QED
    BY <1>2, <1>4, <1>5, <1>6, <1>8, OnePageOK DEF PlacedWell, Placed, v, c, page

LEMMA OpenedAtLast ==
    ASSUME NEW w, Contained(w)
    PROVE  LET n == getLastPageNumber
               v == pushBack(cleared(w), getPage(n))
           IN  /\ PlacedWell(v, OnePage(n)) /\ Low(v, OnePage(n))
               /\ v.head \in getPage(n)
               /\ Shows(v, cleared(w), getPage(n))
<1>. DEFINE n == getLastPageNumber
            c == cleared(w)
            p == OnePage(n)
<1>1. Tidy(c) /\ c.head = 0
    BY ClearedForgets
<1>2. n \in 1 .. getLastPageNumber
    BY NewestStored
<1>3. PagesOK(p) /\ p.head = n
    BY <1>2, OnePageOK
<1>. HIDE DEF c, p, n
<1>4. LET v == pushBack(c, getPage(p.head))
      IN  /\ Tidy(v) /\ Low(v, p) /\ Shows(v, c, getPage(p.head))
          /\ v.head \in getPage(p.head)
    BY <1>1, <1>2, <1>3, FirstPageStays
<1>. QED
    BY <1>3, <1>4 DEF PlacedWell, Placed, n, c, p

LEMMA InitPages == PagesInit => PagesInv
<1>. SUFFICES ASSUME PagesInit PROVE PagesInv
    OBVIOUS
<1>1. shown = NoRows /\ pages = [head |-> 0, tail |-> 0]
    BY DEF PagesInit
<1>2. Tidy(NoRows) /\ NoRows.head = 0
    <2>1. /\ NoRows.head = 0 /\ NoRows.tail = 0 /\ NoRows.uuids = <<>> /\ NoRows.rows = <<>>
          /\ NoRows = [head |-> 0, tail |-> 0, uuids |-> <<>>, rows |-> <<>>]
        BY DEF NoRows
    <2>2. <<>> \in UNION {[T -> Ids] : T \in SUBSET Nat} /\ DOMAIN <<>> = {} /\ <<>> \in Seq(Ids)
        <3>1. <<>> \in [{} -> Ids] /\ {} \in SUBSET Nat
            OBVIOUS
        <3>. QED
            BY <3>1
    <2>3. NoRows \in Windows
        BY <2>1, <2>2 DEF Windows
    <2>. QED
        BY <2>1, <2>2, <2>3 DEF Tidy, RecordsTidy, RowsTidy
<1>3. PagesOK(pages)
    <2>1. getLastPageNumber \in Nat /\ PageLimit \in Nat
        BY NewestStored, SizeAssumption
    <2>. QED
        BY <1>1, <2>1 DEF PagesOK
<1>. QED
    BY <1>1, <1>2, <1>3 DEF PagesInv, Placed

LEMMA FirstPageKeeps ==
    ASSUME Tidy(shown), PagesOK(pages), NEW answered \in 0 .. 2, firstPage(answered)
    PROVE  PlacedWell(shown', pages')
<1>. DEFINE v == pushFront(cleared(shown), getPage(1))
<1>1. PlacedWell(v, OnePage(1))
    BY TidyIsContained, OpenedAtFirst
<1>2. CASE answered = 0
    <2>1. shown' = cleared(shown) /\ pages' = pages
        BY <1>2 DEF firstPage
    <2>. QED
        BY <2>1, ClearedIsTidy DEF PlacedWell, Placed
<1>. HIDE DEF v
<1>3. CASE answered = 1
    <2>1. shown' = v /\ pages' = OnePage(1)
        BY <1>3 DEF firstPage, v
    <2>. QED
        BY <1>1, <2>1
<1>4. CASE answered = 2
    <2>1. ShowNext(v, OnePage(1))
        BY <1>4 DEF firstPage, v
    <2>. QED
        BY <1>1, <2>1, NextStays DEF PlacedWell
<1>. QED
    BY <1>2, <1>3, <1>4

LEMMA LastPageKeeps ==
    ASSUME FewPages, Tidy(shown), PagesOK(pages), NEW answered \in 0 .. 2, lastPage(answered)
    PROVE  PlacedWell(shown', pages')
<1>. DEFINE n == getLastPageNumber
            v == pushBack(cleared(shown), getPage(n))
<1>1. PlacedWell(v, OnePage(n))
    BY TidyIsContained, OpenedAtLast
<1>2. CASE answered = 0
    <2>1. shown' = cleared(shown) /\ pages' = pages
        BY <1>2 DEF lastPage
    <2>. QED
        BY <2>1, ClearedIsTidy DEF PlacedWell, Placed
<1>. HIDE DEF v
<1>3. CASE answered = 1
    <2>1. shown' = v /\ pages' = OnePage(n)
        BY <1>3 DEF lastPage, v
    <2>. QED
        BY <1>1, <2>1
<1>4. CASE answered = 2
    <2>1. ShowPrevious(v, OnePage(n))
        BY <1>4 DEF lastPage, v
    <2>. QED
        BY <1>1, <2>1, PreviousStays
<1>. QED
    BY <1>2, <1>3, <1>4

LEMMA PagesStep ==
    ASSUME FewPages, PagesInv, [PagesNext]_PagesVars
    PROVE  PagesInv'
<1>. SUFFICES PlacedWell(shown', pages')
    BY DEF PagesInv, PlacedWell, Tidy, PagesOK, Placed, High, Low, Slack, Top, Reaches,
           RecordsTidy, RowsTidy
<1>1. Tidy(shown) /\ PagesOK(pages) /\ PlacedWell(shown, pages)
    BY DEF PagesInv, PlacedWell
<1>2. CASE nextPage
    BY <1>1, <1>2, NextStays DEF nextPage
<1>3. CASE previousPage
    BY <1>1, <1>3, PreviousStays DEF previousPage
<1>4. ASSUME NEW answered \in 0 .. 2, firstPage(answered) \/ lastPage(answered)
      PROVE  PlacedWell(shown', pages')
    BY <1>1, <1>4, FirstPageKeeps, LastPageKeeps
<1>5. CASE UNCHANGED PagesVars
    <2>1. shown' = shown /\ pages' = pages
        BY <1>5 DEF PagesVars
    <2>. QED
        BY <1>1, <2>1
<1>. QED
    BY <1>2, <1>3, <1>4, <1>5 DEF PagesNext

LEMMA PagesInvariant ==
    ASSUME FewPages
    PROVE  PagesSpec => []PagesInv
<1>1. PagesInv /\ [PagesNext]_PagesVars => PagesInv'
    BY PagesStep
<1>. QED
    BY <1>1, InitPages, PTL DEF PagesSpec

(* However the user moves through the pages of a finished job, and         *)
(* whichever requests fail, the rows of the window are in the order of the *)
(* output, nothing is repeated and no row is without its record            *)
(* (PagesInOrder: showNext, showPrevious, first and last of                *)
(* index.controller.js). For as many pages as FewPages allows: in longer   *)
(* jobs what popFront takes too much adds up until a page is put on the    *)
(* wrong side of the rows.                                                 *)
THEOREM PagesKeepTheirOrder ==
    ASSUME FewPages
    PROVE  PagesSpec => []PagesInOrder
<1>1. PagesInv => PagesInOrder
    BY TidyInOrder DEF PagesInv, PagesInOrder
<1>. QED
    BY <1>1, PagesInvariant, PTL

(* "Go to first page", ...                                                 *)
LEMMA FirstReloads ==
    ASSUME Contained(shown), firstPage(2),
           NEW e \in Stored \ {StartEvent}, PageOf(e) \in pages'.head .. pages'.tail
    PROVE  EventRecord(e) \in Range(shown'.rows)
<1>. DEFINE w == pushFront(cleared(shown), getPage(1))
            p == OnePage(1)
            t == IF p.tail + 1 <= getLastPageNumber THEN p.tail + 1 ELSE getLastPageNumber
            h == IF t - p.head > PageLimit THEN t - PageLimit ELSE p.head
            kept == [head |-> h, tail |-> t]
            count == popCount(getNext(p), kept)
            page == getPage(t)
            b == popBack(w, count)
            v == pushFront(b, page)
<1>1. Tidy(w) /\ w.tail \in getPage(1) /\ Shows(w, cleared(shown), getPage(1))
    BY OpenedAtFirst DEF PlacedWell
<1>2. PagesOK(p) /\ p.head = 1 /\ p.tail = 1
    BY NewestStored, OnePageOK
<1>3. getNext(p) = [head |-> p.head, tail |-> t] /\ trimHead(getNext(p)) = kept
    BY <1>2, NextPages
<1>4. ShowNext(w, p)
    BY DEF firstPage
<1>. HIDE DEF w, p
<1>5. pages' = kept /\ shown' = v
    <2>. HIDE DEF h, t
    <2>. QED
        BY <1>3, <1>4 DEF ShowNext
<1>6. count \in Int
    BY Popped
<1>. HIDE DEF count
<1>7. Tidy(b) /\ b.tail = w.tail
    BY <1>1, <1>6, PopBackKeepsTidy DEF Shrunk
<1>. HIDE DEF b
<1>8. t \in Nat /\ t \in 1 .. 2 /\ getLastPageNumber \in Nat \ {0} /\ PageLimit \in Nat
    BY <1>2, NewestStored, SizeAssumption
<1>9. page \in SUBSET Nat /\ IsFiniteSet(page)
    BY <1>8, PageLoads
<1>10. Shows(v, b, {f \in page : f > b.tail})
    BY <1>7, <1>9, PushFrontLoads
<1>. HIDE DEF v
<1>11. e \in Stored /\ e \in Int /\ PageOf(e) \in Nat \ {0} /\ PageOf(e) \in h .. t
    BY <1>5, StoredEvents, PageOfRank
<1>12. CASE PageOf(e) = t /\ t = 2
    <2>1. w.tail \in Stored /\ PageOf(w.tail) = 1 /\ w.tail \in Int
        BY <1>1, StoredEvents DEF getPage
    <2>2. ~(e <= w.tail)
        BY <1>11, <1>12, <2>1, PagesOrdered
    <2>3. e \in page
        BY <1>11, <1>12 DEF getPage
    <2>. QED
        BY <1>5, <1>7, <1>10, <1>11, <2>1, <2>2, <2>3 DEF Shows
<1>13. CASE PageOf(e) = 1
    <2>1. h = 1 /\ kept = getNext(p)
        <3>1. h <= 1
            BY <1>8, <1>11, <1>13
        <3>2. h = 1
            BY <1>2, <1>8, <3>1
        <3>. QED
            BY <1>2, <1>3, <3>2
    <2>2. count = 0
        BY <2>1, Popped DEF count
    <2>3. b = w
        BY <2>2 DEF b, popBack
    <2>4. e \in getPage(1)
        BY <1>11, <1>13 DEF getPage
    <2>. QED
        BY <1>1, <1>5, <1>10, <2>3, <2>4 DEF Shows
<1>. QED
    BY <1>8, <1>11, <1>12, <1>13

(* ... "Go to last page".                                                  *)
LEMMA LastReloads ==
    ASSUME Contained(shown), lastPage(2),
           NEW e \in Stored \ {StartEvent}, PageOf(e) \in pages'.head .. pages'.tail
    PROVE  EventRecord(e) \in Range(shown'.rows)
<1>. DEFINE n == getLastPageNumber
            w == pushBack(cleared(shown), getPage(n))
            p == OnePage(n)
            h == IF p.head >= 2 THEN p.head - 1 ELSE 1
            full == p.tail - h > PageLimit
            t == IF full THEN p.tail - 1 ELSE p.tail
            kept == [head |-> h, tail |-> t]
            count == popCount(getPrevious(p), kept)
            page == getPage(h)
            b == popFront(w, count)
            new == {f \in page : f < b.head \/ f > b.tail}
            v == pushBack(b, page)
<1>1. n \in Nat \ {0} /\ n \in 1 .. getLastPageNumber /\ PageLimit \in Nat
    BY NewestStored, SizeAssumption
<1>2. Tidy(w) /\ Shows(w, cleared(shown), getPage(n)) /\ Low(w, p) /\ w.head \in getPage(n)
    BY OpenedAtLast DEF PlacedWell
<1>3. PagesOK(p) /\ p.head = n /\ p.tail = n
    BY <1>1, OnePageOK
<1>4. /\ getPrevious(p) = [head |-> h, tail |-> p.tail] /\ trimTail(getPrevious(p)) = kept
      /\ h \in 1 .. getLastPageNumber
    BY <1>3, PreviousPages
<1>5. ShowPrevious(w, p)
    BY DEF lastPage
<1>. HIDE DEF w, p
<1>6. pages' = kept /\ shown' = v
    <2>. HIDE DEF h, t
    <2>. QED
        BY <1>4, <1>5 DEF ShowPrevious
<1>7. count \in Int /\ (~full => count = 0)
    <2>1. ~full => kept = getPrevious(p)
        BY <1>4
    <2>. QED
        BY <2>1, Popped
<1>. HIDE DEF count
<1>8. Tidy(b) /\ b.head = w.head
    BY <1>2, <1>7, PopFrontKeepsTidy DEF Shrunk
<1>9. count = 0 => b = w
    BY DEF popFront
<1>. HIDE DEF b
<1>10. /\ page \in SUBSET (Nat \ {0}) /\ IsFiniteSet(page)
       /\ \A f \in page : f \in Stored /\ PageOf(f) = h
    <2>1. h \in Int
        BY <1>4
    <2>. HIDE DEF h
    <2>. QED
        BY <2>1, PageLoads DEF getPage
<1>11. e \in Stored /\ e \in Int /\ PageOf(e) \in Nat \ {0} /\ PageOf(e) \in h .. t
    BY <1>6, StoredEvents, PageOfRank
<1>12. CASE n >= 2
    <2>1. h = n - 1
        BY <1>3, <1>12
    <2>2. \A f \in page : f < b.head
        <3>1. \A f \in Stored : PageOf(f) < n => f < w.head
            BY <1>2, <1>3 DEF Low
        <3>. HIDE DEF h, page
        <3>. QED
            BY <1>1, <1>8, <1>10, <2>1, <3>1
    <2>3. Shows(v, b, new)
        <3>. HIDE DEF page
        <3>. QED
            BY <1>8, <1>10, <2>2, PushBackLoads
    <2>. HIDE DEF v
    <2>4. CASE PageOf(e) = h
        <3>1. e \in page
            BY <1>11, <2>4 DEF getPage
        <3>2. e \in new
            BY <2>2, <3>1
        <3>. HIDE DEF new
        <3>. QED
            BY <1>6, <2>3, <3>2 DEF Shows
    <2>5. CASE PageOf(e) # h
        <3>1. PageOf(e) = n /\ ~full
            BY <1>1, <1>3, <1>11, <2>1, <2>5
        <3>2. b = w
            BY <1>7, <1>9, <3>1
        <3>3. e \in getPage(n)
            BY <1>11, <3>1 DEF getPage
        <3>. QED
            BY <1>2, <1>6, <2>3, <3>2, <3>3 DEF Shows
    <2>. QED
        BY <2>4, <2>5
<1>13. CASE n = 1
    <2>1. h = 1 /\ ~full /\ t = 1
        BY <1>1, <1>3, <1>13
    <2>2. b = w
        BY <1>7, <1>9, <2>1
    <2>3. e \in getPage(n)
        BY <1>11, <1>13, <2>1 DEF getPage
    <2>4. page = getPage(n)
        BY <1>13, <2>1
    <2>5. \A f \in page : f <= w.tail
        <3>1. Reaches(1, w.tail)
            BY <1>2, <1>3, <1>13 DEF Low
        <3>. QED
            BY <1>10, <2>1, <3>1 DEF Reaches, UpTo
    <2>6. Shows(v, b, new)
        <3>. HIDE DEF page
        <3>. QED
            BY <1>8, <1>10, <2>2, <2>5, PushBackLoads
    <2>. QED
        BY <1>2, <1>6, <2>2, <2>3, <2>6 DEF Shows
<1>. QED
    BY <1>1, <1>12, <1>13

(* In longer jobs the order may be lost, but no record lies beyond head or *)
(* tail.                                                                   *)
LEMMA LoadsContained ==
    ASSUME NEW w, Contained(w), NEW k
    PROVE  Contained(pushFront(w, getPage(k))) /\ Contained(pushBack(w, getPage(k)))
<1>1. getPage(k) \in SUBSET (Nat \ {0}) /\ IsFiniteSet(getPage(k))
    BY StoredEvents DEF getPage
<1>. QED
    BY <1>1, PushFrontContained, PushBackContained

LEMMA ShownContained ==
    ASSUME NEW w, Contained(w), NEW p, ShowNext(w, p) \/ ShowPrevious(w, p)
    PROVE  Contained(shown')
<1>1. CASE ShowNext(w, p)
    <2>. DEFINE n == popCount(getNext(p), trimHead(getNext(p)))
    <2>1. n \in Int
        BY Popped
    <2>2. shown' = pushFront(popBack(w, n), getPage(getNext(p).tail))
        BY <1>1 DEF ShowNext
    <2>. HIDE DEF n
    <2>. QED
        BY <2>1, <2>2, PopBackContained, LoadsContained
<1>2. CASE ShowPrevious(w, p)
    <2>. DEFINE n == popCount(getPrevious(p), trimTail(getPrevious(p)))
    <2>1. n \in Int
        BY Popped
    <2>2. shown' = pushBack(popFront(w, n), getPage(getPrevious(p).head))
        BY <1>2 DEF ShowPrevious
    <2>. HIDE DEF n
    <2>. QED
        BY <2>1, <2>2, PopFrontContained, LoadsContained
<1>. QED
    BY <1>1, <1>2

LEMMA ContainedStep ==
    ASSUME Contained(shown), [PagesNext]_PagesVars
    PROVE  Contained(shown')
<1>1. CASE nextPage \/ previousPage
    BY <1>1, ShownContained DEF nextPage, previousPage
<1>2. Contained(cleared(shown))
    BY ClearedForgets, TidyIsContained
<1>3. ASSUME NEW answered \in 0 .. 2, firstPage(answered) PROVE Contained(shown')
    <2>. DEFINE v == pushFront(cleared(shown), getPage(1))
    <2>1. Contained(v)
        BY <1>2, LoadsContained
    <2>2. shown' = cleared(shown) \/ shown' = v \/ ShowNext(v, OnePage(1))
        <3>1. answered = 0 \/ answered = 1 \/ answered = 2
            OBVIOUS
        <3>2. answered = 0 => shown' = cleared(shown)
            BY <1>3 DEF firstPage
        <3>3. answered = 1 => shown' = v
            BY <1>3 DEF firstPage
        <3>4. answered = 2 => ShowNext(v, OnePage(1))
            BY <1>3 DEF firstPage
        <3>. QED
            BY <3>1, <3>2, <3>3, <3>4
    <2>. HIDE DEF v
    <2>. QED
        BY <1>2, <2>1, <2>2, ShownContained
<1>4. ASSUME NEW answered \in 0 .. 2, lastPage(answered) PROVE Contained(shown')
    <2>. DEFINE v == pushBack(cleared(shown), getPage(getLastPageNumber))
    <2>1. Contained(v)
        BY <1>2, LoadsContained
    <2>2. \/ shown' = cleared(shown) \/ shown' = v
          \/ ShowPrevious(v, OnePage(getLastPageNumber))
        <3>1. answered = 0 \/ answered = 1 \/ answered = 2
            OBVIOUS
        <3>2. answered = 0 => shown' = cleared(shown)
            BY <1>4 DEF lastPage
        <3>3. answered = 1 => shown' = v
            BY <1>4 DEF lastPage
        <3>4. answered = 2 => ShowPrevious(v, OnePage(getLastPageNumber))
            BY <1>4 DEF lastPage
        <3>. QED
            BY <3>1, <3>2, <3>3, <3>4
    <2>. HIDE DEF v
    <2>. QED
        BY <1>2, <2>1, <2>2, ShownContained
<1>5. CASE UNCHANGED PagesVars
    BY <1>5 DEF PagesVars
<1>. QED
    BY <1>1, <1>3, <1>4, <1>5 DEF PagesNext

LEMMA AlwaysContained == PagesSpec => []Contained(shown)
<1>1. PagesInit => Contained(shown)
    BY InitPages, TidyIsContained DEF PagesInv
<1>2. Contained(shown) /\ [PagesNext]_PagesVars => Contained(shown)'
    BY ContainedStep
<1>. QED
    BY <1>1, <1>2, PTL DEF PagesSpec

(* After "Go to first page" and "Go to last page" whose requests are       *)
(* answered, every event of the pages that are counted as loaded has its   *)
(* row, whatever the window held before (JumpsReload: first and last of    *)
(* index.controller.js, which clear the render service first).             *)
THEOREM JumpsReloadThePages == PagesSpec => JumpsReload
<1>1. Contained(shown) /\ [PagesNext]_PagesVars =>
          [firstPage(2) \/ lastPage(2) =>
              \A e \in Stored \ {StartEvent} :
                  PageOf(e) \in pages'.head .. pages'.tail =>
                      EventRecord(e) \in Range(shown'.rows)]_PagesVars
    BY FirstReloads, LastReloads
<1>. QED
    BY <1>1, AlwaysContained, PTL DEF PagesSpec, JumpsReload
=============================================================================
