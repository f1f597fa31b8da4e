------------------- MODULE TaskManagerPlacement_proofs -------------------
(***************************************************************************)
(* Where the task manager puts the tasks: no instance is given more than   *)
(* it can take, and isolated instances only get what may run there.  For   *)
(* every table of tasks, every arrangement of groups and instances and     *)
(* every interleaving with the API and the workers, under the assumptions  *)
(* that each theorem names; each of them is needed.                        *)
(***************************************************************************)
EXTENDS TaskManagerRules_proofs, WellFoundedInduction

----------------------------------------------------------------------------
(* Isolated nodes.  docs/clustering.md asks that isolated instances are    *)
(* kept out of ordinary groups, and a controller group is an ordinary one. *)
GroupsApart ==
    \A g \in Groups :
        IF Controller[g] = NoGroup THEN \A i \in Members[g] : ~Isolated(i)
                                   ELSE Controller[Controller[g]] = NoGroup

(* A task that cannot be isolated prefers isolated groups only, or none.   *)
(* With both, the idle isolated instance that the loop found first may be  *)
(* given to the task in the name of an ordinary group, and start_task      *)
(* looks at that group's controller only.                                  *)
PreferencesApart ==
    \A t \in Tasks : ~SupportsIsolation(t) =>
        \A k, l \in DOMAIN Preferred[t] :
            Controller[Preferred[t][k]] = NoGroup
            => Controller[Preferred[t][l]] = NoGroup

(* Row r of task t names no isolated node unless t can be isolated.        *)
NodeFor(t, r) == Isolated(r.execution_node) => SupportsIsolation(t)
IsolationInv ==
    /\ TypeInv
    /\ \A t \in Tasks : NodeFor(t, row[t])
    /\ \A t \in DOMAIN tx : NodeFor(t, tx[t])
    /\ \A t \in DOMAIN dependencies : NodeFor(t, dependencies[t])

LEMMA NoInstanceIsolated == ~Isolated(NoInstance)
  BY PlacementAssumption DEF Isolated

(* An instance that the loop chooses is in one of the preferred groups.    *)
LEMMA ChosenPreferred ==
  ASSUME NEW t \in Tasks, NEW k \in DOMAIN Preferred[t], NEW i \in Instances,
         Chosen(t, k, i)
  PROVE  \E l \in DOMAIN Preferred[t] : i \in Members[Preferred[t][l]]
<1>1. CASE BestFit(t, Preferred[t][k], i)
  BY <1>1 DEF BestFit, Fits, Online
<1>2. CASE IdleThatFits(t, k, i)
  <2>1. PICK j \in 1..k : LargestIdle(Preferred[t][j], i)
    BY <1>2 DEF IdleThatFits
  <2>2. Preferred[t] \in Seq(Groups)
    BY PlacementAssumption
  <2>3. j \in DOMAIN Preferred[t]
    BY <2>2
  <2> QED BY <2>1, <2>3 DEF LargestIdle, Idle, Online
<1> QED BY <1>1, <1>2 DEF Chosen, Accepts

LEMMA StartedOnItsNode ==
  ASSUME GroupsApart, PreferencesApart, NEW t \in Tasks, NEW read, NEW chain,
         NEW r, StartRow(t, read, chain, r), NodeFor(t, read)
  PROVE  NodeFor(t, r)
<1>1. CASE Refused(t, read, r)
  BY <1>1 DEF Refused, SamePlace, NodeFor
<1>2. CASE Submitted(t, read, chain, r) /\ ~SupportsIsolation(t)
  <2>1. PICK k \in DOMAIN Preferred[t], i \in Instances :
          /\ Chosen(t, k, i)
          /\ <<r.instance_group, r.execution_node>> \in Placements(t, Preferred[t][k], i)
    BY <1>2 DEF Submitted
  <2> DEFINE g == Preferred[t][k]
  <2>2. g \in Groups /\ \A l \in DOMAIN Preferred[t] : Preferred[t][l] \in Groups
    BY PlacementAssumption
  <2>3. CASE Controller[g] # NoGroup
    <3>1. r.execution_node \in Members[Controller[g]] /\ Controller[g] \in Groups
          /\ Controller[Controller[g]] = NoGroup
      BY <1>2, <2>1, <2>2, <2>3, PlacementAssumption DEF Placements, GroupsApart
    <3>2. ~Isolated(r.execution_node)
      BY <3>1 DEF GroupsApart
    <3> QED BY <3>2 DEF NodeFor
  <2>4. CASE Controller[g] = NoGroup
    <3>1. r.execution_node = i
      BY <2>1, <2>4 DEF Placements
    <3>2. PICK l \in DOMAIN Preferred[t] : i \in Members[Preferred[t][l]]
      BY <2>1, ChosenPreferred
    <3>3. Controller[Preferred[t][l]] = NoGroup
      BY <1>2, <2>4, <3>2 DEF PreferencesApart
    <3>4. ~Isolated(i)
      BY <2>2, <3>2, <3>3 DEF GroupsApart
    <3> QED BY <3>1, <3>4 DEF NodeFor
  <2> QED BY <2>3, <2>4
<1> QED BY <1>1, <1>2 DEF StartRow, NodeFor

LEMMA ViewNode ==
  ASSUME IsolationInv, NEW t \in Tasks
  PROVE  NodeFor(t, View(t))
  BY DEF IsolationInv, View

LEMMA NewRowNode ==
  ASSUME NEW t, NEW u
  PROVE  /\ NodeFor(u, NewRow) /\ NodeFor(u, InMemory(t))
         /\ NodeFor(u, DependencyRow(t, u))
<1>1. /\ NewRow.execution_node = NoInstance /\ InMemory(t).execution_node = NoInstance
      /\ DependencyRow(t, u).execution_node = NoInstance
  BY DEF NewRow, InMemory, DependencyRow
<1> QED BY <1>1, NoInstanceIsolated DEF NodeFor

LEMMA PassStepNode ==
  ASSUME GroupsApart, PreferencesApart, IsolationInv, TypeInv', PassStep
  PROVE  IsolationInv'
<1>1. ASSUME NEW t \in Tasks, NEW expired, GenerateDependencies(t, expired)
      PROVE  IsolationInv'
  <2>1. PICK new \in SUBSET (Tasks \ Manual), all \in SUBSET Tasks :
           Generated(t, new, all)
    BY <1>1, GenerateRows DEF IsolationInv
  <2>2. \A u \in Tasks : NodeFor(u, DependencyRow(t, u))
    BY NewRowNode
  <2>3. \A u \in DOMAIN tx' : NodeFor(u, tx'[u])
    BY <2>1, <2>2 DEF Generated, IsolationInv
  <2>4. \A u \in DOMAIN dependencies' : NodeFor(u, dependencies'[u])
    BY <2>1, <2>2, ViewNode DEF Generated
  <2>5. row' = row
    BY <2>1 DEF Generated, tables
  <2> QED BY <2>3, <2>4, <2>5 DEF IsolationInv
<1>2. ASSUME NEW d \in Tasks, ProcessDependency(d)
      PROVE  IsolationInv'
  <2>1. d \in DOMAIN dependencies /\ UNCHANGED <<row, dependencies>>
    BY <1>2 DEF ProcessDependency, NextDependency, tables, IsolationInv, TypeInv, TypeOK
  <2>2. \/ tx' = tx
        \/ \E chain, r : StartRow(d, dependencies[d], chain, r)
    BY <1>2, ProcessDependencyRows DEF IsolationInv
  <2>3. \A u \in DOMAIN tx' : NodeFor(u, tx'[u])
    BY <2>1, <2>2, StartedOnItsNode DEF IsolationInv, StartRow, Written
  <2> QED BY <2>1, <2>3 DEF IsolationInv
<1>3. ASSUME NEW t \in Tasks, ProcessPending(t)
      PROVE  IsolationInv'
  <2>1. NodeFor(t, InMemory(t))
    BY NewRowNode
  <2>2. /\ row' = row /\ DOMAIN dependencies' = {}
        /\ \/ tx' = tx
           \/ \E r : Written(t, r) /\ SamePlace(InMemory(t), r)
           \/ \E chain, r : StartRow(t, InMemory(t), chain, r)
    BY <1>3, ProcessPendingRows DEF IsolationInv, tables
  <2>3. ASSUME NEW r, Written(t, r), NodeFor(t, r)
        PROVE  \A u \in DOMAIN tx' : NodeFor(u, tx'[u])
    BY <2>3 DEF IsolationInv, Written
  <2>4. \A u \in DOMAIN tx' : NodeFor(u, tx'[u])
    <3>1. CASE tx' = tx
      BY <3>1 DEF IsolationInv
    <3>2. ASSUME NEW r, Written(t, r), SamePlace(InMemory(t), r)
          PROVE  NodeFor(t, r)
      BY <2>1, <3>2 DEF SamePlace, NodeFor
    <3>3. ASSUME NEW chain, NEW r, StartRow(t, InMemory(t), chain, r)
          PROVE  Written(t, r) /\ NodeFor(t, r)
      BY <2>1, <3>3, StartedOnItsNode DEF StartRow
    <3> QED BY <2>2, <2>3, <3>1, <3>2, <3>3
  <2> QED BY <2>2, <2>4 DEF IsolationInv
<1>4. CASE Commit
  BY <1>4, CommitRows, ViewNode DEF IsolationInv
<1>5. ASSUME NEW t \in Tasks, Dispatch(t)
      PROVE  IsolationInv'
  BY <1>5 DEF Dispatch, tables, visit, IsolationInv
<1> QED BY <1>1, <1>2, <1>3, <1>4, <1>5 DEF PassStep

LEMMA NextNode ==
  ASSUME GroupsApart, PreferencesApart, IsolationInv, [Next]_vars
  PROVE  IsolationInv'
<1>1. TypeInv'
  BY NextType DEF IsolationInv
(* A step that changes nothing of the committed rows but their status.     *)
<1>2. ASSUME \A u \in Tasks : row'[u] = row[u] \/ row'[u].execution_node = row[u].execution_node,
             UNCHANGED <<tx, dependencies>>
      PROVE  IsolationInv'
  BY <1>1, <1>2 DEF IsolationInv, NodeFor
<1>3. CASE Environment
  <2>1. UNCHANGED <<tx, dependencies>>
    BY <1>3 DEF Environment, Launch, Cancel, EnableUpdateOnLaunch, WorkerStart,
                WorkerFinish, WorkerCrash, HandleWorkError, pass, visit
  <2>2. \A u \in Tasks : row'[u] = row[u] \/ row'[u].execution_node = row[u].execution_node
    <3>1. TypeInv /\ row \in [Tasks -> Rows]
      BY DEF IsolationInv, TypeInv, TypeOK
    <3>2. ASSUME NEW t \in Tasks, row' = [row EXCEPT ![t] = row'[t]]
          PROVE  \A u \in Tasks \ {t} : row'[u] = row[u]
      BY <3>1, <3>2
    <3>3. ASSUME NEW t \in Tasks, Launch(t) \/ Cancel(t) \/ WorkerStart(t)
                                  \/ HandleWorkError(t)
                                  \/ \E outcome \in Outcomes : WorkerFinish(t, outcome)
          PROVE  \A u \in Tasks : row'[u] = row[u] \/ row'[u].execution_node = row[u].execution_node
      BY <3>1, <3>2, <3>3, LaunchRows, CancelRows, WorkerStartRows, WorkerFinishRows,
         HandleWorkErrorRows DEF SamePlace
    <3>4. ASSUME (\E s \in Sources : EnableUpdateOnLaunch(s)) \/ (\E t \in Tasks : WorkerCrash(t))
          PROVE  row' = row
      BY <3>4 DEF EnableUpdateOnLaunch, WorkerCrash, tables
    <3> QED BY <1>3, <3>3, <3>4 DEF Environment
  <2> QED BY <1>2, <2>1, <2>2
<1>4. ASSUME NEW reaped \in SUBSET {t \in Tasks : Lost(t)},
             NEW verdict \in Verdicts, BeginPass(reaped, verdict)
      PROVE  IsolationInv'
  <2>1. /\ row' = row /\ dependencies' = dependencies
        /\ \A t \in DOMAIN tx' : t \in Tasks /\ SamePlace(row[t], tx'[t])
    BY <1>4, BeginPassRows DEF IsolationInv, tables, visit
  <2> QED BY <1>1, <2>1 DEF IsolationInv, NodeFor, SamePlace
<1>5. CASE PassStep
  BY <1>1, <1>5, PassStepNode
<1>6. CASE PassFails
  BY <1>1, <1>6, PassFailsRows DEF IsolationInv, tables
<1>7. CASE DispatchCrash
  BY <1>2, <1>7 DEF DispatchCrash, tables, visit
<1>8. CASE UNCHANGED vars
  BY <1>2, <1>8 DEF vars, tables, pass, visit
<1> QED BY <1>3, <1>4, <1>5, <1>6, <1>7, <1>8 DEF Next, Schedule

(* In a cluster laid out as docs/clustering.md asks, whose groups are not  *)
(* mixed in what a task prefers, nothing but jobs and commands is ever     *)
(* placed on an isolated node.                                             *)
THEOREM IsolatedPlacement ==
  ASSUME GroupsApart, PreferencesApart
  PROVE  Spec => []IsolatedTasksOnly
<1>1. Init => IsolationInv
  <2> SUFFICES ASSUME Init PROVE IsolationInv
    OBVIOUS
  <2>1. TypeInv
    BY InitType
  <2>2. \A t \in Tasks : NodeFor(t, row[t])
    BY NewRowNode DEF Init
  <2> QED BY <2>1, <2>2, NoRowsType DEF Init, IsolationInv
<1>2. IsolationInv => IsolatedTasksOnly
  BY ViewNode DEF IsolatedTasksOnly, NodeFor
<1>3. IsolationInv /\ [Next]_vars => IsolationInv'
  BY NextNode
<1> QED BY <1>1, <1>2, <1>3, PTL DEF Spec

----------------------------------------------------------------------------
(* Sums over a finite set of tasks.  TotalImpact folds over the tasks, and *)
(* what it yields is proved without induction: a smallest set that refutes *)
(* the claim would have a smaller one.                                     *)
LEMMA SmallestSet ==
  ASSUME NEW S, IsFiniteSet(S), NEW F \in SUBSET SUBSET S, F # {}
  PROVE  \E m \in F : \A s \in F : s \subseteq m => s = m
<1>1. IsWellFoundedOn(StrictSubsetOrdering(S), SUBSET S)
  BY FS_StrictSubsetOrderingWellFounded, FS_FiniteSubsetsOfFinite
<1>2. PICK m \in F : \A s \in F : <<s, m>> \notin StrictSubsetOrdering(S)
  BY <1>1, WFMin, Zenon
<1> QED BY <1>2 DEF StrictSubsetOrdering

AnyOf(s) == CHOOSE t \in s : TRUE
SumStep(f, s) == IF s = {} THEN 0 ELSE Impact[AnyOf(s)] + f[s \ {AnyOf(s)}]
IsSum(f, S) == f = [s \in SUBSET S |-> SumStep(f, s)]

LEMMA TotalOfSum ==
  ASSUME NEW S
  PROVE  TotalImpact(S) = (CHOOSE f : IsSum(f, S))[S]
  BY DEF TotalImpact, MapThenSumSet, MapThenFoldSet, IsSum, SumStep, AnyOf

LEMMA AnyOfIn ==
  ASSUME NEW s, s # {}
  PROVE  AnyOf(s) \in s
  BY DEF AnyOf

LEMMA SumsAgree ==
  ASSUME NEW S \in SUBSET Tasks, NEW T \in SUBSET S, NEW f, NEW g,
         IsSum(f, S), IsSum(g, T)
  PROVE  f[T] = g[T]
<1> DEFINE F == {s \in SUBSET T : f[s] # g[s]}
<1> SUFFICES ASSUME F # {} PROVE FALSE
  OBVIOUS
<1>1. IsFiniteSet(T)
  BY TaskAssumption, FS_Subset
<1>2. PICK m \in F : \A s \in F : s \subseteq m => s = m
  <2>1. F \in SUBSET SUBSET T
    OBVIOUS
  <2> HIDE DEF F
  <2> QED BY <1>1, <2>1, SmallestSet
<1>3. f[m] = SumStep(f, m) /\ g[m] = SumStep(g, m)
  <2>1. m \in SUBSET T /\ m \in SUBSET S
    BY <1>2
  <2> QED BY <2>1 DEF IsSum
<1>4. m # {}
  BY <1>2, <1>3 DEF SumStep
<1>5. m \ {AnyOf(m)} \notin F
  BY <1>2, <1>4, AnyOfIn
<1> QED BY <1>2, <1>3, <1>4, <1>5 DEF SumStep

LEMMA SumExists ==
  ASSUME NEW S \in SUBSET Tasks
  PROVE  \E f : IsSum(f, S)
<1> DEFINE F == {s \in SUBSET S : ~\E f : IsSum(f, s)}
<1> SUFFICES ASSUME F # {} PROVE FALSE
  BY Zenon
<1>1. IsFiniteSet(S)
  BY TaskAssumption, FS_Subset
<1>2. PICK m \in F : \A s \in F : s \subseteq m => s = m
  <2>1. F \in SUBSET SUBSET S
    OBVIOUS
  <2> HIDE DEF F
  <2> QED BY <1>1, <2>1, SmallestSet
<1> DEFINE g(s) == CHOOSE f : IsSum(f, s)
           h == [s \in SUBSET m |-> IF s = {} THEN 0
                   ELSE Impact[AnyOf(s)] + g(s \ {AnyOf(s)})[s \ {AnyOf(s)}]]
<1>3. \A s \in SUBSET m : s # m => IsSum(g(s), s)
  <2> SUFFICES ASSUME NEW s \in SUBSET m, s # m PROVE IsSum(g(s), s)
    OBVIOUS
  <2>1. \E f : IsSum(f, s)
    BY <1>2
  <2> QED BY <2>1, Zenon
<1>4. \A s \in SUBSET m : s # m => h[s] = g(s)[s]
  <2> SUFFICES ASSUME NEW s \in SUBSET m, s # m PROVE h[s] = g(s)[s]
    OBVIOUS
  <2>1. g(s)[s] = SumStep(g(s), s)
    <3>1. IsSum(g(s), s)
      BY <1>3, Zenon
    <3> HIDE DEF g
    <3> QED BY <3>1 DEF IsSum
  <2>2. CASE s = {}
    BY <2>1, <2>2 DEF SumStep
  <2>3. CASE s # {}
    <3>1. AnyOf(s) \in s
      BY <2>3, AnyOfIn
    <3> DEFINE r == s \ {AnyOf(s)}
    <3>2. r \in SUBSET s /\ r \in SUBSET m /\ r # m
      BY <3>1
    <3>3. IsSum(g(s), s) /\ IsSum(g(r), r)
      BY <1>3, <3>2, Zenon
    <3>4. g(s)[r] = g(r)[r]
      <4> HIDE DEF g, h, r
      <4>1. s \in SUBSET Tasks
        BY <1>2
      <4> QED BY <3>2, <3>3, <4>1, SumsAgree
    <3>5. h[s] = Impact[AnyOf(s)] + g(r)[r]
      <4> HIDE DEF g
      <4> QED BY <2>3
    <3>6. g(s)[s] = Impact[AnyOf(s)] + g(s)[r]
      <4> HIDE DEF g, h
      <4> QED BY <2>1, <2>3 DEF SumStep
    <3> QED BY <3>4, <3>5, <3>6
  <2> QED BY <2>2, <2>3
<1>5. IsSum(h, m)
  <2> SUFFICES ASSUME NEW s \in SUBSET m PROVE h[s] = SumStep(h, s)
    BY DEF IsSum
  <2>1. CASE s = {}
    BY <2>1 DEF SumStep
  <2>2. CASE s # {}
    <3> DEFINE r == s \ {AnyOf(s)}
    <3>1. r \in SUBSET m /\ r # m
      BY <2>2, AnyOfIn
    <3>2. h[r] = g(r)[r]
      BY <1>4, <3>1, Zenon
    <3>3. h[s] = Impact[AnyOf(s)] + g(r)[r]
      <4> HIDE DEF g
      <4> QED BY <2>2
    <3> HIDE DEF g, h
    <3> QED BY <2>2, <3>2, <3>3 DEF SumStep
  <2> QED BY <2>1, <2>2
<1> HIDE DEF h
<1> QED BY <1>2, <1>5

LEMMA TotalStep ==
  ASSUME NEW S \in SUBSET Tasks
  PROVE  TotalImpact(S) = IF S = {} THEN 0
            ELSE Impact[AnyOf(S)] + TotalImpact(S \ {AnyOf(S)})
<1> DEFINE g(s) == CHOOSE f : IsSum(f, s)
           r == S \ {AnyOf(S)}
<1>1. r \in SUBSET S /\ r \in SUBSET Tasks
  OBVIOUS
<1>2. IsSum(g(S), S) /\ IsSum(g(r), r)
  BY <1>1, SumExists, Zenon
<1>3. TotalImpact(S) = g(S)[S] /\ TotalImpact(r) = g(r)[r]
  BY TotalOfSum, Zenon
<1> HIDE DEF g
<1>4. g(S)[r] = g(r)[r]
  BY <1>1, <1>2, SumsAgree
<1>5. g(S)[S] = SumStep(g(S), S)
  BY <1>2 DEF IsSum
<1> QED BY <1>3, <1>4, <1>5 DEF SumStep

LEMMA TotalType ==
  ASSUME NEW S \in SUBSET Tasks
  PROVE  TotalImpact(S) \in Nat
<1> DEFINE F == {s \in SUBSET S : TotalImpact(s) \notin Nat}
<1> SUFFICES ASSUME F # {} PROVE FALSE
  OBVIOUS
<1>1. IsFiniteSet(S)
  BY TaskAssumption, FS_Subset
<1>2. PICK m \in F : \A s \in F : s \subseteq m => s = m
  <2>1. F \in SUBSET SUBSET S
    OBVIOUS
  <2> HIDE DEF F
  <2> QED BY <1>1, <2>1, SmallestSet
<1>3. m \in SUBSET Tasks /\ m \in SUBSET S /\ TotalImpact(m) \notin Nat
  BY <1>2
<1>4. m # {}
  <2>1. m = {} => TotalImpact(m) = 0
    BY <1>3, TotalStep
  <2> QED BY <1>3, <2>1
<1>5. AnyOf(m) \in m /\ AnyOf(m) \in Tasks
  BY <1>3, <1>4, AnyOfIn
<1>6. TotalImpact(m \ {AnyOf(m)}) \in Nat
  BY <1>2, <1>3, <1>5
<1>7. Impact[AnyOf(m)] \in Nat
  BY <1>5, PlacementAssumption
<1> QED BY <1>3, <1>4, <1>6, <1>7, TotalStep

LEMMA TotalRemove ==
  ASSUME NEW S \in SUBSET Tasks, NEW t \in S
  PROVE  TotalImpact(S) = Impact[t] + TotalImpact(S \ {t})
<1> DEFINE F == {s \in SUBSET S : \E u \in s :
                    TotalImpact(s) # Impact[u] + TotalImpact(s \ {u})}
<1> SUFFICES ASSUME F # {} PROVE FALSE
  OBVIOUS
<1>1. IsFiniteSet(S)
  BY TaskAssumption, FS_Subset
<1>2. PICK m \in F : \A s \in F : s \subseteq m => s = m
  <2>1. F \in SUBSET SUBSET S
    OBVIOUS
  <2> HIDE DEF F
  <2> QED BY <1>1, <2>1, SmallestSet
<1>3. PICK u \in m : TotalImpact(m) # Impact[u] + TotalImpact(m \ {u})
  BY <1>2
<1> DEFINE x == AnyOf(m)
           p == m \ {x}
           q == m \ {u}
<1>4. x \in m /\ m \in SUBSET S /\ m \in SUBSET Tasks
  BY <1>2, <1>3, AnyOfIn
<1>5. TotalImpact(m) = Impact[x] + TotalImpact(p)
  BY <1>4, TotalStep
<1>6. x # u
  BY <1>3, <1>5
<1>7. /\ p \in SUBSET S /\ p # m /\ p \subseteq m /\ u \in p
      /\ q \in SUBSET S /\ q # m /\ q \subseteq m /\ x \in q
      /\ p \ {u} = q \ {x}
  BY <1>4, <1>3, <1>6
<1>8. TotalImpact(m) # Impact[u] + TotalImpact(q)
  BY <1>3
<1> HIDE DEF p, q, x
<1>9. TotalImpact(p) = Impact[u] + TotalImpact(p \ {u})
  BY <1>2, <1>7
<1>10. TotalImpact(q) = Impact[x] + TotalImpact(q \ {x})
  BY <1>2, <1>7
<1>11. /\ Impact[u] \in Nat /\ Impact[x] \in Nat
       /\ TotalImpact(p \ {u}) \in Nat
  BY <1>3, <1>4, <1>7, PlacementAssumption, TotalType
<1> QED BY <1>5, <1>7, <1>9, <1>10, <1>11, <1>8

(* A part of a set weighs no more than the whole.                          *)
LEMMA TotalMonotone ==
  ASSUME NEW T \in SUBSET Tasks, NEW S \in SUBSET T
  PROVE  TotalImpact(S) <= TotalImpact(T)
<1> DEFINE F == {s \in SUBSET T : S \subseteq s /\ ~(TotalImpact(S) <= TotalImpact(s))}
<1> SUFFICES ASSUME F # {} PROVE FALSE
  OBVIOUS
<1>1. IsFiniteSet(T)
  BY TaskAssumption, FS_Subset
<1>2. PICK m \in F : \A s \in F : s \subseteq m => s = m
  <2>1. F \in SUBSET SUBSET T
    OBVIOUS
  <2> HIDE DEF F
  <2> QED BY <1>1, <2>1, SmallestSet
<1>3. /\ m \in SUBSET T /\ m \in SUBSET Tasks /\ S \in SUBSET Tasks /\ S \subseteq m
      /\ TotalImpact(S) \in Nat /\ TotalImpact(m) \in Nat
      /\ ~(TotalImpact(S) <= TotalImpact(m))
  BY <1>2, TotalType
<1>4. PICK t \in m : t \notin S
  BY <1>3
<1>5. TotalImpact(S) <= TotalImpact(m \ {t})
  BY <1>2, <1>3, <1>4
<1>6. TotalImpact(m) = Impact[t] + TotalImpact(m \ {t})
  BY <1>3, TotalRemove
<1>7. Impact[t] \in Nat /\ TotalImpact(m \ {t}) \in Nat
  BY <1>3, PlacementAssumption, TotalType
<1> QED BY <1>3, <1>5, <1>6, <1>7

LEMMA TotalAdd ==
  ASSUME NEW S \in SUBSET Tasks, NEW t \in Tasks
  PROVE  TotalImpact(S \cup {t}) <= TotalImpact(S) + Impact[t]
<1>1. S \cup {t} \in SUBSET Tasks /\ t \in S \cup {t}
  OBVIOUS
<1>2. TotalImpact(S \cup {t}) = Impact[t] + TotalImpact((S \cup {t}) \ {t})
  BY <1>1, TotalRemove
<1>3. TotalImpact((S \cup {t}) \ {t}) <= TotalImpact(S)
  BY TotalMonotone
<1>4. /\ TotalImpact(S) \in Nat /\ TotalImpact((S \cup {t}) \ {t}) \in Nat
      /\ Impact[t] \in Nat
  BY TotalType, PlacementAssumption
<1> QED BY <1>2, <1>3, <1>4

----------------------------------------------------------------------------
(* Capacity.  The pass computes what an instance has left from the rows it *)
(* sees, with its own writes, while the workers change the rows: what it   *)
(* submits adds up with whatever comes true by then, because outside the   *)
(* pass no row becomes active.                                             *)
OkLoad(S, i) == TotalImpact(S) <= Capacity[i] \/ Cardinality(S) = 1
RowsOn(i) == {t \in Tasks : row[t].status \in Active /\ row[t].execution_node = i}

LoadInv ==
    /\ MutexInv
    /\ \A i \in Instances \ ControllerInstances :
          OkLoad(RowsOn(i), i) /\ OkLoad(OnInstance(i), i)

(* A part of an admissible load is one.                                    *)
LEMMA SmallerLoad ==
  ASSUME NEW T \in SUBSET Tasks, NEW S \in SUBSET T, NEW i \in Instances, OkLoad(T, i)
  PROVE  OkLoad(S, i)
<1>1. /\ S \in SUBSET Tasks /\ Capacity[i] \in Nat
      /\ TotalImpact(S) \in Nat /\ TotalImpact(T) \in Nat
  BY TotalType, PlacementAssumption
<1>2. CASE TotalImpact(T) <= Capacity[i]
  BY <1>1, <1>2, TotalMonotone DEF OkLoad
<1>3. CASE Cardinality(T) = 1
  <2>1. IsFiniteSet(T)
    BY TaskAssumption, FS_Subset
  <2>2. PICK x : T = {x}
    BY <1>3, <2>1, FS_Singleton
  <2>3. S = {} \/ S = T
    BY <2>2
  <2>4. S = {} => TotalImpact(S) = 0
    BY <1>1, TotalStep
  <2> QED BY <1>1, <1>3, <2>3, <2>4 DEF OkLoad
<1> QED BY <1>2, <1>3 DEF OkLoad

LEMMA AddedLoad ==
  ASSUME NEW T \in SUBSET Tasks, NEW t \in Tasks, NEW i \in Instances,
         TotalImpact(T) + Impact[t] <= Capacity[i] \/ T = {}
  PROVE  OkLoad(T \cup {t}, i)
<1>1. CASE TotalImpact(T) + Impact[t] <= Capacity[i]
  <2>1. /\ TotalImpact(T) \in Nat /\ TotalImpact(T \cup {t}) \in Nat
        /\ Impact[t] \in Nat /\ Capacity[i] \in Nat
    BY TotalType, PlacementAssumption
  <2>2. TotalImpact(T \cup {t}) <= TotalImpact(T) + Impact[t]
    BY TotalAdd
  <2> QED BY <1>1, <2>1, <2>2 DEF OkLoad
<1>2. CASE T = {}
  <2>1. T \cup {t} = {t} /\ Cardinality({t}) = 1
    BY <1>2, FS_Singleton
  <2> QED BY <2>1 DEF OkLoad
<1> QED BY <1>1, <1>2

(* An instance that is chosen has room, or is idle.                        *)
LEMMA ChosenHasRoom ==
  ASSUME TypeOK, NEW t \in Tasks, NEW k \in DOMAIN Preferred[t], NEW i \in Instances,
         Chosen(t, k, i)
  PROVE  OkLoad(OnInstance(i) \cup {t}, i)
<1>1. OnInstance(i) \in SUBSET Tasks
  BY DEF OnInstance
<1>2. TotalImpact(OnInstance(i)) \in Nat /\ Impact[t] \in Nat /\ Capacity[i] \in Nat
  BY <1>1, TotalType, PlacementAssumption
<1>3. InstanceRemaining(i) >= Impact[t] \/ OnInstance(i) = {}
  BY DEF Chosen, Accepts, BestFit, Fits, IdleThatFits, LargestIdle, Idle
<1> QED BY <1>1, <1>2, <1>3, AddedLoad DEF InstanceRemaining

(* The node in a submitted row is the chosen instance or a controller's.   *)
LEMMA SubmittedHasRoom ==
  ASSUME TypeOK, NEW t \in Tasks, NEW read, NEW chain, NEW r, Submitted(t, read, chain, r),
         NEW i \in Instances \ ControllerInstances, r.execution_node = i
  PROVE  OkLoad(OnInstance(i) \cup {t}, i)
<1>1. PICK k \in DOMAIN Preferred[t], j \in Instances :
         /\ Chosen(t, k, j)
         /\ <<r.instance_group, r.execution_node>> \in Placements(t, Preferred[t][k], j)
  BY DEF Submitted
<1>2. Preferred[t][k] \in Groups
  BY PlacementAssumption
<1>3. i = j
  BY <1>1, <1>2 DEF Placements, ControllerInstances
<1> QED BY <1>1, <1>3, ChosenHasRoom

----------------------------------------------------------------------------
LEMMA InitLoad == Init => LoadInv
<1> SUFFICES ASSUME Init PROVE LoadInv
  OBVIOUS
<1>1. MutexInv
  BY InitMutex
<1>2. \A t \in Tasks : row[t].status = "none" /\ View(t).status = "none"
  BY NoRowsType DEF Init, NewRow, View
<1>3. \A i : RowsOn(i) = {} /\ OnInstance(i) = {}
  BY <1>2 DEF RowsOn, OnInstance, Active
<1>4. TotalImpact({}) = 0
  BY TotalStep
<1>5. \A i \in Instances : OkLoad({}, i)
  BY <1>4, PlacementAssumption DEF OkLoad
<1> QED BY <1>1, <1>3, <1>5 DEF LoadInv

(* A step that puts nothing on an instance.                                *)
LEMMA NothingPlaced ==
  ASSUME LoadInv, MutexInv',
         \A t \in Tasks : row'[t].status \in Active =>
            row[t].status \in Active /\ row'[t].execution_node = row[t].execution_node,
         \A t \in Tasks : View(t)'.status \in Active =>
            \/ /\ View(t).status \in Active
               /\ View(t)'.execution_node = View(t).execution_node
            \/ View(t)'.execution_node = NoInstance
  PROVE  LoadInv'
<1>1. NoInstance \notin Instances
  BY PlacementAssumption
<1>2. ASSUME NEW i \in Instances \ ControllerInstances
      PROVE  OkLoad(RowsOn(i)', i) /\ OkLoad(OnInstance(i)', i)
  <2>1. /\ RowsOn(i)' \subseteq RowsOn(i) /\ RowsOn(i) \subseteq Tasks
        /\ OnInstance(i)' \subseteq OnInstance(i) /\ OnInstance(i) \subseteq Tasks
    BY <1>1 DEF RowsOn, OnInstance
  <2> QED BY <1>2, <2>1, SmallerLoad DEF LoadInv
<1> QED BY <1>2 DEF LoadInv, OkLoad

LEMMA EnvironmentLoad ==
  ASSUME LoadInv, MutexInv', {"cancel", "slow_queue"} \cap Env = {},
         NoUpdatesOnLaunch \/ NothingFails, Environment
  PROVE  LoadInv'
<1>1. EnvironmentHolds /\ UNCHANGED tx
  BY EnvironmentHeld DEF LoadInv, pass
<1>2. \A t \in Tasks :
         /\ row'[t].status \in Active => row[t].status \in Active
         /\ row'[t].execution_node = row[t].execution_node
  BY <1>1 DEF EnvironmentHolds, Kept, Steady
<1>3. \A t \in Tasks : View(t)'.status \in Active =>
            /\ View(t).status \in Active
            /\ View(t)'.execution_node = View(t).execution_node
  BY <1>1, <1>2 DEF View
<1> QED BY <1>2, <1>3, NothingPlaced

(* The pass starts from the committed rows, and ends by leaving them alone *)
(* or by committing its own.                                               *)
LEMMA BeginPassLoad ==
  ASSUME LoadInv, MutexInv',
         NEW reaped \in SUBSET {t \in Tasks : Lost(t)},
         NEW verdict \in Verdicts, BeginPass(reaped, verdict)
  PROVE  LoadInv'
<1>1. row' = row /\ \A t \in DOMAIN tx' : tx'[t].status \in Terminal
  BY BeginPassRows DEF LoadInv, MutexInv, QuietInv, tables
<1>2. ASSUME NEW i \in Instances \ ControllerInstances
      PROVE  OkLoad(RowsOn(i)', i) /\ OkLoad(OnInstance(i)', i)
  <2>1. /\ RowsOn(i)' = RowsOn(i) /\ RowsOn(i) \subseteq Tasks
        /\ OnInstance(i)' \subseteq RowsOn(i)
    BY <1>1 DEF RowsOn, OnInstance, View, Active, Terminal
  <2> QED BY <1>2, <2>1, SmallerLoad DEF LoadInv
<1> QED BY <1>2 DEF LoadInv, OkLoad

LEMMA EndOfPassLoad ==
  ASSUME LoadInv, MutexInv', Commit \/ PassFails
  PROVE  LoadInv'
<1>1. CASE Commit
  <2>1. \A t \in Tasks : row'[t] = View(t) /\ View(t)' = View(t)
    BY <1>1, CommitRows
  <2>2. \A i : RowsOn(i)' = OnInstance(i) /\ OnInstance(i)' = OnInstance(i)
    BY <2>1 DEF RowsOn, OnInstance
  <2> QED BY <2>2 DEF LoadInv, OkLoad
<1>2. CASE PassFails
  <2>1. row' = row /\ \A t \in Tasks : View(t)' = row[t]
    BY <1>2, PassFailsRows DEF tables
  <2>2. \A i : RowsOn(i)' = RowsOn(i) /\ OnInstance(i)' = RowsOn(i)
    BY <2>1 DEF RowsOn, OnInstance
  <2> QED BY <2>2 DEF LoadInv, OkLoad
<1> QED BY <1>1, <1>2

LEMMA GenerateDependenciesLoad ==
  ASSUME LoadInv, MutexInv', NEW t \in Tasks, NEW expired,
         GenerateDependencies(t, expired)
  PROVE  LoadInv'
<1>1. PICK new \in SUBSET (Tasks \ Manual), all \in SUBSET Tasks :
         Generated(t, new, all)
  BY GenerateRows DEF LoadInv, MutexInv, QuietInv
<1>2. \A u \in new : DependencyRow(t, u).status = "pending"
  BY DEF DependencyRow, NewRow
<1>3. /\ UNCHANGED row
      /\ \A u \in Tasks : IF u \in new THEN View(u)'.status = "pending"
                          ELSE View(u)' = View(u)
  BY <1>1, <1>2 DEF Generated, tables, View
<1> QED BY <1>3, NothingPlaced DEF Active

(* A visit places at most the visited task, where there is room.           *)
LEMMA VisitLoad ==
  ASSUME LoadInv, MutexInv', NEW t \in Tasks, UNCHANGED row,
         \/ tx' = tx
         \/ \E r : /\ Written(t, r)
                   /\ \/ r.status = "failed"
                      \/ r.execution_node = NoInstance
                      \/ \E read, chain : Submitted(t, read, chain, r)
  PROVE  LoadInv'
<1>1. CASE tx' = tx
  BY <1>1, NothingPlaced DEF View
<1>2. ASSUME NEW r, Written(t, r),
             \/ r.status = "failed"
             \/ r.execution_node = NoInstance
             \/ \E read, chain : Submitted(t, read, chain, r)
      PROVE  LoadInv'
  <2>1. View(t)' = r /\ \A u \in Tasks \ {t} : View(u)' = View(u)
    BY <1>2 DEF Written, View
  <2>2. ASSUME NEW i \in Instances \ ControllerInstances
        PROVE  OkLoad(RowsOn(i)', i) /\ OkLoad(OnInstance(i)', i)
    <3>1. /\ RowsOn(i)' = RowsOn(i) /\ OnInstance(i) \subseteq Tasks
          /\ OnInstance(i)' \subseteq OnInstance(i) \cup {t}
          /\ t \in OnInstance(i)' => r.status \in Active /\ r.execution_node = i
      BY <2>1 DEF RowsOn, OnInstance
    <3>2. OkLoad(OnInstance(i), i) /\ OkLoad(RowsOn(i)', i)
      BY <2>2, <3>1 DEF LoadInv, OkLoad
    <3>3. CASE t \notin OnInstance(i)'
      <4>1. OnInstance(i)' \subseteq OnInstance(i)
        BY <3>1, <3>3
      <4> QED BY <3>1, <3>2, <4>1, SmallerLoad
    <3>4. CASE t \in OnInstance(i)'
      <4>1. \E read, chain : Submitted(t, read, chain, r)
        BY <1>2, <3>1, <3>4, PlacementAssumption DEF Active
      <4>2. OkLoad(OnInstance(i) \cup {t}, i)
        BY <3>1, <3>4, <4>1, SubmittedHasRoom DEF LoadInv, MutexInv, QuietInv, TypeInv
      <4>3. OnInstance(i) \cup {t} \subseteq Tasks
        BY <3>1
      <4> QED BY <3>1, <3>2, <4>2, <4>3, SmallerLoad
    <3> QED BY <3>3, <3>4
  <2> QED BY <2>2 DEF LoadInv, OkLoad
<1> QED BY <1>1, <1>2

LEMMA ProcessDependencyLoad ==
  ASSUME LoadInv, MutexInv', NEW d \in Tasks, ProcessDependency(d)
  PROVE  LoadInv'
<1>1. UNCHANGED row /\ \/ tx' = tx
                       \/ \E chain, r : StartRow(d, dependencies[d], chain, r)
  BY ProcessDependencyRows DEF LoadInv, MutexInv, QuietInv, tables
<1>2. \/ tx' = tx
      \/ \E r : /\ Written(d, r)
                /\ \/ r.status = "failed"
                   \/ \E read, chain : Submitted(d, read, chain, r)
  BY <1>1 DEF StartRow, Refused
<1> QED BY <1>1, <1>2, VisitLoad

LEMMA ProcessPendingLoad ==
  ASSUME LoadInv, MutexInv', NEW t \in Tasks, ProcessPending(t)
  PROVE  LoadInv'
<1>1. /\ UNCHANGED row
      /\ \/ tx' = tx
         \/ \E r : Written(t, r) /\ SamePlace(InMemory(t), r)
         \/ \E chain, r : StartRow(t, InMemory(t), chain, r)
  BY ProcessPendingRows DEF LoadInv, MutexInv, QuietInv, tables
<1>2. InMemory(t).execution_node = NoInstance
  BY DEF InMemory, NewRow
<1>3. \/ tx' = tx
      \/ \E r : /\ Written(t, r)
                /\ \/ r.status = "failed"
                   \/ r.execution_node = NoInstance
                   \/ \E read, chain : Submitted(t, read, chain, r)
  BY <1>1, <1>2 DEF StartRow, Refused, SamePlace
<1> QED BY <1>1, <1>3, VisitLoad

LEMMA NextLoad ==
  ASSUME {"cancel", "slow_queue"} \cap Env = {}, NoUpdatesOnLaunch \/ NothingFails,
         LoadInv, [Next]_vars
  PROVE  LoadInv'
<1>1. MutexInv'
  BY NextMutex DEF LoadInv
<1>2. CASE DispatchCrash \/ \E t \in Tasks : Dispatch(t)
  <2>1. UNCHANGED <<row, tx>>
    BY <1>2, DispatchRows DEF LoadInv, MutexInv, QuietInv, TypeInv, tables
  <2> QED BY <1>1, <2>1, NothingPlaced DEF View
<1>3. CASE UNCHANGED vars
  BY <1>1, <1>3, NothingPlaced DEF vars, tables, pass, View
<1> QED BY <1>1, <1>2, <1>3, EnvironmentLoad, BeginPassLoad, EndOfPassLoad,
           GenerateDependenciesLoad, ProcessDependencyLoad, ProcessPendingLoad
        DEF Next, Schedule, PassStep

(* An instance that is no controller is never given more impact than its   *)
(* capacity, but for one task alone, if nobody cancels (a canceled task    *)
(* that waits gives its capacity back and still turns to running when its  *)
(* message arrives), no waiting task is taken for lost, and no callback    *)
(* touches a task that celery has.                                         *)
THEOREM LoadsRespectCapacity ==
  ASSUME {"cancel", "slow_queue"} \cap Env = {}, NoUpdatesOnLaunch \/ NothingFails
  PROVE  Spec => []CapacityRespected
<1>1. Init => LoadInv
  BY InitLoad
<1>2. LoadInv /\ [Next]_vars => LoadInv'
  BY NextLoad
<1>3. LoadInv => CapacityRespected
  BY DEF LoadInv, OkLoad, CapacityRespected
<1> QED BY <1>1, <1>2, <1>3, PTL DEF Spec
=============================================================================
