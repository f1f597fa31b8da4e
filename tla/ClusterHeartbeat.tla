-------------------------- MODULE ClusterHeartbeat --------------------------
(***************************************************************************)
(* The instances of a cluster and their rows (awx/main/tasks.py:           *)
(* cluster_node_heartbeat).  Every minute each instance writes its own     *)
(* capacity and the time; it then takes the capacity of the instances that *)
(* it has read not to have done so for two minutes, or deletes them.       *)
(* Capacity 0 is what the scheduler and its reaper take for a node that is *)
(* down.  Time goes in steps of a minute; the capacity is 1 or 0.          *)
(***************************************************************************)
EXTENDS Naturals

CONSTANTS
    Instances,
    Grace,              \* grace_period of is_lost
    AutoDeprovision,    \* the settings of AWX_AUTO_DEPROVISION_INSTANCES to look at
    MaxVersion,         \* bounds: the releases of AWX
    MaxUpsets           \* and the stops, crashes, starts, edits by users, and
                        \* minutes in which a heartbeat does not come on time

ASSUME HeartbeatAssumption ==
    /\ Grace \in Nat \ {0} /\ AutoDeprovision \subseteq BOOLEAN
    /\ MaxVersion \in Nat \ {0}
    /\ MaxUpsets \in Nat

VARIABLES
    deprovisions,   \* AWX_AUTO_DEPROVISION_INSTANCES, which stays as it is
    row,            \* the table of instances
    up,             \* the instances whose services run
    release,        \* awx_application_version of each instance
    due,            \* the instances that have a heartbeat in their queue
    beat,           \* the heartbeat that an instance is working on
    upsets

HeartbeatVars == <<deprovisions, row, up, release, due, beat, upsets>>

(* age is the time since modified, as far as is_lost can tell; version 0   *)
(* is the empty one of an instance that has just been registered.          *)
InstanceRows == [there : BOOLEAN, capacity : 0 .. 1, enabled : BOOLEAN,
                 age : 0 .. Grace + 1, version : 0 .. MaxVersion]
NoRow == [there |-> FALSE, capacity |-> 0, enabled |-> FALSE, age |-> 0, version |-> 0]
NewInstance == [NoRow EXCEPT !.there = TRUE, !.enabled = TRUE]

(* this_inst as it was read, whether another instance has a newer version, *)
(* and the lost instances, those that had capacity and those that had none.*)
NoBeat == [phase |-> "idle", mine |-> NoRow, newer |-> FALSE, lost |-> {}]

(* A cluster whose instances are all up, or one without instances.         *)
HeartbeatFrom(installed) ==
    /\ row = [n \in Instances |->
                 IF n \in installed THEN [NewInstance EXCEPT !.capacity = 1, !.version = 1]
                 ELSE NoRow]
    /\ up = installed /\ release = [n \in Instances |-> 1]
    /\ due = {} /\ beat = [n \in Instances |-> NoBeat]
    /\ upsets = 0

Upset == upsets < MaxUpsets /\ upsets' = upsets + 1

HeartbeatInit == deprovisions \in AutoDeprovision /\ HeartbeatFrom(Instances)

----------------------------------------------------------------------------
is_lost(r) == r.age > Grace

(* celery beat sends the heartbeats; one that waits for too long expires.  *)
OnTime == due = {} /\ \A n \in up : beat[n] = NoBeat

Tick ==
    /\ IF OnTime THEN UNCHANGED upsets ELSE Upset
    /\ due' = up
    /\ row' = [n \in Instances |->
                  [row[n] EXCEPT !.age = IF row[n].there /\ ~is_lost(row[n])
                                         THEN @ + 1 ELSE @]]
    /\ UNCHANGED <<deprovisions, up, release, beat>>

(* The heartbeat reads the rows, and get_or_register.  An instance that    *)
(* has no row is registered if it may be, and the heartbeat fails anyway:  *)
(* it has read the rows before.                                            *)
Reads(n) ==
    /\ n \in due /\ beat[n] = NoBeat
    /\ due' = due \ {n}
    /\ LET others == {m \in Instances \ {n} : row[m].there}
           lost == {m \in others : is_lost(row[m])}
       IN  IF row[n].there
           THEN /\ beat' = [beat EXCEPT ![n] =
                      [phase |-> "read", mine |-> row[n],
                       newer |-> \E m \in others \ lost :
                                     row[m].version > release[n],
                       lost |-> {<<m, row[m].capacity>> : m \in lost}]]
                /\ row' = row
           ELSE /\ row' = IF deprovisions THEN [row EXCEPT ![n] = NewInstance]
                                             ELSE row
                /\ beat' = beat
    /\ UNCHANGED <<deprovisions, up, release, upsets>>

(* Faulty variant: the time is not saved with the capacity.                *)
Unrefreshed(n) ==
    [row EXCEPT ![n].capacity = 1, ![n].version = release[n]]

(* refresh_capacity                                                        *)
Refreshed(n) ==
    [row EXCEPT ![n].capacity = 1, ![n].version = release[n], ![n].age = 0]

(* What follows: nothing after a start or when there is nothing to do; the *)
(* services stop when another instance has a newer version.                *)
Continues(n) ==
    LET b == beat[n]
    IN  beat' = [beat EXCEPT ![n] =
            CASE is_lost(b.mine) -> NoBeat
              [] ~is_lost(b.mine) /\ b.newer -> [NoBeat EXCEPT !.phase = "stopping"]
              [] ~is_lost(b.mine) /\ ~b.newer ->
                    IF b.lost = {} THEN NoBeat
                    ELSE [NoBeat EXCEPT !.phase = "marking", !.lost = b.lost]]

(* The heartbeat writes its own row.  It fails if that was deleted; a row  *)
(* that it need not write it does not miss.                                *)
Writes(n) ==
    LET mine == beat[n].mine
    IN  /\ beat[n].phase = "read"
        /\ IF mine.enabled \/ mine.capacity # 0
           THEN IF row[n].there
                THEN /\ row' = IF mine.enabled THEN Refreshed(n)
                               ELSE [row EXCEPT ![n].capacity = 0]
                     /\ Continues(n)
                ELSE row' = row /\ beat' = [beat EXCEPT ![n] = NoBeat]
           ELSE row' = row /\ Continues(n)
        /\ UNCHANGED <<deprovisions, up, release, due, upsets>>

(* An instance is marked as lost, or deprovisioned; that it has no row any *)
(* more is ignored.                                                        *)
MarksLost(n) ==
    /\ beat[n].phase = "marking"
    /\ \E l \in beat[n].lost :
          LET m == l[1]
              rest == beat[n].lost \ {l}
          IN  /\ row' = CASE deprovisions -> [row EXCEPT ![m] = NoRow]
                          [] ~deprovisions /\ l[2] # 0 /\ row[m].there ->
                                [row EXCEPT ![m].capacity = 0]
                          [] OTHER -> row
              /\ beat' = IF rest = {} THEN [beat EXCEPT ![n] = NoBeat]
                                      ELSE [beat EXCEPT ![n].lost = rest]
    /\ UNCHANGED <<deprovisions, up, release, due, upsets>>

----------------------------------------------------------------------------
GoesDown(n) ==
    /\ up' = up \ {n} /\ due' = due \ {n}
    /\ beat' = [beat EXCEPT ![n] = NoBeat]

(* inform_cluster_of_shutdown                                              *)
ShutsDown(n) ==
    /\ GoesDown(n)
    /\ row' = IF row[n].there
              THEN [row EXCEPT ![n].capacity = 0, ![n].age = 0] ELSE row
    /\ UNCHANGED <<deprovisions, release>>

StopsForNewer(n) ==
    beat[n].phase = "stopping" /\ ShutsDown(n) /\ UNCHANGED upsets

Stops(n) ==
    /\ n \in up /\ beat[n] = NoBeat /\ Upset
    /\ ShutsDown(n)

Crashes(n) ==
    /\ n \in up /\ Upset
    /\ GoesDown(n)
    /\ UNCHANGED <<deprovisions, row, release>>

(* An instance starts, perhaps with a new release, and registers if it     *)
(* may; its first heartbeat does not wait for celery beat.                 *)
StartsUp(n) ==
    /\ n \notin up /\ Upset
    /\ \E v \in release[n] .. MaxVersion : release' = [release EXCEPT ![n] = v]
    /\ up' = up \cup {n} /\ due' = due \cup {n}
    /\ row' = IF deprovisions /\ ~row[n].there THEN [row EXCEPT ![n] = NewInstance]
              ELSE row
    /\ UNCHANGED <<deprovisions, beat>>

(* InstanceDetail.update: a user edits an instance, through the API of one *)
(* that is up.  The capacity and the time are written, whether the edited  *)
(* instance is up or not, and with its capacity the release of the other.  *)
UserEdits(n, enabled) ==
    /\ row[n].there /\ Upset
    /\ \E api \in up :
          row' = [row EXCEPT ![n].enabled = enabled, ![n].age = 0,
                             ![n].capacity = IF enabled THEN 1 ELSE 0,
                             ![n].version = IF enabled THEN release[api] ELSE @]
    /\ UNCHANGED <<deprovisions, up, release, due, beat>>

----------------------------------------------------------------------------
Heartbeat(n) == Reads(n) \/ Writes(n) \/ MarksLost(n) \/ StopsForNewer(n)

HeartbeatNext ==
    \/ Tick
    \/ \E n \in Instances :
          \/ Heartbeat(n)
          \/ Stops(n) \/ Crashes(n) \/ StartsUp(n)
          \/ \E enabled \in BOOLEAN : UserEdits(n, enabled)

(* celery beat sends heartbeats, and an instance that is up handles them.  *)
HeartbeatFairness ==
    /\ WF_HeartbeatVars(Tick)
    /\ \A n \in Instances : WF_HeartbeatVars(Heartbeat(n))

HeartbeatSpec == HeartbeatInit /\ [][HeartbeatNext]_HeartbeatVars /\ HeartbeatFairness

----------------------------------------------------------------------------
(* However starts, stops, crashes, late heartbeats and edits have met with *)
(* heartbeats that act on what they read before, in the end an instance    *)
(* has capacity exactly when it is up and enabled: no live one is lost for *)
(* good, and no dead one keeps what makes the scheduler choose it and the  *)
(* reaper spare its jobs.  Somebody has to be there to see it.             *)
CapacitySettles ==
    <>[](\/ \A n \in up : ~row[n].enabled
         \/ \A n \in Instances :
               row[n].capacity # 0 <=> n \in up /\ row[n].enabled)
=============================================================================
