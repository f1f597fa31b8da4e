---------------------------- MODULE WorkflowRun ----------------------------
(***************************************************************************)
(* What a workflow job promises, without a scheduler, transactions, rows   *)
(* or workers: docs/workflow.md, "Workflow Run Details".  Every node has a *)
(* fate; a node is started only along an edge that its parent's outcome    *)
(* selects, and the workflow ends only when every tree has been followed   *)
(* to its end, with the verdict that the document defines.                 *)
(***************************************************************************)
CONSTANTS
    Nodes,
    SuccessNodes, FailureNodes, AlwaysNodes,    \* [Nodes -> SUBSET Nodes]
    Missing             \* nodes whose unified job template is null

VARIABLES
    fate,               \* [Nodes -> Fates]
    verdict             \* "running", "successful" or "failed"

fates == <<fate, verdict>>

Ends == {"successful", "failed", "error", "canceled"}
Fates == {"idle", "started"} \cup Ends

Children(n) == SuccessNodes[n] \cup FailureNodes[n] \cup AlwaysNodes[n]
Trees == {n \in Nodes : \A p \in Nodes : n \notin Children(p)}

(* The children that an outcome selects.                                   *)
Selected(n, outcome) ==
    {c \in Children(n) :
        \/ outcome = "successful" /\ c \in SuccessNodes[n] \cup AlwaysNodes[n]
        \/ outcome = "failed" /\ c \in FailureNodes[n] \cup AlwaysNodes[n]}

Reached(f, n) == n \in Trees \/ \E p \in Nodes : n \in Selected(p, f[p])
Eligible(f, n) == f[n] = "idle" /\ n \notin Missing /\ Reached(f, n)

Settles(f, g) ==
    \A n \in Nodes : g[n] = f[n] \/ (f[n] = "started" /\ g[n] \in Ends)

(* A node whose job cannot be started fails at once.                       *)
Starts(f, g) ==
    \A n \in Nodes :
        g[n] = f[n] \/ (Eligible(f, n) /\ g[n] \in {"started", "failed"})

Complete(f) == \A n \in Nodes : f[n] # "started" /\ ~Eligible(f, n)

(* The definition of a failed workflow job, and a path that leads to a     *)
(* node without a template.                                                *)
Failed(f) ==
    \/ \E n \in Nodes : f[n] \in {"canceled", "error"}
    \/ \E n \in Nodes : f[n] = "failed" /\ \A c \in Children(n) : f[c] = "idle"
    \/ \E n \in Missing : Reached(f, n)

Init == fate = [n \in Nodes |-> "idle"] /\ verdict = "running"

(* Some started nodes settle, and nodes that this makes eligible start.    *)
Advance ==
    LET settled == [n \in Nodes |-> IF fate[n] = "started" THEN fate'[n] ELSE fate[n]]
    IN  /\ verdict = "running"
        /\ fate' \in [Nodes -> Fates]
        /\ Settles(fate, settled) /\ Starts(settled, fate')
        /\ UNCHANGED verdict

Finish ==
    /\ verdict = "running"
    /\ fate' \in [Nodes -> Fates] /\ Settles(fate, fate') /\ Complete(fate')
    /\ verdict' = IF Failed(fate') THEN "failed" ELSE "successful"

Next == Advance \/ Finish

Spec == Init /\ [][Next]_fates
=============================================================================
