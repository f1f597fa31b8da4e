-------------------------- MODULE MCWorkflowEngine --------------------------
(* Small instances of WorkflowEngine: a forest with all kinds of edges, a  *)
(* node without a template, and smaller trees for single questions.        *)
EXTENDS WorkflowEngine

NoEdges(nodes) == [n \in nodes |-> {}]

(* root: success -> left, failure -> right; left: always -> leaf;          *)
(* other: success -> gone; alone.                                          *)
Forest == {"root", "left", "right", "leaf", "other", "gone", "alone"}
ForestSuccess == [NoEdges(Forest) EXCEPT !["root"] = {"left"},
                                         !["other"] = {"gone"}]
ForestFailure == [NoEdges(Forest) EXCEPT !["root"] = {"right"}]
ForestAlways == [NoEdges(Forest) EXCEPT !["left"] = {"leaf"}]

(* root: success -> left, failure -> right; left: always -> leaf.          *)
Fork == {"root", "left", "right", "leaf"}
ForkSuccess == [NoEdges(Fork) EXCEPT !["root"] = {"left"}]
ForkFailure == [NoEdges(Fork) EXCEPT !["root"] = {"right"}]
ForkAlways == [NoEdges(Fork) EXCEPT !["left"] = {"leaf"}]

(* root: always -> leaf.                                                   *)
Chain == {"root", "leaf"}
ChainAlways == [NoEdges(Chain) EXCEPT !["root"] = {"leaf"}]
NoChainEdges == NoEdges(Chain)
=============================================================================
