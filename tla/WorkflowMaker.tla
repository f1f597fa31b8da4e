---------------------------- MODULE WorkflowMaker ----------------------------
(***************************************************************************)
(* The editor of workflow templates: the dialog of                         *)
(* workflow-maker.controller.js on the tree of workflow.service.js, and    *)
(* the requests by which a save turns the nodes in the database into the   *)
(* nodes of the tree.  The requests of a phase run in parallel and are     *)
(* answered in any order, and the user may go on drawing, or close the     *)
(* dialog, while a save waits for them.  Order and layout of siblings,     *)
(* templates and prompts are left out; a new node gets its own name as its *)
(* number in the database.  A second save in the same dialog is left out.  *)
(***************************************************************************)
EXTENDS Naturals, FiniteSets, Functions

CONSTANTS
    OldNodes,       \* the nodes in the database when the dialog opens
    NewNodes,       \* nodes that the user may add
    Conditional,    \* edge types other than "always"
    RequestFails,   \* whether a request of a save may fail
    MaxLate         \* bound on the changes after the beginning of a save

ASSUME MakerAssumption ==
    /\ OldNodes \subseteq Nat \ {0} /\ NewNodes \subseteq Nat \ {0}
    /\ IsFiniteSet(OldNodes) /\ IsFiniteSet(NewNodes)
    /\ OldNodes \cap NewNodes = {} /\ RequestFails \in BOOLEAN
    /\ Conditional \subseteq {"success", "failure"} /\ MaxLate \in Nat

Start == 0          \* the start node; no parent, in the requests
EdgeTypes == Conditional \cup {"always"}
AllNodes == OldNodes \cup NewNodes

VARIABLES
    original,       \* originalParentId and originalEdge of the old nodes
    tree,           \* the nodes below the start node
    totalNodes,
    deletedNodes,
    form,           \* nodeMode, the node of the form, its edge options
    removed,        \* nodes that a save can still visit, but not in the tree
    phase,          \* of the dialog: "edit", "saving", "closed", "left"
    iterated,       \* totalIteratedNodes
    requests,       \* the requests that are not answered
    associateRequests,      \* what is collected for the second phase
    firstRequests,          \* disassociateRequests and editRequests
    completed,      \* how often the completionCallback was called
    refused,        \* the calls of it that had a request refused; 0: a post
    rows, edges, written,   \* the database: nodes, edges, nodes changed
    late,           \* the changes made after the save was begun
    drawn,          \* for the properties: the tree to be saved, or being saved,
    disturbed       \* and if tree was changed while nodes were posted

drawing == <<original, tree, totalNodes, deletedNodes, form, removed>>
collected == <<iterated, associateRequests, firstRequests>>
database == <<rows, edges, written>>
watched == <<late, drawn, disturbed>>
MakerVars == <<drawing, phase, collected, requests, completed, refused,
               database, watched>>

Idle == [mode |-> "idle", node |-> Start, options |-> {}]
Kids(t, n) == {c \in DOMAIN t : t[c].parent = n}
Edge(p, n, type) == [parent |-> p, node |-> n, type |-> type]
Request(kind, e) == [kind |-> kind, edge |-> e]
Sent(asked, round) ==
    {[kind |-> r.kind, edge |-> r.edge, round |-> round] : r \in asked}

(* The isNew flag, whether new nodes are being posted, and what the code   *)
(* looks at when they are answered.                                        *)
isNew(n) == n \in NewNodes \ rows
Posting == \E r \in requests : r.kind = "add"
walkedBy == <<tree, totalNodes, deletedNodes>>

(* checkForEdgeConflicts: some node has an always edge and another one.    *)
Mixed(types) == "always" \in types /\ types \cap Conditional # {}
edgeConflict(t) ==
    \E n \in DOMAIN t \cup {Start} : Mixed({t[c].edge : c \in Kids(t, n)})

(* The saved workflows: trees whose nodes follow each other in some order. *)
Graphs ==
    {g \in [OldNodes -> [parent : OldNodes \cup {Start}, edge : EdgeTypes]] :
        /\ \A n \in OldNodes : g[n].parent < n
        /\ \A n \in OldNodes : g[n].parent = Start => g[n].edge = "always"
        /\ ~edgeConflict(g)}

(* buildTree.                                                              *)
buildTree(g) ==
    [n \in OldNodes |-> [parent |-> g[n].parent, edge |-> g[n].edge,
                         isRoot |-> g[n].parent = Start,
                         edited |-> FALSE, placeholder |-> FALSE]]

MakerInit ==
    /\ original \in Graphs
    /\ tree = buildTree(original)
    /\ totalNodes = Cardinality(OldNodes) /\ deletedNodes = {}
    /\ form = Idle /\ removed = <<>> /\ phase = "edit"
    /\ iterated = 0 /\ requests = {} /\ associateRequests = {} /\ firstRequests = {}
    /\ completed = 0 /\ refused = {} /\ rows = OldNodes /\ written = {}
    /\ edges = {Edge(original[n].parent, n, original[n].edge) :
                    n \in {m \in OldNodes : original[m].parent # Start}}
    /\ late = 0 /\ drawn = tree /\ disturbed = FALSE

----------------------------------------------------------------------------
(* workflow.service.                                                       *)
getSiblingConnectionTypes(t, parent, child) ==
    {t[c].edge : c \in {k \in Kids(t, parent) \ {child} : ~t[k].placeholder}}

(* The children of a removed node move up to its parent.                   *)
removeNodeFromTree(t, n) ==
    [c \in DOMAIN t \ {n} |->
        CASE t[c].parent # n -> t[c]
          [] t[c].parent = n /\ t[n].isRoot ->
                [t[c] EXCEPT !.parent = t[n].parent, !.isRoot = TRUE,
                             !.edge = "always"]
          [] t[c].parent = n /\ ~t[n].isRoot ->
                [t[c] EXCEPT !.parent = t[n].parent]]

(* A placeholder below parent, above the node below if there is one.       *)
addPlaceholderNode(t, parent, below, n) ==
    [c \in DOMAIN t \cup {n} |->
        CASE c = n -> [parent |-> parent, edge |-> "none", isRoot |-> parent = Start,
                       edited |-> FALSE, placeholder |-> TRUE]
          [] c \in below -> [t[c] EXCEPT !.parent = n, !.isRoot = FALSE]
          [] c \notin below \cup {n} -> t[c]]

----------------------------------------------------------------------------
(* The form.                                                               *)
cancelNodeForm(t) ==
    IF form.mode = "add" THEN removeNodeFromTree(t, form.node) ELSE t

(* The types that go with those of the siblings, or else all of them.      *)
EdgesLike(siblings, types) ==
    IF siblings # {} /\ siblings \subseteq types THEN types ELSE EdgeTypes

(* For a new node, conditions when a sibling has one.                      *)
addOptions(t, n) ==
    LET siblings == getSiblingConnectionTypes(t, t[n].parent, n)
    IN  CASE t[n].parent = Start -> {"always"}
          [] t[n].parent # Start /\ siblings \cap Conditional # {} -> Conditional
          [] OTHER -> EdgesLike(siblings, {"always"})

editOptions(t, n) ==
    LET siblings == getSiblingConnectionTypes(t, t[n].parent, n)
    IN  EdgesLike(siblings, IF t[n].edge = "always" THEN {"always"} ELSE Conditional)

(* What confirmDeleteNode leaves a placeholder.                            *)
optionsAfterDelete(t, n) ==
    LET siblings == getSiblingConnectionTypes(t, t[n].parent, n)
    IN  CASE ~t[n].placeholder -> editOptions(t, n)
          [] t[n].placeholder /\ t[n].isRoot -> {"always"}
          [] OTHER -> IF siblings = {"always"} THEN {"always"}
                      ELSE EdgesLike(siblings, Conditional)

OpenForm(mode, n, options) ==
    form' = [mode |-> mode, node |-> n, options |-> options]

(* A number for a new node that no other one has.                          *)
Unused(t) ==
    NewNodes \ (DOMAIN t \cup rows \cup DOMAIN removed
                     \cup UNION {removed[d].children : d \in DOMAIN removed})

(* Links and icons next to a placeholder cannot be clicked.                *)
Clickable == {n \in DOMAIN tree : ~tree[n].placeholder}

startAddNode(parent, below) ==
    LET t == cancelNodeForm(tree)
        n == CHOOSE m \in Unused(t) : TRUE
        grown == addPlaceholderNode(t, parent, below, n)
    IN  /\ Unused(t) # {}
        /\ tree' = grown
        /\ OpenForm("add", n, addOptions(grown, n))
        /\ UNCHANGED <<totalNodes, deletedNodes>>

(* With what the form needs from the API, which is left out.               *)
startEditNode(n) ==
    LET t == cancelNodeForm(tree)
    IN  /\ form.mode # "edit" \/ form.node # n
        /\ tree' = t
        /\ OpenForm("edit", n, IF t[n].edge = "always" /\ t[n].isRoot THEN {"always"}
                               ELSE editOptions(t, n))
        /\ UNCHANGED <<totalNodes, deletedNodes>>

closeForm ==
    /\ form.mode # "idle"
    /\ tree' = cancelNodeForm(tree) /\ form' = Idle
    /\ UNCHANGED <<totalNodes, deletedNodes>>

confirmNodeForm(type) ==
    /\ type \in form.options
    /\ tree' = [tree EXCEPT ![form.node].edge = type,
                            ![form.node].edited = @ \/ form.mode = "edit",
                            ![form.node].placeholder = FALSE]
    /\ totalNodes' = totalNodes + (IF form.mode = "add" THEN 1 ELSE 0)
    /\ form' = Idle
    /\ UNCHANGED deletedNodes

(* The nodeId; a node that a save added has none, and is not new any more. *)
nodeId(n) == IF n \in OldNodes THEN n ELSE Start

Delete(n) ==
    LET t == removeNodeFromTree(tree, n)
    IN  /\ tree' = t
        /\ deletedNodes' = deletedNodes \cup {nodeId(m) : m \in {k \in {n} : ~isNew(k)}}
        /\ CASE form.mode = "idle" \/ form.node = n -> form' = Idle
             [] OTHER -> OpenForm(form.mode, form.node, optionsAfterDelete(t, form.node))

(* Faulty variant: a deleted node that was in the database is counted.     *)
DeletedCounted(n) ==
    Delete(n) /\ totalNodes' = totalNodes - (IF n \in OldNodes THEN 0 ELSE 1)

confirmDeleteNode(n) == Delete(n) /\ totalNodes' = totalNodes - 1

Change ==
    \/ \E parent \in Clickable \cup {Start} :
          \/ startAddNode(parent, {})
          \/ \E child \in Kids(tree, parent) \cap Clickable :
                 startAddNode(parent, {child})
    \/ \E n \in Clickable : startEditNode(n) \/ confirmDeleteNode(n)
    \/ closeForm
    \/ \E type \in EdgeTypes : confirmNodeForm(type)

(* A node that is taken out while a save runs keeps its list of children,  *)
(* which the save goes by if it gets to the node.                          *)
Draw ==
    /\ phase = "edit" \/ (phase = "saving" /\ late < MaxLate)
    /\ Change
    /\ late' = late + (IF phase = "saving" THEN 1 ELSE 0)
    /\ removed' = IF ~Posting THEN removed ELSE
                     [n \in DOMAIN removed \cup (DOMAIN tree \ DOMAIN tree') |->
                         IF n \in DOMAIN removed THEN removed[n]
                         ELSE [node |-> tree[n], children |-> Kids(tree, n)]]
    /\ disturbed' = (disturbed \/ (Posting /\ walkedBy' # walkedBy))
    /\ drawn' = IF phase = "edit" THEN tree' ELSE drawn
    /\ UNCHANGED <<original, phase, collected, requests, completed, refused,
                   database>>

----------------------------------------------------------------------------
(* WorkflowJobTemplateNodeChildrenBaseList.is_valid_relation, and whether  *)
(* the nodes of a request exist.                                           *)
ParentIn(es, n) == {e.parent : e \in {x \in es : x.node = n}}
Above(es, n) ==
    LET Up[k \in Nat] ==
            IF k = 0 THEN {n}
            ELSE Up[k - 1] \cup UNION {ParentIn(es, m) : m \in Up[k - 1]}
    IN  Up[Cardinality(AllNodes)]

is_valid_relation(e) ==
    /\ ~Mixed({x.type : x \in {y \in edges : y.parent = e.parent}} \cup {e.type})
    /\ e \in edges \/ (ParentIn(edges, e.node) = {} /\ e.node \notin Above(edges, e.parent))

Accepted(r) ==
    CASE r.kind = "add" -> TRUE
      [] r.kind \in {"edit", "delete"} -> r.edge.node \in rows
      [] r.kind = "disassociate" -> {r.edge.node, r.edge.parent} \subseteq rows
      [] r.kind = "associate" ->
            {r.edge.node, r.edge.parent} \subseteq rows /\ is_valid_relation(r.edge)

----------------------------------------------------------------------------
(* recursiveNodeUpdates visits a node below parent, with the edge to it,   *)
(* and goes on to its children; those of a new node, which is posted, have *)
(* to wait for the answer.                                                 *)
Node(n) == IF n \in DOMAIN tree THEN tree[n] ELSE removed[n].node
Children(n) == IF n \in DOMAIN tree THEN Kids(tree, n) ELSE removed[n].children
Onward(e) ==
    {Edge(e.node, c, Node(c).edge) :
        c \in {k \in Children(e.node) : Node(k).edge \in EdgeTypes}}

VisitsFrom(from, ends) ==
    LET Reach[k \in Nat] ==
            IF k = 0 THEN from
            ELSE Reach[k - 1] \cup
                     UNION {Onward(e) : e \in {x \in Reach[k - 1] : x.node \notin ends}}
    IN  Reach[Cardinality(AllNodes)]

(* What was visited when the walk, depth first, came to the visit last.    *)
UpTo(last, visits) ==
    {before \in SUBSET visits :
        /\ last \in before
        /\ \A e, down \in visits :
              down.parent = e.node =>
                  /\ down \in before => e \in before
                  /\ e \in before =>
                        down \in before \/ e.node \in Above(visits, last.node)}

OfOld(visits) == {e \in visits : e.node \in OldNodes}
Moved(e) == e.parent # original[e.node].parent
Rewired(e) ==
    Moved(e) \/ (Node(e.node).edited /\ e.type # original[e.node].edge)
OriginalEdge(n) == Edge(original[n].parent, n, original[n].edge)

(* Faulty variant: the parent may be a node that is deleted.               *)
DisassociatesDeleted(visits) ==
    {Request("disassociate", OriginalEdge(e.node)) :
        e \in {v \in OfOld(visits) : original[v.node].parent # Start /\ Rewired(v)}}

Disassociates(visits) ==
    {Request("disassociate", OriginalEdge(e.node)) :
        e \in {v \in OfOld(visits) :
                  /\ original[v.node].parent # Start /\ Rewired(v)
                  /\ original[v.node].parent \notin deletedNodes}}

(* Faulty variant: nodes that used to be roots are not looked at.          *)
AttachedRewired(visits) ==
    {e \in OfOld(visits) :
        e.parent # Start /\ original[e.node].parent # Start /\ Rewired(e)}

(* A node that used to be a root and is not any more, or was rewired.      *)
Attached(visits) ==
    {e \in OfOld(visits) :
        /\ e.parent # Start
        /\ original[e.node].parent = Start \/ Rewired(e)}

Edits(visits) ==
    {Request("edit", Edge(Start, e.node, "none")) :
        e \in {v \in OfOld(visits) : Node(v.node).edited}}
Associates(es) == {Request("associate", e) : e \in es}
Deletes == {Request("delete", Edge(Start, n, "none")) : n \in deletedNodes}
Posts(visits) == {Request("add", Edge(e.parent, e.node, "none")) : e \in visits}

closeDialog == phase' = IF phase = "left" THEN "left" ELSE "closed"
GoesOn == phase' = IF phase = "edit" THEN "saving" ELSE phase

(* The completionCallback; a phase without requests is over at once.       *)
completionCallback(first, others) ==
    LET now == IF first # {} THEN first ELSE associateRequests'
    IN  /\ completed' = completed + 1
        /\ requests' = others \cup Sent(now, completed')
        /\ IF now = {} THEN closeDialog ELSE GoesOn

(* A walk from the visits given.  The visit that makes the count meet      *)
(* totalNodes calls completionCallback and goes no deeper, but the visits  *)
(* that are left to do on the way back up are still made.                  *)
Recurse(from, parents, waiting, new) ==
    LET Counted(visits) == {e.node : e \in visits} \ new
        all == VisitsFrom(from, new)
        left == totalNodes - iterated
        completes == left \in 1 .. Cardinality(Counted(all))
        Walk(visits, before) ==
            LET posts == Posts({e \in visits : e.node \in new})
                others == waiting \cup Sent(posts, 0)
                first == firstRequests \cup Disassociates(before) \cup Edits(before)
            IN  /\ iterated' = iterated + Cardinality(Counted(visits))
                /\ firstRequests' =
                       firstRequests \cup Disassociates(visits) \cup Edits(visits)
                /\ associateRequests' =
                       associateRequests \cup parents \cup Associates(Attached(visits))
                /\ IF completes THEN completionCallback(first \cup Deletes, others)
                   ELSE GoesOn /\ requests' = others /\ UNCHANGED completed
    IN  \/ ~completes /\ Walk(all, {})
        \/ /\ completes
           /\ \E last \in {e \in all : e.node \notin new} :
                 LET visits == VisitsFrom(from, new \cup {last.node})
                 IN  \E before \in UpTo(last, visits) :
                         Cardinality(Counted(before)) = left /\ Walk(visits, before)

saveWorkflowMaker ==
    /\ phase = "edit" /\ form.mode # "add" /\ ~edgeConflict(tree)
    /\ LET roots == {Edge(Start, n, tree[n].edge) : n \in Kids(tree, Start)}
       IN  IF roots # {} THEN Recurse(roots, {}, {}, NewNodes \ rows)
           ELSE UNCHANGED collected /\ completionCallback(Deletes, {})
    /\ UNCHANGED <<drawing, refused, database, watched>>

(* The nodes are those of before again, but a save that runs goes on.      *)
closeWorkflowMaker ==
    /\ phase \in {"edit", "saving"} /\ phase' = "left"
    /\ totalNodes' = Cardinality(OldNodes) /\ deletedNodes' = {}
    /\ disturbed' = (disturbed \/ Posting)
    /\ UNCHANGED <<original, tree, form, removed, collected, requests, completed,
                   refused, database, late, drawn>>

(* The answers.                                                            *)
NodeAdded(r) ==
    LET n == r.edge.node
        e == Edge(r.edge.parent, n, Node(n).edge)
    IN  /\ r.kind = "add"
        /\ rows' = rows \cup {n}
        /\ Recurse({e}, IF Node(n).isRoot THEN {} ELSE Associates({e}),
                   requests \ {r}, NewNodes \ rows')
        /\ UNCHANGED <<drawing, refused, edges, written, watched>>

(* What the API makes of the other requests.                               *)
Perform(r) ==
    CASE r.kind = "edit" ->
            written' = written \cup {r.edge.node} /\ UNCHANGED <<rows, edges>>
      [] r.kind = "delete" ->
            /\ rows' = rows \ {r.edge.node}
            /\ edges' = {e \in edges : r.edge.node \notin {e.node, e.parent}}
            /\ UNCHANGED written
      [] r.kind = "disassociate" ->
            edges' = edges \ {r.edge} /\ UNCHANGED <<rows, written>>
      [] r.kind = "associate" ->
            edges' = edges \cup {r.edge} /\ UNCHANGED <<rows, written>>

(* The last answer of a phase begins the next one, if none was refused.    *)
RequestDone(r) ==
    LET others == requests \ {r}
        later == IF r.kind = "associate" THEN {} ELSE associateRequests
    IN  /\ r.kind # "add" /\ Accepted(r)
        /\ Perform(r)
        /\ IF r.round \in refused \cup {o.round : o \in others}
           THEN requests' = others /\ UNCHANGED phase
           ELSE /\ requests' = others \cup Sent(later, r.round)
                /\ IF later = {} THEN closeDialog ELSE UNCHANGED phase
        /\ UNCHANGED <<drawing, collected, completed, refused, watched>>

(* An error is shown, and the dialog stays open.                           *)
RequestRefused(r) ==
    /\ RequestFails \/ ~Accepted(r)
    /\ refused' = refused \cup {r.round}
    /\ requests' = requests \ {r}
    /\ UNCHANGED <<drawing, phase, collected, completed, database, watched>>

RequestEnds == \E r \in requests : NodeAdded(r) \/ RequestDone(r) \/ RequestRefused(r)

MakerNext == Draw \/ saveWorkflowMaker \/ closeWorkflowMaker \/ RequestEnds

MakerFairness == WF_MakerVars(RequestEnds)
MakerSpec == MakerInit /\ [][MakerNext]_MakerVars /\ MakerFairness

----------------------------------------------------------------------------
(* What follows is promised to a user who leaves the tree alone, and the   *)
(* dialog open, until the new nodes are posted; drawing in the phases      *)
(* after that, or closing the dialog then, does no harm.                   *)

(* The API has no reason to refuse a request of a save, in whatever order  *)
(* it gets the requests of a phase: no node is asked for that is not there *)
(* any more, and no edge that is_valid_relation rejects, given the edges   *)
(* that are still there.                                                   *)
NothingRefused == ~disturbed => \A r \in requests : Accepted(r)

(* When a save closes the dialog, or comes to its end after the user did,  *)
(* the database has the nodes and the edges that were drawn when it was    *)
(* begun, and every change to a node was written.                          *)
SavedAsDrawn ==
    ~disturbed /\ (phase = "closed" \/ (completed > 0 /\ requests = {} /\ refused = {})) =>
        /\ rows = DOMAIN drawn
        /\ edges = {Edge(drawn[n].parent, n, drawn[n].edge) :
                        n \in {m \in DOMAIN drawn : drawn[m].parent # Start}}
        /\ {n \in OldNodes \cap DOMAIN drawn : drawn[n].edited} \subseteq written

(* A save comes to an end: the count of the nodes that have been visited   *)
(* meets totalNodes when the last one was, and the dialog closes unless a  *)
(* request failed.                                                         *)
SaveEnds == []<>(phase # "saving" \/ refused # {} \/ disturbed)
=============================================================================
