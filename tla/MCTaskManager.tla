--------------------------- MODULE MCTaskManager ---------------------------
(* Small instances of TaskManager.  A scenario is a table with one record  *)
(* per task; the constants of the specification are read off its columns.  *)
EXTENDS TaskManager, TLC

CONSTANTS i1, i2, i3, i4, g1, g2, g3, g4

Task(kind, project, inventory, source, template, impact, groups) ==
    [kind |-> kind, project |-> project, inventory |-> inventory,
     source |-> source, template |-> template, impact |-> impact,
     groups |-> groups]

JobOf(template, project, inventory, impact, groups) ==
    Task("job", project, inventory, "-", template, impact, groups)
ProjectUpdateOf(project, groups) ==
    Task("project_update", project, "-", "-", "-", 1, groups)
InventoryUpdateOf(source, inventory, groups) ==
    Task("inventory_update", "-", inventory, source, "-", 1, groups)
AdHocOf(inventory, impact, groups) ==
    Task("ad_hoc_command", "-", inventory, "-", "-", impact, groups)
SystemJobOf(groups) == Task("system_job", "-", "-", "-", "-", 5, groups)
WorkflowOf(template) == Task("workflow_job", "-", "-", "-", template, 0, <<>>)

KindOf(table) == [t \in DOMAIN table |-> table[t].kind]
ProjectOf(table) == [t \in DOMAIN table |-> table[t].project]
InventoryOf(table) == [t \in DOMAIN table |-> table[t].inventory]
SourceOf(table) == [t \in DOMAIN table |-> table[t].source]
TemplateOf(table) == [t \in DOMAIN table |-> table[t].template]
ImpactOf(table) == [t \in DOMAIN table |-> table[t].impact]
PreferredOf(table) == [t \in DOMAIN table |-> table[t].groups]

(* Groups and capacities.                                                  *)
TwoGroups == (g1 :> {i1}) @@ (g2 :> {i2})
OneGroup == (g1 :> {i1, i2})
SharedAndIsolated ==
    (g1 :> {i1, i2}) @@ (g2 :> {i2}) @@ (g3 :> {i3}) @@ (g4 :> {i4})
ControllerDown == (g1 :> {i1, i2}) @@ (g3 :> {i3}) @@ (g4 :> {i4})
NoControllers == [g \in Groups |-> NoGroup]
G4ControlsG3 == [g \in Groups |-> IF g = g3 THEN g4 ELSE NoGroup]
Roomy == [i \in Instances |-> 10]
I4Down == [i \in Instances |-> IF i = i4 THEN 0 ELSE 10]
Tight == [i \in Instances |-> IF i = i1 THEN 3 ELSE 2]
HostRank == [i \in Instances |-> CASE i = i1 -> 1 [] i = i2 -> 2 [] OTHER -> 3]

NoSources == [s \in {} |-> "inv"]
OneSource == [s \in {"src"} |-> "inv"]

----------------------------------------------------------------------------
(* Blocking: two jobs of one template, and manual updates of the project   *)
(* and of the inventory that they use, over two groups.  The jobs were     *)
(* launched by callbacks that had updated their source.                    *)
RTable ==
    [job1 |-> JobOf("jt", "proj", "inv", 1, <<g1>>),
     job2 |-> JobOf("jt", "proj", "inv", 1, <<g2, g1>>),
     pu1  |-> ProjectUpdateOf("proj", <<g1>>),
     iu1  |-> InventoryUpdateOf("src", "inv", <<g2>>)]
RTasks == DOMAIN RTable
RKind == KindOf(RTable)
RProject == ProjectOf(RTable)
RInventory == InventoryOf(RTable)
RSource == SourceOf(RTable)
RTemplate == TemplateOf(RTable)
RImpact == ImpactOf(RTable)
RPreferred == PreferredOf(RTable)
ByCallback == {<<"job1", "src">>, <<"job2", "src">>}

----------------------------------------------------------------------------
(* Progress under faults: a system job that only an idle instance accepts, *)
(* a command that cannot be started, and two workflow jobs of one template.*)
FTable ==
    [sys1 |-> SystemJobOf(<<g1>>),
     cmd  |-> AdHocOf("inv", 1, <<g1>>),
     wf1  |-> WorkflowOf("wfjt"),
     wf2  |-> WorkflowOf("wfjt")]
FTasks == DOMAIN FTable
FKind == KindOf(FTable)
FProject == ProjectOf(FTable)
FInventory == InventoryOf(FTable)
FSource == SourceOf(FTable)
FTemplate == TemplateOf(FTable)
FImpact == ImpactOf(FTable)
FPreferred == PreferredOf(FTable)

----------------------------------------------------------------------------
(* Placement: g1 and g2 share i2; g3 is isolated and controlled by g4.  No *)
(* task blocks another one, and job2 is too large for its group.           *)
CTable ==
    [job1 |-> JobOf("jt1", "p1", "inv1", 1, <<g3, g1>>),
     job2 |-> JobOf("jt2", "p2", "inv2", 3, <<g2>>),
     cmd1 |-> AdHocOf("inv3", 1, <<g2, g1>>),
     pu1  |-> ProjectUpdateOf("p3", <<g3>>)]
CTasks == DOMAIN CTable
CKind == KindOf(CTable)
CProject == ProjectOf(CTable)
CInventory == InventoryOf(CTable)
CSource == SourceOf(CTable)
CTemplate == TemplateOf(CTable)
CImpact == ImpactOf(CTable)
CPreferred == PreferredOf(CTable)

----------------------------------------------------------------------------
(* Updates on launch: two jobs of one template that may run at the same    *)
(* time, whose project and (once it is enabled) inventory source update on *)
(* launch, with rows left for the updates, and a command for an isolated   *)
(* group whose controller is down.                                         *)
DTable ==
    [job1 |-> JobOf("jt", "proj", "inv", 1, <<g1>>),
     job2 |-> JobOf("jt", "proj", "inv", 1, <<g1>>),
     pu1  |-> ProjectUpdateOf("proj", <<g1>>),
     pu2  |-> ProjectUpdateOf("proj", <<g1>>),
     pu3  |-> ProjectUpdateOf("proj", <<g1>>),
     iu1  |-> InventoryUpdateOf("src", "inv", <<g1>>),
     iu2  |-> InventoryUpdateOf("src", "inv", <<g1>>),
     iu3  |-> InventoryUpdateOf("src", "inv", <<g1>>),
     cmd  |-> AdHocOf("other", 1, <<g3>>)]
DTasks == DOMAIN DTable
DManual == {"job1", "job2", "cmd"}
DKind == KindOf(DTable)
DProject == ProjectOf(DTable)
DInventory == InventoryOf(DTable)
DSource == SourceOf(DTable)
DTemplate == TemplateOf(DTable)
DImpact == ImpactOf(DTable)
DPreferred == PreferredOf(DTable)

----------------------------------------------------------------------------
(* Updates on launch, shared: two jobs of different templates use the same *)
(* project, one of them an inventory that updates too.                     *)
STable ==
    [job1 |-> JobOf("jt1", "proj", "inv", 1, <<g1>>),
     job2 |-> JobOf("jt2", "proj", "other", 1, <<g1>>),
     pu1  |-> ProjectUpdateOf("proj", <<g1>>),
     pu2  |-> ProjectUpdateOf("proj", <<g1>>),
     iu1  |-> InventoryUpdateOf("src", "inv", <<g1>>)]
STasks == DOMAIN STable
SManual == {"job1", "job2"}
SKind == KindOf(STable)
SProject == ProjectOf(STable)
SInventory == InventoryOf(STable)
SSource == SourceOf(STable)
STemplate == TemplateOf(STable)
SImpact == ImpactOf(STable)
SPreferred == PreferredOf(STable)

----------------------------------------------------------------------------
(* Two jobs of one template and nothing else.                              *)
JTable ==
    [job1 |-> JobOf("jt", "proj", "inv", 1, <<g1>>),
     job2 |-> JobOf("jt", "proj", "inv", 1, <<g1>>)]
JTasks == DOMAIN JTable
JKind == KindOf(JTable)
JProject == ProjectOf(JTable)
JInventory == InventoryOf(JTable)
JSource == SourceOf(JTable)
JTemplate == TemplateOf(JTable)
JImpact == ImpactOf(JTable)
JPreferred == PreferredOf(JTable)
=============================================================================
