---------------------------- MODULE MCAdministration ----------------------------
(* The administration of the system, one part at a time: the approval workflows of *)
(* MCApprovalWorkflows, who reports to whom, who works where, who may do what, and   *)
(* what a start of the server makes of all that.                                     *)
EXTENDS MCApprovalWorkflows, TLC

CONSTANTS p1, p2, p3, d1, t1, t2, r1, r2, r3, f1, f2, admin, plain,
          m1, m2, m3, cal, title, late,
          ChartEmployees, ChartAccounts, ChartModes, PlacedEmployees, Teams, PlacedDepartments, PlaceModes,
          AccessEmployees, AccessRoles, AccessFeatures, AccessDepartments, AccessModes,
          RoleCodes, SuperCodes, SystemRoles, FlaggedRoles, SameNamed, GivenScopes, RoleHoldings,
          StartRoles, SeededRole, ScopeEntries, LeaveEntries, ReasonEntries, Titles,
          Features, LateFeatures, CalendarFeatures, TitleFeature, FeatureOf, Databases

VARIABLES part,
          chartMode, manager, account, changes, fills, cache,                 \* OrgChart
          placeMode, placed, rows, dept, head, closed,                        \* Placement
          roleMode, role, holds, scope, named, audit, history, job,           \* Roles
          startMode, stage, schema, roleRows, first, items, titles, registry, \* Startup
          legacy, views, rule, settings, touched

\* One request at a time, the operations that undo each other's promises apart.
MCChartModes == {[operations |-> ops, concurrent |-> FALSE] : ops \in {{}, {"execute"}, {"confirm"}}}

ASSUME ChartAssumption == IsFiniteSet(ChartEmployees) /\ None \notin ChartEmployees /\ "ABSENT" \notin ChartAccounts

Chart == INSTANCE OrgChart WITH
  Employees <- ChartEmployees, Accounts <- ChartAccounts, Modes <- ChartModes, mode <- chartMode

\* The operations that promise something together.
MCPlaceModes ==
  {{"create", "update", "confirm", "delete"}, {"create", "add", "member"},
   {"create", "add", "remove", "transfer", "confirm", "delete"},
   {"add", "transfer", "execute", "department"},
   {"add", "remove", "deactivate", "confirm"},
   {"create", "deleteDepartment", "transfer", "confirm", "delete"}}

ASSUME PlaceAssumption == None \notin PlacedEmployees /\ None \notin Teams /\ None \notin PlacedDepartments

Place == INSTANCE Placement WITH
  Employees <- PlacedEmployees, Departments <- PlacedDepartments, Modes <- PlaceModes,
  mode <- placeMode, account <- placed

\* Two roles of the system and one that is made; whoever holds the first may edit every role.
MCHoldings == {[e \in {p1, p2} |-> IF e = p1 THEN {} ELSE {r1, r2}]}
MCAccessModes ==
  {{"roles"}, {"assign", "crash"}, {"permissions"}, {"permissions", "legacy"}, {"permissions", "clone"}}

ASSUME AccessAssumption ==
  /\ IsFiniteSet(AccessRoles) /\ None \notin AccessRoles /\ None \notin AccessEmployees
  /\ GivenScopes \subseteq {"NONE", "OWNED", "ADDED", "ADDED_OWNED", "TEAM", "DEPARTMENT", "COMPANY", "ALL"}
  /\ RoleHoldings \subseteq [AccessEmployees -> SUBSET AccessRoles]

Access == INSTANCE Roles WITH
  Employees <- AccessEmployees, RoleIds <- AccessRoles, Features <- AccessFeatures, Departments <- AccessDepartments,
  Codes <- RoleCodes, System <- SystemRoles, Flagged <- FlaggedRoles, SameName <- SameNamed, Given <- GivenScopes,
  Holdings <- RoleHoldings, Modes <- AccessModes, mode <- roleMode

\* New databases with and without the password, old ones with a role or two, and what
\* administrators change between two starts.
NoRow == [row |-> FALSE, code |-> None, super |-> FALSE]
Coded(code) == [row |-> TRUE, code |-> code, super |-> FALSE]
Database(old, seeded, other, password, ops) ==
  [old |-> old, roles |-> [r \in StartRoles |-> IF r = SeededRole THEN seeded ELSE other],
   password |-> password, operations |-> ops]
NewDatabase(password, ops) == Database(FALSE, NoRow, NoRow, password, ops)
MCDatabases ==
  {NewDatabase(FALSE, {}), Database(TRUE, NoRow, Coded("ADMIN"), TRUE, {}),
   Database(TRUE, Coded("ADMIN"), Coded("HR"), TRUE, {}), NewDatabase(TRUE, {"name"}),
   NewDatabase(TRUE, {"permissions"}), NewDatabase(TRUE, {"items"}), NewDatabase(TRUE, {"hours", "admin"}),
   NewDatabase(TRUE, {"titles", "admin"}), NewDatabase(TRUE, {"titles", "name"})}
MCFeatureOf == [m \in {m1, m2, m3} |-> IF m = m3 THEN cal ELSE f1]

Starting == INSTANCE Startup WITH
  Roles <- StartRoles, Late <- LateFeatures, Modes <- Databases,
  mode <- startMode, roles <- roleRows, admin <- first, features <- registry, scopes <- views

\* The seeders name features that the first migration makes, the legacy names are mapped
\* to features, and the roles of an old database are rows.
RoleRow == [row : BOOLEAN, code : {None, "ADMIN", "HR", "OTHER"}, super : BOOLEAN]
ASSUME StartAssumption ==
  /\ SeededRole \in StartRoles
  /\ CalendarFeatures \cup {TitleFeature} \subseteq Features \ LateFeatures
  /\ \A n \in DOMAIN FeatureOf : FeatureOf[n] \in Features
  /\ \A d \in Databases : d.old => d.roles \in [StartRoles -> RoleRow]
  /\ None \notin [begin : {"08:00", "09:00", "10:00"}, end : {"18:00", "19:00", "20:00"}]

\* Workers are interchangeable.
Symmetric == Permutations(Workers)

workflowsVars == <<workflows, txn, org>>
chart == <<chartMode, manager, account, changes, fills, cache>>
place == <<placeMode, placed, rows, dept, head, closed>>
access == <<roleMode, role, holds, scope, named, audit, history, job>>
start == <<startMode, stage, schema, roleRows, first, items, titles, registry, legacy, views, rule, settings, touched>>

\* The parts that do not run stay in one of their initial states.
AdminInit ==
  /\ part \in {"workflows", "chart", "place", "access", "start"}
  /\ MCInit /\ Chart!Init /\ Place!Init /\ Access!Init /\ Starting!Init
  /\ part = "chart" \/ chartMode.operations = {}
  /\ part = "place" \/ (placeMode = {"create", "add", "member"} /\ placed = [e \in PlacedEmployees |-> "NEW"])
  /\ part = "access" \/ roleMode = {"roles"}
  /\ part = "start" \/ startMode = NewDatabase(FALSE, {})

WorkflowsStep == part = "workflows" /\ MCNext /\ UNCHANGED <<chart, place, access, start, part>>
ChartStep == part = "chart" /\ Chart!Next /\ UNCHANGED <<workflowsVars, place, access, start, part>>
PlaceStep == part = "place" /\ Place!Next /\ UNCHANGED <<workflowsVars, chart, access, start, part>>
AccessStep == part = "access" /\ Access!Next /\ UNCHANGED <<workflowsVars, chart, place, start, part>>
StartStep == part = "start" /\ Starting!Next /\ UNCHANGED <<workflowsVars, chart, place, access, part>>

AdminNext == WorkflowsStep \/ ChartStep \/ PlaceStep \/ AccessStep \/ StartStep

AdminSpec == AdminInit /\ [][AdminNext]_<<workflowsVars, chart, place, access, start, part>>

-----------------------------------------------------------------------------
(* The properties of the parts, stated there *)

\* Nobody reports to somebody below (without transfer_reports); leavers, the cache and the
\* common manager.
ChartSound == Chart!ChartSound
\* Who works where, who leads and heads what, and who no longer does.
PlacementSound == Place!PlacementSound
\* Roles, who holds them and what they allow; looked at where the part runs.
RolesSound ==
  /\ part = "access" => Access!ListedIsAccessible
  /\ [](part = "access" => Access!AccessSound)
  /\ [][part = "access" => Access!Granted]_<<part, access>>
\* What a start of the server, whole or broken off, makes of the database.
StartSound == [][part = "start" => Starting!StartSound]_<<part, start>>
=================================================================================
