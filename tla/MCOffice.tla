--------------------------------- MODULE MCOffice ---------------------------------
(* One part of the system at a time: the approval flows of MCApproval one request    *)
(* at a time, the tasks of a project with what is rolled up from them, who works on  *)
(* a task when its assignee goes on leave, the records of projects, and planning.    *)
EXTENDS MCApproval, TLC

CONSTANTS
  p1, p2, t3, t4, e1, e2, l1, l2, l3, gone,
  WorkEmployees, WorkInactive, WorkTasks, WorkLeaves, WorkLeaveOf, WorkWindows,   \* of TaskContinuity
  WorkDays, WorkMaxRows, WorkModes,
  WorkCancelled   \* sets of leaves that were cancelled before

VARIABLES part,
          projectMode, parts, project, tasks, cycles,             \* ProjectTasks
          workMode, task, leaves, rows, risks, delegations,       \* TaskContinuity
          recordMode, records, members, recordTasks, inService, turn,   \* ProjectRecords
          planMode, plans, waits, dates, live, closed, today, look      \* Planning

\* The operations whose effects the roll-up does not follow, each on its own.
Some(extra, given, hours) == [extra |-> extra, given |-> given, hours |-> hours]
Projects == INSTANCE ProjectTasks WITH
  Parts <- {p1, p2}, Tasks <- {t3, t4}, MaxCycles <- t3 :> 2 @@ t4 :> 0, mode <- projectMode,
  Modes <- {Some({"rework"}, {"COMPLETED"}, {1, 2}), Some({"rework"}, {"NOT_STARTED"}, {1}),
            Some({"remove"}, {"NOT_STARTED", "COMPLETED"}, {1}),
            Some({"part"}, {"NOT_STARTED", "COMPLETED"}, {1}),
            Some({"fail"}, {"NOT_STARTED"}, {1}), Some({"hand"}, {"COMPLETED"}, {1}),
            Some({}, {"NOT_STARTED", "IN_PROGRESS", "ON_HOLD", "COMPLETED", "CANCELLED", "REOPENED"}, {1})}

\* An employee with two leaves while a task runs, or with one of them and a colleague
\* with another, and somebody nobody would have assigned but whom a manager may choose.
Away(e, from, to) == [employee |-> e, from |-> from, to |-> to]
MCLeaveOf == l1 :> Away(e1, 1, 1) @@ l2 :> Away(e1, 2, 2) @@ l3 :> Away(e2, 1, 2)
MCWindows == {[from |-> 1, to |-> 2]}
Work == INSTANCE TaskContinuity WITH
  Employees <- WorkEmployees, Inactive <- WorkInactive, Tasks <- WorkTasks, Leaves <- WorkLeaves,
  LeaveOf <- WorkLeaveOf, Windows <- WorkWindows, WorkingDays <- WorkDays, MaxRows <- WorkMaxRows,
  Modes <- WorkModes, mode <- workMode

\* Hours by twos for a day of eight. The manager of a project, an administrator and somebody
\* else use the operations a few at a time; two requests at once where rows are fewest.
Draft(code, start, end, hours) ==
  [code |-> code, client |-> "client", department |-> "cad", manager |-> lead, start |-> start, end |-> end, hours |-> hours]
Same == [code |-> gone, client |-> gone, department |-> gone, manager |-> gone, start |-> gone, end |-> gone, active |-> gone]
Renamed == [Same EXCEPT !.code = "B"]
Moved == {[Same EXCEPT !.department = "cam"], [Same EXCEPT !.department = None]}
Redated == {[Same EXCEPT !.end = 1], [Same EXCEPT !.end = None], [Same EXCEPT !.start = 2]}
Hidden == [Same EXCEPT !.active = FALSE]
Edits == {Renamed, Hidden, [Same EXCEPT !.manager = emp], [Same EXCEPT !.client = "client"]} \cup Moved \cup Redated
Drafts == {Draft("A", 1, None, 2), Draft("B", 1, None, 4), Draft("A", 2, 1, 2)}
Use(operations, users, requests, number, perDay, updates) ==
  [operations |-> operations, users |-> users, requests |-> requests, rows |-> number, perDay |-> perDay,
   creations |-> IF number = 2 \/ updates = Edits THEN Drafts ELSE {Draft("A", 1, None, 2)}, updates |-> updates]
Records == INSTANCE ProjectRecords WITH
  Ids <- {1, 2}, Codes <- {"A", "B"}, Clients <- {"client"}, Departments <- {"cad", "cam"}, Tasks <- {t3, t4},
  Admins <- {head}, Sees <- emp :> {emp} @@ lead :> {lead, emp} @@ head :> {head, lead, emp},
  TeamOf <- emp :> {"x"} @@ lead :> {"y"} @@ head :> {}, Team <- t3 :> "x" @@ t4 :> "x",
  Assignee <- t3 :> emp @@ t4 :> lead, Hours <- t3 :> 4 @@ t4 :> 0, Eight <- 2,
  Days <- 1 .. 9, WorkingDays <- {1, 2, 4, 5, 8}, Unset <- gone, Workers <- {1, 2},
  mode <- recordMode, projects <- records, tasks <- recordTasks, active <- inService, job <- turn,
  Modes <- {Use({"create", "update"}, {emp, lead}, 1, 1, 2, Edits),
            Use({"create", "update", "task"}, {lead}, 1, 1, 1, Moved \cup Redated \cup {Hidden}),
            Use({"create", "update", "retire"}, {lead}, 1, 1, 3, Edits \ {Renamed, Hidden}),
            Use({"create", "update"}, {head}, 1, 2, 2, {Renamed, Hidden}),
            Use({"create", "delete", "task"}, {head}, 2, 1, 2, {}), Use({"create", "status"}, {head}, 2, 1, 2, {}),
            Use({"create", "add", "remove"}, {emp, lead}, 1, 1, 2, {}), Use({"create", "add"}, {lead}, 2, 1, 2, {}),
            Use({"create", "add", "retire"}, {head}, 1, 1, 3, {}), Use({"create"}, {head}, 2, 2, 2, {})}

\* Three weeks, a Sunday and a Monday on which requests come.
Assigned(e, t, hours, cancelled, from, to) ==
  [employee |-> e, task |-> t, hours |-> hours, cancelled |-> cancelled, from |-> from, to |-> to]
Plan == INSTANCE Planning WITH
  Tasks <- {t3, t4}, Days <- 1 .. 22, WorkingDays <- {d \in 1 .. 22 : d % 7 \notin {6, 0}}, Todays <- {7, 8},
  Plans <- [employee : {emp}, day : {1, 2, 8}, hours : {20, 30}],
  Waits <- [task : {t3, t4}, on : {t3, t4}, type : {"FS", "SS"}],
  Left <- t3 :> 5 @@ t4 :> 3, Planned <- t3 :> 5 @@ t4 :> None, Ends <- t3 :> None @@ t4 :> 3,
  Assignments <- {Assigned(emp, t3, 30, FALSE, 3, 9), Assigned(emp, t4, 20, FALSE, None, None),
                  Assigned(lead, t3, 40, FALSE, 1, 2), Assigned(lead, t4, 20, TRUE, 12, 15),
                  Assigned(lead, t4, 32, FALSE, None, 10), Assigned(lead, t3, 0, FALSE, 20, None)},
  Ranges <- [from : {1, 3, 12}, to : {15, 18}], Workers <- {1, 2}, mode <- planMode, job <- look,
  Modes <- {{"plan"}, {"wait"}, {"wait", "schedule", "alone"}}

\* The two targets of the flows may change places.
Symmetric == Permutations(Targets)

recordVars == <<recordMode, records, members, recordTasks, inService, turn>>
planVars == <<planMode, plans, waits, dates, live, closed, today, look>>
projectVars == <<projectMode, parts, project, tasks, cycles>>
workVars == <<workMode, task, leaves, rows, risks, delegations>>

\* The parts that do not run stay in one of their initial states.
OfficeInit ==
  /\ part \in {"approval", "projects", "work", "records", "plan"}
  /\ Init /\ Projects!Init /\ Work!Init /\ Records!Init /\ Plan!Init
  /\ part = "approval" \/ (org = Chart(Usual) /\ \A f \in WorkflowIds : Cardinality(workflows[f].steps) = 1)
  /\ part = "projects" \/ projectMode.extra = {}
  /\ part = "work" \/ workMode = CHOOSE m \in WorkModes : TRUE
  /\ part = "records" \/ recordMode.operations = {"create"}
  /\ part = "plan" \/ planMode = {"plan"}
  /\ LET off == {l \in WorkLeaves : leaves[l] = "CANCELLED"} IN IF part = "work" THEN off \in WorkCancelled ELSE off = {}

ApprovalStep == part = "approval" /\ Next /\ UNCHANGED <<projectVars, workVars, recordVars, planVars, part>>
ProjectsStep == part = "projects" /\ Projects!Next /\ UNCHANGED <<vars, workVars, recordVars, planVars, part>>
WorkStep == part = "work" /\ Work!Next /\ UNCHANGED <<vars, projectVars, recordVars, planVars, part>>
RecordsStep == part = "records" /\ Records!Next /\ UNCHANGED <<vars, projectVars, workVars, planVars, part>>
PlanStep == part = "plan" /\ Plan!Next /\ UNCHANGED <<vars, projectVars, workVars, recordVars, part>>

OfficeNext == ApprovalStep \/ ProjectsStep \/ WorkStep \/ RecordsStep \/ PlanStep

OfficeSpec == OfficeInit /\ [][OfficeNext]_<<vars, projectVars, workVars, recordVars, planVars, part>>

-----------------------------------------------------------------------------
(* The properties of the parts, stated there *)

\* Parts and project follow the tasks, and rework is counted; projects are recorded and
\* staffed as the rules have it, and planned with what is there.
ProjectsSound ==
  /\ Projects!ProjectsSound
  /\ [](part = "records" => Records!RecordsValid) /\ [][part = "records" => Records!RecordsStep]_<<part, recordVars>>
  /\ [](part = "plan" => Plan!PlanningValid) /\ [][part = "plan" => Plan!PlanningStep]_<<part, planVars>>
\* Tasks outlive the leave of those who work on them.
ContinuitySound == Work!ContinuitySound
===================================================================================
