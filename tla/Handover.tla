--------------------------------- MODULE Handover ---------------------------------
(***************************************************************************)
(* OwnershipTransferService: the impact page of an employee who is to      *)
(* leave (compute_impact), the request somebody draws up from it, and what *)
(* execute_offboard, later, does with the projects, tasks, memberships,    *)
(* leave requests and time entries of that employee. Reports are moved in  *)
(* OrgChart, teams and departments in Placement, in the same transaction.  *)
(*                                                                         *)
(* The session does not autoflush: the bulk reassignment selects the rows  *)
(* as they are stored, those the individual ones have just given away      *)
(* included, and so gives them away again.                                 *)
(***************************************************************************)
EXTENDS Naturals, FiniteSets

CONSTANTS Employees, Projects, Tasks, None

VARIABLES
  active,           \* employees with is_active
  manages,          \* project_manager_id of the projects
  assigned,         \* task_assignments, all of them open: the employee of each task
  closedTasks,      \* tasks completed or cancelled: their assignments stay as they are
  members,          \* project_members without left_at, pairs <<project, employee>>
  leave, entry,     \* status of one leave request and one time entry of each employee
  request           \* the request drawn up and not sent yet, or None

vars == <<active, manages, assigned, closedTasks, members, leave, entry, request>>

\* compute_impact, reports, teams and departments apart.
Impact(e) ==
  [projects |-> {p \in Projects : manages[p] = e},
   tasks |-> {t \in Tasks \ closedTasks : assigned[t] = e},
   leaves |-> {x \in {e} : leave[x] = "PENDING"},
   entries |-> {x \in {e} : entry[x] \in {"DRAFT", "SUBMITTED"}},
   memberships |-> {p \in Projects : <<p, e>> \in members}]

NothingListed ==
  [projects |-> {}, tasks |-> {}, leaves |-> {}, entries |-> {}, memberships |-> {}]

\* Whoever draws up the request names one successor for all projects listed, one for some
\* of the tasks, and perhaps another for all tasks.
DrawUp(e) ==
  /\ request = None
  /\ \E T \in SUBSET Impact(e).tasks, new, bulk \in Employees \cup {None}, all \in BOOLEAN :
       /\ new = None => T = {}
       /\ request' = [by |-> e, listed |-> Impact(e), tasks |-> T, new |-> new, bulk |-> bulk, all |-> all]
  /\ UNCHANGED <<active, manages, assigned, closedTasks, members, leave, entry>>

Successors(r) ==
  {x \in {r.new, r.bulk} : x # None /\ (x = r.bulk \/ r.tasks # {} \/ r.listed.projects # {})}

Reassigned_keepsLate(r) ==
  [t \in Tasks |-> IF assigned[t] # r.by THEN assigned[t]
                   ELSE IF r.bulk # None /\ t \in r.listed.tasks THEN r.bulk
                   ELSE IF t \in r.tasks THEN r.new ELSE assigned[t]]

\* The bulk takes what is there now, on the page or not, done or not.
Reassigned(r) ==
  [t \in Tasks |-> IF assigned[t] # r.by THEN assigned[t]
                   ELSE IF r.bulk # None THEN r.bulk
                   ELSE IF t \in r.tasks THEN r.new ELSE assigned[t]]

Handed_unlooked(r) == [p \in Projects |-> IF p \in r.listed.projects /\ r.new # None THEN r.new ELSE manages[p]]

\* Only what the leaver still manages is handed on.
Handed(r) == [p \in Projects |-> IF p \in r.listed.projects /\ manages[p] = r.by /\ r.new # None
                                 THEN r.new ELSE manages[p]]

ExecuteOffboard_keepsMembers(r) ==
  /\ Successors(r) \subseteq active \ {r.by}
  /\ manages' = Handed(r)
  /\ assigned' = Reassigned(r)
  /\ leave' = IF r.all /\ leave[r.by] = "PENDING" THEN [leave EXCEPT ![r.by] = "CANCELLED"] ELSE leave
  /\ entry' = IF r.all /\ entry[r.by] \in {"DRAFT", "SUBMITTED"} THEN [entry EXCEPT ![r.by] = "APPROVED"] ELSE entry
  /\ active' = active \ {r.by}
  /\ request' = None
  /\ UNCHANGED <<closedTasks, members>>

\* Every successor named is checked before anything changes; it all commits at the end.
ExecuteOffboard(r) ==
  /\ Successors(r) \subseteq active \ {r.by}
  /\ manages' = Handed(r)
  /\ assigned' = Reassigned(r)
  /\ members' = {m \in members : m[2] # r.by}
  /\ leave' = IF r.all /\ leave[r.by] = "PENDING" THEN [leave EXCEPT ![r.by] = "CANCELLED"] ELSE leave
  /\ entry' = IF r.all /\ entry[r.by] \in {"DRAFT", "SUBMITTED"} THEN [entry EXCEPT ![r.by] = "APPROVED"] ELSE entry
  /\ active' = active \ {r.by}
  /\ request' = None
  /\ UNCHANGED closedTasks

Discard == request # None /\ request' = None /\ UNCHANGED <<active, manages, assigned, closedTasks, members, leave, entry>>

-----------------------------------------------------------------------------
(* What goes on between the page and the request; what went on before it shows in the  *)
(* initial states.                                                                     *)

HandTask(t, e) ==
  /\ request # None /\ e \in active /\ t \notin closedTasks
  /\ assigned' = [assigned EXCEPT ![t] = e]
  /\ UNCHANGED <<active, manages, closedTasks, members, leave, entry, request>>

CloseTask(t) ==
  /\ request # None
  /\ closedTasks' = closedTasks \cup {t}
  /\ UNCHANGED <<active, manages, assigned, members, leave, entry, request>>

ChangeManager(p, e) ==
  /\ request # None /\ e \in active
  /\ manages' = [manages EXCEPT ![p] = e]
  /\ UNCHANGED <<active, assigned, closedTasks, members, leave, entry, request>>

-----------------------------------------------------------------------------
\* Whatever the employees own.
Init ==
  /\ active = Employees
  /\ manages \in [Projects -> Employees] /\ assigned \in [Tasks -> Employees]
  /\ closedTasks \in SUBSET Tasks
  /\ members = Projects \X Employees
  /\ leave = [e \in Employees |-> "PENDING"] /\ entry = [e \in Employees |-> "SUBMITTED"]
  /\ request = None

Next ==
  \/ \E e \in Employees : DrawUp(e)
  \/ \E r \in {request} \ {None} : ExecuteOffboard(r)
  \/ Discard
  \/ \E t \in Tasks : CloseTask(t) \/ \E e \in Employees : HandTask(t, e)
  \/ \E p \in Projects, e \in Employees : ChangeManager(p, e)

Spec == Init /\ [][Next]_vars

-----------------------------------------------------------------------------
\* The columns touched, and members are current ones.
HandoverTypeOK ==
  /\ active \subseteq Employees /\ members \subseteq Projects \X active
  /\ manages \in [Projects -> Employees] /\ assigned \in [Tasks -> Employees]
  /\ closedTasks \subseteq Tasks
  /\ leave \in [Employees -> {"PENDING", "CANCELLED"}]
  /\ entry \in [Employees -> {"SUBMITTED", "APPROVED"}]

Leaves(e) == e \in active /\ e \notin active'

\* A request that disposes of all that was listed leaves nothing the page would still
\* list, when nothing was given to the leaver since; and what has been given since stays
\* listed unless it is a task and the request names somebody for all tasks.
ImpactHandedOver ==
  [][\A e \in Employees : Leaves(e) =>
       /\ request.bulk # None => Impact(e)'.tasks = {}
       /\ (/\ Impact(e).projects \subseteq request.listed.projects /\ request.new # None
           /\ request.bulk # None \/ Impact(e).tasks \subseteq request.tasks
           /\ request.all) => Impact(e)' = NothingListed]_vars

\* Nothing else moves: what has been handed to others since the page was drawn stays with
\* them, nobody else's leave or entries change, and no successor is somebody who left.
OnlyTheLeaversWorkMoves ==
  [][\A e \in Employees : Leaves(e) =>
       /\ \A t \in Tasks : assigned'[t] # assigned[t] => assigned[t] = e /\ assigned'[t] \in active'
       /\ \A p \in Projects : manages'[p] # manages[p] => manages[p] = e /\ manages'[p] \in active'
       /\ \A x \in Employees \ {e} : leave'[x] = leave[x] /\ entry'[x] = entry[x]]_vars

\* An off-boarding moves what was listed, and nothing else.
HandedOver == []HandoverTypeOK /\ ImpactHandedOver /\ OnlyTheLeaversWorkMoves
====================================================================================
