-------------------------------- MODULE Placement --------------------------------
(***************************************************************************)
(* Where employees work: the rows of team_members with their leads and     *)
(* primary teams, departments and their heads, as employee_service.py,     *)
(* team_service.py, department_service.py and the off-boarding of          *)
(* ownership_transfer_service.py change them.                              *)
(*                                                                         *)
(* Teams and departments may be left in many odd shapes by the operations  *)
(* together; which promises hold depends on which of them are used.        *)
(***************************************************************************)
EXTENDS Naturals, FiniteSets

CONSTANTS
  Employees, Teams, Departments, None,
  Modes             \* sets of operations that may be used together

VARIABLES
  mode,             \* one of Modes, the same throughout
  account,          \* "NEW" before creation, "ACTIVE", "GONE" once terminal
  rows,             \* team_members, by team and employee
  dept, head,       \* department_id, department_head_id
  closed            \* deactivated teams and departments

teams == <<rows>>
departments == <<dept, head>>
vars == <<mode, account, rows, dept, head, closed>>

TeamRoles == {"LEAD", "MEMBER"}
TeamRow == [role : TeamRoles, left : BOOLEAN, primary : BOOLEAN]
NoRow == [role |-> "NONE"]

HasRow(t, e) == rows[t][e] # NoRow
InTeam(t, e) == HasRow(t, e) /\ ~rows[t][e].left
TeamsOf(e) == {t \in Teams : InTeam(t, e)}
LeadsOf(t) == {e \in Employees : InTeam(t, e) /\ rows[t][e].role = "LEAD"}
Active == {e \in Employees : account[e] = "ACTIVE"}
Uses(op) == op \in mode

Current(role, primary) == [role |-> role, left |-> FALSE, primary |-> primary]
LeftRow(row) == [row EXCEPT !.left = TRUE, !.primary = FALSE]

-----------------------------------------------------------------------------
(* Create and update of an employee: teams *)

\* e joins t; whoever leads t becomes a member when e is to lead. Its other rows end.
Join(t, e, role) ==
  [u \in Teams |-> [x \in Employees |->
     IF u = t /\ x = e THEN Current(role, TRUE)
     ELSE IF x = e /\ InTeam(u, e) THEN LeftRow(rows[u][e])
     ELSE IF u = t /\ role = "LEAD" /\ x \in LeadsOf(t) THEN [rows[t][x] EXCEPT !.role = "MEMBER"]
     ELSE rows[u][x]]]

\* An update names a team, a role, or both; what it leaves out is taken from the row
\* found first. A row that already has the role is not touched.
UpdateTeam_keepsLead(e, team, role) ==
  /\ Uses("update") /\ account[e] # "NEW" /\ (team # None \/ role # None)
  /\ \E found \in (IF TeamsOf(e) = {} THEN {None} ELSE TeamsOf(e)) :
       LET t == IF team = None THEN found ELSE team
           r == IF role # None THEN role ELSE IF found = None THEN "MEMBER" ELSE rows[found][e].role
       IN  rows' = IF t = None THEN rows
                   ELSE IF t = found THEN [rows EXCEPT ![t][e].role = r]
                   ELSE Join(t, e, r)
  /\ UNCHANGED <<account, closed, departments>>

UpdateTeam(e, team, role) ==
  /\ Uses("update") /\ account[e] # "NEW" /\ (team # None \/ role # None)
  /\ \E found \in (IF TeamsOf(e) = {} THEN {None} ELSE TeamsOf(e)) :
       LET t == IF team = None THEN found ELSE team
           r == IF role # None THEN role ELSE IF found = None THEN "MEMBER" ELSE rows[found][e].role
       IN  rows' = IF t = None THEN rows
                   ELSE IF t # found THEN Join(t, e, r)
                   ELSE IF rows[t][e].role = r THEN rows
                   ELSE [rows EXCEPT ![t] = [x \in Employees |->
                           IF x = e THEN [rows[t][x] EXCEPT !.role = r]
                           ELSE IF r = "LEAD" /\ x \in LeadsOf(t) THEN [rows[t][x] EXCEPT !.role = "MEMBER"]
                           ELSE rows[t][x]]]
  /\ UNCHANGED <<account, closed, departments>>

-----------------------------------------------------------------------------
(* Create and update of an employee: departments *)

HeadOf(d, e) == [head EXCEPT ![d] = e]

\* An inactive department is refused here only.
Create(e, d, isHead, team, role) ==
  /\ Uses("create") /\ account[e] = "NEW" /\ d \notin closed
  /\ account' = [account EXCEPT ![e] = "ACTIVE"]
  /\ dept' = [dept EXCEPT ![e] = d]
  /\ head' = IF isHead /\ d # None THEN HeadOf(d, e) ELSE head
  /\ rows' = IF team = None THEN rows ELSE Join(team, e, role)
  /\ UNCHANGED closed

UpdateDepartment_keepsHead(e, d, isHead) ==
  /\ Uses("update") /\ account[e] # "NEW"
  /\ dept' = [dept EXCEPT ![e] = d]
  /\ head' = IF isHead = TRUE /\ d # None THEN HeadOf(d, e) ELSE head
  /\ UNCHANGED <<account, closed, teams>>

\* A head who moves gives up the old department, and heads the new one only if the
\* request says so: what it was is looked up after it has been cleared.
UpdateDepartment(e, d, isHead) ==
  /\ Uses("update") /\ account[e] # "NEW"
  /\ dept' = [dept EXCEPT ![e] = d]
  /\ LET moved == [x \in Departments |-> IF x # d /\ x = dept[e] /\ head[x] = e THEN None ELSE head[x]]
     IN  head' = IF d = None THEN moved
                 ELSE IF isHead = TRUE THEN [moved EXCEPT ![d] = e]
                 ELSE IF isHead = FALSE /\ moved[d] = e THEN [moved EXCEPT ![d] = None]
                 ELSE moved
  /\ UNCHANGED <<account, closed, teams>>

-----------------------------------------------------------------------------
(* TeamService *)

AddMember_anyPrimary(t, e, role, primary) ==
  /\ Uses("add") /\ t \notin closed /\ e \in Active /\ ~InTeam(t, e)
  /\ rows' = [rows EXCEPT ![t][e] = Current(role, primary)]
  /\ UNCHANGED <<account, closed, departments>>

Primaries(e) == {t \in Teams : HasRow(t, e) /\ rows[t][e].primary}

\* A new primary row takes the flag from another; a row that comes back does not.
AddMember(t, e, role, primary) ==
  /\ Uses("add") /\ t \notin closed /\ e \in Active /\ ~InTeam(t, e)
  /\ LET added == [rows EXCEPT ![t][e] = Current(role, primary)]
     IN  IF HasRow(t, e) \/ ~primary \/ Primaries(e) = {} THEN rows' = added
         ELSE \E u \in Primaries(e) : rows' = [added EXCEPT ![u][e].primary = FALSE]
  /\ UNCHANGED <<account, closed, departments>>

\* Of several primary rows the first is taken, which may be this one.
UpdateMember(t, e, role, primary) ==
  /\ Uses("member") /\ HasRow(t, e)
  /\ LET set == [rows EXCEPT ![t][e].role = role, ![t][e].primary = primary]
     IN  IF ~primary \/ Primaries(e) = {} THEN rows' = set
         ELSE \E u \in Primaries(e) : rows' = IF u = t THEN set ELSE [set EXCEPT ![u][e].primary = FALSE]
  /\ UNCHANGED <<account, closed, departments>>

RemoveMember(t, e) ==
  /\ Uses("remove") /\ HasRow(t, e)
  /\ rows' = [rows EXCEPT ![t][e] = LeftRow(@)]
  /\ UNCHANGED <<account, closed, departments>>

DeactivateTeam_led(t) ==
  /\ Uses("deactivate")
  /\ closed' = closed \cup {t}
  /\ UNCHANGED <<account, teams, departments>>

DeactivateTeam(t) ==
  /\ Uses("deactivate") /\ LeadsOf(t) = {}
  /\ closed' = closed \cup {t}
  /\ UNCHANGED <<account, teams, departments>>

-----------------------------------------------------------------------------
(* DepartmentService *)

UpdateHead(d, e) ==
  /\ Uses("department") /\ account[e] # "NEW"
  /\ head' = HeadOf(d, e)
  /\ UNCHANGED <<account, closed, teams, dept>>

DeleteDepartment_staffed(d) ==
  /\ Uses("deleteDepartment") /\ head[d] = None
  /\ closed' = closed \cup {d}
  /\ UNCHANGED <<account, teams, departments>>

DeleteDepartment(d) ==
  /\ Uses("deleteDepartment") /\ head[d] = None /\ \A e \in Employees : dept[e] # d
  /\ closed' = closed \cup {d}
  /\ UNCHANGED <<account, teams, departments>>

-----------------------------------------------------------------------------
(* Leaving *)

\* transfer_teams: nobody already leading the team is demoted.
TransferTeams(e, new, T) ==
  /\ Uses("transfer") /\ new \in Active
  /\ rows' = [t \in Teams |-> [x \in Employees |->
                IF t \notin T \/ ~InTeam(t, e) \/ x \notin {e, new} THEN rows[t][x]
                ELSE IF x = new THEN Current("LEAD", x # e /\ HasRow(t, new) /\ rows[t][new].primary)
                ELSE LeftRow(rows[t][e])]]
  /\ UNCHANGED <<account, closed, departments>>

TransferDepartments(e, new, D) ==
  /\ Uses("transfer") /\ new \in Active
  /\ head' = [d \in Departments |-> IF d \in D /\ head[d] = e THEN new ELSE head[d]]
  /\ UNCHANGED <<account, closed, teams, dept>>

ExecuteOffboard_staysLeft(e, new, T, D) ==
  /\ Uses("execute") /\ account[e] # "NEW"
  /\ T # {} \/ D # {} => new \in Active \ {e}
  /\ rows' = [t \in Teams |-> [x \in Employees |->
                IF t \notin T \/ x \notin {e, new} THEN rows[t][x]
                ELSE IF x = e THEN IF InTeam(t, e) THEN LeftRow(rows[t][e]) ELSE rows[t][e]
                ELSE IF HasRow(t, new) THEN [rows[t][new] EXCEPT !.role = "LEAD"] ELSE Current("LEAD", FALSE)]]
  /\ account' = [account EXCEPT ![e] = "GONE"]
  /\ UNCHANGED <<departments, closed>>

\* What execute_offboard does to teams and heads: the row that ends stays primary, and
\* the successor leads the teams named, led by the leaver or not.
ExecuteOffboard(e, new, T, D) ==
  /\ Uses("execute") /\ account[e] # "NEW"
  /\ T # {} \/ D # {} => new \in Active \ {e}
  /\ rows' = [t \in Teams |-> [x \in Employees |->
                IF t \notin T \/ x \notin {e, new} THEN rows[t][x]
                ELSE IF x = new THEN Current("LEAD", HasRow(t, new) /\ rows[t][new].primary)
                ELSE IF InTeam(t, e) THEN [rows[t][e] EXCEPT !.left = TRUE] ELSE rows[t][e]]]
  /\ head' = [d \in Departments |-> IF d \in D /\ head[d] = e THEN new ELSE head[d]]
  /\ account' = [account EXCEPT ![e] = "GONE"]
  /\ UNCHANGED <<dept, closed>>

OffboardConfirm_leading(e) ==
  /\ Uses("confirm") /\ account[e] # "NEW" /\ \A d \in Departments : head[d] # e
  /\ account' = [account EXCEPT ![e] = "GONE"]
  /\ UNCHANGED <<closed, teams, departments>>

\* offboard_check: a lead or a head cannot leave.
OffboardConfirm(e) ==
  /\ Uses("confirm") /\ account[e] # "NEW"
  /\ \A t \in Teams : e \notin LeadsOf(t)
  /\ \A d \in Departments : head[d] # e
  /\ account' = [account EXCEPT ![e] = "GONE"]
  /\ UNCHANGED <<closed, teams, departments>>

DeleteEmployee_keepsHead(e) ==
  /\ Uses("delete") /\ account[e] = "GONE"
  /\ account' = [account EXCEPT ![e] = "NEW"]
  /\ rows' = [t \in Teams |-> [rows[t] EXCEPT ![e] = NoRow]]
  /\ dept' = [dept EXCEPT ![e] = None]
  /\ UNCHANGED <<closed, head>>

\* The row of a leaver is deleted: its team rows cascade, its departments lose it.
DeleteEmployee(e) ==
  /\ Uses("delete") /\ account[e] = "GONE"
  /\ account' = [account EXCEPT ![e] = "NEW"]
  /\ rows' = [t \in Teams |-> [rows[t] EXCEPT ![e] = NoRow]]
  /\ head' = [d \in Departments |-> IF head[d] = e THEN None ELSE head[d]]
  /\ dept' = [dept EXCEPT ![e] = None]
  /\ UNCHANGED closed

-----------------------------------------------------------------------------
Init ==
  /\ mode \in Modes
  /\ account \in [Employees -> IF Uses("create") THEN {"NEW", "ACTIVE"} ELSE {"ACTIVE"}]
  /\ rows = [t \in Teams |-> [e \in Employees |-> NoRow]]
  /\ dept = [e \in Employees |-> None]
  /\ head = [d \in Departments |-> None]
  /\ closed = {}

EmployeeStep(e) ==
  \/ \E d \in Departments \cup {None}, h \in BOOLEAN, t \in Teams \cup {None}, r \in TeamRoles :
       Create(e, d, h, t, r)
  \/ \E t \in Teams \cup {None}, r \in TeamRoles \cup {None} : UpdateTeam(e, t, r)
  \/ \E d \in Departments \cup {None}, h \in BOOLEAN \cup {None} : UpdateDepartment(e, d, h)
  \/ OffboardConfirm(e) \/ DeleteEmployee(e)
  \/ \E f \in Employees, T \in SUBSET Teams :
       \/ TransferTeams(e, f, T)
       \/ \E D \in SUBSET Departments : ExecuteOffboard(e, f, T, D)
  \/ \E f \in Employees, D \in SUBSET Departments : TransferDepartments(e, f, D)

TeamStep(t) ==
  \/ DeactivateTeam(t)
  \/ \E e \in Employees, r \in TeamRoles, p \in BOOLEAN : AddMember(t, e, r, p) \/ UpdateMember(t, e, r, p)
  \/ \E e \in Employees : RemoveMember(t, e)

Next ==
  /\ \/ \E e \in Employees : EmployeeStep(e)
     \/ \E t \in Teams : TeamStep(t)
     \/ \E d \in Departments : DeleteDepartment(d) \/ \E e \in Employees : UpdateHead(d, e)
  /\ UNCHANGED mode

Spec == Init /\ [][Next]_vars

-----------------------------------------------------------------------------
\* The columns of the rows, and nobody has a place before it is created.
PlacementTypeOK ==
  /\ mode \in Modes /\ account \in [Employees -> {"NEW", "ACTIVE", "GONE"}]
  /\ rows \in [Teams -> [Employees -> TeamRow \cup {NoRow}]]
  /\ dept \in [Employees -> Departments \cup {None}] /\ head \in [Departments -> Employees \cup {None}]
  /\ \A e \in Employees : account[e] = "NEW" =>
       TeamsOf(e) = {} /\ dept[e] = None /\ \A d \in Departments : head[d] # e

\* Placed through the employee form alone, nobody is in two teams and no team has two
\* leads, whoever is moved, promoted or demoted in whatever order.
OneTeamOneLead ==
  mode \subseteq {"create", "update", "confirm", "delete"} =>
    /\ \A e \in Employees : Cardinality(TeamsOf(e)) <= 1 /\ Primaries(e) = TeamsOf(e)
    /\ \A t \in Teams : Cardinality(LeadsOf(t)) <= 1

\* Until somebody is removed or handed over, so that a row may come back, the flag of the
\* primary team moves with the members form and is never on two rows.
OnePrimaryTeam ==
  mode \subseteq {"create", "add", "member"} => \A e \in Employees : Cardinality(Primaries(e)) <= 1

\* A department is headed by somebody who works in it, while the employee form alone
\* says who heads what.
HeadWorksThere ==
  mode \subseteq {"create", "update", "confirm", "delete"} =>
    \A d \in Departments : head[d] # None => dept[head[d]] = d

\* Nobody leaves by the checked way while leading a team or heading a department, and
\* nothing is handed to somebody who has left.
LeaversHoldNothing ==
  mode \subseteq {"create", "add", "remove", "transfer", "confirm", "delete"} =>
    \A e \in Employees : account[e] = "GONE" =>
      (\A t \in Teams : e \notin LeadsOf(t)) /\ \A d \in Departments : head[d] # e

\* A hand-over never leaves a team without a lead: the successor leads it, whether new to
\* the team, in it, or back in it.
HandedToALead ==
  [][mode \subseteq {"create", "add", "transfer", "execute", "department"} =>
       \A t \in Teams : LeadsOf(t) # {} => LeadsOf(t)' # {}]_vars

\* A team deactivated has no lead, and a department deleted has neither head nor staff,
\* as long as teams are staffed by adding members and departments by creating employees.
ClosedStayEmpty ==
  /\ mode \subseteq {"add", "remove", "deactivate", "confirm"} =>
       \A t \in Teams \cap closed : LeadsOf(t) = {}
  /\ mode \subseteq {"create", "deleteDepartment", "transfer", "confirm", "delete"} =>
       \A d \in Departments \cap closed : head[d] = None /\ \A e \in Employees : dept[e] # d

\* Who works where, who leads and heads what, and who no longer does.
PlacementSound ==
  /\ [](/\ PlacementTypeOK /\ OneTeamOneLead /\ OnePrimaryTeam
        /\ HeadWorksThere /\ LeaversHoldNothing /\ ClosedStayEmpty)
  /\ HandedToALead
===================================================================================
