-------------------------- MODULE ApproverResolution --------------------------
(***************************************************************************)
(* ApprovalService.resolve_approver_for_step: who has to approve one step  *)
(* of a workflow for a requester, given the organisation chart. Pure: the  *)
(* chart is a record                                                       *)
(*   manager : reporting_manager_id of every employee,                     *)
(*   holds   : active role assignments, pairs <<employee, role>>,          *)
(*   dept    : department_id of every employee,                            *)
(*   leads   : leads and owners of every employee's current teams,         *)
(*   active  : employees with is_active.                                   *)
(* A query without ORDER BY may return any of its rows first, so the       *)
(* result is the set of the employees the code may pick.                   *)
(***************************************************************************)
EXTENDS Integers, FiniteSets

CONSTANTS Employees, Roles, Departments, None

Scopes == {"REPORTING_HIERARCHY", "TEAM_ASSIGNMENT", "DEPARTMENT_ASSIGNMENT", "GLOBAL"}

Org == [manager : [Employees -> Employees \cup {None}],
        holds : SUBSET (Employees \X Roles),
        dept : [Employees -> Departments \cup {None}],
        leads : [Employees -> SUBSET Employees],
        active : SUBSET Employees]

OrNone(S) == IF S = {} THEN {None} ELSE S

RolesOf(org, e) == {r \in Roles : <<e, r>> \in org.holds}
Holders(org, r) == {e \in Employees : <<e, r>> \in org.holds}

-----------------------------------------------------------------------------
(* The walk up the manager tree *)

\* Where the walk stands after n moves: the direct manager first.
Chain(org, e) ==
  LET chain[n \in Nat] == IF n = 0 THEN org.manager[e]
                          ELSE IF chain[n - 1] = None THEN None ELSE org.manager[chain[n - 1]]
  IN  [n \in 0..Cardinality(Employees) |-> chain[n]]

\* The loop goes on while there is a manager it has not visited; the requester counts
\* as visited.
Walked(org, e) ==
  LET chain == Chain(org, e) IN
  {n \in DOMAIN chain :
     \A k \in 0..n : chain[k] \notin {None, e} \cup {chain[j] : j \in 0..(k - 1)}}

UpTheHierarchy_highest(org, e, role) ==
  LET chain == Chain(org, e)
      fit == {n \in Walked(org, e) : <<chain[n], role>> \in org.holds}
  IN  IF fit = {} THEN org.manager[e]
      ELSE chain[CHOOSE n \in fit : \A k \in fit : n >= k]

\* The first manager met who holds the role, else the direct manager.
UpTheHierarchy(org, e, role) ==
  LET chain == Chain(org, e)
      fit == {n \in Walked(org, e) : <<chain[n], role>> \in org.holds}
  IN  IF fit = {} THEN org.manager[e]
      ELSE chain[CHOOSE n \in fit : \A k \in fit : n <= k]

-----------------------------------------------------------------------------
Candidates(org, e, scope, role) ==
  CASE scope = "REPORTING_HIERARCHY" -> {UpTheHierarchy(org, e, role)}
    [] scope = "TEAM_ASSIGNMENT" -> OrNone(org.leads[e] \cap Holders(org, role))
    [] scope = "DEPARTMENT_ASSIGNMENT" ->
         OrNone({x \in Holders(org, role) \cap org.active :
                   org.dept[e] # None /\ org.dept[x] = org.dept[e]})
    [] scope = "GLOBAL" -> OrNone(Holders(org, role) \cap org.active)

\* Who may act on a step nobody in particular is assigned to.
InPool(org, e, x, scope, role) ==
  /\ <<x, role>> \in org.holds
  /\ \/ scope = "GLOBAL"
     \/ scope = "DEPARTMENT_ASSIGNMENT" /\ org.dept[x] = org.dept[e]
     \/ scope = "TEAM_ASSIGNMENT" /\ x \in org.leads[e]

-----------------------------------------------------------------------------
(* What the walk is for *)

\* Managers the walk may stop at, as a least set: the direct manager, and the manager
\* of each one without the role, never the requester.
WithinReach(org, e, role) ==
  LET Ok(x) == x \notin {None, e}
      Closed(S) == /\ Ok(org.manager[e]) => org.manager[e] \in S
                   /\ \A x \in S : (<<x, role>> \notin org.holds /\ Ok(org.manager[x]))
                                   => org.manager[x] \in S
  IN  {x \in Employees : \A S \in SUBSET Employees : Closed(S) => x \in S}

\* The walk finds the nearest manager with the role on every chart, charts with cycles
\* included, and falls back to the direct manager.
NearestManager(org) ==
  \A e \in Employees, role \in Roles :
    LET fit == WithinReach(org, e, role) \cap Holders(org, role)
        found == UpTheHierarchy(org, e, role)
    IN  IF fit = {} THEN found = org.manager[e] ELSE found \in fit
=============================================================================
