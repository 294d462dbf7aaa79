----------------------------------- MODULE Roles -----------------------------------
(* Roles and what they allow: the hierarchy of roles, who holds which, the scope that a *)
(* role has on a feature with its audit trail, and the three questions the authorization *)
(* engine answers. The four actions on a feature have columns of their own that are      *)
(* treated alike: one is modelled. One request at a time; one that gives roles to an     *)
(* employee commits each of them, and may die in between.                                *)
EXTENDS Integers, Sequences, FiniteSets, FiniteSetsExt

CONSTANTS Employees, RoleIds, Features,
          Departments,
          None,
          Codes, SuperCodes,   \* role codes, and those of config.py that mean a super-admin
          System, Flagged,     \* roles that came with the system, and those with is_super_admin
          SameName,            \* features whose legacy name is their name
          Given,               \* bound: the scopes that are given
          Holdings,            \* bound: who holds what to begin with
          Modes                \* bound: the operations that are used together

VARIABLES mode,
          role,      \* [row, code, parent, level, active]
          holds,     \* the roles of an employee
          scope,     \* scope[r][f], or "-" without a row
          named,     \* "name" or "key": what the module_name of that row is
          audit,     \* the last new_scope of the trail
          history,   \* the roles an employee was once given by an update
          job        \* the update of an employee that is under way

grants == <<scope, named, audit>>
vars == <<mode, role, holds, grants, history, job>>

Uses(operation) == operation \in mode
Scopes == <<"NONE", "OWNED", "ADDED", "ADDED_OWNED", "TEAM", "DEPARTMENT", "COMPANY", "ALL">>
Rank(s) == CHOOSE i \in DOMAIN Scopes : Scopes[i] = s
NoRole == [row |-> FALSE, code |-> None, parent |-> None, level |-> 1, active |-> FALSE]
Rows == {r \in RoleIds : role[r].row}
Children(r) == {x \in Rows : role[x].parent = r}
Idle == [employee |-> None]
Free == job = Idle

\* The roles of the system, each its own code, and no scope yet.
Init ==
  /\ mode \in Modes
  /\ role = [r \in RoleIds |-> IF r \in System
                               THEN [row |-> TRUE, code |-> r, parent |-> None, level |-> 1, active |-> TRUE]
                               ELSE NoRole]
  /\ holds \in Holdings
  /\ scope = [r \in RoleIds |-> [f \in Features |-> "-"]]
  /\ named = [r \in RoleIds |-> [f \in Features |-> "name"]]
  /\ audit = [r \in RoleIds |-> [f \in Features |-> "NONE"]]
  /\ history = [e \in Employees |-> {}]
  /\ job = Idle

-----------------------------------------------------------------------------
(* The hierarchy of roles *)

Below(r) ==
  LET down[i \in 0..Cardinality(RoleIds)] ==
        IF i = 0 THEN Children(r) ELSE down[i - 1] \cup UNION {Children(x) : x \in down[i - 1]}
  IN down[Cardinality(RoleIds)]

\* A role that moves takes the levels of those below it along.
Levels_itself(r, level) == [x \in RoleIds |-> IF x = r THEN level ELSE role[x].level]
Levels(r, level) ==
  LET depth[x \in RoleIds] == IF x = r THEN level
                              ELSE IF x \in Below(r) THEN depth[role[x].parent] + 1
                              ELSE role[x].level
  IN depth

CodeFree(r, code) == \A x \in Rows \ {r} : role[x].code # code

CreateRole(r, code, parent, active) ==
  /\ Free /\ ~role[r].row
  /\ CodeFree(r, code) /\ parent \in Rows \cup {None}
  /\ role' = [role EXCEPT ![r] = [row |-> TRUE, code |-> code, parent |-> parent, active |-> active,
                                  level |-> IF parent = None THEN 1 ELSE role[parent].level + 1]]
  /\ UNCHANGED <<mode, holds, grants, history, job>>

\* A role that has active ones below it stays active, and none comes to stand above itself.
UpdateRole(r, code, active) ==
  /\ Free /\ role[r].row
  /\ CodeFree(r, code)
  /\ ~active => \A x \in Children(r) : ~role[x].active
  /\ role' = [role EXCEPT ![r].code = code, ![r].active = active]
  /\ UNCHANGED <<mode, holds, grants, history, job>>

MoveRole_anywhere(r, parent) ==
  /\ Free /\ role[r].row
  /\ parent \in Rows \cup {None} /\ parent # r
  /\ LET level == IF parent = None THEN 1 ELSE role[parent].level + 1 IN
     role' = [x \in RoleIds |-> [role[x] EXCEPT !.level = Levels(r, level)[x],
                                                !.parent = IF x = r THEN parent ELSE @]]
  /\ UNCHANGED <<mode, holds, grants, history, job>>
MoveRole(r, parent) ==
  /\ Free /\ role[r].row
  /\ parent \in (Rows \cup {None}) \ (Below(r) \cup {r})
  /\ LET level == IF parent = None THEN 1 ELSE role[parent].level + 1 IN
     role' = [x \in RoleIds |-> [role[x] EXCEPT !.level = Levels(r, level)[x],
                                                !.parent = IF x = r THEN parent ELSE @]]
  /\ UNCHANGED <<mode, holds, grants, history, job>>

\* Nobody asks about the roles below.
DeleteRole(r) ==
  /\ Free /\ role[r].row /\ r \notin System
  /\ \A e \in Employees : r \notin holds[e]
  /\ role' = [role EXCEPT ![r].active = FALSE]
  /\ UNCHANGED <<mode, holds, grants, history, job>>

-----------------------------------------------------------------------------
(* Who holds which role *)

\* Whether the role is active does not matter here.
ActorIsSuper(e) == holds[e] \cap Flagged # {}

MayAssign_self(actor, e, added) == added # {} /\ ~ActorIsSuper(actor) => added \cap Flagged = {}
MayAssign(actor, e, added) ==
  added # {} /\ ~ActorIsSuper(actor) => e # actor /\ added \cap Flagged = {}

\* Roles that are no longer wanted go first, then new ones come, each with a commit.
AssignRoles(actor, e, wanted) ==
  /\ Free /\ Uses("assign")
  /\ wanted \subseteq Rows /\ wanted # holds[e]
  /\ MayAssign(actor, e, wanted \ holds[e])
  /\ job' = [employee |-> e, actor |-> actor, super |-> ActorIsSuper(actor), wanted |-> wanted]
  /\ UNCHANGED <<mode, role, holds, grants, history>>

RemoveRole(r) ==
  /\ ~Free
  /\ LET e == job.employee IN r \in holds[e] \ job.wanted /\ holds' = [holds EXCEPT ![e] = @ \ {r}]
  /\ UNCHANGED <<mode, role, grants, history, job>>

AssignRole_history(r) ==
  /\ ~Free
  /\ LET e == job.employee IN
     /\ holds[e] \subseteq job.wanted /\ r \in job.wanted \ holds[e]
     /\ holds' = [holds EXCEPT ![e] = @ \cup {r}]
  /\ UNCHANGED <<mode, role, grants, job, history>>
AssignRole(r) ==
  /\ ~Free
  /\ LET e == job.employee IN
     /\ holds[e] \subseteq job.wanted /\ r \in job.wanted \ holds[e]
     /\ holds' = [holds EXCEPT ![e] = @ \cup {r}]
     /\ history' = [history EXCEPT ![e] = @ \cup {r}]
  /\ UNCHANGED <<mode, role, grants, job>>

\* It ends when all is done, or dies with some of it done.
EndUpdate ==
  /\ ~Free
  /\ holds[job.employee] = job.wanted \/ Uses("crash")
  /\ job' = Idle
  /\ UNCHANGED <<mode, role, holds, grants, history>>

-----------------------------------------------------------------------------
(* What a role may do *)

MayEdit(actor, r) == ActorIsSuper(actor) \/ r \notin holds[actor]

\* The matrix of a role: rows are updated or added, and what differs is put on the trail.
Trail_newOnly(r, change) ==
  [audit EXCEPT ![r] = [f \in Features |->
     IF f \in DOMAIN change /\ scope[r][f] = "-" THEN change[f] ELSE @[f]]]
Trail(r, change) ==
  [audit EXCEPT ![r] = [f \in Features |->
     IF f \in DOMAIN change /\ change[f] # (IF scope[r][f] = "-" THEN "NONE" ELSE scope[r][f])
     THEN change[f] ELSE @[f]]]

SetFeaturePermissions(actor, r, change) ==
  /\ Free /\ role[r].row /\ MayEdit(actor, r)
  /\ scope' = [scope EXCEPT ![r] = [f \in Features |-> IF f \in DOMAIN change THEN change[f] ELSE @[f]]]
  /\ named' = [named EXCEPT ![r] = [f \in Features |-> IF f \in DOMAIN change THEN "name" ELSE @[f]]]
  /\ audit' = Trail(r, change)
  /\ UNCHANGED <<mode, role, holds, history, job>>

\* The flush inserts before it deletes: a feature that both roles have a row for is in the way.
ClonePermissions(r, source) ==
  LET on(x) == {f \in Features : scope[x][f] # "-"} IN
  /\ Free /\ Uses("clone") /\ role[r].row /\ role[source].row
  /\ on(r) \cap on(source) = {}
  /\ scope' = [scope EXCEPT ![r] = scope[source]]
  /\ named' = [named EXCEPT ![r] = named[source]]
  /\ UNCHANGED <<mode, role, holds, audit, history, job>>

\* The older request names modules. An entry <<f, n>> is the name or the key of feature f:
\* it sets the row that is so named; else only the key finds a feature, and a row that this
\* feature has under another name is in the way. Rows that are not named are deleted.
Matches(r, f, n) == scope[r][f] # "-" /\ (named[r][f] = n \/ f \in SameName)
SetRolePermissions(actor, r, body) ==
  LET entry(f) == {x \in DOMAIN body : x[1] = f}
      set(f) == {x \in entry(f) : Matches(r, f, x[2])}
      all(x) == IF body[x] THEN "ALL" ELSE "NONE" IN
  /\ Free /\ Uses("legacy") /\ role[r].row /\ MayEdit(actor, r)
  /\ \A x \in DOMAIN body : Matches(r, x[1], x[2])
                            \/ (scope[r][x[1]] = "-" /\ (x[2] = "key" \/ x[1] \in SameName))
  /\ scope' = [scope EXCEPT ![r] = [f \in Features |->
                IF entry(f) = {} THEN "-" ELSE all(CHOOSE x \in entry(f) : set(f) # {} => x \in set(f))]]
  /\ named' = [named EXCEPT ![r] = [f \in Features |->
                IF scope[r][f] = "-" /\ entry(f) # {} THEN (CHOOSE x \in entry(f) : TRUE)[2] ELSE @[f]]]
  /\ UNCHANGED <<mode, role, holds, audit, history, job>>

Next ==
  \/ Uses("roles") /\ \E r \in RoleIds :
       \/ \E code \in Codes, parent \in RoleIds \cup {None}, active \in BOOLEAN : CreateRole(r, code, parent, active)
       \/ \E code \in Codes \cup {role[r].code}, active \in BOOLEAN : UpdateRole(r, code, active)
       \/ \E parent \in RoleIds \cup {None} : MoveRole(r, parent)
       \/ DeleteRole(r)
  \/ \E actor, e \in Employees, wanted \in SUBSET RoleIds : AssignRoles(actor, e, wanted)
  \/ (\E r \in RoleIds : RemoveRole(r) \/ AssignRole(r)) \/ EndUpdate
  \/ /\ Uses("permissions")
     /\ \E actor \in Employees, r \in RoleIds, F \in SUBSET Features \ {{}} :
          \/ \E s \in Given : SetFeaturePermissions(actor, r, [f \in F |-> s])
          \/ \E n \in {"name", "key"}, b \in BOOLEAN : SetRolePermissions(actor, r, [x \in F \X {n} |-> b])
          \/ \E source \in RoleIds : ClonePermissions(r, source)

Spec == Init /\ [][Next]_vars

-----------------------------------------------------------------------------
(* The authorization engine *)

Working(e) == {r \in holds[e] : role[r].active}
IsSuperAdmin(e) == \E r \in Working(e) : role[r].code \in SuperCodes

\* The broadest scope of the roles held.
ResolveScope_narrowest(e, f) ==
  LET found == {scope[r][f] : r \in Working(e)} \ {"-"} IN
  IF found = {} THEN "NONE" ELSE Scopes[Min({Rank(s) : s \in found})]
ResolveScope(e, f) ==
  LET found == {scope[r][f] : r \in Working(e)} \ {"-"} IN
  IF found = {} THEN "NONE" ELSE Scopes[Max({Rank(s) : s \in found})]

HasPermission(e, f) == IsSuperAdmin(e) \/ ResolveScope(e, f) # "NONE"

\* What the profile tells the menu, worked out row by row.
MenuScope(e, f) ==
  LET fold[R \in SUBSET RoleIds] ==
        IF R = {} THEN "NONE"
        ELSE LET r == CHOOSE x \in R : TRUE
                 before == fold[R \ {r}] IN
             IF scope[r][f] # "-" /\ Rank(scope[r][f]) > Rank(before) THEN scope[r][f] ELSE before
  IN IF IsSuperAdmin(e) THEN "ALL" ELSE fold[Working(e)]

\* Records have an owner, a creator and a department, or None; a query names the columns
\* it has. The organisation is [department, active, visible]: visible[e] is the team of e.
Colleagues(e, org) ==
  IF org.department[e] = None THEN {e}
  ELSE {x \in org.active : org.department[x] = org.department[e]} \cup {e}

\* The department column decides for those who have a department, else the owner, else
\* the creator.
AccessFilter_creatorToo(e, s, columns, record, org) ==
  LET among(S) == IF "owner" \in columns THEN record.owner \in S ELSE "creator" \in columns /\ record.creator \in S IN
  CASE s = "NONE" -> FALSE
    [] s \in {"ALL", "COMPANY"} -> TRUE
    [] s = "OWNED" -> "owner" \in columns /\ record.owner = e
    [] s = "ADDED" -> "creator" \in columns /\ record.creator = e
    [] s = "ADDED_OWNED" -> ("owner" \in columns /\ record.owner = e) \/ ("creator" \in columns /\ record.creator = e)
    [] s = "TEAM" -> among(org.visible) \/ ("creator" \in columns /\ record.creator \in org.visible)
    [] s = "DEPARTMENT" -> IF "department" \in columns /\ org.department[e] # None
                           THEN record.department = org.department[e] ELSE among(Colleagues(e, org))
AccessFilter(e, s, columns, record, org) ==
  LET among(S) == IF "owner" \in columns THEN record.owner \in S ELSE "creator" \in columns /\ record.creator \in S IN
  CASE s = "NONE" -> FALSE
    [] s \in {"ALL", "COMPANY"} -> TRUE
    [] s = "OWNED" -> "owner" \in columns /\ record.owner = e
    [] s = "ADDED" -> "creator" \in columns /\ record.creator = e
    [] s = "ADDED_OWNED" -> ("owner" \in columns /\ record.owner = e) \/ ("creator" \in columns /\ record.creator = e)
    [] s = "TEAM" -> among(org.visible)
    [] s = "DEPARTMENT" -> IF "department" \in columns /\ org.department[e] # None
                           THEN record.department = org.department[e] ELSE among(Colleagues(e, org))

CanAccessRecord(e, s, record, org) ==
  LET target == IF record.owner # None THEN record.owner ELSE record.creator IN
  CASE s = "NONE" -> FALSE
    [] s \in {"ALL", "COMPANY"} -> TRUE
    [] s = "OWNED" -> record.owner = e
    [] s = "ADDED" -> record.creator = e
    [] s = "ADDED_OWNED" -> e \in {record.owner, record.creator}
    [] s = "TEAM" -> target # None /\ target \in org.visible
    [] s = "DEPARTMENT" -> (target # None /\ target \in Colleagues(e, org))
                           \/ (record.department # None /\ record.department = org.department[e])

-----------------------------------------------------------------------------
(* Properties *)

\* A role stands one level below its parent, so none stands above itself.
LevelsFollowParents ==
  \A r \in Rows : role[r].level = IF role[r].parent = None THEN 1 ELSE role[role[r].parent].level + 1

\* The trail of a role's scopes ends with what it has, where nothing else writes them.
TrailReplays ==
  ~Uses("clone") /\ ~Uses("legacy") =>
    \A r \in RoleIds, f \in Features : audit[r][f] = IF scope[r][f] = "-" THEN "NONE" ELSE scope[r][f]

\* The menu shows what requests will be allowed, and with which scope.
MenuHonest ==
  \A e \in Employees, f \in Features :
    /\ MenuScope(e, f) = "NONE" <=> ~HasPermission(e, f)
    /\ ~IsSuperAdmin(e) => MenuScope(e, f) = ResolveScope(e, f)

\* A record that a list shows can be opened, whatever of its columns the list asks about.
\* (A record without an owner may be opened and still be on no list.)
Records == [owner : Employees \cup {None}, creator : Employees \cup {None}, department : Departments \cup {None}]
Organisations == [department : [Employees -> Departments \cup {None}], active : SUBSET Employees,
                  visible : SUBSET Employees]
ListedIsAccessible ==
  \A e \in Employees, i \in DOMAIN Scopes, columns \in SUBSET {"owner", "creator", "department"},
     record \in Records, org \in Organisations :
    \* a department column needs no owner or creator beside it, an owner column no creator
    ("owner" \in columns \/ record.owner = None) /\ AccessFilter(e, Scopes[i], columns, record, org)
    => CanAccessRecord(e, Scopes[i], record, org)

\* A role somebody gains by an update is on record, though the update may die. The update
\* of an actor who is no super-admin gives him none, and nobody a super-admin's.
Granted ==
  \A e \in Employees : LET gained == holds'[e] \ holds[e] IN
    gained # {} => /\ gained \subseteq history'[e]
                   /\ e = job.employee
                   /\ job.super \/ (job.actor # e /\ gained \cap Flagged = {})

\* All of it: once for all organisations, of every state, and of every step.
AccessSound == LevelsFollowParents /\ TrailReplays /\ MenuHonest

RolesSound == ListedIsAccessible /\ []AccessSound /\ [][Granted]_vars
====================================================================================
