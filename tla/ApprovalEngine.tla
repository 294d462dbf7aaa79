----------------------------- MODULE ApprovalEngine -----------------------------
(***************************************************************************)
(* Approval instances: initialize_approval_flow and submit_approval_action *)
(* of approval_service.py, for the modules that submit targets (leave      *)
(* requests, time entries, attendance corrections). What a decision does   *)
(* to the target is left to the module that extends this one: ActCommit    *)
(* hands it the verdict.                                                   *)
(*                                                                         *)
(* An approver's request has three points at which it meets the database:  *)
(* it loads the instance and checks it (Read), an approval looks for the   *)
(* next step (Look), and it commits. No step takes a lock, and the UPDATE  *)
(* at the commit does not check the status again.                          *)
(***************************************************************************)
EXTENDS ApprovalWorkflows, FiniteSetsExt

CONSTANTS
  Targets,
  Requester,        \* the employee who submits each target
  ModuleOf,         \* the module type each target is submitted under
  AliasOf           \* module types with the same alias share their workflows

ASSUME EngineAssumption ==
  /\ Requester \in [Targets -> Employees]
  /\ ModuleOf \in [Targets -> ModuleTypes]
  /\ DOMAIN AliasOf = ModuleTypes

VARIABLES
  org,              \* organisation chart: see ApproverResolution
  instances         \* approval_instances of each target, in the order of their creation

Verdicts == {"PENDING", "APPROVED", "REJECTED"}
InstanceStatuses == {"DRAFT", "PENDING", "APPROVED", "REJECTED", "SKIPPED"}
Open == {"DRAFT", "PENDING"}

Instance == [level : Nat \ {0}, role : Roles, approver : Employees \cup {None},
             scope : Scopes, status : InstanceStatuses]

\* The request of an approver: whom, what, and the next step it has found (0: none).
Acting == [op : {"act", "looked"}, by : Employees, target : Targets, index : Nat \ {0},
           action : {"APPROVED", "REJECTED"}, next : Nat]

IndexesOf(t, S) == {i \in DOMAIN instances[t] : instances[t][i].status \in S}
OpenAt(t) == IndexesOf(t, Open)

-----------------------------------------------------------------------------
(* initialize_approval_flow *)

ActiveFor(m) ==
  {f \in WorkflowIds : Exists(f) /\ workflows[f].active /\ AliasOf[workflows[f].module] = AliasOf[m]}

StepsFor(f, e) == {s \in workflows[f].steps : s.role \in RolesOf(org, e)}

\* Orders of the steps by level; steps of equal level come in any order.
LevelOrders(S) ==
  {q \in [1..Cardinality(S) -> S] :
     \A i, j \in DOMAIN q : i < j => q[i] # q[j] /\ q[i].level <= q[j].level}

FirstStatus_selfAsks(e, s, x) ==
  IF x = None /\ s.scope \in {"REPORTING_HIERARCHY", "TEAM_ASSIGNMENT"} THEN "SKIPPED" ELSE "DRAFT"

\* A step that resolves to the requester, or to nobody in a personal scope, is skipped.
FirstStatus(e, s, x) ==
  IF x = e \/ (x = None /\ s.scope \in {"REPORTING_HIERARCHY", "TEAM_ASSIGNMENT"})
  THEN "SKIPPED" ELSE "DRAFT"

NewInstance_mixedIds(e, s, x) ==
  [level |-> s.level, role |-> s.approver, approver |-> s.approver, scope |-> s.scope,
   status |-> FirstStatus(e, s, x)]

NewInstance(e, s, x) ==
  [level |-> s.level, role |-> s.approver, approver |-> x, scope |-> s.scope,
   status |-> FirstStatus(e, s, x)]

Activated_all(rows) == [i \in DOMAIN rows |-> IF rows[i].status = "DRAFT"
                                              THEN [rows[i] EXCEPT !.status = "PENDING"] ELSE rows[i]]

\* The first step that is not skipped becomes PENDING.
Activated(rows) ==
  LET drafts == {i \in DOMAIN rows : rows[i].status = "DRAFT"}
  IN  IF drafts = {} THEN rows ELSE [rows EXCEPT ![Min(drafts)].status = "PENDING"]

\* What a submission of target t may insert: every order of the steps, every approver
\* the queries may return.
OrderedRows(e, q) ==
  {Activated([i \in DOMAIN q |-> NewInstance(e, q[i], pick[i])]) :
     pick \in {p \in [DOMAIN q -> Employees \cup {None}] :
                 \A i \in DOMAIN q : p[i] \in Candidates(org, e, q[i].scope, q[i].approver)}}

FlowRows(t) ==
  LET e == Requester[t] IN
  UNION {UNION {OrderedRows(e, q) : q \in LevelOrders(StepsFor(f, e))} : f \in ActiveFor(ModuleOf[t])}

\* With no step left to take a target is approved at once.
FlowStatus(rows) ==
  IF \E i \in DOMAIN rows : rows[i].status = "PENDING" THEN "PENDING" ELSE "APPROVED"

StartFlow(t, verdict) ==
  \E rows \in FlowRows(t) :
    /\ instances' = [instances EXCEPT ![t] = @ \o rows]
    /\ verdict = FlowStatus(rows)

-----------------------------------------------------------------------------
(* submit_approval_action *)

Authorized(x, t, row) ==
  \/ row.approver = x
  \/ row.approver = None /\ InPool(org, Requester[t], x, row.scope, row.role)

ActRead_anyStatus(w, x, t, i, action) ==
  /\ instances[t][i].status \in {"PENDING", "DRAFT", "APPROVED"}
  /\ Authorized(x, t, instances[t][i])
  /\ StartRequest(w, [op |-> "act", by |-> x, target |-> t, index |-> i,
                      action |-> action, next |-> 0])
  /\ UNCHANGED <<workflows, org, instances>>

ActRead(w, x, t, i, action) ==
  /\ instances[t][i].status = "PENDING"
  /\ Authorized(x, t, instances[t][i])
  /\ StartRequest(w, [op |-> "act", by |-> x, target |-> t, index |-> i,
                      action |-> action, next |-> 0])
  /\ UNCHANGED <<workflows, org, instances>>

\* DRAFT instances of the target with the lowest level.
NextSteps(t) ==
  LET drafts == IndexesOf(t, {"DRAFT"}) IN
  {i \in drafts : \A j \in drafts : instances[t][i].level <= instances[t][j].level}

ActLook(w) ==
  /\ txn[w].op = "act" /\ txn[w].action = "APPROVED"
  /\ LET found == NextSteps(txn[w].target) IN
     \E next \in IF found = {} THEN {0} ELSE found :
       txn' = [txn EXCEPT ![w] = [@ EXCEPT !.op = "looked", !.next = next]]
  /\ UNCHANGED <<workflows, org, instances>>

ApproveRows_forgetsNext(rows, i, next) ==
  [k \in DOMAIN rows |-> IF k = i THEN [rows[k] EXCEPT !.status = "APPROVED"] ELSE rows[k]]

ApproveRows(rows, i, next) ==
  [k \in DOMAIN rows |-> IF k = i THEN [rows[k] EXCEPT !.status = "APPROVED"]
                         ELSE IF k = next THEN [rows[k] EXCEPT !.status = "PENDING"] ELSE rows[k]]

RejectRows_ownOnly(rows, i) ==
  [k \in DOMAIN rows |-> IF k = i THEN [rows[k] EXCEPT !.status = "REJECTED"] ELSE rows[k]]

\* The bulk UPDATE of the target's open steps, and the instance itself.
RejectRows(rows, i) ==
  [k \in DOMAIN rows |-> IF k = i \/ rows[k].status \in Open
                         THEN [rows[k] EXCEPT !.status = "REJECTED"] ELSE rows[k]]

\* The verdict on the target is REJECTED, APPROVED when no next step was found, or
\* PENDING, which changes nothing.
ActCommit(w, verdict) ==
  LET r == txn[w] IN
  /\ \/ /\ r.op = "looked"
        /\ instances' = [instances EXCEPT ![r.target] = ApproveRows(@, r.index, r.next)]
        /\ verdict = IF r.next = 0 THEN "APPROVED" ELSE "PENDING"
     \/ /\ r.op = "act" /\ r.action = "REJECTED"
        /\ instances' = [instances EXCEPT ![r.target] = RejectRows(@, r.index)]
        /\ verdict = "REJECTED"
  /\ EndRequest(w)
  /\ UNCHANGED <<workflows, org>>

-----------------------------------------------------------------------------
(* Role assignments change while requests are open *)

GrantRole(x, r) ==
  /\ <<x, r>> \notin org.holds
  /\ org' = [org EXCEPT !.holds = @ \cup {<<x, r>>}]
  /\ UNCHANGED <<workflows, txn, instances>>

RevokeRole(x, r) ==
  /\ <<x, r>> \in org.holds
  /\ org' = [org EXCEPT !.holds = @ \ {<<x, r>>}]
  /\ UNCHANGED <<workflows, txn, instances>>

\* One configured and active workflow per target's module, made of a list an
\* administrator may send.
EngineInit(lists, charts) ==
  /\ workflows \in [WorkflowIds ->
                     {[module |-> m, active |-> TRUE, steps |-> Normalised(list, None)] :
                        m \in ModuleTypes, list \in lists}]
  /\ \A f, g \in WorkflowIds : workflows[f].module = workflows[g].module => f = g
  /\ txn = [w \in Workers |-> Idle]
  /\ org \in charts
  /\ instances = [t \in Targets |-> << >>]

-----------------------------------------------------------------------------
EngineTypeOK ==
  /\ workflows \in [WorkflowIds -> Workflow]
  /\ org \in Org
  /\ instances \in [Targets -> Seq(Instance)]
=============================================================================
