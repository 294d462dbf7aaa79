----------------------------- MODULE TaskContinuity -----------------------------
(* Who works on a task, and what becomes of it when they go on leave: rows of      *)
(* task_assignments, the risks an approved leave raises for them, and what the     *)
(* manager decides: to wait, to pause, to give the task away, to split it, or to   *)
(* delegate it until the owner is back.                                            *)
EXTENDS Integers, Sequences, FiniteSets, SequencesExt

CONSTANTS
  Employees, Inactive,   \* Inactive \subseteq Employees
  Tasks, Leaves,
  LeaveOf,               \* [Leaves -> [employee, from, to]]
  Windows,               \* of tasks
  WorkingDays,
  MaxRows,               \* bound: assignments
  Modes,                 \* sets of operations: "assign", "set", "decide"
  None

VARIABLES
  mode,
  task,          \* rows of tasks
  leaves,        \* status of each leave request
  rows,          \* task_assignments, in the order they were made
  risks,         \* task_risks
  delegations    \* task_delegations

vars == <<mode, task, leaves, rows, risks, delegations>>

TaskStatuses == {"NOT_STARTED", "IN_PROGRESS", "ON_HOLD", "COMPLETED", "CANCELLED", "REOPENED"}
RowStatuses == {"ASSIGNED", "DELEGATED", "COMPLETED", "CANCELLED"}

NoTask == [status |-> "NONE"]
Exists(t) == task[t] # NoTask
Overlap(a, b) == a.from <= b.to /\ b.from <= a.to
DaysOf(w) == w.from .. w.to

\* The assignments that were not cancelled.
Held(t) == {i \in DOMAIN rows : rows[i].task = t /\ rows[i].status # "CANCELLED"}
HeldBy(t, e) == {i \in Held(t) : rows[i].employee = e}
Row(t, e, w) == [task |-> t, employee |-> e, status |-> "ASSIGNED", from |-> w.from, to |-> w.to]

Risk(i, l) == [row |-> i, leave |-> l, status |-> "PENDING_MANAGER_ACTION"]
RiskFor(i, l) == {k \in DOMAIN risks : risks[k].row = i /\ risks[k].leave = l}

-----------------------------------------------------------------------------
(* Risks *)

Hit_anybody(l) ==
  {i \in DOMAIN rows :
     /\ rows[i].status # "CANCELLED" /\ task[rows[i].task].active
     /\ task[rows[i].task].status \in {"NOT_STARTED", "IN_PROGRESS", "ON_HOLD", "WAITING_REVIEW"}
     /\ Overlap(rows[i], LeaveOf[l])
     /\ RiskFor(i, l) = {}}

\* detect_and_create_task_risks: the rows the leave is in the way of; a reopened task is
\* not looked at, and one waiting for review does not exist.
Hit(l) ==
  {i \in DOMAIN rows :
     /\ rows[i].employee = LeaveOf[l].employee /\ rows[i].status # "CANCELLED"
     /\ task[rows[i].task].active
     /\ task[rows[i].task].status \in {"NOT_STARTED", "IN_PROGRESS", "ON_HOLD", "WAITING_REVIEW"}
     /\ Overlap(rows[i], LeaveOf[l])
     /\ RiskFor(i, l) = {}}

\* Several mechanisms approve the leave; a leave that is cancelled leaves its risks.
ApproveLeave(l) ==
  /\ leaves[l] = "PENDING"
  /\ leaves' = [leaves EXCEPT ![l] = "APPROVED"]
  /\ risks' = risks \o SetToSeq({Risk(i, l) : i \in Hit(l)})
  /\ UNCHANGED <<mode, task, rows, delegations>>

CancelLeave(l) ==
  /\ leaves[l] \in {"PENDING", "APPROVED"}
  /\ leaves' = [leaves EXCEPT ![l] = "CANCELLED"]
  /\ UNCHANGED <<mode, task, rows, risks, delegations>>

\* check_and_create_risk_for_assignment: for one of the approved leaves, of a working
\* day at least, whatever the status of the task.
InTheWay(row) ==
  {l \in Leaves : /\ leaves[l] = "APPROVED" /\ LeaveOf[l].employee = row.employee
                  /\ DaysOf(row) \cap DaysOf(LeaveOf[l]) \cap WorkingDays # {}}

\* A new row and what is in its way.
AddRow(base, row) ==
  /\ Len(base) < MaxRows
  /\ rows' = Append(base, row)
  /\ \/ InTheWay(row) = {} /\ UNCHANGED risks
     \/ \E l \in InTheWay(row) : risks' = Append(risks, Risk(Len(base) + 1, l))

-----------------------------------------------------------------------------
(* TaskService *)

\* The task is committed before its assignee is looked at.
CreateTask(t, w, e) ==
  /\ ~Exists(t)
  /\ task' = [task EXCEPT ![t] = [status |-> "NOT_STARTED", active |-> TRUE, parent |-> None,
                                  from |-> w.from, to |-> w.to]]
  /\ IF e \in Employees \ Inactive THEN AddRow(rows, Row(t, e, w)) ELSE UNCHANGED <<rows, risks>>
  /\ UNCHANGED <<mode, leaves, delegations>>

SetStatus(t, s) ==
  /\ "set" \in mode /\ Exists(t)
  /\ task' = [task EXCEPT ![t].status = s]
  /\ UNCHANGED <<mode, leaves, rows, risks, delegations>>

DeleteTask(t) ==
  /\ "set" \in mode /\ Exists(t) /\ task[t].active /\ task[t].status \in {"NOT_STARTED", "CANCELLED"}
  /\ task' = [task EXCEPT ![t].active = FALSE]
  /\ UNCHANGED <<mode, leaves, rows, risks, delegations>>

Cancelled(S) == [i \in DOMAIN rows |-> IF i \in S THEN [rows[i] EXCEPT !.status = "CANCELLED"] ELSE rows[i]]

UpdateAssignee_keepsOthers(t, e) ==
  /\ "assign" \in mode /\ Exists(t)
  /\ IF Held(t) = {} THEN e # None ELSE \E i \in Held(t) : rows[i].employee # e
  /\ IF e \in Employees \ Inactive
     THEN AddRow(rows, Row(t, e, task[t]))
     ELSE rows' = Cancelled(Held(t)) /\ UNCHANGED risks
  /\ UNCHANGED <<mode, task, leaves, delegations>>

\* The assignee of an update is compared with one of those there are; an inactive one is
\* refused after they are gone.
UpdateAssignee(t, e) ==
  /\ "assign" \in mode /\ Exists(t)
  /\ IF Held(t) = {} THEN e # None ELSE \E i \in Held(t) : rows[i].employee # e
  /\ IF e \in Employees \ Inactive
     THEN AddRow(Cancelled(Held(t)), Row(t, e, task[t]))
     ELSE rows' = Cancelled(Held(t)) /\ UNCHANGED risks
  /\ UNCHANGED <<mode, task, leaves, delegations>>

\* Leave is not looked at.
AssignEmployee(t, e) ==
  /\ "assign" \in mode /\ Exists(t) /\ task[t].active /\ e \notin Inactive /\ HeldBy(t, e) = {}
  /\ Len(rows) < MaxRows
  /\ rows' = Append(rows, Row(t, e, task[t]))
  /\ UNCHANGED <<mode, task, leaves, risks, delegations>>

RemoveAssignment(i) ==
  /\ "assign" \in mode /\ i \in DOMAIN rows
  /\ rows' = Cancelled({i})
  /\ UNCHANGED <<mode, task, leaves, risks, delegations>>

-----------------------------------------------------------------------------
(* What the manager decides *)

Resolved(k) == risks' = [risks EXCEPT ![k].status = "RESOLVED"]

Pending(k) == "decide" \in mode /\ k \in DOMAIN risks /\ risks[k].status = "PENDING_MANAGER_ACTION"

\* The row may have been cancelled, delegated or split since the risk was raised, and
\* nobody looks at who takes over.
TakesOver(k, t, e, w, status) ==
  /\ Len(rows) < MaxRows
  /\ rows' = Append([rows EXCEPT ![risks[k].row].status = status], Row(t, e, w))

Continue(k) ==
  /\ Pending(k) /\ Resolved(k)
  /\ UNCHANGED <<mode, task, leaves, rows, delegations>>

Pause(k) ==
  LET t == rows[risks[k].row].task IN
  /\ Pending(k) /\ Resolved(k)
  /\ task' = [task EXCEPT ![t].status = "ON_HOLD"]
  /\ UNCHANGED <<mode, leaves, rows, delegations>>

Reassign(k, e) ==
  LET row == rows[risks[k].row] IN
  /\ Pending(k) /\ Resolved(k)
  /\ TakesOver(k, row.task, e, row, "CANCELLED")
  /\ UNCHANGED <<mode, task, leaves, delegations>>

Split(k, e, child) ==
  LET t == rows[risks[k].row].task
      w == [from |-> LeaveOf[risks[k].leave].from, to |-> task[t].to] IN
  /\ Pending(k) /\ Resolved(k) /\ ~Exists(child)
  /\ task' = [task EXCEPT ![t].status = "ON_HOLD",
                ![child] = [status |-> "NOT_STARTED", active |-> TRUE, parent |-> t,
                            from |-> w.from, to |-> w.to]]
  /\ TakesOver(k, child, e, w, "CANCELLED")
  /\ UNCHANGED <<mode, leaves, delegations>>

Delegate(k, e) ==
  LET row == rows[risks[k].row] IN
  /\ Pending(k) /\ Resolved(k)
  /\ TakesOver(k, row.task, e, LeaveOf[risks[k].leave], "DELEGATED")
  /\ delegations' = Append(delegations, [task |-> row.task, owner |-> row.employee, delegate |-> e,
                                         status |-> "ACTIVE"])
  /\ UNCHANGED <<mode, task, leaves>>

\* Of several rows of the delegate, of which earlier ones may be finished, and of
\* several of the owner, one each. The owner's row is looked for before the change of
\* the delegate's is flushed, and written last: both may be one row.
First(S, status, R) ==
  IF S = {} THEN {R} ELSE {[R EXCEPT ![i].status = status] : i \in S}

OwnersRow_none(d, R) == {}

OwnersRow(d, R) ==
  {i \in DOMAIN R : R[i].task = d.task /\ R[i].employee = d.owner /\ R[i].status = "DELEGATED"}

ResumeDelegation(n) ==
  LET d == delegations[n] IN
  /\ n \in DOMAIN delegations /\ d.status = "ACTIVE"
  /\ delegations' = [delegations EXCEPT ![n].status = "COMPLETED"]
  /\ \E R \in First(HeldBy(d.task, d.delegate), "COMPLETED", rows) :
       rows' \in First(OwnersRow(d, rows), "ASSIGNED", R)
  /\ UNCHANGED <<mode, task, leaves, risks>>

\* To IN_PROGRESS if there is progress or time booked.
ResumeTask(t, s) ==
  /\ Exists(t) /\ task[t].status = "ON_HOLD" /\ s \in {"IN_PROGRESS", "NOT_STARTED"}
  /\ task' = [task EXCEPT ![t].status = s]
  /\ UNCHANGED <<mode, leaves, rows, risks, delegations>>

-----------------------------------------------------------------------------
Init ==
  /\ mode \in Modes
  /\ task = [t \in Tasks |-> NoTask]
  /\ leaves \in [Leaves -> {"PENDING", "CANCELLED"}]
  /\ rows = <<>> /\ risks = <<>> /\ delegations = <<>>

Decide(k) ==
  \/ Continue(k) \/ Pause(k)
  \/ \E e \in Employees :
       Reassign(k, e) \/ Delegate(k, e) \/ \E t \in Tasks : Split(k, e, t)

WorkOn(t) ==
  \/ \E e \in Employees \cup {None} :
       UpdateAssignee(t, e) \/ \E w \in Windows : CreateTask(t, w, e)
  \/ \E e \in Employees : AssignEmployee(t, e)
  \/ \E s \in TaskStatuses : SetStatus(t, s) \/ ResumeTask(t, s)
  \/ DeleteTask(t)

Next ==
  \/ \E t \in Tasks : WorkOn(t)
  \/ \E l \in Leaves : ApproveLeave(l) \/ CancelLeave(l)
  \/ \E i \in 1..MaxRows : RemoveAssignment(i) \/ ResumeDelegation(i)
  \/ \E k \in DOMAIN risks : Decide(k)

Spec == Init /\ [][Next]_vars

-----------------------------------------------------------------------------
\* The columns; a child has a parent.
ContinuityTypeOK ==
  /\ \A t \in Tasks : Exists(t) =>
       /\ task[t].status \in TaskStatuses /\ task[t].active \in BOOLEAN
       /\ task[t].parent # None => Exists(task[t].parent)
  /\ \A i \in DOMAIN rows : rows[i].status \in RowStatuses /\ Exists(rows[i].task)

\* A leave raises a risk for a row once, and only for a row of the employee it is of,
\* however often rows come and go and risks are looked for.
OneRiskEach ==
  \A k \in DOMAIN risks :
    /\ RiskFor(risks[k].row, risks[k].leave) = {k}
    /\ rows[risks[k].row].employee = LeaveOf[risks[k].leave].employee

\* Whatever managers decide about the risks of a task, several of them of one row, and
\* in whatever order delegations end: a task that had somebody still has somebody who
\* works on it, or was split into a task that has.
NobodyDropped ==
  "assign" \notin mode =>
    \A t \in Tasks : (\E i \in DOMAIN rows : rows[i].task = t) =>
      \/ \E i \in Held(t) : rows[i].status = "ASSIGNED"
      \/ \E c \in Tasks : Exists(c) /\ task[c].parent = t

\* Every delegated row waits for a delegation of its owner that can still end, so none is
\* left behind; several of one owner wait for as many.
DelegationsReturn ==
  \A t \in Tasks, e \in Employees :
    Cardinality({i \in HeldBy(t, e) : rows[i].status = "DELEGATED"})
      <= Cardinality({n \in DOMAIN delegations : /\ delegations[n].task = t /\ delegations[n].owner = e
                                                 /\ delegations[n].status = "ACTIVE"})

\* "Employee is already assigned to this task": until managers decide, nobody holds a
\* task twice, whichever of the three ways gave it to them.
HeldOnce ==
  "decide" \notin mode => \A t \in Tasks, e \in Employees : Cardinality(HeldBy(t, e)) <= 1

\* Tasks outlive the leave of those who work on them.
ContinuitySound == ContinuityTypeOK /\ OneRiskEach /\ NobodyDropped /\ DelegationsReturn /\ HeldOnce
=============================================================================
