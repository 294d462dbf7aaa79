# A TLA+ model of the cognitive-backend ERP

The repository is the backend of an ERP: FastAPI routers over SQLAlchemy services over one
PostgreSQL database (about 44 000 lines of Python under `src/app`), with Alembic migrations under
`src/migrations` and mostly mock-based tests under `src/tests`. This directory models the parts of it
whose correctness depends on the order of requests: who may be working on what, for how long, and who
has decided about it.

## 1. How the system runs

* Every endpoint is a synchronous function. FastAPI runs it in a thread pool, so any number of requests
  are in progress at the same time, in one process or several.
* A request owns one SQLAlchemy `Session` (`app/database/session.py`), created with `autoflush=False`.
  An attribute assigned in Python reaches the database only at the next explicit `flush()` or `commit()`;
  a `SELECT` issued in between does not see it. An `UPDATE` names only the columns whose value differs
  from the one the request loaded. PostgreSQL runs at READ COMMITTED, so each statement sees what was
  committed before it.
* Services commit themselves, usually once at the end of the handler; a handler that raises rolls back.
  A few operations are two transactions (clock-out, balance creation in `apply_leave`).
* The only explicit locks are `SELECT ... FOR UPDATE` on the running sessions (`start_session`) and on
  the leave balance (`apply_leave`, `approve_or_reject`), and the database's unique constraints. Two
  partial unique indexes meant as backstops were added by revision `d3e4f5a6b7c9` and dropped again by
  `b382bc5a8dd3`.
* Most tests replace the session by a `MagicMock`; the others use a `sessionmaker` with autoflush left on.
  Neither can see a stale read between assignment and flush, nor a race.

A request is therefore modelled as the few steps at which it exchanges data with the database: a *Read*
step (its queries, its checks, what it remembers) and a *Write* step (flush and commit), with a step in
between where the handler queries again or waits for a lock.

## 2. Inventory

State is in database tables unless stated. "Hard" names what a test would hardly reach. PROJECT.json
lists every component with its status, and under "hazards" the lines where these things bite.

| Component (code under `src/app`) | State | Operations | Interacts with | Hard | What makes it correct | Module |
|---|---|---|---|---|---|---|
| Work sessions, `services/work_session_service.py` | `task_work_sessions` | start, pause, resume, complete, cancel, close at clock-out | breaks, attendance, time entries, tasks, project metrics | check-then-insert, stale rows, one transaction over four tables | one running timer, no lost or doubled minutes, finished sessions frozen, completion booked | `WorkSession` |
| Breaks, `services/break_service.py` | `employee_breaks` | start_break, end_break, forced close | work sessions, attendance | resumes a session without Rule 1 | one open break; a break suspends and restores at most one timer | `WorkSession` |
| Attendance, `services/attendance_service.py` | `attendance`, missed clock-in/out requests, rules | clock in/out, auto-close, mark, correction requests | breaks, sessions, approvals, leave | clock-out in two commits; two mechanisms for one request | one row a day, out after in, a request decided once | `AttendanceRecords`; as sessions see it, `WorkSession` |
| Attendance rule cache, `services/productivity/policy_resolver.py` | a copy of the rule in each process | read, drop on change | attendance, productivity | a copy read while it is dropped | no copy older than its lifetime, nor than a change made here | `PolicyCache` |
| Approvals, `services/approval_service.py` | `approval_workflows`, steps, instances | create, set steps, activate, initialise a flow, act on an instance | leave, time entries, attendance corrections, org chart | two approvers at once, flow and direct decision at once | levels in order, every level decided before approval, a rejection is final | `ApproverResolution`, `ApprovalWorkflows`, `ApprovalEngine`, `ApprovalFlow`, `ApprovalDecision` |
| Leave, `services/leave_service.py` | `leave_requests`, `leave_balances`, `leave_types`, ON_LEAVE attendance | apply, cancel, direct decision; types and yearly balances | approvals, working days, attendance, continuity | recompute before flush, engine path without the balance check, balances made on the first look | never over-allocated, cancelled stays cancelled, what was used is not forgotten | `LeaveApproval`, `LeaveBalances` |
| Time entries, `services/time_entry_service.py` | `time_entries`, `tasks.actual_hours` | create, batch, update, delete, submit, approve, reject, week operations | approvals, work sessions, project metrics | recompute before flush; resubmission with instances of an earlier round | hours count what is approved, one round open, an orderly life | `TimeSheet`; booking of sessions in `WorkSession` |
| Project metrics, `services/project_metrics_service.py`, `parent_project_metrics_service.py` | status, progress, hours and dates of `projects` and `parent_projects` | recalculate, asked for by every operation on a task | tasks, time entries, sessions | derived state may lag; statuses set by hand | a part shows what its tasks say, a project what its parts say | `ProjectTasks` |
| Tasks and rework, `services/task_service.py`, `rework_service.py` | `tasks`, assignments, `task_rework_history` | create, update, assign, remove, reopen | sessions, metrics, planning | one transaction over three tables | one open cycle, cycles numbered, estimates kept | `ProjectTasks`; assignments in `TaskContinuity` |
| Task continuity, `services/task_continuity_service.py` | `task_risks`, `task_delegations`, assignments | raise risks, five decisions, two ways back | leave, tasks | decisions about several risks of one row | a risk once, nobody's task dropped, delegations return | `TaskContinuity` |
| Off-boarding, `services/ownership_transfer_service.py` | everything an employee owns | impact page, transfers, execute | org chart, teams, projects, tasks, approvals | a page that is out of date when it is sent; reassignment without flush | what was listed moves, and nothing else | `Handover`, `OrgChart`, `Placement` |
| Employees, `services/employee_service.py` | `employees` and their histories | create, edit, status transitions, delete | all of the above | several ways out of the company | leavers keep neither reports nor teams nor departments | `OrgChart`, `Placement`, `Roles` |
| Org chart, `services/organization_hierarchy_service.py`, `core/hierarchy_cache.py` | `reporting_manager_id`, a cache in each process | change of manager, walks up and down | approvals, permissions | checked, written and invalidated in three steps | the chart stays a forest, the cache agrees | `OrgChart`; the approver's walk in `ApproverResolution` |
| Teams and departments, `services/team_service.py`, `department_service.py` | `team_members`, heads, flags | add, update, remove, deactivate, hand over | employees, approvals | the same row kept for those who come back | one primary team, one lead, nothing led by a leaver | `Placement` |
| Projects and members, `services/project_service.py` | `projects`, `project_members` | create, edit, status, delete, members, lists | clients, tasks, scheduling | requests that overlap write columns over each other | windows that fit, reasons given, editors see what they edit | `ProjectRecords`; roll-up in `ProjectTasks` |
| Scheduling, `services/scheduling_service.py` | none (pure) | capacity of a range, calculated end | working days, projects | rounding, settings against eight hours | the end chosen leaves room for the hours | `ProjectRecords` |
| Planning, `services/planning_service.py` | weekly schedules, dependencies, planned dates | plan a week, add a dependency, schedule a project, pages of capacity and load | working days, tasks | a check before the insert; weeks at the edge of a range | planned once, dated as a whole, shares add up | `Planning` |
| Holidays and reviews, `services/holiday_service.py`, `calendar_service.py`, `pending_schedule_review_service.py` | `holidays`, `pending_schedule_reviews`, dates of projects and tasks | create, edit, toggle, delete, apply, reject | working days, tasks, metrics | a review applied after its holiday went; shifts that add up | the same working days before and after, decided reviews stay | `CalendarSchedule` |
| Working days, `services/working_day_engine.py`, `routers/calendar_settings.py` | calendar settings | count, end date, next and previous day, change of settings | everything with dates | loops at boundaries | count and end date agree | `CalendarSchedule` |
| Authentication, `routers/auth.py`, `core/security.py`, `dependencies.py` | token versions, attempts, `revoked_tokens` | sign-in, renewal, sign-out, change of password | employees | two renewals of one token; a revocation cleaned up too early | a revoked token stays dead, one successor each, few guesses | `SignIn` |
| Authorisation, `services/auth_engine_service.py`, `role_service.py`, `routers/role.py` | roles, scopes on features, who holds what | edit, move, clone, assign; three questions | everything | an update that commits role by role | levels follow parents, the menu is honest, nobody grants above itself | `Roles` |
| Biometric sync, `services/biometric/*` | raw and normalized logs, mappings, history, a lock in Redis | run, push, normalize, map, clean up | attendance | overlapping runs, death in a run, lost lock | each punch counted once, none before the checkpoint missing | `BiometricSync` |
| Tickets, `services/ticket_service.py`, `routers/ticket.py` | tickets, history, settings of the help desk | raise, move on, comment; settings | employees | commits one by one, numbers chosen before the insert | numbers without a gap, a history that tells the status | `Tickets` |
| Master data: clients, scopes of work, task titles, designations | their tables | create, edit, put away | projects, employees | check-then-insert, columns written over each other | no two rows of a name, nothing put away while it is used | `MasterData` |
| Productivity pages, `services/productivity/*` | explanations of idle time | numbers of a day and of a period, timeline | sessions, breaks, attendance, task pauses | intervals that overlap, two calendars | every tick once, gaps are the idle time, report and page agree | `Productivity` |
| Start-up, `main.py`, `database/seed.py`, `core/seeder.py`, revision `ee5f8c2225db` | seeded rows, migrated permissions | start, seed, migrate | roles, settings | a start that dies between two commits and is tried again | what is missing is repaired, no choice is taken back | `Startup` |
| Biometric devices, `services/biometric/connectors` | `bm_devices` | record keeping, device I/O | biometric sync | external devices | - | not modelled |
| Dashboards and analytics | none (read-only) | queries | all tables | no state change | - | not modelled |
| Infrastructure: e-mail, encryption, Redis, logging, schemas, other migrations | - | I/O, validation | - | external services | - | not modelled |

Components talk to each other in three ways: by calls within one request and its transaction
(completing a session books a time entry; the final approval of a leave request marks attendance), by
rows one request leaves for a later one (a break remembers, through `pause_reason`, which session it
suspended), and, across two transactions of one request, through nothing but the database (the router's
clock-out). Besides the requests there are only the runs of the biometric scheduler and what happens when
the server starts; the automatic clock-out and the return of delegated work are requests too.

## 3. Modules

```
WorkSession <------------- MCWorkSession
                            ^ MCSessions (with CalendarSchedule, SignIn)
                            ^ MCPages    (with Productivity, PolicyCache)
ApproverResolution
  ^ ApprovalWorkflows <--- MCApprovalWorkflows
      |                     ^ MCAdministration (with OrgChart, Placement, Roles, Startup)
      ^ ApprovalEngine
          ^ ApprovalFlow <-- MCApproval            (implements ApprovalDecision)
          |                   ^ MCOffice (with ProjectTasks, TaskContinuity, ProjectRecords, Planning)
          |                   ^ MCRaces  (with OrgChart, Handover, Tickets, MasterData)
          ^ LeaveApproval <- MCLeaveApproval
          |                   ^ MCRequests (with TimeSheet, AttendanceRecords, LeaveBalances)
          |                   ^ MCOverlaps (with BiometricSync)
          ^ TimeSheet
          ^ AttendanceRecords
```

`A ^ B`: B EXTENDS A; "with": INSTANCE. Proofs are in modules of their own that extend what they are
about: `WorkSessionProofs`, `ApprovalEngineProofs`, `ApprovalFlowProofs`, `LeaveApprovalProofs`,
`OverlapsProofs`, `OfficeProofs`, `RacesProofs`, `AdministrationProofs`.

Three conventions run through all modules.

* *Requests.* `Workers` are the threads that can be serving a request; `txn[w]` or `job[w]` is what the
  request of worker `w` holds in memory, and `Idle` a worker without one. *Abort*, *Crash* and *Die* end
  a request without a commit: a dying process, a lost connection or an exception. Where requests that
  overlap make no difference, or are the subject of another module, a request is one step, and the
  module's header says so.
* *Parts and modes.* Parts of the system that share no state in the model are checked in one run: its MC
  module instantiates each and has a variable `part` that is chosen at the start and never changes; only
  the chosen part moves. `mode` is the same within a part: which operations are used together, how many
  rows there are, how many requests overlap. A property that speaks of a mode (`mode \subseteq ... =>`)
  holds as long as only those operations are used. `Environment` enables what surrounds a component.
* *Variants.* An operator with a suffix after an underscore (`PauseRead_unchecked`) is what a plausible
  slip would make of the operator without it. No specification uses it; it is there so that each property
  can be seen to fail when the code is wrong in that way. PROJECT.json names, for each property, one or
  more of them.

### `WorkSession`: timers, breaks, clock-in and clock-out

| State | Code |
|---|---|
| `sessions` | `task_work_sessions`: owner, task, status, `start_time`, `end_time`, `total_minutes`; `pause_reason` is either the break's text or anything else, because `end_break` looks for that text |
| `breaks` | open rows of `employee_breaks`. No handler modelled here reads an ended break again, so its slot is reused |
| `attendance` | clock-in and clock-out of each employee and day |
| `entries` | `time_entries`, with the unique key (employee, task, day) and the 24-hour check |
| `taskStatus` | `tasks.status`, as far as sessions set it |
| `now`, `worked` | the clock in ticks of a minute, and how long each session has really been running (history only) |

| Code | Actions |
|---|---|
| `start_session` | `StartRead` (Rule 10, query of the running rows), `StartLock` (FOR UPDATE granted, clock-in and assignment checked), `StartWrite` (Rule 2 pauses, insert, commit) |
| `pause_session`, `resume_session`, `cancel_session`, `complete_session` | a Read and a Write each; `CompleteWrite` includes `_generate_time_entry_from_session` and rolls everything back when the entry violates a constraint |
| `start_break`, `end_break` | `BreakStartRead/Write`, `BreakEndRead/Write` |
| `clock_in`; `clock_out` with `_close_open_breaks` and then the router's `end_current_session_on_clock_out` | `ClockIn`; `ClockOutRead/Write` (first transaction), `CloseRead/Write` (second) |
| `auto_close_missed_clockouts` | `AutoClose` |
| `TimeEntryService.create`, `delete` | `LogTime`, `DeleteEntry` |

`Merge` is what SQLAlchemy's flush does to a row that another request changed since it was loaded:
only columns that differ from the loaded value are in the UPDATE. `Unlocked` is the wait for row locks.
Start looks for attendance on the UTC date while clock-in files it under the IST date: both conversions
are there (`UtcDate`, `BusinessDate`). The schema is the one migrations arrive at: revision `b382bc5a8dd3`
dropped the two partial unique indexes on running sessions and open breaks, so nothing refuses a second
one but the code. `MCSessions` keeps a history `since` beside the module: the timers and breaks that began
after a request that starts, resumes or breaks had looked for them. `OnlyOverlapDoubles` is about it.

Abstracted: minutes are whole, project metrics, `tasks.actual_hours` and the audit log are left out,
and of a time entry only what the unique key, the check and the booking need.

### `ApproverResolution`, `ApprovalWorkflows`: who is asked, and what is configured

`ApproverResolution` is pure: `Candidates(org, e, scope, role)` is the set of employees
`resolve_approver_for_step` may return (its queries have no ORDER BY, so any match may come first), and
`InPool` says who may act on an instance without a named approver. `Chain` follows
`reporting_manager_id` with the code's guard against cycles. `WithinReach` defines the managers that can
be reached as a least set, independently of the walk.

`ApprovalWorkflows` is the configuration: `CreateWorkflow`, `StepsRead/Write` (`set_workflow_steps`,
whose renumbering is `Normalised`), `ActivateRead/Write` (`activate_workflow`: a bulk UPDATE and then an
assignment that is flushed only if it changes the loaded value). In `MCApprovalWorkflows` activations overlap
one another, and an edit of steps overlaps nothing.

### `ApprovalEngine`, `ApprovalFlow`, `ApprovalDecision`: deciding

`StartFlow` is `initialize_approval_flow`: it picks an active workflow, resolves each step, skips steps
that resolve to the requester or to nobody, makes the first remaining one PENDING, and approves the
target when none remains. `submit_approval_action` meets the database three times: `ActRead` loads the
instance and checks status and authority, `ActLook` (approvals only) looks for the next DRAFT step, and
`ActCommit` commits, the rejection with its bulk UPDATE of the open steps. There is no lock and no
second check between them. `GrantRole` and `RevokeRole` change who holds a role meanwhile.

`ApprovalFlow` closes the engine with targets that just take the verdict. `ApprovalDecision` is the
abstract specification: a target has a number of open levels, an approval takes one away, the last one
approves, a rejection takes them all. With requests that do not overlap the engine implements it, under
the mapping `left[t] = Cardinality(OpenAt(t))`.

### `LeaveApproval`: leave on top of the engine

`ApplyRead/Lock/Write` are `apply_leave` (the balance row is locked after `used` was loaded, and the
session keeps the loaded value), `CancelRead/Write` are `cancel_leave`, `DecideRead/Lock/Write` are
`approve_or_reject`, and `ActWrite` is the engine's `ActCommit` with `_update_target_status`. `Grant`
marks the ON_LEAVE days and recomputes `used` as a SUM that is sent before the new status is flushed, so
it leaves out the leave it is made for. `CancelWrite` recomputes it too, but there
`_delete_on_leave_attendance` has flushed the status: the cancelled leave is not counted. Its SUM and its
commit are one step.
`DecidedBy[t]` says which of the two mechanisms is used on a request. The code does not keep them apart
for leave, as it does for attendance corrections (`_guard_no_active_approval_flow`): the runs in which
each request has one mechanism state what holds under that discipline.

Abstracted: one calendar year, half days as the unit, working days as a set, a missing balance row as
one with nothing used. Left out: the application window and the validation of types.

### On the approval engine: `TimeSheet`, `AttendanceRecords`

`TimeSheet` has `entries` (`time_entries`) and `actualHours` (`tasks.actual_hours`). `CreateBatch`,
`Update`, `Delete`, `Submit`, `SubmitWeek`, `Approve`, `Reject`, `DecideWeek` are the methods of
`TimeEntryService`; `ActWrite` is the engine's commit with `_update_target_status`. The recomputation of
hours exists twice: `RecomputeFlushed` sees the change it follows, `RecomputeUnflushed` is sent before
the flush and does not. A rejected entry is submitted again with new instances beside the old ones
(`OneRoundOpen`).

`AttendanceRecords` has one employee's `rows` by date and its `corrections` (missed clock-in and
clock-out requests). `ClockIn`, `ClockOut`, `AutoClose`, `Mark`, `GrantLeave`, `CancelLeave` write rows,
`SubmitCorrection` starts a flow and `ActWrite` finishes it (`Corrected`, `Decided`: whether the approval
can still be applied, and what it writes). `WithHours` and `WithHalfDay` are what every path does to the
hours and the status. Late marks and overtime are left out.

### `LeaveBalances`

`types` (`leave_types`), `balances` by year and type, `pending` (types with a request to decide). A request
reads (`Request`), and commits (`Write`): `GetBalance` makes a year's first balances,
`Initialize`/`Initialised` makes and refreshes them with `Prorated` and `Carry`, `DeleteType` puts a
type away. `CreateType`, `UpdateType`, `Apply` and `Decide` are what changes in between. The arithmetic
is in half days, with Python's rounding.

### Around people: `OrgChart`, `Placement`, `Handover`

`OrgChart` has `manager`, `account`, and the cache of the process. A change of manager is `CheckChange`
(the recursive query of `detect_cycle_cte`, `Above`), `WriteChange`, and `EndChange`, which invalidates
the cache; `ReadChart` and `BuildCache` fill it, `Expire` is its lifetime. `Create`, `ChangeStatus`,
`OffboardConfirm`, `Delete`, `TransferReports` and `ExecuteOffboard` are the ways an employee comes,
changes and goes. `AncestorsOf`, `DescendantIds` and `CommonManager` are the walks over the cached maps,
with the code's guards against rings.

`Placement` has `rows` (`team_members`: in the team or not, role, primary flag; a row stays when its
employee leaves and comes back with it), `dept`, `head`, and what is `closed`. `AddMember`,
`UpdateMember`, `RemoveMember`, `DeactivateTeam` are the team pages, `UpdateTeam` and `UpdateDepartment`
the employee form, `UpdateHead` and `DeleteDepartment` the department pages, `TransferTeams`,
`TransferDepartments` and `ExecuteOffboard` the off-boarding. Which promises hold depends on which of
these are used together; `mode` says so.

`Handover` has what an employee owns (projects, tasks, memberships, a leave request, an entry), the page
`Impact`, the request `DrawUp` makes of it, and `ExecuteOffboard`, which comes later: meanwhile
`HandTask`, `CloseTask` and `ChangeManager` go on. The bulk reassignment sees the table as it was before
the individual ones were flushed (`Successors`).

### Around tasks: `ProjectTasks`, `TaskContinuity`

`ProjectTasks` has one project, its `parts` (rows of `projects`), `tasks` and rework `cycles`. Every
operation on a task ends in `Recalculate` of its part (`OfTasks`) and of the project (`OfParts`), as far
as the code asks for it: `CreateTask`, `UpdateTask`, `DeleteTask`, `StartSession`, `OpenRework`,
`CloseRework`, `CreatePart`, `DeletePart`, `UpdateStatus`, the pages of the project, and the backfill
`RecalculateAll`. `mode.extra` names the operations that leave a roll-up behind.

`TaskContinuity` has `rows` (`task_assignments`), `risks` and `delegations`. `ApproveLeave` raises
risks for the assignments it hits (`Hit`), `AddRow` does when an assignment comes later.
`Continue`, `Pause`, `Reassign`, `Split` and `Delegate` are the branches of `resolve_task_risk`,
`ResumeDelegation` and `ResumeTask` the ways back, `CreateTask`, `UpdateAssignee`, `AssignEmployee`,
`RemoveAssignment`, `SetStatus`, `DeleteTask` and `CancelLeave` what else happens to a task.

### Projects and their plans: `ProjectRecords`, `Planning`, `CalendarSchedule`

`ProjectRecords` has `projects`, `members`, and what they depend on. A request reads everything it looks
at into `job[w].view` (`Read`), checks (`CreateRefused`, `UpdateRefused`, `AddRefused`, ...), and its
commit writes the columns that differ (`Merge`) over the rows as they are by then. `Visible` is the
condition of the list queries by level of access, `Completion` the progress of a team, `EndDate` and
`WorkingTime` are `scheduling_service.py`.

`Planning` has weekly `plans`, `waits` (dependencies) and `dates`. `CreateSchedule`, `CreateDependency`
and their updates and deletions are the pages, `ScheduleProject` dates the tasks of a project; `Weeks`,
`Available`, `Taken`, `LoadedUntil` and `LoadStatus` are what the two pages show, in the code's order of
precedence.

`CalendarSchedule` is one request at a time over the days of a month. `CountWorkingDays` and
`CalculateEndDate` are the loops of `working_day_engine.py`; `CreateHoliday`, `UpdateHoliday`,
`ToggleActive` and `DeleteHoliday` shift plans through `TriggerHolidayRecalculation`; `CreateReviews`,
`ApplyReview` and `RejectReview` are the reviews of an emergency; `UpdateSettings` changes weekends and
weekly rules with their clean-up. Loops end with the month instead of after a number of iterations.

### Access: `SignIn`, `Roles`

`SignIn` is one account. `pairs` are the pairs of tokens issued, `revoked` the table of revoked ones.
`LoginRead`/`WrongCommit`/`LoginCommit`, `RefreshRead`/`RefreshCommit`, `LogoutRead`/`LogoutCommit` and
`ChangeRead`/`ChangeCommit`/`ChangeRespond` are the four requests of `routers/auth.py`, with what each
remembers between reading and committing; `Live` is the check of every request. `SetPassword` and
`SetActive` are the administrator's, `Restart` ends the process and cleans expired rows up. `changes` in
the account and in the pairs is history: how often the password had been changed by then.

`Roles` has `role`, `holds`, `scope` (the matrix of features) with its `audit` trail. `CreateRole`,
`UpdateRole`, `MoveRole` and `DeleteRole` keep the hierarchy, `AssignRoles` is the update of an employee
that commits role by role, `SetFeaturePermissions`, `ClonePermissions` and `SetRolePermissions` (the
older editor) write the matrix. `HasPermission`, `ResolveScope`, `AccessFilter`, `CanAccessRecord` and
`MenuScope` are the questions asked of it.

### The rest: `BiometricSync`, `Tickets`, `MasterData`, `Productivity`, `PolicyCache`, `Startup`

`BiometricSync` is one device. A run is `Start` (lock, history row, range from the checkpoint), `Fetch`,
`Save`, `Look` and `Normalize`, `Finish` or `Fail`; `Push` is the device's own delivery, `Activate`,
`Deactivate` and `Remap` change whom a user is mapped to, `Die` and `Expire` take a process and the lock
away.

`Tickets` has the settings and `tickets` with their `history`. `RaiseTicket` chooses the number and
`InsertTicket` stores it unless another took it; `UpdateTicketStatus`, `WriteStatus` and `AddHistory` are
the commits of a status change one by one; `AddComment`; and the settings of `routers/ticket.py`.

`MasterData` has clients, scopes, titles and designations, with requests that read, check and write
column by column as in `ProjectRecords`. `Productivity` keeps, of the tables of `WorkSession`, the columns
its pages read, and computes `Raw`, `Compiled`, `ReportRaw`, `PeriodKpi` and `Gaps` as the services do,
to be compared with the numbers tick by tick. `PolicyCache` has the copy of the rule in each process:
`Check` without the lock, `Acquire` and `Store` under it, `Take` after it; `Update` commits and `Clear`
drops the copy. `Startup` is the sequence of `on_startup`: `Migrate`, then one action for each commit of
the seeders; `Crash` may come between any two, and administrators change things while the server is up.

## 4. Runs

| Run | Question | Instance | States |
|---|---|---|---|
| `ws_sequential` | Do the rules of timers, breaks and booking hold for requests that do not overlap? | 1 worker, 1 employee, 2 tasks, 2 sessions, 1 break, 2 moments of 2-tick days with IST one tick ahead, hand-made entries, auto-close | 1 843 195 |
| `ws_races` | What survives overlapping requests on sessions, and what alone makes a second timer or break? Do plans follow the calendar? Are tokens worth what they should be? | sessions: 2 workers, 2 tasks, 2 sessions, 2 breaks, aborts, auto-close; calendar: 2 holidays, 2 projects, 8 days of 3-day weeks; signing: 5 modes of up to 2 workers, 3 pairs, 4 ticks | 939 810 |
| `ws_liveness` | Does every request end, and does clock-out close what is open? Do the pages count right? | sessions: 2 workers, no breaks, fairness; pages: 8 modes of 2 sessions or breaks over 4 ticks; cache: 2 processes, 2 threads, 1 change | 154 494 |
| `ws_break_doubles` | "Rule 1": one running session? Violated | 1 worker | - |
| `approval_sequential` | Levels in order, complete approvals, final rejections, refinement; tasks, projects, planning | approvals: 1 worker, 2 targets, 5 charts, 4 step lists, aborts, revoked roles; continuity: 3 employees, 3 leaves, 2 tasks, 3 rows; projects: 2 parts, 2 tasks, 7 modes; records: 2 projects, 10 modes, up to 2 requests at once; planning: 3 weeks, 2 tasks | 458 061 |
| `approval_races` | Can a flow hang? Does the cache catch up, an off-boarding move what was listed, a history tell the status? | approvals: 2 workers, 3 levels, aborts, granted roles; chart: 2 employees, concurrent changes, fairness; off-boarding: 3 employees; help desk: 9 modes; lists: 11 modes, up to 3 rows | 562 410 |
| `approval_double` | "No more steps left! Overall request is approved": violated by two overlapping approvals | 2 workers | - |
| `workflow_alone` | Is what is active well formed; is the manager walk right? Chart, teams, roles, start-up | 2 workers whose activations overlap, 3 workflows, 2 module types; every chart of 4 employees; 3 employees reporting; 2 employees, 2 teams, 1 department; 3 roles, 2 features; 2 roles, 4 features at start-up | 347 070 |
| `workflow_reactivation` | "Activate this workflow": violated by activating the active one | 1 worker | - |
| `leave_sequential` | Do attendance, hours, rows and the balance shown follow the decisions? Do balances follow the types? | leave: 1 worker, 3 requests, 2 types, whole and half days, days 1-4 with one off, aborts, cancellations, passing days; sheet: 2 entries, 2 tasks, 3 instances; attendance: 2 corrections, 2 dates; balances: 2 types, 2 years, up to 2 requests at once | 553 986 |
| `leave_races` | Is too much, or the same day twice, ever approved? Does every punch arrive once? | leave: 2 workers, 3 requests, 2 types, half days, aborts, cancellations; sync: 2 workers, 2 punches, 3 runs, 5 modes | 592 358 |
| `leave_used` | "approval decrements the balance": violated | 1 worker | - |

**Several parts in one run.** The parts of an MC module share no variable and no constant that
matters; each is explored alone, from all its initial states, while the others rest in one of theirs. The
run explores the sum of the parts and not their product, and its result says of each part what a run of its
own would.

**Several conjuncts in one property.** Most components state their promises as named conjuncts and one
conjunction of them: `DecisionsSound`, `LeaveSound`, `SheetSound`, `RecordsSound`, `ContinuitySound`,
`ProjectsSound`, `ChartSound`, `PlacementSound`, `RolesSound`, `StartSound`, `TicketsSound`, `ChoicesSound`,
`HandedOver`, `ReportingSound`, `ScheduleSound`, `SignInSound`, `PagesSound`, `SyncSound`, `WorkBooked`,
`SessionsInPlace`. The modules define the conjuncts with a sentence each; a counterexample of TLC shows
the state, and evaluating the conjuncts there tells which one it is. PROJECT.json has a slip of the code for
nearly every conjunct.

**Why the bounds suffice.** The races are between two requests on shared rows: every read-write conflict of
the code involves one row, or one predicate, and two transactions, so two workers show each of them; a
third adds permutations. Two sessions and two tasks give start its auto-pause, break-end its wrong
restart and clock-out more than one row. Two breaks are what two overlapping `start_break` leave open. Three levels
give the approval race a level that is skipped over, two targets of one requester show that a rejection
cancels only its own steps. Three leave requests with an allowance of two days make over-allocation
possible only by two approvals that each fit alone. Three employees make a ring with somebody above it, two
a ring that a stale cache still shows. Two rows of a list are what a check for a name compares, three
give a gap in the numbering. Three pairs of tokens give a renewal of a renewal and a second try with the
first token. Weeks of three days have a first, a middle and a last day, and eight days two of each.
`MaxMinutes` bounds how often a session can be resumed, and `MaxTime` the clock; a pause-resume-pause cycle
and a day boundary lie within them. Where the theorems of section 5 cover a property, these bounds do not
matter.

**Deadlock** is not checked where rows, time or targets run out: the system of the instance then really
stops. `workflow_alone` never stops and is checked for deadlock. `Symmetric`, `TaskSymmetry`
and `OthersSymmetric` permute workers, tasks and targets that no constant tells apart; the runs with liveness
properties use none.

**Fairness.** `ws_liveness` has weak fairness of `Advance(w)` for each worker: a thread of the pool that has
taken a request is scheduled until the request ends, and PostgreSQL grants a row lock once its holder
commits. `approval_races` has weak fairness of `OrgChart`'s `Expire` and `BuildCache`: time passes, so a
copy of the chart gets older than its lifetime, and a request that has read the chart goes on to build the
cache. Nobody is obliged to send a request, and no other action is fair.

## 5. Proofs

All theorems hold for every value of the constants that satisfies the named assumptions, whatever the
number of workers, rows, employees and levels. `tlapm` checks them to the last leaf. "One at a time" in the
table is a hypothesis of the theorem, `OneAtATime` or `OneRequest`: there is one worker. Each property is
also checked in a run whose instance satisfies the hypotheses, so none of them is empty, but for
`ActiveWellFormed`, whose run asks more: its activations overlap. Where a property is false without the
hypothesis, section 6 says how.

| Theorem | Property | Hypothesis | Argument |
|---|---|---|---|
| `WorkSessionProofs!TypeCorrect` | `TypeOK` | - | `TypeInv` adds that existing rows have an owner and a task and started in the past, and that a request's snapshot is no newer than the clock: a duration is then a natural number and a merged row well typed |
| `EndTimeCorrect` | `StopTimeMatchesStatus` | - | status and end time always differ from the loaded ones, so each flush writes both: `Merge` cannot mix them |
| `LocksProtect` | `LockedRowsCurrent` | - | `LockInv` adds that two requests never hold the same row; every writer waits for the locks of the rows it writes |
| `OnlyOverlapDoublesCorrect` | `OnlyOverlapDoubles` | - | `BehindInv`: a timer that runs, or a break that is open, and that a request which begins something has not loaded, began after it looked and is in `since`; what it has loaded it pauses, or it is refused |
| `HistoryKeptCorrect`, `OnlyBreakEndDoublesCorrect` | `HistoryKept`, `OnlyBreakEndDoubles` | one at a time | `SeenInv`: what the request has loaded is what is stored, so its flush changes what it meant to change |
| `WorkBookedCorrect` | `WorkBooked` | one at a time, not "slow" | `BookedOnce`, and `Covered`: minutes and the running stretch together are no less than the ticks really run |
| `SessionsInPlaceCorrect` | `SessionsInPlace` | one at a time, no "abort" | `Home`: who has clocked out has nothing open, unless it is a clock-out between its two transactions; `OneOpenPerTask`, `StartedTaskLeftBacklog` |
| `SignInSoundCorrect` | `SignInSound` | `SignAssumption` | `SignInv`: an exchanged token is revoked, or has expired and nobody is renewing it (`Spent`); tokens and sign-ins of the present version of the password belong to the last change (`Recent`); the counter is no less than the wrong guesses in the time of any lock (`Limits`) |
| `ApprovalEngineProofs!ConfigTypeCorrect` | `ConfigTypeOK` | - | `Normalised` numbers from one, by cardinality of the steps before |
| `OneActiveCorrect` | `OneActivePerModule` | - | the bulk UPDATE and the row's own assignment commit together, so at most the activated workflow stays active in its type, also when activations overlap |
| `ActiveWellFormedCorrect` | `ActiveWellFormed` | one at a time | `ActiveInv`: the steps an activation has checked are still those stored |
| `ApprovalFlowProofs!FlowTypeCorrect` | `TypeOK` of `ApprovalFlow` | - | configured steps are finite, so their orders and the rows made of them are sequences |
| `NeverStuckCorrect` | `NeverStuck` | - | `StuckInv` adds `Remembered`: the instance a request has loaded never becomes DRAFT again, so the next step it finds is another one and remains to be asked |
| `LevelsInOrderCorrect`, `ApprovedCompleteCorrect`, `RejectionFinalCorrect` | `LevelsInOrder`, `ApprovedComplete` (parts of `DecisionsSound`), `RejectionFinal` | one at a time | `OrderInv`: at most one row is PENDING, all before it are taken, all after it DRAFT, and the acting request has seen that row |
| `EngineDecidesOnce` | `DecidedOnce`, the refinement of `ApprovalDecision` | one at a time | initial states map to initial states and every step to a step or a stutter, with `left[t] = Cardinality(OpenAt(t))`; `OrderInv` gives the guards of the abstract step |
| `NoSelfApprovalCorrect`, `DecisionsSoundCorrect` | `NoSelfApproval`, `DecisionsSound` | requesters employed and in a department (`RequestersPlaced`); the second also one at a time | `OwnInv`: the requester has no authority on any row that is not skipped, and no request in memory is the requester's own |
| `LeaveApprovalProofs!LeaveTypeCorrect` | `TypeOK` of `LeaveApproval` | - | `LeaveInv` |
| `AdmittedOnceCorrect` | `AdmittedOnce` | leave decided directly (`DirectOnly`) | `HolderInv`: one request holds the balance row of an employee and type; `AdmitInv`: what it has checked under the lock is still clear |
| `NeverOverAllocatedCorrect` | `NeverOverAllocated` | `DirectOnly`, and no workflow approves by itself (`AllWait`) | `RoomInv`: what is approved, and what a decision under the lock adds, fit the allowance; sums over sets are the number of dots under their bars |
| `OnlyPendingDecidedCorrect`, `LeaveSoundCorrect` | `OnlyPendingDecided`, `LeaveSound` | one at a time, one way to decide each request (`OneMechanism`) | `SoleInv`: a request that is not pending has no level open; `DaysInv`: live requests of one employee are apart in days or are the two halves of one, so a cancellation removes its own marks or that of the other half (`LostToOtherHalf`) |
| `UsedLagsOneCorrect` | `UsedLagsOne` | one at a time, `OneMechanism` | `LagInv`: an approval writes the sum of the leave approved before it, a cancellation the sum of what is left; sums are sizes of sets of dots, as for `NeverOverAllocated` |
| `OverlapsProofs!SyncSoundCorrect` | `SyncSound` | - | `SyncInv`: the lock is held by whoever runs, checkpoints are grounded in what was saved, what nobody is busy with is settled |
| `OfficeProofs!ContinuitySoundCorrect` | `ContinuitySound` | - | `ContinuityInv`: risks apart, a pairing (an injection) of delegated rows with active delegations, and somebody on each task that is no split one |
| `RacesProofs!HandedOverCorrect` | `HandedOver` | - | `HandoverInv`: a request drawn up names only people who are still there or is refused |
| `TicketsSoundCorrect` | `TicketsSound` | `DeskAssumption` | `DeskInv`: a number is free when it is stored, what a ticket refers to stays; `OpenThere`; `StoryInv`: rows written and rows still owed by the requests on a ticket account together for status, comments and closings |
| `AdministrationProofs!NearestManagerCorrect`, `NearestManagerFoundCorrect` | `NearestManagerFound` | finitely many employees, `None` is none, `leadRole` is a role | the walk meets each manager once before it stops; what is within reach is the least set closed under "manager of" |
| `ChartSoundCorrect` | `ChartSound` | `ChartAssumption` | `ChartInv`: no set of employees is closed under "manager of" (`NoRings`), the change under way is still what the query checked, readings of the chart and the cache are current or will be dropped |
| `PlacementSoundCorrect` | `PlacementSound` | `PlaceAssumption` | `PlaceInv`: one conjunct for each set of operations that is used together |
| `StartSoundCorrect` | `StartSound` | `StartAssumption` | `StartInv`: each stage of a start leaves behind what the later ones rely on; `Done(S)`: nothing left to do for what has been passed |
| `RolesSoundCorrect` | `RolesSound` | `AccessAssumption` | `AccessInv`: what is below a role is the least set closed under "child of", stands lower and moves by the same difference; what an update still has to give is what its actor may give; the menu's fold is the greatest rank, by the least set of roles where it is not |

Assumptions used: `ConstantsAssumption`, `ConfigAssumption`, `EngineAssumption`, `FlowAssumption`,
`LeaveAssumption` and those named in the table. TLC evaluates each of them in the runs. They say that sets of rows and people
are finite, that `None` is not one of them, and that a list that is offered is not empty.

Which runs satisfy the hypotheses: `MCWorkSession_Sequential` has one worker and the environment
{"timesheet", "rollback", "autoClose"}; `MCOffice_Sequential` has one worker and charts
with a department; `MCRequests_Sequential` has one worker, and one mechanism for each request;
`MCOverlaps_Races` decides directly and has a workflow of two levels.

How the proofs are built. Every invariant of the table is inductive as it stands, and was checked by TLC on
small instances first. A proof that a step keeps an invariant has a step for each action, and lemmas
say what an action does to the rows in the words of the invariant (`Checks`, `Writes`, `Kept`, `Fits`).
*Induction* over a chart or a number is by the least counterexample (`LeastNumber`), as the induction
rules of the library take an operator that the installed provers cannot instantiate. *Recursive
functions* (the walks of the cache, levels below somebody) are shown to equal functions made step by step
(`StepsExist`, `FirstSteps`, `LevelsBelow`, `RolesDown`), *folds* over sets to equal the size of a set of dots (`Dots`)
or the greatest of some ranks (`FoldIsBroadest`).

Only model-checked: the liveness properties `RequestsFinish`, `ClockOutClosesSessions` and the catching up in
`ReportingSound` (fairness and ENABLED are outside the prover's logic); and the action properties and
invariants of the components whose content is arithmetic over small calendars, or a list of
independent checks: `ScheduleSound`, `PagesSound`, `ProjectsSound`, `ChoicesSound`, `SheetSound`,
`RecordsSound`.

## 6. What the model shows of the code

Four runs end in a counterexample to what a comment or a test says; PROJECT.json quotes the lines.
Ending a break restarts the suspended session although another one was started meanwhile. Two approvals
of one level approve a request whose next level was never asked. Activating the active workflow leaves
none active. And the leave balance leaves out the request being approved, because the session does not
autoflush; the test that asserts otherwise uses one that does. The allowance is still kept, since the direct decision
counts the approved requests themselves (`NeverOverAllocated`). Nor does the balance drift while requests take
turns: it is short of one approval at most, and a cancelled leave is always given back (`UsedLagsOne`).

Also visible in the models, without a run of their own: two overlapping requests that start or resume, or two
overlapping `start_break`, leave two running sessions or two open breaks, now that no index refuses the
second (`OneRunning` with two workers). These overlaps and the end of a break are the only
ways to get there, which is what `OnlyOverlapDoubles` says. Then: a pause after a resume counts the
pause as work (`TimeCountedOnce`); two step edits that overlap leave an active workflow whose levels have gaps
(`ActiveStepsFrozen`); an overlapping approval and rejection can leave a rejected target approved
(`RejectionFinal` with two workers); a role granted after submission can let the requester decide its
own request (`NoSelfApproval` with "grant"); a crash between the two transactions of clock-out, or the
administrator's auto-close, leaves timers running for somebody who is clocked out (`ClosedAfterClockOut`
with "abort" or "autoClose"); two overlapping applications of different leave types for the same days
both get in, because each locks its own balance row (`AdmittedOnce` without its last premise);
cancelling one of two half days of a day takes away the mark of the other (`LostToOtherHalf`, the
exception that `OnLeaveIsApproved` makes); and a leave request withdrawn while its flow is open is
approved again by the flow (`OnlyPendingDecided` with "withdraw"). The property in parentheses shows it
when checked under such an instance.

The other models translate what the code does, which is now and then not what its names suggest. A reader
of the modules will meet these places (the definitions say so in a comment):

- *Projects and metrics.* Creating a part commits before it rolls up, so the parent shows the part only after the
  next recalculation; deleting a part does not recalculate the parent. Audit rows written after the
  last commit are lost. `update_status` sets a status by hand although a comment says that metrics are written in one place only.
- *Members.* Whoever has left a project cannot be added again: the row is kept and unique for project and employee.
- *Records.* The edit form can put a scope away without the check for open tasks that the
  status operation makes; a client can be made inactive with the reason given at an earlier time
  (`client_service.py:123`); deleting a scope of work always raises.
- *Planning.* `schedule_project` raises as soon as a dependency exists (`planning_service.py:277` reads attributes of
  a row of another shape). The page of capacity leaves out the plan of the first week of a range that
  does not begin on a Monday, and counts cancelled assignments.
- *Scheduling.* The end that is calculated uses the setting of daily hours, the capacity it is compared with eight hours.
- *Tickets.* The last number is the greatest text, so numbering stops counting after TT-99999.
- *Balances.* Of two requests that look at balances for the first time at once the loser shows an empty page; leave
  of last year that is approved this year is not taken from what was carried over.
- *Authorisation.* `build_access_filter` and `can_access_record` are used by no router; `Roles` models the
  questions the routers do ask.

## 7. What is left

Every invariant that a run checks is stated by a theorem. What is left of the plan is proofs of the action
properties of the components named at the end of section 5, in this order: `SheetSound` and `RecordsSound`
(decisions of a row and what it shows), `ProjectsSound`, `ChoicesSound`, `ScheduleSound`, `PagesSound`. The last three
are mostly functions of their input, for which a bounded check of all inputs says nearly as much. Liveness stays
with TLC.

## 8. Not modelled

- *Biometric devices*: records of devices, and the protocols of the devices themselves. What arrives from
  them is the input of `BiometricSync`.
- *Dashboards and analytics*: queries that write nothing; what they count is not promised anywhere.
- *Infrastructure*: e-mail, encryption, logging, Redis (but for the lock of the sync), request schemas, and
  migrations other than the revisions named above.
- *Employees*, partly: transitions and leaving are modelled where they touch charts, teams, roles and open
  work; personal data and the import of employees are not.
- *Rework*, partly: `OpenRework` counts the open cycles and opens one in one step, so two openings at once
  are not modelled.
- *The end of a plan*, partly: `calculate_end_date` loads the holidays of a bounded window and never ends in
  a calendar without working days. The eight days of the model lie within the window and some are worked.
- *Administrators between two starts*, partly: `Startup` takes roles from the administrator and renames the
  account, but deactivates neither the account nor the ADMIN role.
