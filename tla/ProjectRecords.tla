------------------------------ MODULE ProjectRecords ------------------------------
(* The records of projects: who creates, edits, closes and joins them, and who sees   *)
(* them. A request reads (View), checks what it read and decides; its commit writes    *)
(* the columns it changed over the rows as they are by then, unless a unique           *)
(* constraint refuses. The roll-up from tasks is the module ProjectTasks.              *)
EXTENDS Integers, FiniteSets, FiniteSetsExt

CONSTANTS Ids, Employees, Codes, Clients, Departments, Tasks,
          Admins,        \* who has access to everything
          Sees,          \* Sees[e]: e and who reports to e, by the organisation chart
          TeamOf,        \* TeamOf[e]: the teams of e
          Team, Assignee, Hours,   \* of each task
          Days, WorkingDays,
          Eight,         \* the eight hours a day that capacity counts with
          None, Unset,   \* no value, and a field that a request does not send
          Workers,
          Modes          \* bound: the operations used together, by whom, the requests at once, the rows, what
                         \* creations and updates say, and the hours of a day by the settings

VARIABLES mode, projects, members, tasks, active,
          job            \* job[w]: the request of a thread and the rows it has read

tables == <<projects, members, tasks, active>>
vars == <<mode, tables, job>>

NoProject == [row |-> FALSE, code |-> None, client |-> None, department |-> None, manager |-> None,
              creator |-> None, start |-> None, end |-> None, hours |-> 0, status |-> "Yet To Start",
              reason |-> None, active |-> TRUE]

View == [projects |-> projects, members |-> members, tasks |-> tasks, active |-> active]
Rows(P) == {i \in Ids : P[i].row}
Live(P) == {i \in Rows(P) : P[i].active}
TasksOf(T, i) == {t \in Tasks : T[t].project = i}
Open(T, i) == {t \in TasksOf(T, i) : T[t].status \in {"NOT_STARTED", "IN_PROGRESS"}}
SumOf(T) == MapThenSumSet(LAMBDA t : Hours[t], T)
Given(value, old) == IF value = Unset THEN old ELSE value

\* What a flush writes: the columns that differ from what was loaded.
Merge(loaded, new, current) == [c \in DOMAIN new |-> IF new[c] # loaded[c] THEN new[c] ELSE current[c]]

Idle == [op |-> "idle", user |-> None, id |-> None, data |-> None, view |-> None]

Init ==
  /\ mode \in Modes
  /\ projects = [i \in Ids |-> NoProject]
  /\ members = [i \in Ids |-> [e \in Employees |-> "none"]]
  /\ tasks = [t \in Tasks |-> [project |-> None, status |-> "NOT_STARTED"]]
  /\ active = Employees \cup Clients \cup Departments
  /\ job = [w \in Workers |-> Idle]

-----------------------------------------------------------------------------
(* The window of a project *)

WorkingTime(start, end) == Eight * Cardinality(WorkingDays \cap (start .. end))

Enough_short(start, hours, d) == mode.perDay * (1 + Cardinality(WorkingDays \cap (start .. d))) >= hours
Enough(start, hours, d) == mode.perDay * Cardinality(WorkingDays \cap (start .. d)) >= hours

\* The working day on which the hours are used up.
EndDate(start, hours) == Min({d \in Days : d >= start /\ Enough(start, hours, d)})

\* The end a request leaves open is calculated.
PlannedEnd(start, end, hours) ==
  IF start # None /\ hours > 0 /\ end = None THEN EndDate(start, hours) ELSE end

Fits_unchecked(start, end, hours) == start <= end
Fits(start, end, hours) == start <= end /\ hours <= WorkingTime(start, end)

WindowRefused(start, end, hours) == start # None /\ end # None /\ ~ Fits(start, end, hours)

-----------------------------------------------------------------------------
(* Creation and edits *)

\* A deleted project keeps its code.
CodeTaken(view, code, i) == \E k \in Rows(view.projects) \ {i} : view.projects[k].code = code

CreateRefused(view, d) ==
  \/ d.client \notin view.active
  \/ d.department # None /\ d.department \notin view.active
  \/ CodeTaken(view, d.code, None)
  \/ WindowRefused(d.start, PlannedEnd(d.start, d.end, d.hours), d.hours)

NewProject(user, d) ==
  [NoProject EXCEPT !.row = TRUE, !.code = d.code, !.client = d.client, !.department = d.department,
                    !.manager = d.manager, !.creator = user, !.start = d.start, !.hours = d.hours,
                    !.end = PlannedEnd(d.start, d.end, d.hours)]

MayEdit(view, user, i) == user \in Admins \cup {view.projects[i].manager, view.projects[i].creator}
MayStaff(view, user, i) == user \in Admins \cup {view.projects[i].manager}

\* The hours are those rolled up from the tasks; an edit that leaves the dates alone is
\* held to them as well.
NewEnd(p, d) == PlannedEnd(Given(d.start, p.start), Given(d.end, p.end), p.hours)

DepartmentRefused_tasksForgotten(view, i, d) ==
  d.department \notin {Unset, None, view.projects[i].department} /\ d.department \notin view.active

\* Away from its department a project goes only without tasks; out of any department it
\* goes with them.
DepartmentRefused(view, i, d) ==
  /\ d.department \notin {Unset, None, view.projects[i].department}
  /\ d.department \notin view.active \/ TasksOf(view.tasks, i) # {}

UpdateRefused(view, user, i, d) ==
  LET p == view.projects[i]
  IN \/ ~ MayEdit(view, user, i)
     \/ d.code # Unset /\ d.code # p.code /\ CodeTaken(view, d.code, i)
     \/ DepartmentRefused(view, i, d)
     \/ d.client # Unset /\ d.client \notin view.active
     \/ WindowRefused(Given(d.start, p.start), NewEnd(p, d), p.hours)

\* is_active comes with the other fields.
Updated(p, d) ==
  [p EXCEPT !.code = Given(d.code, @), !.department = Given(d.department, @), !.client = Given(d.client, @),
            !.manager = Given(d.manager, @), !.start = Given(d.start, @), !.end = NewEnd(p, d),
            !.active = Given(d.active, @)]

DeleteRefused_started(view, user, i) ==
  ~ MayEdit(view, user, i) \/ \E t \in TasksOf(view.tasks, i) : view.tasks[t].status = "IN_PROGRESS"

DeleteRefused(view, user, i) == ~ MayEdit(view, user, i) \/ Open(view.tasks, i) # {}

StatusRefused_unexplained(p, d) == d.status = p.status

\* Any status follows any other; to and from Cancelled a reason is needed.
StatusRefused(p, d) ==
  \/ d.status = p.status
  \/ "Cancelled" \in {d.status, p.status} /\ d.reason = None

-----------------------------------------------------------------------------
(* Members *)

AddRefused_anyone(view, user, i, e) == ~ MayStaff(view, user, i) \/ view.members[i][e] = "in"

\* Who left is not an active member, and may be asked for again.
AddRefused(view, user, i, e) ==
  ~ MayStaff(view, user, i) \/ e \notin view.active \/ view.members[i][e] = "in"
RemoveRefused(view, user, i, e) == ~ MayStaff(view, user, i) \/ view.members[i][e] # "in"

-----------------------------------------------------------------------------
(* Requests *)

\* A thread takes a request and reads; every request is for projects not deleted.
Read(w, op, user, i, data) ==
  /\ op \in mode.operations /\ job[w] = Idle
  /\ Cardinality({v \in Workers : job[v] # Idle}) < mode.requests
  /\ job' = [job EXCEPT ![w] = [op |-> op, user |-> user, id |-> i, data |-> data, view |-> View]]
  /\ UNCHANGED <<mode, tables>>

Request(w) == \E user \in mode.users :
  \/ \E d \in mode.creations : Read(w, "create", user, None, d)
  \/ \E i \in Live(projects), d \in mode.updates : Read(w, "update", user, i, d)
  \/ \E i \in Live(projects) : Read(w, "delete", user, i, None)
  \/ \E i \in Live(projects), s \in {"In Progress", "Cancelled"}, r \in {None, "why"} :
       Read(w, "status", user, i, [status |-> s, reason |-> r])
  \/ \E i \in Live(projects), e \in Employees : Read(w, "add", user, i, e)
  \/ \E i \in Live(projects), e \in Employees : Read(w, "remove", user, i, e)

CodesUnique(P) == \A i, k \in Rows(P) : i # k => P[i].code # P[k].code

Refuse == UNCHANGED <<projects, members>>

\* A commit of projects, or the refusal of the constraint on codes.
Commit(P) == projects' = (IF CodesUnique(P) THEN P ELSE projects) /\ UNCHANGED members

Flushed(w, new) ==
  LET i == job[w].id IN [projects EXCEPT ![i] = Merge(job[w].view.projects[i], new, @)]

Create(w) ==
  /\ job[w].op = "create"
  /\ IF CreateRefused(job[w].view, job[w].data) \/ Cardinality(Rows(projects)) = mode.rows THEN Refuse
     ELSE Commit([projects EXCEPT ![CHOOSE i \in Ids : ~ projects[i].row] = NewProject(job[w].user, job[w].data)])

Update(w) ==
  /\ job[w].op = "update"
  /\ IF UpdateRefused(job[w].view, job[w].user, job[w].id, job[w].data) THEN Refuse
     ELSE Commit(Flushed(w, Updated(job[w].view.projects[job[w].id], job[w].data)))

Delete(w) ==
  /\ job[w].op = "delete"
  /\ IF DeleteRefused(job[w].view, job[w].user, job[w].id) THEN Refuse
     ELSE Commit(Flushed(w, [job[w].view.projects[job[w].id] EXCEPT !.active = FALSE]))

SetStatus(w) ==
  /\ job[w].op = "status"
  /\ LET p == job[w].view.projects[job[w].id]  d == job[w].data
     IN IF StatusRefused(p, d) THEN Refuse
        ELSE Commit(Flushed(w, [p EXCEPT !.status = d.status, !.reason = IF d.reason = None THEN @ ELSE d.reason]))

AddMember_rejoin(w) ==
  /\ job[w].op = "add"
  /\ LET i == job[w].id  e == job[w].data
     IN IF AddRefused(job[w].view, job[w].user, i, e) THEN Refuse
        ELSE members' = [members EXCEPT ![i][e] = "in"] /\ UNCHANGED projects

\* One row for an employee in a project, of those who left too: the insert of another is
\* refused by the constraint.
AddMember(w) ==
  /\ job[w].op = "add"
  /\ LET i == job[w].id  e == job[w].data
     IN IF AddRefused(job[w].view, job[w].user, i, e) \/ members[i][e] # "none" THEN Refuse
        ELSE members' = [members EXCEPT ![i][e] = "in"] /\ UNCHANGED projects

RemoveMember(w) ==
  /\ job[w].op = "remove"
  /\ LET i == job[w].id  e == job[w].data
     IN IF RemoveRefused(job[w].view, job[w].user, i, e) THEN Refuse
        ELSE members' = [members EXCEPT ![i][e] = "out"] /\ UNCHANGED projects

Write(w) ==
  /\ Create(w) \/ Update(w) \/ Delete(w) \/ SetStatus(w) \/ AddMember(w) \/ RemoveMember(w)
  /\ job' = [job EXCEPT ![w] = Idle]
  /\ UNCHANGED <<mode, tasks, active>>

\* What others do: a task is added or closed, with the hours of its project following;
\* a department, an employee or a client without projects is retired, one of them.
TaskChanges(t, i) ==
  /\ "task" \in mode.operations
  /\ \/ tasks[t].project = None /\ tasks' = [tasks EXCEPT ![t].project = i]
     \/ tasks[t].project = i /\ tasks[t].status # "COMPLETED" /\ tasks' = [tasks EXCEPT ![t].status = "COMPLETED"]
  /\ projects' = [projects EXCEPT ![i].hours = SumOf(TasksOf(tasks', i))]
  /\ UNCHANGED <<mode, members, active, job>>

Retire(x) ==
  /\ "retire" \in mode.operations /\ active = Employees \cup Clients \cup Departments   \* bound
  /\ \A i \in Live(projects) : projects[i].client # x
  /\ active' = active \ {x}
  /\ UNCHANGED <<mode, projects, members, tasks, job>>

Next ==
  \/ \E w \in Workers : Request(w) \/ Write(w)
  \/ \E t \in Tasks, i \in Live(projects) : TaskChanges(t, i)
  \/ \E x \in active : Retire(x)

Spec == Init /\ [][Next]_vars

-----------------------------------------------------------------------------
(* Lists and statistics *)

LedBy(S, i) == projects[i].manager \in S \/ projects[i].creator \in S
StaffedBy(S, i) == \E e \in S \cap Employees : members[i][e] = "in"
WorkedOnBy(S, i) == \E t \in TasksOf(tasks, i) : Assignee[t] \in S
OfTheirTeams(S, i) == \E t \in TasksOf(tasks, i), e \in S : Team[t] \in TeamOf[e]

Visible_ownOnly(level, u, i) == level = "FULL" \/ LedBy({u}, i)

\* The projects of a list, of its count and of a page, by the level of access of u.
Visible(level, u, i) ==
  \/ level = "FULL"
  \/ LedBy(Sees[u], i) \/ OfTheirTeams(Sees[u], i)
  \/ level \in {"TEAM", "SELF"} /\ StaffedBy(Sees[u], i)
  \/ level = "SELF" /\ WorkedOnBy(Sees[u], i)

\* How far a team is with its tasks in project i, in hours; without hours, all or nothing.
OfTeam(i, team) == {t \in TasksOf(tasks, i) : Team[t] = team}
Done(T) == {t \in T : tasks[t].status = "COMPLETED"}

Completion_noHours(i, team) ==
  LET T == OfTeam(i, team) IN IF SumOf(T) > 0 THEN (100 * SumOf(Done(T))) \div SumOf(T) ELSE 0

Completion(i, team) ==
  LET T == OfTeam(i, team)
  IN IF SumOf(T) > 0 THEN (100 * SumOf(Done(T))) \div SumOf(T)
     ELSE IF Done(T) = T THEN 100 ELSE 0

-----------------------------------------------------------------------------
(* Properties *)

\* The request of thread w was not overtaken: the rows are those it read.
Current(w) == job[w].view = View
Ends(w) == job[w] # Idle /\ job'[w] = Idle

\* A project with tasks is moved to another department only when a task was added, or the
\* department was closed, between the look and the commit.
DepartmentKept == \A w \in Workers, i \in Ids :
  (Ends(w) /\ Current(w) /\ projects'[i].department \notin {None, projects[i].department})
  => TasksOf(tasks, i) = {} /\ projects'[i].department \in active

\* What an edit leaves, and what a creation plans, has time enough for its hours; also for
\* the end the service chose itself, as long as the day of the settings has at most eight hours.
WindowFits == \A w \in Workers, i \in Ids :
  (/\ Ends(w) /\ Current(w) /\ projects'[i] # projects[i] /\ job[w].op \in {"create", "update"}
   /\ projects'[i].start # None /\ projects'[i].end # None)
  => projects'[i].hours <= WorkingTime(projects'[i].start, projects'[i].end)
ChosenEndFits == \A start \in WorkingDays, hours \in {Eight, 2 * Eight} :
  LET last == Max(WorkingDays)
  IN mode.perDay <= Eight /\ Enough(start, hours, last) => Fits(start, EndDate(start, hours), hours)

\* Projects with open tasks leave the lists only through the edit form, or when the task
\* came after the look.
OpenTasksKept == \A w \in Workers, i \in Ids :
  (Ends(w) /\ Current(w) /\ projects[i].active /\ ~ projects'[i].active /\ Open(tasks, i) # {})
  => job[w].op = "update"

\* Into and out of Cancelled goes with a reason, unless the status read was another.
CancellationExplained == \A w \in Workers, i \in Ids :
  (Ends(w) /\ Current(w) /\ projects'[i].status # projects[i].status
   /\ "Cancelled" \in {projects[i].status, projects'[i].status}) => projects'[i].reason # None

\* Who left a project does not come back to it, whatever is asked and whatever overlaps.
LeftForGood == \A i \in Ids, e \in Employees : members[i][e] = "out" => members'[i][e] = "out"

\* Whoever joins is employed, unless retired after the look.
JoinersEmployed == \A w \in Workers, i \in Ids, e \in Employees :
  (Ends(w) /\ Current(w) /\ members[i][e] # "in" /\ members'[i][e] = "in") => e \in active

\* Whoever may edit a project or choose its members has it in the list; a narrower level
\* of access shows no less than a wider one below full access.
EditorsSee == \A u \in Employees, i \in Live(projects), level \in {"MANAGED", "TEAM", "SELF"} :
  /\ u \notin Admins /\ MayEdit(View, u, i) => Visible(level, u, i)
  /\ \A e \in Sees[u] : members[i][e] = "in" \/ LedBy({e}, i) => Visible("SELF", u, i)

\* A team is through exactly when none of its tasks with hours is open, or, when no task
\* has hours, none at all.
TeamsCounted == \A i \in Live(projects), team \in {Team[t] : t \in Tasks} :
  LET T == OfTeam(i, team)
  IN Completion(i, team) = 100 <=> \A t \in Open(tasks, i) \cap T : Hours[t] = 0 /\ SumOf(T) > 0

RecordsValid == CodesUnique(projects) /\ ChosenEndFits /\ EditorsSee /\ TeamsCounted
RecordsStep == /\ DepartmentKept /\ WindowFits /\ OpenTasksKept /\ CancellationExplained
               /\ LeftForGood /\ JoinersEmployed
===================================================================================
