------------------------------ MODULE ProjectTasks ------------------------------
(* One project with its parts ("parts" are the rows of the table projects), the   *)
(* tasks of each part and their rework cycles. Status, hours, progress and dates   *)
(* of a part are written from its tasks, those of the project from its parts, by a  *)
(* recalculation that every operation on a task has to remember to ask for.        *)
EXTENDS Integers, Sequences, FiniteSets, FiniteSetsExt, SequencesExt

CONSTANTS
  Parts, Tasks,
  MaxCycles,    \* bound: rework cycles of each task
  Modes         \* what happens beside the work on tasks ("rework", "hand", "fail",
                \* "remove", "part"), the statuses tasks are given and the
                \* hours they are estimated at

VARIABLES
  mode,
  parts,        \* rows of projects
  project,      \* the row of parent_projects
  tasks,
  cycles        \* task_rework_history of each task

vars == <<mode, parts, project, tasks, cycles>>

TaskStatuses == {"NOT_STARTED", "IN_PROGRESS", "ON_HOLD", "COMPLETED", "CANCELLED", "REOPENED"}
Statuses == {"Yet To Start", "In Progress", "On Hold", "Completed", "Cancelled"}

\* done: the estimated hours behind the progress; ended: there is an actual end.
Metrics == [status : Statuses, estimated : Nat, done : Nat, ended : BOOLEAN]
NoMetrics == [status |-> "Yet To Start", estimated |-> 0, done |-> 0, ended |-> FALSE]

\* original: original_estimated_hours, 0 while NULL; spent: total_rework_hours.
Task == [row : {"LIVE", "GONE"}, part : Parts, status : TaskStatuses, estimated : Nat,
         ended : BOOLEAN, rework : Nat, original : Nat, spent : Nat]
NoTask == [row |-> "NONE"]

Exists(t) == tasks[t].row # "NONE"
TasksOf(T, p) == {t \in Tasks : T[t].row # "NONE" /\ T[t].part = p}
Active(T, p) == {t \in TasksOf(T, p) : T[t].row = "LIVE"}
LiveParts(P) == {p \in Parts : P[p].row = "LIVE"}
LinkedParts(P) == {p \in LiveParts(P) : P[p].linked}

-----------------------------------------------------------------------------
(* The recalculation *)

\* The first rule that applies, over the statuses of what is rolled up.
StatusOf(S) ==
  CASE "In Progress" \in S -> "In Progress"
    [] "On Hold" \in S -> "On Hold"
    [] S # {} /\ S \subseteq {"Completed", "Cancelled"} ->
         IF "Completed" \in S THEN "Completed" ELSE "Cancelled"
    [] OTHER -> "Yet To Start"

\* What a task counts as for its part.
Counts(s) ==
  CASE s = "NOT_STARTED" -> "Yet To Start"
    [] s \in {"IN_PROGRESS", "REOPENED"} -> "In Progress"
    [] s = "ON_HOLD" -> "On Hold"
    [] s = "COMPLETED" -> "Completed"
    [] s = "CANCELLED" -> "Cancelled"

\* The end is the last of the actual ends, once everything is closed.
Rolled(S, item) ==
  LET status == StatusOf({item[x].status : x \in S}) IN
  [status |-> status,
   estimated |-> MapThenSumSet(LAMBDA x : item[x].estimated, S),
   done |-> MapThenSumSet(LAMBDA x : item[x].done, S),
   ended |-> status \in {"Completed", "Cancelled"} /\ \E x \in S : item[x].ended]

OfTasks(T, p) ==
  Rolled(Active(T, p),
         [t \in Active(T, p) |->
            [status |-> Counts(T[t].status), estimated |-> T[t].estimated,
             done |-> IF T[t].status = "COMPLETED" THEN T[t].estimated ELSE 0,
             ended |-> T[t].ended]])

OfParts(P) == Rolled(LinkedParts(P), [p \in LinkedParts(P) |-> P[p].shows])

\* Parts and projects that were deleted are left as they are.
RolledParts(T, P, S) ==
  [p \in Parts |-> IF p \in S \cap LiveParts(P) THEN [P[p] EXCEPT !.shows = OfTasks(T, p)] ELSE P[p]]
RolledUp(P) == IF project.row = "LIVE" THEN [project EXCEPT !.shows = OfParts(P)] ELSE project

Recalculate_partOnly(p) ==
  /\ parts' = RolledParts(tasks', parts, {p})
  /\ UNCHANGED project

Recalculate(p) ==
  /\ parts' = RolledParts(tasks', parts, {p})
  /\ project' = IF p \in LinkedParts(parts) THEN RolledUp(parts') ELSE project

\* The change is committed first: a request that raises or dies after it leaves the
\* project as it was.
ThenRecalculate(p) ==
  \/ Recalculate(p)
  \/ "fail" \in mode.extra /\ UNCHANGED <<parts, project>>

-----------------------------------------------------------------------------
(* Tasks *)

CreateTask(t, p, s, h) ==
  /\ ~Exists(t)
  /\ parts[p].row # "NONE" /\ parts[p].shows.status \in {"Yet To Start", "In Progress"}
  /\ tasks' = [tasks EXCEPT ![t] = [row |-> "LIVE", part |-> p, status |-> s, estimated |-> h,
                                    ended |-> FALSE, rework |-> 0, original |-> 0, spent |-> 0]]
  /\ ThenRecalculate(p)
  /\ UNCHANGED <<mode, cycles>>

\* Any status may follow any other, of a deleted task too, which may come back.
UpdateTask(t, s, h, row) ==
  /\ Exists(t)
  /\ tasks' = [tasks EXCEPT ![t].status = s, ![t].estimated = h, ![t].row = row,
                 ![t].ended = @ \/ (s = "COMPLETED" /\ s # tasks[t].status)]
  /\ ThenRecalculate(tasks[t].part)
  /\ UNCHANGED <<mode, cycles>>

DeleteTask_quietly(t) ==
  /\ Exists(t) /\ tasks[t].row = "LIVE" /\ tasks[t].status \in {"NOT_STARTED", "CANCELLED"}
  /\ tasks' = [tasks EXCEPT ![t].row = "GONE"]
  /\ UNCHANGED <<mode, parts, project, cycles>>

DeleteTask(t) ==
  /\ Exists(t) /\ tasks[t].row = "LIVE" /\ tasks[t].status \in {"NOT_STARTED", "CANCELLED"}
  /\ tasks' = [tasks EXCEPT ![t].row = "GONE"]
  /\ ThenRecalculate(tasks[t].part)
  /\ UNCHANGED <<mode, cycles>>

\* The first session on a task starts it.
StartSession(t) ==
  /\ Exists(t) /\ tasks[t].row = "LIVE"
  /\ tasks' = IF tasks[t].status = "NOT_STARTED"
              THEN [tasks EXCEPT ![t].status = "IN_PROGRESS"] ELSE tasks
  /\ ThenRecalculate(tasks[t].part)
  /\ UNCHANGED <<mode, cycles>>

-----------------------------------------------------------------------------
(* Rework *)

Opened(t) == {i \in DOMAIN cycles[t] : cycles[t][i].open}

OpenRework_newEstimate(t) ==
  /\ "rework" \in mode.extra /\ Exists(t) /\ tasks[t].row = "LIVE" /\ Opened(t) = {}
  /\ Len(cycles[t]) < MaxCycles[t]
  /\ cycles' = [cycles EXCEPT ![t] = Append(@, [open |-> TRUE, number |-> tasks[t].rework + 1, hours |-> 0])]
  /\ tasks' = [tasks EXCEPT ![t].status = "REOPENED", ![t].rework = @ + 1,
                 ![t].original = tasks[t].estimated]
  /\ ThenRecalculate(tasks[t].part)
  /\ UNCHANGED mode

OpenRework(t) ==
  /\ "rework" \in mode.extra /\ Exists(t) /\ tasks[t].row = "LIVE" /\ Opened(t) = {}
  /\ Len(cycles[t]) < MaxCycles[t]
  /\ cycles' = [cycles EXCEPT ![t] = Append(@, [open |-> TRUE, number |-> tasks[t].rework + 1, hours |-> 0])]
  /\ tasks' = [tasks EXCEPT ![t].status = "REOPENED", ![t].rework = @ + 1,
                 ![t].original = IF tasks[t].rework = 0 /\ @ = 0 THEN tasks[t].estimated ELSE @]
  /\ ThenRecalculate(tasks[t].part)
  /\ UNCHANGED mode

Booked(t) == MapThenSumSet(LAMBDA i : cycles[t][i].hours, DOMAIN cycles[t] \ Opened(t))

CloseRework_anyCycle(t, i, h) ==
  /\ i \in DOMAIN cycles[t]
  /\ cycles' = [cycles EXCEPT ![t][i].open = FALSE, ![t][i].hours = h]
  /\ tasks' = [tasks EXCEPT ![t].spent = Booked(t)]
  /\ ThenRecalculate(tasks[t].part)
  /\ UNCHANGED mode

\* The SUM behind total_rework_hours runs before the cycle being closed is flushed, and
\* the task keeps the status it has.
CloseRework(t, i, h) ==
  /\ i \in Opened(t)
  /\ cycles' = [cycles EXCEPT ![t][i].open = FALSE, ![t][i].hours = h]
  /\ tasks' = [tasks EXCEPT ![t].spent = Booked(t)]
  /\ ThenRecalculate(tasks[t].part)
  /\ UNCHANGED mode

-----------------------------------------------------------------------------
(* Parts and the project *)

NewPart(linked, h) ==
  [row |-> "LIVE", linked |-> linked, shows |-> [NoMetrics EXCEPT !.estimated = h]]

\* Each part is committed on its own, and with it the link of the one before: when the
\* next one is refused the last link is lost and nothing is rolled up.
CreateProject(S, h) ==
  /\ project.row = "NONE" /\ S # {} /\ \A p \in S : parts[p].row = "NONE"
  /\ \/ /\ parts' = [p \in Parts |-> IF p \in S THEN NewPart(TRUE, h) ELSE parts[p]]
        /\ project' = [row |-> "LIVE", shows |-> OfParts(parts')]
     \/ /\ "fail" \in mode.extra
        /\ \E last \in S : parts' = [p \in Parts |-> IF p \in S THEN NewPart(p # last, h) ELSE parts[p]]
        /\ project' = [row |-> "LIVE", shows |-> NoMetrics]
  /\ UNCHANGED <<mode, tasks, cycles>>

\* The roll-up asked for after the commit is never committed itself.
CreatePart(p, h) ==
  /\ "part" \in mode.extra /\ project.row = "LIVE" /\ parts[p].row = "NONE"
  /\ parts' = [parts EXCEPT ![p] = NewPart(TRUE, h)]
  /\ UNCHANGED <<mode, project, tasks, cycles>>

\* update_status writes the status of a part over the derived one.
UpdateStatus(p, s) ==
  /\ "hand" \in mode.extra /\ p \in LiveParts(parts)
  /\ parts' = [parts EXCEPT ![p].shows.status = s]
  /\ UNCHANGED <<mode, project, tasks, cycles>>

UpdateProject ==
  /\ project.row = "LIVE"
  /\ project' = RolledUp(parts)
  /\ UNCHANGED <<mode, parts, tasks, cycles>>

Deletable(p) == \A t \in Active(tasks, p) : tasks[t].status \notin {"IN_PROGRESS", "NOT_STARTED"}

DeletePart(p) ==
  /\ "remove" \in mode.extra /\ p \in LiveParts(parts) /\ Deletable(p)
  /\ parts' = [parts EXCEPT ![p].row = "GONE"]
  /\ UNCHANGED <<mode, project, tasks, cycles>>

\* The parts go one by one until one is refused; the project goes if none is.
DeleteProject(S) ==
  /\ "remove" \in mode.extra /\ project.row = "LIVE"
  /\ S \subseteq LinkedParts(parts) /\ \A p \in S : Deletable(p)
  /\ S = LinkedParts(parts) \/ \E p \in LinkedParts(parts) \ S : ~Deletable(p)
  /\ parts' = [p \in Parts |-> IF p \in S THEN [parts[p] EXCEPT !.row = "GONE"] ELSE parts[p]]
  /\ project' = IF S = LinkedParts(parts) THEN [project EXCEPT !.row = "GONE"] ELSE project
  /\ UNCHANGED <<mode, tasks, cycles>>

RecalculateAll_partsLater ==
  /\ parts' = RolledParts(tasks, parts, Parts)
  /\ project' = IF LinkedParts(parts) # {} THEN RolledUp(parts) ELSE project
  /\ UNCHANGED <<mode, tasks, cycles>>

\* The backfill: every live part in turn, and with each the project.
RecalculateAll ==
  /\ parts' = RolledParts(tasks, parts, Parts)
  /\ project' = IF LinkedParts(parts) # {} THEN RolledUp(parts') ELSE project
  /\ UNCHANGED <<mode, tasks, cycles>>

-----------------------------------------------------------------------------
Init ==
  /\ mode \in Modes
  /\ parts = [p \in Parts |-> [row |-> "NONE", linked |-> FALSE, shows |-> NoMetrics]]
  /\ project = [row |-> "NONE", shows |-> NoMetrics]
  /\ tasks = [t \in Tasks |-> NoTask]
  /\ cycles = [t \in Tasks |-> <<>>]

TaskStep(t) ==
  \/ \E h \in mode.hours, s \in mode.given :
       \/ \E p \in Parts : CreateTask(t, p, s, h)
       \/ \E row \in {"LIVE", "GONE"} : UpdateTask(t, s, h, row)
  \/ DeleteTask(t) \/ StartSession(t) \/ OpenRework(t)
  \/ \E i \in 1..MaxCycles[t], h \in mode.hours : CloseRework(t, i, h)

ProjectStep ==
  \/ \E S \in SUBSET Parts : DeleteProject(S) \/ \E h \in mode.hours : CreateProject(S, h)
  \/ \E p \in Parts : \/ DeletePart(p)
                      \/ \E h \in mode.hours : CreatePart(p, h)
                      \/ \E s \in Statuses : UpdateStatus(p, s)
  \/ UpdateProject \/ RecalculateAll

Next == ProjectStep \/ \E t \in Tasks : TaskStep(t)

Spec == Init /\ [][Next]_vars

-----------------------------------------------------------------------------
\* The columns, and a project that has not been created has no parts.
ProjectsTypeOK ==
  /\ mode \in Modes
  /\ \A p \in Parts : parts[p].row \in {"NONE", "LIVE", "GONE"} /\ parts[p].shows \in Metrics
  /\ project.row \in {"NONE", "LIVE", "GONE"} /\ project.shows \in Metrics
  /\ project.row = "NONE" => LiveParts(parts) = {}
  /\ tasks \in [Tasks -> Task \cup {NoTask}]

\* "This is the ONLY place project metrics are written": while nobody sets a status by
\* hand and requests run to their end, a part that ever had a task shows what its tasks
\* say, whichever operation touched them last; and the project shows what its parts say,
\* as long as none is added to it or removed.
RollupCurrent ==
  mode.extra \cap {"hand", "fail"} = {} =>
    /\ \A p \in LiveParts(parts) : TasksOf(tasks, p) # {} => parts[p].shows = OfTasks(tasks, p)
    /\ mode.extra \cap {"remove", "part"} = {} /\ project.row = "LIVE" => project.shows = OfParts(parts)

\* Whatever requests left behind half-done, and whatever was set by hand, the backfill
\* brings every live part in line with its tasks, and the project with its parts.
BackfillRepairs ==
  [][RecalculateAll =>
       /\ \A p \in LiveParts(parts) : parts'[p].shows = OfTasks(tasks, p)
       /\ project.row = "LIVE" /\ LinkedParts(parts) # {} => project'.shows = OfParts(parts')]_vars

\* A task has one open rework cycle at most, the cycles are numbered in order as the
\* task counts them, and total_rework_hours is behind by the cycle closed last.
ReworkSound ==
  \A t \in Tasks : LET closed == DOMAIN cycles[t] \ Opened(t) IN Exists(t) =>
    /\ Cardinality(Opened(t)) <= 1 /\ tasks[t].rework = Len(cycles[t])
    /\ \A i \in DOMAIN cycles[t] : cycles[t][i].number = i
    /\ tasks[t].spent = MapThenSumSet(LAMBDA i : cycles[t][i].hours, {i \in closed : \E j \in closed : i < j})

\* The estimate a task had when it was first reopened is kept, whatever is estimated later.
OriginalKept ==
  [][\A t \in Tasks : Exists(t) /\ tasks[t].original # 0 => tasks'[t].original = tasks[t].original]_vars

\* Parts and project follow the tasks, and rework is counted.
ProjectsSound == [](ProjectsTypeOK /\ RollupCurrent /\ ReworkSound) /\ BackfillRepairs /\ OriginalKept
===============================================================================
