--------------------------------- MODULE Planning ---------------------------------
(* Planning: the hours of employees by week, what tasks wait for, the dates that the   *)
(* automatic schedule gives the tasks of a project, and the pages of capacity and load *)
(* computed from them. Days are numbered; day 1 is a Monday.                           *)
EXTENDS Integers, FiniteSets, FiniteSetsExt

CONSTANTS Employees, Tasks,
          Days, WorkingDays,
          Todays,        \* the days on which requests come
          Plans,         \* rows of employee_schedules: [employee, day, hours]
          Waits,         \* rows of task_dependencies: [task, on, type]
          Left,          \* Left[t]: what remains of t, in half days
          Planned, Ends, \* planned start and end of each task, or None
          Assignments,   \* [employee, task, hours, cancelled, from, to], the days may be None
          Ranges,        \* [from, to] of the pages
          None, Workers,
          Modes          \* bound: the operations used together, one request at a time (alone) or two

VARIABLES mode, plans, waits, dates, live, closed, today,
          job            \* job[w]: the request of a thread and whether it found something

vars == <<mode, plans, waits, dates, live, closed, today, job>>

Idle == [op |-> "idle", data |-> None, found |-> FALSE]

Init ==
  /\ mode \in Modes
  /\ plans = {} /\ waits = {}
  /\ dates = [t \in Tasks |-> None]
  /\ live = Tasks /\ closed = {}
  /\ today = Min(Todays)
  /\ job = [w \in Workers |-> Idle]

-----------------------------------------------------------------------------
(* The automatic schedule *)

Duration_hours(n) == Max({1, n})

\* round(remaining / 8): a half goes to the even neighbour, and a day is the least.
Duration(n) == Max({1, IF n % 2 = 0 THEN n \div 2 ELSE 2 * ((n + 1) \div 4)})

\* The day on which so many working days are used up.
EndDate(start, days) == Min({d \in Days : d >= start /\ Cardinality(WorkingDays \cap (start .. d)) >= days})

Start_today(T) == today

\* One start for the project: today, or an earlier planned one.
Start(T) == Min({today} \cup ({Planned[t] : t \in T} \ {None}))

Scheduled(T) ==
  [t \in Tasks |-> IF t \in T THEN [start |-> Start(T), end |-> EndDate(Start(T), Duration(Left[t]))] ELSE dates[t]]

-----------------------------------------------------------------------------
(* Requests *)

SameWeek(r, s) == r.employee = s.employee /\ r.day = s.day
SamePair(r, s) == r.task = s.task /\ r.on = s.on

\* A thread takes a request and looks.
Look(w, op, data, found) ==
  /\ op \in mode /\ job[w] = Idle
  /\ "alone" \in mode => \A v \in Workers : job[v] = Idle
  /\ job' = [job EXCEPT ![w] = [op |-> op, data |-> data, found |-> found]]
  /\ UNCHANGED <<mode, plans, waits, dates, live, closed, today>>

Request(w) ==
  \/ \E r \in Plans : Look(w, "plan", r, \E s \in plans : SameWeek(r, s))
  \/ \E r \in Waits : r.task # r.on /\ Look(w, "wait", r, \E s \in waits : SamePair(r, s))
  \/ Look(w, "schedule", live, \E r \in waits : r.task \in live)

PlanRefused_unconstrained(w) == job[w].found
WaitRefused_unconstrained(w) == job[w].found

\* By the look, or by the constraint.
PlanRefused(w) == job[w].found \/ \E s \in plans : SameWeek(job[w].data, s)
WaitRefused(w) == job[w].found \/ \E s \in waits : SamePair(job[w].data, s)

CreateSchedule(w) ==
  /\ job[w].op = "plan"
  /\ plans' = IF PlanRefused(w) THEN plans ELSE plans \cup {job[w].data}
  /\ UNCHANGED <<waits, dates>>

\* The other task need not be of the same project, and may wait for this one.
CreateDependency(w) ==
  /\ job[w].op = "wait"
  /\ waits' = IF WaitRefused(w) THEN waits ELSE waits \cup {job[w].data}
  /\ UNCHANGED <<plans, dates>>

ScheduleProject_ordered(w) ==
  /\ job[w].op = "schedule"
  /\ dates' = IF job[w].data = {} THEN dates ELSE Scheduled(job[w].data)
  /\ UNCHANGED <<plans, waits>>

\* The rows of the dependencies are asked for a column they do not have: the request
\* raises when there is one.
ScheduleProject(w) ==
  /\ job[w].op = "schedule"
  /\ dates' = IF job[w].data = {} \/ job[w].found THEN dates ELSE Scheduled(job[w].data)
  /\ UNCHANGED <<plans, waits>>

Write(w) ==
  /\ CreateSchedule(w) \/ CreateDependency(w) \/ ScheduleProject(w)
  /\ job' = [job EXCEPT ![w] = Idle]
  /\ UNCHANGED <<mode, live, closed, today>>

UpdateSchedule(r, s) ==
  /\ "plan" \in mode /\ SameWeek(r, s)
  /\ plans' = (plans \ {r}) \cup {s}
  /\ UNCHANGED <<mode, waits, dates, live, closed, today, job>>

DeleteDependency(r) ==
  /\ waits' = waits \ {r}
  /\ UNCHANGED <<mode, plans, dates, live, closed, today, job>>

\* Tasks are closed and deleted elsewhere, and the next day comes.
Elsewhere(t) ==
  /\ "schedule" \in mode
  /\ \/ closed' = closed \cup {t} /\ UNCHANGED <<live, today>>
     \/ live' = live \ {t} /\ UNCHANGED <<closed, today>>
     \/ today + 1 \in Todays /\ today' = today + 1 /\ UNCHANGED <<live, closed>>
  /\ UNCHANGED <<mode, plans, waits, dates, job>>

Next ==
  \/ \E w \in Workers : Request(w) \/ Write(w)
  \/ \E r \in plans, s \in Plans : UpdateSchedule(r, s)
  \/ \E r \in waits : DeleteDependency(r)
  \/ \E t \in Tasks : Elsewhere(t)

Spec == Init /\ [][Next]_vars

-----------------------------------------------------------------------------
(* The page of capacity: the weeks of a range, what is planned and what is taken *)

Monday(d) == 7 * ((d - 1) \div 7) + 1

Weeks_all(r) == {Monday(d) : d \in r.from .. r.to}

\* The week of the first day and of every seventh after it.
Weeks(r) == {Monday(r.from + 7 * k) : k \in 0 .. (r.to - r.from) \div 7}

Available_anyDay(e, week, r) ==
  LET found == {p \in plans : p.employee = e /\ Monday(p.day) = week}
  IN IF found = {} THEN 40 ELSE (CHOOSE p \in found : TRUE).hours

\* Only a row of the range filed under the Monday counts.
Available(e, week, r) ==
  LET found == {p \in plans : p.employee = e /\ p.day = week /\ p.day \in r.from .. r.to}
  IN IF found = {} THEN 40 ELSE (CHOOSE p \in found : TRUE).hours

Overlap_open(a, week) == Max({0, Min({a.to, week + 7}) - Max({a.from, week}) + 1})

\* The days of an assignment in a week; its hours are shared in proportion.
Overlap(a, week) == Max({0, Min({a.to, week + 6}) - Max({a.from, week}) + 1})

\* Those that were cancelled, and those of closed tasks, among them.
Taken(e, r) == {a \in Assignments : /\ a.employee = e /\ a.from # None /\ a.to # None
                                    /\ a.from <= r.to /\ a.to >= r.from}

-----------------------------------------------------------------------------
(* The page of load: open work, and until when *)

Reaches(d, from) == d # None /\ d >= from
ScheduledEnd(t) == IF dates[t] = None THEN None ELSE dates[t].end

Work(e, from) ==
  {a \in Assignments : /\ a.employee = e /\ a.task \in live /\ ~ a.cancelled
                       /\ Reaches(a.to, from) \/ Reaches(Ends[a.task], from) \/ Reaches(ScheduledEnd(a.task), from)}
OpenWork_all(e, from) == Work(e, from)
OpenWork(e, from) == {a \in Work(e, from) : a.task \notin closed}

\* The end of the assignment goes before that of the task, the plan before the schedule.
End(a) == IF a.to # None THEN a.to ELSE IF Ends[a.task] # None THEN Ends[a.task] ELSE ScheduledEnd(a.task)

LoadedUntil(e, from) ==
  LET ends == {End(a) : a \in OpenWork(e, from)} \ {None} IN IF ends = {} THEN None ELSE Max(ends)

LoadStatus(e, from) ==
  LET hours == MapThenSumSet(LAMBDA a : a.hours, OpenWork(e, from))
  IN CASE hours = 0 -> "AVAILABLE"
       [] hours > 48 -> "OVERLOADED"
       [] hours \in 32 .. 48 -> "OPTIMAL"
       [] OTHER -> "UNDERLOADED"

-----------------------------------------------------------------------------
(* Properties *)

\* Whatever overlaps, a week of an employee is planned once and a task waits once for another.
PlannedOnce == /\ \A r, s \in plans : SameWeek(r, s) => r = s
               /\ \A r, s \in waits : SamePair(r, s) => r = s

\* The schedule dates every task of the project or none: from one start, today or an
\* earlier planned start; none when a task waits for another, whatever became of that one.
SchedulesWhole == \A w \in Workers :
  (job[w].op = "schedule" /\ job'[w] = Idle) =>
    \/ dates' = dates
    \/ /\ ~ job[w].found
       /\ \A t \in job[w].data : /\ dates'[t].start = Min({today} \cup ({Planned[u] : u \in job[w].data} \ {None}))
                                 /\ dates'[t].end \in WorkingDays
       /\ \A t \in Tasks \ job[w].data : dates'[t] = dates[t]

\* The days given are those the remaining time needs, short of half a day at most.
TimeGiven == \A t \in Tasks : dates[t] # None =>
  LET days == Cardinality(WorkingDays \cap (dates[t].start .. dates[t].end))
  IN Left[t] - 1 <= 2 * days /\ (days = 1 \/ 2 * days <= Left[t] + 1)

\* All weeks of a range are shown, but for the last when the range ends earlier in its
\* week than it began.
WeeksShown == \A r \in Ranges :
  Weeks(r) = {Monday(d) : d \in r.from .. r.to}
             \ (IF r.to - Monday(r.to) < r.from - Monday(r.from) THEN {Monday(r.to)} ELSE {})

\* The week is shown with the hours planned for it if they are filed under its Monday
\* and the range began no later; otherwise with forty.
PlansShown == \A r \in Ranges, e \in Employees : \A week \in Weeks(r) :
  \/ \E p \in plans : p.employee = e /\ p.day = week /\ p.hours = Available(e, week, r)
  \/ /\ Available(e, week, r) = 40
     /\ \A p \in plans : p.employee = e /\ p.day = week => week < r.from \/ week > r.to

\* The shares of an assignment add up to all of its hours over weeks that hold it all,
\* and never to more.
SharesAddUp == \A r \in Ranges, e \in Employees : \A a \in Taken(e, r) :
  LET days == MapThenSumSet(LAMBDA week : Overlap(a, week), Weeks(r))
  IN /\ days <= a.to - a.from + 1
     /\ {Monday(d) : d \in a.from .. a.to} \subseteq Weeks(r) => days = a.to - a.from + 1

\* Loaded until a day that has passed is who has work whose own end has passed while its
\* task goes on; available is who has no open work with hours.
LoadTold == \A e \in Employees, r \in Ranges :
  /\ LET last == LoadedUntil(e, r.from)
     IN last # None /\ last < r.from => \A a \in OpenWork(e, r.from) : End(a) # None =>
          /\ a.to # None \/ Ends[a.task] # None
          /\ Reaches(Ends[a.task], r.from) \/ Reaches(ScheduledEnd(a.task), r.from)
  /\ LoadStatus(e, r.from) = "AVAILABLE" <=>
       \A a \in Work(e, r.from) : a.task \in closed \/ a.hours = 0

PlanningValid == PlannedOnce /\ TimeGiven /\ WeeksShown /\ PlansShown /\ SharesAddUp /\ LoadTold
PlanningStep == SchedulesWhole
===================================================================================
