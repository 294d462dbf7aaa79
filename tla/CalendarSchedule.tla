------------------------------ MODULE CalendarSchedule ------------------------------
(* The working calendar and what it does to plans: weekends, weekly off rules and     *)
(* holidays, the shift of projects and tasks when a holiday comes or goes, and the    *)
(* reviews by which project managers decide about an emergency holiday.               *)
(* One request at a time; dates are the days 1..NDays of a month whose weeks have     *)
(* WeekLength days.                                                                   *)
EXTENDS Integers, FiniteSets, FiniteSetsExt

CONSTANTS NHolidays,        \* bound: the holidays that are ever created
          Projects, Tasks,
          ProjectOf,        \* the project of a task
          DependsOn,        \* DependsOn[t]: the tasks t waits for
          NDays,            \* bound: plans and holidays stay within the month
          WeekLength,
          HolidayDates,     \* bound: the days a holiday may be put on
          Calendars,        \* bound: the settings an administrator may choose
          Plans,            \* the windows of the tasks, and of projects without tasks, to begin with
          Modes             \* bound: [operations, holidays], the operations used and how many holidays

VARIABLES mode,       \* one of Modes
          settings,   \* [weekend, rules]: days of the week that are off, and occurrences that are
          holiday,    \* [row, date, type, active]
          project,    \* [start, end]
          task,       \* [status, start, end]
          review      \* review[h][p]: "NONE", "PENDING", "APPLIED" or "REJECTED"

vars == <<mode, settings, holiday, project, task, review>>

Holidays == 1..NHolidays
Days == 1..NDays
NoHoliday == [row |-> FALSE, date |-> 1, type |-> "PUBLIC", active |-> FALSE]
TasksOf(p) == {t \in Tasks : ProjectOf[t] = p}
Open(t) == task[t].status \notin {"COMPLETED", "CANCELLED"}
Window(x) == x.start..x.end

-----------------------------------------------------------------------------
(* Working days *)

DayOfWeek(d) == d % WeekLength
Ordinal(d) == (d - 1) \div WeekLength + 1

IsWeekend(d) == DayOfWeek(d) \in settings.weekend
IsWeeklyOff(d) == <<DayOfWeek(d), Ordinal(d)>> \in settings.rules
IsHoliday(H, d) == \E h \in Holidays : H[h].row /\ H[h].date = d /\ H[h].active
IsWorkingDay(H, d) == ~IsWeekend(d) /\ ~IsWeeklyOff(d) /\ ~IsHoliday(H, d)

CountWorkingDays(H, x) == Cardinality({d \in Window(x) : IsWorkingDay(H, d)})

Ahead(H, d) == {x \in d + 1..NDays : IsWorkingDay(H, x)}
Behind(H, d) == {x \in 1..d - 1 : IsWorkingDay(H, x)}

\* The day on which so many hours end, at so many a day; 0 when the month is too short.
CalculateEndDate_noLastDay(H, start, hours, daily) ==
  LET end[d \in 1..NDays + 1, left \in 0..hours] ==
        CASE d > NDays -> 0
          [] d <= NDays /\ ~IsWorkingDay(H, d) -> end[d + 1, left]
          [] d <= NDays /\ IsWorkingDay(H, d) ->
               IF left < daily THEN d ELSE end[d + 1, left - daily]
  IN IF hours = 0 THEN start ELSE end[start, hours]

CalculateEndDate(H, start, hours, daily) ==
  LET end[d \in 1..NDays + 1, left \in 0..hours] ==
        CASE d > NDays -> 0
          [] d <= NDays /\ ~IsWorkingDay(H, d) -> end[d + 1, left]
          [] d <= NDays /\ IsWorkingDay(H, d) ->
               IF left <= daily THEN d ELSE end[d + 1, left - daily]
  IN IF hours = 0 THEN start ELSE end[start, hours]

-----------------------------------------------------------------------------
(* Project dates *)

\* The window of a project is that of its tasks, when it has any.
Recalculate_openTasks(T, P, S) ==
  [p \in Projects |->
     LET X == {t \in TasksOf(p) : T[t].status # "COMPLETED"} IN
     IF p \in S /\ X # {}
     THEN [start |-> Min({T[t].start : t \in X}), end |-> Max({T[t].end : t \in X})]
     ELSE P[p]]

Recalculate(T, P, S) ==
  [p \in Projects |->
     IF p \in S /\ TasksOf(p) # {}
     THEN [start |-> Min({T[t].start : t \in TasksOf(p)}), end |-> Max({T[t].end : t \in TasksOf(p)})]
     ELSE P[p]]

Finished(p) == TasksOf(p) # {} /\ \A t \in TasksOf(p) : ~Open(t)

Init ==
  /\ mode \in Modes
  /\ settings \in Calendars
  /\ holiday = [h \in Holidays |-> NoHoliday]
  /\ \E plan \in Plans :
       /\ task = [t \in Tasks |-> [status |-> plan[t].status, start |-> plan[t].start, end |-> plan[t].end]]
       /\ project = Recalculate(task, [p \in Projects |-> [start |-> plan[p].start, end |-> plan[p].end]],
                                Projects)
  /\ review = [h \in Holidays |-> [p \in Projects |-> "NONE"]]

-----------------------------------------------------------------------------
(* A holiday that comes or goes *)

AffectedProjects(d) == {p \in Projects : d \in Window(project[p])}
AffectedTasks(d) ==
  {t \in Tasks : ProjectOf[t] \in AffectedProjects(d) /\ Open(t) /\ d \in Window(task[t])}

ShiftedEnd_calendarDay(H, end, forward) == IF forward THEN end + 1 ELSE end - 1
ShiftedEnd(H, end, forward) == IF forward THEN Min(Ahead(H, end)) ELSE Max(Behind(H, end))

\* Bound: the month has a working day to shift to.
CanShift(H, d, forward) ==
  \A x \in {project[p] : p \in AffectedProjects(d)} \cup {task[t] : t \in AffectedTasks(d)} :
    IF forward THEN Ahead(H, x.end) # {} ELSE Behind(H, x.end) # {}

\* Emergency holidays and weekends move nothing; days off by a weekly rule do. The
\* calendar is that after the change, which is flushed before.
TriggerHolidayRecalculation(H, h, forward) ==
  LET d == H[h].date IN
  IF H[h].type = "EMERGENCY" \/ IsWeekend(d)
  THEN UNCHANGED <<project, task>>
  ELSE /\ CanShift(H, d, forward)
       /\ task' = [t \in Tasks |-> IF t \in AffectedTasks(d)
                                   THEN [task[t] EXCEPT !.end = ShiftedEnd(H, @, forward)] ELSE task[t]]
       /\ project' = Recalculate(task',
                       [p \in Projects |-> IF p \in AffectedProjects(d)
                                           THEN [project[p] EXCEPT !.end = ShiftedEnd(H, @, forward)]
                                           ELSE project[p]],
                       AffectedProjects(d))

\* A row that is no longer active keeps its date.
DateTaken(h, d) == \E g \in Holidays \ {h} : holiday[g].row /\ holiday[g].date = d

\* An emergency holiday asks the manager of each project that is not finished.
CreateReviews(h, d) ==
  review' = [review EXCEPT ![h] = [p \in Projects |->
               IF p \in AffectedProjects(d) /\ ~Finished(p) /\ @[p] = "NONE" THEN "PENDING" ELSE @[p]]]

CreateHoliday(h, d, type) ==
  /\ ~holiday[h].row /\ h <= mode.holidays /\ (\A g \in 1..h - 1 : holiday[g].row) /\ ~DateTaken(h, d)
  /\ holiday' = [holiday EXCEPT ![h] = [row |-> TRUE, date |-> d, type |-> type, active |-> TRUE]]
  /\ IF type = "EMERGENCY"
     THEN CreateReviews(h, d) /\ UNCHANGED <<project, task>>
     ELSE TriggerHolidayRecalculation(holiday', h, TRUE) /\ UNCHANGED review
  /\ UNCHANGED <<mode, settings>>

\* Whatever an update changes, the plans that the new date touches move back by a day;
\* a request that names neither the date nor the activity moves none.
UpdateHoliday(h, new, named) ==
  /\ holiday[h].row /\ ~DateTaken(h, new.date)
  /\ named \/ (new.date = holiday[h].date /\ new.active = holiday[h].active)
  /\ holiday' = [holiday EXCEPT ![h] = [row |-> TRUE, date |-> new.date, type |-> new.type, active |-> new.active]]
  /\ IF named THEN TriggerHolidayRecalculation(holiday', h, FALSE) ELSE UNCHANGED <<project, task>>
  /\ UNCHANGED <<mode, settings, review>>

\* Nothing asks whether it was active.
DeleteHoliday(h) ==
  /\ holiday[h].row
  /\ holiday' = [holiday EXCEPT ![h].active = FALSE]
  /\ TriggerHolidayRecalculation(holiday', h, FALSE)
  /\ UNCHANGED <<mode, settings, review>>

CancelReviews_one(h) ==
  review' = [review EXCEPT ![h] =
               LET p == CHOOSE p \in Projects : @[p] = "PENDING" IN
               IF \E q \in Projects : @[q] = "PENDING" THEN [@ EXCEPT ![p] = "REJECTED"] ELSE @]
CancelReviews(h) ==
  review' = [review EXCEPT ![h] = [p \in Projects |-> IF @[p] = "PENDING" THEN "REJECTED" ELSE @[p]]]

ToggleActive_forward(h) ==
  /\ holiday[h].row
  /\ holiday' = [holiday EXCEPT ![h].active = ~@]
  /\ TriggerHolidayRecalculation(holiday', h, TRUE)
  /\ IF holiday[h].active /\ holiday[h].type = "EMERGENCY" THEN CancelReviews(h) ELSE UNCHANGED review
  /\ UNCHANGED <<mode, settings>>
ToggleActive(h) ==
  /\ holiday[h].row
  /\ holiday' = [holiday EXCEPT ![h].active = ~@]
  /\ TriggerHolidayRecalculation(holiday', h, holiday'[h].active)
  /\ IF holiday[h].active /\ holiday[h].type = "EMERGENCY" THEN CancelReviews(h) ELSE UNCHANGED review
  /\ UNCHANGED <<mode, settings>>

-----------------------------------------------------------------------------
(* What the manager of a project decides about an emergency holiday *)

\* The shift the impact analysis proposes: none on a weekend, a task not yet begun moves
\* its start too when it lies on the day or after it.
ProposedEnd(end, d) == IF IsWeekend(d) \/ end < d THEN end ELSE Min(Ahead(holiday, end))
Proposed(t, d) ==
  [start |-> IF task[t].status # "IN_PROGRESS" /\ task[t].start >= d /\ ~IsWeekend(d)
             THEN Min(Ahead(holiday, task[t].start)) ELSE task[t].start,
   end |-> ProposedEnd(task[t].end, d)]

\* A request names new windows for projects and tasks. It either takes the proposal over or
\* moves one task; bound: whatever else a manager may type in.
Requests(h, p) ==
  LET d == holiday[h].date
      hit == AffectedTasks(d) \cap TasksOf(p) IN
  (IF d \in Window(project[p]) /\ CanShift(holiday, d, TRUE)
   THEN {[p |-> [project[p] EXCEPT !.end = ProposedEnd(@, d)], t |-> [t \in hit |-> Proposed(t, d)]]}
   ELSE {})
  \cup {[p |-> project[p], t |-> [x \in {t} |-> w]] :
           t \in {t \in TasksOf(p) : "edit" \in mode.operations},
           w \in {[start |-> s, end |-> e] : s \in HolidayDates, e \in HolidayDates}}

NewStart(r, t) == IF t \in DOMAIN r.t THEN r.t[t].start ELSE task[t].start
NewEnd(r, t) == IF t \in DOMAIN r.t THEN r.t[t].end ELSE task[t].end

\* Inside the project as it will be, after what it waits for, and on working days where
\* a date changes. The tasks that wait for a moved one are not looked at.
Acceptable_oldEnds(r, p) ==
  \A t \in DOMAIN r.t :
    /\ r.t[t].start >= r.p.start /\ r.t[t].end <= r.p.end
    /\ \A u \in DependsOn[t] : r.t[t].start >= task[u].end
    /\ r.t[t].start <= r.t[t].end
    /\ r.t[t].start # task[t].start => IsWorkingDay(holiday, r.t[t].start)
    /\ r.t[t].end # task[t].end => IsWorkingDay(holiday, r.t[t].end)

Acceptable(r, p) ==
  \A t \in DOMAIN r.t :
    /\ r.t[t].start >= r.p.start /\ r.t[t].end <= r.p.end
    /\ \A u \in DependsOn[t] : r.t[t].start >= NewEnd(r, u)
    /\ r.t[t].start <= r.t[t].end
    /\ r.t[t].start # task[t].start => IsWorkingDay(holiday, r.t[t].start)
    /\ r.t[t].end # task[t].end => IsWorkingDay(holiday, r.t[t].end)

\* The windows are written whether or not the holiday still holds, and then recalculated.
ApplyReview(h, p, r) ==
  /\ review[h][p] = "PENDING"
  /\ Acceptable(r, p)
  /\ task' = [t \in Tasks |-> [task[t] EXCEPT !.start = NewStart(r, t), !.end = NewEnd(r, t)]]
  /\ project' = Recalculate(task', [project EXCEPT ![p] = r.p], {p})
  /\ review' = [review EXCEPT ![h][p] = "APPLIED"]
  /\ UNCHANGED <<mode, settings, holiday>>

RejectReview_again(h, p) ==
  /\ review[h][p] # "NONE"
  /\ review' = [review EXCEPT ![h][p] = "REJECTED"]
  /\ UNCHANGED <<mode, settings, holiday, project, task>>
RejectReview(h, p) ==
  /\ review[h][p] = "PENDING"
  /\ review' = [review EXCEPT ![h][p] = "REJECTED"]
  /\ UNCHANGED <<mode, settings, holiday, project, task>>

-----------------------------------------------------------------------------
(* Settings, and work that is finished *)

\* A rule for a day that is a weekend day now is dropped.
CleanedUp_kept(weekend, rules) == rules
CleanedUp(weekend, rules) == {r \in rules : r[1] \notin weekend}

\* No plan is shifted. Without new rules the old ones are cleaned up.
UpdateSettings(weekend, rules) ==
  /\ settings' = [weekend |-> weekend, rules |-> CleanedUp(weekend, rules)]
  /\ UNCHANGED <<mode, holiday, project, task, review>>

CompleteTask(t) ==
  /\ Open(t)
  /\ task' = [task EXCEPT ![t].status = "COMPLETED"]
  /\ project' = Recalculate(task', project, {ProjectOf[t]})
  /\ UNCHANGED <<mode, settings, holiday, review>>

Types == {"PUBLIC", "EMERGENCY"}
Next ==
  \/ \E h \in Holidays, d \in HolidayDates, type \in Types : CreateHoliday(h, d, type)
  \/ /\ "update" \in mode.operations
     /\ \E h \in Holidays, d \in HolidayDates, type \in Types, active, named \in BOOLEAN :
          UpdateHoliday(h, [date |-> d, type |-> type, active |-> active], named)
  \/ \E h \in Holidays : DeleteHoliday(h) \/ ToggleActive(h)
  \/ \E h \in Holidays, p \in Projects : RejectReview(h, p) \/ \E r \in Requests(h, p) : ApplyReview(h, p, r)
  \/ /\ "settings" \in mode.operations
     /\ \E c \in Calendars : UpdateSettings(c.weekend, c.rules) \/ UpdateSettings(c.weekend, settings.rules)
  \/ "complete" \in mode.operations /\ \E t \in Tasks : CompleteTask(t)

Spec == Init /\ [][Next]_vars

-----------------------------------------------------------------------------
(* Properties *)

\* A project lasts from its first task to its last, whoever moved them.
ProjectSpansTasks ==
  \A p \in Projects : TasksOf(p) # {} =>
    /\ \A t \in TasksOf(p) : project[p].start <= task[t].start /\ task[t].end <= project[p].end
    /\ \E t \in TasksOf(p) : task[t].start = project[p].start
    /\ \E t \in TasksOf(p) : task[t].end = project[p].end

\* The two loops over working days agree: so many hours at so many a day end on the day on
\* which so many working days are counted, the last one begun.
EndDateCounts ==
  \A s \in HolidayDates, hours \in 1..3 : LET daily == 2 IN
    LET e == CalculateEndDate(holiday, s, hours, daily) IN
    e # 0 => /\ IsWorkingDay(holiday, e)
             /\ CountWorkingDays(holiday, [start |-> s, end |-> e]) = (hours + daily - 1) \div daily

\* A day is off by one rule at a time: a weekend day has no weekly off rule.
RulesClean == \A r \in settings.rules : r[1] \notin settings.weekend

\* A plan that ended on a working day has as many working days after a holiday came or
\* went as before, be it a task or a project without tasks; a holiday on a day that a
\* weekly rule takes off already shifts them for nothing.
SameWork(x, y) ==
  IsWorkingDay(holiday, x.end) => CountWorkingDays(holiday', y) = CountWorkingDays(holiday, x)
WorkKept(h) ==
  (/\ holiday'[h].type # "EMERGENCY" /\ settings' = settings /\ ~IsWeeklyOff(holiday'[h].date)
   /\ \/ \E d \in HolidayDates : CreateHoliday(h, d, holiday'[h].type)
      \/ ToggleActive(h)
      \/ holiday[h].active /\ DeleteHoliday(h))
  => /\ \A t \in Tasks : Open(t) => SameWork(task[t], task'[t])
     /\ \A p \in Projects : TasksOf(p) = {} => SameWork(project[p], project'[p])

\* A review that was decided stays decided, an emergency holiday that is switched off
\* leaves none open, and no applied schedule begins a moved task before what it waits for.
ReviewsKept ==
  \A h \in Holidays, p \in Projects :
    /\ review[h][p] \in {"APPLIED", "REJECTED"} => review'[h][p] = review[h][p]
    /\ ToggleActive(h) /\ holiday[h].type = "EMERGENCY" /\ ~holiday'[h].active => review'[h][p] # "PENDING"
    /\ review'[h][p] = "APPLIED" /\ review[h][p] = "PENDING" =>
         \A t \in TasksOf(p) : \A u \in DependsOn[t] : task'[t] = task[t] \/ task'[t].start >= task'[u].end

\* All of it: of every state, and of every step.
PlansSound == ProjectSpansTasks /\ EndDateCounts /\ RulesClean
ChangesSound == ReviewsKept /\ \A h \in Holidays : WorkKept(h)

ScheduleSound == []PlansSound /\ [][ChangesSound]_vars
=====================================================================================
