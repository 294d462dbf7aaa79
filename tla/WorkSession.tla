------------------------------ MODULE WorkSession ------------------------------
(***************************************************************************)
(* Work sessions (task timers), breaks and the attendance gate: the        *)
(* handlers of work_session_service.py, break_service.py and the clock-in  *)
(* and clock-out paths of attendance_service.py over the shared database.  *)
(*                                                                         *)
(* FastAPI runs the synchronous endpoints in a thread pool, each with its  *)
(* own SQLAlchemy Session (autoflush off) in a READ COMMITTED transaction. *)
(* A request is therefore a worker that takes a Read step (its SELECTs,    *)
(* checks and the clock it samples, kept in txn[w]) and later a Write step *)
(* (flush and commit). The UPDATE a flush emits names only the columns     *)
(* whose value differs from the loaded one: see Merge.                     *)
(*                                                                         *)
(* One tick of `now' stands for one minute; a day has DayLength ticks.     *)
(*                                                                         *)
(* An operator with a suffix after an underscore is what a plausible slip  *)
(* would make of the one without it; only mutation runs put it in.         *)
(***************************************************************************)
EXTENDS Integers, FiniteSets

CONSTANTS
  Employees, Tasks,
  Assigned,          \* pairs <<e, t>> whose task assignment is not CANCELLED
  Workers,           \* threads that can be serving a request
  None,              \* SQL NULL
  MaxSessions, MaxBreaks, MaxTime,   \* bounds on rows and on time
  MaxMinutes,        \* bound: a session is resumed only below this total
  DayLength,         \* ticks in 24 hours
  IstOffset,         \* IST is ahead of UTC by this many ticks
  AutoCloseAfter,    \* max_hours of auto_close_missed_clockouts
  Environment        \* optional steps of the surroundings an instance allows

ASSUME ConstantsAssumption ==
  /\ MaxSessions \in Nat /\ MaxBreaks \in Nat /\ MaxTime \in Nat /\ MaxMinutes \in Nat
  /\ DayLength \in Nat \ {0} /\ IstOffset \in Nat /\ AutoCloseAfter \in Nat
  /\ Assigned \subseteq Employees \X Tasks
  /\ None \notin Employees \cup Tasks \cup Int
  /\ Environment \subseteq {"abort", "rollback", "autoClose", "timesheet", "slow"}

VARIABLES
  sessions,      \* table task_work_sessions
  breaks,        \* table employee_breaks
  attendance,    \* table attendance: clock_in and clock_out of each day
  entries,       \* table time_entries
  taskStatus,    \* tasks.status
  txn,           \* what each worker's request holds in memory
  now,           \* the clock
  worked         \* history: ticks each session was really RUNNING

vars == <<sessions, breaks, attendance, entries, taskStatus, txn, now, worked>>

-----------------------------------------------------------------------------
(* Rows *)

SessionIds == 1..MaxSessions
BreakIds == 1..MaxBreaks
Days == 0..((MaxTime + IstOffset) \div DayLength)

Statuses == {"ABSENT", "RUNNING", "PAUSED", "COMPLETED", "CANCELLED", "ABANDONED"}
Reasons == {"break", "other"}     \* "Auto-paused: break started", any other text or NULL

Session == [employee : Employees \cup {None}, task : Tasks \cup {None},
            status : Statuses, start : Nat, end : Nat \cup {None},
            minutes : Nat, reason : Reasons]

\* A row that has not been inserted yet.
NoSession == [employee |-> None, task |-> None, status |-> "ABSENT",
              start |-> 0, end |-> None, minutes |-> 0, reason |-> "other"]

\* An open break. No handler reads a break again once it has ended, so its slot is
\* freed then.
Break == [employee : Employees \cup {None}, start : Nat]
NoBreak == [employee |-> None, start |-> 0]

Presence == [in : Nat \cup {None}, out : Nat \cup {None}]
Entry == [employee : Employees, task : Tasks, day : Nat,
          source : SessionIds \cup {None}, minutes : Nat]
TaskStatuses == {"NOT_STARTED", "IN_PROGRESS", "COMPLETED"}

Ops == {"idle", "start", "startLocked", "pause", "resume", "complete", "cancel",
        "breakStart", "breakEnd", "clockOut", "clockedOut", "close"}

\* The request in memory: the rows it loaded (view), the open breaks it selected,
\* the attendance day it is about to close, and the clock it sampled.
Txn == [op : Ops, employee : Employees \cup {None}, task : Tasks \cup {None},
        seen : TaskStatuses \cup {None}, at : Nat, view : [SessionIds -> Session],
        breaks : SUBSET BreakIds, day : Nat]

NoView == [s \in SessionIds |-> NoSession]
Idle == [op |-> "idle", employee |-> None, task |-> None, seen |-> None,
         at |-> 0, view |-> NoView, breaks |-> {}, day |-> 0]

-----------------------------------------------------------------------------
(* Helpers *)

UtcDate(t) == t \div DayLength
BusinessDate(t) == (t + IstOffset) \div DayLength
ClockOutWindow == (3 * DayLength) \div 2        \* 36 hours
EntryLimit == DayLength                         \* ck_time_entries_hours_range: 24 hours

Running(e) == {s \in SessionIds : sessions[s].employee = e /\ sessions[s].status = "RUNNING"}
OpenStatuses == {"RUNNING", "PAUSED"}
OpenSessions(e) == {s \in SessionIds : sessions[s].employee = e /\ sessions[s].status \in OpenStatuses}
OpenBreaks(e) == {b \in BreakIds : breaks[b].employee = e}
ClockedIn(e, d) == /\ d \in Days
                   /\ attendance[e][d].in # None
                   /\ attendance[e][d].out = None

Load(S) == [s \in SessionIds |-> IF s \in S THEN sessions[s] ELSE NoSession]
Loaded(w) == {s \in SessionIds : txn[w].view[s].status # "ABSENT"}

Locked_early(w) == IF txn[w].op \in {"start", "startLocked"} THEN Loaded(w) ELSE {}

\* SELECT ... FOR UPDATE: rows a start_session holds until it commits.
Locked(w) == IF txn[w].op = "startLocked" THEN Loaded(w) ELSE {}

Unlocked_ignored(w, S) == TRUE

\* Another transaction's UPDATE of, or lock on, the rows of S has to wait.
Unlocked(w, S) == \A v \in Workers \ {w} : S \cap Locked(v) = {}

Accrued_reversed(row, t) == IF row.status = "RUNNING" THEN row.start - t ELSE 0

\* Time a session gains when it stops at `t': only a RUNNING one accrues.
Accrued(row, t) == IF row.status = "RUNNING" THEN t - row.start ELSE 0

\* The UPDATE of one session row. status and end_time always differ from the loaded
\* ones; of the other columns only the changed ones are written. pause_reason is
\* changed if `sets' holds.
Merge(cur, loaded, new, sets) ==
  LET Column(c) == IF new[c] = loaded[c] THEN cur[c] ELSE new[c] IN
  [employee |-> cur.employee, task |-> cur.task,
   status |-> new.status, end |-> new.end,
   start |-> Column("start"), minutes |-> Column("minutes"),
   reason |-> IF sets THEN new.reason ELSE cur.reason]

Stop_noAccrual(row, status, t, reason) ==
  [row EXCEPT !.status = status, !.end = t, !.reason = reason]
Rerun_keepsEnd(row, start) ==
  [row EXCEPT !.status = "RUNNING", !.start = start, !.reason = "other"]

Stop(row, status, t, reason) ==
  [row EXCEPT !.status = status, !.end = t, !.minutes = @ + Accrued(row, t), !.reason = reason]
Rerun(row, start) ==
  [row EXCEPT !.status = "RUNNING", !.start = start, !.end = None, !.reason = "other"]

\* All session rows after worker w flushes its new values of the rows it loaded.
Flushed(w, new, sets) ==
  [s \in SessionIds |-> IF s \in Loaded(w)
                        THEN Merge(sessions[s], txn[w].view[s], new[s], sets) ELSE sessions[s]]

FreeSessions == {s \in SessionIds : sessions[s].status = "ABSENT"}
FreeBreaks == {b \in BreakIds : breaks[b].employee = None}
Fresh(S) == CHOOSE x \in S : TRUE        \* a new primary key

-----------------------------------------------------------------------------
(* The beginning and the end of a request *)

Begin(w, e, op, S) ==
  /\ txn[w].op = "idle"
  /\ txn' = [txn EXCEPT ![w] = [Idle EXCEPT !.op = op, !.employee = e, !.at = now, !.view = Load(S)]]

Finish(w) == txn' = [txn EXCEPT ![w] = Idle]

-----------------------------------------------------------------------------
(* start_session *)

Overlapping_runningOnly(e, t) == {s \in Running(e) : sessions[s].task = t}
Overlapping(e, t) == {s \in OpenSessions(e) : sessions[s].task = t}

\* Rule 10, then the snapshot of the RUNNING rows that FOR UPDATE will lock.
StartRead(w, e, t) ==
  /\ FreeSessions # {}                                 \* bound
  /\ Overlapping(e, t) = {}
  /\ txn[w].op = "idle"
  /\ txn' = [txn EXCEPT ![w] = [Idle EXCEPT !.op = "start", !.employee = e, !.task = t, !.at = now,
                                            !.seen = taskStatus[t], !.view = Load(Running(e))]]
  /\ UNCHANGED <<sessions, breaks, attendance, entries, taskStatus, now, worked>>

\* The locks are granted; rows that stopped running meanwhile are dropped by the
\* re-evaluated WHERE. Then Rule 6 and the assignment check.
StartLock(w) ==
  /\ txn[w].op = "start"
  /\ Unlocked(w, Loaded(w))
  /\ LET e == txn[w].employee IN
     IF ClockedIn(e, UtcDate(now)) /\ <<e, txn[w].task>> \in Assigned
     THEN txn' = [txn EXCEPT ![w] = [@ EXCEPT !.op = "startLocked", !.at = now,
                                              !.view = Load(Loaded(w) \cap Running(e))]]
     ELSE Finish(w)
  /\ UNCHANGED <<sessions, breaks, attendance, entries, taskStatus, now, worked>>

TaskAfterStart_forgotten(t, seen) == taskStatus
TaskAfterStart(t, seen) ==
  IF seen = "NOT_STARTED" THEN [taskStatus EXCEPT ![t] = "IN_PROGRESS"] ELSE taskStatus

\* Rule 2 pauses every locked session; the new one is inserted RUNNING. Its IntegrityError
\* does not come: revision b382bc5a8dd3 has dropped the partial unique indexes of running
\* sessions and of open breaks.
StartWrite(w) ==
  /\ txn[w].op = "startLocked"
  /\ LET r == txn[w]
         paused == [s \in Loaded(w) |-> Stop(r.view[s], "PAUSED", r.at, "other")]
         row == [NoSession EXCEPT !.employee = r.employee, !.task = r.task,
                                  !.status = "RUNNING", !.start = r.at]
         table == [Flushed(w, paused, TRUE) EXCEPT ![Fresh(FreeSessions)] = row]
     IN  IF FreeSessions # {}                              \* bound
         THEN /\ sessions' = table
              /\ taskStatus' = TaskAfterStart(r.task, r.seen)
         ELSE UNCHANGED <<sessions, taskStatus>>
  /\ Finish(w)
  /\ UNCHANGED <<breaks, attendance, entries, now, worked>>

-----------------------------------------------------------------------------
(* pause_session, resume_session, cancel_session *)

PauseRead_unchecked(w, s) ==
  /\ sessions[s].status # "ABSENT"
  /\ Begin(w, sessions[s].employee, "pause", {s})
  /\ UNCHANGED <<sessions, breaks, attendance, entries, taskStatus, now, worked>>

PauseRead(w, s) ==
  /\ sessions[s].status = "RUNNING"
  /\ Begin(w, sessions[s].employee, "pause", {s})
  /\ UNCHANGED <<sessions, breaks, attendance, entries, taskStatus, now, worked>>

\* The pause_reason is replaced only when the caller gives one.
PauseWrite(w) ==
  /\ txn[w].op = "pause" /\ Unlocked(w, Loaded(w))
  /\ \E given \in BOOLEAN :
       LET view == txn[w].view
           new == [s \in Loaded(w) |-> Stop(view[s], "PAUSED", txn[w].at, "other")]
       IN  sessions' = Flushed(w, new, given)
  /\ Finish(w)
  /\ UNCHANGED <<breaks, attendance, entries, taskStatus, now, worked>>

OtherRunning_unchecked(e, s) == {}
OtherRunning(e, s) == Running(e) \ {s}

ResumeRead(w, s) ==
  /\ sessions[s].status = "PAUSED" /\ sessions[s].minutes < MaxMinutes
  /\ OtherRunning(sessions[s].employee, s) = {}        \* Rule 1
  /\ Begin(w, sessions[s].employee, "resume", {s})
  /\ UNCHANGED <<sessions, breaks, attendance, entries, taskStatus, now, worked>>

\* start_time stays the original one. Clearing pause_reason changes it unless it was
\* NULL already.
ResumeWrite(w) ==
  /\ txn[w].op = "resume" /\ Unlocked(w, Loaded(w))
  /\ \E hadReason \in BOOLEAN :
       LET view == txn[w].view
           new == [s \in Loaded(w) |-> Rerun(view[s], view[s].start)]
       IN  /\ (\E s \in Loaded(w) : view[s].reason = "break") => hadReason
           /\ sessions' = Flushed(w, new, hadReason)
  /\ Finish(w)
  /\ UNCHANGED <<breaks, attendance, entries, taskStatus, now, worked>>

CancelRead_unchecked(w, s) ==
  /\ sessions[s].status # "ABSENT"
  /\ Begin(w, sessions[s].employee, "cancel", {s})
  /\ UNCHANGED <<sessions, breaks, attendance, entries, taskStatus, now, worked>>

CancelRead(w, s) ==
  /\ sessions[s].status \in OpenStatuses
  /\ Begin(w, sessions[s].employee, "cancel", {s})
  /\ UNCHANGED <<sessions, breaks, attendance, entries, taskStatus, now, worked>>

CancelWrite(w) ==
  /\ txn[w].op = "cancel" /\ Unlocked(w, Loaded(w))
  /\ LET new == [s \in Loaded(w) |-> Stop(txn[w].view[s], "CANCELLED", txn[w].at, txn[w].view[s].reason)]
     IN  sessions' = Flushed(w, new, FALSE)
  /\ Finish(w)
  /\ UNCHANGED <<breaks, attendance, entries, taskStatus, now, worked>>

-----------------------------------------------------------------------------
(* complete_session *)

CompleteRead(w, s) ==
  /\ sessions[s].status \in OpenStatuses
  /\ Begin(w, sessions[s].employee, "complete", {s})
  /\ UNCHANGED <<sessions, breaks, attendance, entries, taskStatus, now, worked>>

EntryOf(s, row) == [employee |-> row.employee, task |-> row.task, day |-> UtcDate(row.start),
                    source |-> s, minutes |-> row.minutes]
SameKey(x, y) == x.employee = y.employee /\ x.task = y.task /\ x.day = y.day

EntryDue_anyEntry(s, row) ==
  row.minutes >= 1 /\ \A x \in entries : ~ SameKey(x, EntryOf(s, row))

\* _generate_time_entry_from_session: nothing below one minute, nothing when this
\* session already has an entry for that day.
EntryDue(s, row) ==
  row.minutes >= 1 /\ \A x \in entries : SameKey(x, EntryOf(s, row)) => x.source # s

\* uq_time_entries_employee_task_date and ck_time_entries_hours_range.
EntryAllowed(s, row) ==
  row.minutes <= EntryLimit /\ \A x \in entries : ~ SameKey(x, EntryOf(s, row))

CompleteWrite(w) ==
  /\ txn[w].op = "complete" /\ Unlocked(w, Loaded(w))
  /\ \E s \in Loaded(w), markTask \in BOOLEAN :
       LET row == Stop(txn[w].view[s], "COMPLETED", txn[w].at, txn[w].view[s].reason)
           new == [x \in Loaded(w) |-> row]
           due == EntryDue(s, row)
       IN  IF due /\ ~ EntryAllowed(s, row)
           THEN UNCHANGED <<sessions, entries, taskStatus>>          \* rollback
           ELSE /\ sessions' = Flushed(w, new, FALSE)
                /\ entries' = entries \cup (IF due THEN {EntryOf(s, row)} ELSE {})
                /\ taskStatus' = IF markTask THEN [taskStatus EXCEPT ![row.task] = "COMPLETED"]
                                             ELSE taskStatus
  /\ Finish(w)
  /\ UNCHANGED <<breaks, attendance, now, worked>>

-----------------------------------------------------------------------------
(* start_break and end_break (Rule 8) *)

BreakStartRead(w, e) ==
  /\ ClockedIn(e, BusinessDate(now))
  /\ OpenBreaks(e) = {} /\ FreeBreaks # {}             \* the second conjunct is a bound
  /\ \E S \in SUBSET Running(e) :
       /\ Cardinality(S) = IF Running(e) = {} THEN 0 ELSE 1
       /\ Begin(w, e, "breakStart", S)
  /\ UNCHANGED <<sessions, breaks, attendance, entries, taskStatus, now, worked>>

BreakStartWrite(w) ==
  /\ txn[w].op = "breakStart" /\ Unlocked(w, Loaded(w))
  /\ LET r == txn[w]
         new == [s \in Loaded(w) |-> Stop(r.view[s], "PAUSED", r.at, "break")]
     IN  IF FreeBreaks # {}                                \* bound
         THEN /\ sessions' = Flushed(w, new, TRUE)
              /\ breaks' = [breaks EXCEPT ![Fresh(FreeBreaks)] =
                              [employee |-> r.employee, start |-> r.at]]
         ELSE UNCHANGED <<sessions, breaks>>
  /\ Finish(w)
  /\ UNCHANGED <<attendance, entries, taskStatus, now, worked>>

\* The session end_break resumes: the one paused last with the break's reason.
Suspended(e) == {s \in SessionIds : /\ sessions[s].employee = e
                                    /\ sessions[s].status = "PAUSED" /\ sessions[s].reason = "break"}

BreakEndRead(w, e) ==
  /\ txn[w].op = "idle"
  /\ \E b \in OpenBreaks(e), S \in SUBSET Suspended(e) :
       /\ \A c \in OpenBreaks(e) : breaks[c].start <= breaks[b].start
       /\ Cardinality(S) = IF Suspended(e) = {} THEN 0 ELSE 1
       /\ \A s \in S, r \in Suspended(e) : sessions[r].end <= sessions[s].end
       /\ txn' = [txn EXCEPT ![w] = [Idle EXCEPT !.op = "breakEnd", !.employee = e, !.at = now,
                                                 !.view = Load(S), !.breaks = {b}]]
  /\ UNCHANGED <<sessions, breaks, attendance, entries, taskStatus, now, worked>>

CloseBreaks(w) ==
  [b \in BreakIds |-> IF b \in txn[w].breaks THEN NoBreak ELSE breaks[b]]

\* Unlike resume_session, no check that another session is RUNNING.
BreakEndWrite(w) ==
  /\ txn[w].op = "breakEnd" /\ Unlocked(w, Loaded(w))
  /\ LET new == [s \in Loaded(w) |-> Rerun(txn[w].view[s], txn[w].at)]
     IN  sessions' = Flushed(w, new, TRUE) /\ breaks' = CloseBreaks(w)
  /\ Finish(w)
  /\ UNCHANGED <<attendance, entries, taskStatus, now, worked>>

-----------------------------------------------------------------------------
(* Attendance: clock-in, clock-out in two transactions, the admin auto-close *)

ClockIn(w, e) ==
  /\ txn[w].op = "idle"
  /\ attendance[e][BusinessDate(now)].in = None
  /\ attendance' = [attendance EXCEPT ![e][BusinessDate(now)].in = now]
  /\ UNCHANGED <<sessions, breaks, entries, taskStatus, txn, now, worked>>

\* The most recent open row whose clock_in lies within the last 36 hours.
ClosableDays(e) == {d \in Days : ClockedIn(e, d) /\ attendance[e][d].in >= now - ClockOutWindow}

ClockOutRead(w, e) ==
  /\ txn[w].op = "idle"
  /\ \E d \in ClosableDays(e) :
       /\ \A c \in ClosableDays(e) : attendance[e][c].in <= attendance[e][d].in
       /\ txn' = [txn EXCEPT ![w] = [Idle EXCEPT !.op = "clockOut", !.employee = e, !.at = now,
                                                 !.day = d, !.breaks = OpenBreaks(e)]]
  /\ UNCHANGED <<sessions, breaks, attendance, entries, taskStatus, now, worked>>

\* AttendanceService.clock_out commits here, together with _close_open_breaks.
ClockOutWrite(w) ==
  /\ txn[w].op = "clockOut"
  /\ attendance' = [attendance EXCEPT ![txn[w].employee][txn[w].day].out = txn[w].at]
  /\ breaks' = CloseBreaks(w)
  /\ txn' = [txn EXCEPT ![w] = [Idle EXCEPT !.op = "clockedOut", !.employee = txn[w].employee]]
  /\ UNCHANGED <<sessions, entries, taskStatus, now, worked>>

CloseRead_runningOnly(w) ==
  /\ txn[w].op = "clockedOut"
  /\ LET e == txn[w].employee IN
     IF Running(e) = {} THEN Finish(w)
     ELSE txn' = [txn EXCEPT ![w] = [@ EXCEPT !.op = "close", !.at = now, !.view = Load(Running(e))]]
  /\ UNCHANGED <<sessions, breaks, attendance, entries, taskStatus, now, worked>>

\* Rule 7, the router's second transaction: end_current_session_on_clock_out.
CloseRead(w) ==
  /\ txn[w].op = "clockedOut"
  /\ LET e == txn[w].employee IN
     IF OpenSessions(e) = {} THEN Finish(w)
     ELSE txn' = [txn EXCEPT ![w] = [@ EXCEPT !.op = "close", !.at = now,
                                              !.view = Load(OpenSessions(e))]]
  /\ UNCHANGED <<sessions, breaks, attendance, entries, taskStatus, now, worked>>

CloseWrite(w) ==
  /\ txn[w].op = "close" /\ Unlocked(w, Loaded(w))
  /\ LET new == [s \in Loaded(w) |-> Stop(txn[w].view[s], "ABANDONED", txn[w].at, "other")]
     IN  sessions' = Flushed(w, new, TRUE)
  /\ Finish(w)
  /\ UNCHANGED <<breaks, attendance, entries, taskStatus, now, worked>>

Overdue(p) == p.in # None /\ p.out = None /\ now >= p.in + AutoCloseAfter

\* auto_close_missed_clockouts over all open rows through today.
AutoClose ==
  /\ "autoClose" \in Environment
  /\ \E e \in Employees, d \in Days : Overdue(attendance[e][d])
  /\ attendance' = [e \in Employees |-> [d \in Days |->
                      LET p == attendance[e][d] IN
                      IF Overdue(p) THEN [p EXCEPT !.out = p.in + AutoCloseAfter] ELSE p]]
  /\ UNCHANGED <<sessions, breaks, entries, taskStatus, txn, now, worked>>

-----------------------------------------------------------------------------
(* Surroundings: the timesheet screens, failures, the clock *)

\* TimeEntryService.create: an entry logged by hand takes the unique key.
LogTime(e, t) ==
  /\ "timesheet" \in Environment
  /\ LET x == [employee |-> e, task |-> t, day |-> UtcDate(now), source |-> None, minutes |-> 1]
     IN  /\ \A y \in entries : ~ SameKey(x, y)
         /\ entries' = entries \cup {x}
  /\ UNCHANGED <<sessions, breaks, attendance, taskStatus, txn, now, worked>>

\* TimeEntryService.delete of a DRAFT entry, generated or not.
DeleteEntry(x) ==
  /\ "timesheet" \in Environment
  /\ entries' = entries \ {x}
  /\ UNCHANGED <<sessions, breaks, attendance, taskStatus, txn, now, worked>>

\* The process dies or the request's connection does, or an error ends the request:
\* nothing uncommitted survives. An instance without "abort" has no failure between the
\* two transactions of a clock-out.
Abort(w) ==
  /\ \/ "abort" \in Environment
     \/ "rollback" \in Environment /\ txn[w].op \notin {"clockedOut", "close"}
  /\ txn[w].op # "idle"
  /\ Finish(w)
  /\ UNCHANGED <<sessions, breaks, attendance, entries, taskStatus, now, worked>>

\* Unless the instance has slow requests, a request finishes within its minute.
Tick ==
  /\ now < MaxTime
  /\ "slow" \in Environment \/ \A w \in Workers : txn[w].op = "idle"
  /\ now' = now + 1
  /\ worked' = [s \in SessionIds |-> worked[s] + IF sessions[s].status = "RUNNING" THEN 1 ELSE 0]
  /\ UNCHANGED <<sessions, breaks, attendance, entries, taskStatus, txn>>

-----------------------------------------------------------------------------
Init ==
  /\ sessions = NoView
  /\ breaks = [b \in BreakIds |-> NoBreak]
  /\ attendance = [e \in Employees |-> [d \in Days |-> [in |-> None, out |-> None]]]
  /\ entries = {}
  /\ taskStatus = [t \in Tasks |-> "NOT_STARTED"]
  /\ txn = [w \in Workers |-> Idle]
  /\ now = 0
  /\ worked = [s \in SessionIds |-> 0]

\* A new request arrives at an idle worker.
Request(w) ==
  \/ \E e \in Employees, t \in Tasks : StartRead(w, e, t)
  \/ \E s \in SessionIds : \/ PauseRead(w, s) \/ ResumeRead(w, s)
                           \/ CancelRead(w, s) \/ CompleteRead(w, s)
  \/ \E e \in Employees : \/ BreakStartRead(w, e) \/ BreakEndRead(w, e)
                          \/ ClockIn(w, e) \/ ClockOutRead(w, e)

\* The worker carries its request on.
Advance(w) ==
  \/ StartLock(w) \/ StartWrite(w)
  \/ PauseWrite(w) \/ ResumeWrite(w) \/ CancelWrite(w) \/ CompleteWrite(w)
  \/ BreakStartWrite(w) \/ BreakEndWrite(w)
  \/ ClockOutWrite(w) \/ CloseRead(w) \/ CloseWrite(w)

Next ==
  \/ \E w \in Workers : Request(w) \/ Advance(w) \/ Abort(w)
  \/ \E e \in Employees, t \in Tasks : LogTime(e, t)
  \/ \E x \in entries : DeleteEntry(x)
  \/ AutoClose
  \/ Tick

Spec == Init /\ [][Next]_vars

\* A pool thread that has a request runs it to the end; nobody has to send one.
FairSpec == Spec /\ \A w \in Workers : WF_vars(Advance(w))

-----------------------------------------------------------------------------
(* Type correctness *)

\* Every row, snapshot and counter has the shape its column or field allows.
TypeOK ==
  /\ sessions \in [SessionIds -> Session]
  /\ breaks \in [BreakIds -> Break]
  /\ attendance \in [Employees -> [Days -> Presence]]
  /\ entries \subseteq Entry
  /\ taskStatus \in [Tasks -> TaskStatuses]
  /\ txn \in [Workers -> Txn]
  /\ now \in 0..MaxTime
  /\ worked \in [SessionIds -> Nat]

-----------------------------------------------------------------------------
(* Properties that hold however requests interleave *)

\* A session has an end_time exactly when it is not running, although concurrent
\* flushes merge their columns into one row: daily summaries and end_break's choice
\* of the session to resume both read end_time.
StopTimeMatchesStatus ==
  \A s \in SessionIds : (sessions[s].end = None) <=> (sessions[s].status \in {"ABSENT", "RUNNING"})

\* What start_session holds FOR UPDATE is what the table holds: no pause, completion
\* or clock-out slips between its lock and its auto-pause, so none is overwritten.
LockedRowsCurrent ==
  \A w \in Workers : \A s \in Locked(w) : sessions[s] = txn[w].view[s]

\* A request that a worker has taken up ends: waiting for another start_session's
\* row locks never lasts.
RequestsFinish == \A w \in Workers : (txn[w].op # "idle") ~> (txn[w].op = "idle")

\* Rule 7: a session still open once its employee's clock-out has committed is
\* eventually closed, whatever other requests do to it meanwhile.
ClockOutClosesSessions ==
  \A w \in Workers, s \in SessionIds :
    (/\ txn[w].op = "clockedOut" /\ sessions[s].employee = txn[w].employee
     /\ sessions[s].status \in OpenStatuses)
    ~> (sessions[s].status \notin OpenStatuses)

-----------------------------------------------------------------------------
(* Properties of requests that do not overlap *)

\* Rule 10: an employee has at most one running or paused session for a task.
OneOpenPerTask ==
  \A e \in Employees : \A s, r \in OpenSessions(e) : sessions[s].task = sessions[r].task => s = r

\* Rule 1 as far as the code enforces it: starting and resuming never give an
\* employee a second running session; only the end of a break can.
OnlyBreakEndDoubles ==
  [][\A e \in Employees :
       (Cardinality(Running(e)) <= 1 /\ Cardinality(Running(e))' > 1)
       => \E w \in Workers : txn[w].op = "breakEnd" /\ txn[w].employee = e]_vars

\* Once the clock-out request is over, and until the next clock-in, the employee
\* has no running or paused session and no open break. A day the scheduler may have
\* closed (at clock_in + max_hours) says nothing: it leaves sessions and breaks alone.
ClosedAfterClockOut ==
  \A e \in Employees :
    (/\ \A d \in Days : LET p == attendance[e][d] IN
                        p.in # None => p.out \notin {None, p.in + AutoCloseAfter}
     /\ \A w \in Workers : txn[w].employee # e)
    => OpenSessions(e) = {} /\ OpenBreaks(e) = {}

\* A completed, cancelled or abandoned session is never touched again: pause,
\* resume, breaks and clock-out all leave it alone.
FinishedSessionsFrozen ==
  [][\A s \in SessionIds : sessions[s].status \in {"COMPLETED", "CANCELLED", "ABANDONED"}
                           => sessions'[s] = sessions[s]]_vars

\* complete_session never commits a COMPLETED session of a minute or more without
\* its time record, and the record carries the session's minutes.
CompletionLeavesEntry ==
  [][\A s \in SessionIds :
       (/\ sessions[s].status # "COMPLETED" /\ sessions'[s].status = "COMPLETED"
        /\ sessions'[s].minutes >= 1)
       => \E x \in entries' : x.source = s /\ x.minutes = sessions'[s].minutes]_vars

\* A session is booked to the timesheet at most once, and only when completed.
BookedOnce ==
  /\ \A x, y \in entries : x.source = y.source /\ x.source # None => x = y
  /\ \A x \in entries : x.source # None => sessions[x.source].status = "COMPLETED"

\* No pause, break, resume or completion loses time that was worked: the minutes a
\* session shows cover every tick it was running.
WorkNeverLost ==
  \A s \in SessionIds : sessions[s].minutes + Accrued(sessions[s], now) >= worked[s]

\* A task somebody has started a session on has left the backlog.
StartedTaskLeftBacklog ==
  \A s \in SessionIds : sessions[s].status # "ABSENT" => taskStatus[sessions[s].task] # "NOT_STARTED"

\* What a session may be: alone on its task, closed with the day, on a started task.
SessionsInPlace == OneOpenPerTask /\ ClosedAfterClockOut /\ StartedTaskLeftBacklog

\* What is worked is kept, and what is booked is booked once.
WorkBooked == BookedOnce /\ WorkNeverLost

\* What is finished stays as it was, with its record.
HistoryKept == FinishedSessionsFrozen /\ CompletionLeavesEntry

-----------------------------------------------------------------------------
(* Claims of comments and docstrings that the code does not keep *)

\* "Rule 1: Check for any other RUNNING session": an employee has one running timer.
OneRunning == \A e \in Employees : \A s, r \in Running(e) : s = r

\* "PAUSED sessions already had their time counted at pause": counted once. A pause
\* after a resume counts from the first start_time again.
TimeCountedOnce ==
  \A s \in SessionIds : sessions[s].status = "PAUSED" => sessions[s].minutes <= worked[s]
=============================================================================
