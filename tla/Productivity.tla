------------------------------ MODULE Productivity ------------------------------
(***************************************************************************)
(* Presence, breaks, work and idle time of one employee's days, as the     *)
(* pages of services/productivity compute them: kpi_calculator.py (a day), *)
(* report_aggregator.py (a period) and timeline_builder.py (the gaps an    *)
(* employee explains to idle_analyzer.py).                                 *)
(*                                                                         *)
(* The pages only read. Their rows are written by the handlers of          *)
(* WorkSession, of which this module keeps, one request at a time, the     *)
(* columns the pages read: when a session, a break and a day begin and end.*)
(* A tick stands for a minute; local time is Offset ticks ahead of UTC.    *)
(***************************************************************************)
EXTENDS Integers, FiniteSets, SequencesExt

CONSTANTS
  DayLength, Offset, MaxTime,
  None,              \* SQL NULL
  AutoCloseAfter,    \* hours after which an open day is closed, as ticks
  ClockOutWindow,    \* a day opened longer ago than this is not clocked out
  Modes              \* [operations, sessions, breaks, pauses, time]: what an instance does, and its bounds

VARIABLES
  mode, now,
  attendance,        \* clock_in and clock_out of each local date
  breaks,            \* rows of employee_breaks, in the order of their creation
  sessions,          \* rows of task_work_sessions, in the order of their creation
  pauses,            \* rows of task_pause_history of the employee's tasks
  labels,            \* rows of idle_classification
  worked             \* history: the ticks each session really ran

vars == <<mode, now, attendance, breaks, sessions, pauses, labels, worked>>

Dates == 0..((MaxTime + Offset) \div DayLength)
UtcDate(t) == t \div DayLength
LocalDate(t) == (t + Offset) \div DayLength
Smaller(x, y) == IF x <= y THEN x ELSE y
Larger(x, y) == IF x >= y THEN x ELSE y

-----------------------------------------------------------------------------
(* Intervals <<from, to>> in lists, as the calculator handles them *)

Joined_toTheLast(list, next) ==
  IF list = <<>> \/ next[1] > Last(list)[2] THEN Append(list, next)
  ELSE Append(Front(list), <<Last(list)[1], next[2]>>)
\* The next interval, in the order of their beginnings, joins the last one or stands alone.
Joined(list, next) ==
  IF list = <<>> \/ next[1] > Last(list)[2] THEN Append(list, next)
  ELSE Append(Front(list), <<Last(list)[1], Larger(Last(list)[2], next[2])>>)

Merged(list) == FoldLeft(Joined, <<>>, SortSeq(list, LAMBDA x, y : x[1] < y[1]))

Rest_oneSided(piece, cut) ==
  IF cut[2] <= piece[1] \/ cut[1] >= piece[2] THEN <<piece>>
  ELSE IF cut[1] > piece[1] THEN <<<<piece[1], cut[1]>>>>
  ELSE IF cut[2] < piece[2] THEN <<<<cut[2], piece[2]>>>> ELSE <<>>
\* What a break leaves of a piece of work: the part before it and the part after it.
Rest(piece, cut) ==
  IF cut[2] <= piece[1] \/ cut[1] >= piece[2] THEN <<piece>>
  ELSE (IF cut[1] > piece[1] THEN <<<<piece[1], cut[1]>>>> ELSE <<>>)
       \o (IF cut[2] < piece[2] THEN <<<<cut[2], piece[2]>>>> ELSE <<>>)

Without(pieces, cut) == FoldLeft(LAMBDA done, piece : done \o Rest(piece, cut), <<>>, pieces)
Subtracted(tasks, cuts) == FoldLeft(Without, tasks, Merged(cuts))

Clamped_startOnly(list, in, out) ==
  SelectSeq([i \in DOMAIN list |-> <<Larger(list[i][1], in), list[i][2]>>], LAMBDA x : x[1] < x[2])
\* The parts of the intervals that lie in the presence.
Clamped(list, in, out) ==
  SelectSeq([i \in DOMAIN list |-> <<Larger(list[i][1], in), Smaller(list[i][2], out)>>],
            LAMBDA x : x[1] < x[2])

Length(list) == FoldLeft(LAMBDA sum, x : sum + x[2] - x[1], 0, list)

\* process_intervals: clamp, merge, merge, subtract, sum.
ProductiveTime(in, out, tasks, cuts) ==
  Length(Subtracted(Merged(Clamped(tasks, in, out)), Merged(Clamped(cuts, in, out))))

-----------------------------------------------------------------------------
(* What a page reads, and the numbers of one day *)

Until(end) == IF end = None THEN now ELSE end
Span(row) == <<row.start, Until(row.end)>>
Spans(rows) == [i \in DOMAIN rows |-> Span(rows[i])]

BreaksOf(d) == Spans(SelectSeq(breaks, LAMBDA b : b.date = d))

SessionsOf_utc(d) == Spans(SelectSeq(sessions, LAMBDA s : UtcDate(s.start) = d))
\* The sessions whose start lies in the local day.
SessionsOf(d) == Spans(SelectSeq(sessions, LAMBDA s : LocalDate(s.start) = d))
PausesOf(waiting) == Spans(SelectSeq(pauses, LAMBDA p : p.waiting = waiting))

NoNumbers == [presence |-> 0, breaks |-> 0, productive |-> 0, paused |-> 0, waiting |-> 0]

\* calculate_raw_metrics; a day that is still open lasts until now.
Raw(d) ==
  LET in == attendance[d].in
      out == Until(attendance[d].out)
      Within(list) == Length(Merged(Clamped(list, in, out)))
  IN  IF in = None THEN NoNumbers
      ELSE [presence |-> Larger(0, out - in), breaks |-> Within(BreaksOf(d)),
            productive |-> ProductiveTime(in, out, SessionsOf(d), BreaksOf(d)),
            paused |-> Within(PausesOf(FALSE)), waiting |-> Within(PausesOf(TRUE))]

\* calculate_raw_metrics_batch, for pages on many employees, knows of no paused task.
BatchRaw(d) == [Raw(d) EXCEPT !.paused = 0, !.waiting = 0]

\* The formulas of compile_kpi_metrics.
Compiled(raw) ==
  LET rest == Smaller(raw.presence, raw.breaks)
      organisation == raw.presence - rest
      productive == Smaller(organisation, raw.productive)
  IN  [presence |-> raw.presence, breaks |-> rest, organisation |-> organisation,
       productive |-> productive, paused |-> raw.paused, waiting |-> raw.waiting,
       idle |-> Larger(0, organisation - productive - raw.paused - raw.waiting)]

\* verify_kpi_invariants raises, and the page answers with an error.
Refused(kpi) ==
  \/ kpi.presence < kpi.breaks \/ kpi.presence < kpi.productive
  \/ kpi.organisation # kpi.presence - kpi.breaks
  \/ kpi.organisation # kpi.productive + kpi.idle + kpi.paused + kpi.waiting

-----------------------------------------------------------------------------
(* The report of a period *)

ReportSessions_all(d, first, last) == Spans(SelectSeq(sessions, LAMBDA s : LocalDate(s.start) \in first..last))
\* Selected by the local dates of the period, grouped by the UTC date of their start.
ReportSessions(d, first, last) ==
  Spans(SelectSeq(sessions, LAMBDA s : LocalDate(s.start) \in first..last /\ UtcDate(s.start) = d))

\* get_bulk_raw_metrics: an open day counts only if it is today's.
ReportRaw(d, first, last) ==
  LET in == attendance[d].in
      out == Until(attendance[d].out)
      open == attendance[d].out = None
  IN  IF in = None THEN NoNumbers
      ELSE [NoNumbers EXCEPT
              !.presence = IF open /\ d # UtcDate(now) THEN 0 ELSE Larger(0, out - in),
              !.breaks = Length(Merged(Clamped(BreaksOf(d), in, out))),
              !.productive = ProductiveTime(in, out, ReportSessions(d, first, last), BreaksOf(d))]

SumOver(field, first, last) ==
  FoldLeft(LAMBDA sum, d : sum + ReportRaw(d, first, last)[field], 0, [i \in 1..(last - first + 1) |-> first + i - 1])

\* get_employee_range_metrics and get_bulk_productivity_report, over a period.
PeriodKpi(first, last) ==
  Compiled([NoNumbers EXCEPT !.presence = SumOver("presence", first, last),
                             !.breaks = SumOver("breaks", first, last),
                             !.productive = SumOver("productive", first, last)])

-----------------------------------------------------------------------------
(* The timeline: the gaps between what is recorded *)

Walk_forgets(found, x) ==
  [gaps |-> IF x[1] > found.at THEN found.gaps \cup {<<found.at, x[1]>>} ELSE found.gaps,
   at |-> x[2]]
Walk(found, x) ==
  [gaps |-> IF x[1] > found.at THEN found.gaps \cup {<<found.at, x[1]>>} ELSE found.gaps,
   at |-> Larger(found.at, x[2])]

\* Breaks and sessions by their beginnings; what none of them reaches is idle, and so is
\* the time after the last of them.
Gaps(d) ==
  LET in == attendance[d].in
      out == Until(attendance[d].out)
      rows == SortSeq(BreaksOf(d) \o SessionsOf(d), LAMBDA x, y : x[1] < y[1])
      found == FoldLeft(Walk, [gaps |-> {}, at |-> in], rows)
  IN  IF in = None THEN {}
      ELSE found.gaps \cup (IF found.at < out THEN {<<found.at, out>>} ELSE {})

-----------------------------------------------------------------------------
(* The requests that write the rows *)

Allowed(operation) == operation \in mode.operations

Running == {i \in DOMAIN sessions : sessions[i].status = "RUNNING"}
OpenSessions == {i \in DOMAIN sessions : sessions[i].status \in {"RUNNING", "PAUSED"}}
OpenBreaks == {i \in DOMAIN breaks : breaks[i].end = None}
ClockedIn(d) == d \in Dates /\ attendance[d].in # None /\ attendance[d].out = None

\* The sessions of S stop now, whether they were running or not.
Stopped(S, status, reason) ==
  [i \in DOMAIN sessions |->
     IF i \in S THEN [sessions[i] EXCEPT !.status = status, !.end = now, !.reason = reason] ELSE sessions[i]]
EndedBreaks(S) == [i \in DOMAIN breaks |-> IF i \in S THEN [breaks[i] EXCEPT !.end = now] ELSE breaks[i]]

ClockIn ==
  /\ attendance[LocalDate(now)].in = None
  /\ attendance' = [attendance EXCEPT ![LocalDate(now)].in = now]
  /\ UNCHANGED <<mode, now, breaks, sessions, pauses, labels, worked>>

Closable == {d \in Dates : ClockedIn(d) /\ attendance[d].in >= now - ClockOutWindow}

\* The latest open day is closed, and with it every break and session, paused ones too.
ClockOut ==
  /\ \E d \in Closable :
       /\ \A c \in Closable : attendance[c].in <= attendance[d].in
       /\ attendance' = [attendance EXCEPT ![d].out = now]
  /\ breaks' = EndedBreaks(OpenBreaks)
  /\ sessions' = Stopped(OpenSessions, "ABANDONED", "other")
  /\ UNCHANGED <<mode, now, pauses, labels, worked>>

Overdue(p) == p.in # None /\ p.out = None /\ now >= p.in + AutoCloseAfter

\* What runs goes on running beyond the end the day is given.
AutoClose ==
  /\ Allowed("autoClose") /\ \E d \in Dates : Overdue(attendance[d])
  /\ attendance' = [d \in Dates |-> IF Overdue(attendance[d])
                                    THEN [attendance[d] EXCEPT !.out = attendance[d].in + AutoCloseAfter]
                                    ELSE attendance[d]]
  /\ UNCHANGED <<mode, now, breaks, sessions, pauses, labels, worked>>

Start ==
  /\ Len(sessions) < mode.sessions                       \* bound
  /\ ClockedIn(UtcDate(now))
  /\ sessions' = Append(Stopped(Running, "PAUSED", "other"),
                        [start |-> now, end |-> None, status |-> "RUNNING", reason |-> "other"])
  /\ worked' = Append(worked, {})
  /\ UNCHANGED <<mode, now, attendance, breaks, pauses, labels>>

Pause(i) ==
  /\ Allowed("pause") /\ sessions[i].status = "RUNNING"
  /\ sessions' = Stopped({i}, "PAUSED", sessions[i].reason)
  /\ UNCHANGED <<mode, now, attendance, breaks, pauses, labels, worked>>

Resume_now(i) ==
  /\ Allowed("resume") /\ sessions[i].status = "PAUSED" /\ Running = {}
  /\ sessions' = [sessions EXCEPT ![i] = [@ EXCEPT !.status = "RUNNING", !.start = now, !.end = None, !.reason = "other"]]
  /\ UNCHANGED <<mode, now, attendance, breaks, pauses, labels, worked>>
\* The first start_time stays.
Resume(i) ==
  /\ Allowed("resume") /\ sessions[i].status = "PAUSED" /\ Running = {}
  /\ sessions' = [sessions EXCEPT ![i] = [@ EXCEPT !.status = "RUNNING", !.end = None, !.reason = "other"]]
  /\ UNCHANGED <<mode, now, attendance, breaks, pauses, labels, worked>>

\* complete_session and cancel_session, of a paused session too.
Finish(i) ==
  /\ Allowed("finish") /\ i \in OpenSessions
  /\ sessions' = Stopped({i}, "COMPLETED", sessions[i].reason)
  /\ UNCHANGED <<mode, now, attendance, breaks, pauses, labels, worked>>

StartBreak ==
  /\ Len(breaks) < mode.breaks                           \* bound
  /\ ClockedIn(LocalDate(now)) /\ OpenBreaks = {}
  /\ breaks' = Append(breaks, [start |-> now, end |-> None, date |-> LocalDate(now)])
  /\ \E S \in SUBSET Running :
       /\ Cardinality(S) = IF Running = {} THEN 0 ELSE 1
       /\ sessions' = Stopped(S, "PAUSED", "break")
  /\ UNCHANGED <<mode, now, attendance, pauses, labels, worked>>

Suspended == {i \in DOMAIN sessions : sessions[i].status = "PAUSED" /\ sessions[i].reason = "break"}

\* The session the break suspended starts again, as if it had never run before.
EndBreak ==
  /\ OpenBreaks # {}
  /\ breaks' = EndedBreaks(OpenBreaks)
  /\ IF Suspended = {} THEN UNCHANGED sessions
     ELSE \E i \in Suspended :
            /\ \A j \in Suspended : sessions[j].end <= sessions[i].end
            /\ sessions' = [sessions EXCEPT ![i] = [start |-> now, end |-> None, status |-> "RUNNING",
                                                    reason |-> "other"]]
  /\ UNCHANGED <<mode, now, attendance, pauses, labels, worked>>

\* A task of the employee's is paused or taken up again on its own page; a timer of it
\* that runs is not asked.
PauseTask(waiting) ==
  /\ Len(pauses) < mode.pauses                           \* bound
  /\ pauses' = Append(pauses, [start |-> now, end |-> None, waiting |-> waiting])
  /\ UNCHANGED <<mode, now, attendance, breaks, sessions, labels, worked>>
ResumeTask(i) ==
  /\ pauses[i].end = None
  /\ pauses' = [pauses EXCEPT ![i].end = now]
  /\ UNCHANGED <<mode, now, attendance, breaks, sessions, labels, worked>>

\* A gap is named by its two times of day.
Identifier(gap) == <<gap[1] % DayLength, gap[2] % DayLength>>

\* Which reason is given matters to no page; that one is given does.
Classify(d, gap) ==
  /\ Allowed("classify")
  /\ labels' = labels \cup {[date |-> d, gap |-> Identifier(gap)]}
  /\ UNCHANGED <<mode, now, attendance, breaks, sessions, pauses, worked>>

Tick ==
  /\ now < mode.time                                     \* bound
  /\ now' = now + 1
  /\ worked' = [i \in DOMAIN worked |-> IF i \in Running THEN worked[i] \cup {now} ELSE worked[i]]
  /\ UNCHANGED <<mode, attendance, breaks, sessions, pauses, labels>>

Init ==
  /\ mode \in Modes
  /\ now = 0 /\ attendance = [d \in Dates |-> [in |-> None, out |-> None]]
  /\ breaks = <<>> /\ sessions = <<>> /\ pauses = <<>> /\ labels = {} /\ worked = <<>>

Next ==
  \/ ClockIn \/ ClockOut \/ AutoClose \/ Start \/ StartBreak \/ EndBreak \/ Tick
  \/ \E i \in DOMAIN sessions : Pause(i) \/ Resume(i) \/ Finish(i)
  \/ \E waiting \in BOOLEAN : PauseTask(waiting)
  \/ \E i \in DOMAIN pauses : ResumeTask(i)
  \/ \E d \in Dates : \E gap \in Gaps(d) : Classify(d, gap)

Spec == Init /\ [][Next]_vars

-----------------------------------------------------------------------------
(* The numbers, tick by tick *)

Ticks(x) == x[1]..(x[2] - 1)
Cover(list) == UNION {Ticks(list[i]) : i \in DOMAIN list}
Present(d) == IF attendance[d].in = None THEN {}
              ELSE Ticks(<<attendance[d].in, Until(attendance[d].out)>>)
Resting(d) == Cover(BreaksOf(d)) \cap Present(d)
Busy(d) == (Cover(SessionsOf(d)) \cap Present(d)) \ Resting(d)

\* However sessions and breaks overlap one another and the presence, a day's break and
\* productive time count every tick of the presence once: rest as rest, work as work.
EveryTickOnce ==
  \A d \in Dates : /\ Raw(d).breaks = Cardinality(Resting(d))
                   /\ Raw(d).productive = Cardinality(Busy(d))

\* Nothing of the day was recorded before its clock-in or after its clock-out.
Inside(d) ==
  \A list \in {BreaksOf(d), SessionsOf(d)} : \A i \in DOMAIN list :
    attendance[d].in # None /\ attendance[d].in <= list[i][1] /\ list[i][2] <= Until(attendance[d].out)
Paused == Cover(Spans(pauses))

\* The gaps an employee is asked to explain are exactly the time of the day that is
\* neither rest nor work, unless something was recorded outside the presence; and their
\* length is the idle time of the day's page when no task was paused meanwhile.
GapsAreIdle ==
  \A d \in Dates :
    Inside(d) =>
      /\ UNION {Ticks(gap) : gap \in Gaps(d)} = Present(d) \ (Resting(d) \cup Busy(d))
      /\ Paused \cap Present(d) = {} =>
           Compiled(Raw(d)).idle = Cardinality(UNION {Ticks(gap) : gap \in Gaps(d)})

\* The page of a day is refused only because of a task that was paused on its own page
\* while the employee worked on another or rested, or waited while another was paused.
RefusedOverPauses ==
  \A d \in Dates :
    Refused(Compiled(Raw(d))) =>
      \/ Paused \cap (Resting(d) \cup Busy(d)) # {}
      \/ Cover(PausesOf(TRUE)) \cap Cover(PausesOf(FALSE)) # {}

\* No session begun on d, by either calendar, falls between the two.
SameCalendar(d) == \A i \in DOMAIN sessions :
  d \in {UtcDate(sessions[i].start), LocalDate(sessions[i].start)}
  => UtcDate(sessions[i].start) = LocalDate(sessions[i].start)

\* The report of a period shows a day as the day's page does, once the day is closed
\* and unless a session began in the hours in which the two calendars differ; and it
\* shows the period as the sum of its days.
ReportAgrees ==
  \A first, last \in Dates :
    first <= last =>
      /\ \A d \in first..last :
           (attendance[d].out # None /\ SameCalendar(d))
           => Compiled(ReportRaw(d, first, last)) = Compiled(BatchRaw(d))
      /\ (\A d \in first..last : attendance[d].in # None => attendance[d].out # None)
         => PeriodKpi(first, last).productive =
              FoldLeft(LAMBDA sum, d : sum + Compiled(ReportRaw(d, first, last)).productive, 0,
                       [i \in 1..(last - first + 1) |-> first + i - 1])

NumbersSound == EveryTickOnce /\ GapsAreIdle /\ RefusedOverPauses /\ ReportAgrees

-----------------------------------------------------------------------------
(* The numbers, against what was done *)

\* The work of the sessions that are filed under the day, in its presence and off its breaks.
Done(d) ==
  (UNION {worked[i] : i \in {j \in DOMAIN sessions : LocalDate(sessions[j].start) = d}}
   \cap Present(d)) \ Resting(d)

\* Time nobody worked becomes productive only when a paused session is taken up again or
\* ended - completed, cancelled or closed with the day -, and work that was done is lost
\* from its day only at the end of a break.
CountedAsWorked ==
  \A d \in Dates :
    /\ (Busy(d) \subseteq Done(d) /\ ~ (Busy(d) \subseteq Done(d))')
       => \E i \in DOMAIN sessions : sessions[i].status = "PAUSED" /\ sessions'[i] # sessions[i]
    /\ (Done(d) \subseteq Busy(d) /\ ~ (Done(d) \subseteq Busy(d))') => OpenBreaks # OpenBreaks'

\* The explanation of a gap that is over stays with it: only a session that is taken up
\* again or ended after a pause, or to which the end of a break gives a new beginning, can
\* change the gap it was given for.
ExplainedGapsStay ==
  \A d \in Dates : \A gap \in Gaps(d) :
    (gap[2] < now /\ Inside(d) /\ [date |-> d, gap |-> Identifier(gap)] \in labels)
    => \/ gap \in Gaps(d)' /\ [date |-> d, gap |-> Identifier(gap)] \in labels'
       \/ \E i \in DOMAIN sessions : sessions[i].status = "PAUSED" /\ sessions'[i] # sessions[i]

CountsSound == CountedAsWorked /\ ExplainedGapsStay
=================================================================================
