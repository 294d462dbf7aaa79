--------------------------- MODULE AttendanceRecords ---------------------------
(***************************************************************************)
(* The attendance rows of one employee, attendance_service.py: clock-in,   *)
(* clock-out, the automatic clock-out, marking by hand, leave days, and    *)
(* the requests to correct a missed clock-in or clock-out, which go        *)
(* through the approval engine. Time is counted in ticks, DayLength to a   *)
(* day; late marks and overtime are left out.                              *)
(***************************************************************************)
EXTENDS ApprovalEngine

CONSTANTS
  Kind,             \* what each target corrects: "in" or "out"
  Charts,
  Dates, DayLength, MaxTime,
  AutoAfter,        \* the automatic clock-out comes so long after the clock-in
  Window,           \* how old a clock-in a clock-out still closes (36 hours)
  HalfDay,          \* fewer hours make half a day
  OfficeDays,       \* days that administrators mark by hand or grant leave for
  ByHand            \* what they may mark a day with

VARIABLES
  rows,             \* attendance, one row per date
  corrections,      \* missed_clockin_requests and missed_clockout_requests
  now

engine == <<workflows, txn, org, instances>>
vars == <<workflows, txn, org, instances, rows, corrections, now>>

Times == 0..MaxTime
DateOf(time) == time \div DayLength

Statuses == {"PRESENT", "HALF_DAY", "ABSENT", "ON_LEAVE", "WFH", "HOLIDAY"}
Protected == {"ON_LEAVE", "WFH", "HOLIDAY"}

Row == [in : Times \cup {None}, out : Times \cup {None}, status : Statuses, hours : Nat]
NoRow == [in |-> None, out |-> None, status |-> "NONE", hours |-> 0]

Correction == [date : Dates, at : Times, status : Verdicts]
NoCorrection == [status |-> "NONE"]

Worked(row) == IF row.in # None /\ row.out # None /\ row.out > row.in THEN row.out - row.in ELSE 0

\* _apply_hours
WithHours(row) == [row EXCEPT !.hours = Worked(row)]

\* _apply_half_day_status
WithHalfDay(row) ==
  IF row.out = None \/ row.status \in Protected THEN row
  ELSE [row EXCEPT !.status = IF row.hours < HalfDay THEN "HALF_DAY" ELSE "PRESENT"]

-----------------------------------------------------------------------------
(* The employee's own clock *)

ClockIn ==
  LET d == DateOf(now) IN
  /\ rows[d].in = None
  /\ rows' = [rows EXCEPT ![d] = WithHours([@ EXCEPT !.in = now, !.status = "PRESENT"])]
  /\ UNCHANGED <<engine, corrections, now>>

OpenDates == {d \in Dates : rows[d].in # None /\ rows[d].out = None}

Closed_hoursOnly(row, time) == WithHours([row EXCEPT !.out = time])

Closed(row, time) == WithHalfDay(WithHours([row EXCEPT !.out = time]))

\* The latest open clock-in that is recent enough, whatever its date.
ClockOut ==
  \E d \in {x \in OpenDates : rows[x].in >= now - Window} :
    /\ \A x \in OpenDates : rows[x].in <= rows[d].in
    /\ rows' = [rows EXCEPT ![d] = Closed(@, now)]
    /\ UNCHANGED <<engine, corrections, now>>

\* auto_close_missed_clockouts, on every date up to today or on a given one.
AutoClose(D) ==
  LET late == {d \in OpenDates \cap D : now >= rows[d].in + AutoAfter} IN
  /\ late # {}
  /\ rows' = [d \in Dates |-> IF d \in late THEN Closed(rows[d], rows[d].in + AutoAfter) ELSE rows[d]]
  /\ UNCHANGED <<engine, corrections, now>>

-----------------------------------------------------------------------------
(* The office *)

\* mark_attendance: a time that is not given keeps the one there is.
Mark(d, mark) ==
  LET in == IF mark.in = None THEN rows[d].in ELSE mark.in
      out == IF mark.out = None THEN rows[d].out ELSE mark.out
  IN  /\ in # None /\ out # None => out > in
      /\ rows' = [rows EXCEPT ![d] = WithHours([@ EXCEPT !.status = mark.status, !.in = in, !.out = out])]
      /\ UNCHANGED <<engine, corrections, now>>

\* Approved leave marks the day whatever its row says; its cancellation deletes the row.
GrantLeave(d) ==
  /\ rows' = [rows EXCEPT ![d].status = "ON_LEAVE"]
  /\ UNCHANGED <<engine, corrections, now>>

CancelLeave(d) ==
  /\ rows[d].status = "ON_LEAVE"
  /\ rows' = [rows EXCEPT ![d] = NoRow]
  /\ UNCHANGED <<engine, corrections, now>>

-----------------------------------------------------------------------------
(* Corrections *)

HasPending(kind, d) ==
  \E t \in Targets : Kind[t] = kind /\ corrections[t].status = "PENDING" /\ corrections[t].date = d

\* A clock-out can be missing only after a clock-in, a clock-in only before a clock-out.
Missing(kind, d, time) ==
  LET row == rows[d] IN
  IF kind = "out" THEN row.in # None /\ row.out = None /\ time > row.in
  ELSE row.in = None /\ (row.out # None => time < row.out)

\* _finalize_missed_clockout_decision, _finalize_missed_clockin_decision. A clock-in
\* that appeared since the request raises.
CanFinalize(kind, d) == kind = "in" => rows[d].in = None

Corrected_keepsHours(kind, row, time) ==
  IF kind = "out" THEN IF row = NoRow THEN row ELSE [row EXCEPT !.out = time]
  ELSE [row EXCEPT !.in = time, !.status = "PRESENT"]

Corrected(kind, row, time) ==
  IF kind = "out" THEN IF row = NoRow THEN row ELSE Closed(row, time)
  ELSE WithHalfDay(WithHours([row EXCEPT !.in = time,
         !.status = IF @ \in {"NONE", "ABSENT", "ON_LEAVE", "HOLIDAY"} THEN "PRESENT" ELSE @]))

Decided(t, c, verdict) ==
  /\ corrections' = [corrections EXCEPT ![t] = [c EXCEPT !.status = verdict]]
  /\ rows' = IF verdict = "APPROVED"
             THEN [rows EXCEPT ![c.date] = Corrected(Kind[t], @, c.at)] ELSE rows

SubmitCorrection_unrouted(t, d, time) ==
  /\ corrections[t] = NoCorrection
  /\ Missing(Kind[t], d, time) /\ time <= now /\ ~ HasPending(Kind[t], d)
  /\ corrections' = [corrections EXCEPT ![t] = [date |-> d, at |-> time, status |-> "PENDING"]]
  /\ UNCHANGED <<engine, rows, now>>

\* submit_missed_clockin_request, submit_missed_clockout_request: refused without an
\* active workflow; granted at once when nobody has to approve.
SubmitCorrection(t, d, time) ==
  /\ corrections[t] = NoCorrection
  /\ Missing(Kind[t], d, time) /\ time <= now /\ ~ HasPending(Kind[t], d)
  /\ \E v \in Verdicts : /\ StartFlow(t, v)
                         /\ Decided(t, [date |-> d, at |-> time, status |-> "PENDING"], v)
  /\ UNCHANGED <<workflows, txn, org, now>>

\* approve_missed_clock*_request, reject_missed_clock*_request pass their checks.
DirectlyDecidable(t) == corrections[t].status = "PENDING" /\ instances[t] = << >>

Verdict_swallowsError(t, v) ==
  IF v = "PENDING" \/ (v = "APPROVED" /\ ~ CanFinalize(Kind[t], corrections[t].date))
  THEN UNCHANGED <<rows, corrections>> ELSE Decided(t, corrections[t], v)

Verdict_overwrites(t, v) ==
  IF v = "PENDING" THEN UNCHANGED <<rows, corrections>> ELSE Decided(t, corrections[t], v)

\* What the engine's verdict does, if it does not raise.
Verdict(t, v) ==
  IF v = "PENDING" THEN UNCHANGED <<rows, corrections>>
  ELSE /\ v = "APPROVED" => CanFinalize(Kind[t], corrections[t].date)
       /\ Decided(t, corrections[t], v)

ActWrite(w) ==
  /\ \E v \in Verdicts : ActCommit(w, v) /\ Verdict(txn[w].target, v)
  /\ UNCHANGED now

\* The request dies or raises: nothing it did is committed.
Abort(w) == AbortRequest(w) /\ UNCHANGED <<org, instances, rows, corrections, now>>

Engine(w) ==
  \/ \E x \in Employees, t \in Targets : \E i \in DOMAIN instances[t], a \in {"APPROVED", "REJECTED"} :
       ActRead(w, x, t, i, a) /\ UNCHANGED <<rows, corrections, now>>
  \/ ActLook(w) /\ UNCHANGED <<rows, corrections, now>>
  \/ ActWrite(w)

Clock ==
  \/ ClockIn \/ ClockOut
  \/ AutoClose({d \in Dates : d <= DateOf(now)}) \/ \E d \in Dates : AutoClose({d})

Office ==
  \E d \in OfficeDays :
    \/ \E mark \in ByHand : Mark(d, mark)
    \/ GrantLeave(d) \/ CancelLeave(d)

Tick ==
  /\ now < MaxTime
  /\ now' = now + 1
  /\ UNCHANGED <<engine, rows, corrections>>

Init ==
  /\ EngineInit(StepLists, Charts)
  /\ rows = [d \in Dates |-> NoRow]
  /\ corrections = [t \in Targets |-> NoCorrection]
  /\ now = 0

Next ==
  \/ Clock \/ Office \/ Tick
  \/ \E t \in Targets, d \in Dates, time \in Times : SubmitCorrection(t, d, time)
  \/ \E w \in Workers : Engine(w) \/ Abort(w)

Spec == Init /\ [][Next]_vars

-----------------------------------------------------------------------------
\* Rows and requests have the shape of their columns, and total_hours is the time
\* between the two stamps on every path that writes one of them.
RecordsTypeOK ==
  /\ EngineTypeOK
  /\ rows \in [Dates -> Row \cup {NoRow}]
  /\ corrections \in [Targets -> Correction \cup {NoCorrection}]
  /\ \A d \in Dates : rows[d].hours = Worked(rows[d])

\* The direct endpoints decide no request at all: a pending one has been routed through
\* the engine, "so the same request can't be actioned twice".
OneMechanism == \A t \in Targets : ~ DirectlyDecidable(t)

\* A pending correction has an approver who can still decide it, though its approval may
\* raise for ever because a clock-in appeared; a decided one has none left to act.
PendingIsOpen ==
  \A t \in Targets : corrections[t].status = "PENDING" <=> IndexesOf(t, {"PENDING"}) # {}

\* Left to the employee and its approvers, a clock-in is never changed: neither by the
\* clock nor by the approval of a request that was filed before it existed.
ClockInStands ==
  [][\A d \in Dates \ OfficeDays : rows[d].in # None => rows'[d].in = rows[d].in]_vars

\* Left to them, nobody leaves before coming, and the status says whether the hours make
\* half a day: after clock-outs by hand, automatic, across midnight, or by correction.
ClosedRowsSound ==
  \A d \in Dates \ OfficeDays :
    rows[d].in # None /\ rows[d].out # None =>
      /\ rows[d].in <= rows[d].out
      /\ rows[d].status = IF rows[d].hours < HalfDay THEN "HALF_DAY" ELSE "PRESENT"

\* The rows of the day and the corrections are right, and what was clocked stands.
RecordsSound == [](RecordsTypeOK /\ OneMechanism /\ PendingIsOpen /\ ClosedRowsSound) /\ ClockInStands
=============================================================================
