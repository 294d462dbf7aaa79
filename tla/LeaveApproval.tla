----------------------------- MODULE LeaveApproval -----------------------------
(***************************************************************************)
(* Leave requests of leave_service.py on top of the approval engine:       *)
(* applying, cancelling, the direct decision of approve_or_reject and the  *)
(* verdict of the engine, with the leave balance and the ON_LEAVE days of  *)
(* the attendance table. One calendar year; durations in half days. A      *)
(* balance row that does not exist counts as one with nothing used.        *)
(*                                                                         *)
(* A request runs from one exchange with the database to the next: Read    *)
(* (load and check), Lock (wait for the balance row, check again), Write   *)
(* (flush and commit). The recomputation of `used' is a SUM sent before    *)
(* the new status of an approval is flushed, so it does not see the change *)
(* it is made for; a cancellation has flushed its status by then.          *)
(***************************************************************************)
EXTENDS ApprovalEngine

CONSTANTS
  LeaveTypes,
  Days,             \* days of the calendar
  WorkingDays,
  Applications,     \* what an employee may ask for
  Entitlement,      \* allowance of each leave type, carried-forward days included
  DecidedBy,        \* mechanisms used on each request: "engine", "direct" or both
  Charts, Environment

HalfDays == {"FIRST_HALF", "SECOND_HALF"}

ASSUME LeaveAssumption ==
  /\ Days \subseteq Nat /\ Days # {} /\ WorkingDays \subseteq Days
  /\ IsFiniteSet(Targets) /\ Charts \subseteq Org
  /\ Applications \subseteq [type : LeaveTypes, from : Days, to : Days, half : HalfDays \cup {"NO"}]
  /\ \A a \in Applications : a.from <= a.to /\ (a.half # "NO" => a.from = a.to)
  /\ Entitlement \in [LeaveTypes -> Nat]
  /\ DecidedBy \in [Targets -> SUBSET {"engine", "direct"}]
  /\ Environment \subseteq {"abort", "cancel", "withdraw", "days"}

VARIABLES
  requests,         \* leave_requests: "NONE" before the application
  used,             \* leave_balances.used
  onLeave,          \* attendance rows with status ON_LEAVE
  today

records == <<requests, used, onLeave>>
engine == <<workflows, org, instances>>
vars == <<workflows, txn, org, instances, requests, used, onLeave, today>>

LeaveStatuses == {"PENDING", "APPROVED", "REJECTED", "CANCELLED"}
NoRequest == [status |-> "NONE"]

Span(a) == {d \in Days : a.from <= d /\ d <= a.to}
TotalDays(a) == IF a.half = "NO" THEN 2 * Cardinality(Span(a) \cap WorkingDays) ELSE 1

HasStatus(S) == {t \in Targets : requests[t].status \in S}
Of(e, type) == {t \in Targets : /\ requests[t].status # "NONE"
                                /\ Requester[t] = e /\ requests[t].leave.type = type}

\* SUM(total_days).
LeaveDays(S) == MapThenSumSet(LAMBDA t : TotalDays(requests[t].leave), S)

\* Over the approved requests in the table.
Counted(e, type) == Of(e, type) \cap HasStatus({"APPROVED"})
Approved(e, type) == LeaveDays(Counted(e, type))

-----------------------------------------------------------------------------
(* What a decision does to the balance and the attendance *)

\* _recompute_used ahead of the flush: the table is as it was.
Recomputed(e, type) == [used EXCEPT ![<<e, type>>] = Approved(e, type)]

Marks_everyDay(t, a) == {<<Requester[t], d>> : d \in Span(a)}

Marks(t, a) == {<<Requester[t], d>> : d \in Span(a) \cap WorkingDays}

WithVerdict(t, v) == [requests EXCEPT ![t].status = v]

\* _recompute_used, then _create_on_leave_attendance.
Grant(t, a) ==
  /\ used' = Recomputed(Requester[t], a.type)
  /\ onLeave' = onLeave \cup Marks(t, a)

\* SELECT ... FOR UPDATE on the balance row, held to the end of the request.
Holding == {"applyLocked", "decideLocked"}
Locked(e, type) ==
  \E w \in Workers : /\ txn[w].op \in Holding
                     /\ Requester[txn[w].target] = e /\ txn[w].leave.type = type

-----------------------------------------------------------------------------
(* apply_leave *)

ApplyRead(w, t, a) ==
  /\ requests[t] = NoRequest
  /\ \A v \in Workers : txn[v] # Idle => txn[v].target # t
  /\ StartRequest(w, [op |-> "apply", target |-> t, leave |-> a,
                      used |-> used[<<Requester[t], a.type>>]])
  /\ UNCHANGED <<engine, records, today>>

Overlaps(a, b) ==
  /\ a.from <= b.to /\ b.from <= a.to
  /\ a.half = "NO" \/ b.half = "NO" \/ a.half = b.half

Overlapping(t, a) ==
  {b \in HasStatus({"PENDING", "APPROVED"}) : /\ Requester[b] = Requester[t]
                                              /\ Overlaps(a, requests[b].leave)}

ApplyLock_early(w) ==
  LET r == txn[w] IN
  /\ r.op = "apply"
  /\ IF /\ r.used + TotalDays(r.leave) <= Entitlement[r.leave.type]
        /\ Overlapping(r.target, r.leave) = {}
     THEN txn' = [txn EXCEPT ![w].op = "applyLocked"]
     ELSE EndRequest(w)
  /\ UNCHANGED <<engine, records, today>>

\* The row is locked, but the session keeps the `used' it loaded before.
ApplyLock(w) ==
  LET r == txn[w] IN
  /\ r.op = "apply"
  /\ ~ Locked(Requester[r.target], r.leave.type)
  /\ IF /\ r.used + TotalDays(r.leave) <= Entitlement[r.leave.type]
        /\ Overlapping(r.target, r.leave) = {}
     THEN txn' = [txn EXCEPT ![w].op = "applyLocked"]
     ELSE EndRequest(w)
  /\ UNCHANGED <<engine, records, today>>

ApplyWrite(w) ==
  LET t == txn[w].target
      a == txn[w].leave
  IN  /\ txn[w].op = "applyLocked"
      /\ \E v \in {"PENDING", "APPROVED"} :
           /\ StartFlow(t, v)
           /\ requests' = [requests EXCEPT ![t] = [leave |-> a, status |-> v]]
           /\ IF v = "APPROVED" THEN Grant(t, a) ELSE UNCHANGED <<used, onLeave>>
      /\ EndRequest(w)
      /\ UNCHANGED <<workflows, org, today>>

-----------------------------------------------------------------------------
(* cancel_leave *)

\* While the engine's flow is open only if the instance has "withdraw".
MayCancel(t) == "withdraw" \in Environment \/ "engine" \notin DecidedBy[t] \/ OpenAt(t) = {}

CancelRead(w, t) ==
  /\ requests[t].status \in {"PENDING", "APPROVED"}
  /\ requests[t].leave.from >= today
  /\ StartRequest(w, [op |-> "cancel", target |-> t, was |-> requests[t].status])
  /\ UNCHANGED <<engine, records, today>>

CancelWrite_keepsMarks(w) ==
  LET t == txn[w].target IN
  /\ txn[w].op = "cancel"
  /\ requests' = WithVerdict(t, "CANCELLED")
  /\ EndRequest(w)
  /\ UNCHANGED <<engine, used, onLeave, today>>

CancelWrite_stillCounted(w) ==
  LET t == txn[w].target
      a == requests[t].leave
  IN  /\ txn[w].op = "cancel"
      /\ requests' = WithVerdict(t, "CANCELLED")
      /\ IF txn[w].was = "APPROVED"
         THEN /\ onLeave' = onLeave \ {<<Requester[t], d>> : d \in Span(a)}
              /\ used' = Recomputed(Requester[t], a.type)
         ELSE UNCHANGED <<used, onLeave>>
      /\ EndRequest(w)
      /\ UNCHANGED <<engine, today>>

\* Taking the ON_LEAVE days away flushes the new status too, so the SUM that follows leaves
\* this request out. The flow's instances are left as they are. (The row lock of another
\* request may come between the SUM and the commit; here they are one step.)
CancelWrite(w) ==
  LET t == txn[w].target
      a == requests[t].leave
  IN  /\ txn[w].op = "cancel"
      /\ requests' = WithVerdict(t, "CANCELLED")
      /\ IF txn[w].was = "APPROVED"
         THEN /\ onLeave' = onLeave \ {<<Requester[t], d>> : d \in Span(a)}
              /\ used' = [used EXCEPT ![<<Requester[t], a.type>>] =
                            LeaveDays(Counted(Requester[t], a.type) \ {t})]
         ELSE UNCHANGED <<used, onLeave>>
      /\ EndRequest(w)
      /\ UNCHANGED <<engine, today>>

-----------------------------------------------------------------------------
(* approve_or_reject *)

DecideRead_anyStatus(w, t, action) ==
  /\ requests[t].status # "NONE"
  /\ StartRequest(w, [op |-> "decide", target |-> t, leave |-> requests[t].leave, action |-> action])
  /\ UNCHANGED <<engine, records, today>>

\* By anybody but the requester.
DecideRead(w, t, action) ==
  /\ requests[t].status = "PENDING"
  /\ StartRequest(w, [op |-> "decide", target |-> t, leave |-> requests[t].leave, action |-> action])
  /\ UNCHANGED <<engine, records, today>>

DecideLock_usedColumn(w) ==
  LET r == txn[w]
      e == Requester[r.target]
  IN  /\ r.op = "decide" /\ r.action = "APPROVED"
      /\ ~ Locked(e, r.leave.type)
      /\ IF used[<<e, r.leave.type>>] + TotalDays(r.leave) <= Entitlement[r.leave.type]
         THEN txn' = [txn EXCEPT ![w].op = "decideLocked"]
         ELSE EndRequest(w)
      /\ UNCHANGED <<engine, records, today>>

\* H4: the balance is checked again, against the approved requests themselves.
DecideLock(w) ==
  LET r == txn[w]
      e == Requester[r.target]
  IN  /\ r.op = "decide" /\ r.action = "APPROVED"
      /\ ~ Locked(e, r.leave.type)
      /\ IF Approved(e, r.leave.type) + TotalDays(r.leave) <= Entitlement[r.leave.type]
         THEN txn' = [txn EXCEPT ![w].op = "decideLocked"]
         ELSE EndRequest(w)
      /\ UNCHANGED <<engine, records, today>>

DecideWrite(w) ==
  LET r == txn[w] IN
  /\ \/ r.op = "decideLocked" /\ Grant(r.target, r.leave)
     \/ r.op = "decide" /\ r.action = "REJECTED" /\ UNCHANGED <<used, onLeave>>
  /\ requests' = WithVerdict(r.target, r.action)
  /\ EndRequest(w)
  /\ UNCHANGED <<engine, today>>

-----------------------------------------------------------------------------
(* The engine's verdict: _update_target_status *)

ActWrite(w) ==
  LET t == txn[w].target IN
  /\ \E v \in Verdicts :
       /\ ActCommit(w, v)
       /\ requests' = IF v = "PENDING" THEN requests ELSE WithVerdict(t, v)
       /\ IF v = "APPROVED" THEN Grant(t, requests[t].leave) ELSE UNCHANGED <<used, onLeave>>
  /\ UNCHANGED today

Engine(w) ==
  \/ \E x \in Employees, t \in Targets : \E i \in DOMAIN instances[t], a \in {"APPROVED", "REJECTED"} :
       /\ "engine" \in DecidedBy[t]
       /\ ActRead(w, x, t, i, a) /\ UNCHANGED <<records, today>>
  \/ ActLook(w) /\ UNCHANGED <<records, today>>
  \/ ActWrite(w)

Serve(w) ==
  \/ \E t \in Targets, a \in Applications : ApplyRead(w, t, a)
  \/ ApplyLock(w) \/ ApplyWrite(w)
  \/ \E t \in Targets : "cancel" \in Environment /\ MayCancel(t) /\ CancelRead(w, t)
  \/ CancelWrite(w)
  \/ \E t \in Targets, a \in {"APPROVED", "REJECTED"} : "direct" \in DecidedBy[t] /\ DecideRead(w, t, a)
  \/ DecideLock(w) \/ DecideWrite(w)

\* Uncommitted work and the row lock go with the connection.
Abort(w) ==
  /\ "abort" \in Environment
  /\ AbortRequest(w)
  /\ UNCHANGED <<org, instances, records, today>>

Tomorrow ==
  /\ "days" \in Environment
  /\ today + 1 \in Days
  /\ today' = today + 1
  /\ UNCHANGED <<engine, txn, records>>

Init ==
  /\ EngineInit(StepLists, Charts)
  /\ requests = [t \in Targets |-> NoRequest]
  /\ used = [b \in Employees \X LeaveTypes |-> 0]
  /\ onLeave = {}
  /\ today = Min(Days)

Next == (\E w \in Workers : Serve(w) \/ Engine(w) \/ Abort(w)) \/ Tomorrow

Spec == Init /\ [][Next]_vars

-----------------------------------------------------------------------------
\* Rows have the shape of their columns, and nobody is on leave on a day off.
TypeOK ==
  /\ EngineTypeOK
  /\ requests \in [Targets -> {NoRequest} \cup [leave : Applications, status : LeaveStatuses]]
  /\ used \in [Employees \X LeaveTypes -> Nat]
  /\ onLeave \subseteq Employees \X WorkingDays
  /\ today \in Days

\* Direct decisions re-check the allowance under the balance row's lock ("to prevent
\* over-allocation"): however they overlap, no more is approved than there is.
NeverOverAllocated ==
  \A e \in Employees, type \in LeaveTypes : Approved(e, type) <= Entitlement[type]

\* Two applications of one leave type for the same days never both get in: the second
\* waits for the balance row and finds the first. (Leave of another type has another
\* balance row, so nothing orders the two.) Halves of one day do not overlap.
AdmittedOnce ==
  [][\A t, u \in Targets :
       (/\ t # u /\ Requester[t] = Requester[u]
        /\ requests[t] = NoRequest /\ requests'[t] # NoRequest
        /\ requests'[u].status \in {"PENDING", "APPROVED"}
        /\ requests'[t].leave.type = requests'[u].leave.type)
       => ~ Overlaps(requests'[t].leave, requests'[u].leave)]_vars

\* Two halves of one day share a row of the attendance table, and the cancellation of one
\* takes it away from the other.
LostToOtherHalf(t) ==
  \E u \in HasStatus({"CANCELLED"}) :
    /\ Requester[u] = Requester[t] /\ requests[u].leave.from = requests[t].leave.from
    /\ requests[u].leave.half # "NO" /\ requests[t].leave.half # "NO"

\* The attendance table shows an employee on leave only on working days of its approved
\* requests, and on all of them, whoever approved them and whatever was cancelled before or
\* since; but for half days whose other half was cancelled.
OnLeaveIsApproved ==
  /\ \A m \in onLeave : \E t \in HasStatus({"APPROVED"}) : m \in Marks(t, requests[t].leave)
  /\ \A t \in HasStatus({"APPROVED"}) : Marks(t, requests[t].leave) \subseteq onLeave \/ LostToOtherHalf(t)

\* "Only PENDING requests can be approved or rejected", and what is cancelled was
\* pending or approved: with one mechanism per request, nothing comes back.
OnlyPendingDecided ==
  [][\A t \in Targets : requests'[t].status # requests[t].status =>
       <<requests[t].status, requests'[t].status>> \in
         ({"NONE", "PENDING"} \X {"PENDING", "APPROVED", "REJECTED"})
           \cup ({"PENDING", "APPROVED"} \X {"CANCELLED"})]_vars

\* "approval decrements the balance": `used' is the sum of the approved requests.
UsedIsApproved ==
  \A e \in Employees, type \in LeaveTypes : used[<<e, type>>] = Approved(e, type)

ShortOfOne(e, type) ==
  \/ used[<<e, type>>] = Approved(e, type)
  \/ \E t \in Counted(e, type) : used[<<e, type>>] = LeaveDays(Counted(e, type) \ {t})

\* But it does not drift: while requests take turns it is short of the last approval at
\* most, however approvals, direct and through the engine, and cancellations follow one
\* another, and never shows a leave that was taken back.
UsedLagsOne == \A e \in Employees, type \in LeaveTypes : ShortOfOne(e, type)

\* The tables keep their shape, and the one of attendance shows who is on leave.
LeaveSound == TypeOK /\ OnLeaveIsApproved
=============================================================================
