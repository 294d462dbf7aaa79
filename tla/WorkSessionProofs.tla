-------------------------- MODULE WorkSessionProofs ---------------------------
(*****************************************************************************)
(* Proofs about WorkSession, for any employees, tasks and workers and every  *)
(* bound. Whatever overlaps: three invariants one on top of the other, the   *)
(* types (with what they rest on), the agreement of status and end_time, and *)
(* the row locks of start_session. When requests do not overlap, what a      *)
(* request has read is still so when it writes. Last, signing in, the part of *)
(* MCSessions that shares no state with the rest: its tokens and its locks.  *)
(*****************************************************************************)
EXTENDS MCSessions, Sequences, FiniteSetTheorems, TLAPS

\* A row that exists belongs to somebody and started in the past.
RowOK(row, t) ==
  /\ row.status # "ABSENT" => row.employee \in Employees /\ row.task \in Tasks
  /\ row.start <= t

\* Why the types are kept: a duration is a difference of two samples of the clock,
\* and a time entry copies the owner and the task of an existing row.
TableOK == \A s \in SessionIds : RowOK(sessions[s], now)
TxnOK(r) ==
  /\ r \in Txn
  /\ r.at <= now
  /\ \A s \in SessionIds : RowOK(r.view[s], r.at)
  /\ \A s \in SessionIds : r.view[s].status # "ABSENT" => sessions[s].status # "ABSENT"
  /\ r.op \in {"start", "startLocked"} => r.employee \in Employees /\ r.task \in Tasks

TypeInv == TypeOK /\ TableOK /\ \A w \in Workers : TxnOK(txn[w])

\* A session table that may be committed now.
GoodTable(table) ==
  /\ table \in [SessionIds -> Session]
  /\ \A s \in SessionIds : RowOK(table[s], now)
  /\ \A s \in SessionIds : sessions[s].status # "ABSENT" => table[s].status # "ABSENT"

-----------------------------------------------------------------------------
\* A day number is a natural number.
LEMMA DivNat == ASSUME NEW a \in Nat, NEW b \in Nat \ {0} PROVE a \div b \in Nat
  OBVIOUS

\* The values a request starts and ends with are well typed.
LEMMA BlankRows == /\ NoSession \in Session
                   /\ NoView \in [SessionIds -> Session]
                   /\ Idle \in Txn
  BY DEF NoSession, NoView, Idle, Session, Txn, Statuses, Reasons, Ops, BreakIds

\* What a SELECT puts into the request's view is well typed.
LEMMA LoadOK ==
  ASSUME TypeInv, NEW S
  PROVE  /\ Load(S) \in [SessionIds -> Session]
         /\ \A s \in SessionIds : RowOK(Load(S)[s], now)
         /\ \A s \in SessionIds : Load(S)[s].status # "ABSENT" => sessions[s].status # "ABSENT"
  BY BlankRows DEF Load, TypeInv, TypeOK, TableOK, RowOK, NoSession

\* A step that only changes what a worker holds keeps the invariant when the new
\* contents are consistent.
LEMMA SetTxn ==
  ASSUME TypeInv, NEW w \in Workers, NEW r, TxnOK(r),
         txn' = [txn EXCEPT ![w] = r],
         UNCHANGED <<sessions, breaks, attendance, entries, taskStatus, now, worked>>
  PROVE  TypeInv'
  BY DEF TypeInv, TypeOK, TableOK, TxnOK, RowOK

LEMMA IdleOK == ASSUME now \in Nat PROVE TxnOK(Idle)
  BY BlankRows DEF TxnOK, RowOK, Idle, NoView, NoSession

LEMMA BeginOK ==
  ASSUME TypeInv, NEW w \in Workers, NEW e \in Employees \cup {None}, NEW S,
         NEW op \in Ops \ {"start", "startLocked"}, Begin(w, e, op, S),
         UNCHANGED <<sessions, breaks, attendance, entries, taskStatus, now, worked>>
  PROVE  TypeInv'
<1> DEFINE r == [Idle EXCEPT !.op = op, !.employee = e, !.at = now, !.view = Load(S)]
<1>1. now \in Nat
  BY DEF TypeInv, TypeOK, ConstantsAssumption
<1>2. Idle \in Txn /\ Load(S) \in [SessionIds -> Session]
  BY LoadOK, BlankRows
<1>3. r \in Txn /\ r.op = op /\ r.at = now /\ r.view = Load(S)
  BY <1>1, <1>2 DEF Txn
<1>4. TxnOK(r)
  BY <1>1, <1>3, LoadOK DEF TxnOK
<1> QED BY <1>4, SetTxn DEF Begin

\* Finishing a request that changed nothing.
LEMMA FinishOK ==
  ASSUME TypeInv, NEW w \in Workers, Finish(w),
         UNCHANGED <<sessions, breaks, attendance, entries, taskStatus, now, worked>>
  PROVE  TypeInv'
<1>1. now \in Nat
  BY DEF TypeInv, TypeOK
<1> QED BY <1>1, IdleOK, SetTxn DEF Finish

\* A merged row takes its shape from the three rows it is made of.
LEMMA MergeOK ==
  ASSUME NEW cur \in Session, NEW loaded \in Session, NEW new \in Session, NEW sets,
         NEW t \in Nat, RowOK(cur, t), RowOK(new, t), cur.status # "ABSENT"
  PROVE  /\ Merge(cur, loaded, new, sets) \in Session
         /\ RowOK(Merge(cur, loaded, new, sets), t)
         /\ Merge(cur, loaded, new, sets).status = new.status
  BY DEF Merge, Session, RowOK

LEMMA StopOK ==
  ASSUME NEW row \in Session, NEW t \in Nat, NEW status \in Statuses, NEW reason \in Reasons,
         RowOK(row, t), row.status # "ABSENT"
  PROVE  LET r == Stop(row, status, t, reason)
         IN  r \in Session /\ RowOK(r, t) /\ r.status = status /\ r.end = t
<1>1. row.minutes + Accrued(row, t) \in Nat
  BY DEF Accrued, Session, RowOK
<1>2. ASSUME NEW m \in Nat
      PROVE  LET r == [row EXCEPT !.status = status, !.end = t, !.minutes = m, !.reason = reason]
             IN  r \in Session /\ RowOK(r, t) /\ r.status = status /\ r.end = t
  BY DEF Session, RowOK
<1> QED BY <1>1, <1>2 DEF Stop

LEMMA RerunOK ==
  ASSUME NEW row \in Session, NEW t \in Nat, NEW start \in Nat, start <= t,
         RowOK(row, t), row.status # "ABSENT"
  PROVE  LET r == Rerun(row, start)
         IN  r \in Session /\ RowOK(r, t) /\ r.status = "RUNNING" /\ r.end = None
  BY DEF Rerun, Session, RowOK, Statuses, Reasons

\* A flush of well-typed rows keeps the session table well typed.
LEMMA FlushedOK ==
  ASSUME TypeInv, NEW w \in Workers, NEW new, NEW sets,
         \A s \in Loaded(w) : /\ new[s] \in Session /\ RowOK(new[s], txn[w].at)
                              /\ new[s].status # "ABSENT"
  PROVE  GoodTable(Flushed(w, new, sets))
<1> DEFINE F == Flushed(w, new, sets)
<1>1. /\ now \in Nat /\ txn[w] \in Txn /\ txn[w].at <= now /\ txn[w].at \in Nat
      /\ sessions \in [SessionIds -> Session] /\ TableOK
  BY DEF TypeInv, TypeOK, TxnOK, Txn
<1>2. ASSUME NEW s \in SessionIds
      PROVE  /\ F[s] \in Session /\ RowOK(F[s], now)
             /\ sessions[s].status # "ABSENT" => F[s].status # "ABSENT"
  <2>1. CASE s \in Loaded(w)
    <3>1. new[s] \in Session /\ new[s].status # "ABSENT" /\ RowOK(new[s], txn[w].at)
      BY <2>1
    <3>2. F[s] = Merge(sessions[s], txn[w].view[s], new[s], sets)
      BY <2>1 DEF Flushed
    <3>3. sessions[s].status # "ABSENT" /\ txn[w].view[s] \in Session
      BY <2>1, <1>1 DEF Loaded, TypeInv, TxnOK, Txn
    <3>4. RowOK(new[s], now)
      BY <3>1, <1>1 DEF RowOK, Session
    <3>5. RowOK(sessions[s], now) /\ sessions[s] \in Session
      BY <1>1 DEF TableOK
    <3> HIDE DEF F
    <3> QED BY <1>1, <3>1, <3>2, <3>3, <3>4, <3>5, MergeOK
  <2>2. CASE s \notin Loaded(w)
    BY <1>1, <2>2 DEF Flushed, TableOK
  <2> QED BY <2>1, <2>2
<1> QED BY <1>2 DEF Flushed, GoodTable

\* A commit of a well-typed session table keeps the invariant, whatever else it
\* writes within the types.
LEMMA CommitOK ==
  ASSUME TypeInv, NEW w \in Workers, Finish(w),
         GoodTable(sessions'),
         breaks' \in [BreakIds -> Break], entries' \subseteq Entry,
         taskStatus' \in [Tasks -> TaskStatuses],
         UNCHANGED <<attendance, now, worked>>
  PROVE  TypeInv'
<1>1. now \in Nat /\ TxnOK(Idle)
  BY IdleOK DEF TypeInv, TypeOK
<1>2. txn' = [txn EXCEPT ![w] = Idle] /\ Idle \in Txn
  BY <1>1 DEF Finish, TxnOK
<1>3. TypeOK'
  BY <1>2 DEF TypeInv, TypeOK, GoodTable
<1>4. \A v \in Workers : TxnOK(txn[v])'
  BY <1>1, <1>2 DEF TypeInv, TypeOK, TxnOK, RowOK, GoodTable
<1>5. TableOK'
  BY DEF TableOK, RowOK, GoodTable
<1> QED BY <1>3, <1>4, <1>5 DEF TypeInv

LEMMA StayOK ==
  ASSUME TypeInv
  PROVE  /\ GoodTable(sessions)
         /\ breaks \in [BreakIds -> Break] /\ entries \subseteq Entry
         /\ taskStatus \in [Tasks -> TaskStatuses]
  BY DEF TypeInv, TypeOK, TableOK, GoodTable

\* The rows of a request that is about to write.
LEMMA ViewOK ==
  ASSUME TypeInv, NEW w \in Workers, NEW s \in Loaded(w)
  PROVE  /\ s \in SessionIds /\ txn[w].view[s] \in Session /\ txn[w].at \in Nat /\ txn[w].at <= now
         /\ RowOK(txn[w].view[s], txn[w].at) /\ txn[w].view[s].status # "ABSENT"
         /\ txn[w].view[s].reason \in Reasons /\ txn[w].view[s].start \in Nat
         /\ txn[w].view[s].start <= txn[w].at
         /\ txn[w].view[s].employee \in Employees /\ txn[w].view[s].task \in Tasks
  BY DEF Loaded, TypeInv, TypeOK, TxnOK, Txn, RowOK, Session

\* Stopping, or rerunning, every row of the view.
LEMMA StopAllOK ==
  ASSUME TypeInv, NEW w \in Workers, NEW status \in Statuses \ {"ABSENT"}, NEW reason \in Reasons,
         NEW new, NEW sets,
         \A s \in Loaded(w) : \/ new[s] = Stop(txn[w].view[s], status, txn[w].at, reason)
                              \/ new[s] = Stop(txn[w].view[s], status, txn[w].at, txn[w].view[s].reason)
  PROVE  GoodTable(Flushed(w, new, sets))
<1>1. ASSUME NEW s \in Loaded(w), NEW r \in Reasons
      PROVE  LET row == Stop(txn[w].view[s], status, txn[w].at, r)
             IN  row \in Session /\ RowOK(row, txn[w].at) /\ row.status # "ABSENT"
  BY ViewOK, StopOK
<1>2. \A s \in Loaded(w) : new[s] \in Session /\ RowOK(new[s], txn[w].at) /\ new[s].status # "ABSENT"
  BY <1>1, ViewOK
<1> QED BY <1>2, FlushedOK

LEMMA RerunAllOK ==
  ASSUME TypeInv, NEW w \in Workers, NEW new, NEW sets,
         \A s \in Loaded(w) : \/ new[s] = Rerun(txn[w].view[s], txn[w].at)
                              \/ new[s] = Rerun(txn[w].view[s], txn[w].view[s].start)
  PROVE  GoodTable(Flushed(w, new, sets))
<1>1. ASSUME NEW s \in Loaded(w), NEW t \in Nat, t <= txn[w].at
      PROVE  LET row == Rerun(txn[w].view[s], t)
             IN  row \in Session /\ RowOK(row, txn[w].at) /\ row.status # "ABSENT"
  <2> DEFINE row == txn[w].view[s]
             at == txn[w].at
  <2>1. row \in Session /\ at \in Nat /\ RowOK(row, at) /\ row.status # "ABSENT" /\ t <= at
    BY <1>1, ViewOK
  <2> HIDE DEF row, at
  <2>2. LET r == Rerun(row, t) IN r \in Session /\ RowOK(r, at) /\ r.status = "RUNNING"
    BY <2>1, RerunOK
  <2> QED BY <2>2 DEF row, at
<1>2. \A s \in Loaded(w) : new[s] \in Session /\ RowOK(new[s], txn[w].at) /\ new[s].status # "ABSENT"
  BY <1>1, ViewOK
<1> QED BY <1>2, FlushedOK

-----------------------------------------------------------------------------
\* Writing one of the two times of one attendance row.
LEMMA SetInOK ==
  ASSUME NEW a \in [Employees -> [Days -> Presence]], NEW e \in Employees, NEW d, NEW t \in Nat
  PROVE  /\ [a EXCEPT ![e][d].in = t] \in [Employees -> [Days -> Presence]]
         /\ [a EXCEPT ![e][d].out = t] \in [Employees -> [Days -> Presence]]
<1>1. ASSUME NEW x \in Days
      PROVE  /\ [a[e][x] EXCEPT !.in = t] \in Presence
             /\ [a[e][x] EXCEPT !.out = t] \in Presence
  BY DEF Presence
<1>2. /\ [a[e] EXCEPT ![d].in = t] \in [Days -> Presence]
      /\ [a[e] EXCEPT ![d].out = t] \in [Days -> Presence]
  BY <1>1
<1> QED BY <1>2

-----------------------------------------------------------------------------
(* Requests arriving *)

LEMMA StartReadOK ==
  ASSUME TypeInv, NEW w \in Workers, NEW e \in Employees, NEW t \in Tasks, StartRead(w, e, t)
  PROVE  TypeInv'
<1> DEFINE r == [Idle EXCEPT !.op = "start", !.employee = e, !.task = t, !.at = now,
                             !.seen = taskStatus[t], !.view = Load(Running(e))]
<1>1. /\ Idle \in Txn /\ Load(Running(e)) \in [SessionIds -> Session]
      /\ now \in Nat /\ taskStatus[t] \in TaskStatuses
  BY LoadOK, BlankRows DEF TypeInv, TypeOK
<1>2. /\ r \in Txn /\ r.op = "start" /\ r.at = now /\ r.view = Load(Running(e))
      /\ r.employee = e /\ r.task = t
  BY <1>1 DEF Txn, Ops
<1>3. TxnOK(r)
  BY <1>1, <1>2, LoadOK DEF TxnOK
<1> QED BY <1>3, SetTxn DEF StartRead

LEMMA RequestOK == ASSUME TypeInv, NEW w \in Workers, Request(w) PROVE TypeInv'
<1>1. ASSUME NEW s \in SessionIds
      PROVE  sessions[s].employee \in Employees \cup {None}
  BY DEF TypeInv, TypeOK, Session
<1>2. ASSUME NEW e \in Employees, NEW t \in Tasks, StartRead(w, e, t) PROVE TypeInv'
  BY <1>2, StartReadOK
<1>3. ASSUME NEW s \in SessionIds, PauseRead(w, s) PROVE TypeInv'
  <2>1. "pause" \in Ops \ {"start", "startLocked"}
    BY DEF Ops
  <2> QED BY <1>1, <1>3, <2>1, BeginOK DEF PauseRead
<1>4. ASSUME NEW s \in SessionIds, ResumeRead(w, s) PROVE TypeInv'
  <2>1. "resume" \in Ops \ {"start", "startLocked"}
    BY DEF Ops
  <2> QED BY <1>1, <1>4, <2>1, BeginOK DEF ResumeRead
<1>5. ASSUME NEW s \in SessionIds, CancelRead(w, s) PROVE TypeInv'
  <2>1. "cancel" \in Ops \ {"start", "startLocked"}
    BY DEF Ops
  <2> QED BY <1>1, <1>5, <2>1, BeginOK DEF CancelRead
<1>6. ASSUME NEW s \in SessionIds, CompleteRead(w, s) PROVE TypeInv'
  <2>1. "complete" \in Ops \ {"start", "startLocked"}
    BY DEF Ops
  <2> QED BY <1>1, <1>6, <2>1, BeginOK DEF CompleteRead
<1>7. ASSUME NEW e \in Employees, BreakStartRead(w, e) PROVE TypeInv'
  <2>1. "breakStart" \in Ops \ {"start", "startLocked"}
    BY DEF Ops
  <2> QED BY <1>7, <2>1, BeginOK DEF BreakStartRead
<1>8. ASSUME NEW e \in Employees, BreakEndRead(w, e) PROVE TypeInv'
  <2>1. PICK b \in OpenBreaks(e), S \in SUBSET Suspended(e) :
          txn' = [txn EXCEPT ![w] = [Idle EXCEPT !.op = "breakEnd", !.employee = e, !.at = now,
                                                 !.view = Load(S), !.breaks = {b}]]
    BY <1>8 DEF BreakEndRead
  <2> DEFINE r == [Idle EXCEPT !.op = "breakEnd", !.employee = e, !.at = now,
                               !.view = Load(S), !.breaks = {b}]
  <2>2. /\ Idle \in Txn /\ Load(S) \in [SessionIds -> Session] /\ now \in Nat
        /\ {b} \in SUBSET BreakIds
    BY LoadOK, BlankRows DEF TypeInv, TypeOK, OpenBreaks
  <2>3. r \in Txn /\ r.op = "breakEnd" /\ r.at = now /\ r.view = Load(S)
    BY <2>2 DEF Txn, Ops
  <2>4. TxnOK(r)
    BY <2>2, <2>3, LoadOK DEF TxnOK
  <2> QED BY <1>8, <2>1, <2>4, SetTxn DEF BreakEndRead
<1>9. ASSUME NEW e \in Employees, ClockIn(w, e) PROVE TypeInv'
  <2>1. attendance \in [Employees -> [Days -> Presence]] /\ now \in Nat
    BY DEF TypeInv, TypeOK
  <2>2. [attendance EXCEPT ![e][BusinessDate(now)].in = now] \in [Employees -> [Days -> Presence]]
    BY <2>1, SetInOK
  <2>3. attendance' \in [Employees -> [Days -> Presence]]
    BY <1>9, <2>2 DEF ClockIn
  <2> QED BY <1>9, <2>3 DEF ClockIn, TypeInv, TypeOK, TableOK, TxnOK, RowOK
<1>10. ASSUME NEW e \in Employees, ClockOutRead(w, e) PROVE TypeInv'
  <2>1. PICK d \in ClosableDays(e) :
          txn' = [txn EXCEPT ![w] = [Idle EXCEPT !.op = "clockOut", !.employee = e, !.at = now,
                                                 !.day = d, !.breaks = OpenBreaks(e)]]
    BY <1>10 DEF ClockOutRead
  <2> DEFINE r == [Idle EXCEPT !.op = "clockOut", !.employee = e, !.at = now,
                               !.day = d, !.breaks = OpenBreaks(e)]
  <2>2. Idle \in Txn /\ now \in Nat /\ d \in Nat /\ OpenBreaks(e) \in SUBSET BreakIds
    BY <2>1, BlankRows DEF TypeInv, TypeOK, ClosableDays, Days, OpenBreaks
  <2>3. r \in Txn /\ r.op = "clockOut" /\ r.at = now /\ r.view = NoView
    BY <2>2 DEF Txn, Ops, Idle
  <2>4. TxnOK(r)
    BY <2>2, <2>3 DEF TxnOK, RowOK, NoView, NoSession
  <2> QED BY <1>10, <2>1, <2>4, SetTxn DEF ClockOutRead
<1> QED BY <1>2, <1>3, <1>4, <1>5, <1>6, <1>7, <1>8, <1>9, <1>10 DEF Request

-----------------------------------------------------------------------------
(* Requests carrying on *)

LEMMA StartLockOK == ASSUME TypeInv, NEW w \in Workers, StartLock(w) PROVE TypeInv'
<1> DEFINE S == Loaded(w) \cap Running(txn[w].employee)
           r == [txn[w] EXCEPT !.op = "startLocked", !.at = now, !.view = Load(S)]
<1>1. /\ TxnOK(txn[w]) /\ txn[w] \in Txn /\ txn[w].op = "start" /\ now \in Nat
      /\ txn[w].employee \in Employees /\ txn[w].task \in Tasks
      /\ Load(S) \in [SessionIds -> Session]
  BY LoadOK DEF TypeInv, TypeOK, TxnOK, StartLock
<1>2. CASE txn' = [txn EXCEPT ![w] = r]
  <2>1. /\ r \in Txn /\ r.op = "startLocked" /\ r.at = now /\ r.view = Load(S)
        /\ r.employee = txn[w].employee /\ r.task = txn[w].task
    BY <1>1 DEF Txn, Ops
  <2>2. TxnOK(r)
    BY <1>1, <2>1, LoadOK DEF TxnOK
  <2> QED BY <1>2, <2>2, SetTxn DEF StartLock
<1>3. CASE Finish(w)
  BY <1>3, FinishOK DEF StartLock
<1> QED BY <1>2, <1>3 DEF StartLock

LEMMA StartWriteOK == ASSUME TypeInv, NEW w \in Workers, StartWrite(w) PROVE TypeInv'
<1> DEFINE r == txn[w]
           paused == [s \in Loaded(w) |-> Stop(r.view[s], "PAUSED", r.at, "other")]
           row == [NoSession EXCEPT !.employee = r.employee, !.task = r.task,
                                    !.status = "RUNNING", !.start = r.at]
           F == Flushed(w, paused, TRUE)
           table == [F EXCEPT ![Fresh(FreeSessions)] = row]
<1>1. /\ Finish(w)
      /\ UNCHANGED <<breaks, attendance, entries, now, worked>>
      /\ sessions' = table \/ sessions' = sessions
      /\ taskStatus' = TaskAfterStart(r.task, r.seen) \/ taskStatus' = taskStatus
  BY DEF StartWrite
<1>2. /\ r.employee \in Employees /\ r.task \in Tasks /\ r.at \in Nat /\ r.at <= now
      /\ now \in Nat /\ NoSession \in Session
  BY BlankRows DEF TypeInv, TypeOK, TxnOK, Txn, StartWrite
<1>3. /\ row \in Session /\ row.status = "RUNNING" /\ row.start = r.at
      /\ row.employee = r.employee /\ row.task = r.task
  BY <1>2 DEF Session, Statuses
<1>4. RowOK(row, now)
  BY <1>2, <1>3 DEF RowOK
<1>5. GoodTable(F)
  <2>1. "PAUSED" \in Statuses \ {"ABSENT"} /\ "other" \in Reasons
    BY DEF Statuses, Reasons
  <2> QED BY <2>1, StopAllOK
<1> HIDE DEF F, row
<1>6. GoodTable(table)
  BY <1>3, <1>4, <1>5 DEF GoodTable
<1>7. taskStatus' \in [Tasks -> TaskStatuses]
  BY <1>1 DEF TaskAfterStart, TypeInv, TypeOK, TaskStatuses
<1> HIDE DEF table
<1> QED BY <1>1, <1>6, <1>7, CommitOK, StayOK

LEMMA PauseWriteOK == ASSUME TypeInv, NEW w \in Workers, PauseWrite(w) PROVE TypeInv'
<1> DEFINE new == [s \in Loaded(w) |-> Stop(txn[w].view[s], "PAUSED", txn[w].at, "other")]
<1>1. PICK given \in BOOLEAN : sessions' = Flushed(w, new, given)
  BY DEF PauseWrite
<1>2. "PAUSED" \in Statuses \ {"ABSENT"} /\ "other" \in Reasons
  BY DEF Statuses, Reasons
<1>3. GoodTable(Flushed(w, new, given))
  BY <1>2, StopAllOK
<1> HIDE DEF new
<1> QED BY <1>1, <1>3, CommitOK, StayOK DEF PauseWrite

LEMMA ResumeWriteOK == ASSUME TypeInv, NEW w \in Workers, ResumeWrite(w) PROVE TypeInv'
<1> DEFINE new == [s \in Loaded(w) |-> Rerun(txn[w].view[s], txn[w].view[s].start)]
<1>2. PICK had \in BOOLEAN : sessions' = Flushed(w, new, had)
  BY DEF ResumeWrite
<1>3. GoodTable(Flushed(w, new, had))
  BY RerunAllOK
<1> HIDE DEF new
<1> QED BY <1>2, <1>3, CommitOK, StayOK DEF ResumeWrite

LEMMA CancelWriteOK == ASSUME TypeInv, NEW w \in Workers, CancelWrite(w) PROVE TypeInv'
<1> DEFINE new == [s \in Loaded(w) |-> Stop(txn[w].view[s], "CANCELLED", txn[w].at, txn[w].view[s].reason)]
<1>1. sessions' = Flushed(w, new, FALSE)
  BY DEF CancelWrite
<1>2. "CANCELLED" \in Statuses \ {"ABSENT"} /\ "other" \in Reasons
  BY DEF Statuses, Reasons
<1>3. GoodTable(Flushed(w, new, FALSE))
  BY <1>2, StopAllOK
<1> HIDE DEF new
<1> QED BY <1>1, <1>3, CommitOK, StayOK DEF CancelWrite

LEMMA CloseWriteOK == ASSUME TypeInv, NEW w \in Workers, CloseWrite(w) PROVE TypeInv'
<1> DEFINE new == [s \in Loaded(w) |-> Stop(txn[w].view[s], "ABANDONED", txn[w].at, "other")]
<1>1. sessions' = Flushed(w, new, TRUE)
  BY DEF CloseWrite
<1>2. "ABANDONED" \in Statuses \ {"ABSENT"} /\ "other" \in Reasons
  BY DEF Statuses, Reasons
<1>3. GoodTable(Flushed(w, new, TRUE))
  BY <1>2, StopAllOK
<1> HIDE DEF new
<1> QED BY <1>1, <1>3, CommitOK, StayOK DEF CloseWrite

LEMMA BreakStartWriteOK == ASSUME TypeInv, NEW w \in Workers, BreakStartWrite(w) PROVE TypeInv'
<1> DEFINE new == [s \in Loaded(w) |-> Stop(txn[w].view[s], "PAUSED", txn[w].at, "break")]
           b == [employee |-> txn[w].employee, start |-> txn[w].at]
<1>1. \/ sessions' = Flushed(w, new, TRUE) /\ breaks' = [breaks EXCEPT ![Fresh(FreeBreaks)] = b]
      \/ UNCHANGED <<sessions, breaks>>
  BY DEF BreakStartWrite
<1>2. b \in Break
  BY DEF Break, TypeInv, TxnOK, Txn
<1> HIDE DEF b
<1>3. breaks' \in [BreakIds -> Break]
  BY <1>1, <1>2, StayOK
<1>4. "PAUSED" \in Statuses \ {"ABSENT"} /\ "break" \in Reasons
  BY DEF Statuses, Reasons
<1>5. GoodTable(Flushed(w, new, TRUE))
  BY <1>4, StopAllOK
<1> HIDE DEF new
<1> QED BY <1>1, <1>3, <1>5, CommitOK, StayOK DEF BreakStartWrite

LEMMA CloseBreaksOK == ASSUME TypeInv, NEW w PROVE CloseBreaks(w) \in [BreakIds -> Break]
  BY DEF CloseBreaks, NoBreak, Break, TypeInv, TypeOK

LEMMA BreakEndWriteOK == ASSUME TypeInv, NEW w \in Workers, BreakEndWrite(w) PROVE TypeInv'
<1> DEFINE new == [s \in Loaded(w) |-> Rerun(txn[w].view[s], txn[w].at)]
<1>1. \/ sessions' = Flushed(w, new, TRUE) /\ breaks' = CloseBreaks(w)
      \/ UNCHANGED <<sessions, breaks>>
  BY DEF BreakEndWrite
<1>2. breaks' \in [BreakIds -> Break]
  BY <1>1, CloseBreaksOK, StayOK
<1>3. GoodTable(Flushed(w, new, TRUE))
  BY RerunAllOK
<1> HIDE DEF new
<1> QED BY <1>1, <1>2, <1>3, CommitOK, StayOK DEF BreakEndWrite

LEMMA CompleteWriteOK == ASSUME TypeInv, NEW w \in Workers, CompleteWrite(w) PROVE TypeInv'
<1>1. PICK s \in Loaded(w), markTask \in BOOLEAN :
        LET row == Stop(txn[w].view[s], "COMPLETED", txn[w].at, txn[w].view[s].reason)
            new == [x \in Loaded(w) |-> row]
            due == EntryDue(s, row)
        IN  IF due /\ ~ EntryAllowed(s, row)
            THEN UNCHANGED <<sessions, entries, taskStatus>>
            ELSE /\ sessions' = Flushed(w, new, FALSE)
                 /\ entries' = entries \cup (IF due THEN {EntryOf(s, row)} ELSE {})
                 /\ taskStatus' = IF markTask THEN [taskStatus EXCEPT ![row.task] = "COMPLETED"]
                                              ELSE taskStatus
  BY DEF CompleteWrite
<1> DEFINE row == Stop(txn[w].view[s], "COMPLETED", txn[w].at, txn[w].view[s].reason)
           new == [x \in Loaded(w) |-> row]
<1>2. "COMPLETED" \in Statuses \ {"ABSENT"}
  BY DEF Statuses
<1>3. row \in Session /\ RowOK(row, txn[w].at) /\ row.status # "ABSENT"
  BY <1>2, ViewOK, StopOK
<1>4. row.employee \in Employees /\ row.task \in Tasks /\ row.minutes \in Nat /\ row.start \in Nat
  BY <1>3 DEF RowOK, Session
<1> HIDE DEF row
<1>5. EntryOf(s, row) \in Entry
  <2>1. UtcDate(row.start) \in Nat
    BY <1>4, ConstantsAssumption, DivNat DEF UtcDate
  <2> QED BY <1>4, <2>1, ViewOK DEF EntryOf, Entry
<1>6. entries' \subseteq Entry /\ taskStatus' \in [Tasks -> TaskStatuses]
  BY <1>1, <1>5, StayOK DEF TaskStatuses, row
<1>7. \A x \in Loaded(w) : new[x] \in Session /\ RowOK(new[x], txn[w].at) /\ new[x].status # "ABSENT"
  BY <1>3
<1>8. sessions' = Flushed(w, new, FALSE) \/ sessions' = sessions
  BY <1>1 DEF row
<1>9. GoodTable(Flushed(w, new, FALSE))
  BY <1>7, FlushedOK
<1> HIDE DEF new
<1> QED BY <1>6, <1>8, <1>9, CommitOK, StayOK DEF CompleteWrite

LEMMA ClockOutWriteOK == ASSUME TypeInv, NEW w \in Workers, ClockOutWrite(w) PROVE TypeInv'
<1> DEFINE r == [Idle EXCEPT !.op = "clockedOut", !.employee = txn[w].employee]
<1>1. /\ txn[w].at \in Nat /\ txn[w].employee \in Employees \cup {None} /\ now \in Nat
      /\ attendance \in [Employees -> [Days -> Presence]] /\ Idle \in Txn
  BY BlankRows DEF TypeInv, TypeOK, TxnOK, Txn
<1>2. attendance' \in [Employees -> [Days -> Presence]]
  <2>1. CASE txn[w].employee \in Employees
    BY <1>1, <2>1, SetInOK DEF ClockOutWrite
  <2>2. CASE txn[w].employee \notin Employees
    BY <1>1, <2>2 DEF ClockOutWrite
  <2> QED BY <2>1, <2>2
<1>3. r \in Txn /\ r.op = "clockedOut" /\ r.at = 0 /\ r.view = NoView
  BY <1>1 DEF Txn, Ops, Idle
<1>4. TxnOK(r)
  BY <1>1, <1>3 DEF TxnOK, RowOK, NoView, NoSession
<1> HIDE DEF r
<1>5. txn' = [txn EXCEPT ![w] = r] /\ breaks' \in [BreakIds -> Break]
  BY CloseBreaksOK DEF ClockOutWrite, r
<1>6. UNCHANGED <<sessions, entries, taskStatus, now, worked>>
  BY DEF ClockOutWrite
<1>7. TypeOK'
  BY <1>2, <1>4, <1>5, <1>6 DEF TypeInv, TypeOK, TxnOK
<1>8. TableOK'
  BY <1>6 DEF TypeInv, TableOK
<1>9. \A v \in Workers : TxnOK(txn[v])'
  BY <1>4, <1>5, <1>6 DEF TypeInv, TypeOK, TxnOK
<1> QED BY <1>7, <1>8, <1>9 DEF TypeInv

LEMMA CloseReadOK == ASSUME TypeInv, NEW w \in Workers, CloseRead(w) PROVE TypeInv'
<1> DEFINE S == OpenSessions(txn[w].employee)
           r == [txn[w] EXCEPT !.op = "close", !.at = now, !.view = Load(S)]
<1>1. /\ txn[w] \in Txn /\ now \in Nat /\ Load(S) \in [SessionIds -> Session]
  BY LoadOK DEF TypeInv, TypeOK
<1>2. CASE txn' = [txn EXCEPT ![w] = r]
  <2>1. r \in Txn /\ r.op = "close" /\ r.at = now /\ r.view = Load(S)
    BY <1>1 DEF Txn, Ops
  <2>2. TxnOK(r)
    BY <1>1, <2>1, LoadOK DEF TxnOK
  <2> QED BY <1>2, <2>2, SetTxn DEF CloseRead
<1>3. CASE Finish(w)
  BY <1>3, FinishOK DEF CloseRead
<1> QED BY <1>2, <1>3 DEF CloseRead

LEMMA AdvanceOK == ASSUME TypeInv, NEW w \in Workers, Advance(w) PROVE TypeInv'
  BY StartLockOK, StartWriteOK, PauseWriteOK, ResumeWriteOK, CancelWriteOK, CompleteWriteOK,
     BreakStartWriteOK, BreakEndWriteOK, ClockOutWriteOK, CloseReadOK, CloseWriteOK
  DEF Advance

-----------------------------------------------------------------------------
(* The surroundings *)

LEMMA LogTimeOK ==
  ASSUME TypeInv, NEW e \in Employees, NEW t \in Tasks, LogTime(e, t)
  PROVE  TypeInv'
<1>1. UtcDate(now) \in Nat
  <2>1. now \in Nat /\ DayLength \in Nat \ {0}
    BY ConstantsAssumption DEF TypeInv, TypeOK
  <2> QED BY <2>1, DivNat DEF UtcDate
<1>2. entries' \subseteq Entry
  BY <1>1 DEF LogTime, Entry, TypeInv, TypeOK
<1> QED BY <1>2 DEF LogTime, TypeInv, TypeOK, TableOK, TxnOK, RowOK

LEMMA AutoCloseOK == ASSUME TypeInv, AutoClose PROVE TypeInv'
<1>1. ASSUME NEW e \in Employees, NEW d \in Days, Overdue(attendance[e][d])
      PROVE  [attendance[e][d] EXCEPT !.out = attendance[e][d].in + AutoCloseAfter] \in Presence
  <2> DEFINE p == attendance[e][d]
  <2>1. p \in Presence /\ p.in \in Nat
    BY <1>1 DEF Overdue, Presence, TypeInv, TypeOK
  <2>2. p.in + AutoCloseAfter \in Nat
    BY <2>1, ConstantsAssumption
  <2>3. \A t \in Nat : [p EXCEPT !.out = t] \in Presence
    BY <2>1 DEF Presence
  <2> HIDE DEF p
  <2>4. [p EXCEPT !.out = p.in + AutoCloseAfter] \in Presence
    BY <2>2, <2>3
  <2> QED BY <2>4 DEF p
<1>2. attendance' \in [Employees -> [Days -> Presence]]
  BY <1>1 DEF AutoClose, TypeInv, TypeOK
<1> QED BY <1>2 DEF AutoClose, TypeInv, TypeOK, TableOK, TxnOK, RowOK

LEMMA TickOK == ASSUME TypeInv, Tick PROVE TypeInv'
<1>1. now' = now + 1 /\ now \in Nat /\ now' \in 0..MaxTime
  BY ConstantsAssumption DEF Tick, TypeInv, TypeOK
<1>2. worked' \in [SessionIds -> Nat]
  BY DEF Tick, TypeInv, TypeOK
<1>3. \A s \in SessionIds : RowOK(sessions[s], now)'
  BY <1>1 DEF Tick, TypeInv, TypeOK, TableOK, RowOK, Session
<1>4. \A w \in Workers : TxnOK(txn[w])'
  BY <1>1 DEF Tick, TypeInv, TypeOK, TxnOK, RowOK, Txn
<1> QED BY <1>1, <1>2, <1>3, <1>4 DEF Tick, TypeInv, TypeOK, TableOK

-----------------------------------------------------------------------------
LEMMA InitTypes == Init => TypeInv
<1> SUFFICES ASSUME Init PROVE TypeInv
  OBVIOUS
<1>1. now = 0 /\ now \in 0..MaxTime /\ now \in Nat
  BY ConstantsAssumption DEF Init
<1>2. /\ sessions \in [SessionIds -> Session] /\ txn \in [Workers -> Txn]
      /\ worked \in [SessionIds -> Nat] /\ entries \subseteq Entry
  BY BlankRows DEF Init
<1>3. breaks \in [BreakIds -> Break] /\ taskStatus \in [Tasks -> TaskStatuses]
  BY DEF Init, NoBreak, Break, TaskStatuses
<1>4. attendance \in [Employees -> [Days -> Presence]]
  BY DEF Init, Presence
<1>5. TableOK
  BY <1>1 DEF Init, TableOK, RowOK, NoView, NoSession
<1>6. \A w \in Workers : TxnOK(txn[w])
  BY <1>1, IdleOK DEF Init
<1> QED BY <1>1, <1>2, <1>3, <1>4, <1>5, <1>6 DEF TypeInv, TypeOK

LEMMA NextTypes == ASSUME TypeInv, [Next]_vars PROVE TypeInv'
<1>1. ASSUME NEW w \in Workers, Abort(w) PROVE TypeInv'
  BY <1>1, FinishOK DEF Abort
<1>2. ASSUME NEW x \in entries, DeleteEntry(x) PROVE TypeInv'
  BY <1>2 DEF DeleteEntry, TypeInv, TypeOK, TableOK, TxnOK, RowOK
<1>3. CASE UNCHANGED vars
  BY <1>3 DEF vars, TypeInv, TypeOK, TableOK, TxnOK, RowOK
<1> QED BY <1>1, <1>2, <1>3, RequestOK, AdvanceOK, LogTimeOK, AutoCloseOK, TickOK DEF Next

LEMMA TypesAlways == Spec => []TypeInv
<1>1. TypeInv /\ [Next]_vars => TypeInv'
  BY NextTypes
<1> QED BY <1>1, InitTypes, PTL DEF Spec

\* Type correctness: every column, snapshot and counter keeps its shape. Durations
\* stay non-negative because a request samples the clock no earlier than the
\* start_time of any row it has loaded.
THEOREM TypeCorrect == Spec => []TypeOK
<1>1. TypeInv => TypeOK
  BY DEF TypeInv
<1> QED BY <1>1, TypesAlways, PTL

-----------------------------------------------------------------------------
(* status and end_time *)

EndMatches(row) == (row.end = None) <=> (row.status \in {"ABSENT", "RUNNING"})

\* Stopping and rerunning write both columns, so the pair is right whatever the
\* request had loaded.
LEMMA StopEnds ==
  ASSUME NEW row, NEW status, status \notin {"ABSENT", "RUNNING"}, NEW t \in Nat, NEW reason,
         row \in Session
  PROVE  EndMatches(Stop(row, status, t, reason))
<1>1. ASSUME NEW m
      PROVE  EndMatches([row EXCEPT !.status = status, !.end = t, !.minutes = m, !.reason = reason])
  BY ConstantsAssumption DEF EndMatches, Session
<1> QED BY <1>1 DEF Stop

LEMMA RerunEnds ==
  ASSUME NEW row \in Session, NEW start
  PROVE  EndMatches(Rerun(row, start))
  BY DEF EndMatches, Rerun, Session

LEMMA FlushedEnds ==
  ASSUME StopTimeMatchesStatus, NEW w, NEW new, NEW sets,
         \A s \in Loaded(w) : EndMatches(new[s])
  PROVE  \A s \in SessionIds : EndMatches(Flushed(w, new, sets)[s])
  BY DEF StopTimeMatchesStatus, EndMatches, Flushed, Merge

LEMMA EndsOfTable ==
  ASSUME \A s \in SessionIds : EndMatches(sessions'[s])
  PROVE  StopTimeMatchesStatus'
  BY DEF StopTimeMatchesStatus, EndMatches

LEMMA EndsKept ==
  ASSUME StopTimeMatchesStatus
  PROVE  \A s \in SessionIds : EndMatches(sessions[s])
  BY DEF StopTimeMatchesStatus, EndMatches

LEMMA StartEnds ==
  ASSUME TypeInv, StopTimeMatchesStatus, NEW w \in Workers, StartWrite(w)
  PROVE  StopTimeMatchesStatus'
<1> DEFINE r == txn[w]
           paused == [s \in Loaded(w) |-> Stop(r.view[s], "PAUSED", r.at, "other")]
           row == [NoSession EXCEPT !.employee = r.employee, !.task = r.task,
                                    !.status = "RUNNING", !.start = r.at]
           F == Flushed(w, paused, TRUE)
           table == [F EXCEPT ![Fresh(FreeSessions)] = row]
<1>1. sessions' = table \/ sessions' = sessions
  BY DEF StartWrite
<1>2. EndMatches(row)
  BY DEF EndMatches, NoSession
<1>3. \A s \in Loaded(w) : EndMatches(paused[s])
  BY ViewOK, StopEnds
<1>4. \A s \in SessionIds : EndMatches(F[s])
  BY <1>3, FlushedEnds
<1>5. F = [s \in SessionIds |-> F[s]]
  BY DEF Flushed
<1> HIDE DEF F, row
<1>6. \A s \in SessionIds : EndMatches(table[s])
  BY <1>2, <1>4, <1>5
<1> HIDE DEF table
<1> QED BY <1>1, <1>6, EndsOfTable, EndsKept

\* The other writers: what they do to the session table.
LEMMA WriteShape ==
  ASSUME TypeInv, NEW w \in Workers, Advance(w), ~ StartWrite(w)
  PROVE  \/ sessions' = sessions
         \/ \E new, sets : /\ sessions' = Flushed(w, new, sets)
                          /\ txn[w].op \notin {"start", "startLocked"}
                          /\ Unlocked(w, Loaded(w)) /\ Finish(w)
                          /\ \A s \in Loaded(w) : EndMatches(new[s])
<1> DEFINE Shape == \E new, sets : /\ sessions' = Flushed(w, new, sets)
                                  /\ txn[w].op \notin {"start", "startLocked"}
                                  /\ Unlocked(w, Loaded(w)) /\ Finish(w)
                                  /\ \A s \in Loaded(w) : EndMatches(new[s])
           view == txn[w].view
           at == txn[w].at
<1>1. ASSUME NEW status \in {"PAUSED", "CANCELLED", "ABANDONED", "COMPLETED"}, NEW s \in Loaded(w),
             NEW reason
      PROVE  EndMatches(Stop(view[s], status, at, reason))
  BY ViewOK, StopEnds
<1>2. ASSUME NEW s \in Loaded(w), NEW start
      PROVE  EndMatches(Rerun(view[s], start))
  BY ViewOK, RerunEnds
<1>3. CASE PauseWrite(w)
  <2> DEFINE new == [s \in Loaded(w) |-> Stop(view[s], "PAUSED", at, "other")]
  <2>1. PICK given \in BOOLEAN : sessions' = Flushed(w, new, given)
    BY <1>3 DEF PauseWrite
  <2>2. \A s \in Loaded(w) : EndMatches(new[s])
    BY <1>1
  <2> HIDE DEF new
  <2> QED BY <1>3, <2>1, <2>2 DEF PauseWrite
<1>4. CASE ResumeWrite(w)
  <2> DEFINE new == [s \in Loaded(w) |-> Rerun(view[s], view[s].start)]
  <2>2. PICK had \in BOOLEAN : sessions' = Flushed(w, new, had)
    BY <1>4 DEF ResumeWrite
  <2>3. \A s \in Loaded(w) : EndMatches(new[s])
    BY <1>2
  <2> HIDE DEF new
  <2> QED BY <1>4, <2>2, <2>3 DEF ResumeWrite
<1>5. CASE CancelWrite(w)
  <2> DEFINE new == [s \in Loaded(w) |-> Stop(view[s], "CANCELLED", at, view[s].reason)]
  <2>1. sessions' = Flushed(w, new, FALSE)
    BY <1>5 DEF CancelWrite
  <2>2. \A s \in Loaded(w) : EndMatches(new[s])
    BY <1>1
  <2> HIDE DEF new
  <2> QED BY <1>5, <2>1, <2>2 DEF CancelWrite
<1>6. CASE CompleteWrite(w)
  <2>1. PICK s \in Loaded(w) :
          \/ sessions' = sessions
          \/ sessions' = Flushed(w, [x \in Loaded(w) |->
                                       Stop(view[s], "COMPLETED", at, view[s].reason)], FALSE)
    BY <1>6 DEF CompleteWrite
  <2> DEFINE new == [x \in Loaded(w) |-> Stop(view[s], "COMPLETED", at, view[s].reason)]
  <2>2. \A x \in Loaded(w) : EndMatches(new[x])
    BY <1>1
  <2>3. sessions' = sessions \/ sessions' = Flushed(w, new, FALSE)
    BY <2>1
  <2> HIDE DEF new
  <2> QED BY <1>6, <2>2, <2>3 DEF CompleteWrite
<1>7. CASE BreakStartWrite(w)
  <2> DEFINE new == [s \in Loaded(w) |-> Stop(view[s], "PAUSED", at, "break")]
  <2>1. sessions' = sessions \/ sessions' = Flushed(w, new, TRUE)
    BY <1>7 DEF BreakStartWrite
  <2>2. \A s \in Loaded(w) : EndMatches(new[s])
    BY <1>1
  <2> HIDE DEF new
  <2> QED BY <1>7, <2>1, <2>2 DEF BreakStartWrite
<1>8. CASE BreakEndWrite(w)
  <2> DEFINE new == [s \in Loaded(w) |-> Rerun(view[s], at)]
  <2>1. sessions' = sessions \/ sessions' = Flushed(w, new, TRUE)
    BY <1>8 DEF BreakEndWrite
  <2>2. \A s \in Loaded(w) : EndMatches(new[s])
    BY <1>2
  <2> HIDE DEF new
  <2> QED BY <1>8, <2>1, <2>2 DEF BreakEndWrite
<1>9. CASE CloseWrite(w)
  <2> DEFINE new == [s \in Loaded(w) |-> Stop(view[s], "ABANDONED", at, "other")]
  <2>1. sessions' = Flushed(w, new, TRUE)
    BY <1>9 DEF CloseWrite
  <2>2. \A s \in Loaded(w) : EndMatches(new[s])
    BY <1>1
  <2> HIDE DEF new
  <2> QED BY <1>9, <2>1, <2>2 DEF CloseWrite
<1>10. CASE StartLock(w) \/ ClockOutWrite(w) \/ CloseRead(w)
  BY <1>10 DEF StartLock, ClockOutWrite, CloseRead
<1> QED BY <1>3, <1>4, <1>5, <1>6, <1>7, <1>8, <1>9, <1>10 DEF Advance

\* Only the writers touch the session table.
LEMMA OthersKeepSessions ==
  ASSUME [Next]_vars, \A w \in Workers : ~ Advance(w)
  PROVE  sessions' = sessions
  BY DEF Next, Request, StartRead, PauseRead, ResumeRead, CancelRead, CompleteRead, BreakStartRead,
     BreakEndRead, ClockIn, ClockOutRead, Abort, LogTime, DeleteEntry, AutoClose, Tick, vars

\* In every reachable state a session has an end_time exactly when it is not running,
\* however the column-wise UPDATEs of concurrent requests merge.
THEOREM EndTimeCorrect == Spec => []StopTimeMatchesStatus
<1>1. Init => StopTimeMatchesStatus
  BY DEF Init, StopTimeMatchesStatus, NoView, NoSession
<1>2. TypeInv /\ StopTimeMatchesStatus /\ [Next]_vars => StopTimeMatchesStatus'
  <2> SUFFICES ASSUME TypeInv, StopTimeMatchesStatus, [Next]_vars
               PROVE  StopTimeMatchesStatus'
    OBVIOUS
  <2>1. ASSUME NEW w \in Workers, Advance(w), ~ StartWrite(w) PROVE StopTimeMatchesStatus'
    BY <2>1, WriteShape, FlushedEnds, EndsOfTable, EndsKept
  <2>2. CASE \A w \in Workers : ~ Advance(w)
    BY <2>2, OthersKeepSessions, EndsKept, EndsOfTable
  <2> QED BY <2>1, <2>2, StartEnds
<1> QED BY <1>1, <1>2, TypesAlways, PTL DEF Spec

-----------------------------------------------------------------------------
(* The row locks of start_session *)

\* Two start_session requests never hold the same row.
LocksDisjoint == \A v, w \in Workers : v # w => Locked(v) \cap Locked(w) = {}
LockInv == LockedRowsCurrent /\ LocksDisjoint

\* A step of w that leaves w without locks, and the rows the others hold as they were.
LEMMA ReleaseStep ==
  ASSUME LockInv, NEW w \in Workers, NEW r, r.op # "startLocked",
         txn \in [Workers -> Txn], txn' = [txn EXCEPT ![w] = r],
         \A v \in Workers \ {w} : \A s \in Locked(v) : sessions'[s] = sessions[s]
  PROVE  LockInv'
<1>1. \A v \in Workers \ {w} : txn'[v] = txn[v]
  OBVIOUS
<1>2. Locked(w)' = {}
  BY DEF Locked
<1>3. \A v \in Workers \ {w} : Locked(v)' = Locked(v)
  BY <1>1 DEF Locked, Loaded
<1>4. LockedRowsCurrent'
  BY <1>1, <1>2, <1>3 DEF LockInv, LockedRowsCurrent
<1>5. LocksDisjoint'
  BY <1>2, <1>3 DEF LockInv, LocksDisjoint
<1> QED BY <1>4, <1>5 DEF LockInv

LEMMA IdleReleases ==
  ASSUME LockInv, TypeInv, NEW w \in Workers, Finish(w),
         \A v \in Workers \ {w} : \A s \in Locked(v) : sessions'[s] = sessions[s]
  PROVE  LockInv'
  BY ReleaseStep DEF Finish, Idle, TypeInv, TypeOK

LEMMA NoLockStep ==
  ASSUME LockInv, UNCHANGED <<sessions, txn>>
  PROVE  LockInv'
  BY DEF LockInv, LockedRowsCurrent, LocksDisjoint, Locked, Loaded

\* The lock is granted only on rows nobody else holds, and the view is read again.
LEMMA StartLockLocks ==
  ASSUME LockInv, TypeInv, NEW w \in Workers, StartLock(w)
  PROVE  LockInv'
<1> DEFINE S == Loaded(w) \cap Running(txn[w].employee)
           r == [txn[w] EXCEPT !.op = "startLocked", !.at = now, !.view = Load(S)]
<1>1. txn \in [Workers -> Txn] /\ UNCHANGED sessions /\ Unlocked(w, Loaded(w))
  BY DEF StartLock, TypeInv, TypeOK
<1>2. CASE Finish(w)
  BY <1>1, <1>2, IdleReleases
<1>3. CASE txn' = [txn EXCEPT ![w] = r]
  <2>1. \A v \in Workers \ {w} : txn'[v] = txn[v]
    BY <1>3
  <2>2. txn'[w].view = Load(S)
    BY <1>1, <1>3 DEF Txn
  <2>3. Locked(w)' \subseteq S /\ \A s \in S : txn'[w].view[s] = sessions[s]
    BY <2>2 DEF Locked, Loaded, Load, NoSession
  <2>4. \A v \in Workers \ {w} : Locked(v)' = Locked(v)
    BY <2>1 DEF Locked, Loaded
  <2>5. LockedRowsCurrent'
    BY <1>1, <2>1, <2>3, <2>4 DEF LockInv, LockedRowsCurrent
  <2>6. LocksDisjoint'
    BY <1>1, <2>3, <2>4 DEF LockInv, LocksDisjoint, Unlocked
  <2> QED BY <2>5, <2>6 DEF LockInv
<1> QED BY <1>2, <1>3 DEF StartLock

\* The auto-pause writes rows this request holds; the row it inserts is in nobody's
\* view yet.
LEMMA StartWriteLocks ==
  ASSUME LockInv, TypeInv, NEW w \in Workers, StartWrite(w)
  PROVE  LockInv'
<1> DEFINE r == txn[w]
           paused == [s \in Loaded(w) |-> Stop(r.view[s], "PAUSED", r.at, "other")]
           row == [NoSession EXCEPT !.employee = r.employee, !.task = r.task,
                                    !.status = "RUNNING", !.start = r.at]
           F == Flushed(w, paused, TRUE)
           n == Fresh(FreeSessions)
           table == [F EXCEPT ![n] = row]
<1>1. /\ \/ FreeSessions # {} /\ sessions' = table
         \/ sessions' = sessions
      /\ Finish(w) /\ r.op = "startLocked"
  BY DEF StartWrite
<1>2. ASSUME NEW v \in Workers \ {w}, NEW s \in Locked(v), FreeSessions # {}
      PROVE  table[s] = sessions[s]
  <2>1. s \in SessionIds /\ s \notin Loaded(w)
    BY <1>1, <1>2 DEF LockInv, LocksDisjoint, Locked, Loaded
  <2>2. sessions[s].status # "ABSENT"
    BY <1>2 DEF Locked, Loaded, TypeInv, TxnOK
  <2>3. s # n
    BY <1>2, <2>2 DEF Fresh, FreeSessions
  <2>4. F[s] = sessions[s] /\ F = [x \in SessionIds |-> F[x]]
    BY <2>1 DEF Flushed
  <2> HIDE DEF F, n, row
  <2> QED BY <2>1, <2>3, <2>4
<1> HIDE DEF table
<1> QED BY <1>1, <1>2, IdleReleases

LEMMA RequestTakesNoLock ==
  ASSUME NEW w \in Workers, Request(w)
  PROVE  UNCHANGED txn \/ \E r : txn' = [txn EXCEPT ![w] = r] /\ r.op # "startLocked"
<1>1. ASSUME NEW e, NEW op, op # "startLocked", NEW S, Begin(w, e, op, S)
      PROVE  \E r : txn' = [txn EXCEPT ![w] = r] /\ r.op # "startLocked"
  <2>1. txn' = [txn EXCEPT ![w] = [Idle EXCEPT !.op = op, !.employee = e, !.at = now, !.view = Load(S)]]
    BY <1>1 DEF Begin
  <2>2. [Idle EXCEPT !.op = op, !.employee = e, !.at = now, !.view = Load(S)].op # "startLocked"
    BY <1>1 DEF Idle
  <2> QED BY <2>1, <2>2
<1>2. ASSUME NEW e \in Employees, NEW t \in Tasks, StartRead(w, e, t)
      PROVE  \E r : txn' = [txn EXCEPT ![w] = r] /\ r.op # "startLocked"
  <2> DEFINE r == [Idle EXCEPT !.op = "start", !.employee = e, !.task = t, !.at = now,
                               !.seen = taskStatus[t], !.view = Load(Running(e))]
  <2>1. txn' = [txn EXCEPT ![w] = r]
    BY <1>2 DEF StartRead
  <2>2. r.op # "startLocked"
    BY DEF Idle
  <2> QED BY <2>1, <2>2
<1>3. ASSUME NEW s \in SessionIds,
             PauseRead(w, s) \/ ResumeRead(w, s) \/ CancelRead(w, s) \/ CompleteRead(w, s)
      PROVE  \E r : txn' = [txn EXCEPT ![w] = r] /\ r.op # "startLocked"
  <2>1. \E op \in {"pause", "resume", "cancel", "complete"} :
          Begin(w, sessions[s].employee, op, {s})
    BY <1>3 DEF PauseRead, ResumeRead, CancelRead, CompleteRead
  <2> QED BY <1>1, <2>1
<1>4. ASSUME NEW e \in Employees, BreakStartRead(w, e)
      PROVE  \E r : txn' = [txn EXCEPT ![w] = r] /\ r.op # "startLocked"
  BY <1>1, <1>4 DEF BreakStartRead
<1>5. ASSUME NEW e \in Employees, BreakEndRead(w, e)
      PROVE  \E r : txn' = [txn EXCEPT ![w] = r] /\ r.op # "startLocked"
  <2>1. PICK b \in OpenBreaks(e), S \in SUBSET Suspended(e) :
          txn' = [txn EXCEPT ![w] = [Idle EXCEPT !.op = "breakEnd", !.employee = e, !.at = now,
                                                 !.view = Load(S), !.breaks = {b}]]
    BY <1>5 DEF BreakEndRead
  <2>2. [Idle EXCEPT !.op = "breakEnd", !.employee = e, !.at = now,
                     !.view = Load(S), !.breaks = {b}].op # "startLocked"
    BY DEF Idle
  <2> QED BY <2>1, <2>2
<1>6. ASSUME NEW e \in Employees, ClockOutRead(w, e)
      PROVE  \E r : txn' = [txn EXCEPT ![w] = r] /\ r.op # "startLocked"
  <2>1. PICK d \in ClosableDays(e) :
          txn' = [txn EXCEPT ![w] = [Idle EXCEPT !.op = "clockOut", !.employee = e, !.at = now,
                                                 !.day = d, !.breaks = OpenBreaks(e)]]
    BY <1>6 DEF ClockOutRead
  <2>2. [Idle EXCEPT !.op = "clockOut", !.employee = e, !.at = now,
                     !.day = d, !.breaks = OpenBreaks(e)].op # "startLocked"
    BY DEF Idle
  <2> QED BY <2>1, <2>2
<1> QED BY <1>2, <1>3, <1>4, <1>5, <1>6 DEF Request, ClockIn

\* The row locks of start_session keep the rows it will auto-pause as it read them.
THEOREM LocksProtect == Spec => []LockedRowsCurrent
<1>1. Init => LockInv
  BY DEF Init, LockInv, LockedRowsCurrent, LocksDisjoint, Locked, Idle
<1>2. TypeInv /\ LockInv /\ [Next]_vars => LockInv'
  <2> SUFFICES ASSUME TypeInv, LockInv, [Next]_vars
               PROVE  LockInv'
    OBVIOUS
  <2> USE DEF vars
  <2>1. txn \in [Workers -> Txn]
    BY DEF TypeInv, TypeOK
  <2>2. ASSUME NEW w \in Workers, Request(w) PROVE LockInv'
    <3>1. UNCHANGED sessions
      BY <2>2 DEF Request, StartRead, PauseRead, ResumeRead, CancelRead, CompleteRead,
                  BreakStartRead, BreakEndRead, ClockIn, ClockOutRead
    <3>2. UNCHANGED txn \/ \E r : txn' = [txn EXCEPT ![w] = r] /\ r.op # "startLocked"
      BY <2>2, RequestTakesNoLock
    <3> QED BY <2>1, <3>1, <3>2, ReleaseStep, NoLockStep
  <2>3. ASSUME NEW w \in Workers, Advance(w) PROVE LockInv'
    <3>1. CASE StartLock(w)
      BY <3>1, StartLockLocks
    <3>2. CASE StartWrite(w)
      BY <3>2, StartWriteLocks
    <3>3. CASE ClockOutWrite(w)
      <4>1. \E r : txn' = [txn EXCEPT ![w] = r] /\ r.op # "startLocked"
        BY <3>3 DEF ClockOutWrite, Idle
      <4> QED BY <2>1, <3>3, <4>1, ReleaseStep DEF ClockOutWrite
    <3>4. CASE CloseRead(w)
      <4>1. \E r : txn' = [txn EXCEPT ![w] = r] /\ r.op # "startLocked"
        BY <2>1, <3>4 DEF CloseRead, Finish, Idle, Txn
      <4> QED BY <2>1, <3>4, <4>1, ReleaseStep DEF CloseRead
    <3>5. CASE \E new, sets : /\ sessions' = Flushed(w, new, sets)
                             /\ Unlocked(w, Loaded(w)) /\ Finish(w)
      <4>1. \A v \in Workers \ {w} : \A s \in Locked(v) : sessions'[s] = sessions[s]
        BY <3>5 DEF Flushed, Unlocked, Locked, Loaded
      <4> QED BY <3>5, <4>1, IdleReleases
    <3>6. CASE sessions' = sessions /\ Finish(w)
      BY <3>6, IdleReleases
    <3>7. \/ StartLock(w) \/ StartWrite(w) \/ ClockOutWrite(w) \/ CloseRead(w) \/ Finish(w)
      BY <2>3 DEF Advance, PauseWrite, ResumeWrite, CancelWrite, CompleteWrite, BreakStartWrite,
                  BreakEndWrite, CloseWrite
    <3> QED BY <2>3, <3>1, <3>2, <3>3, <3>4, <3>5, <3>6, <3>7, WriteShape
  <2>4. ASSUME NEW w \in Workers, Abort(w) PROVE LockInv'
    BY <2>4, IdleReleases DEF Abort
  <2>5. CASE UNCHANGED <<sessions, txn>>
    BY <2>5, NoLockStep
  <2> QED BY <2>2, <2>3, <2>4, <2>5 DEF Next, LogTime, DeleteEntry, AutoClose, Tick
<1>3. LockInv => LockedRowsCurrent
  BY DEF LockInv
<1> QED BY <1>1, <1>2, <1>3, TypesAlways, PTL DEF Spec

-----------------------------------------------------------------------------
(* What begins behind the back of a request *)

\* Stopping a row sets its status; the row keeps the fields of a session.
LEMMA StopStatus ==
  ASSUME TypeInv, NEW w \in Workers, NEW s \in Loaded(w), NEW status, NEW t, NEW reason
  PROVE  Stop(txn[w].view[s], status, t, reason).status = status
<1>1. txn[w].view[s] \in Session
  BY ViewOK
<1> HIDE DEF Statuses
<1> QED BY <1>1 DEF Stop, Session

\* A flush leaves each row with its owner, and rows it did not load alone.
LEMMA FlushedOwners ==
  ASSUME NEW w, NEW new, NEW sets, NEW s \in SessionIds
  PROVE  /\ Flushed(w, new, sets)[s].employee = sessions[s].employee
         /\ s \notin Loaded(w) => Flushed(w, new, sets)[s] = sessions[s]
         /\ s \in Loaded(w) => Flushed(w, new, sets)[s].status = new[s].status
BY DEF Flushed, Merge

\* A new session takes the place of none.
LEMMA StartFills ==
  ASSUME TypeInv, NEW w \in Workers, StartWrite(w)
  PROVE  \/ sessions' = sessions
         \/ \E n \in SessionIds :
              /\ sessions[n].status = "ABSENT"
              /\ \A s \in SessionIds \ {n} :
                   /\ sessions'[s].employee = sessions[s].employee
                   /\ IF s \in Loaded(w) THEN sessions'[s].status = "PAUSED" ELSE sessions'[s] = sessions[s]
<1> DEFINE r == txn[w]
           paused == [s \in Loaded(w) |-> Stop(r.view[s], "PAUSED", r.at, "other")]
           row == [NoSession EXCEPT !.employee = r.employee, !.task = r.task,
                                    !.status = "RUNNING", !.start = r.at]
           F == Flushed(w, paused, TRUE)
           n == Fresh(FreeSessions)
<1>1. SUFFICES ASSUME FreeSessions # {}, sessions' = [F EXCEPT ![n] = row]
               PROVE  \E m \in SessionIds :
                        /\ sessions[m].status = "ABSENT"
                        /\ \A s \in SessionIds \ {m} :
                             /\ sessions'[s].employee = sessions[s].employee
                             /\ IF s \in Loaded(w) THEN sessions'[s].status = "PAUSED"
                                ELSE sessions'[s] = sessions[s]
  BY DEF StartWrite
<1>2. n \in SessionIds /\ sessions[n].status = "ABSENT"
  BY <1>1 DEF Fresh, FreeSessions
<1>3. \A s \in Loaded(w) : paused[s].status = "PAUSED"
  BY StopStatus
<1> HIDE DEF paused
<1>4. F = [s \in SessionIds |-> F[s]]
  BY DEF Flushed
<1>5. \A s \in SessionIds : /\ F[s].employee = sessions[s].employee
                            /\ s \notin Loaded(w) => F[s] = sessions[s]
                            /\ s \in Loaded(w) => F[s].status = paused[s].status
  BY DEF Flushed, Merge
<1> HIDE DEF F, n, row
<1>6. \A s \in SessionIds \ {n} : sessions'[s] = F[s]
  BY <1>1, <1>4
<1> QED BY <1>2, <1>3, <1>5, <1>6

\* A session stays its employee's.
LEMMA OwnersStay ==
  ASSUME TypeInv, [Next]_vars, NEW s \in SessionIds, sessions[s].status # "ABSENT"
  PROVE  sessions'[s].employee = sessions[s].employee
<1>1. ASSUME NEW w \in Workers, StartWrite(w) PROVE sessions'[s].employee = sessions[s].employee
  BY <1>1, StartFills
<1>2. ASSUME NEW w \in Workers, Advance(w), ~ StartWrite(w)
      PROVE  sessions'[s].employee = sessions[s].employee
  BY <1>2, WriteShape, FlushedOwners
<1> QED BY <1>1, <1>2, OthersKeepSessions

\* A break is inserted in a free row; every other handler only closes.
LEMMA BreaksStay ==
  ASSUME TypeInv, [Next]_vars, NEW b \in BreakIds
  PROVE  \/ breaks'[b] = breaks[b] \/ breaks'[b] = NoBreak
         \/ breaks[b].employee = None
<1>1. ASSUME NEW w \in Workers, BreakStartWrite(w), breaks'[b] # breaks[b]
      PROVE  breaks[b].employee = None
  <2> DEFINE n == Fresh(FreeBreaks)
             row == [employee |-> txn[w].employee, start |-> txn[w].at]
  <2>1. FreeBreaks # {} /\ breaks' = [breaks EXCEPT ![n] = row]
    BY <1>1 DEF BreakStartWrite
  <2>2. n \in FreeBreaks
    BY <2>1 DEF Fresh
  <2>3. breaks \in [BreakIds -> Break]
    BY DEF TypeInv, TypeOK
  <2> HIDE DEF n, row
  <2>4. b = n
    BY <1>1, <2>1, <2>3
  <2> QED BY <2>2, <2>4 DEF FreeBreaks
<1>2. ASSUME NEW w \in Workers, BreakEndWrite(w) \/ ClockOutWrite(w)
      PROVE  breaks'[b] = breaks[b] \/ breaks'[b] = NoBreak
  BY <1>2 DEF BreakEndWrite, ClockOutWrite, CloseBreaks
<1>3. ASSUME NEW w \in Workers, Advance(w), ~ BreakStartWrite(w), ~ BreakEndWrite(w), ~ ClockOutWrite(w)
      PROVE  breaks' = breaks
  BY <1>3 DEF Advance, StartLock, StartWrite, PauseWrite, ResumeWrite, CancelWrite, CompleteWrite,
     CloseRead, CloseWrite
<1>4. CASE \A w \in Workers : ~ Advance(w)
  BY <1>4 DEF Next, Request, StartRead, PauseRead, ResumeRead, CancelRead, CompleteRead,
     BreakStartRead, BreakEndRead, ClockIn, ClockOutRead, Abort, LogTime, DeleteEntry, AutoClose,
     Tick, vars
<1> QED BY <1>1, <1>2, <1>3, <1>4

\* What runs beside a request that begins something is what it loaded, or began since.
Behind(w) ==
  LET r == txn[w] IN
  /\ r.op \in Beginning => r.employee # None
  /\ r.op \in {"start", "startLocked", "resume"} => Running(r.employee) \subseteq Loaded(w) \cup since[w].timers
  /\ r.op = "resume" => \A s, x \in Loaded(w) : s = x
  /\ r.op = "breakStart" => OpenBreaks(r.employee) \subseteq since[w].pauses

\* A request that another one's step leaves as it is notes what that step began.
LEMMA BehindWaits ==
  ASSUME TypeInv, [Next]_vars, Notes, NEW w \in Workers, Behind(w), txn'[w] = txn[w]
  PROVE  Behind(w)'
<1>1. PICK r : r = txn[w] /\ r = txn'[w]
  OBVIOUS
<1>2. Loaded(w)' = Loaded(w)
  BY DEF Loaded
<1>3. SUFFICES ASSUME r.op \in Beginning PROVE Behind(w)'
  BY <1>1 DEF Behind, Beginning
<1>4. /\ since'[w].timers = (Timers' \ Timers) \cup (since[w].timers \cap Timers')
      /\ since'[w].pauses = (Pauses' \ Pauses) \cup (since[w].pauses \cap Pauses')
  BY <1>1, <1>3 DEF Notes, Noted
<1>5. ASSUME NEW s \in Running(r.employee)', Running(r.employee) \subseteq Loaded(w) \cup since[w].timers
      PROVE  s \in Loaded(w) \cup since'[w].timers
  <2>1. s \in Timers' /\ s \in SessionIds /\ sessions'[s].employee = r.employee
    BY <1>5 DEF Running, Timers
  <2>2. CASE s \in Timers
    <3>1. sessions[s].employee = r.employee /\ sessions[s].status = "RUNNING"
      BY <2>1, <2>2, OwnersStay DEF Timers
    <3> QED BY <1>4, <1>5, <2>1, <3>1 DEF Running
  <2> QED BY <1>4, <2>1, <2>2
<1>6. ASSUME NEW b \in OpenBreaks(r.employee)', OpenBreaks(r.employee) \subseteq since[w].pauses
      PROVE  b \in since'[w].pauses
  <2>1. b \in BreakIds /\ breaks'[b].employee = r.employee /\ r.employee # None
    BY <1>1, <1>3, <1>6 DEF OpenBreaks, Behind
  <2>2. b \in Pauses'
    BY <2>1 DEF Pauses
  <2>3. CASE b \in Pauses
    <3>1. breaks[b].employee # None /\ NoBreak.employee = None
      BY <2>3 DEF Pauses, NoBreak
    <3>2. breaks'[b] = breaks[b]
      BY <2>1, <3>1, BreaksStay
    <3>3. b \in OpenBreaks(r.employee)
      BY <2>1, <3>2 DEF OpenBreaks
    <3> QED BY <1>4, <1>6, <2>2, <3>3
  <2> QED BY <1>4, <2>2, <2>3
<1>7. /\ r.op \in {"start", "startLocked", "resume"} => Running(r.employee) \subseteq Loaded(w) \cup since[w].timers
      /\ r.op = "resume" => \A s, x \in Loaded(w) : s = x
      /\ r.op = "breakStart" => OpenBreaks(r.employee) \subseteq since[w].pauses
      /\ r.employee # None
  BY <1>1, <1>3 DEF Behind
<1>8. /\ r.op \in {"start", "startLocked", "resume"} => Running(r.employee)' \subseteq Loaded(w) \cup since'[w].timers
      /\ r.op = "breakStart" => OpenBreaks(r.employee)' \subseteq since'[w].pauses
  BY <1>5, <1>6, <1>7
<1>9. /\ Running(txn[w].employee)' = Running(r.employee)'
      /\ OpenBreaks(txn[w].employee)' = OpenBreaks(r.employee)'
  BY <1>1 DEF Running, OpenBreaks
<1> QED BY <1>1, <1>2, <1>7, <1>8, <1>9 DEF Behind

\* A request that looks sees all there is.
LEMMA BehindLooks ==
  ASSUME TypeInv, NEW w \in Workers, Behind(w), UNCHANGED <<sessions, breaks>>, Notes,
         \/ StartLock(w)
         \/ \E e \in Employees, t \in Tasks : StartRead(w, e, t)
         \/ \E s \in SessionIds : ResumeRead(w, s)
         \/ \E e \in Employees : BreakStartRead(w, e)
  PROVE  Behind(w)'
<1>0. txn \in [Workers -> Txn] /\ None \notin Employees
  BY ConstantsAssumption DEF TypeInv, TypeOK
<1>1. CASE StartLock(w)
  <2>1. CASE Finish(w)
    BY <1>0, <2>1 DEF Finish, Idle, Behind, Beginning
  <2>2. PICK e : e = txn[w].employee
    OBVIOUS
  <2> DEFINE S == Loaded(w) \cap Running(e)
             r == [txn[w] EXCEPT !.op = "startLocked", !.at = now, !.view = Load(S)]
  <2>3. CASE txn' = [txn EXCEPT ![w] = r]
    <3>1. txn[w].op = "start" /\ txn[w] \in Txn
      BY <1>0, <1>1 DEF StartLock
    <3>2. /\ txn'[w].op = "startLocked" /\ txn'[w].view = Load(S) /\ txn'[w].employee = e
      BY <1>0, <2>2, <2>3, <3>1 DEF Txn
    <3>3. Loaded(w)' = S
      BY <3>2 DEF Loaded, Load, Running, NoSession
    <3>4. since'[w].timers = (Timers' \ Timers) \cup (since[w].timers \cap Timers')
      BY <3>1, <3>2 DEF Notes, Noted, Beginning
    <3>5. Running(e)' = Running(e) /\ Running(e) \subseteq Timers'
      BY DEF Running, Timers
    <3>6. Running(e) \subseteq Loaded(w) \cup since[w].timers /\ e # None
      BY <2>2, <3>1 DEF Behind, Beginning
    <3>7. Running(e)' \subseteq Loaded(w)' \cup since'[w].timers
      BY <3>3, <3>4, <3>5, <3>6
    <3>8. Running(txn[w].employee)' = Running(e)'
      BY <3>2 DEF Running
    <3> HIDE DEF S
    <3> QED BY <3>2, <3>6, <3>7, <3>8 DEF Behind
  <2> QED BY <1>1, <2>1, <2>2, <2>3 DEF StartLock
<1>2. ASSUME NEW e \in Employees, NEW t \in Tasks, StartRead(w, e, t) PROVE Behind(w)'
  <2>1. /\ txn'[w].op = "start" /\ txn'[w].employee = e /\ txn'[w].view = Load(Running(e))
    BY <1>0, <1>2 DEF StartRead, Idle
  <2>2. Loaded(w)' = Running(e)
    BY <2>1 DEF Loaded, Load, Running, NoSession
  <2>3. Running(txn[w].employee)' = Running(e)
    BY <2>1 DEF Running
  <2> QED BY <1>0, <2>1, <2>2, <2>3 DEF Behind
<1>3. ASSUME NEW s \in SessionIds, ResumeRead(w, s) PROVE Behind(w)'
  <2>1. PICK e : e = sessions[s].employee
    OBVIOUS
  <2>2. e \in Employees /\ sessions[s].status = "PAUSED" /\ Running(e) \subseteq {s}
    BY <1>3, <2>1 DEF ResumeRead, OtherRunning, TypeInv, TableOK, RowOK
  <2>3. /\ txn'[w].op = "resume" /\ txn'[w].employee = e /\ txn'[w].view = Load({s})
    BY <1>0, <1>3, <2>1 DEF ResumeRead, Begin, Idle
  <2>4. Loaded(w)' = {s}
    BY <2>2, <2>3 DEF Loaded, Load, NoSession
  <2>5. Running(txn[w].employee)' = Running(e)
    BY <2>3 DEF Running
  <2> QED BY <1>0, <2>2, <2>3, <2>4, <2>5 DEF Behind
<1>4. ASSUME NEW e \in Employees, BreakStartRead(w, e) PROVE Behind(w)'
  <2>1. txn'[w].op = "breakStart" /\ txn'[w].employee = e
    BY <1>0, <1>4 DEF BreakStartRead, Begin, Idle
  <2>2. OpenBreaks(txn[w].employee)' = OpenBreaks(e)
    BY <2>1 DEF OpenBreaks
  <2> QED BY <1>0, <1>4, <2>1, <2>2 DEF Behind, BreakStartRead
<1> QED BY <1>1, <1>2, <1>3, <1>4

\* What a step makes of the request of a worker.
LEMMA WhoLooks ==
  ASSUME TypeInv, [Next]_vars, NEW w \in Workers
  PROVE  \/ txn'[w] = txn[w]
         \/ txn'[w].op \notin Beginning
         \/ /\ UNCHANGED <<sessions, breaks>>
            /\ \/ StartLock(w)
               \/ \E e \in Employees, t \in Tasks : StartRead(w, e, t)
               \/ \E s \in SessionIds : ResumeRead(w, s)
               \/ \E e \in Employees : BreakStartRead(w, e)
<1> DEFINE Goal == \/ txn'[w] = txn[w]
                   \/ txn'[w].op \notin Beginning
                   \/ /\ UNCHANGED <<sessions, breaks>>
                      /\ \/ StartLock(w)
                         \/ \E e \in Employees, t \in Tasks : StartRead(w, e, t)
                         \/ \E s \in SessionIds : ResumeRead(w, s)
                         \/ \E e \in Employees : BreakStartRead(w, e)
<1>0. txn \in [Workers -> Txn]
  BY DEF TypeInv, TypeOK
<1>1. ASSUME NEW v \in Workers, NEW r, txn' = [txn EXCEPT ![v] = r], v # w \/ r.op \notin Beginning PROVE Goal
  BY <1>0, <1>1
<1>2. ASSUME NEW v \in Workers, Finish(v) PROVE Goal
  BY <1>1, <1>2 DEF Finish, Idle, Beginning
<1>3. ASSUME NEW v \in Workers, Request(v) PROVE Goal
  <2>1. ASSUME NEW e \in Employees, NEW t \in Tasks, StartRead(v, e, t) PROVE Goal
    BY <1>1, <2>1 DEF StartRead
  <2>2. ASSUME NEW s \in SessionIds, ResumeRead(v, s) PROVE Goal
    BY <1>1, <2>2 DEF ResumeRead, Begin
  <2>3. ASSUME NEW e \in Employees, BreakStartRead(v, e) PROVE Goal
    BY <1>1, <2>3 DEF BreakStartRead, Begin
  <2>4. ASSUME NEW s \in SessionIds, PauseRead(v, s) \/ CancelRead(v, s) \/ CompleteRead(v, s) PROVE Goal
    BY <1>1, <2>4 DEF PauseRead, CancelRead, CompleteRead, Begin, Idle, Beginning
  <2>5. ASSUME NEW e \in Employees, BreakEndRead(v, e) \/ ClockIn(v, e) \/ ClockOutRead(v, e) PROVE Goal
    BY <1>1, <2>5 DEF BreakEndRead, ClockIn, ClockOutRead, Idle, Beginning
  <2> HIDE DEF Goal
  <2> QED BY <1>3, <2>1, <2>2, <2>3, <2>4, <2>5 DEF Request
<1>4. ASSUME NEW v \in Workers, Advance(v) PROVE Goal
  <2>1. CASE StartLock(v)
    <3>1. CASE v = w
      BY <2>1, <3>1 DEF StartLock
    <3>2. CASE v # w
      BY <1>1, <2>1, <3>2 DEF StartLock, Finish
    <3> QED BY <3>1, <3>2
  <2>2. CASE ClockOutWrite(v)
    BY <1>1, <2>2 DEF ClockOutWrite, Idle, Beginning
  <2>3. CASE CloseRead(v)
    <3>1. CASE Finish(v)
      BY <1>2, <3>1
    <3> DEFINE r == [txn[v] EXCEPT !.op = "close", !.at = now, !.view = Load(OpenSessions(txn[v].employee))]
    <3>2. CASE txn' = [txn EXCEPT ![v] = r]
      <4>1. txn[v] \in Txn
        BY <1>0
      <4>2. r.op \notin Beginning
        BY <4>1 DEF Txn, Beginning
      <4> HIDE DEF r
      <4> QED BY <1>1, <3>2, <4>2
    <3> HIDE DEF Goal
    <3> QED BY <2>3, <3>1, <3>2 DEF CloseRead
  <2>4. \/ StartLock(v) \/ ClockOutWrite(v) \/ CloseRead(v) \/ Finish(v)
    BY <1>4 DEF Advance, StartWrite, PauseWrite, ResumeWrite, CancelWrite, CompleteWrite, BreakStartWrite,
                BreakEndWrite, CloseWrite
  <2> HIDE DEF Goal
  <2> QED BY <1>2, <2>1, <2>2, <2>3, <2>4
<1>5. ASSUME UNCHANGED txn PROVE Goal
  BY <1>5
<1> HIDE DEF Goal
<1>6. ASSUME NEW v \in Workers, Abort(v) PROVE Goal
  <2>1. Finish(v)
    BY <1>6 DEF Abort
  <2> QED BY <1>2, <2>1
<1>7. \/ \E v \in Workers : Request(v) \/ Advance(v) \/ Abort(v)
      \/ UNCHANGED txn
  BY DEF Next, LogTime, DeleteEntry, AutoClose, Tick, vars
<1>8. Goal
  BY <1>3, <1>4, <1>5, <1>6, <1>7
<1> QED BY <1>8 DEF Goal

BehindInv == TypeInv /\ \A w \in Workers : Behind(w)

LEMMA BehindKept == BehindInv /\ [Next]_vars /\ Notes => BehindInv'
<1> SUFFICES ASSUME BehindInv, [Next]_vars, Notes, NEW w \in Workers PROVE Behind(w)'
  BY NextTypes DEF BehindInv
<1>1. CASE txn'[w].op \notin Beginning
  BY <1>1 DEF Behind, Beginning
<1> QED BY <1>1, WhoLooks, BehindWaits, BehindLooks DEF BehindInv

\* The commit of a request that begins something.
LEMMA DoublesStep ==
  ASSUME BehindInv, [Next]_vars, NEW w \in Workers, NEW e,
         txn[w].op \in Beginning, txn'[w].op = "idle", txn[w].employee = e
  PROVE  /\ Running(e)' \ Running(e) # {} => Running(e) \cap Running(e)' \subseteq since[w].timers
         /\ OpenBreaks(e)' \ OpenBreaks(e) # {} => OpenBreaks(e) \subseteq since[w].pauses
<1>0. txn \in [Workers -> Txn] /\ TypeInv /\ Behind(w)
  BY DEF BehindInv, TypeInv, TypeOK
<1>1. CASE UNCHANGED <<sessions, breaks>>
  BY <1>1 DEF Running, OpenBreaks
<1>2. CASE StartWrite(w)
  <2>1. breaks' = breaks /\ txn[w].op = "startLocked"
    BY <1>2 DEF StartWrite
  <2>2. Running(e) \subseteq Loaded(w) \cup since[w].timers
    BY <1>0, <2>1 DEF Behind
  <2>3. ASSUME NEW s \in Running(e) \cap Running(e)', s \in Loaded(w), sessions' # sessions PROVE FALSE
    BY <1>0, <1>2, <2>3, StartFills DEF Running
  <2> QED BY <1>1, <2>1, <2>2, <2>3 DEF OpenBreaks
<1>3. CASE ResumeWrite(w)
  <2> DEFINE new == [s \in Loaded(w) |-> Rerun(txn[w].view[s], txn[w].view[s].start)]
  <2>1. breaks' = breaks /\ txn[w].op = "resume"
    BY <1>3 DEF ResumeWrite
  <2>2. PICK had \in BOOLEAN : sessions' = Flushed(w, new, had)
    BY <1>3 DEF ResumeWrite
  <2> HIDE DEF new
  <2>3. \A s \in SessionIds \ Loaded(w) : sessions'[s] = sessions[s]
    BY <2>2, FlushedOwners
  <2>4. /\ Running(e) \subseteq Loaded(w) \cup since[w].timers
        /\ \A s, x \in Loaded(w) : s = x
    BY <1>0, <2>1 DEF Behind
  <2>5. ASSUME NEW s \in Running(e)', s \notin Running(e) PROVE Running(e) \cap Loaded(w) = {}
    <3>1. s \in Loaded(w)
      BY <2>3, <2>5 DEF Running
    <3> QED BY <2>4, <2>5, <3>1
  <2>6. OpenBreaks(e)' = OpenBreaks(e)
    BY <2>1 DEF OpenBreaks
  <2> QED BY <2>4, <2>5, <2>6
<1>4. CASE BreakStartWrite(w)
  <2> DEFINE new == [s \in Loaded(w) |-> Stop(txn[w].view[s], "PAUSED", txn[w].at, "break")]
  <2>1. txn[w].op = "breakStart" /\ (sessions' = sessions \/ sessions' = Flushed(w, new, TRUE))
    BY <1>4 DEF BreakStartWrite
  <2>2. \A s \in Loaded(w) : new[s].status = "PAUSED"
    BY <1>0, StopStatus
  <2> HIDE DEF new
  <2>3. Running(e)' \subseteq Running(e)
    <3>1. ASSUME NEW s \in SessionIds, sessions'[s].status = "RUNNING" PROVE sessions'[s] = sessions[s]
      <4>1. CASE s \in Loaded(w)
        <5>1. Flushed(w, new, TRUE)[s].status = "PAUSED"
          BY <2>2, <4>1 DEF Flushed, Merge
        <5> QED BY <2>1, <3>1, <5>1
      <4>2. CASE s \notin Loaded(w)
        <5>1. Flushed(w, new, TRUE)[s] = sessions[s]
          BY <4>2 DEF Flushed
        <5> QED BY <2>1, <5>1
      <4> QED BY <4>1, <4>2
    <3> QED BY <3>1 DEF Running
  <2>4. OpenBreaks(e) \subseteq since[w].pauses
    BY <1>0, <2>1 DEF Behind
  <2> QED BY <2>3, <2>4
<1>5. \/ UNCHANGED <<sessions, breaks>> \/ StartWrite(w) \/ ResumeWrite(w) \/ BreakStartWrite(w)
  <2>1. ASSUME NEW v \in Workers, Request(v) PROVE UNCHANGED <<sessions, breaks>>
    BY <2>1 DEF Request, StartRead, PauseRead, ResumeRead, CancelRead, CompleteRead, BreakStartRead,
       BreakEndRead, ClockIn, ClockOutRead
  <2>2. ASSUME NEW v \in Workers \ {w}, NEW r, txn' = [txn EXCEPT ![v] = r] PROVE FALSE
    <3>1. txn'[w] = txn[w]
      BY <1>0, <2>2
    <3> QED BY <3>1 DEF Beginning
  <2>3. ASSUME NEW v \in Workers, Advance(v) PROVE \E r : txn' = [txn EXCEPT ![v] = r]
    BY <2>3 DEF Advance, StartLock, StartWrite, PauseWrite, ResumeWrite, CancelWrite, CompleteWrite,
       BreakStartWrite, BreakEndWrite, ClockOutWrite, CloseRead, CloseWrite, Finish
  <2>4. ASSUME Advance(w)
        PROVE  UNCHANGED <<sessions, breaks>> \/ StartWrite(w) \/ ResumeWrite(w) \/ BreakStartWrite(w)
    <3>1. /\ ~ PauseWrite(w) /\ ~ CancelWrite(w) /\ ~ CompleteWrite(w) /\ ~ BreakEndWrite(w)
          /\ ~ ClockOutWrite(w) /\ ~ CloseRead(w) /\ ~ CloseWrite(w)
      BY DEF PauseWrite, CancelWrite, CompleteWrite, BreakEndWrite, ClockOutWrite, CloseRead, CloseWrite,
             Beginning
    <3> QED BY <2>4, <3>1 DEF Advance, StartLock
  <2>5. ASSUME NEW v \in Workers, Abort(v) PROVE UNCHANGED <<sessions, breaks>>
    BY <2>5 DEF Abort
  <2> QED BY <2>1, <2>2, <2>3, <2>4, <2>5 DEF Next, LogTime, DeleteEntry, AutoClose, Tick, vars
<1> QED BY <1>1, <1>2, <1>3, <1>4, <1>5

\* However requests overlap, one that starts, resumes or breaks puts a timer beside a running
\* one, or a break beside an open one, only if the other began after it looked.
THEOREM OnlyOverlapDoublesCorrect == SessionsSpec => OnlyOverlapDoubles
<1>1. SessionsInit => BehindInv
  BY InitTypes DEF SessionsInit, BehindInv, Behind, Init, Idle, Beginning
<1>2. BehindInv /\ [SessionsNext]_<<vars, since, calendar, signing, part>> => BehindInv'
  <2> SUFFICES ASSUME BehindInv, [SessionsNext]_<<vars, since, calendar, signing, part>> PROVE BehindInv'
    OBVIOUS
  <2>1. CASE SessionsStep
    BY <2>1, BehindKept DEF SessionsStep
  <2>2. CASE UNCHANGED <<vars, since>>
    <3>1. [Next]_vars
      BY <2>2
    <3>2. \A w \in Workers : Behind(w)' = Behind(w)
      BY <2>2 DEF Behind, Running, OpenBreaks, Loaded, vars
    <3> QED BY <3>1, <3>2, NextTypes DEF BehindInv
  <2> QED BY <2>1, <2>2 DEF SessionsNext, CalendarStep, SigningStep
<1>3. BehindInv /\ [SessionsNext]_<<vars, since, calendar, signing, part>>
      => [\A w \in Workers, e \in Employees :
            (txn[w].op \in Beginning /\ txn'[w].op = "idle" /\ txn[w].employee = e) =>
              /\ Running(e)' \ Running(e) # {} => Running(e) \cap Running(e)' \subseteq since[w].timers
              /\ OpenBreaks(e)' \ OpenBreaks(e) # {} => OpenBreaks(e) \subseteq since[w].pauses]_<<vars, since>>
  <2> SUFFICES ASSUME BehindInv, [SessionsNext]_<<vars, since, calendar, signing, part>>,
                      NEW w \in Workers, NEW e \in Employees,
                      txn[w].op \in Beginning, txn'[w].op = "idle", txn[w].employee = e
               PROVE  /\ Running(e)' \ Running(e) # {} => Running(e) \cap Running(e)' \subseteq since[w].timers
                      /\ OpenBreaks(e)' \ OpenBreaks(e) # {} => OpenBreaks(e) \subseteq since[w].pauses
    OBVIOUS
  <2>1. [Next]_vars
    BY DEF SessionsNext, SessionsStep, CalendarStep, SigningStep
  <2> QED BY <2>1, DoublesStep
<1> QED BY <1>1, <1>2, <1>3, PTL DEF SessionsSpec, OnlyOverlapDoubles

-----------------------------------------------------------------------------
(* Requests that do not overlap                                              *)

OneRequest == \A v, w \in Workers : v = w

\* A day the employee is at work, or whose clock-out the scheduler may have written.
Attended(e) ==
  \E d \in Days : LET p == attendance[e][d] IN p.in # None /\ p.out \in {None, p.in + AutoCloseAfter}

\* What the request of w has read, and the checks it has passed, are still so.
Seen(w) ==
  LET r == txn[w] IN
  /\ \A s \in Loaded(w) : r.view[s] = sessions[s] /\ sessions[s].status \in OpenStatuses
  /\ r.op \in {"start", "startLocked"} => /\ Loaded(w) = Running(r.employee)
                                          /\ Overlapping(r.employee, r.task) = {}
                                          /\ r.seen = taskStatus[r.task]
  /\ r.op \in {"startLocked", "breakStart"} => r.employee \in Employees /\ Attended(r.employee)
  /\ r.op \in {"resume", "complete"} => \A s, x \in Loaded(w) : s = x
  /\ r.op = "resume" => \A s \in Loaded(w) : Running(sessions[s].employee) = {}
  /\ r.op = "breakEnd" => \A s \in Loaded(w) : sessions[s].status = "PAUSED" /\ sessions[s].employee = r.employee
  /\ r.op = "clockOut" => r.breaks = OpenBreaks(r.employee) /\ r.employee \in Employees
  /\ r.op \in {"clockedOut", "close"} => OpenBreaks(r.employee) = {}
  /\ r.op = "close" => Loaded(w) = OpenSessions(r.employee)
  /\ r.op \notin {"idle", "clockedOut"} /\ "slow" \notin Environment => r.at = now

SeenInv == TypeInv /\ \A w \in Workers : Seen(w)

-----------------------------------------------------------------------------
(* What a write does to the rows it has read *)

Kept(s) == /\ sessions'[s].employee = sessions[s].employee
           /\ sessions'[s].task = sessions[s].task
Stops(w, s, status) ==
  /\ Kept(s) /\ sessions'[s].status = status
  /\ sessions'[s].minutes = sessions[s].minutes + Accrued(sessions[s], txn[w].at)
Runs(w, s) ==
  /\ Kept(s) /\ sessions'[s].status = "RUNNING"
  /\ sessions'[s].minutes = sessions[s].minutes
  /\ sessions'[s].start \in Nat /\ sessions'[s].start <= txn[w].at
Appears(w, n) ==
  /\ sessions[n].status = "ABSENT" /\ sessions'[n].status = "RUNNING"
  /\ sessions'[n].employee = txn[w].employee /\ sessions'[n].task = txn[w].task
  /\ sessions'[n].start = txn[w].at /\ sessions'[n].minutes = 0

StopsAll(w, status) ==
  \A s \in SessionIds : IF s \in Loaded(w) THEN Stops(w, s, status) ELSE sessions'[s] = sessions[s]
RunsAll(w) ==
  \A s \in SessionIds : IF s \in Loaded(w) THEN Runs(w, s) ELSE sessions'[s] = sessions[s]

LEMMA StopFields ==
  ASSUME NEW row \in Session, NEW t \in Nat, NEW status, NEW reason
  PROVE  /\ Stop(row, status, t, reason).status = status
         /\ Stop(row, status, t, reason).minutes = row.minutes + Accrued(row, t)
         /\ Stop(row, status, t, reason).start = row.start
<1>1. \A m : LET r == [row EXCEPT !.status = status, !.end = t, !.minutes = m, !.reason = reason]
             IN  r.status = status /\ r.minutes = m /\ r.start = row.start
  BY DEF Session
<1>2. PICK m : m = row.minutes + Accrued(row, t)
  OBVIOUS
<1>3. Stop(row, status, t, reason)
        = [row EXCEPT !.status = status, !.end = t, !.minutes = m, !.reason = reason]
  BY <1>2 DEF Stop, Session
<1> QED BY <1>1, <1>2, <1>3

LEMMA RerunFields ==
  ASSUME NEW row \in Session, NEW start
  PROVE  /\ Rerun(row, start).status = "RUNNING"
         /\ Rerun(row, start).minutes = row.minutes
         /\ Rerun(row, start).start = start
BY DEF Rerun, Session

LEMMA MergeFields ==
  ASSUME NEW cur, NEW new, NEW sets
  PROVE  LET m == Merge(cur, cur, new, sets)
         IN  /\ m.employee = cur.employee /\ m.task = cur.task
             /\ m.status = new.status /\ m.start = new.start /\ m.minutes = new.minutes
BY DEF Merge

LEMMA FlushStops ==
  ASSUME SeenInv, NEW w \in Workers, NEW new, NEW sets, NEW status,
         \A s \in Loaded(w) : \E reason : new[s] = Stop(txn[w].view[s], status, txn[w].at, reason),
         sessions' = Flushed(w, new, sets)
  PROVE  StopsAll(w, status)
<1> SUFFICES ASSUME NEW s \in SessionIds
             PROVE  IF s \in Loaded(w) THEN Stops(w, s, status) ELSE sessions'[s] = sessions[s]
  BY DEF StopsAll
<1>1. CASE s \notin Loaded(w)
  BY <1>1 DEF Flushed
<1>2. CASE s \in Loaded(w)
  <2>1. PICK row \in Session : row = sessions[s] /\ row = txn[w].view[s]
    BY <1>2 DEF SeenInv, Seen, TypeInv, TypeOK
  <2>2. PICK t \in Nat : t = txn[w].at
    BY <1>2, ViewOK DEF SeenInv
  <2>3. PICK reason : new[s] = Stop(row, status, t, reason)
    BY <1>2, <2>1, <2>2
  <2>4. sessions'[s] = Merge(row, row, new[s], sets)
    BY <1>2, <2>1 DEF Flushed
  <2>5. /\ new[s].status = status /\ new[s].minutes = row.minutes + Accrued(row, t)
    BY <2>3, StopFields
  <2>6. /\ sessions'[s].employee = row.employee /\ sessions'[s].task = row.task
        /\ sessions'[s].status = new[s].status /\ sessions'[s].minutes = new[s].minutes
    BY <2>4, MergeFields
  <2> QED BY <1>2, <2>1, <2>2, <2>5, <2>6 DEF Stops, Kept
<1> QED BY <1>1, <1>2

LEMMA FlushRuns ==
  ASSUME SeenInv, NEW w \in Workers, NEW new, NEW sets,
         \A s \in Loaded(w) : \E start \in {txn[w].at, txn[w].view[s].start} :
           new[s] = Rerun(txn[w].view[s], start),
         sessions' = Flushed(w, new, sets)
  PROVE  RunsAll(w)
<1> SUFFICES ASSUME NEW s \in SessionIds
             PROVE  IF s \in Loaded(w) THEN Runs(w, s) ELSE sessions'[s] = sessions[s]
  BY DEF RunsAll
<1>1. CASE s \notin Loaded(w)
  BY <1>1 DEF Flushed
<1>2. CASE s \in Loaded(w)
  <2>1. PICK row \in Session : row = sessions[s] /\ row = txn[w].view[s]
    BY <1>2 DEF SeenInv, Seen, TypeInv, TypeOK
  <2>2. PICK start : new[s] = Rerun(row, start) /\ start \in {txn[w].at, row.start}
    BY <1>2, <2>1
  <2>3. start \in Nat /\ start <= txn[w].at
    BY <1>2, <2>1, <2>2, ViewOK DEF SeenInv
  <2>4. sessions'[s] = Merge(row, row, new[s], sets)
    BY <1>2, <2>1 DEF Flushed
  <2>5. /\ new[s].status = "RUNNING" /\ new[s].minutes = row.minutes /\ new[s].start = start
    BY <2>2, RerunFields
  <2>6. /\ sessions'[s].employee = row.employee /\ sessions'[s].task = row.task
        /\ sessions'[s].status = new[s].status /\ sessions'[s].minutes = new[s].minutes
        /\ sessions'[s].start = new[s].start
    BY <2>4, MergeFields
  <2> QED BY <1>2, <2>1, <2>3, <2>5, <2>6 DEF Runs, Kept
<1> QED BY <1>1, <1>2

\* start_session: the running sessions pause and a new one appears.
Started(w) ==
  \E n \in SessionIds :
    /\ Appears(w, n)
    /\ \A s \in SessionIds \ {n} : IF s \in Loaded(w) THEN Stops(w, s, "PAUSED") ELSE sessions'[s] = sessions[s]

LEMMA StartWrites ==
  ASSUME SeenInv, NEW w \in Workers, StartWrite(w)
  PROVE  \/ sessions' = sessions /\ taskStatus' = taskStatus
         \/ Started(w) /\ taskStatus' = TaskAfterStart(txn[w].task, txn[w].seen)
<1> DEFINE r == txn[w]
           paused == [s \in Loaded(w) |-> Stop(r.view[s], "PAUSED", r.at, "other")]
           row == [NoSession EXCEPT !.employee = r.employee, !.task = r.task,
                                    !.status = "RUNNING", !.start = r.at]
           F == Flushed(w, paused, TRUE)
           n == Fresh(FreeSessions)
           table == [F EXCEPT ![n] = row]
<1>1. \/ sessions' = sessions /\ taskStatus' = taskStatus
      \/ /\ FreeSessions # {} /\ sessions' = table
         /\ taskStatus' = TaskAfterStart(r.task, r.seen)
  BY DEF StartWrite
<1>2. SUFFICES ASSUME FreeSessions # {}, sessions' = table PROVE Started(w)
  BY <1>1
<1>3. n \in SessionIds /\ sessions[n].status = "ABSENT"
  BY <1>2 DEF Fresh, FreeSessions
<1>4. n \notin Loaded(w)
  BY <1>3 DEF SeenInv, Seen, OpenStatuses
<1>5. /\ row.status = "RUNNING" /\ row.employee = r.employee /\ row.task = r.task
      /\ row.start = r.at /\ row.minutes = 0
  BY DEF NoSession
<1>6. F = [s \in SessionIds |-> F[s]]
  BY DEF Flushed
<1>7. \A s \in Loaded(w) : \E reason : paused[s] = Stop(txn[w].view[s], "PAUSED", txn[w].at, reason)
  OBVIOUS
<1> HIDE DEF n, row, paused
<1>8. /\ sessions'[n] = row
      /\ \A s \in SessionIds \ {n} : sessions'[s] = F[s]
  BY <1>2, <1>3, <1>6
<1>9. Appears(w, n)
  BY <1>3, <1>5, <1>8 DEF Appears
<1>10. ASSUME NEW s \in SessionIds \ {n}
       PROVE  IF s \in Loaded(w) THEN Stops(w, s, "PAUSED") ELSE sessions'[s] = sessions[s]
  <2>1. CASE s \notin Loaded(w)
    BY <1>8, <2>1 DEF Flushed
  <2>2. CASE s \in Loaded(w)
    <3>1. PICK cur \in Session : cur = sessions[s] /\ cur = txn[w].view[s]
      BY <2>2 DEF SeenInv, Seen, TypeInv, TypeOK
    <3>2. PICK t \in Nat : t = txn[w].at
      BY <2>2, ViewOK DEF SeenInv
    <3>3. PICK reason : paused[s] = Stop(cur, "PAUSED", t, reason)
      BY <1>7, <2>2, <3>1, <3>2
    <3>4. sessions'[s] = F[s]
      BY <1>8
    <3>5. /\ paused[s].status = "PAUSED" /\ paused[s].minutes = cur.minutes + Accrued(cur, t)
      BY <3>3, StopFields
    <3>6. /\ sessions'[s].employee = cur.employee /\ sessions'[s].task = cur.task
          /\ sessions'[s].status = paused[s].status /\ sessions'[s].minutes = paused[s].minutes
      <4> HIDE DEF F
      <4>1. F[s] = Merge(cur, cur, paused[s], TRUE)
        BY <2>2, <3>1 DEF F, Flushed
      <4> QED BY <3>4, <4>1 DEF Merge
    <3> QED BY <2>2, <3>1, <3>2, <3>5, <3>6 DEF Stops, Kept
  <2> QED BY <2>1, <2>2
<1> QED BY <1>3, <1>9, <1>10 DEF Started

LEMMA Writes ==
  ASSUME SeenInv, NEW w \in Workers, Advance(w)
  PROVE  \/ sessions' = sessions
         \/ StartWrite(w) /\ txn[w].op = "startLocked" /\ Started(w)
         \/ txn[w].op \in {"pause", "breakStart"} /\ StopsAll(w, "PAUSED")
         \/ txn[w].op = "cancel" /\ StopsAll(w, "CANCELLED")
         \/ txn[w].op = "complete" /\ StopsAll(w, "COMPLETED")
         \/ txn[w].op = "close" /\ StopsAll(w, "ABANDONED")
         \/ txn[w].op \in {"resume", "breakEnd"} /\ RunsAll(w)
<1> DEFINE view == txn[w].view
           at == txn[w].at
<1>0. PICK set, unset : set = TRUE /\ unset = FALSE
  OBVIOUS
<1>1. CASE PauseWrite(w)
  <2> DEFINE new == [s \in Loaded(w) |-> Stop(view[s], "PAUSED", at, "other")]
  <2>1. PICK given \in BOOLEAN : sessions' = Flushed(w, new, given)
    BY <1>1 DEF PauseWrite
  <2>2. \A s \in Loaded(w) : \E reason : new[s] = Stop(view[s], "PAUSED", at, reason)
    OBVIOUS
  <2> HIDE DEF new
  <2> QED BY <1>1, <2>1, <2>2, FlushStops DEF PauseWrite
<1>2. CASE ResumeWrite(w)
  <2> DEFINE new == [s \in Loaded(w) |-> Rerun(view[s], view[s].start)]
  <2>2. PICK had \in BOOLEAN : sessions' = Flushed(w, new, had)
    BY <1>2 DEF ResumeWrite
  <2>3. \A s \in Loaded(w) : \E start \in {at, view[s].start} : new[s] = Rerun(view[s], start)
    OBVIOUS
  <2> HIDE DEF new
  <2> QED BY <1>2, <2>2, <2>3, FlushRuns DEF ResumeWrite
<1>3. CASE CancelWrite(w)
  <2> DEFINE new == [s \in Loaded(w) |-> Stop(view[s], "CANCELLED", at, view[s].reason)]
  <2>1. sessions' = Flushed(w, new, unset)
    BY <1>0, <1>3 DEF CancelWrite
  <2>2. \A s \in Loaded(w) : \E reason : new[s] = Stop(view[s], "CANCELLED", at, reason)
    OBVIOUS
  <2> HIDE DEF new
  <2>3. StopsAll(w, "CANCELLED")
    BY <2>1, <2>2, FlushStops
  <2> QED BY <1>3, <2>3 DEF CancelWrite
<1>4. CASE CompleteWrite(w)
  <2>1. PICK s \in Loaded(w) :
          \/ sessions' = sessions
          \/ sessions' = Flushed(w, [x \in Loaded(w) |->
                                       Stop(view[s], "COMPLETED", at, view[s].reason)], FALSE)
    BY <1>4 DEF CompleteWrite
  <2> DEFINE new == [x \in Loaded(w) |-> Stop(view[s], "COMPLETED", at, view[s].reason)]
  <2>2. \A x \in Loaded(w) : x = s
    BY <1>4 DEF SeenInv, Seen, CompleteWrite
  <2>3. \A x \in Loaded(w) : \E reason : new[x] = Stop(view[x], "COMPLETED", at, reason)
    BY <2>2
  <2>4. sessions' = sessions \/ sessions' = Flushed(w, new, unset)
    BY <1>0, <2>1
  <2> HIDE DEF new
  <2> QED BY <1>4, <2>3, <2>4, FlushStops DEF CompleteWrite
<1>5. CASE BreakStartWrite(w)
  <2> DEFINE new == [s \in Loaded(w) |-> Stop(view[s], "PAUSED", at, "break")]
  <2>1. sessions' = sessions \/ sessions' = Flushed(w, new, set)
    BY <1>0, <1>5 DEF BreakStartWrite
  <2>2. \A s \in Loaded(w) : \E reason : new[s] = Stop(view[s], "PAUSED", at, reason)
    OBVIOUS
  <2> HIDE DEF new
  <2> QED BY <1>5, <2>1, <2>2, FlushStops DEF BreakStartWrite
<1>6. CASE BreakEndWrite(w)
  <2> DEFINE new == [s \in Loaded(w) |-> Rerun(view[s], at)]
  <2>1. sessions' = sessions \/ sessions' = Flushed(w, new, set)
    BY <1>0, <1>6 DEF BreakEndWrite
  <2>2. \A s \in Loaded(w) : \E start \in {at, view[s].start} : new[s] = Rerun(view[s], start)
    OBVIOUS
  <2> HIDE DEF new
  <2> QED BY <1>6, <2>1, <2>2, FlushRuns DEF BreakEndWrite
<1>7. CASE CloseWrite(w)
  <2> DEFINE new == [s \in Loaded(w) |-> Stop(view[s], "ABANDONED", at, "other")]
  <2>1. sessions' = Flushed(w, new, set)
    BY <1>0, <1>7 DEF CloseWrite
  <2>2. \A s \in Loaded(w) : \E reason : new[s] = Stop(view[s], "ABANDONED", at, reason)
    OBVIOUS
  <2> HIDE DEF new
  <2>3. StopsAll(w, "ABANDONED")
    BY <2>1, <2>2, FlushStops
  <2> QED BY <1>7, <2>3 DEF CloseWrite
<1>8. CASE StartWrite(w)
  BY <1>8, StartWrites DEF StartWrite
<1>9. CASE StartLock(w) \/ ClockOutWrite(w) \/ CloseRead(w)
  BY <1>9 DEF StartLock, ClockOutWrite, CloseRead
<1> QED BY <1>1, <1>2, <1>3, <1>4, <1>5, <1>6, <1>7, <1>8, <1>9 DEF Advance

-----------------------------------------------------------------------------
(* What a request has read stays so while no other request runs *)

LEMMA LoadedAs ==
  ASSUME NEW w \in Workers, NEW S \in SUBSET SessionIds, txn'[w].view = Load(S),
         \A s \in S : sessions[s].status # "ABSENT"
  PROVE  Loaded(w)' = S /\ \A s \in S : txn'[w].view[s] = sessions[s]
BY DEF Loaded, Load, NoSession

LEMMA SeenIdle ==
  ASSUME NEW w \in Workers, txn'[w] = Idle
  PROVE  Seen(w)'
<1>1. Loaded(w)' = {}
  BY DEF Loaded, Idle, NoView, NoSession
<1>2. txn'[w].op = "idle"
  BY DEF Idle
<1> QED BY <1>1, <1>2 DEF Seen

LEMMA SeenFinish ==
  ASSUME OneRequest, TypeInv, NEW w \in Workers, Finish(w)
  PROVE  \A v \in Workers : Seen(v)'
<1>1. ASSUME NEW v \in Workers PROVE v = w /\ txn'[v] = Idle
  BY DEF OneRequest, Finish, TypeInv, TypeOK
<1> QED BY <1>1, SeenIdle

\* A request that reads the rows of S.
LEMMA SeenFresh ==
  ASSUME OneRequest, TypeInv, NEW w \in Workers, NEW S \in SUBSET SessionIds,
         \A s \in S : sessions[s].status \in OpenStatuses,
         txn'[w].view = Load(S), txn'[w].at = now,
         txn'[w].op \notin {"start", "startLocked", "clockOut", "clockedOut", "close"},
         txn'[w].op = "breakStart" => txn'[w].employee \in Employees /\ Attended(txn'[w].employee),
         txn'[w].op \in {"resume", "complete"} => \A s, x \in S : s = x,
         txn'[w].op = "resume" => \A s \in S : Running(sessions[s].employee) = {},
         txn'[w].op = "breakEnd" => \A s \in S : sessions[s].status = "PAUSED" /\ sessions[s].employee = txn'[w].employee,
         UNCHANGED <<sessions, attendance, now>>
  PROVE  \A v \in Workers : Seen(v)'
<1>1. Loaded(w)' = S /\ \A s \in S : txn'[w].view[s] = sessions[s]
  BY LoadedAs DEF OpenStatuses
<1>2. \A e : Running(e)' = Running(e) /\ (Attended(e) => Attended(e)')
  BY DEF Running, Attended
<1>3. Seen(w)'
  BY <1>1, <1>2 DEF Seen
<1> QED BY <1>3 DEF OneRequest

LEMMA SeenReads ==
  ASSUME OneRequest, SeenInv, NEW w \in Workers,
         NEW s \in SessionIds, PauseRead(w, s) \/ ResumeRead(w, s) \/ CancelRead(w, s) \/ CompleteRead(w, s)
  PROVE  \A v \in Workers : Seen(v)'
<1> DEFINE e == sessions[s].employee
<1>1. /\ TypeInv /\ txn \in [Workers -> Txn] /\ UNCHANGED <<sessions, attendance, now>>
  BY DEF SeenInv, TypeInv, TypeOK, PauseRead, ResumeRead, CancelRead, CompleteRead
<1>2. PICK op \in {"pause", "resume", "cancel", "complete"} : 
         /\ Begin(w, e, op, {s}) /\ sessions[s].status \in OpenStatuses
         /\ op = "resume" => Running(e) = {}
  BY DEF PauseRead, ResumeRead, CancelRead, CompleteRead, OpenStatuses, OtherRunning, Running
<1> HIDE DEF e
<1>3. txn'[w] = [Idle EXCEPT !.op = op, !.employee = e, !.at = now, !.view = Load({s})]
  BY <1>1, <1>2 DEF Begin
<1>4. txn'[w].op = op /\ txn'[w].view = Load({s}) /\ txn'[w].at = now
  BY <1>3 DEF Idle
<1>5. /\ \A x \in {s} : sessions[x].status \in OpenStatuses
      /\ op = "resume" => \A x \in {s} : Running(sessions[x].employee) = {}
      /\ \A x, y \in {s} : x = y
  BY <1>2 DEF e
<1> QED BY <1>1, <1>4, <1>5, SeenFresh

LEMMA SeenBreaks ==
  ASSUME OneRequest, SeenInv, NEW w \in Workers, NEW e \in Employees,
         BreakStartRead(w, e) \/ BreakEndRead(w, e)
  PROVE  \A v \in Workers : Seen(v)'
<1>1. /\ TypeInv /\ txn \in [Workers -> Txn] /\ UNCHANGED <<sessions, attendance, now>>
  BY DEF SeenInv, TypeInv, TypeOK, BreakStartRead, BreakEndRead
<1>2. CASE BreakStartRead(w, e)
  <2>1. PICK S \in SUBSET Running(e) : Begin(w, e, "breakStart", S)
    BY <1>2 DEF BreakStartRead
  <2>2. txn'[w] = [Idle EXCEPT !.op = "breakStart", !.employee = e, !.at = now, !.view = Load(S)]
    BY <1>1, <2>1 DEF Begin
  <2>3. /\ txn'[w].op = "breakStart" /\ txn'[w].view = Load(S) /\ txn'[w].at = now
        /\ txn'[w].employee = e
    BY <2>2 DEF Idle
  <2>4. Attended(e) /\ S \in SUBSET SessionIds /\ \A s \in S : sessions[s].status \in OpenStatuses
    BY <1>2, <2>1 DEF BreakStartRead, ClockedIn, Attended, Running, OpenStatuses
  <2> QED BY <1>1, <2>3, <2>4, SeenFresh
<1>3. CASE BreakEndRead(w, e)
  <2>1. PICK b \in OpenBreaks(e), S \in SUBSET Suspended(e) :
          txn' = [txn EXCEPT ![w] = [Idle EXCEPT !.op = "breakEnd", !.employee = e, !.at = now,
                                                 !.view = Load(S), !.breaks = {b}]]
    BY <1>3 DEF BreakEndRead
  <2>2. txn'[w] = [Idle EXCEPT !.op = "breakEnd", !.employee = e, !.at = now,
                               !.view = Load(S), !.breaks = {b}]
    BY <1>1, <2>1
  <2>3. txn'[w].op = "breakEnd" /\ txn'[w].view = Load(S) /\ txn'[w].at = now /\ txn'[w].employee = e
    BY <2>2 DEF Idle
  <2>4. S \in SUBSET SessionIds /\ \A s \in S : /\ sessions[s].status \in OpenStatuses
                                              /\ sessions[s].status = "PAUSED" /\ sessions[s].employee = e
    BY <2>1 DEF Suspended, OpenStatuses
  <2> QED BY <1>1, <2>3, <2>4, SeenFresh
<1> QED BY <1>2, <1>3

LEMMA SeenStarts ==
  ASSUME OneRequest, SeenInv, NEW w \in Workers, NEW e \in Employees, NEW t \in Tasks, StartRead(w, e, t)
  PROVE  \A v \in Workers : Seen(v)'
<1> DEFINE r == [Idle EXCEPT !.op = "start", !.employee = e, !.task = t, !.at = now,
                             !.seen = taskStatus[t], !.view = Load(Running(e))]
<1>1. txn \in [Workers -> Txn] /\ Running(e) \in SUBSET SessionIds
  BY DEF SeenInv, TypeInv, TypeOK, Running
<1>2. txn'[w] = r
  BY <1>1 DEF StartRead
<1>3. /\ txn'[w].op = "start" /\ txn'[w].employee = e /\ txn'[w].task = t /\ txn'[w].at = now
      /\ txn'[w].seen = taskStatus[t] /\ txn'[w].view = Load(Running(e))
  BY <1>2 DEF Idle
<1>4. Loaded(w)' = Running(e) /\ \A s \in Running(e) : txn'[w].view[s] = sessions[s]
  BY <1>1, <1>3, LoadedAs DEF Running
<1>5. UNCHANGED <<sessions, taskStatus, now>> /\ Overlapping(e, t) = {}
  BY DEF StartRead
<1>6. Running(e)' = Running(e) /\ Overlapping(e, t)' = {}
  BY <1>5 DEF Running, Overlapping, OpenSessions
<1>7. \A s \in Running(e) : sessions[s].status \in OpenStatuses
  BY DEF Running, OpenStatuses
<1>8. Seen(w)'
  BY <1>3, <1>4, <1>5, <1>6, <1>7 DEF Seen
<1> QED BY <1>8 DEF OneRequest

LEMMA SeenLocks ==
  ASSUME OneRequest, SeenInv, NEW w \in Workers, StartLock(w)
  PROVE  \A v \in Workers : Seen(v)'
<1>1. CASE Finish(w)
  BY <1>1, SeenFinish DEF SeenInv
<1>0. PICK e, t : e = txn[w].employee /\ t = txn[w].task
  OBVIOUS
<1> DEFINE S == Loaded(w) \cap Running(e)
           r == [txn[w] EXCEPT !.op = "startLocked", !.at = now, !.view = Load(S)]
<1>2. CASE txn' = [txn EXCEPT ![w] = r] /\ ClockedIn(e, UtcDate(now))
  <2>1. txn \in [Workers -> Txn] /\ txn[w].op = "start" /\ txn[w] \in Txn /\ S \in SUBSET SessionIds
    BY DEF SeenInv, TypeInv, TypeOK, Running, StartLock
  <2>2. /\ txn'[w].op = "startLocked" /\ txn'[w].employee = e /\ txn'[w].task = t /\ txn'[w].at = now
        /\ txn'[w].seen = txn[w].seen /\ txn'[w].view = Load(S)
    BY <1>0, <1>2, <2>1 DEF Txn
  <2>3. /\ S = Running(e) /\ Overlapping(e, t) = {} /\ txn[w].seen = taskStatus[t] /\ e \in Employees
    BY <1>0, <2>1 DEF SeenInv, Seen, TypeInv, TxnOK
  <2>4. Loaded(w)' = Running(e) /\ \A s \in Running(e) : txn'[w].view[s] = sessions[s]
    <3> HIDE DEF S
    <3> QED BY <2>1, <2>2, <2>3, LoadedAs DEF Running
  <2>5. UNCHANGED <<sessions, taskStatus, now, attendance>>
    BY DEF StartLock
  <2>6. Running(e)' = Running(e) /\ Overlapping(e, t)' = {}
    BY <2>5, <2>3 DEF Running, Overlapping, OpenSessions
  <2>7. \A s \in Running(e) : sessions[s].status \in OpenStatuses
    BY DEF Running, OpenStatuses
  <2>8. Attended(e)'
    BY <1>2, <2>5 DEF ClockedIn, Attended
  <2>9. Seen(w)'
    <3> QED BY <2>2, <2>3, <2>4, <2>5, <2>6, <2>7, <2>8 DEF Seen
  <2> QED BY <2>9 DEF OneRequest
<1> QED BY <1>0, <1>1, <1>2 DEF StartLock

LEMMA SeenClockOut ==
  ASSUME OneRequest, SeenInv, NEW w \in Workers, NEW e \in Employees, ClockOutRead(w, e)
  PROVE  \A v \in Workers : Seen(v)'
<1>1. PICK d : txn' = [txn EXCEPT ![w] = [Idle EXCEPT !.op = "clockOut", !.employee = e, !.at = now,
                                                      !.day = d, !.breaks = OpenBreaks(e)]]
  BY DEF ClockOutRead
<1>2. txn'[w] = [Idle EXCEPT !.op = "clockOut", !.employee = e, !.at = now,
                             !.day = d, !.breaks = OpenBreaks(e)]
  BY <1>1 DEF SeenInv, TypeInv, TypeOK
<1>3. /\ txn'[w].op = "clockOut" /\ txn'[w].employee = e /\ txn'[w].at = now /\ txn'[w].view = NoView
      /\ txn'[w].breaks = OpenBreaks(e)
  BY <1>2 DEF Idle
<1>4. Loaded(w)' = {}
  BY <1>3 DEF Loaded, NoView, NoSession
<1>5. UNCHANGED <<breaks, now>> /\ OpenBreaks(e)' = OpenBreaks(e)
  BY DEF ClockOutRead, OpenBreaks
<1>6. Seen(w)'
  BY <1>3, <1>4, <1>5 DEF Seen
<1> QED BY <1>6 DEF OneRequest

LEMMA SeenClockedOut ==
  ASSUME OneRequest, SeenInv, NEW w \in Workers, ClockOutWrite(w)
  PROVE  \A v \in Workers : Seen(v)'
<1>0. PICK e : e = txn[w].employee
  OBVIOUS
<1>1. txn'[w] = [Idle EXCEPT !.op = "clockedOut", !.employee = e]
  BY <1>0 DEF SeenInv, TypeInv, TypeOK, ClockOutWrite
<1>2. txn'[w].op = "clockedOut" /\ txn'[w].employee = e /\ txn'[w].view = NoView
  BY <1>1 DEF Idle
<1>3. Loaded(w)' = {}
  BY <1>2 DEF Loaded, NoView, NoSession
<1>4. OpenBreaks(e)' = {}
  <2>1. txn[w].breaks = OpenBreaks(e) /\ e \in Employees
    BY <1>0 DEF ClockOutWrite, SeenInv, Seen
  <2>2. \A b \in BreakIds : breaks'[b] = IF b \in OpenBreaks(e) THEN NoBreak ELSE breaks[b]
    BY <2>1 DEF ClockOutWrite, CloseBreaks
  <2> QED BY <2>1, <2>2, ConstantsAssumption DEF OpenBreaks, NoBreak
<1>5. Seen(w)'
  <2> QED BY <1>2, <1>3, <1>4 DEF Seen
<1> QED BY <1>5 DEF OneRequest

LEMMA SeenCloses ==
  ASSUME OneRequest, SeenInv, NEW w \in Workers, CloseRead(w)
  PROVE  \A v \in Workers : Seen(v)'
<1>1. CASE Finish(w)
  BY <1>1, SeenFinish DEF SeenInv
<1>0. PICK e : e = txn[w].employee
  OBVIOUS
<1> DEFINE S == OpenSessions(e)
           r == [txn[w] EXCEPT !.op = "close", !.at = now, !.view = Load(S)]
<1>2. CASE txn' = [txn EXCEPT ![w] = r]
  <2>1. txn \in [Workers -> Txn] /\ txn[w].op = "clockedOut" /\ txn[w] \in Txn /\ S \in SUBSET SessionIds
    BY DEF SeenInv, TypeInv, TypeOK, OpenSessions, CloseRead
  <2>2. /\ txn'[w].op = "close" /\ txn'[w].employee = e /\ txn'[w].at = now
        /\ txn'[w].view = Load(S)
    BY <1>0, <1>2, <2>1 DEF Txn
  <2>3. OpenBreaks(e) = {}
    BY <1>0, <2>1 DEF SeenInv, Seen
  <2>4. \A s \in S : sessions[s].status \in OpenStatuses
    BY DEF OpenSessions
  <2>5. Loaded(w)' = S /\ \A s \in S : txn'[w].view[s] = sessions[s]
    <3> HIDE DEF S
    <3> QED BY <2>1, <2>2, <2>4, LoadedAs DEF OpenStatuses
  <2>6. UNCHANGED <<sessions, breaks, now>>
    BY DEF CloseRead
  <2>7. OpenSessions(e)' = OpenSessions(e) /\ OpenBreaks(e)' = {}
    BY <2>6, <2>3 DEF OpenSessions, OpenBreaks
  <2>8. Seen(w)'
    <3> QED BY <2>2, <2>4, <2>5, <2>6, <2>7 DEF Seen
  <2> QED BY <2>8 DEF OneRequest
<1> QED BY <1>0, <1>1, <1>2 DEF CloseRead

\* A step of nobody's request that leaves employees at work what they are.
LEMMA SeenStays ==
  ASSUME SeenInv, UNCHANGED <<sessions, breaks, taskStatus, txn, now>>,
         \A e \in Employees : Attended(e) => Attended(e)'
  PROVE  \A v \in Workers : Seen(v)'
<1> SUFFICES ASSUME NEW v \in Workers PROVE Seen(v)'
  OBVIOUS
<1>1. /\ Loaded(v)' = Loaded(v)
      /\ \A e : /\ Running(e)' = Running(e) /\ OpenBreaks(e)' = OpenBreaks(e)
                /\ OpenSessions(e)' = OpenSessions(e)
                /\ \A t : Overlapping(e, t)' = Overlapping(e, t)
  BY DEF Loaded, Running, OpenBreaks, OpenSessions, Overlapping
<1> QED BY <1>1 DEF Seen, SeenInv

LEMMA StaysAttended ==
  ASSUME TypeInv, [Next]_vars, NEW e \in Employees, Attended(e),
         ~ \E w \in Workers : ClockOutWrite(w)
  PROVE  Attended(e)'
<1>1. PICK d \in Days : attendance[e][d].in # None /\ attendance[e][d].out \in {None, attendance[e][d].in + AutoCloseAfter}
  BY DEF Attended
<1>2. attendance \in [Employees -> [Days -> Presence]]
  BY DEF TypeInv, TypeOK
<1>3. CASE attendance'[e][d] = attendance[e][d]
  BY <1>1, <1>3 DEF Attended
<1>4. ASSUME NEW w \in Workers, NEW x \in Employees, ClockIn(w, x)
      PROVE  attendance'[e][d] = attendance[e][d]
  BY <1>1, <1>2, <1>4 DEF ClockIn
<1>5. CASE AutoClose
  <2> DEFINE p == attendance[e][d]
  <2>1. attendance'[e][d] = IF Overdue(p) THEN [p EXCEPT !.out = p.in + AutoCloseAfter] ELSE p
    BY <1>5 DEF AutoClose
  <2>2. /\ attendance'[e][d].in = p.in 
        /\ attendance'[e][d].out = p.out \/ attendance'[e][d].out = p.in + AutoCloseAfter
    BY <1>2, <2>1 DEF Presence
  <2> QED BY <1>1, <2>2 DEF Attended
<1>6. CASE attendance' = attendance
  BY <1>3, <1>6
<1>7. ASSUME NEW w \in Workers, Request(w) PROVE Attended(e)'
  <2>1. attendance' = attendance \/ \E x \in Employees : ClockIn(w, x)
    BY <1>7 DEF Request, StartRead, PauseRead, ResumeRead, CancelRead, CompleteRead,
       BreakStartRead, BreakEndRead, ClockOutRead
  <2> QED BY <1>3, <1>4, <1>6, <2>1
<1>8. ASSUME NEW w \in Workers, Advance(w) PROVE attendance' = attendance
  <2>1. ~ ClockOutWrite(w)
    OBVIOUS
  <2> QED BY <1>8, <2>1 DEF Advance, StartLock, StartWrite, PauseWrite, ResumeWrite, CancelWrite,
         CompleteWrite, BreakStartWrite, BreakEndWrite, CloseRead, CloseWrite
<1>9. CASE ~ AutoClose /\ \A w \in Workers : ~ Request(w) /\ ~ Advance(w)
  BY <1>6, <1>9 DEF vars, Next, Abort, LogTime, DeleteEntry, Tick
<1> QED BY <1>5, <1>6, <1>7, <1>8, <1>9

LEMMA SeenKept ==
  ASSUME OneRequest, SeenInv, [Next]_vars
  PROVE  SeenInv'
<1>1. TypeInv /\ TypeInv'
  BY NextTypes DEF SeenInv
<1> DEFINE Goal == \A v \in Workers : Seen(v)'
<1>2. SUFFICES Goal
  BY <1>1 DEF SeenInv
<1>3. ASSUME NEW w \in Workers, Finish(w) PROVE Goal
  BY <1>1, <1>3, SeenFinish
<1>4. ASSUME UNCHANGED <<sessions, breaks, taskStatus, txn, now>>,
             ~ \E w \in Workers : ClockOutWrite(w)
      PROVE  Goal
  BY <1>1, <1>4, StaysAttended, SeenStays
<1>5. ASSUME NEW w \in Workers, Request(w) PROVE Goal
  <2>1. CASE \E e \in Employees, t \in Tasks : StartRead(w, e, t)
    BY <2>1, SeenStarts
  <2>2. CASE \E s \in SessionIds : PauseRead(w, s) \/ ResumeRead(w, s) \/ CancelRead(w, s) \/ CompleteRead(w, s)
    BY <2>2, SeenReads
  <2>3. CASE \E e \in Employees : BreakStartRead(w, e) \/ BreakEndRead(w, e)
    BY <2>3, SeenBreaks
  <2>4. CASE \E e \in Employees : ClockOutRead(w, e)
    BY <2>4, SeenClockOut
  <2>5. CASE \E e \in Employees : ClockIn(w, e)
    <3>1. ASSUME NEW v \in Workers, ClockOutWrite(v) PROVE FALSE
      <4>1. v = w /\ txn[v].op = "clockOut" /\ txn[w].op = "idle"
        BY <2>5, <3>1 DEF OneRequest, ClockOutWrite, ClockIn
      <4> QED BY <4>1
    <3> QED BY <1>4, <2>5, <3>1 DEF ClockIn
  <2> HIDE DEF Goal
  <2> QED BY <1>5, <2>1, <2>2, <2>3, <2>4, <2>5 DEF Request
<1>6. ASSUME NEW w \in Workers, Advance(w) PROVE Goal
  <2>1. CASE StartLock(w)
    BY <2>1, SeenLocks
  <2>2. CASE ClockOutWrite(w)
    BY <2>2, SeenClockedOut
  <2>3. CASE CloseRead(w)
    BY <2>3, SeenCloses
  <2>4. StartLock(w) \/ ClockOutWrite(w) \/ CloseRead(w) \/ Finish(w)
    BY <1>6 DEF Advance, StartWrite, PauseWrite, ResumeWrite, CancelWrite, CompleteWrite,
       BreakStartWrite, BreakEndWrite, CloseWrite
  <2> HIDE DEF Goal
  <2> QED BY <1>3, <2>1, <2>2, <2>3, <2>4
<1>7. ASSUME NEW w \in Workers, Abort(w) PROVE Goal
  BY <1>3, <1>7 DEF Abort
<1>8. CASE Tick
  <2>1. TypeInv /\ now' = now + 1 /\ UNCHANGED <<sessions, breaks, attendance, taskStatus, txn>>
    BY <1>1, <1>8 DEF Tick
  <2>2. ASSUME NEW v \in Workers PROVE Seen(v)'
    <3>1. /\ Loaded(v)' = Loaded(v)
          /\ \A e : /\ Running(e)' = Running(e) /\ OpenBreaks(e)' = OpenBreaks(e)
                    /\ OpenSessions(e)' = OpenSessions(e) /\ (Attended(e) => Attended(e)')
                    /\ \A t : Overlapping(e, t)' = Overlapping(e, t)
      BY <2>1 DEF Loaded, Running, OpenBreaks, OpenSessions, Overlapping, Attended
    <3>2. "slow" \in Environment \/ txn[v].op = "idle"
      BY <1>8 DEF Tick
    <3> QED BY <2>1, <3>1, <3>2 DEF Seen, SeenInv
  <2> QED BY <2>2
<1>9. CASE ~ Tick /\ \A w \in Workers : ~ Request(w) /\ ~ Advance(w) /\ ~ Abort(w)
  <2>1. UNCHANGED <<sessions, breaks, taskStatus, txn, now>>
    BY <1>9 DEF vars, Next, LogTime, DeleteEntry, AutoClose
  <2>2. ~ \E w \in Workers : ClockOutWrite(w)
    BY <1>9 DEF Advance
  <2> QED BY <1>4, <2>1, <2>2
<1> HIDE DEF Goal
<1> QED BY <1>5, <1>6, <1>7, <1>8, <1>9

LEMMA SeenAlways == OneRequest => (Spec => []SeenInv)
<1> SUFFICES ASSUME OneRequest PROVE Spec => []SeenInv
  OBVIOUS
<1>1. Init => SeenInv
  <2> SUFFICES ASSUME Init PROVE SeenInv
    OBVIOUS
  <2>1. ASSUME NEW w \in Workers PROVE Loaded(w) = {} /\ txn[w].op = "idle"
    BY DEF Init, Loaded, Idle, NoView, NoSession
  <2> QED BY <2>1, InitTypes DEF SeenInv, Seen
<1>2. SeenInv /\ [Next]_vars => SeenInv'
  BY SeenKept
<1> QED BY <1>1, <1>2, PTL DEF Spec

-----------------------------------------------------------------------------
(* What is finished stays finished *)

\* No row leaves COMPLETED, CANCELLED or ABANDONED.
LEMMA FrozenStep ==
  ASSUME SeenInv, [Next]_vars, NEW s \in SessionIds,
         sessions[s].status \in {"COMPLETED", "CANCELLED", "ABANDONED"}
  PROVE  sessions'[s] = sessions[s]
<1>1. \A w \in Workers : s \notin Loaded(w)
  BY DEF SeenInv, Seen, OpenStatuses
<1>2. ASSUME NEW w \in Workers, Advance(w) PROVE sessions'[s] = sessions[s]
  <2>1. sessions' = sessions \/ (\E status : StopsAll(w, status)) \/ RunsAll(w) \/ Started(w)
    BY <1>2, Writes
  <2> QED BY <1>1, <2>1 DEF StopsAll, RunsAll, Started, Appears
<1>3. CASE \A w \in Workers : ~ Advance(w)
  BY <1>3, OthersKeepSessions, NextTypes DEF SeenInv
<1> QED BY <1>2, <1>3
LEMMA NobodyBooks ==
  ASSUME BookedOnce, SeenInv, NEW w \in Workers, NEW s \in Loaded(w), NEW x \in entries
  PROVE  x.source # s
<1>1. s \in SessionIds /\ s # None /\ sessions[s].status # "COMPLETED"
  BY ConstantsAssumption DEF SeenInv, Seen, Loaded, OpenStatuses, SessionIds
<1> QED BY <1>1 DEF BookedOnce

\* complete_session either rolls back or books the session it completes.
LEMMA CompleteBooks ==
  ASSUME BookedOnce, SeenInv, NEW w \in Workers, CompleteWrite(w)
  PROVE  \/ sessions' = sessions /\ entries' = entries
         \/ /\ StopsAll(w, "COMPLETED")
            /\ \E s \in Loaded(w) :
                 /\ Loaded(w) = {s}
                 /\ \/ entries' = entries /\ ~ sessions'[s].minutes >= 1
                    \/ \E x : entries' = entries \cup {x} /\ x.source = s /\ x.minutes = sessions'[s].minutes
<1>1. SUFFICES ASSUME ~ (sessions' = sessions /\ entries' = entries)
               PROVE  /\ StopsAll(w, "COMPLETED")
                      /\ \E s \in Loaded(w) :
                           /\ Loaded(w) = {s}
                           /\ \/ entries' = entries /\ ~ sessions'[s].minutes >= 1
                              \/ \E x : entries' = entries \cup {x} /\ x.source = s /\ x.minutes = sessions'[s].minutes
  OBVIOUS
<1> DEFINE R(s) == Stop(txn[w].view[s], "COMPLETED", txn[w].at, txn[w].view[s].reason)
<1>2. PICK s \in Loaded(w), mark \in BOOLEAN :
        /\ sessions' = Flushed(w, [x \in Loaded(w) |-> R(s)], FALSE)
        /\ entries' = entries \cup (IF EntryDue(s, R(s)) THEN {EntryOf(s, R(s))} ELSE {})
  BY <1>1 DEF CompleteWrite
<1>3. PICK row, t : row = R(s) /\ t = txn[w].at
  OBVIOUS
<1>4. Loaded(w) = {s}
  BY DEF SeenInv, Seen, CompleteWrite
<1>5. PICK cur \in Session : cur = sessions[s] /\ cur = txn[w].view[s]
  BY DEF SeenInv, Seen, TypeInv, TypeOK, Loaded
<1>6. t \in Nat
  BY <1>3, ViewOK DEF SeenInv
<1>7. row = Stop(cur, "COMPLETED", t, cur.reason)
  BY <1>3, <1>5
<1>8. row.status = "COMPLETED" /\ row.minutes = cur.minutes + Accrued(cur, t)
  BY <1>6, <1>7, StopFields
<1> HIDE DEF R
<1>9. sessions'[s] = Merge(cur, cur, row, FALSE)
  BY <1>2, <1>3, <1>5 DEF Flushed, Loaded
<1>10. /\ sessions'[s].employee = cur.employee /\ sessions'[s].task = cur.task
       /\ sessions'[s].status = row.status /\ sessions'[s].minutes = row.minutes
  BY <1>9 DEF Merge
<1>11. StopsAll(w, "COMPLETED")
  <2>1. \A x \in SessionIds \ {s} : sessions'[x] = sessions[x]
    BY <1>2, <1>4 DEF Flushed
  <2> QED BY <1>3, <1>4, <1>5, <1>8, <1>10, <2>1 DEF StopsAll, Stops, Kept, Loaded
<1>12. EntryDue(s, row) <=> row.minutes >= 1
  BY NobodyBooks DEF EntryDue
<1>13. EntryOf(s, row).source = s /\ EntryOf(s, row).minutes = row.minutes
  BY DEF EntryOf
<1> QED BY <1>2, <1>3, <1>4, <1>10, <1>11, <1>12, <1>13

LEMMA OthersKeepEntries ==
  ASSUME [Next]_vars, \A w \in Workers : ~ CompleteWrite(w)
  PROVE  /\ \A x \in entries' : x \in entries \/ x.source = None
         /\ sessions' # sessions => entries' = entries
<1>1. ASSUME NEW e \in Employees, NEW t \in Tasks, LogTime(e, t)
      PROVE  sessions' = sessions /\ \A x \in entries' : x \in entries \/ x.source = None
  BY <1>1 DEF LogTime
<1>2. ASSUME NEW x \in entries, DeleteEntry(x) PROVE sessions' = sessions /\ entries' \subseteq entries
  BY <1>2 DEF DeleteEntry
<1>3. ASSUME NEW w \in Workers, Request(w) PROVE entries' = entries
  BY <1>3 DEF Request, StartRead, PauseRead, ResumeRead, CancelRead, CompleteRead,
     BreakStartRead, BreakEndRead, ClockIn, ClockOutRead
<1>4. ASSUME NEW w \in Workers, Advance(w) PROVE entries' = entries
  BY <1>4 DEF Advance, StartLock, StartWrite, PauseWrite, ResumeWrite, CancelWrite,
     BreakStartWrite, BreakEndWrite, ClockOutWrite, CloseRead, CloseWrite
<1>5. ASSUME NEW w \in Workers, Abort(w) PROVE entries' = entries
  BY <1>5 DEF Abort
<1>6. CASE AutoClose \/ Tick \/ UNCHANGED vars
  BY <1>6 DEF AutoClose, Tick, vars
<1> QED BY <1>1, <1>2, <1>3, <1>4, <1>5, <1>6 DEF Next

\* A session that was not, and now is, completed was completed by complete_session.
LEMMA CompletedBy ==
  ASSUME SeenInv, [Next]_vars, NEW s \in SessionIds,
         sessions[s].status # "COMPLETED", sessions'[s].status = "COMPLETED"
  PROVE  \E w \in Workers : CompleteWrite(w)
<1>1. PICK w \in Workers : Advance(w)
  BY OthersKeepSessions
<1>2. CASE txn[w].op = "complete"
  BY <1>1, <1>2 DEF Advance, StartLock, StartWrite, PauseWrite, ResumeWrite, CancelWrite,
     BreakStartWrite, BreakEndWrite, ClockOutWrite, CloseRead, CloseWrite
<1>3. CASE txn[w].op # "complete"
  <2>1. \/ sessions' = sessions \/ Started(w) \/ RunsAll(w)
        \/ \E status \in {"PAUSED", "CANCELLED", "ABANDONED"} : StopsAll(w, status)
    BY <1>1, <1>3, Writes
  <2> QED BY <2>1 DEF Started, Appears, RunsAll, Runs, StopsAll, Stops
<1> QED BY <1>1, <1>2, <1>3

LEMMA BookedStep ==
  ASSUME SeenInv, BookedOnce, [Next]_vars
  PROVE  BookedOnce'
<1>1. \A s \in SessionIds : sessions[s].status = "COMPLETED" => sessions'[s].status = "COMPLETED"
  BY FrozenStep
<1>2. \A x \in entries : x.source # None => x.source \in SessionIds
  BY DEF SeenInv, TypeInv, TypeOK, Entry
<1>3. CASE \A w \in Workers : ~ CompleteWrite(w)
  <2>1. \A x \in entries' : x \in entries \/ x.source = None
    BY <1>3, OthersKeepEntries
  <2> QED BY <1>1, <1>2, <2>1 DEF BookedOnce
<1>4. ASSUME NEW w \in Workers, CompleteWrite(w) PROVE BookedOnce'
  <2>1. CASE entries' = entries
    BY <1>1, <1>2, <2>1 DEF BookedOnce
  <2>2. CASE entries' # entries
    <3>1. PICK s \in Loaded(w) : /\ StopsAll(w, "COMPLETED")
                                 /\ \E x : entries' = entries \cup {x} /\ x.source = s
      BY <1>4, <2>2, CompleteBooks
    <3>2. sessions'[s].status = "COMPLETED" /\ \A y \in entries : y.source # s
      BY <1>4, <3>1, NobodyBooks DEF StopsAll, Stops, Loaded
    <3>3. PICK x : entries' = entries \cup {x} /\ x.source = s
      BY <3>1
    <3> QED BY <1>1, <1>2, <3>2, <3>3 DEF BookedOnce
  <2> QED BY <2>1, <2>2
<1> QED BY <1>3, <1>4

\* When requests do not overlap, a finished session is never touched again, and a
\* session of a minute or more is completed only together with its time record.
THEOREM HistoryKeptCorrect == OneRequest => (Spec => HistoryKept)
<1> SUFFICES ASSUME OneRequest PROVE Spec => HistoryKept
  OBVIOUS
<1>1. Init => BookedOnce
  BY DEF Init, BookedOnce
<1>2. SeenInv /\ BookedOnce /\ [Next]_vars => BookedOnce'
  BY BookedStep
<1>3. SeenInv /\ [Next]_vars
      => [\A s \in SessionIds : sessions[s].status \in {"COMPLETED", "CANCELLED", "ABANDONED"}
                                => sessions'[s] = sessions[s]]_vars
  BY FrozenStep
<1>4. SeenInv /\ BookedOnce /\ [Next]_vars
      => [\A s \in SessionIds :
            (/\ sessions[s].status # "COMPLETED" /\ sessions'[s].status = "COMPLETED"
             /\ sessions'[s].minutes >= 1)
            => \E x \in entries' : x.source = s /\ x.minutes = sessions'[s].minutes]_vars
  <2> SUFFICES ASSUME SeenInv, BookedOnce, [Next]_vars, NEW s \in SessionIds,
                      sessions[s].status # "COMPLETED", sessions'[s].status = "COMPLETED",
                      sessions'[s].minutes >= 1
               PROVE  \E x \in entries' : x.source = s /\ x.minutes = sessions'[s].minutes
    OBVIOUS
  <2>1. PICK w \in Workers : CompleteWrite(w)
    BY CompletedBy
  <2>2. PICK z \in Loaded(w) :
          /\ Loaded(w) = {z} /\ StopsAll(w, "COMPLETED")
          /\ \/ entries' = entries /\ ~ sessions'[z].minutes >= 1
             \/ \E x : entries' = entries \cup {x} /\ x.source = z /\ x.minutes = sessions'[z].minutes
    BY <2>1, CompleteBooks
  <2>3. z = s
    BY <2>2 DEF StopsAll
  <2> QED BY <2>2, <2>3
<1>5. Spec => []SeenInv
  BY SeenAlways
<1> QED BY <1>1, <1>2, <1>3, <1>4, <1>5, PTL DEF Spec, HistoryKept, FinishedSessionsFrozen, CompletionLeavesEntry

-----------------------------------------------------------------------------
(* What was worked is covered *)

Covered(s) == /\ sessions[s].minutes + Accrued(sessions[s], now) >= worked[s]
              /\ sessions[s].status = "ABSENT" => worked[s] = 0

LEMMA CoveredStop ==
  ASSUME SeenInv, "slow" \notin Environment, NEW w \in Workers, NEW s \in Loaded(w), NEW status,
         txn[w].op \notin {"idle", "clockedOut"}, status \notin {"ABSENT", "RUNNING"},
         Stops(w, s, status), UNCHANGED <<now, worked>>, Covered(s), TypeInv'
  PROVE  Covered(s)'
<1>1. txn[w].at = now
  BY DEF SeenInv, Seen
<1>2. sessions'[s].status = status /\ sessions'[s].minutes = sessions[s].minutes + Accrued(sessions[s], now)
  BY <1>1 DEF Stops
<1>3. Accrued(sessions'[s], now') = 0
  BY <1>2 DEF Accrued
<1>4. sessions'[s].minutes \in Nat
  BY DEF TypeInv, TypeOK, Session, Loaded
<1> QED BY <1>2, <1>3, <1>4 DEF Covered

LEMMA CoveredRun ==
  ASSUME SeenInv, NEW w \in Workers, NEW s \in Loaded(w),
         txn[w].op \in {"resume", "breakEnd"},
         Runs(w, s), UNCHANGED <<now, worked>>, Covered(s)
  PROVE  Covered(s)'
<1>1. s \in SessionIds /\ sessions[s].status = "PAUSED"
  <2>1. s \in SessionIds /\ sessions[s].status \in OpenStatuses
    BY DEF SeenInv, Seen, Loaded
  <2>2. CASE txn[w].op = "resume"
    BY <2>1, <2>2 DEF SeenInv, Seen, Running, OpenStatuses
  <2>3. CASE txn[w].op = "breakEnd"
    BY <2>1, <2>3 DEF SeenInv, Seen
  <2> QED BY <2>2, <2>3
<1>2. sessions[s].minutes \in Nat /\ now \in Nat /\ txn[w].at \in Nat /\ txn[w].at <= now /\ worked[s] \in Nat
  BY <1>1, ViewOK DEF SeenInv, TypeInv, TypeOK, Session
<1>3. sessions[s].minutes >= worked[s]
  BY <1>1, <1>2 DEF Covered, Accrued
<1>4. /\ sessions'[s].status = "RUNNING" /\ sessions'[s].minutes = sessions[s].minutes
      /\ sessions'[s].start \in Nat /\ sessions'[s].start <= now
  BY <1>2 DEF Runs
<1> QED BY <1>2, <1>3, <1>4 DEF Covered, Accrued

LEMMA CoveredStep ==
  ASSUME SeenInv, "slow" \notin Environment, \A s \in SessionIds : Covered(s), [Next]_vars
  PROVE  \A s \in SessionIds : Covered(s)'
<1> SUFFICES ASSUME NEW s \in SessionIds PROVE Covered(s)'
  OBVIOUS
<1>0. TypeInv /\ TypeInv'
  BY NextTypes DEF SeenInv
<1>1. CASE sessions'[s] = sessions[s] /\ UNCHANGED <<now, worked>>
  BY <1>1 DEF Covered
<1>2. ASSUME NEW w \in Workers, Advance(w) PROVE Covered(s)'
  <2>1. UNCHANGED <<now, worked>>
    BY <1>2 DEF Advance, StartLock, StartWrite, PauseWrite, ResumeWrite, CancelWrite, CompleteWrite,
       BreakStartWrite, BreakEndWrite, ClockOutWrite, CloseRead, CloseWrite
  <2>2. CASE s \in Loaded(w) /\ txn[w].op \notin {"idle", "clockedOut"} /\
             \E status \in {"PAUSED", "CANCELLED", "COMPLETED", "ABANDONED"} : Stops(w, s, status)
    BY <1>0, <2>1, <2>2, CoveredStop
  <2>3. CASE s \in Loaded(w) /\ txn[w].op \in {"resume", "breakEnd"} /\ Runs(w, s)
    BY <2>1, <2>3, CoveredRun
  <2>4. CASE Appears(w, s)
    <3>1. txn[w].at \in Nat /\ now \in Nat /\ txn[w].at <= now
      BY DEF SeenInv, TypeInv, TypeOK, TxnOK, Txn
    <3> QED BY <2>1, <2>4, <3>1 DEF Covered, Appears, Accrued
  <2>5. \/ sessions'[s] = sessions[s] \/ Appears(w, s)
        \/ /\ s \in Loaded(w) /\ txn[w].op \notin {"idle", "clockedOut"}
           /\ \E status \in {"PAUSED", "CANCELLED", "COMPLETED", "ABANDONED"} : Stops(w, s, status)
        \/ s \in Loaded(w) /\ txn[w].op \in {"resume", "breakEnd"} /\ Runs(w, s)
    BY <1>2, Writes DEF StopsAll, RunsAll, Started
  <2> QED BY <1>1, <2>1, <2>2, <2>3, <2>4, <2>5
<1>3. CASE Tick
  <2>1. /\ sessions' = sessions /\ now' = now + 1 
        /\ worked'[s] = worked[s] + IF sessions[s].status = "RUNNING" THEN 1 ELSE 0
    BY <1>3 DEF Tick
  <2>2. /\ sessions[s].minutes \in Nat /\ sessions[s].start \in Nat /\ now \in Nat /\ worked[s] \in Nat
    BY <1>0 DEF TypeInv, TypeOK, Session
  <2> QED BY <2>1, <2>2 DEF Covered, Accrued
<1>4. CASE ~ Tick /\ \A w \in Workers : ~ Advance(w)
  <2>1. sessions' = sessions
    BY <1>4, OthersKeepSessions
  <2>2. ASSUME NEW w \in Workers, Request(w) \/ Abort(w) PROVE UNCHANGED <<now, worked>>
    BY <2>2 DEF Request, StartRead, PauseRead, ResumeRead, CancelRead, CompleteRead,
       BreakStartRead, BreakEndRead, ClockIn, ClockOutRead, Abort
  <2>3. UNCHANGED <<now, worked>>
    BY <1>4, <2>2 DEF vars, Next, LogTime, DeleteEntry, AutoClose
  <2> QED BY <1>1, <2>1, <2>3
<1> QED BY <1>2, <1>3, <1>4

\* When requests do not overlap and end within their minute, a session is booked at
\* most once and no minute that was worked is lost.
THEOREM WorkBookedCorrect ==
  OneRequest /\ "slow" \notin Environment => (Spec => []WorkBooked)
<1> SUFFICES ASSUME OneRequest, "slow" \notin Environment PROVE Spec => []WorkBooked
  OBVIOUS
<1> DEFINE Inv == BookedOnce /\ \A s \in SessionIds : Covered(s)
<1>1. Init => Inv
  BY DEF Init, BookedOnce, Covered, Accrued, NoView, NoSession
<1>2. SeenInv /\ Inv /\ [Next]_vars => Inv'
  BY BookedStep, CoveredStep
<1>3. Inv => WorkBooked
  BY DEF WorkBooked, Covered, WorkNeverLost
<1>4. Spec => []SeenInv
  BY SeenAlways
<1> QED BY <1>1, <1>2, <1>3, <1>4, PTL DEF Spec

-----------------------------------------------------------------------------
(* Where an open session may be *)

LEMMA RowSteps ==
  ASSUME SeenInv, NEW w \in Workers, Advance(w), NEW s \in SessionIds
  PROVE  \/ sessions'[s] = sessions[s]
         \/ Appears(w, s) /\ txn[w].op = "startLocked"
         \/ s \in Loaded(w) /\ (Runs(w, s) \/ \E status : Stops(w, s, status))
BY Writes DEF StopsAll, RunsAll, Started

\* An open session was open before, or start_session has just inserted it.
LEMMA OpensShrink ==
  ASSUME SeenInv, NEW w \in Workers, Advance(w), NEW s \in SessionIds,
         sessions'[s].status \in OpenStatuses
  PROVE  \/ Appears(w, s) /\ txn[w].op = "startLocked"
         \/ sessions[s].status \in OpenStatuses /\ Kept(s)
<1>1. CASE sessions'[s] = sessions[s]
  BY <1>1 DEF Kept
<1>2. CASE s \in Loaded(w) /\ (Runs(w, s) \/ \E status : Stops(w, s, status))
  BY <1>2 DEF SeenInv, Seen, Runs, Stops
<1> QED BY <1>1, <1>2, RowSteps

LEMMA OneAppears ==
  ASSUME SeenInv, NEW w \in Workers, Advance(w), NEW n \in SessionIds, Appears(w, n),
         NEW s \in SessionIds, Appears(w, s)
  PROVE  s = n
<1>1. \A x \in SessionIds : x \in Loaded(w) => sessions[x].status # "ABSENT"
  BY DEF SeenInv, Seen, OpenStatuses
<1>2. sessions'[s].status = "RUNNING" /\ sessions[s].status = "ABSENT" /\ s \notin Loaded(w)
  BY <1>1 DEF Appears
<1>3. sessions'[n].status = "RUNNING" /\ sessions[n].status = "ABSENT" /\ n \notin Loaded(w)
  BY <1>1 DEF Appears
<1>4. Started(w)
  <2>1. ~ \E status : StopsAll(w, status)
    BY <1>2 DEF StopsAll
  <2>2. ~ RunsAll(w) /\ sessions' # sessions
    BY <1>2 DEF RunsAll
  <2> QED BY <2>1, <2>2, Writes
<1>5. PICK m \in SessionIds :
        /\ Appears(w, m)
        /\ \A x \in SessionIds \ {m} : IF x \in Loaded(w) THEN Stops(w, x, "PAUSED") ELSE sessions'[x] = sessions[x]
  BY <1>4 DEF Started
<1> QED BY <1>2, <1>3, <1>5

LEMMA AloneStep ==
  ASSUME OneOpenPerTask, SeenInv, [Next]_vars
  PROVE  OneOpenPerTask'
<1>1. CASE \A w \in Workers : ~ Advance(w)
  BY <1>1, OthersKeepSessions DEF OneOpenPerTask, OpenSessions
<1>2. ASSUME NEW w \in Workers, Advance(w) PROVE OneOpenPerTask'
  <2> SUFFICES ASSUME NEW e \in Employees, NEW s \in OpenSessions(e)', NEW r \in OpenSessions(e)',
                      sessions'[s].task = sessions'[r].task
               PROVE  s = r
    BY DEF OneOpenPerTask
  <2>0. /\ s \in SessionIds /\ sessions'[s].status \in OpenStatuses /\ sessions'[s].employee = e
        /\ r \in SessionIds /\ sessions'[r].status \in OpenStatuses /\ sessions'[r].employee = e
    BY DEF OpenSessions
  <2>1. ASSUME NEW x \in SessionIds, sessions'[x].status \in OpenStatuses
        PROVE  \/ Appears(w, x) /\ txn[w].op = "startLocked"
               \/ sessions[x].status \in OpenStatuses /\ Kept(x)
    BY <1>2, <2>1, OpensShrink
  <2>2. CASE Appears(w, s) /\ Appears(w, r)
    BY <1>2, <2>0, <2>2, OneAppears
  <2>3. ASSUME NEW x \in SessionIds, NEW y \in SessionIds, Appears(w, x), txn[w].op = "startLocked",
               sessions[y].status \in OpenStatuses, Kept(y),
               sessions'[x].task = sessions'[y].task, sessions'[x].employee = sessions'[y].employee
        PROVE  FALSE
    <3>1. y \in Overlapping(txn[w].employee, txn[w].task)
      BY <2>3 DEF Overlapping, OpenSessions, Kept, Appears
    <3> QED BY <2>3, <3>1 DEF SeenInv, Seen
  <2>4. CASE sessions[s].status \in OpenStatuses /\ Kept(s) /\ sessions[r].status \in OpenStatuses /\ Kept(r)
    <3>1. s \in OpenSessions(e) /\ r \in OpenSessions(e)
      BY <2>0, <2>4 DEF OpenSessions, Kept
    <3>2. sessions[s].task = sessions[r].task
      BY <2>4 DEF Kept
    <3> QED BY <3>1, <3>2 DEF OneOpenPerTask
  <2> QED BY <2>0, <2>1, <2>2, <2>3, <2>4
<1> QED BY <1>1, <1>2

\* The task of a session that exists has been started.
LEMMA BacklogStep ==
  ASSUME StartedTaskLeftBacklog, SeenInv, [Next]_vars
  PROVE  StartedTaskLeftBacklog'
<1>0. TypeInv
  BY DEF SeenInv
<1>1. CASE UNCHANGED <<sessions, taskStatus>>
  BY <1>1 DEF StartedTaskLeftBacklog
<1>2. ASSUME NEW w \in Workers, Advance(w) PROVE StartedTaskLeftBacklog'
  <2>1. \A t \in Tasks : taskStatus[t] # "NOT_STARTED" => taskStatus'[t] # "NOT_STARTED"
    <3>1. CASE StartWrite(w)
      BY <1>0, <3>1 DEF StartWrite, TaskAfterStart, TypeInv, TypeOK
    <3>2. CASE CompleteWrite(w)
      BY <1>0, <3>2 DEF CompleteWrite, TypeInv, TypeOK
    <3> QED BY <1>2, <3>1, <3>2 DEF Advance, StartLock, PauseWrite, ResumeWrite, CancelWrite,
           BreakStartWrite, BreakEndWrite, ClockOutWrite, CloseRead, CloseWrite
  <2>2. ASSUME NEW s \in SessionIds, sessions[s].status # "ABSENT", Kept(s)
        PROVE  taskStatus'[sessions'[s].task] # "NOT_STARTED"
    <3>1. sessions[s].task \in Tasks
      BY <1>0, <2>2 DEF TypeInv, TableOK, RowOK
    <3> QED BY <2>1, <2>2, <3>1 DEF StartedTaskLeftBacklog, Kept
  <2>3. ASSUME NEW n \in SessionIds, Appears(w, n) PROVE taskStatus'[sessions'[n].task] # "NOT_STARTED"
    <3>1. StartWrite(w) /\ sessions' # sessions
      <4>1. sessions'[n].status = "RUNNING" /\ n \notin Loaded(w) /\ sessions[n].status = "ABSENT"
        BY <2>3 DEF Appears, SeenInv, Seen, OpenStatuses
      <4>2. ~ \E status : StopsAll(w, status)
        BY <4>1 DEF StopsAll
      <4>3. ~ RunsAll(w) /\ sessions' # sessions
        BY <4>1 DEF RunsAll
      <4> QED BY <1>2, <4>2, <4>3, Writes
    <3>2. taskStatus' = TaskAfterStart(txn[w].task, txn[w].seen)
      BY <3>1, StartWrites
    <3>3. txn[w].seen = taskStatus[txn[w].task] /\ txn[w].task \in Tasks
      BY <1>0, <3>1 DEF StartWrite, SeenInv, Seen, TypeInv, TxnOK
    <3> QED BY <1>0, <2>3, <3>2, <3>3 DEF Appears, TaskAfterStart, TypeInv, TypeOK
  <2>4. ASSUME NEW s \in SessionIds, sessions'[s].status # "ABSENT"
        PROVE  Appears(w, s) \/ (sessions[s].status # "ABSENT" /\ Kept(s))
    <3>1. CASE sessions'[s] = sessions[s]
      BY <2>4, <3>1 DEF Kept
    <3>2. CASE s \in Loaded(w) /\ (Runs(w, s) \/ \E status : Stops(w, s, status))
      BY <3>2 DEF SeenInv, Seen, Runs, Stops, OpenStatuses
    <3> QED BY <1>2, <2>4, <3>1, <3>2, RowSteps
  <2> QED BY <2>2, <2>3, <2>4 DEF StartedTaskLeftBacklog
<1>3. CASE \A w \in Workers : ~ Advance(w)
  <2>1. ASSUME NEW w \in Workers, Request(w) \/ Abort(w) PROVE UNCHANGED taskStatus
    BY <2>1 DEF Request, StartRead, PauseRead, ResumeRead, CancelRead, CompleteRead,
       BreakStartRead, BreakEndRead, ClockIn, ClockOutRead, Abort
  <2>2. UNCHANGED taskStatus
    BY <1>3, <2>1 DEF vars, Next, LogTime, DeleteEntry, AutoClose, Tick
  <2> QED BY <1>1, <1>3, <2>2, OthersKeepSessions
<1> QED BY <1>2, <1>3

\* A clock-out that has committed and has yet to close the sessions.
Closing(w, e) == txn[w].employee = e /\ txn[w].op \in {"clockedOut", "close"}

Home(e) ==
  OpenSessions(e) # {} \/ OpenBreaks(e) # {} => Attended(e) \/ \E w \in Workers : Closing(w, e)

\* The breaks of an employee only close, unless start_break opens one.
LEMMA BreaksShrink ==
  ASSUME TypeInv, [Next]_vars, NEW e \in Employees, OpenBreaks(e)' # {}, OpenBreaks(e) = {}
  PROVE  \E w \in Workers : BreakStartWrite(w) /\ txn[w].employee = e
<1>1. CASE \A b \in BreakIds : breaks'[b] = breaks[b] \/ breaks'[b] = NoBreak
  BY <1>1, ConstantsAssumption DEF OpenBreaks, NoBreak
<1>2. ASSUME NEW w \in Workers, Advance(w), ~ BreakStartWrite(w)
      PROVE  \A b \in BreakIds : breaks'[b] = breaks[b] \/ breaks'[b] = NoBreak
  BY <1>2 DEF Advance, StartLock, StartWrite, PauseWrite, ResumeWrite, CancelWrite, CompleteWrite,
     BreakEndWrite, ClockOutWrite, CloseRead, CloseWrite, CloseBreaks
<1>3. CASE \A w \in Workers : ~ Advance(w)
  <2>1. breaks' = breaks
    BY <1>3 DEF Next, Request, StartRead, PauseRead, ResumeRead, CancelRead, CompleteRead,
       BreakStartRead, BreakEndRead, ClockIn, ClockOutRead, Abort, LogTime, DeleteEntry, AutoClose,
       Tick, vars
  <2> QED BY <1>1, <2>1
<1>4. ASSUME NEW w \in Workers, BreakStartWrite(w), txn[w].employee # e PROVE FALSE
  <2>1. CASE breaks' = breaks
    BY <2>1 DEF OpenBreaks
  <2>2. CASE breaks' = [breaks EXCEPT ![Fresh(FreeBreaks)] = [employee |-> txn[w].employee, start |-> txn[w].at]]
    <3>1. breaks \in [BreakIds -> Break]
      BY DEF TypeInv, TypeOK
    <3>2. PICK n, row : /\ row = [employee |-> txn[w].employee, start |-> txn[w].at]
                        /\ breaks' = [breaks EXCEPT ![n] = row]
      BY <2>2
    <3>3. row.employee # e
      BY <1>4, <3>2
    <3>4. \A b \in BreakIds : breaks'[b] = breaks[b] \/ breaks'[b].employee # e
      BY <3>1, <3>2, <3>3
    <3> QED BY <3>4 DEF OpenBreaks
  <2> QED BY <1>4, <2>1, <2>2 DEF BreakStartWrite
<1> QED BY <1>1, <1>2, <1>3, <1>4

LEMMA SessionsShrink ==
  ASSUME SeenInv, [Next]_vars, NEW e \in Employees, OpenSessions(e)' # {}, OpenSessions(e) = {}
  PROVE  \E w \in Workers : Advance(w) /\ txn[w].op = "startLocked" /\ txn[w].employee = e
<1>1. PICK w \in Workers : Advance(w)
  BY OthersKeepSessions DEF OpenSessions
<1>2. PICK s \in SessionIds : sessions'[s].employee = e /\ sessions'[s].status \in OpenStatuses
  BY DEF OpenSessions
<1>3. Appears(w, s) /\ txn[w].op = "startLocked"
  BY <1>1, <1>2, OpensShrink DEF Kept, OpenSessions
<1> QED BY <1>1, <1>2, <1>3 DEF Appears

\* Only one that is at work opens a session or a break.
LEMMA OpenedAtWork ==
  ASSUME SeenInv, [Next]_vars, NEW e \in Employees,
         OpenSessions(e)' # {} \/ OpenBreaks(e)' # {}
  PROVE  \/ OpenSessions(e) # {} \/ OpenBreaks(e) # {}
         \/ Attended(e)
<1>1. CASE OpenSessions(e)' # {} /\ OpenSessions(e) = {}
  BY <1>1, SessionsShrink DEF SeenInv, Seen
<1>2. CASE OpenBreaks(e)' # {} /\ OpenBreaks(e) = {}
  <2>1. PICK w \in Workers : BreakStartWrite(w) /\ txn[w].employee = e
    BY <1>2, BreaksShrink DEF SeenInv
  <2> QED BY <2>1 DEF SeenInv, Seen, BreakStartWrite
<1> QED BY <1>1, <1>2

LEMMA CloseStops ==
  ASSUME SeenInv, NEW w \in Workers, CloseWrite(w)
  PROVE  StopsAll(w, "ABANDONED")
<1>0. PICK set : set = TRUE
  OBVIOUS
<1> DEFINE new == [s \in Loaded(w) |-> Stop(txn[w].view[s], "ABANDONED", txn[w].at, "other")]
<1>1. sessions' = Flushed(w, new, set)
  BY <1>0 DEF CloseWrite
<1>2. \A s \in Loaded(w) : \E reason : new[s] = Stop(txn[w].view[s], "ABANDONED", txn[w].at, reason)
  OBVIOUS
<1> HIDE DEF new
<1> QED BY <1>1, <1>2, FlushStops

LEMMA HomeStep ==
  ASSUME OneRequest, "abort" \notin Environment, SeenInv, \A e \in Employees : Home(e), [Next]_vars,
         NEW e \in Employees
  PROVE  Home(e)'
<1>0. TypeInv /\ txn \in [Workers -> Txn]
  BY DEF SeenInv, TypeInv, TypeOK
<1>1. SUFFICES ASSUME OpenSessions(e)' # {} \/ OpenBreaks(e)' # {}
               PROVE  Attended(e)' \/ \E w \in Workers : Closing(w, e)'
  BY DEF Home
<1>2. Attended(e) \/ \E w \in Workers : Closing(w, e)
  BY <1>1, OpenedAtWork DEF Home
<1>3. ASSUME NEW w \in Workers, ClockOutWrite(w) PROVE Attended(e)' \/ Closing(w, e)'
  <2>1. CASE txn[w].employee = e
    <3>1. txn'[w] = [Idle EXCEPT !.op = "clockedOut", !.employee = e]
      BY <1>0, <1>3, <2>1 DEF ClockOutWrite
    <3> QED BY <3>1 DEF Closing, Idle
  <2>2. CASE txn[w].employee # e
    <3>1. attendance'[e] = attendance[e]
      BY <1>0, <1>3, <2>2 DEF ClockOutWrite, TypeInv, TypeOK
    <3>2. ~ \E v \in Workers : Closing(v, e)
      BY <1>3, <2>2 DEF OneRequest, Closing
    <3> QED BY <1>2, <3>1, <3>2 DEF Attended
  <2> QED BY <2>1, <2>2
<1>4. CASE Attended(e) /\ ~ \E w \in Workers : ClockOutWrite(w)
  BY <1>0, <1>4, StaysAttended
<1>5. ASSUME NEW w \in Workers, Closing(w, e), ~ ClockOutWrite(w) PROVE Closing(w, e)'
  <2>1. CASE txn'[w] = txn[w]
    BY <1>5, <2>1 DEF Closing
  <2>2. CASE CloseRead(w)
    <3>1. OpenBreaks(e)' = {} /\ OpenSessions(e)' = OpenSessions(e)
      BY <1>5, <2>2 DEF CloseRead, OpenBreaks, OpenSessions, SeenInv, Seen, Closing
    <3>2. txn' = [txn EXCEPT ![w] = [txn[w] EXCEPT !.op = "close", !.at = now,
                                                   !.view = Load(OpenSessions(e))]]
      BY <1>1, <1>5, <2>2, <3>1 DEF CloseRead, Closing
    <3>3. txn'[w].op = "close" /\ txn'[w].employee = txn[w].employee
      BY <1>0, <3>2 DEF Txn
    <3> QED BY <1>5, <3>3 DEF Closing
  <2>3. CASE CloseWrite(w)
    <3>1. OpenBreaks(e) = {} /\ Loaded(w) = OpenSessions(e)
      BY <1>5, <2>3 DEF CloseWrite, SeenInv, Seen, Closing
    <3>2. OpenBreaks(e)' = {}
      BY <3>1, <2>3 DEF CloseWrite, OpenBreaks
    <3>3. PICK s \in SessionIds : sessions'[s].employee = e /\ sessions'[s].status \in OpenStatuses
      BY <1>1, <3>2 DEF OpenSessions
    <3>4. StopsAll(w, "ABANDONED")
      BY <2>3, CloseStops
    <3> QED BY <3>1, <3>3, <3>4 DEF StopsAll, Stops, Kept, OpenStatuses, OpenSessions
  <2>4. ASSUME txn'[w] # txn[w] PROVE CloseRead(w) \/ CloseWrite(w)
    <3>1. ASSUME NEW v \in Workers, Request(v) PROVE txn'[w] = txn[w]
      <4>1. v = w /\ txn[v].op \notin {"idle"}
        BY <1>5 DEF OneRequest, Closing
      <4> QED BY <3>1, <4>1 DEF Request, StartRead, PauseRead, ResumeRead, CancelRead, CompleteRead,
             BreakStartRead, BreakEndRead, ClockIn, ClockOutRead, Begin
    <3>2. ASSUME NEW v \in Workers, Advance(v) PROVE CloseRead(w) \/ CloseWrite(w)
      <4>1. v = w
        BY DEF OneRequest
      <4> QED BY <1>5, <3>2, <4>1 DEF Closing, Advance, StartLock, StartWrite, PauseWrite, ResumeWrite,
             CancelWrite, CompleteWrite, BreakStartWrite, BreakEndWrite
    <3>3. ASSUME NEW v \in Workers, Abort(v) PROVE FALSE
      BY <1>5, <3>3 DEF OneRequest, Closing, Abort
    <3>4. CASE UNCHANGED txn
      BY <2>4, <3>4
    <3> QED BY <2>4, <3>1, <3>2, <3>3, <3>4 DEF Next, LogTime, DeleteEntry, AutoClose, Tick, vars
  <2> QED BY <2>1, <2>2, <2>3, <2>4
<1> QED BY <1>2, <1>3, <1>4, <1>5

\* When requests do not overlap, and none dies between the two transactions of a
\* clock-out, a session is alone on its task, closed with the day and on a started task.
THEOREM SessionsInPlaceCorrect ==
  OneRequest /\ "abort" \notin Environment => (Spec => []SessionsInPlace)
<1> SUFFICES ASSUME OneRequest, "abort" \notin Environment PROVE Spec => []SessionsInPlace
  OBVIOUS
<1> DEFINE Inv == OneOpenPerTask /\ StartedTaskLeftBacklog /\ \A e \in Employees : Home(e)
<1>1. Init => Inv
  <2> SUFFICES ASSUME Init PROVE Inv
    OBVIOUS
  <2>1. \A s \in SessionIds : sessions[s].status = "ABSENT"
    BY DEF Init, NoView, NoSession
  <2>2. \A e \in Employees : OpenSessions(e) = {} /\ OpenBreaks(e) = {}
    BY <2>1, ConstantsAssumption DEF Init, OpenSessions, OpenStatuses, OpenBreaks, NoBreak
  <2> QED BY <2>1, <2>2 DEF OneOpenPerTask, StartedTaskLeftBacklog, Home
<1>2. SeenInv /\ Inv /\ [Next]_vars => Inv'
  BY AloneStep, BacklogStep, HomeStep
<1>3. Inv => SessionsInPlace
  BY DEF SessionsInPlace, ClosedAfterClockOut, Home, Attended, Closing
<1>4. Spec => []SeenInv
  BY SeenAlways
<1> QED BY <1>1, <1>2, <1>3, <1>4, PTL DEF Spec

-----------------------------------------------------------------------------
(* Who may get a second running session *)

LEMMA RunningRows ==
  ASSUME SeenInv, NEW w \in Workers, Advance(w), NEW e \in Employees,
         ~ (txn[w].op = "breakEnd" /\ txn[w].employee = e)
  PROVE  Running(e)' \subseteq Running(e) \/ \E s \in SessionIds : Running(e)' \subseteq {s}
<1>1. CASE \E status : status # "RUNNING" /\ StopsAll(w, status)
  BY <1>1 DEF StopsAll, Stops, Running
<1>2. CASE Started(w) /\ txn[w].op = "startLocked"
  <2>1. PICK n \in SessionIds :
          /\ Appears(w, n)
          /\ \A s \in SessionIds \ {n} : IF s \in Loaded(w) THEN Stops(w, s, "PAUSED") ELSE sessions'[s] = sessions[s]
    BY <1>2 DEF Started
  <2>2. \A s \in SessionIds \ {n} : s \in Running(e)' => s \in Running(e) /\ s \notin Loaded(w)
    BY <2>1 DEF Running, Stops
  <2>3. Loaded(w) = Running(txn[w].employee)
    BY <1>2 DEF SeenInv, Seen
  <2>4. n \in Running(e)' => txn[w].employee = e
    BY <2>1 DEF Running, Appears
  <2>5. Running(e)' \subseteq SessionIds
    BY DEF Running
  <2> QED BY <2>2, <2>3, <2>4, <2>5
<1>3. CASE RunsAll(w) /\ txn[w].op = "breakEnd"
  <2>1. \A s \in Loaded(w) : sessions[s].employee = txn[w].employee /\ txn[w].employee # e
    BY <1>3 DEF SeenInv, Seen
  <2> QED BY <1>3, <2>1 DEF RunsAll, Runs, Kept, Running
<1>4. CASE RunsAll(w) /\ txn[w].op = "resume"
  <2>1. \A s, x \in Loaded(w) : s = x
    BY <1>4 DEF SeenInv, Seen
  <2>2. \A s \in Loaded(w) : Running(sessions[s].employee) = {}
    BY <1>4 DEF SeenInv, Seen
  <2>3. ASSUME NEW s \in Running(e)', s \notin Running(e) PROVE Running(e)' \subseteq {s}
    <3>1. s \in Loaded(w) /\ sessions[s].employee = e
      BY <1>4, <2>3 DEF RunsAll, Runs, Kept, Running
    <3>2. Running(e) = {}
      BY <2>2, <3>1
    <3>3. ASSUME NEW x \in Running(e)' PROVE x \in Loaded(w)
      BY <1>4, <3>2, <3>3 DEF RunsAll, Running
    <3> QED BY <2>1, <3>1, <3>3
  <2> QED BY <2>3 DEF Running
<1>5. CASE sessions' = sessions
  BY <1>5 DEF Running
<1>6. \/ sessions' = sessions
      \/ RunsAll(w) /\ txn[w].op = "breakEnd"
      \/ RunsAll(w) /\ txn[w].op = "resume"
      \/ Started(w) /\ txn[w].op = "startLocked"
      \/ \E status : status # "RUNNING" /\ StopsAll(w, status)
  BY Writes
<1> QED BY <1>1, <1>2, <1>3, <1>4, <1>5, <1>6

\* When requests do not overlap, starting and resuming never give an employee a second
\* running session.
THEOREM OnlyBreakEndDoublesCorrect == OneRequest => (Spec => OnlyBreakEndDoubles)
<1> SUFFICES ASSUME OneRequest PROVE Spec => OnlyBreakEndDoubles
  OBVIOUS
<1>1. SeenInv /\ [Next]_vars
      => [\A e \in Employees :
            (Cardinality(Running(e)) <= 1 /\ Cardinality(Running(e))' > 1)
            => \E w \in Workers : txn[w].op = "breakEnd" /\ txn[w].employee = e]_vars
  <2> SUFFICES ASSUME SeenInv, [Next]_vars, NEW e \in Employees,
                      Cardinality(Running(e)) <= 1, Cardinality(Running(e)') > 1
               PROVE  \E w \in Workers : txn[w].op = "breakEnd" /\ txn[w].employee = e
    OBVIOUS
  <2>1. IsFiniteSet(Running(e)) /\ IsFiniteSet(Running(e)')
    <3>1. IsFiniteSet(SessionIds) /\ Running(e) \subseteq SessionIds /\ Running(e)' \subseteq SessionIds
      BY FS_Interval, ConstantsAssumption DEF SessionIds, Running
    <3> QED BY <3>1, FS_Subset
  <2>2. ASSUME Running(e)' \subseteq Running(e) PROVE FALSE
    <3>1. Cardinality(Running(e)') <= Cardinality(Running(e)) /\ Cardinality(Running(e)) \in Nat
      BY <2>1, <2>2, FS_Subset, FS_CardinalityType
    <3>2. Cardinality(Running(e)') \in Nat
      BY <2>1, FS_CardinalityType
    <3> QED BY <3>1, <3>2
  <2>3. ASSUME NEW s, Running(e)' \subseteq {s} PROVE FALSE
    <3>1. IsFiniteSet({s}) /\ Cardinality({s}) = 1
      BY FS_Singleton
    <3>2. Cardinality(Running(e)') <= 1 /\ Cardinality(Running(e)') \in Nat
      BY <2>1, <2>3, <3>1, FS_Subset, FS_CardinalityType
    <3> QED BY <3>2
  <2>4. PICK w \in Workers : Advance(w)
    BY <2>2, OthersKeepSessions DEF Running
  <2> QED BY <2>2, <2>3, <2>4, RunningRows
<1>2. Spec => []SeenInv
  BY SeenAlways
<1> QED BY <1>1, <1>2, PTL DEF Spec, OnlyBreakEndDoubles

-----------------------------------------------------------------------------
(* Signing in: what pairs, jobs and the account are, whatever overlaps *)

Account == [password : Secrets, version : Nat, active : BOOLEAN, mustChange : BOOLEAN,
            attempts : Nat, lockedUntil : Nat, changes : Nat]
Pair == [version : Nat, at : Nat, from : Nat, changes : Nat]
TokensOf(numbers) == numbers \X {"access", "refresh"}

\* What a request takes from its reading to its writing.
Carries(j, numbers) ==
  /\ j.op = "wrong" => j.attempts \in Nat /\ j.until \in Nat
  /\ j.op = "login" => j.version \in Nat /\ j.attempts \in Nat /\ j.lockedUntil \in Nat /\ j.changes \in Nat
  /\ j.op = "refresh" => j.pair \in numbers /\ j.version \in Nat
  /\ j.op = "logout" => j.presented \subseteq TokensOf(numbers) /\ j.added \subseteq j.presented
  /\ j.op = "change" => j.version \in Nat /\ j.mustChange \in BOOLEAN /\ j.new \in Secrets
  /\ j.op = "respond" => j.changes \in Nat

SignTyped ==
  /\ signMode \in SignModes
  /\ clock \in 0..SignTime
  /\ account \in Account
  /\ pairs \in Seq(Pair)
  /\ \A n \in DOMAIN pairs : pairs[n].from < n
  /\ revoked \subseteq TokensOf(DOMAIN pairs)
  /\ request \in [Workers -> {request[w] : w \in Workers}]
  /\ \A w \in Workers : Carries(request[w], DOMAIN pairs)
  /\ wrong \in Seq(Nat)

\* A request takes a step of its own, and the others keep what they hold.
LEMMA OneGoes ==
  ASSUME SignTyped, NEW w \in Workers, NEW j, Signing!Goes(w, j)
  PROVE  /\ request'[w] = j /\ \A v \in Workers \ {w} : request'[v] = request[v]
         /\ request' \in [Workers -> {request'[v] : v \in Workers}]
  BY DEF SignTyped, Signing!Goes

\* Appending a pair leaves the others where they are.
LEMMA OneMorePair ==
  ASSUME pairs \in Seq(Pair), NEW p \in Pair, pairs' = Append(pairs, p)
  PROVE  /\ pairs' \in Seq(Pair) /\ Len(pairs') = Len(pairs) + 1
         /\ DOMAIN pairs' = DOMAIN pairs \cup {Len(pairs) + 1} /\ Len(pairs) + 1 \notin DOMAIN pairs
         /\ \A n \in DOMAIN pairs : pairs'[n] = pairs[n]
         /\ pairs'[Len(pairs) + 1] = p
         /\ TokensOf(DOMAIN pairs) \subseteq TokensOf(DOMAIN pairs')
  BY DEF TokensOf

LEMMA SignTypedInit == Signing!Init => SignTyped
<1> SUFFICES ASSUME Signing!Init PROVE SignTyped
  OBVIOUS
<1>1. (CHOOSE p \in Secrets : TRUE) \in Secrets
  BY SignAssumption
<1>2. account \in Account
  BY <1>1 DEF Signing!Init, Account
<1>3. pairs \in Seq(Pair) /\ DOMAIN pairs = {}
  BY DEF Signing!Init
<1>4. \A w \in Workers : Carries(request[w], DOMAIN pairs)
  BY DEF Signing!Init, Signing!Idle, Carries
<1> QED BY <1>2, <1>3, <1>4, SignAssumption DEF Signing!Init, SignTyped

LEMMA MoreCarried ==
  ASSUME NEW D, NEW E, D \subseteq E, NEW j, Carries(j, D)
  PROVE  Carries(j, E)
  BY DEF Carries, TokensOf

\* A job that is taken while nothing else changes.
LEMMA JobTaken ==
  ASSUME SignTyped, NEW w \in Workers, NEW j, Signing!Goes(w, j), Carries(j, DOMAIN pairs),
         UNCHANGED <<signMode, clock, account, pairs, revoked, wrong>>
  PROVE  SignTyped'
<1>1. \A v \in Workers : Carries(request[v], DOMAIN pairs)
  BY DEF SignTyped
<1>2. ASSUME NEW v \in Workers PROVE Carries(request'[v], DOMAIN pairs')
  <2>1. CASE v = w
    BY <2>1, OneGoes
  <2>2. CASE v # w
    BY <1>1, <2>2, OneGoes
  <2> QED BY <2>1, <2>2
<1>3. request' \in [Workers -> {request'[v] : v \in Workers}]
  BY OneGoes
<1> QED BY <1>2, <1>3 DEF SignTyped

\* A job that is done, by which the account, the pairs or the revocations have changed.
LEMMA JobDone ==
  ASSUME SignTyped, NEW w \in Workers, NEW j, Signing!Goes(w, j), Carries(j, DOMAIN pairs'), account' \in Account,
         pairs' = pairs \/ \E p \in Pair : pairs' = Append(pairs, p) /\ p.from <= Len(pairs),
         revoked \subseteq revoked', revoked' \subseteq TokensOf(DOMAIN pairs), wrong' \in Seq(Nat), UNCHANGED <<signMode, clock>>
  PROVE  SignTyped'
<1>1. pairs' \in Seq(Pair) /\ TokensOf(DOMAIN pairs) \subseteq TokensOf(DOMAIN pairs') /\ DOMAIN pairs \subseteq DOMAIN pairs' /\ \A n \in DOMAIN pairs' : pairs'[n].from < n
  <2>1. CASE pairs' = pairs
    BY <2>1 DEF SignTyped, TokensOf
  <2>2. ASSUME NEW p \in Pair, pairs' = Append(pairs, p), p.from <= Len(pairs)
        PROVE  pairs' \in Seq(Pair) /\ TokensOf(DOMAIN pairs) \subseteq TokensOf(DOMAIN pairs') /\ DOMAIN pairs \subseteq DOMAIN pairs' /\ \A n \in DOMAIN pairs' : pairs'[n].from < n
    <3>1. pairs \in Seq(Pair) /\ \A n \in DOMAIN pairs : pairs[n].from < n
      BY DEF SignTyped
    <3>2. /\ pairs' \in Seq(Pair) /\ DOMAIN pairs' = DOMAIN pairs \cup {Len(pairs) + 1}
          /\ \A n \in DOMAIN pairs : pairs'[n] = pairs[n]
          /\ pairs'[Len(pairs) + 1] = p
          /\ TokensOf(DOMAIN pairs) \subseteq TokensOf(DOMAIN pairs')
      BY <2>2, <3>1, OneMorePair
    <3>3. p.from < Len(pairs) + 1
      BY <2>2, <3>1 DEF Pair
    <3> QED BY <3>1, <3>2, <3>3
  <2> QED BY <2>1, <2>2
<1>2. \A v \in Workers : Carries(request[v], DOMAIN pairs)
  BY DEF SignTyped
<1>3. ASSUME NEW v \in Workers PROVE Carries(request'[v], DOMAIN pairs')
  <2>1. CASE v = w
    BY <2>1, OneGoes
  <2>2. CASE v # w
    <3>1. request'[v] = request[v] /\ Carries(request[v], DOMAIN pairs)
      BY <1>2, <2>2, OneGoes
    <3> QED BY <1>1, <3>1, MoreCarried
  <2> QED BY <2>1, <2>2
<1>4. request' \in [Workers -> {request'[v] : v \in Workers}]
  BY OneGoes
<1>5. revoked' \subseteq TokensOf(DOMAIN pairs')
  BY <1>1
<1> QED BY <1>1, <1>3, <1>4, <1>5 DEF SignTyped

LEMMA SignTypedStep == SignTyped /\ Signing!Next => SignTyped'
<1> SUFFICES ASSUME SignTyped, Signing!Next PROVE SignTyped'
  OBVIOUS
<1> USE DEF Signing!Idle
<1>1. ASSUME NEW w \in Workers, NEW p \in Secrets, Signing!LoginRead(w, p) PROVE SignTyped'
  <2>1. CASE p # account.password
    <3> DEFINE j == [op |-> "wrong", attempts |-> account.attempts + 1, until |-> clock + LockTime]
    <3>1. Carries(j, DOMAIN pairs) /\ Signing!Goes(w, j)
      BY <1>1, <2>1, SignAssumption DEF Signing!LoginRead, Carries, SignTyped, Account
    <3> QED BY <1>1, <3>1, JobTaken DEF Signing!LoginRead
  <2>2. CASE p = account.password
    <3> DEFINE j == [op |-> "login", version |-> account.version, attempts |-> account.attempts,
                     lockedUntil |-> account.lockedUntil, changes |-> account.changes]
    <3>1. Carries(j, DOMAIN pairs) /\ Signing!Goes(w, j)
      BY <1>1, <2>2 DEF Signing!LoginRead, Carries, SignTyped, Account
    <3> QED BY <1>1, <3>1, JobTaken DEF Signing!LoginRead
  <2> QED BY <2>1, <2>2
<1>2. ASSUME NEW w \in Workers, Signing!WrongCommit(w) PROVE SignTyped'
  <2>1. account' \in Account /\ wrong' \in Seq(Nat) /\ Signing!Goes(w, Signing!Idle) /\ Carries(Signing!Idle, DOMAIN pairs')
    <3>1. account \in Account /\ wrong \in Seq(Nat) /\ clock \in Nat /\ request[w].attempts \in Nat /\ request[w].until \in Nat
      BY <1>2 DEF Signing!WrongCommit, SignTyped, Carries
    <3>2. account' \in Account
      BY <1>2, <3>1 DEF Signing!WrongCommit, Account
    <3>3. wrong' \in Seq(Nat)
      BY <1>2, <3>1 DEF Signing!WrongCommit
    <3> QED BY <1>2, <3>2, <3>3 DEF Signing!WrongCommit, Carries
  <2> QED BY <1>2, <2>1, JobDone DEF Signing!WrongCommit, SignTyped
<1>3. ASSUME NEW w \in Workers, Signing!LoginCommit(w) PROVE SignTyped'
  <2> DEFINE q == Signing!Issued(request[w].version, 0, request[w].changes)
  <2>1. account' \in Account /\ wrong' \in Seq(Nat) /\ Signing!Goes(w, Signing!Idle) /\ Carries(Signing!Idle, DOMAIN pairs')
    <3>1. account \in Account
      BY DEF SignTyped
    <3>2. account' \in Account
      BY <1>3, <3>1 DEF Signing!LoginCommit, Account
    <3>3. wrong' \in Seq(Nat)
      BY <1>3 DEF Signing!LoginCommit
    <3> QED BY <1>3, <3>2, <3>3 DEF Signing!LoginCommit, Carries
  <2>2. q \in Pair /\ q.from = 0 /\ pairs' = Append(pairs, q)
    BY <1>3 DEF Signing!LoginCommit, Signing!Issued, SignTyped, Pair, Carries
  <2>3. Len(pairs) \in Nat
    BY DEF SignTyped
  <2> QED BY <1>3, <2>1, <2>2, <2>3, JobDone DEF Signing!LoginCommit, SignTyped
<1>4. ASSUME NEW w \in Workers, NEW n \in DOMAIN pairs, Signing!RefreshRead(w, n) PROVE SignTyped'
  <2> DEFINE j == [op |-> "refresh", pair |-> n, version |-> account.version]
  <2>1. Carries(j, DOMAIN pairs) /\ Signing!Goes(w, j)
    BY <1>4 DEF Signing!RefreshRead, Carries, SignTyped, Account
  <2> QED BY <1>4, <2>1, JobTaken DEF Signing!RefreshRead
<1>5. ASSUME NEW w \in Workers, Signing!RefreshCommit(w) PROVE SignTyped'
  <2> DEFINE n == request[w].pair
             q == Signing!Issued(request[w].version, n, pairs[n].changes)
  <2>1. Signing!Goes(w, Signing!Idle) /\ Carries(Signing!Idle, DOMAIN pairs') /\ n \in DOMAIN pairs /\ n \in Nat /\ n <= Len(pairs) /\ pairs[n] \in Pair
    BY <1>5 DEF Signing!RefreshCommit, SignTyped, Carries
  <2>2. q \in Pair /\ q.from = n
    <3>1. pairs[n].changes \in Nat
      BY <2>1 DEF Pair
    <3>2. request[w].version \in Nat /\ clock \in Nat
      BY <1>5 DEF Signing!RefreshCommit, SignTyped, Carries
    <3> QED BY <2>1, <3>1, <3>2 DEF Signing!Issued, Pair
  <2>3. pairs' = pairs \/ pairs' = Append(pairs, q)
    BY <1>5 DEF Signing!RefreshCommit
  <2>4. revoked \subseteq revoked' /\ revoked' \subseteq TokensOf(DOMAIN pairs)
    BY <1>5, <2>1 DEF Signing!RefreshCommit, SignTyped, TokensOf
  <2> HIDE DEF q, n
  <2> QED BY <1>5, <2>1, <2>2, <2>3, <2>4, JobDone DEF Signing!RefreshCommit, SignTyped
<1>6. ASSUME NEW w \in Workers, NEW n \in DOMAIN pairs, NEW others \in SUBSET DOMAIN pairs, Signing!LogoutRead(w, n, others)
      PROVE  SignTyped'
  <2> DEFINE presented == {<<n, "access">>} \cup {<<k, "refresh">> : k \in others}
             j == [op |-> "logout", presented |-> presented,
                   added |-> {t \in presented : Signing!Decodes(t) /\ t \notin revoked}]
  <2>1. Carries(j, DOMAIN pairs) /\ Signing!Goes(w, j)
    BY <1>6 DEF Signing!LogoutRead, Carries, TokensOf
  <2> QED BY <1>6, <2>1, JobTaken DEF Signing!LogoutRead
<1>7. ASSUME NEW w \in Workers, Signing!LogoutCommit(w) PROVE SignTyped'
  <2>1. Signing!Goes(w, Signing!Idle) /\ Carries(Signing!Idle, DOMAIN pairs') /\ revoked \subseteq revoked' /\ revoked' \subseteq TokensOf(DOMAIN pairs)
    BY <1>7 DEF Signing!LogoutCommit, SignTyped, Carries
  <2> QED BY <1>7, <2>1, JobDone DEF Signing!LogoutCommit, SignTyped
<1>8. ASSUME NEW w \in Workers, NEW n \in DOMAIN pairs, NEW p \in Secrets, NEW q \in Secrets, Signing!ChangeRead(w, n, p, q)
      PROVE  SignTyped'
  <2> DEFINE j == [op |-> "change", version |-> account.version, mustChange |-> account.mustChange, new |-> q]
  <2>1. Carries(j, DOMAIN pairs) /\ Signing!Goes(w, j)
    BY <1>8 DEF Signing!ChangeRead, Carries, SignTyped, Account
  <2> QED BY <1>8, <2>1, JobTaken DEF Signing!ChangeRead
<1>9. ASSUME NEW w \in Workers, Signing!ChangeCommit(w) PROVE SignTyped'
  <2> DEFINE j == [op |-> "respond", changes |-> account.changes + 1]
  <2>1. account' \in Account /\ Signing!Goes(w, j) /\ Carries(j, DOMAIN pairs')
    <3>1. account \in Account /\ request[w].version \in Nat /\ request[w].new \in Secrets
      BY <1>9 DEF Signing!ChangeCommit, SignTyped, Carries
    <3>2. account' = [account EXCEPT !.password = request[w].new, !.version = request[w].version + 1,
                                     !.changes = account.changes + 1,
                                     !.mustChange = IF request[w].mustChange THEN FALSE ELSE account.mustChange]
      BY <1>9 DEF Signing!ChangeCommit
    <3>3. account.mustChange \in BOOLEAN /\ account.changes + 1 \in Nat /\ request[w].version + 1 \in Nat
      BY <3>1 DEF Account
    <3>4. (IF request[w].mustChange THEN FALSE ELSE account.mustChange) \in BOOLEAN
      BY <3>3
    <3>5. account' \in Account
      BY <3>1, <3>2, <3>3, <3>4 DEF Account
    <3> QED BY <1>9, <3>3, <3>5 DEF Signing!ChangeCommit, Carries
  <2> QED BY <1>9, <2>1, JobDone DEF Signing!ChangeCommit, SignTyped
<1>10. ASSUME NEW w \in Workers, Signing!ChangeRespond(w) PROVE SignTyped'
  <2> DEFINE q == Signing!Issued(account.version, 0, request[w].changes)
  <2>1. Signing!Goes(w, Signing!Idle) /\ Carries(Signing!Idle, DOMAIN pairs') /\ Len(pairs) \in Nat
    BY <1>10 DEF Signing!ChangeRespond, SignTyped, Carries
  <2>2. q \in Pair /\ q.from = 0 /\ pairs' = Append(pairs, q)
    BY <1>10 DEF Signing!ChangeRespond, Signing!Issued, SignTyped, Pair, Carries, Account
  <2>3. account \in Account /\ wrong \in Seq(Nat) /\ revoked \subseteq TokensOf(DOMAIN pairs)
    BY DEF SignTyped
  <2> HIDE DEF q
  <2> QED BY <1>10, <2>1, <2>2, <2>3, JobDone DEF Signing!ChangeRespond
<1>11. ASSUME NEW p \in Secrets, Signing!SetPassword(p) \/ Signing!SetActive PROVE SignTyped'
  <2>1. account' \in Account
    BY <1>11 DEF Signing!SetPassword, Signing!SetActive, SignTyped, Account
  <2> QED BY <1>11, <2>1 DEF Signing!SetPassword, Signing!SetActive, SignTyped, Carries, TokensOf
<1>12. CASE Signing!Tick
  <2>1. clock' \in 0..SignTime
    BY <1>12, SignAssumption DEF Signing!Tick, SignTyped
  <2> QED BY <1>12, <2>1 DEF Signing!Tick, SignTyped, Carries, TokensOf
<1>13. CASE Signing!Restart
  BY <1>13 DEF Signing!Restart, Signing!Kept, SignTyped, Carries, TokensOf
<1>14. \A k \in DOMAIN pairs : {k} \in SUBSET DOMAIN pairs
  OBVIOUS
<1> QED BY <1>1, <1>2, <1>3, <1>4, <1>5, <1>6, <1>7, <1>8, <1>9, <1>10, <1>11, <1>12, <1>13, <1>14, SignAssumption DEF Signing!Next

-----------------------------------------------------------------------------
(* Pairs are only added; what has expired stays expired, and what is revoked stays so *)
(* until its row is cleaned up, which nobody in flight survives                       *)

\* Where a new pair comes from, and what is used up by it.
NewPair(p) ==
  \/ p.from = 0
  \/ /\ \E w \in Workers : request[w].op = "refresh" /\ request[w].pair = p.from
     /\ <<p.from, "refresh">> \notin revoked /\ <<p.from, "refresh">> \in revoked'

LEMMA PairsGrow ==
  ASSUME SignTyped, Signing!Next
  PROVE  pairs' = pairs \/ \E p \in Pair : pairs' = Append(pairs, p) /\ NewPair(p)
<1>1. ASSUME NEW w \in Workers, Signing!LoginCommit(w)
      PROVE  \E p \in Pair : pairs' = Append(pairs, p) /\ NewPair(p)
  <2> DEFINE q == Signing!Issued(request[w].version, 0, request[w].changes)
  <2>1. q \in Pair /\ q.from = 0 /\ pairs' = Append(pairs, q)
    BY <1>1 DEF Signing!LoginCommit, Signing!Issued, SignTyped, Pair, Carries
  <2> QED BY <2>1 DEF NewPair
<1>2. ASSUME NEW w \in Workers, Signing!RefreshCommit(w), pairs' # pairs
      PROVE  \E p \in Pair : pairs' = Append(pairs, p) /\ NewPair(p)
  <2> DEFINE n == request[w].pair
             q == Signing!Issued(request[w].version, n, pairs[n].changes)
  <2>1. n \in DOMAIN pairs /\ n \in Nat /\ pairs[n] \in Pair /\ request[w].version \in Nat /\ clock \in Nat
    BY <1>2 DEF Signing!RefreshCommit, SignTyped, Carries
  <2>2. q \in Pair /\ q.from = n
    BY <2>1 DEF Signing!Issued, Pair
  <2>3. pairs' = Append(pairs, q) /\ <<n, "refresh">> \notin revoked /\ <<n, "refresh">> \in revoked' /\ request[w].op = "refresh"
    BY <1>2 DEF Signing!RefreshCommit
  <2> QED BY <2>2, <2>3 DEF NewPair
<1>3. ASSUME NEW w \in Workers, Signing!ChangeRespond(w)
      PROVE  \E p \in Pair : pairs' = Append(pairs, p) /\ NewPair(p)
  <2> DEFINE q == Signing!Issued(account.version, 0, request[w].changes)
  <2>1. q \in Pair /\ q.from = 0 /\ pairs' = Append(pairs, q)
    BY <1>3 DEF Signing!ChangeRespond, Signing!Issued, SignTyped, Pair, Carries, Account
  <2> QED BY <2>1 DEF NewPair
<1> QED
  BY <1>1, <1>2, <1>3 DEF Signing!Next, Signing!LoginRead, Signing!WrongCommit, Signing!RefreshRead, Signing!LogoutRead,
     Signing!LogoutCommit, Signing!ChangeRead, Signing!ChangeCommit, Signing!SetPassword, Signing!SetActive, Signing!Tick, Signing!Restart

LEMMA PairsStay ==
  ASSUME SignTyped, Signing!Next
  PROVE  DOMAIN pairs \subseteq DOMAIN pairs' /\ \A n \in DOMAIN pairs : pairs'[n] = pairs[n]
<1>1. pairs \in Seq(Pair)
  BY DEF SignTyped
<1> QED BY <1>1, PairsGrow, OneMorePair

LEMMA TimePasses == ASSUME SignTyped, Signing!Next PROVE signMode' = signMode /\ clock \in Int /\ clock' \in Int /\ clock <= clock'
<1>1. clock \in Int
  BY DEF SignTyped
<1>2. CASE Signing!Tick
  BY <1>1, <1>2 DEF Signing!Tick
<1>3. CASE ~Signing!Tick
  <2>1. signMode' = signMode /\ clock' = clock
    BY <1>3 DEF Signing!Next, Signing!LoginRead, Signing!WrongCommit, Signing!LoginCommit, Signing!RefreshRead,
       Signing!RefreshCommit, Signing!LogoutRead, Signing!LogoutCommit, Signing!ChangeRead, Signing!ChangeCommit,
       Signing!ChangeRespond, Signing!SetPassword, Signing!SetActive, Signing!Restart
  <2> QED BY <1>1, <2>1
<1> QED BY <1>2, <1>3

LEMMA ExpiryKept ==
  ASSUME SignTyped, Signing!Next, NEW t \in TokensOf(DOMAIN pairs)
  PROVE  Signing!Expiry(t)' = Signing!Expiry(t) /\ Signing!Expiry(t) \in Nat
<1>1. t[1] \in DOMAIN pairs /\ pairs'[t[1]] = pairs[t[1]] /\ pairs[t[1]] \in Pair
  BY PairsStay DEF TokensOf, SignTyped
<1> QED BY <1>1, SignAssumption DEF Signing!Expiry, Signing!Lifetime, Pair

LEMMA ExpiredStays ==
  ASSUME SignTyped, Signing!Next, NEW t \in TokensOf(DOMAIN pairs), ~Signing!Decodes(t)
  PROVE  ~Signing!Decodes(t)'
  BY ExpiryKept, TimePasses DEF Signing!Decodes

LEMMA RevokedStays ==
  ASSUME SignTyped, Signing!Next, NEW t \in revoked, t \notin revoked'
  PROVE  ~Signing!Decodes(t) /\ ~Signing!Decodes(t)' /\ \A w \in Workers : request'[w] = Signing!Idle
<1>1. Signing!Restart
  BY DEF Signing!Next, Signing!LoginRead, Signing!WrongCommit, Signing!LoginCommit, Signing!RefreshRead,
     Signing!RefreshCommit, Signing!LogoutRead, Signing!LogoutCommit, Signing!ChangeRead, Signing!ChangeCommit,
     Signing!ChangeRespond, Signing!SetPassword, Signing!SetActive, Signing!Tick
<1>2. t \in TokensOf(DOMAIN pairs)
  BY DEF SignTyped
<1>3. ~Signing!Decodes(t)
  BY <1>1, <1>2, ExpiryKept, TimePasses DEF Signing!Restart, Signing!Kept, Signing!Decodes
<1> QED BY <1>1, <1>2, <1>3, ExpiredStays DEF Signing!Restart

\* Who takes a step, and what it holds afterwards: nothing, or what it has just read.
Reading(w) ==
  \/ \E p \in Secrets : Signing!LoginRead(w, p)
  \/ \E n \in DOMAIN pairs : Signing!RefreshRead(w, n)
  \/ \E n \in DOMAIN pairs : \E others \in SUBSET DOMAIN pairs : Signing!LogoutRead(w, n, others)
  \/ \E n \in DOMAIN pairs, p, q \in Secrets : Signing!ChangeRead(w, n, p, q)
Writing(w) ==
  Signing!WrongCommit(w) \/ Signing!LoginCommit(w) \/ Signing!RefreshCommit(w) \/ Signing!LogoutCommit(w)
    \/ Signing!ChangeCommit(w) \/ Signing!ChangeRespond(w)
Beside == (\E p \in Secrets : Signing!SetPassword(p)) \/ Signing!SetActive \/ Signing!Tick \/ Signing!Restart

LEMMA WhoSteps == Signing!Next => (\E w \in Workers : Reading(w) \/ Writing(w)) \/ Beside
<1>1. \A k \in DOMAIN pairs : {k} \in SUBSET DOMAIN pairs
  OBVIOUS
<1>2. {} \in SUBSET DOMAIN pairs
  OBVIOUS
<1> QED BY <1>1, <1>2 DEF Signing!Next, Reading, Writing, Beside

\* What a step may put into the hands of a request.
LEMMA Refreshing ==
  ASSUME SignTyped, Signing!Next, NEW w \in Workers, request'[w].op = "refresh"
  PROVE  \/ request'[w] = request[w]
         \/ Signing!RefreshRead(w, request'[w].pair)
<1>1. ASSUME NEW v \in Workers, NEW j, Signing!Goes(v, j), j.op # "refresh" PROVE request'[w] = request[w]
  BY <1>1, OneGoes
<1>2. ASSUME NEW v \in Workers, NEW n \in DOMAIN pairs, Signing!RefreshRead(v, n)
      PROVE  \/ request'[w] = request[w]
             \/ Signing!RefreshRead(w, request'[w].pair)
  BY <1>2, OneGoes DEF Signing!RefreshRead
<1>3. ASSUME NEW v \in Workers, Writing(v) PROVE request'[w] = request[w]
  BY <1>1, <1>3 DEF Writing, Signing!WrongCommit, Signing!LoginCommit, Signing!RefreshCommit, Signing!LogoutCommit,
     Signing!ChangeCommit, Signing!ChangeRespond, Signing!Idle
<1>4. ASSUME NEW v \in Workers, NEW p \in Secrets, Signing!LoginRead(v, p) PROVE request'[w] = request[w]
  BY <1>1, <1>4 DEF Signing!LoginRead
<1>5. ASSUME NEW v \in Workers, NEW n, NEW others, Signing!LogoutRead(v, n, others) PROVE request'[w] = request[w]
  BY <1>1, <1>5 DEF Signing!LogoutRead
<1>6. ASSUME NEW v \in Workers, NEW n, NEW p, NEW q, Signing!ChangeRead(v, n, p, q) PROVE request'[w] = request[w]
  BY <1>1, <1>6 DEF Signing!ChangeRead
<1>7. CASE Beside
  <2>1. ~Signing!Restart
    BY DEF Signing!Restart, Signing!Idle
  <2>2. request' = request
    BY <1>7, <2>1 DEF Beside, Signing!SetPassword, Signing!SetActive, Signing!Tick
  <2> QED BY <2>2
<1> QED BY <1>2, <1>3, <1>4, <1>5, <1>6, <1>7, WhoSteps DEF Reading

-----------------------------------------------------------------------------
(* A refresh token that has been exchanged is revoked, or has expired and nobody holds it *)

Spent(n) ==
  \/ <<n, "refresh">> \in revoked
  \/ ~Signing!Decodes(<<n, "refresh">>) /\ \A w \in Workers : request[w].op = "refresh" => request[w].pair # n

RenewInv == Signing!OneSuccessor /\ \A m \in DOMAIN pairs : pairs[m].from # 0 => Spent(pairs[m].from)

LEMMA SpentStays ==
  ASSUME SignTyped, Signing!Next, NEW n \in DOMAIN pairs, Spent(n)
  PROVE  Spent(n)'
<1> DEFINE t == <<n, "refresh">>
<1>1. t \in TokensOf(DOMAIN pairs)
  BY DEF TokensOf
<1>2. ASSUME t \in revoked PROVE Spent(n)'
  BY <1>2, RevokedStays DEF Spent, Signing!Idle
<1>3. ASSUME ~Signing!Decodes(t), \A w \in Workers : request[w].op = "refresh" => request[w].pair # n PROVE Spent(n)'
  <2>1. ~Signing!Decodes(t)'
    BY <1>1, <1>3, ExpiredStays
  <2>2. ASSUME NEW w \in Workers, request'[w].op = "refresh", request'[w].pair = n PROVE FALSE
    BY <1>3, <2>2, Refreshing DEF Signing!RefreshRead, Signing!Live
  <2> QED BY <2>1, <2>2 DEF Spent
<1> QED BY <1>2, <1>3 DEF Spent

LEMMA RenewInvStep == SignTyped /\ RenewInv /\ Signing!Next => RenewInv'
<1> SUFFICES ASSUME SignTyped, RenewInv, Signing!Next PROVE RenewInv'
  OBVIOUS
<1>0. pairs \in Seq(Pair) /\ \A m \in DOMAIN pairs : pairs[m].from \in Nat /\ pairs[m].from < m
  <2>1. pairs \in Seq(Pair) /\ \A m \in DOMAIN pairs : pairs[m] \in Pair /\ pairs[m].from < m
    BY DEF SignTyped
  <2> QED BY <2>1 DEF Pair
<1>1. ASSUME NEW m \in DOMAIN pairs, pairs[m].from # 0 PROVE Spent(pairs[m].from) /\ Spent(pairs[m].from)'
  <2>1. Spent(pairs[m].from) /\ pairs[m].from \in DOMAIN pairs
    BY <1>0, <1>1 DEF RenewInv
  <2>2. PICK n \in DOMAIN pairs : n = pairs[m].from
    BY <2>1
  <2>3. Spent(n)'
    BY <2>1, <2>2, SpentStays
  <2>4. pairs'[m] = pairs[m]
    BY PairsStay
  <2> QED BY <2>1, <2>2, <2>3, <2>4
<1>2. CASE pairs' = pairs
  BY <1>1, <1>2 DEF RenewInv, Signing!OneSuccessor
<1>3. ASSUME NEW p \in Pair, pairs' = Append(pairs, p), NewPair(p) PROVE RenewInv'
  <2> DEFINE new == Len(pairs) + 1
  <2>1. /\ DOMAIN pairs' = DOMAIN pairs \cup {new} /\ new \notin DOMAIN pairs
        /\ \A n \in DOMAIN pairs : pairs'[n] = pairs[n]
        /\ pairs'[new] = p
    BY <1>0, <1>3, OneMorePair
  <2>2. p.from # 0 => Spent(p.from)'
    <3>1. PICK n : n = p.from
      OBVIOUS
    <3>2. n # 0 => Spent(n)'
      BY <1>3, <3>1 DEF NewPair, Spent
    <3> QED BY <3>1, <3>2
  <2>3. ASSUME NEW m \in DOMAIN pairs, p.from # 0 PROVE pairs[m].from # p.from
    <3>1. <<p.from, "refresh">> \notin revoked /\ \E w \in Workers : request[w].op = "refresh" /\ request[w].pair = p.from
      BY <1>3, <2>3 DEF NewPair
    <3>2. ~Spent(p.from)
      BY <3>1 DEF Spent
    <3> QED BY <1>1, <2>3, <3>2
  <2> HIDE DEF new
  <2>4. \A m, n \in DOMAIN pairs' : pairs'[m].from = pairs'[n].from /\ pairs'[m].from # 0 => m = n
    BY <2>1, <2>3 DEF RenewInv, Signing!OneSuccessor
  <2>5. \A m \in DOMAIN pairs' : pairs'[m].from # 0 => Spent(pairs[m].from)'
    <3> SUFFICES ASSUME NEW m \in DOMAIN pairs', pairs'[m].from # 0 PROVE Spent(pairs[m].from)'
      OBVIOUS
    <3>1. CASE m \in DOMAIN pairs
      BY <1>1, <2>1, <3>1
    <3>2. CASE m = new
      <4>1. PICK n : n = p.from
        OBVIOUS
      <4>2. n # 0 /\ Spent(n)'
        BY <2>1, <2>2, <3>2, <4>1
      <4> QED BY <2>1, <3>2, <4>1, <4>2
    <3> QED BY <2>1, <3>1, <3>2
  <2> QED BY <2>4, <2>5 DEF RenewInv, Signing!OneSuccessor
<1> QED BY <1>2, <1>3, PairsGrow

-----------------------------------------------------------------------------
(* What a sign-out was given is revoked, about to be, or worthless already *)

LogoutInv ==
  \A w \in Workers : request[w].op = "logout" =>
    \A t \in request[w].presented : t \in request[w].added \/ ~Signing!Decodes(t) \/ t \in revoked

LEMMA LoggingOut ==
  ASSUME SignTyped, Signing!Next, NEW w \in Workers, request'[w].op = "logout"
  PROVE  \/ request'[w] = request[w]
         \/ /\ request'[w].presented \subseteq TokensOf(DOMAIN pairs)
            /\ \A t \in request'[w].presented : t \in request'[w].added \/ ~Signing!Decodes(t) \/ t \in revoked
<1> DEFINE Goal == \/ request'[w] = request[w]
                   \/ /\ request'[w].presented \subseteq TokensOf(DOMAIN pairs)
                      /\ \A t \in request'[w].presented : t \in request'[w].added \/ ~Signing!Decodes(t) \/ t \in revoked
<1>1. ASSUME NEW v \in Workers, NEW j, Signing!Goes(v, j), j.op # "logout" PROVE request'[w] = request[w]
  BY <1>1, OneGoes
<1>2. ASSUME NEW v \in Workers, NEW n \in DOMAIN pairs, NEW others \in SUBSET DOMAIN pairs, Signing!LogoutRead(v, n, others) PROVE Goal
  <2> DEFINE presented == {<<n, "access">>} \cup {<<k, "refresh">> : k \in others}
             j == [op |-> "logout", presented |-> presented,
                   added |-> {t \in presented : Signing!Decodes(t) /\ t \notin revoked}]
  <2>1. Signing!Goes(v, j)
    BY <1>2 DEF Signing!LogoutRead
  <2>2. /\ j.presented \subseteq TokensOf(DOMAIN pairs)
        /\ \A t \in j.presented : t \in j.added \/ ~Signing!Decodes(t) \/ t \in revoked
    BY DEF TokensOf
  <2> HIDE DEF j
  <2>3. request'[v] = j /\ \A u \in Workers \ {v} : request'[u] = request[u]
    BY <2>1, OneGoes
  <2> QED BY <2>2, <2>3
<1>3. ASSUME NEW v \in Workers, Writing(v) PROVE request'[w] = request[w]
  BY <1>1, <1>3 DEF Writing, Signing!WrongCommit, Signing!LoginCommit, Signing!RefreshCommit, Signing!LogoutCommit,
     Signing!ChangeCommit, Signing!ChangeRespond, Signing!Idle
<1>4. ASSUME NEW v \in Workers, NEW p \in Secrets, Signing!LoginRead(v, p) PROVE request'[w] = request[w]
  BY <1>1, <1>4 DEF Signing!LoginRead
<1>5. ASSUME NEW v \in Workers, NEW n, Signing!RefreshRead(v, n) PROVE request'[w] = request[w]
  BY <1>1, <1>5 DEF Signing!RefreshRead
<1>6. ASSUME NEW v \in Workers, NEW n, NEW p, NEW q, Signing!ChangeRead(v, n, p, q) PROVE request'[w] = request[w]
  BY <1>1, <1>6 DEF Signing!ChangeRead
<1>7. ASSUME Beside PROVE request'[w] = request[w]
  <2>1. ~Signing!Restart
    BY DEF Signing!Restart, Signing!Idle
  <2>2. request' = request
    BY <1>7, <2>1 DEF Beside, Signing!SetPassword, Signing!SetActive, Signing!Tick
  <2> QED BY <2>2
<1> HIDE DEF Goal
<1>8. request'[w] = request[w] => Goal
  BY DEF Goal
<1>9. ASSUME NEW v \in Workers, Reading(v) PROVE Goal
  BY <1>2, <1>4, <1>5, <1>6, <1>8, <1>9 DEF Reading
<1>10. Goal
  BY <1>3, <1>7, <1>8, <1>9, WhoSteps
<1> QED BY <1>10 DEF Goal

LEMMA LogoutInvStep == SignTyped /\ LogoutInv /\ Signing!Next => LogoutInv'
<1> SUFFICES ASSUME SignTyped, LogoutInv, Signing!Next, NEW w \in Workers, request'[w].op = "logout",
                    NEW t \in request'[w].presented
             PROVE  t \in request'[w].added \/ ~Signing!Decodes(t)' \/ t \in revoked'
  BY DEF LogoutInv
<1>1. /\ t \in TokensOf(DOMAIN pairs)
      /\ t \in request'[w].added \/ ~Signing!Decodes(t) \/ t \in revoked
  <2>1. CASE request'[w] = request[w]
    <3>1. Carries(request[w], DOMAIN pairs)
      BY DEF SignTyped
    <3> QED BY <2>1, <3>1 DEF LogoutInv, Carries
  <2>2. CASE request'[w] # request[w]
    BY <2>2, LoggingOut
  <2> QED BY <2>1, <2>2
<1>2. ~Signing!Decodes(t) => ~Signing!Decodes(t)'
  BY <1>1, ExpiredStays
<1>3. t \in revoked => t \in revoked' \/ ~Signing!Decodes(t)'
  BY RevokedStays
<1> QED BY <1>1, <1>2, <1>3

-----------------------------------------------------------------------------
(* With changes of the password one at a time, a version is as good as the number of  *)
(* changes before it                                                                  *)

Changes(w) == request[w].op \in {"change", "respond"}

\* No version is ahead of the account's, and the account's own goes with its own count.
Recent(version, changes, a) == version <= a.version /\ (version = a.version => changes = a.changes)

Apart == \A v, w \in Workers : Changes(v) /\ Changes(w) => v = w
PairsFresh == \A n \in DOMAIN pairs : Recent(pairs[n].version, pairs[n].changes, account)
JobFresh(j, table, a) ==
  /\ j.op = "login" => Recent(j.version, j.changes, a)
  /\ j.op = "refresh" => Recent(j.version, table[j.pair].changes, a)
  /\ j.op = "change" => j.version = a.version
  /\ j.op = "respond" => j.changes = a.changes

SoloInv == "solo" \in signMode.operations =>
             Apart /\ PairsFresh /\ \A w \in Workers : JobFresh(request[w], pairs, account)

LEMMA SoloInvInit == Signing!Init => SoloInv
  BY DEF Signing!Init, Signing!Idle, SoloInv, Apart, Changes, PairsFresh, JobFresh

LEMMA FreshKeeps ==
  ASSUME NEW v \in Nat, NEW c, NEW a \in Account, NEW b \in Account, Recent(v, c, a), b.version = a.version + 1
  PROVE  Recent(v, c, b)
  BY DEF Recent, Account

\* The pairs and the account are as they were, but for what does not matter here.
SameVersion == account'.version = account.version /\ account'.changes = account.changes

LEMMA SoloJob ==
  ASSUME SignTyped, SoloInv, "solo" \in signMode.operations, NEW w \in Workers, NEW j, Signing!Goes(w, j),
         JobFresh(j, pairs, account), j.op \in {"change", "respond"} => \A v \in Workers : ~Changes(v),
         UNCHANGED <<signMode, pairs>>, SameVersion
  PROVE  SoloInv'
<1>1. Apart'
  BY OneGoes DEF SoloInv, Apart, Changes
<1>2. PairsFresh'
  BY DEF SoloInv, PairsFresh, Recent, SameVersion
<1>3. ASSUME NEW v \in Workers PROVE JobFresh(request'[v], pairs', account')
  <2>1. JobFresh(request'[v], pairs, account)
    BY OneGoes DEF SoloInv
  <2> QED BY <2>1 DEF JobFresh, Recent, SameVersion
<1> QED BY <1>1, <1>2, <1>3 DEF SoloInv

LEMMA SoloPair ==
  ASSUME SignTyped, SoloInv, "solo" \in signMode.operations, NEW w \in Workers, Signing!Goes(w, Signing!Idle),
         NEW p \in Pair, pairs' = Append(pairs, p), Recent(p.version, p.changes, account), signMode' = signMode, SameVersion
  PROVE  SoloInv'
<1>1. Apart'
  BY OneGoes DEF SoloInv, Apart, Changes, Signing!Idle
<1>2. /\ DOMAIN pairs' = DOMAIN pairs \cup {Len(pairs) + 1}
      /\ \A n \in DOMAIN pairs : pairs'[n] = pairs[n]
      /\ pairs'[Len(pairs) + 1] = p
  BY OneMorePair DEF SignTyped
<1>3. PairsFresh'
  BY <1>2 DEF SoloInv, PairsFresh, Recent, SameVersion
<1>4. ASSUME NEW v \in Workers PROVE JobFresh(request'[v], pairs', account')
  <2>1. CASE v = w
    BY <2>1, OneGoes DEF JobFresh, Signing!Idle
  <2>2. CASE v # w
    <3>1. request'[v] = request[v] /\ JobFresh(request[v], pairs, account) /\ Carries(request[v], DOMAIN pairs)
      BY <2>2, OneGoes DEF SoloInv, SignTyped
    <3>2. request[v].op = "refresh" => pairs'[request[v].pair] = pairs[request[v].pair]
      BY <1>2, <3>1 DEF Carries
    <3> QED BY <3>1, <3>2 DEF JobFresh, Recent, SameVersion
  <2> QED BY <2>1, <2>2
<1> QED BY <1>1, <1>3, <1>4 DEF SoloInv

LEMMA SoloInvStep == SignTyped /\ SoloInv /\ Signing!Next => SoloInv'
<1> SUFFICES ASSUME SignTyped, SoloInv, Signing!Next, "solo" \in signMode.operations PROVE SoloInv'
  BY TimePasses DEF SoloInv
<1>0. account \in Account /\ account.version \in Nat /\ pairs \in Seq(Pair)
  BY DEF SignTyped, Account
<1>1. ASSUME NEW w \in Workers, NEW p \in Secrets, Signing!LoginRead(w, p) PROVE SoloInv'
  <2>1. CASE p # account.password
    <3> DEFINE j == [op |-> "wrong", attempts |-> account.attempts + 1, until |-> clock + LockTime]
    <3>1. Signing!Goes(w, j) /\ UNCHANGED <<signMode, pairs, account>>
      BY <1>1, <2>1 DEF Signing!LoginRead
    <3>2. JobFresh(j, pairs, account) /\ j.op \notin {"change", "respond"}
      BY DEF JobFresh
    <3> HIDE DEF j
    <3> QED BY <3>1, <3>2, SoloJob DEF SameVersion
  <2>2. CASE p = account.password
    <3> DEFINE j == [op |-> "login", version |-> account.version, attempts |-> account.attempts,
                     lockedUntil |-> account.lockedUntil, changes |-> account.changes]
    <3>1. Signing!Goes(w, j) /\ UNCHANGED <<signMode, pairs, account>>
      BY <1>1, <2>2 DEF Signing!LoginRead
    <3>2. JobFresh(j, pairs, account) /\ j.op \notin {"change", "respond"}
      BY <1>0 DEF JobFresh, Recent
    <3> HIDE DEF j
    <3> QED BY <3>1, <3>2, SoloJob DEF SameVersion
  <2> QED BY <2>1, <2>2
<1>2. ASSUME NEW w \in Workers, Signing!WrongCommit(w) \/ Signing!LogoutCommit(w) PROVE SoloInv'
  <2>1. Signing!Goes(w, Signing!Idle) /\ UNCHANGED <<signMode, pairs>> /\ SameVersion
    BY <1>0, <1>2 DEF Signing!WrongCommit, Signing!LogoutCommit, SameVersion, Account
  <2>2. JobFresh(Signing!Idle, pairs, account) /\ Signing!Idle.op \notin {"change", "respond"}
    BY DEF JobFresh, Signing!Idle
  <2> QED BY <2>1, <2>2, SoloJob
<1>3. ASSUME NEW w \in Workers, Signing!LoginCommit(w) PROVE SoloInv'
  <2> DEFINE q == Signing!Issued(request[w].version, 0, request[w].changes)
  <2>1. q \in Pair /\ pairs' = Append(pairs, q)
    BY <1>3 DEF Signing!LoginCommit, Signing!Issued, SignTyped, Pair, Carries
  <2>2. Recent(q.version, q.changes, account)
    BY <1>3 DEF Signing!LoginCommit, Signing!Issued, SoloInv, JobFresh
  <2>3. Signing!Goes(w, Signing!Idle) /\ signMode' = signMode /\ SameVersion
    BY <1>0, <1>3 DEF Signing!LoginCommit, SameVersion, Account
  <2> HIDE DEF q
  <2> QED BY <2>1, <2>2, <2>3, SoloPair
<1>4. ASSUME NEW w \in Workers, NEW n \in DOMAIN pairs, Signing!RefreshRead(w, n) PROVE SoloInv'
  <2> DEFINE j == [op |-> "refresh", pair |-> n, version |-> account.version]
  <2>1. Signing!Goes(w, j) /\ UNCHANGED <<signMode, pairs, account>>
    BY <1>4 DEF Signing!RefreshRead
  <2>2. pairs[n].version = account.version
    BY <1>4 DEF Signing!RefreshRead, Signing!Live, Signing!Current
  <2>3. JobFresh(j, pairs, account) /\ j.op \notin {"change", "respond"}
    BY <1>0, <2>2 DEF JobFresh, Recent, SoloInv, PairsFresh
  <2> HIDE DEF j
  <2> QED BY <2>1, <2>3, SoloJob DEF SameVersion
<1>5. ASSUME NEW w \in Workers, Signing!RefreshCommit(w) PROVE SoloInv'
  <2> DEFINE n == request[w].pair
             q == Signing!Issued(request[w].version, n, pairs[n].changes)
  <2>1. n \in DOMAIN pairs /\ n \in Nat /\ pairs[n] \in Pair /\ request[w].version \in Nat /\ clock \in Nat
    BY <1>5 DEF Signing!RefreshCommit, SignTyped, Carries
  <2>2. q \in Pair /\ Recent(q.version, q.changes, account)
    <3>1. q \in Pair /\ q.version = request[w].version /\ q.changes = pairs[n].changes
      BY <2>1 DEF Signing!Issued, Pair
    <3> QED BY <1>5, <3>1 DEF Signing!RefreshCommit, SoloInv, JobFresh
  <2>3. Signing!Goes(w, Signing!Idle) /\ UNCHANGED <<signMode, account>> /\ (pairs' = pairs \/ pairs' = Append(pairs, q))
    BY <1>5 DEF Signing!RefreshCommit
  <2>4. JobFresh(Signing!Idle, pairs, account) /\ Signing!Idle.op \notin {"change", "respond"}
    BY DEF JobFresh, Signing!Idle
  <2> HIDE DEF n, q
  <2>5. CASE pairs' = pairs
    BY <2>3, <2>4, <2>5, SoloJob DEF SameVersion
  <2>6. CASE pairs' = Append(pairs, q)
    BY <2>2, <2>3, <2>6, SoloPair DEF SameVersion
  <2> QED BY <2>3, <2>5, <2>6
<1>6. ASSUME NEW w \in Workers, NEW n, NEW others, Signing!LogoutRead(w, n, others) PROVE SoloInv'
  <2> DEFINE presented == {<<n, "access">>} \cup {<<k, "refresh">> : k \in others}
             j == [op |-> "logout", presented |-> presented,
                   added |-> {t \in presented : Signing!Decodes(t) /\ t \notin revoked}]
  <2>1. Signing!Goes(w, j) /\ UNCHANGED <<signMode, pairs, account>>
    BY <1>6 DEF Signing!LogoutRead
  <2>2. JobFresh(j, pairs, account) /\ j.op \notin {"change", "respond"}
    BY DEF JobFresh
  <2> HIDE DEF j
  <2> QED BY <2>1, <2>2, SoloJob DEF SameVersion
<1>7. ASSUME NEW w \in Workers, NEW n, NEW p, NEW q, Signing!ChangeRead(w, n, p, q) PROVE SoloInv'
  <2> DEFINE j == [op |-> "change", version |-> account.version, mustChange |-> account.mustChange, new |-> q]
  <2>1. Signing!Goes(w, j) /\ UNCHANGED <<signMode, pairs, account>>
    BY <1>7 DEF Signing!ChangeRead
  <2>2. JobFresh(j, pairs, account)
    BY DEF JobFresh
  <2>3. \A v \in Workers : ~Changes(v)
    BY <1>7 DEF Signing!ChangeRead, Signing!Uses, Signing!Changing, Changes
  <2> HIDE DEF j
  <2> QED BY <2>1, <2>2, <2>3, SoloJob DEF SameVersion
<1>8. ASSUME NEW w \in Workers, Signing!ChangeCommit(w) PROVE SoloInv'
  <2> DEFINE j == [op |-> "respond", changes |-> account.changes + 1]
  <2>1. Signing!Goes(w, j) /\ UNCHANGED <<signMode, pairs>> /\ request[w].op = "change"
    BY <1>8 DEF Signing!ChangeCommit
  <2>2. account' \in Account
    BY SignTypedStep DEF SignTyped
  <2>3. account'.version = account.version + 1 /\ account'.changes = account.changes + 1
    <3>1. request[w].version = account.version
      BY <2>1 DEF SoloInv, JobFresh
    <3> QED BY <1>0, <1>8, <3>1 DEF Signing!ChangeCommit, Account
  <2>4. Changes(w) /\ \A v \in Workers \ {w} : ~Changes(v)
    BY <2>1 DEF SoloInv, Apart, Changes
  <2>5. Apart'
    BY <2>1, <2>4, OneGoes DEF Apart, Changes
  <2>6. PairsFresh'
    <3> SUFFICES ASSUME NEW n \in DOMAIN pairs PROVE Recent(pairs[n].version, pairs[n].changes, account')
      BY <2>1 DEF PairsFresh
    <3>1. pairs[n] \in Pair /\ Recent(pairs[n].version, pairs[n].changes, account)
      BY <1>0 DEF SoloInv, PairsFresh
    <3>2. pairs[n].version \in Nat
      BY <3>1 DEF Pair
    <3> QED BY <1>0, <2>2, <2>3, <3>1, <3>2, FreshKeeps
  <2>7. ASSUME NEW v \in Workers PROVE JobFresh(request'[v], pairs', account')
    <3>1. CASE v = w
      <4>1. request'[v] = j
        BY <2>1, <3>1, OneGoes
      <4> QED BY <2>3, <4>1 DEF JobFresh
    <3>2. CASE v # w
      <4>1. request'[v] = request[v] /\ ~Changes(v) /\ Carries(request[v], DOMAIN pairs) /\ JobFresh(request[v], pairs, account)
        BY <2>1, <2>4, <3>2, OneGoes DEF SoloInv, SignTyped
      <4>2. request[v].op = "login" => Recent(request[v].version, request[v].changes, account')
        BY <1>0, <2>2, <2>3, <4>1, FreshKeeps DEF JobFresh, Carries
      <4>3. request[v].op = "refresh" => Recent(request[v].version, pairs[request[v].pair].changes, account')
        BY <1>0, <2>2, <2>3, <4>1, FreshKeeps DEF JobFresh, Carries
      <4> QED BY <2>1, <4>1, <4>2, <4>3 DEF JobFresh, Changes
    <3> QED BY <3>1, <3>2
  <2> QED BY <2>5, <2>6, <2>7 DEF SoloInv
<1>9. ASSUME NEW w \in Workers, Signing!ChangeRespond(w) PROVE SoloInv'
  <2> DEFINE q == Signing!Issued(account.version, 0, request[w].changes)
  <2>1. q \in Pair /\ pairs' = Append(pairs, q)
    BY <1>9 DEF Signing!ChangeRespond, Signing!Issued, SignTyped, Pair, Carries, Account
  <2>2. Recent(q.version, q.changes, account)
    BY <1>0, <1>9 DEF Signing!ChangeRespond, Signing!Issued, SoloInv, JobFresh, Recent
  <2>3. Signing!Goes(w, Signing!Idle) /\ signMode' = signMode /\ SameVersion
    BY <1>9 DEF Signing!ChangeRespond, SameVersion
  <2> HIDE DEF q
  <2> QED BY <2>1, <2>2, <2>3, SoloPair
<1>10. CASE Beside /\ ~Signing!Restart
  <2>1. UNCHANGED <<signMode, pairs, request>> /\ SameVersion
    BY <1>0, <1>10 DEF Beside, Signing!SetPassword, Signing!SetActive, Signing!Tick, SameVersion, Account
  <2> QED BY <2>1 DEF SoloInv, Apart, PairsFresh, JobFresh, Recent, SameVersion, Changes
<1>11. CASE Signing!Restart
  BY <1>11 DEF Signing!Restart, Signing!Idle, SoloInv, Apart, PairsFresh, JobFresh, Changes
<1>12. ASSUME NEW v \in Workers, Reading(v) PROVE SoloInv'
  BY <1>1, <1>4, <1>6, <1>7, <1>12 DEF Reading
<1>13. ASSUME NEW v \in Workers, Writing(v) PROVE SoloInv'
  BY <1>2, <1>3, <1>5, <1>8, <1>9, <1>13 DEF Writing
<1> QED BY <1>10, <1>11, <1>12, <1>13, WhoSteps

-----------------------------------------------------------------------------
(* Guessing one after the other: the attempts counted are no fewer than the guesses of *)
(* any time as long as the lock, and a lock outlasts the time in which it was earned    *)

GuessesAt(history, t) == {i \in DOMAIN history : t <= history[i] /\ history[i] < t + LockTime}

Limits(a, history) ==
  \A t \in Nat :
    /\ Cardinality(GuessesAt(history, t)) <= a.attempts
    /\ Cardinality(GuessesAt(history, t)) <= AttemptLimit
    /\ Cardinality(GuessesAt(history, t)) = AttemptLimit => t + LockTime <= a.lockedUntil

\* A wrong password that is about to be counted was tried after those before it, unlocked.
JobCounts(j, a, history, t) ==
  j.op = "wrong" =>
    /\ j.attempts = a.attempts + 1
    /\ a.lockedUntil + LockTime <= j.until /\ j.until <= t + LockTime
    /\ \A i \in DOMAIN history : history[i] + LockTime <= j.until

InThePast(history, t) == \A i \in DOMAIN history : history[i] <= t
Single == \A v, w \in Workers : request[v] # Signing!Idle /\ request[w] # Signing!Idle => v = w

GuessInv == signMode.workers = 1 =>
              /\ Single /\ Limits(account, wrong) /\ InThePast(wrong, clock)
              /\ \A w \in Workers : JobCounts(request[w], account, wrong, clock)

LEMMA GuessesFinite ==
  ASSUME NEW history \in Seq(Nat), NEW t \in Nat
  PROVE  /\ IsFiniteSet(GuessesAt(history, t)) /\ Cardinality(GuessesAt(history, t)) \in Nat
<1>1. DOMAIN history = 1..Len(history) /\ Len(history) \in Nat
  OBVIOUS
<1>2. IsFiniteSet(1..Len(history))
  BY <1>1, FS_Interval
<1>3. GuessesAt(history, t) \subseteq 1..Len(history)
  BY <1>1 DEF GuessesAt
<1>4. IsFiniteSet(GuessesAt(history, t))
  BY <1>2, <1>3, FS_Subset
<1> QED BY <1>4, FS_CardinalityType

LEMMA OneMoreGuess ==
  ASSUME NEW history \in Seq(Nat), NEW t \in Nat, NEW u \in Nat
  PROVE  /\ t <= u /\ u < t + LockTime =>
              Cardinality(GuessesAt(Append(history, u), t)) = Cardinality(GuessesAt(history, t)) + 1
         /\ ~(t <= u /\ u < t + LockTime) => GuessesAt(Append(history, u), t) = GuessesAt(history, t)
<1> DEFINE more == Append(history, u)
           new == Len(history) + 1
<1>1. /\ DOMAIN more = DOMAIN history \cup {new} /\ new \notin DOMAIN history
      /\ more[new] = u /\ \A i \in DOMAIN history : more[i] = history[i]
  OBVIOUS
<1> HIDE DEF more, new
<1>2. ASSUME t <= u, u < t + LockTime PROVE Cardinality(GuessesAt(more, t)) = Cardinality(GuessesAt(history, t)) + 1
  <2>1. GuessesAt(more, t) = GuessesAt(history, t) \cup {new}
    BY <1>1, <1>2 DEF GuessesAt
  <2>2. new \notin GuessesAt(history, t)
    BY <1>1 DEF GuessesAt
  <2> QED BY <2>1, <2>2, GuessesFinite, FS_AddElement
<1>3. ASSUME ~(t <= u /\ u < t + LockTime) PROVE GuessesAt(more, t) = GuessesAt(history, t)
  BY <1>1, <1>3 DEF GuessesAt
<1> QED BY <1>2, <1>3 DEF more

LEMMA NoGuess ==
  ASSUME NEW t \in Nat
  PROVE  Cardinality(GuessesAt(<<>>, t)) = 0
<1>1. GuessesAt(<<>>, t) = {}
  BY DEF GuessesAt
<1> QED BY <1>1, FS_EmptySet

LEMMA NoLimits ==
  ASSUME NEW a \in Account
  PROVE  Limits(a, <<>>)
  BY NoGuess, SignAssumption DEF Limits, Account

LEMMA GuessInvInit == Signing!Init => GuessInv
<1> SUFFICES ASSUME Signing!Init PROVE GuessInv
  OBVIOUS
<1>1. account \in Account
  BY SignTypedInit DEF SignTyped
<1>2. Limits(account, wrong) /\ InThePast(wrong, clock)
  BY <1>1, NoLimits DEF Signing!Init, InThePast
<1> QED BY <1>2 DEF Signing!Init, Signing!Idle, GuessInv, Single, JobCounts

\* With one request at a time whoever begins is alone.
LEMMA NobodyElse ==
  ASSUME signMode.workers = 1, NEW w \in Workers, Signing!Free(w)
  PROVE  \A v \in Workers : request[v] = Signing!Idle
<1> DEFINE busy == {v \in Workers : request[v] # Signing!Idle}
<1>1. Cardinality(busy) < 1
  BY DEF Signing!Free, Signing!Cardinality, Cardinality
<1>2. IsFiniteSet(busy)
  BY SignAssumption, FS_Subset
<1>3. busy = {}
  BY <1>1, <1>2, FS_CardinalityType, FS_EmptySet
<1> QED BY <1>3

LEMMA GuessJob ==
  ASSUME SignTyped, GuessInv, signMode.workers = 1, NEW w \in Workers, NEW j, Signing!Goes(w, j),
         (\A v \in Workers : request[v] = Signing!Idle) \/ j = Signing!Idle,
         JobCounts(j, account, wrong, clock), UNCHANGED <<signMode, clock, wrong>>,
         account'.attempts = account.attempts, account'.lockedUntil = account.lockedUntil
  PROVE  GuessInv'
<1>1. Single'
  BY OneGoes DEF GuessInv, Single
<1>2. Limits(account', wrong')
  BY DEF GuessInv, Limits
<1>3. \A v \in Workers : JobCounts(request'[v], account', wrong', clock')
  BY OneGoes DEF GuessInv, JobCounts
<1> QED BY <1>1, <1>2, <1>3 DEF GuessInv

\* A commit with which the counting goes on, or begins anew.
LEMMA GuessDone ==
  ASSUME SignTyped, GuessInv, signMode.workers = 1, NEW w \in Workers, request[w] # Signing!Idle, Signing!Goes(w, Signing!Idle),
         UNCHANGED <<signMode, clock>>, Limits(account', wrong'), InThePast(wrong', clock)
  PROVE  GuessInv'
<1>1. Single'
  BY OneGoes DEF GuessInv, Single
<1>2. ASSUME NEW v \in Workers PROVE request'[v] = Signing!Idle
  <2>1. CASE v = w
    BY <2>1, OneGoes
  <2>2. CASE v # w
    BY <2>2, OneGoes DEF GuessInv, Single
  <2> QED BY <2>1, <2>2
<1>3. \A v \in Workers : JobCounts(request'[v], account', wrong', clock')
  BY <1>2 DEF JobCounts, Signing!Idle
<1> QED BY <1>1, <1>3 DEF GuessInv

LEMMA GuessCounted ==
  ASSUME SignTyped, GuessInv, signMode.workers = 1, NEW w \in Workers, Signing!WrongCommit(w)
  PROVE  Limits(account', wrong') /\ InThePast(wrong', clock)
<1> DEFINE j == request[w]
<1>1. /\ account \in Account /\ wrong \in Seq(Nat) /\ clock \in Nat /\ j.attempts \in Nat /\ j.until \in Nat
      /\ wrong' = Append(wrong, clock)
  BY SignAssumption DEF Signing!WrongCommit, SignTyped, Carries
<1>2. /\ account'.attempts = j.attempts
      /\ account'.lockedUntil = IF j.attempts >= AttemptLimit THEN j.until ELSE account.lockedUntil
  BY <1>1 DEF Signing!WrongCommit, Account
<1>3. /\ j.attempts = account.attempts + 1
      /\ account.lockedUntil + LockTime <= j.until /\ j.until <= clock + LockTime
      /\ \A i \in DOMAIN wrong : wrong[i] + LockTime <= j.until
  BY DEF Signing!WrongCommit, GuessInv, JobCounts
<1>4. InThePast(wrong', clock)
  BY <1>1 DEF GuessInv, InThePast
<1>5. account.attempts \in Nat /\ account.lockedUntil \in Nat /\ LockTime \in Nat /\ AttemptLimit \in Nat /\ AttemptLimit >= 2
  BY <1>1, SignAssumption DEF Account
<1> HIDE DEF j
<1>6. ASSUME NEW t \in Nat
      PROVE  LET n == Cardinality(GuessesAt(wrong', t)) IN
             n <= account'.attempts /\ n <= AttemptLimit /\ (n = AttemptLimit => t + LockTime <= account'.lockedUntil)
  <2> DEFINE old == Cardinality(GuessesAt(wrong, t))
             n == Cardinality(GuessesAt(wrong', t))
  <2>1. old \in Nat /\ old <= account.attempts /\ old <= AttemptLimit /\ (old = AttemptLimit => t + LockTime <= account.lockedUntil)
    BY <1>1, GuessesFinite DEF GuessInv, Limits
  <2>2. CASE t <= clock /\ clock < t + LockTime
    <3>1. n = old + 1
      BY <1>1, <2>2, OneMoreGuess
    <3>2. old # AttemptLimit
      BY <1>1, <1>3, <1>5, <2>1, <2>2
    <3>3. old >= 1 => t + LockTime <= j.until
      <4> SUFFICES ASSUME old >= 1 PROVE t + LockTime <= j.until
        OBVIOUS
      <4>1. GuessesAt(wrong, t) # {}
        BY FS_EmptySet
      <4>2. PICK i \in DOMAIN wrong : t <= wrong[i]
        BY <4>1 DEF GuessesAt
      <4>3. wrong[i] \in Nat /\ wrong[i] + LockTime <= j.until
        BY <1>1, <1>3
      <4>4. j.until \in Nat
        BY <1>1
      <4> QED BY <1>5, <4>2, <4>3, <4>4
    <3>4. j.attempts \in Nat /\ j.until \in Nat
      BY <1>1
    <3>5. n <= account'.attempts
      BY <1>2, <1>3, <1>5, <2>1, <3>1
    <3>6. n <= AttemptLimit
      BY <1>5, <2>1, <3>1, <3>2
    <3>7. n = AttemptLimit => t + LockTime <= account'.lockedUntil
      BY <1>2, <1>3, <1>5, <2>1, <3>1, <3>3, <3>4
    <3> QED BY <3>5, <3>6, <3>7
  <2>3. CASE ~(t <= clock /\ clock < t + LockTime)
    <3>1. n = old
      BY <1>1, <2>3, OneMoreGuess
    <3>2. j.attempts \in Nat /\ j.until \in Nat
      BY <1>1
    <3>3. n <= account'.attempts
      BY <1>2, <1>3, <1>5, <2>1, <3>1
    <3>4. n = AttemptLimit => t + LockTime <= account'.lockedUntil
      BY <1>2, <1>3, <1>5, <2>1, <3>1, <3>2
    <3> QED BY <2>1, <3>1, <3>3, <3>4
  <2> QED BY <2>2, <2>3
<1> QED BY <1>4, <1>6 DEF Limits

LEMMA GuessInvStep == SignTyped /\ GuessInv /\ Signing!Next => GuessInv'
<1> SUFFICES ASSUME SignTyped, GuessInv, Signing!Next, signMode.workers = 1 PROVE GuessInv'
  BY TimePasses DEF GuessInv
<1>0. account \in Account /\ account.lockedUntil \in Nat /\ clock \in Nat /\ LockTime \in Nat /\ wrong \in Seq(Nat)
  BY SignAssumption DEF SignTyped, Account
<1>1. ASSUME NEW w \in Workers, NEW p \in Secrets, Signing!LoginRead(w, p) PROVE GuessInv'
  <2>1. Signing!Free(w) /\ UNCHANGED <<signMode, clock, account, wrong>> /\ account.lockedUntil <= clock
    BY <1>0, <1>1 DEF Signing!LoginRead, Signing!Locked
  <2>2. CASE p # account.password
    <3> DEFINE j == [op |-> "wrong", attempts |-> account.attempts + 1, until |-> clock + LockTime]
    <3>1. Signing!Goes(w, j)
      BY <1>1, <2>2 DEF Signing!LoginRead
    <3>2. \A i \in DOMAIN wrong : wrong[i] <= clock /\ wrong[i] \in Nat
      BY <1>0 DEF GuessInv, InThePast
    <3>3. JobCounts(j, account, wrong, clock)
      BY <1>0, <2>1, <3>2 DEF JobCounts
    <3> HIDE DEF j
    <3> QED BY <2>1, <3>1, <3>3, GuessJob, NobodyElse
  <2>3. CASE p = account.password
    <3> DEFINE j == [op |-> "login", version |-> account.version, attempts |-> account.attempts,
                     lockedUntil |-> account.lockedUntil, changes |-> account.changes]
    <3>1. Signing!Goes(w, j)
      BY <1>1, <2>3 DEF Signing!LoginRead
    <3>2. JobCounts(j, account, wrong, clock)
      BY DEF JobCounts
    <3> HIDE DEF j
    <3> QED BY <2>1, <3>1, <3>2, GuessJob, NobodyElse
  <2> QED BY <2>2, <2>3
<1>2. ASSUME NEW w \in Workers, Signing!WrongCommit(w) PROVE GuessInv'
  <2>1. request[w] # Signing!Idle /\ Signing!Goes(w, Signing!Idle) /\ UNCHANGED <<signMode, clock>>
    BY <1>2 DEF Signing!WrongCommit, Signing!Idle
  <2>2. Limits(account', wrong') /\ InThePast(wrong', clock)
    BY <1>2, GuessCounted
  <2> QED BY <2>1, <2>2, GuessDone
<1>3. ASSUME NEW w \in Workers, Signing!LoginCommit(w) PROVE GuessInv'
  <2>1. account' \in Account
    BY SignTypedStep DEF SignTyped
  <2>2. wrong' = <<>> /\ Limits(account', <<>>) /\ InThePast(<<>>, clock)
    BY <1>3, <2>1, NoLimits DEF Signing!LoginCommit, InThePast
  <2> QED BY <1>3, <2>2, GuessDone DEF Signing!LoginCommit, Signing!Idle
<1>4. ASSUME NEW w \in Workers, NEW n, Signing!RefreshRead(w, n) PROVE GuessInv'
  <2> DEFINE j == [op |-> "refresh", pair |-> n, version |-> account.version]
  <2>1. Signing!Goes(w, j) /\ Signing!Free(w) /\ UNCHANGED <<signMode, clock, account, wrong>>
    BY <1>4 DEF Signing!RefreshRead
  <2>2. JobCounts(j, account, wrong, clock)
    BY DEF JobCounts
  <2> HIDE DEF j
  <2> QED BY <2>1, <2>2, GuessJob, NobodyElse
<1>5. ASSUME NEW w \in Workers, Signing!RefreshCommit(w) \/ Signing!LogoutCommit(w) \/ Signing!ChangeRespond(w) PROVE GuessInv'
  <2>1. Signing!Goes(w, Signing!Idle) /\ UNCHANGED <<signMode, clock, account, wrong>>
    BY <1>5 DEF Signing!RefreshCommit, Signing!LogoutCommit, Signing!ChangeRespond
  <2>2. JobCounts(Signing!Idle, account, wrong, clock)
    BY DEF JobCounts, Signing!Idle
  <2> QED BY <2>1, <2>2, GuessJob
<1>6. ASSUME NEW w \in Workers, NEW n, NEW others, Signing!LogoutRead(w, n, others) PROVE GuessInv'
  <2> DEFINE presented == {<<n, "access">>} \cup {<<k, "refresh">> : k \in others}
             j == [op |-> "logout", presented |-> presented,
                   added |-> {t \in presented : Signing!Decodes(t) /\ t \notin revoked}]
  <2>1. Signing!Goes(w, j) /\ Signing!Free(w) /\ UNCHANGED <<signMode, clock, account, wrong>>
    BY <1>6 DEF Signing!LogoutRead
  <2>2. JobCounts(j, account, wrong, clock)
    BY DEF JobCounts
  <2> HIDE DEF j
  <2> QED BY <2>1, <2>2, GuessJob, NobodyElse
<1>7. ASSUME NEW w \in Workers, NEW n, NEW p, NEW q, Signing!ChangeRead(w, n, p, q) PROVE GuessInv'
  <2> DEFINE j == [op |-> "change", version |-> account.version, mustChange |-> account.mustChange, new |-> q]
  <2>1. Signing!Goes(w, j) /\ Signing!Free(w) /\ UNCHANGED <<signMode, clock, account, wrong>>
    BY <1>7 DEF Signing!ChangeRead
  <2>2. JobCounts(j, account, wrong, clock)
    BY DEF JobCounts
  <2> HIDE DEF j
  <2> QED BY <2>1, <2>2, GuessJob, NobodyElse
<1>8. ASSUME NEW w \in Workers, Signing!ChangeCommit(w) PROVE GuessInv'
  <2> DEFINE j == [op |-> "respond", changes |-> account.changes + 1]
  <2>1. /\ Signing!Goes(w, j) /\ UNCHANGED <<signMode, clock, wrong>>
        /\ account'.attempts = account.attempts /\ account'.lockedUntil = account.lockedUntil
    BY <1>0, <1>8 DEF Signing!ChangeCommit, Account
  <2>2. j # Signing!Idle /\ request[w] # Signing!Idle
    BY <1>8 DEF Signing!ChangeCommit, Signing!Idle
  <2>3. \A v \in Workers \ {w} : request[v] = Signing!Idle
    BY <2>2 DEF GuessInv, Single
  <2>4. Single'
    BY <2>1, <2>3, OneGoes DEF Single
  <2>5. Limits(account', wrong')
    BY <2>1 DEF GuessInv, Limits
  <2>6. JobCounts(j, account', wrong', clock')
    BY DEF JobCounts
  <2> HIDE DEF j
  <2>7. \A v \in Workers : JobCounts(request'[v], account', wrong', clock')
    BY <2>1, <2>3, <2>6, OneGoes DEF JobCounts, Signing!Idle
  <2> QED BY <2>1, <2>4, <2>5, <2>7 DEF GuessInv
<1>9. CASE Beside /\ ~Signing!Restart /\ ~Signing!Tick
  <2>1. /\ UNCHANGED <<signMode, clock, wrong, request>>
        /\ account'.attempts = account.attempts /\ account'.lockedUntil = account.lockedUntil
    BY <1>0, <1>9 DEF Beside, Signing!SetPassword, Signing!SetActive, Account
  <2> QED BY <2>1 DEF GuessInv, Single, Limits, InThePast, JobCounts
<1>10. CASE Signing!Tick
  <2>1. UNCHANGED <<signMode, account, wrong, request>> /\ clock' = clock + 1
    BY <1>10 DEF Signing!Tick
  <2>2. InThePast(wrong, clock')
    <3>1. \A i \in DOMAIN wrong : wrong[i] \in Nat
      BY <1>0
    <3> QED BY <1>0, <2>1, <3>1 DEF GuessInv, InThePast
  <2>3. ASSUME NEW w \in Workers PROVE JobCounts(request[w], account, wrong, clock')
    <3>1. JobCounts(request[w], account, wrong, clock) /\ (request[w].op = "wrong" => request[w].until \in Nat)
      BY DEF GuessInv, SignTyped, Carries
    <3> QED BY <1>0, <2>1, <3>1 DEF JobCounts
  <2> QED BY <2>1, <2>2, <2>3 DEF GuessInv, Single
<1>11. CASE Signing!Restart
  BY <1>11 DEF Signing!Restart, Signing!Idle, GuessInv, Single, JobCounts
<1>12. ASSUME NEW v \in Workers, Reading(v) PROVE GuessInv'
  BY <1>1, <1>4, <1>6, <1>7, <1>12 DEF Reading
<1>13. ASSUME NEW v \in Workers, Writing(v) PROVE GuessInv'
  BY <1>2, <1>3, <1>5, <1>8, <1>13 DEF Writing
<1> QED BY <1>9, <1>10, <1>11, <1>12, <1>13, WhoSteps

-----------------------------------------------------------------------------
(* All of it *)

SignInv == SignTyped /\ RenewInv /\ SoloInv /\ GuessInv /\ LogoutInv

LEMMA SignInvInit == Signing!Init => SignInv
<1> SUFFICES ASSUME Signing!Init PROVE RenewInv /\ LogoutInv
  BY SignTypedInit, SoloInvInit, GuessInvInit DEF SignInv
<1> QED BY DEF Signing!Init, Signing!Idle, RenewInv, Signing!OneSuccessor, LogoutInv

LEMMA SignInvStep == SignInv /\ [Signing!Next]_Signing!vars => SignInv'
<1>1. SignInv /\ Signing!Next => SignInv'
  BY SignTypedStep, RenewInvStep, SoloInvStep, GuessInvStep, LogoutInvStep DEF SignInv
<1>2. SignInv /\ UNCHANGED Signing!vars => SignInv'
  BY DEF SignInv, Signing!vars, SignTyped, RenewInv, Signing!OneSuccessor, Spent, Signing!Decodes, Signing!Expiry, Signing!Lifetime,
     SoloInv, Apart, Changes, PairsFresh, GuessInv, Single, LogoutInv
<1> QED BY <1>1, <1>2

LEMMA SignInvTokens == SignInv => Signing!TokensSound
<1> SUFFICES ASSUME SignInv PROVE Signing!TokensSound
  OBVIOUS
<1>1. Signing!SignInTypeOK
  <2>1. account.version \in Nat /\ account.attempts \in Nat /\ account.lockedUntil \in Nat
    BY DEF SignInv, SignTyped, Account
  <2>2. ASSUME NEW n \in DOMAIN pairs PROVE pairs[n].from \in 0..n - 1
    <3>1. pairs[n] \in Pair /\ pairs[n].from < n /\ n \in Nat
      BY DEF SignInv, SignTyped
    <3> QED BY <3>1 DEF Pair
  <2> QED BY <2>1, <2>2, SignAssumption DEF Signing!SignInTypeOK, SignInv, SignTyped, TokensOf, Signing!Kinds
<1>2. Signing!ChangeEndsSessions
  BY DEF SignInv, SoloInv, PairsFresh, Recent, Signing!ChangeEndsSessions, Signing!Uses, Signing!Live, Signing!Current
<1>3. Signing!FewGuesses
  <2> SUFFICES ASSUME signMode.workers = 1, NEW t \in 0..SignTime PROVE Signing!Cardinality(Signing!Guesses(t)) <= AttemptLimit
    BY DEF Signing!FewGuesses
  <2>1. Signing!Guesses(t) = GuessesAt(wrong, t)
    BY DEF Signing!Guesses, GuessesAt
  <2>2. Cardinality(GuessesAt(wrong, t)) <= AttemptLimit
    BY DEF SignInv, GuessInv, Limits
  <2> QED BY <2>1, <2>2 DEF Signing!Cardinality, Cardinality
<1> QED BY <1>1, <1>2, <1>3 DEF Signing!TokensSound, SignInv, RenewInv

LEMMA SignInvRevocations == SignInv /\ [Signing!Next]_Signing!vars => [Signing!RevocationsSound]_Signing!vars
<1> SUFFICES ASSUME SignInv, Signing!Next PROVE Signing!RevocationsSound
  OBVIOUS
<1>0. SignTyped /\ SignTyped'
  BY SignTypedStep DEF SignInv
<1>1. Signing!RevokedStayDead
  <2> SUFFICES ASSUME NEW t \in revoked PROVE ~Signing!Live(t)'
    BY DEF Signing!RevokedStayDead
  <2> QED BY <1>0, RevokedStays DEF Signing!Live
<1>2. Signing!SignedOut
  <2> SUFFICES ASSUME NEW w \in Workers, request[w].op = "logout", ~Signing!LogoutFails(w), Signing!LogoutCommit(w),
                      NEW t \in request[w].presented
               PROVE  ~Signing!Live(t)'
    BY DEF Signing!SignedOut
  <2>1. t \in TokensOf(DOMAIN pairs)
    BY <1>0 DEF SignTyped, Carries
  <2>2. revoked' = revoked \cup request[w].added
    BY DEF Signing!LogoutCommit
  <2>3. t \in request[w].added \/ ~Signing!Decodes(t) \/ t \in revoked
    BY DEF SignInv, LogoutInv
  <2> QED BY <1>0, <2>1, <2>2, <2>3, ExpiredStays DEF Signing!Live
<1> QED BY <1>1, <1>2 DEF Signing!RevocationsSound

\* Whatever overlaps and however long it goes on, an exchanged refresh token has one successor, what is revoked or signed
\* out is never accepted again, changes of the password one at a time end what was signed in before them, and
\* guesses one at a time are no more in the time of a lock than lead to it.
THEOREM SignInSoundCorrect == SessionsSpec => SignInSound
<1>1. SessionsInit => SignInv
  BY SignInvInit DEF SessionsInit
<1>2. SignInv /\ [SessionsNext]_<<vars, since, calendar, signing, part>> => SignInv'
  <2>1. [SessionsNext]_<<vars, since, calendar, signing, part>> => [Signing!Next]_Signing!vars
    BY DEF SessionsNext, SessionsStep, CalendarStep, SigningStep, signing, Signing!vars
  <2> QED BY <2>1, SignInvStep
<1>3. SignInv => (part = "signing" => Signing!TokensSound)
  BY SignInvTokens
<1>4. SignInv /\ [SessionsNext]_<<vars, since, calendar, signing, part>>
      => [part = "signing" => Signing!RevocationsSound]_<<part, signing>>
  <2> SUFFICES ASSUME SignInv, SessionsNext, part = "signing", ~UNCHANGED <<part, signing>> PROVE Signing!RevocationsSound
    BY DEF signing
  <2>1. Signing!Next
    BY DEF SessionsNext, SessionsStep, CalendarStep, SigningStep
  <2>2. ~UNCHANGED Signing!vars
    BY DEF SessionsNext, SessionsStep, CalendarStep, SigningStep, signing, Signing!vars
  <2> QED BY <2>1, <2>2, SignInvRevocations
<1> QED BY <1>1, <1>2, <1>3, <1>4, PTL DEF SessionsSpec, SignInSound
===============================================================================
