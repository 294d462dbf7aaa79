------------------------------- MODULE TimeSheet -------------------------------
(***************************************************************************)
(* Time entries of time_entry_service.py on top of the approval engine:    *)
(* drafting, submitting one entry or a week, the direct decisions of a     *)
(* manager on one entry or a week, the engine's verdict, and the           *)
(* actual_hours of the tasks the entries are booked on.                    *)
(*                                                                         *)
(* Sessions do not autoflush: a SUM sent before the rows that changed are  *)
(* flushed sees the table as it was. Requests other than the engine's are  *)
(* one step each.                                                          *)
(***************************************************************************)
EXTENDS ApprovalEngine

CONSTANTS
  Tasks, Dates,
  Hours,            \* hours_spent
  DecidedBy,        \* mechanisms used on each entry: "engine", "direct" or both
  Charts,
  MaxInstances      \* bound on the approval instances of one entry

VARIABLES
  entries,          \* time_entries; "NONE" before the entry is drafted
  actualHours       \* actual_hours of the tasks

engine == <<workflows, txn, org, instances>>
vars == <<workflows, txn, org, instances, entries, actualHours>>

EntryStatuses == {"DRAFT", "SUBMITTED", "APPROVED", "REJECTED"}
Entry == [task : Tasks, date : Dates, hours : Hours, status : EntryStatuses]
NoEntry == [status |-> "NONE"]
Deleted == [status |-> "DELETED"]

Stored(es) == {t \in Targets : es[t].status \in EntryStatuses}
HasStatus(S) == {t \in Targets : entries[t].status \in S}
WithStatus(T, v) == [t \in Targets |-> IF t \in T THEN [entries[t] EXCEPT !.status = v] ELSE entries[t]]

\* Unique(employee_id, task_id, date).
KeysUnique(es) ==
  \A t, u \in Stored(es) :
    (/\ t # u /\ Requester[t] = Requester[u]
     /\ es[t].task = es[u].task) => es[t].date # es[u].date

-----------------------------------------------------------------------------
(* _recompute_task_actual_hours *)

\* SUM(hours_spent) of the submitted and approved entries of task k.
Counted(es, k) ==
  MapThenSumSet(LAMBDA t : es[t].hours,
                {t \in Stored(es) : es[t].task = k /\ es[t].status \in {"SUBMITTED", "APPROVED"}})

\* The changed rows were flushed before.
RecomputeFlushed(K) ==
  actualHours' = [k \in Tasks |-> IF k \in K THEN Counted(entries', k) ELSE actualHours[k]]

\* They are flushed with actual_hours of the first task: its SUM does not see them.
RecomputeUnflushed(K) ==
  \E first \in K :
    actualHours' = [k \in Tasks |-> IF k = first THEN Counted(entries, k)
                                    ELSE IF k \in K THEN Counted(entries', k) ELSE actualHours[k]]

-----------------------------------------------------------------------------
(* What the owner does *)

\* create, create_batch
CreateBatch(new) ==
  /\ \A t \in DOMAIN new : entries[t] = NoEntry
  /\ entries' = [t \in Targets |-> IF t \in DOMAIN new THEN new[t] ELSE entries[t]]
  /\ KeysUnique(entries')
  /\ RecomputeFlushed({new[t].task : t \in DOMAIN new})
  /\ UNCHANGED engine

Update_anyDate(t, date, hours) ==
  /\ entries[t].status = "DRAFT"
  /\ entries' = [entries EXCEPT ![t].date = date, ![t].hours = hours]
  /\ RecomputeUnflushed({entries[t].task})
  /\ UNCHANGED engine

Update(t, date, hours) ==
  /\ entries[t].status = "DRAFT"
  /\ entries' = [entries EXCEPT ![t].date = date, ![t].hours = hours]
  /\ KeysUnique(entries')
  /\ RecomputeUnflushed({entries[t].task})
  /\ UNCHANGED engine

Delete(t) ==
  /\ entries[t].status \in {"DRAFT", "REJECTED"}
  /\ entries' = [entries EXCEPT ![t] = Deleted]
  /\ RecomputeFlushed({entries[t].task})
  /\ UNCHANGED engine

\* Flows for the targets T: rows to append to each one's instances. A module without an
\* active workflow gets none, and its entries wait for a manager.
FlowsOf(T) ==
  {flows \in [T -> UNION {FlowRows(t) : t \in T} \cup {<< >>}] :
     \A t \in T : flows[t] \in IF ActiveFor(ModuleOf[t]) = {} THEN {<< >>} ELSE FlowRows(t)}

EntryStatus(t, rows) ==
  IF ActiveFor(ModuleOf[t]) # {} /\ FlowStatus(rows) = "APPROVED" THEN "APPROVED" ELSE "SUBMITTED"

SubmitEntries(T) ==
  /\ \A t \in T : Len(instances[t]) < MaxInstances
  /\ \E flows \in FlowsOf(T) :
       /\ instances' = [t \in Targets |-> IF t \in T THEN instances[t] \o flows[t] ELSE instances[t]]
       /\ entries' = [t \in Targets |-> IF t \in T THEN [entries[t] EXCEPT !.status = EntryStatus(t, flows[t])]
                                        ELSE entries[t]]
  /\ UNCHANGED <<workflows, txn, org>>

Submit_again(t) ==
  /\ entries[t].status \in EntryStatuses
  /\ SubmitEntries({t})
  /\ RecomputeUnflushed({entries[t].task})

Submit(t) ==
  /\ entries[t].status \in {"DRAFT", "REJECTED"}
  /\ SubmitEntries({t})
  /\ RecomputeUnflushed({entries[t].task})

Week(e, from, to, S) ==
  {t \in HasStatus(S) : Requester[t] = e /\ from <= entries[t].date /\ entries[t].date <= to}

\* It recomputes no hours.
SubmitWeek(e, from, to) ==
  LET T == Week(e, from, to, {"DRAFT", "REJECTED"}) IN
  /\ T # {}
  /\ SubmitEntries(T)
  /\ UNCHANGED actualHours

-----------------------------------------------------------------------------
(* What a manager does, without looking for an open flow *)

\* approve; reject with hours approves them.
Approve(t, hours) ==
  /\ \/ entries[t].status = "SUBMITTED"
     \/ entries[t].status = "APPROVED" /\ hours # entries[t].hours
  /\ entries' = [entries EXCEPT ![t].status = "APPROVED", ![t].hours = hours]
  /\ RecomputeUnflushed({entries[t].task})
  /\ UNCHANGED engine

Reject(t) ==
  /\ entries[t].status \in {"SUBMITTED", "APPROVED"}
  /\ entries' = WithStatus({t}, "REJECTED")
  /\ RecomputeUnflushed({entries[t].task})
  /\ UNCHANGED engine

\* approve_week, reject_week
DecideWeek(e, from, to, v) ==
  LET T == Week(e, from, to, {"SUBMITTED"}) IN
  /\ T # {} /\ \A t \in T : "direct" \in DecidedBy[t]
  /\ entries' = WithStatus(T, v)
  /\ RecomputeUnflushed({entries[t].task : t \in T})
  /\ UNCHANGED engine

-----------------------------------------------------------------------------
(* The engine's verdict *)

Verdict_keepsHours(t, v) ==
  IF v = "PENDING" \/ t \notin Stored(entries) THEN UNCHANGED <<entries, actualHours>>
  ELSE entries' = WithStatus({t}, v) /\ UNCHANGED actualHours

Verdict_unflushed(t, v) ==
  IF v = "PENDING" \/ t \notin Stored(entries) THEN UNCHANGED <<entries, actualHours>>
  ELSE entries' = WithStatus({t}, v) /\ RecomputeUnflushed({entries[t].task})

\* The entry's own status is not looked at; one that is gone is left alone.
Verdict(t, v) ==
  IF v = "PENDING" \/ t \notin Stored(entries) THEN UNCHANGED <<entries, actualHours>>
  ELSE entries' = WithStatus({t}, v) /\ RecomputeFlushed({entries[t].task})

ActWrite(w) == \E v \in Verdicts : ActCommit(w, v) /\ Verdict(txn[w].target, v)

Engine(w) ==
  \/ \E x \in Employees, t \in Targets : \E i \in DOMAIN instances[t], a \in {"APPROVED", "REJECTED"} :
       /\ "engine" \in DecidedBy[t]
       /\ ActRead(w, x, t, i, a) /\ UNCHANGED <<entries, actualHours>>
  \/ ActLook(w) /\ UNCHANGED <<entries, actualHours>>
  \/ ActWrite(w)

Abort(w) == AbortRequest(w) /\ UNCHANGED <<org, instances, entries, actualHours>>

Owner ==
  \/ \E T \in SUBSET Targets \ {{}} :
       \E new \in [T -> {e \in Entry : e.status = "DRAFT"}] : CreateBatch(new)
  \/ \E t \in Targets, d \in Dates, h \in Hours : Update(t, d, h)
  \/ \E t \in Targets : Delete(t) \/ Submit(t)
  \/ \E e \in {Requester[t] : t \in Targets}, from, to \in Dates : SubmitWeek(e, from, to)

Manager ==
  \/ \E t \in Targets : "direct" \in DecidedBy[t] /\ (Reject(t) \/ \E h \in Hours : Approve(t, h))
  \/ \E e \in {Requester[t] : t \in Targets}, from, to \in Dates, v \in {"APPROVED", "REJECTED"} :
       DecideWeek(e, from, to, v)

Init ==
  /\ EngineInit(StepLists, Charts)
  /\ entries = [t \in Targets |-> NoEntry]
  /\ actualHours = [k \in Tasks |-> 0]

Next == Owner \/ Manager \/ \E w \in Workers : Engine(w) \/ Abort(w)

Spec == Init /\ [][Next]_vars

-----------------------------------------------------------------------------
\* Entries and hours have the shape of their columns, one entry per owner, task and day.
SheetTypeOK ==
  /\ EngineTypeOK
  /\ entries \in [Targets -> Entry \cup {NoEntry, Deleted}]
  /\ actualHours \in [Tasks -> Nat]
  /\ KeysUnique(entries)

\* An entry only the engine decides has a level to act on exactly while it is submitted,
\* whatever rounds of rejection and resubmission it has been through: no approver of an
\* earlier round can still decide it.
OneRoundOpen ==
  \A t \in Targets : DecidedBy[t] = {"engine"} =>
    /\ OpenAt(t) # {} => entries[t].status = "SUBMITTED"
    /\ entries[t].status = "SUBMITTED" /\ ActiveFor(ModuleOf[t]) # {} => IndexesOf(t, {"PENDING"}) # {}

\* Work approved through the engine stays in its task's hours, however many stale SUMs
\* the requests on other entries of the task write later.
ApprovedWorkCounted ==
  \A k \in Tasks :
    actualHours[k] >= MapThenSumSet(LAMBDA t : entries[t].hours,
      {t \in HasStatus({"APPROVED"}) : /\ DecidedBy[t] = {"engine"} /\ entries[t].task = k
                                       /\ IndexesOf(t, {"APPROVED"}) # {}})

\* "Recompute task.actual_hours from SUBMITTED and APPROVED time entries only": true of
\* a task when one of its entries has just been deleted or decided by the engine.
HoursExact ==
  [][\A t \in Targets :
       (/\ t \in Stored(entries) /\ entries'[t].status # entries[t].status
        /\ entries'[t] = Deleted \/ txn' # txn)
       => actualHours'[entries[t].task] = Counted(entries', entries[t].task)]_vars

\* An entry is decided once per submission: with one mechanism for each, only a manager
\* takes back what was approved, and nothing is approved that was not submitted, by an
\* approver or by a flow without steps to take.
EntryHistory ==
  [][\A t \in Targets : entries'[t].status # entries[t].status =>
       <<entries[t].status, entries'[t].status>> \in
         {<<"NONE", "DRAFT">>, <<"DRAFT", "DELETED">>, <<"REJECTED", "DELETED">>,
          <<"SUBMITTED", "APPROVED">>, <<"SUBMITTED", "REJECTED">>}
           \cup ({"DRAFT", "REJECTED"} \X {"SUBMITTED", "APPROVED"})
           \cup (IF "direct" \in DecidedBy[t] THEN {<<"APPROVED", "REJECTED">>} ELSE {})]_vars

\* The rows keep their shape, their rounds and their hours, and their life.
SheetSound == [](SheetTypeOK /\ OneRoundOpen /\ ApprovedWorkCounted) /\ HoursExact /\ EntryHistory
=============================================================================
