----------------------------- MODULE OfficeProofs -----------------------------
(*****************************************************************************)
(* Proofs about TaskContinuity as it runs in MCOffice, for every number of   *)
(* employees, tasks, leaves and rows, and every set of operations: what each *)
(* step does to rows, risks and delegations, and from that one invariant.    *)
(*****************************************************************************)
EXTENDS MCOffice, FiniteSetTheorems, SequenceTheorems, TLAPS

-----------------------------------------------------------------------------
(* The invariant *)

Spans == WorkWindows \cup {WorkLeaveOf[l] : l \in WorkLeaves}
Dates == {w.from : w \in Spans} \cup {w.to : w \in Spans}
TaskRow == [status : Work!TaskStatuses, active : BOOLEAN, parent : WorkTasks \cup {None}, from : Dates, to : Dates]
Assignment == [task : WorkTasks, employee : WorkEmployees, status : Work!RowStatuses, from : Dates, to : Dates]
RiskRow == [row : Nat, leave : WorkLeaves, status : {"PENDING_MANAGER_ACTION", "RESOLVED"}]
Delegation == [task : WorkTasks, owner : WorkEmployees, delegate : WorkEmployees, status : {"ACTIVE", "COMPLETED"}]

TaskTypes ==
  /\ task \in [WorkTasks -> TaskRow \cup {Work!NoTask}]
  /\ \A t \in WorkTasks : Work!Exists(t) /\ task[t].parent # None => Work!Exists(task[t].parent)
RowTypes == rows \in Seq(Assignment) /\ \A i \in DOMAIN rows : Work!Exists(rows[i].task)
RiskTypes == risks \in Seq(RiskRow) /\ \A k \in DOMAIN risks : risks[k].row \in DOMAIN rows
DelegationTypes ==
  /\ delegations \in Seq(Delegation)
  /\ \A n \in DOMAIN delegations : \E i \in DOMAIN rows : rows[i].task = delegations[n].task
  /\ "decide" \notin workMode => delegations = <<>>
Typed == TaskTypes /\ RowTypes /\ RiskTypes /\ DelegationTypes

\* Nobody holds a task twice.
Single == "decide" \notin workMode => \A t \in WorkTasks : \A i, j \in Work!Held(t) : rows[i].employee = rows[j].employee => i = j

\* Each delegated row has an active delegation of its own.
Delegated(t) == {i \in DOMAIN rows : rows[i].task = t /\ rows[i].status = "DELEGATED"}
Active(t) == {n \in DOMAIN delegations : delegations[n].task = t /\ delegations[n].status = "ACTIVE"}
Pairing(f, D, A, ds, rs) ==
  /\ f \in [D -> A]
  /\ \A i, j \in D : f[i] = f[j] => i = j
  /\ \A i \in D : ds[f[i]].owner = rs[i].employee
Matched == \A t \in WorkTasks : \E f : Pairing(f, Delegated(t), Active(t), delegations, rows)

\* A task has more rows at work or away than delegations that end, or a child.
Staff(t) == {i \in DOMAIN rows : rows[i].task = t /\ rows[i].status \in {"ASSIGNED", "DELEGATED"}}
HasChild(t) == \E c \in WorkTasks : Work!Exists(c) /\ task[c].parent = t
Staffed ==
  "assign" \notin workMode =>
    \A t \in WorkTasks : (\E i \in DOMAIN rows : rows[i].task = t) =>
      HasChild(t) \/ Cardinality(Staff(t)) > Cardinality(Active(t))

-----------------------------------------------------------------------------
(* WorkTasks *)

LEMMA NoTaskApart == Work!NoTask \notin TaskRow /\ \A r \in TaskRow : r # Work!NoTask
BY DEF Work!NoTask, TaskRow, Work!TaskStatuses

LEMMA TaskWritten ==
  ASSUME TaskTypes, NEW t \in WorkTasks, NEW r \in TaskRow, task' = [task EXCEPT ![t] = r],
         r.parent # None => r.parent = t \/ Work!Exists(r.parent), Work!Exists(t) => r.parent = task[t].parent
  PROVE  /\ TaskTypes' /\ \A u \in WorkTasks : Work!Exists(u) => Work!Exists(u)' /\ task'[u].parent = task[u].parent
<1>1. task' \in [WorkTasks -> TaskRow \cup {Work!NoTask}] /\ task'[t] = r /\ \A u \in WorkTasks \ {t} : task'[u] = task[u]
  BY DEF TaskTypes
<1>2. \A u \in WorkTasks : Work!Exists(u) => Work!Exists(u)' /\ task'[u].parent = task[u].parent
  BY <1>1, NoTaskApart DEF Work!Exists
<1>3. \A u \in WorkTasks : Work!Exists(u) => task[u] \in TaskRow
  BY DEF TaskTypes, Work!Exists
<1>4. ASSUME NEW u \in WorkTasks, Work!Exists(u)', task'[u].parent # None PROVE Work!Exists(task[u].parent)'
  <2>1. CASE u = t
    <3>1. Work!Exists(t)'
      BY <1>1, NoTaskApart DEF Work!Exists
    <3>2. r.parent \in WorkTasks \cup {None}
      BY DEF TaskRow
    <3> QED BY <1>1, <1>2, <1>4, <2>1, <3>1, <3>2
  <2>2. CASE u # t
    <3>1. Work!Exists(u) /\ task'[u] = task[u]
      BY <1>1, <1>4, <2>2 DEF Work!Exists
    <3>2. task[u].parent \in WorkTasks \cup {None} /\ Work!Exists(task[u].parent)
      BY <1>3, <1>4, <3>1 DEF TaskTypes, TaskRow
    <3> QED BY <1>2, <1>4, <3>1, <3>2
  <2> QED BY <2>1, <2>2
<1> QED BY <1>1, <1>2, <1>4 DEF TaskTypes

LEMMA StatusWritten ==
  ASSUME TaskTypes, NEW t \in WorkTasks, Work!Exists(t), NEW s \in Work!TaskStatuses, task' = [task EXCEPT ![t].status = s]
  PROVE  TaskTypes' /\ \A u \in WorkTasks : Work!Exists(u) => Work!Exists(u)' /\ task'[u].parent = task[u].parent
<1>1. task[t] \in TaskRow
  BY DEF TaskTypes, Work!Exists
<1>2. PICK r : r = [task[t] EXCEPT !.status = s]
  OBVIOUS
<1>3. r \in TaskRow /\ r.parent = task[t].parent
  BY <1>1, <1>2 DEF TaskRow
<1>4. task' = [task EXCEPT ![t] = r]
  BY <1>2
<1>5. r.parent # None => Work!Exists(r.parent)
  BY <1>3 DEF TaskTypes
<1> QED BY <1>3, <1>4, <1>5, TaskWritten

LEMMA DatesOf ==
  /\ \A w \in WorkWindows : w.from \in Dates /\ w.to \in Dates
  /\ \A l \in WorkLeaves : WorkLeaveOf[l].from \in Dates /\ WorkLeaveOf[l].to \in Dates
BY DEF Dates, Spans

Parents == \A u \in WorkTasks : Work!Exists(u) => Work!Exists(u)' /\ task'[u].parent = task[u].parent

LEMMA SplitTasks ==
  ASSUME Typed, NEW k \in DOMAIN risks, NEW e, NEW c \in WorkTasks, Work!Split(k, e, c)
  PROVE  LET t == rows[risks[k].row].task IN
         TaskTypes' /\ Parents /\ t \in WorkTasks /\ Work!Exists(t) /\ Work!Exists(c)' /\ task'[c].parent = t
<1>1. PICK i \in DOMAIN rows : i = risks[k].row
  BY DEF Typed, RiskTypes
<1>a. rows[i] \in Assignment /\ Work!Exists(rows[i].task) /\ risks[k] \in RiskRow
  BY DEF Typed, RowTypes, RiskTypes
<1>2. PICK t \in WorkTasks : t = rows[i].task /\ Work!Exists(t)
  BY <1>a DEF Assignment
<1>3. PICK l \in WorkLeaves : l = risks[k].leave
  BY <1>a DEF RiskRow
<1>4. ~Work!Exists(c)
  BY DEF Work!Split
<1>5. task[t] \in TaskRow /\ c # t
  BY <1>2, <1>4 DEF Typed, TaskTypes, Work!Exists
<1>6. PICK r : r = [status |-> "NOT_STARTED", active |-> TRUE, parent |-> t, from |-> WorkLeaveOf[l].from, to |-> task[t].to]
  OBVIOUS
<1>7. r \in TaskRow /\ r.parent = t
  BY <1>3, <1>5, <1>6, DatesOf DEF TaskRow, Work!TaskStatuses
<1>8. PICK q : q = [task[t] EXCEPT !.status = "ON_HOLD"]
  OBVIOUS
<1>9. q \in TaskRow /\ q.parent = task[t].parent
  BY <1>5, <1>8 DEF TaskRow, Work!TaskStatuses
<1>10. task' = [task EXCEPT ![t].status = "ON_HOLD", ![c] = r]
  BY <1>1, <1>2, <1>3, <1>6 DEF Work!Split
<1>11. /\ task' \in [WorkTasks -> TaskRow \cup {Work!NoTask}] /\ task'[t] = q /\ task'[c] = r
       /\ \A u \in WorkTasks \ {t, c} : task'[u] = task[u]
  BY <1>5, <1>7, <1>8, <1>9, <1>10 DEF Typed, TaskTypes
<1>12. Parents
  BY <1>4, <1>9, <1>11, NoTaskApart, <1>7 DEF Work!Exists, Parents
<1>13. ASSUME NEW u \in WorkTasks, Work!Exists(u)', task'[u].parent # None PROVE Work!Exists(task[u].parent)'
  <2>1. CASE u = c
    BY <1>2, <1>7, <1>11, <1>12, <2>1 DEF Parents
  <2>2. CASE u # c
    <3>1. Work!Exists(u) /\ task'[u].parent = task[u].parent
      BY <1>2, <1>9, <1>11, <1>13, <2>2 DEF Work!Exists
    <3>2. task[u] \in TaskRow
      BY <3>1 DEF Typed, TaskTypes, Work!Exists
    <3>3. task[u].parent \in WorkTasks \cup {None} /\ Work!Exists(task[u].parent)
      BY <1>13, <3>1, <3>2 DEF Typed, TaskTypes, TaskRow
    <3> QED BY <1>12, <1>13, <3>1, <3>3 DEF Parents
  <2> QED BY <2>1, <2>2
<1>14. Work!Exists(c)' /\ task'[c].parent = t
  BY <1>7, <1>11, NoTaskApart DEF Work!Exists
<1> QED BY <1>1, <1>2, <1>11, <1>12, <1>13, <1>14 DEF TaskTypes

-----------------------------------------------------------------------------
(* Rows *)

LEMMA RowsAppended ==
  ASSUME NEW base \in Seq(Assignment), NEW r \in Assignment, rows' = Append(base, r)
  PROVE  /\ rows' \in Seq(Assignment) /\ Len(rows') = Len(base) + 1 /\ Len(base) \in Nat
         /\ DOMAIN rows' = 1 .. (Len(base) + 1) /\ DOMAIN base = 1 .. Len(base)
         /\ \A i \in DOMAIN base : rows'[i] = base[i]
         /\ rows'[Len(base) + 1] = r
OBVIOUS

LEMMA RowsCancelled ==
  ASSUME RowTypes, NEW S
  PROVE  /\ Work!Cancelled(S) \in Seq(Assignment) /\ Len(Work!Cancelled(S)) = Len(rows) /\ DOMAIN Work!Cancelled(S) = DOMAIN rows
         /\ \A i \in DOMAIN rows :
              /\ Work!Cancelled(S)[i].task = rows[i].task /\ Work!Cancelled(S)[i].employee = rows[i].employee
              /\ Work!Cancelled(S)[i].status = IF i \in S THEN "CANCELLED" ELSE rows[i].status
<1>1. DOMAIN rows = 1 .. Len(rows) /\ Len(rows) \in Nat
  BY DEF RowTypes
<1>2. ASSUME NEW i \in DOMAIN rows
      PROVE  /\ Work!Cancelled(S)[i] \in Assignment
             /\ Work!Cancelled(S)[i].task = rows[i].task /\ Work!Cancelled(S)[i].employee = rows[i].employee
             /\ Work!Cancelled(S)[i].status = IF i \in S THEN "CANCELLED" ELSE rows[i].status
  <2>1. PICK r \in Assignment : r = rows[i]
    BY DEF RowTypes
  <2>2. PICK q : q = [r EXCEPT !.status = "CANCELLED"]
    OBVIOUS
  <2>3. q \in Assignment /\ q.task = r.task /\ q.employee = r.employee /\ q.status = "CANCELLED"
    BY <2>2 DEF Assignment, Work!RowStatuses
  <2>4. Work!Cancelled(S)[i] = IF i \in S THEN q ELSE r
    BY <2>1, <2>2 DEF Work!Cancelled
  <2> QED BY <2>1, <2>3, <2>4
<1>3. DOMAIN Work!Cancelled(S) = 1 .. Len(rows)
  BY <1>1 DEF Work!Cancelled
<1>4. Work!Cancelled(S) = [i \in 1 .. Len(rows) |-> Work!Cancelled(S)[i]]
  BY <1>1 DEF Work!Cancelled
<1>5. Work!Cancelled(S) \in [1 .. Len(rows) -> Assignment]
  BY <1>1, <1>2, <1>4
<1>6. Work!Cancelled(S) \in Seq(Assignment) /\ Len(Work!Cancelled(S)) = Len(rows)
  BY <1>1, <1>3, <1>5
<1> QED BY <1>1, <1>2, <1>3, <1>6

\* R with row i of status s.
Restated(R, i, s) == [R EXCEPT ![i].status = s]

LEMMA RowRestated ==
  ASSUME NEW R \in Seq(Assignment), NEW i \in DOMAIN R, NEW s \in Work!RowStatuses
  PROVE  /\ Restated(R, i, s) \in Seq(Assignment) /\ Len(Restated(R, i, s)) = Len(R)
         /\ DOMAIN Restated(R, i, s) = DOMAIN R
         /\ \A j \in DOMAIN R :
              /\ Restated(R, i, s)[j].task = R[j].task /\ Restated(R, i, s)[j].employee = R[j].employee
              /\ Restated(R, i, s)[j].status = IF j = i THEN s ELSE R[j].status
<1>1. R[i] \in Assignment
  OBVIOUS
<1>2. PICK q : q = [R[i] EXCEPT !.status = s]
  OBVIOUS
<1>3. q \in Assignment /\ q.task = R[i].task /\ q.employee = R[i].employee /\ q.status = s
  BY <1>1, <1>2 DEF Assignment
<1>4. Restated(R, i, s) = [R EXCEPT ![i] = q]
  BY <1>2 DEF Restated
<1>5. [R EXCEPT ![i] = q] \in Seq(Assignment) /\ Len([R EXCEPT ![i] = q]) = Len(R) /\ DOMAIN [R EXCEPT ![i] = q] = DOMAIN R
  BY <1>3
<1>6. \A j \in DOMAIN R : [R EXCEPT ![i] = q][j] = IF j = i THEN q ELSE R[j]
  BY <1>3
<1> QED BY <1>3, <1>4, <1>5, <1>6

-----------------------------------------------------------------------------
(* What a step does to the rows, the risks and the delegations *)

Kept ==
  /\ workMode' = workMode /\ Parents
  /\ \A i \in DOMAIN rows : i \in DOMAIN rows' /\ rows'[i].task = rows[i].task /\ rows'[i].employee = rows[i].employee

Grown(n) == n \notin DOMAIN rows /\ DOMAIN rows' = DOMAIN rows \cup {n}

\* No row is added, and some are cancelled.
Fewer ==
  /\ delegations' = delegations /\ DOMAIN rows' = DOMAIN rows
  /\ \A i \in DOMAIN rows : rows'[i].status = rows[i].status \/ ("assign" \in workMode /\ rows'[i].status = "CANCELLED")

\* The row n of somebody who has no other of the task.
Given(n) ==
  /\ delegations' = delegations /\ Grown(n)
  /\ rows'[n].status = "ASSIGNED"
  /\ \A i \in DOMAIN rows :
       /\ rows'[i].status = rows[i].status \/ ("assign" \in workMode /\ rows'[i].status = "CANCELLED")
       /\ rows[i].task = rows'[n].task /\ rows[i].employee = rows'[n].employee => rows'[i].status = "CANCELLED"
  /\ "assign" \notin workMode => \A i \in DOMAIN rows : rows[i].task # rows'[n].task

\* The row n takes over from the row i, or works on a child of its task.
TakenOver(i, n) ==
  /\ delegations' = delegations /\ Grown(n) /\ "decide" \in workMode /\ i \in DOMAIN rows
  /\ rows'[n].status = "ASSIGNED" /\ rows'[i].status = "CANCELLED"
  /\ \A j \in DOMAIN rows \ {i} : rows'[j].status = rows[j].status
  /\ \/ rows'[n].task = rows[i].task
     \/ (\A j \in DOMAIN rows : rows[j].task # rows'[n].task) /\ HasChild(rows[i].task)'

\* The row n works for the row i while a delegation lasts.
GivenAway(i, n) ==
  /\ Grown(n) /\ "decide" \in workMode /\ i \in DOMAIN rows
  /\ rows'[n].status = "ASSIGNED" /\ rows'[n].task = rows[i].task /\ rows'[i].status = "DELEGATED"
  /\ \A j \in DOMAIN rows \ {i} : rows'[j].status = rows[j].status
  /\ \E d \in Delegation : /\ d.task = rows[i].task /\ d.owner = rows[i].employee /\ d.status = "ACTIVE"
                           /\ delegations' = Append(delegations, d)

\* The rows I come back, and the rows J are finished unless they are the same.
BackTo(d, J, I) ==
  /\ (\A x, y \in J : x = y) /\ (\A x, y \in I : x = y)
  /\ \A x \in J : rows[x].task = d.task /\ (x \notin I => rows'[x].status = "COMPLETED")
  /\ \A x \in I : /\ rows[x].task = d.task /\ rows[x].employee = d.owner
                  /\ rows[x].status = "DELEGATED" /\ rows'[x].status = "ASSIGNED"
  /\ \A x \in DOMAIN rows \ (J \cup I) : rows'[x].status = rows[x].status
  /\ I = {} => \A x \in DOMAIN rows :
       ~(rows[x].task = d.task /\ rows[x].employee = d.owner /\ rows[x].status = "DELEGATED")

\* The delegation n ends: one row at most is finished, and one comes back if it can.
GivenBack(n) ==
  /\ n \in DOMAIN delegations /\ delegations[n].status = "ACTIVE"
  /\ delegations' = [delegations EXCEPT ![n].status = "COMPLETED"]
  /\ DOMAIN rows' = DOMAIN rows
  /\ \E J, I \in SUBSET DOMAIN rows : BackTo(delegations[n], J, I)

Staffing ==
  \/ Fewer \/ (\E n \in Nat : Given(n)) \/ (\E i, n \in Nat : TakenOver(i, n)) \/ (\E i, n \in Nat : GivenAway(i, n))
  \/ (\E n \in Nat : GivenBack(n))

RisksKept ==
  /\ DOMAIN risks' = DOMAIN risks
  /\ \A k \in DOMAIN risks : risks'[k].row = risks[k].row /\ risks'[k].leave = risks[k].leave
RiskAdded ==
  \E i \in DOMAIN rows' \ DOMAIN rows, l \in WorkLeaves :
    rows'[i].employee = WorkLeaveOf[l].employee /\ risks' = Append(risks, Work!Risk(i, l))
RisksRaised == \E l \in WorkLeaves : rows' = rows /\ risks' = risks \o Work!SetToSeq({Work!Risk(i, l) : i \in Work!Hit(l)})
Risked == RisksKept \/ RiskAdded \/ RisksRaised

Classified == Typed' /\ Kept /\ Staffing /\ Risked

LEMMA RowTypesKept ==
  ASSUME RowTypes, Kept, rows' = rows PROVE RowTypes'
<1>1. ASSUME NEW i \in DOMAIN rows PROVE Work!Exists(rows[i].task)'
  <2>1. rows[i] \in Assignment /\ Work!Exists(rows[i].task)
    BY DEF RowTypes
  <2>2. PICK t \in WorkTasks : t = rows[i].task
    BY <2>1 DEF Assignment
  <2> QED BY <2>1, <2>2 DEF Kept, Parents
<1> QED BY <1>1 DEF RowTypes

LEMMA RowTypesWritten ==
  ASSUME RowTypes, Kept, rows' \in Seq(Assignment),
         \A n \in DOMAIN rows' \ DOMAIN rows : Work!Exists(rows[n].task)'
  PROVE  RowTypes'
<1>1. ASSUME NEW i \in DOMAIN rows PROVE Work!Exists(rows[i].task)'
  <2>1. rows[i] \in Assignment /\ Work!Exists(rows[i].task)
    BY DEF RowTypes
  <2>2. PICK t \in WorkTasks : t = rows[i].task
    BY <2>1 DEF Assignment
  <2>3. rows'[i].task = t
    BY <2>2 DEF Kept
  <2>4. Work!Exists(t)'
    BY <2>1, <2>2 DEF Kept, Parents
  <2> QED BY <2>3, <2>4 DEF Work!Exists
<1> QED BY <1>1 DEF RowTypes

LEMMA RisksUnchanged ==
  ASSUME RiskTypes, Kept, risks' = risks PROVE RiskTypes' /\ RisksKept
BY DEF RiskTypes, Kept, RisksKept

LEMMA RisksResolved ==
  ASSUME RiskTypes, Kept, NEW k \in DOMAIN risks, Work!Resolved(k) PROVE RiskTypes' /\ RisksKept
<1>1. risks[k] \in RiskRow
  BY DEF RiskTypes
<1>2. PICK q : q = [risks[k] EXCEPT !.status = "RESOLVED"]
  OBVIOUS
<1>3. q \in RiskRow /\ q.row = risks[k].row /\ q.leave = risks[k].leave
  BY <1>1, <1>2 DEF RiskRow
<1>4. risks' = [risks EXCEPT ![k] = q]
  BY <1>2 DEF Work!Resolved
<1>5. risks' \in Seq(RiskRow) /\ DOMAIN risks' = DOMAIN risks /\ \A m \in DOMAIN risks : risks'[m] = IF m = k THEN q ELSE risks[m]
  BY <1>3, <1>4 DEF RiskTypes
<1> QED BY <1>3, <1>5 DEF RiskTypes, Kept, RisksKept

LEMMA RiskAppended ==
  ASSUME RiskTypes, Kept, NEW i \in Nat, i \in DOMAIN rows', i \notin DOMAIN rows, NEW l \in WorkLeaves,
         rows'[i].employee = WorkLeaveOf[l].employee, risks' = Append(risks, Work!Risk(i, l))
  PROVE  RiskTypes' /\ RiskAdded
<1>1. PICK q : q = Work!Risk(i, l)
  OBVIOUS
<1>2. q \in RiskRow /\ q.row = i
  BY <1>1 DEF Work!Risk, RiskRow
<1>3. risks' = Append(risks, q)
  BY <1>1
<1>4. /\ risks' \in Seq(RiskRow) /\ DOMAIN risks' = 1 .. (Len(risks) + 1) /\ DOMAIN risks = 1 .. Len(risks) /\ Len(risks) \in Nat
      /\ risks'[Len(risks) + 1] = q /\ \A k \in DOMAIN risks : risks'[k] = risks[k]
  BY <1>2, <1>3 DEF RiskTypes
<1>5. \A k \in DOMAIN risks' : risks'[k].row \in DOMAIN rows'
  <2> TAKE k \in DOMAIN risks'
  <2>1. k \in DOMAIN risks \/ k = Len(risks) + 1
    BY <1>4
  <2> QED BY <1>2, <1>4, <2>1 DEF RiskTypes, Kept
<1>6. RiskAdded
  BY DEF RiskAdded
<1> QED BY <1>4, <1>5, <1>6 DEF RiskTypes

LEMMA DelegationsUnchanged ==
  ASSUME DelegationTypes, Kept, delegations' = delegations PROVE DelegationTypes'
<1>1. ASSUME NEW n \in DOMAIN delegations PROVE \E i \in DOMAIN rows' : rows'[i].task = delegations[n].task
  BY DEF DelegationTypes, Kept
<1> QED BY <1>1 DEF DelegationTypes, Kept

LEMMA SeqOfSet ==
  ASSUME NEW S, IsFiniteSet(S)
  PROVE  Work!SetToSeq(S) \in [1 .. Cardinality(S) -> S] /\ Cardinality(S) \in Nat
         /\ \A a, b \in 1 .. Cardinality(S) : Work!SetToSeq(S)[a] = Work!SetToSeq(S)[b] => a = b
<1>1. Cardinality(S) \in Nat /\ ExistsBijection(1 .. Cardinality(S), S)
  BY FS_CardinalityType
<1>2. \E f \in [1 .. Cardinality(S) -> S] : Work!IsInjective(f)
  BY <1>1 DEF ExistsBijection, Bijection, Injection, IsInjective, Work!IsInjective
<1>3. Work!SetToSeq(S) \in [1 .. Cardinality(S) -> S] /\ Work!IsInjective(Work!SetToSeq(S))
  BY <1>2 DEF Work!SetToSeq, Work!Cardinality, Cardinality
<1> QED BY <1>1, <1>3 DEF Work!IsInjective

Found(l) == {Work!Risk(i, l) : i \in Work!Hit(l)}

LEMMA RisksFound ==
  ASSUME Typed, NEW l \in WorkLeaves
  PROVE  IsFiniteSet(Found(l)) /\ \A r \in Found(l) : r \in RiskRow /\ r.row \in Work!Hit(l) /\ r.leave = l /\ r.row \in DOMAIN rows
<1>1. Work!Hit(l) \subseteq DOMAIN rows /\ DOMAIN rows = 1 .. Len(rows) /\ Len(rows) \in Nat
  BY DEF Work!Hit, Typed, RowTypes
<1>a. IsFiniteSet(DOMAIN rows)
  BY <1>1, FS_Interval
<1>2. IsFiniteSet(Work!Hit(l))
  BY <1>1, <1>a, FS_Subset
<1>3. \A r \in Found(l) : r = Work!Risk(r.row, l) /\ r.row \in Work!Hit(l) /\ r.leave = l
  BY DEF Found, Work!Risk
<1>4. \A r \in Found(l) : r \in RiskRow /\ r.row \in DOMAIN rows
  BY <1>1, <1>3 DEF Work!Risk, RiskRow
<1>5. PICK f : f = [r \in Found(l) |-> r.row]
  OBVIOUS
<1>6. f \in [Found(l) -> Work!Hit(l)]
  BY <1>3, <1>5
<1>7. \A a, b \in Found(l) : f[a] = f[b] => a = b
  BY <1>3, <1>5
<1>8. f \in Injection(Found(l), Work!Hit(l))
  BY <1>6, <1>7 DEF Injection, IsInjective
<1>9. IsFiniteSet(Found(l))
  BY <1>2, <1>8, FS_Injection
<1> QED BY <1>3, <1>4, <1>9

\* The risks a leave adds are of its employee's rows, one each, and none had one.
LEMMA RaisedRisks ==
  ASSUME Typed, NEW l \in WorkLeaves, risks' = risks \o Work!SetToSeq(Found(l))
  PROVE  /\ risks' \in Seq(RiskRow) /\ DOMAIN risks = 1 .. Len(risks) /\ Len(risks) \in Nat
         /\ \A k \in DOMAIN risks : k \in DOMAIN risks' /\ risks'[k] = risks[k]
         /\ \A k \in DOMAIN risks' \ DOMAIN risks : risks'[k].row \in Work!Hit(l) /\ risks'[k].leave = l /\ risks'[k].row \in DOMAIN rows
         /\ \A j, k \in DOMAIN risks' \ DOMAIN risks : risks'[j].row = risks'[k].row => j = k
<1>1. PICK q : q = Work!SetToSeq(Found(l))
  OBVIOUS
<1>2. PICK n : n = Cardinality(Found(l))
  OBVIOUS
<1>3. q \in [1 .. n -> Found(l)] /\ n \in Nat /\ \A a, b \in 1 .. n : q[a] = q[b] => a = b
  BY <1>1, <1>2, RisksFound, SeqOfSet
<1>4. \A i \in 1 .. n : q[i] \in RiskRow /\ q[i].row \in Work!Hit(l) /\ q[i].leave = l /\ q[i].row \in DOMAIN rows /\ q[i] = Work!Risk(q[i].row, l)
  <2>1. \A r \in Found(l) : r = Work!Risk(r.row, l)
    BY DEF Found, Work!Risk
  <2> QED BY <1>3, <2>1, RisksFound
<1>5. q \in [1 .. n -> RiskRow]
  BY <1>3, <1>4
<1>6. q \in Seq(RiskRow) /\ Len(q) = n
  BY <1>3, <1>5
<1>7. risks \in Seq(RiskRow)
  BY DEF Typed, RiskTypes
<1>8. risks' = risks \o q
  BY <1>1
<1>a. /\ risks \o q \in Seq(RiskRow) /\ Len(risks \o q) = Len(risks) + Len(q)
      /\ \A i \in 1 .. Len(risks) + Len(q) : (risks \o q)[i] = IF i <= Len(risks) THEN risks[i] ELSE q[i - Len(risks)]
  BY <1>6, <1>7, ConcatProperties
<1>b. /\ risks' \in Seq(RiskRow) /\ Len(risks') = Len(risks) + n /\ Len(risks) \in Nat
      /\ DOMAIN risks = 1 .. Len(risks) /\ DOMAIN risks' = 1 .. (Len(risks) + n)
  BY <1>6, <1>7, <1>8, <1>a
<1>c. \A k \in 1 .. (Len(risks) + n) : risks'[k] = IF k <= Len(risks) THEN risks[k] ELSE q[k - Len(risks)]
  BY <1>3, <1>6, <1>8, <1>a
<1>9. /\ risks' \in Seq(RiskRow) /\ DOMAIN risks = 1 .. Len(risks) /\ Len(risks) \in Nat
      /\ DOMAIN risks' = 1 .. (Len(risks) + n) /\ \A k \in 1 .. Len(risks) : risks'[k] = risks[k]
      /\ \A k \in (Len(risks) + 1) .. (Len(risks) + n) : risks'[k] = q[k - Len(risks)]
  BY <1>3, <1>b, <1>c
<1>10. \A k \in DOMAIN risks' \ DOMAIN risks : k - Len(risks) \in 1 .. n /\ risks'[k] = q[k - Len(risks)]
  BY <1>3, <1>9
<1>11. \A k \in DOMAIN risks' \ DOMAIN risks : risks'[k].row \in Work!Hit(l) /\ risks'[k].leave = l /\ risks'[k].row \in DOMAIN rows
  BY <1>4, <1>10
<1>12. ASSUME NEW j \in DOMAIN risks' \ DOMAIN risks, NEW k \in DOMAIN risks' \ DOMAIN risks, risks'[j].row = risks'[k].row
       PROVE  j = k
  <2>1. q[j - Len(risks)] = q[k - Len(risks)]
    BY <1>4, <1>10, <1>12
  <2>2. j - Len(risks) = k - Len(risks)
    BY <1>3, <1>10, <2>1
  <2> QED BY <1>9, <2>2
<1>13. \A k \in DOMAIN risks : k \in DOMAIN risks' /\ risks'[k] = risks[k]
  BY <1>3, <1>9
<1> QED BY <1>9, <1>11, <1>12, <1>13

LEMMA ApproveLeaveClassified ==
  ASSUME Typed, NEW l \in WorkLeaves, Work!ApproveLeave(l) PROVE Classified
<1>1. /\ task' = task /\ workMode' = workMode /\ rows' = rows /\ delegations' = delegations /\ risks' = risks \o Work!SetToSeq(Found(l))
  BY DEF Work!ApproveLeave, Found
<1>2. TaskTypes' /\ Parents
  BY <1>1 DEF Typed, TaskTypes, Parents, Work!Exists
<1>3. Kept /\ Fewer
  BY <1>1, <1>2 DEF Kept, Fewer
<1>4. RowTypes' /\ DelegationTypes'
  BY <1>1, <1>3, RowTypesKept, DelegationsUnchanged DEF Typed
<1>5. RiskTypes'
  <2>1. \A k \in DOMAIN risks' : risks'[k].row \in DOMAIN rows
    BY <1>1, RaisedRisks DEF Typed, RiskTypes
  <2>2. risks' \in Seq(RiskRow)
    BY <1>1, RaisedRisks
  <2> QED BY <1>1, <2>1, <2>2 DEF RiskTypes
<1>6. RisksRaised
  BY <1>1 DEF RisksRaised, Found
<1> QED BY <1>2, <1>3, <1>4, <1>5, <1>6 DEF Classified, Typed, Staffing, Risked

LEMMA QuietClassified ==
  ASSUME Typed, TaskTypes', Parents, workMode' = workMode, rows' = rows, delegations' = delegations,
         risks' = risks \/ \E k \in DOMAIN risks : Work!Resolved(k)
  PROVE  Classified
<1>1. Kept /\ Fewer
  BY DEF Kept, Fewer
<1>2. RowTypes' /\ DelegationTypes'
  BY <1>1, RowTypesKept, DelegationsUnchanged DEF Typed
<1>3. RiskTypes' /\ RisksKept
  BY <1>1, RisksUnchanged, RisksResolved DEF Typed
<1> QED BY <1>1, <1>2, <1>3 DEF Classified, Typed, Staffing, Risked

LEMMA TasksKept ==
  ASSUME Typed, task' = task PROVE TaskTypes' /\ Parents
BY DEF Typed, TaskTypes, Parents, Work!Exists

\* The steps that leave the rows alone.
LEMMA CancelLeaveClassified == ASSUME Typed, NEW l \in WorkLeaves, Work!CancelLeave(l) PROVE Classified
<1>1. task' = task /\ workMode' = workMode /\ rows' = rows /\ delegations' = delegations /\ risks' = risks
  BY DEF Work!CancelLeave
<1> QED BY <1>1, TasksKept, QuietClassified

LEMMA StatusClassified ==
  ASSUME Typed, NEW t \in WorkTasks, NEW s \in Work!TaskStatuses, Work!SetStatus(t, s) \/ Work!ResumeTask(t, s) PROVE Classified
<1>1. /\ Work!Exists(t) /\ task' = [task EXCEPT ![t].status = s] /\ workMode' = workMode /\ rows' = rows
      /\ delegations' = delegations /\ risks' = risks
  BY DEF Work!SetStatus, Work!ResumeTask
<1>2. TaskTypes' /\ Parents
  BY <1>1, StatusWritten DEF Typed, Parents
<1> QED BY <1>1, <1>2, QuietClassified

LEMMA DeleteTaskClassified == ASSUME Typed, NEW t \in WorkTasks, Work!DeleteTask(t) PROVE Classified
<1>1. /\ Work!Exists(t) /\ task' = [task EXCEPT ![t].active = FALSE] /\ workMode' = workMode /\ rows' = rows
      /\ delegations' = delegations /\ risks' = risks
  BY DEF Work!DeleteTask
<1>2. task[t] \in TaskRow
  BY <1>1 DEF Typed, TaskTypes, Work!Exists
<1>3. PICK r : r = [task[t] EXCEPT !.active = FALSE]
  OBVIOUS
<1>4. r \in TaskRow /\ r.parent = task[t].parent
  BY <1>2, <1>3 DEF TaskRow
<1>5. task' = [task EXCEPT ![t] = r]
  BY <1>1, <1>3
<1>6. r.parent # None => Work!Exists(r.parent)
  BY <1>1, <1>4 DEF Typed, TaskTypes
<1>7. TaskTypes' /\ Parents
  BY <1>4, <1>5, <1>6, TaskWritten DEF Typed, Parents
<1> QED BY <1>1, <1>7, QuietClassified

LEMMA ContinueClassified == ASSUME Typed, NEW k \in DOMAIN risks, Work!Continue(k) PROVE Classified
<1>1. task' = task /\ workMode' = workMode /\ rows' = rows /\ delegations' = delegations /\ Work!Resolved(k)
  BY DEF Work!Continue
<1> QED BY <1>1, TasksKept, QuietClassified

LEMMA RiskedTask ==
  ASSUME Typed, NEW k \in DOMAIN risks
  PROVE  /\ risks[k].row \in DOMAIN rows /\ risks[k].row \in Nat /\ rows[risks[k].row] \in Assignment
         /\ rows[risks[k].row].task \in WorkTasks /\ Work!Exists(rows[risks[k].row].task)
         /\ risks[k].leave \in WorkLeaves
<1>1. PICK i \in DOMAIN rows : i = risks[k].row
  BY DEF Typed, RiskTypes
<1>2. rows[i] \in Assignment /\ Work!Exists(rows[i].task) /\ risks[k] \in RiskRow
  BY DEF Typed, RowTypes, RiskTypes
<1> QED BY <1>1, <1>2 DEF Assignment, RiskRow

LEMMA PauseClassified == ASSUME Typed, NEW k \in DOMAIN risks, Work!Pause(k) PROVE Classified
<1>1. PICK t \in WorkTasks : t = rows[risks[k].row].task /\ Work!Exists(t)
  BY RiskedTask
<1>2. task' = [task EXCEPT ![t].status = "ON_HOLD"] /\ workMode' = workMode /\ rows' = rows /\ delegations' = delegations /\ Work!Resolved(k)
  BY <1>1 DEF Work!Pause
<1>3. TaskTypes' /\ Parents
  <2>1. "ON_HOLD" \in Work!TaskStatuses
    BY DEF Work!TaskStatuses
  <2> QED BY <1>1, <1>2, <2>1, StatusWritten DEF Typed, Parents
<1> QED BY <1>2, <1>3, QuietClassified

-----------------------------------------------------------------------------
(* The steps that add a row *)

\* Base has the rows, with other statuses.
Rewritten(base) ==
  /\ base \in Seq(Assignment) /\ Len(base) = Len(rows) /\ DOMAIN base = DOMAIN rows
  /\ \A i \in DOMAIN rows : base[i].task = rows[i].task /\ base[i].employee = rows[i].employee

LEMMA RowsThemselves == ASSUME Typed PROVE Rewritten(rows)
BY DEF Typed, RowTypes, Rewritten

LEMMA RowsGrown ==
  ASSUME Typed, workMode' = workMode, Parents, NEW base, Rewritten(base), NEW r \in Assignment, Work!Exists(r.task)',
         rows' = Append(base, r), NEW n, n = Len(rows) + 1
  PROVE  /\ n \in Nat /\ n = Len(base) + 1 /\ Kept /\ Grown(n) /\ rows'[n] = r /\ RowTypes'
         /\ \A i \in DOMAIN rows : rows'[i] = base[i]
<1>1. /\ rows' \in Seq(Assignment) /\ DOMAIN rows' = 1 .. (Len(base) + 1) /\ DOMAIN base = 1 .. Len(base) /\ Len(base) \in Nat
      /\ \A i \in DOMAIN base : rows'[i] = base[i]
      /\ rows'[Len(base) + 1] = r
  BY RowsAppended DEF Rewritten
<1>2. n \in Nat /\ n = Len(base) + 1 /\ rows'[n] = r /\ DOMAIN rows = 1 .. Len(base)
  BY <1>1 DEF Rewritten
<1>3. \A i \in DOMAIN rows : rows'[i] = base[i]
  BY <1>1 DEF Rewritten
<1>4. Grown(n)
  BY <1>1, <1>2 DEF Grown
<1>5. Kept
  BY <1>3, <1>4 DEF Kept, Grown, Rewritten
<1>6. \A m \in DOMAIN rows' \ DOMAIN rows : rows'[m] = r
  BY <1>2, <1>4 DEF Grown
<1>7. \A m \in DOMAIN rows' \ DOMAIN rows : Work!Exists(rows[m].task)'
  BY <1>6 DEF Work!Exists
<1>8. RowTypes'
  BY <1>1, <1>5, <1>7, RowTypesWritten DEF Typed
<1> QED BY <1>2, <1>3, <1>4, <1>5, <1>8

LEMMA RowAdded ==
  ASSUME Typed, workMode' = workMode, Parents, NEW base, Rewritten(base), NEW r \in Assignment, Work!Exists(r.task)', Work!AddRow(base, r),
         NEW n, n = Len(rows) + 1
  PROVE  /\ n \in Nat /\ Kept /\ Grown(n) /\ rows'[n] = r /\ RowTypes' /\ RiskTypes' /\ Risked
         /\ \A i \in DOMAIN rows : rows'[i] = base[i]
<1>1. rows' = Append(base, r)
  BY DEF Work!AddRow
<1>2. /\ n \in Nat /\ n = Len(base) + 1 /\ Kept /\ Grown(n) /\ rows'[n] = r /\ RowTypes'
      /\ \A i \in DOMAIN rows : rows'[i] = base[i]
  BY <1>1, RowsGrown
<1>3. RiskTypes' /\ Risked
  <2>1. CASE risks' = risks
    BY <1>2, <2>1, RisksUnchanged DEF Typed, Risked
  <2>2. ASSUME NEW l \in Work!InTheWay(r), risks' = Append(risks, Work!Risk(n, l)) PROVE RiskTypes' /\ Risked
    <3>1. l \in WorkLeaves /\ WorkLeaveOf[l].employee = r.employee
      BY <2>2 DEF Work!InTheWay
    <3>2. n \in DOMAIN rows' /\ n \notin DOMAIN rows
      BY <1>2 DEF Grown
    <3> QED BY <1>2, <2>2, <3>1, <3>2, RiskAppended DEF Typed, Risked
  <2>3. risks' = risks \/ \E l \in Work!InTheWay(r) : risks' = Append(risks, Work!Risk(n, l))
    BY <1>2 DEF Work!AddRow
  <2> QED BY <2>1, <2>2, <2>3
<1> QED BY <1>2, <1>3

LEMMA RowOf ==
  ASSUME NEW t \in WorkTasks, NEW e \in WorkEmployees, NEW w, w.from \in Dates, w.to \in Dates
  PROVE  /\ Work!Row(t, e, w) \in Assignment /\ Work!Row(t, e, w).task = t /\ Work!Row(t, e, w).employee = e
         /\ Work!Row(t, e, w).status = "ASSIGNED"
BY DEF Work!Row, Assignment, Work!RowStatuses

LEMMA CreateTaskClassified ==
  ASSUME Typed, NEW t \in WorkTasks, NEW w \in WorkWindows, NEW e \in WorkEmployees \cup {None}, Work!CreateTask(t, w, e) PROVE Classified
<1>1. PICK r : r = [status |-> "NOT_STARTED", active |-> TRUE, parent |-> None, from |-> w.from, to |-> w.to]
  OBVIOUS
<1>2. r \in TaskRow /\ r.parent = None
  BY <1>1, DatesOf DEF TaskRow, Work!TaskStatuses
<1>3. ~Work!Exists(t) /\ task' = [task EXCEPT ![t] = r] /\ workMode' = workMode /\ delegations' = delegations
  BY <1>1 DEF Work!CreateTask
<1>4. TaskTypes' /\ Parents
  BY <1>2, <1>3, TaskWritten DEF Typed, Parents
<1>5. Work!Exists(t)'
  BY <1>2, <1>3, NoTaskApart DEF Typed, TaskTypes, Work!Exists
<1>6. CASE rows' = rows /\ risks' = risks
  BY <1>3, <1>4, <1>6, QuietClassified
<1>7. ASSUME e \in WorkEmployees, Work!AddRow(rows, Work!Row(t, e, w)) PROVE Classified
  <2>1. PICK q : q = Work!Row(t, e, w)
    OBVIOUS
  <2>2. q \in Assignment /\ q.task = t /\ q.employee = e /\ q.status = "ASSIGNED"
    BY <1>7, <2>1, DatesOf, RowOf
  <2>3. Work!AddRow(rows, q) /\ Work!Exists(q.task)'
    BY <1>5, <1>7, <2>1, <2>2 DEF Work!Exists
  <2>4. PICK n : n = Len(rows) + 1
    OBVIOUS
  <2>5. /\ n \in Nat /\ Kept /\ Grown(n) /\ rows'[n] = q /\ RowTypes' /\ RiskTypes' /\ Risked
        /\ \A i \in DOMAIN rows : rows'[i] = rows[i]
    BY <1>3, <1>4, <2>2, <2>3, <2>4, RowsThemselves, RowAdded
  <2>6. DelegationTypes'
    BY <1>3, <2>5, DelegationsUnchanged DEF Typed
  <2>7. \A i \in DOMAIN rows : rows[i].task # t
    BY <1>3 DEF Typed, RowTypes
  <2>8. Given(n)
    BY <1>3, <2>2, <2>5, <2>7 DEF Given
  <2> QED BY <1>4, <2>5, <2>6, <2>8 DEF Classified, Typed, Staffing
<1>8. (rows' = rows /\ risks' = risks) \/ (e \in WorkEmployees /\ Work!AddRow(rows, Work!Row(t, e, w)))
  BY DEF Work!CreateTask
<1> QED BY <1>6, <1>7, <1>8

\* A step with which e has a row of t, and no other that is not cancelled.
LEMMA AssigneeClassified ==
  ASSUME Typed, "assign" \in workMode, NEW t \in WorkTasks, NEW e \in WorkEmployees, Work!Exists(t), task' = task, workMode' = workMode,
         delegations' = delegations, NEW base, Rewritten(base),
         \A i \in DOMAIN rows : base[i].status = rows[i].status \/ base[i].status = "CANCELLED",
         \A i \in DOMAIN rows : rows[i].task = t /\ rows[i].employee = e => base[i].status = "CANCELLED",
         \/ Work!AddRow(base, Work!Row(t, e, task[t]))
         \/ rows' = Append(base, Work!Row(t, e, task[t])) /\ risks' = risks
  PROVE  Classified
<1>1. TaskTypes' /\ Parents /\ Work!Exists(t)'
  BY TasksKept DEF Work!Exists
<1>2. task[t] \in TaskRow
  BY DEF Typed, TaskTypes, Work!Exists
<1>3. PICK q : q = Work!Row(t, e, task[t])
  OBVIOUS
<1>4. q \in Assignment /\ q.task = t /\ q.employee = e /\ q.status = "ASSIGNED"
  BY <1>2, <1>3, RowOf DEF TaskRow
<1>5. Work!Exists(q.task)'
  BY <1>1, <1>4
<1>6. PICK n : n = Len(rows) + 1
  OBVIOUS
<1>7. /\ n \in Nat /\ Kept /\ Grown(n) /\ rows'[n] = q /\ RowTypes' /\ RiskTypes' /\ Risked
      /\ \A i \in DOMAIN rows : rows'[i] = base[i]
  <2>1. CASE Work!AddRow(base, q)
    BY <1>1, <1>4, <1>5, <1>6, <2>1, RowAdded
  <2>2. CASE rows' = Append(base, q) /\ risks' = risks
    <3>1. /\ n \in Nat /\ Kept /\ Grown(n) /\ rows'[n] = q /\ RowTypes' /\ \A i \in DOMAIN rows : rows'[i] = base[i]
      BY <1>1, <1>4, <1>5, <1>6, <2>2, RowsGrown
    <3> QED BY <2>2, <3>1, RisksUnchanged DEF Typed, Risked
  <2> QED BY <1>3, <2>1, <2>2
<1>8. DelegationTypes'
  BY <1>7, DelegationsUnchanged DEF Typed
<1>9. Given(n)
  BY <1>4, <1>7 DEF Given
<1> QED BY <1>1, <1>7, <1>8, <1>9 DEF Classified, Typed, Staffing

LEMMA CancelledClassified ==
  ASSUME Typed, "assign" \in workMode, task' = task, workMode' = workMode, delegations' = delegations, risks' = risks,
         NEW S, rows' = Work!Cancelled(S)
  PROVE  Classified
<1>1. TaskTypes' /\ Parents
  BY TasksKept
<1>2. /\ rows' \in Seq(Assignment) /\ DOMAIN rows' = DOMAIN rows
      /\ \A i \in DOMAIN rows :
           /\ rows'[i].task = rows[i].task /\ rows'[i].employee = rows[i].employee
           /\ rows'[i].status = rows[i].status \/ rows'[i].status = "CANCELLED"
  BY RowsCancelled DEF Typed
<1>a. Kept
  BY <1>1, <1>2 DEF Kept
<1>b. Fewer
  BY <1>2 DEF Fewer
<1>3. Kept /\ Fewer
  BY <1>a, <1>b
<1>4. RowTypes' /\ RiskTypes' /\ DelegationTypes' /\ RisksKept
  BY <1>2, <1>3, RowTypesWritten, RisksUnchanged, DelegationsUnchanged DEF Typed
<1> QED BY <1>1, <1>3, <1>4 DEF Classified, Typed, Staffing, Risked

LEMMA UpdateAssigneeClassified ==
  ASSUME Typed, NEW t \in WorkTasks, NEW e \in WorkEmployees \cup {None}, Work!UpdateAssignee(t, e) PROVE Classified
<1>1. "assign" \in workMode /\ Work!Exists(t) /\ task' = task /\ workMode' = workMode /\ delegations' = delegations
  BY DEF Work!UpdateAssignee
<1>2. CASE rows' = Work!Cancelled(Work!Held(t)) /\ risks' = risks
  BY <1>1, <1>2, CancelledClassified
<1>3. ASSUME e \in WorkEmployees, Work!AddRow(Work!Cancelled(Work!Held(t)), Work!Row(t, e, task[t])) PROVE Classified
  <2>1. PICK base : base = Work!Cancelled(Work!Held(t))
    OBVIOUS
  <2>2. Rewritten(base)
    BY <2>1, RowsCancelled DEF Rewritten, Typed
  <2>3. \A i \in DOMAIN rows : base[i].status = IF i \in Work!Held(t) THEN "CANCELLED" ELSE rows[i].status
    BY <2>1, RowsCancelled DEF Typed
  <2>4. \A i \in DOMAIN rows : rows[i].task = t => base[i].status = "CANCELLED"
    BY <2>3 DEF Work!Held
  <2>5. Work!AddRow(base, Work!Row(t, e, task[t]))
    BY <1>3, <2>1
  <2>6. \A i \in DOMAIN rows : base[i].status = rows[i].status \/ base[i].status = "CANCELLED"
    BY <2>3
  <2> QED BY <1>1, <1>3, <2>2, <2>4, <2>5, <2>6, AssigneeClassified
<1>4. (rows' = Work!Cancelled(Work!Held(t)) /\ risks' = risks) \/ (e \in WorkEmployees /\ Work!AddRow(Work!Cancelled(Work!Held(t)), Work!Row(t, e, task[t])))
  BY DEF Work!UpdateAssignee
<1> QED BY <1>2, <1>3, <1>4

LEMMA AssignEmployeeClassified ==
  ASSUME Typed, NEW t \in WorkTasks, NEW e \in WorkEmployees, Work!AssignEmployee(t, e) PROVE Classified
<1>1. /\ "assign" \in workMode /\ Work!Exists(t) /\ task' = task /\ workMode' = workMode /\ delegations' = delegations /\ risks' = risks
      /\ rows' = Append(rows, Work!Row(t, e, task[t])) /\ Work!HeldBy(t, e) = {}
  BY DEF Work!AssignEmployee
<1>2. \A i \in DOMAIN rows : rows[i].task = t /\ rows[i].employee = e => rows[i].status = "CANCELLED"
  BY <1>1 DEF Work!HeldBy, Work!Held
<1> QED BY <1>1, <1>2, RowsThemselves, AssigneeClassified

LEMMA RemoveAssignmentClassified == ASSUME Typed, NEW i, Work!RemoveAssignment(i) PROVE Classified
<1>1. "assign" \in workMode /\ task' = task /\ workMode' = workMode /\ delegations' = delegations /\ risks' = risks /\ rows' = Work!Cancelled({i})
  BY DEF Work!RemoveAssignment
<1> QED BY <1>1, CancelledClassified

\* The rows after somebody takes over from the row i.
LEMMA TakesOverRows ==
  ASSUME Typed, NEW k \in DOMAIN risks, NEW t \in WorkTasks, NEW e \in WorkEmployees, NEW w, w.from \in Dates, w.to \in Dates,
         NEW s \in Work!RowStatuses, Work!TakesOver(k, t, e, w, s), Work!Resolved(k), workMode' = workMode, Parents, Work!Exists(t)',
         NEW i, i = risks[k].row, NEW n, n = Len(rows) + 1
  PROVE  /\ i \in DOMAIN rows /\ i \in Nat /\ n \in Nat /\ Kept /\ Grown(n) /\ RowTypes' /\ RiskTypes' /\ RisksKept
         /\ rows'[n].task = t /\ rows'[n].employee = e /\ rows'[n].status = "ASSIGNED" /\ rows'[i].status = s
         /\ \A j \in DOMAIN rows \ {i} : rows'[j].status = rows[j].status
<1>1. i \in DOMAIN rows /\ i \in Nat
  BY RiskedTask
<1>2. PICK base : base = Restated(rows, i, s)
  OBVIOUS
<1>3. Rewritten(base) /\ \A j \in DOMAIN rows : base[j].status = IF j = i THEN s ELSE rows[j].status
  BY <1>1, <1>2, RowRestated DEF Typed, RowTypes, Rewritten
<1>4. PICK q : q = Work!Row(t, e, w)
  OBVIOUS
<1>5. q \in Assignment /\ q.task = t /\ q.employee = e /\ q.status = "ASSIGNED"
  BY <1>4, RowOf
<1>6. rows' = Append(base, q)
  BY <1>2, <1>4 DEF Work!TakesOver, Restated
<1>7. Work!Exists(q.task)'
  BY <1>5
<1>8. /\ n \in Nat /\ Kept /\ Grown(n) /\ rows'[n] = q /\ RowTypes' /\ \A j \in DOMAIN rows : rows'[j] = base[j]
  BY <1>3, <1>5, <1>6, <1>7, RowsGrown
<1>9. RiskTypes' /\ RisksKept
  BY <1>8, RisksResolved DEF Typed
<1> QED BY <1>1, <1>3, <1>5, <1>8, <1>9

LEMMA ReassignClassified ==
  ASSUME Typed, NEW k \in DOMAIN risks, NEW e \in WorkEmployees, Work!Reassign(k, e) PROVE Classified
<1>1. PICK i \in DOMAIN rows : i = risks[k].row
  BY RiskedTask
<1>2. rows[i] \in Assignment /\ rows[i].task \in WorkTasks /\ Work!Exists(rows[i].task)
  BY <1>1, RiskedTask
<1>3. PICK t \in WorkTasks : t = rows[i].task
  BY <1>2
<1>4. PICK w \in Assignment : w = rows[i]
  BY <1>2
<1>5. "decide" \in workMode /\ Work!Resolved(k) /\ Work!TakesOver(k, t, e, w, "CANCELLED") /\ task' = task /\ workMode' = workMode /\ delegations' = delegations
  BY <1>1, <1>3, <1>4 DEF Work!Reassign, Work!Pending
<1>6. TaskTypes' /\ Parents /\ Work!Exists(t)'
  BY <1>2, <1>3, <1>5, TasksKept DEF Work!Exists
<1>7. PICK n : n = Len(rows) + 1
  OBVIOUS
<1>8. w.from \in Dates /\ w.to \in Dates /\ "CANCELLED" \in Work!RowStatuses
  BY DEF Assignment, Work!RowStatuses
<1>9. /\ i \in Nat /\ n \in Nat /\ Kept /\ Grown(n) /\ RowTypes' /\ RiskTypes' /\ RisksKept
      /\ rows'[n].task = t /\ rows'[n].status = "ASSIGNED" /\ rows'[i].status = "CANCELLED"
      /\ \A j \in DOMAIN rows \ {i} : rows'[j].status = rows[j].status
  BY <1>1, <1>5, <1>6, <1>7, <1>8, TakesOverRows
<1>10. TakenOver(i, n)
  BY <1>3, <1>5, <1>9 DEF TakenOver
<1>11. DelegationTypes'
  BY <1>5, <1>9, DelegationsUnchanged DEF Typed
<1> QED BY <1>6, <1>9, <1>10, <1>11 DEF Classified, Typed, Staffing, Risked

LEMMA SplitClassified ==
  ASSUME Typed, NEW k \in DOMAIN risks, NEW e \in WorkEmployees, NEW c \in WorkTasks, Work!Split(k, e, c) PROVE Classified
<1>1. PICK i \in DOMAIN rows : i = risks[k].row
  BY RiskedTask
<1>2. PICK t \in WorkTasks : t = rows[i].task
  BY <1>1, RiskedTask
<1>3. TaskTypes' /\ Parents /\ Work!Exists(t) /\ Work!Exists(c)' /\ task'[c].parent = t
  BY <1>1, <1>2, SplitTasks
<1>4. PICK l \in WorkLeaves : l = risks[k].leave
  BY RiskedTask
<1>5. PICK w : w = [from |-> WorkLeaveOf[l].from, to |-> task[t].to]
  OBVIOUS
<1>6. w.from \in Dates /\ w.to \in Dates
  <2>1. task[t] \in TaskRow
    BY <1>3 DEF Typed, TaskTypes, Work!Exists
  <2>2. task[t].to \in Dates
    BY <2>1 DEF TaskRow
  <2>3. w.from = WorkLeaveOf[l].from /\ w.to = task[t].to
    BY <1>5
  <2> QED BY <2>2, <2>3, DatesOf
<1>7. "decide" \in workMode /\ Work!Resolved(k) /\ ~Work!Exists(c) /\ Work!TakesOver(k, c, e, w, "CANCELLED") /\ workMode' = workMode /\ delegations' = delegations
  BY <1>1, <1>2, <1>4, <1>5 DEF Work!Split, Work!Pending
<1>8. PICK n : n = Len(rows) + 1
  OBVIOUS
<1>9. "CANCELLED" \in Work!RowStatuses
  BY DEF Work!RowStatuses
<1>10. /\ i \in Nat /\ n \in Nat /\ Kept /\ Grown(n) /\ RowTypes' /\ RiskTypes' /\ RisksKept
       /\ rows'[n].task = c /\ rows'[n].status = "ASSIGNED" /\ rows'[i].status = "CANCELLED"
       /\ \A j \in DOMAIN rows \ {i} : rows'[j].status = rows[j].status
  BY <1>1, <1>3, <1>6, <1>7, <1>8, <1>9, TakesOverRows
<1>11. \A j \in DOMAIN rows : rows[j].task # c
  BY <1>7 DEF Typed, RowTypes
<1>12. rows'[i].task = t
  BY <1>2, <1>10 DEF Kept
<1>13. HasChild(rows[i].task)'
  BY <1>3, <1>12 DEF HasChild, Work!Exists
<1>14. HasChild(t)'
  BY <1>3 DEF HasChild
<1>15. TakenOver(i, n)
  BY <1>2, <1>7, <1>10, <1>11, <1>13 DEF TakenOver
<1>16. DelegationTypes'
  BY <1>7, <1>10, DelegationsUnchanged DEF Typed
<1> QED BY <1>3, <1>10, <1>15, <1>16 DEF Classified, Typed, Staffing, Risked

LEMMA DelegateClassified ==
  ASSUME Typed, NEW k \in DOMAIN risks, NEW e \in WorkEmployees, Work!Delegate(k, e) PROVE Classified
<1>1. PICK i \in DOMAIN rows : i = risks[k].row
  BY RiskedTask
<1>2. PICK t \in WorkTasks : t = rows[i].task /\ Work!Exists(t)
  BY <1>1, RiskedTask
<1>3. PICK l \in WorkLeaves : l = risks[k].leave
  BY RiskedTask
<1>4. PICK o \in WorkEmployees : o = rows[i].employee
  BY <1>1, RiskedTask DEF Assignment
<1>5. PICK d : d = [task |-> t, owner |-> o, delegate |-> e, status |-> "ACTIVE"]
  OBVIOUS
<1>6. d \in Delegation /\ d.task = t /\ d.owner = o /\ d.status = "ACTIVE"
  BY <1>5 DEF Delegation
<1>7. /\ "decide" \in workMode /\ Work!Resolved(k) /\ Work!TakesOver(k, t, e, WorkLeaveOf[l], "DELEGATED") /\ task' = task /\ workMode' = workMode
      /\ delegations' = Append(delegations, d)
  BY <1>1, <1>2, <1>3, <1>4, <1>5 DEF Work!Delegate, Work!Pending
<1>8. TaskTypes' /\ Parents /\ Work!Exists(t)'
  BY <1>2, <1>7, TasksKept DEF Work!Exists
<1>9. PICK n : n = Len(rows) + 1
  OBVIOUS
<1>10. PICK w : w = WorkLeaveOf[l]
  OBVIOUS
<1>11. w.from \in Dates /\ w.to \in Dates /\ "DELEGATED" \in Work!RowStatuses
  BY <1>10, DatesOf DEF Work!RowStatuses
<1>12. Work!TakesOver(k, t, e, w, "DELEGATED")
  BY <1>7, <1>10
<1>13. /\ i \in Nat /\ n \in Nat /\ Kept /\ Grown(n) /\ RowTypes' /\ RiskTypes' /\ RisksKept
       /\ rows'[n].task = t /\ rows'[n].status = "ASSIGNED" /\ rows'[i].status = "DELEGATED"
       /\ \A j \in DOMAIN rows \ {i} : rows'[j].status = rows[j].status
  BY <1>1, <1>7, <1>8, <1>9, <1>11, <1>12, TakesOverRows
<1>14. GivenAway(i, n)
  BY <1>1, <1>2, <1>4, <1>6, <1>7, <1>13 DEF GivenAway
<1>15. DelegationTypes'
  <2>1. /\ delegations' \in Seq(Delegation) /\ DOMAIN delegations' = 1 .. (Len(delegations) + 1)
        /\ DOMAIN delegations = 1 .. Len(delegations) /\ Len(delegations) \in Nat
        /\ delegations'[Len(delegations) + 1] = d /\ \A m \in DOMAIN delegations : delegations'[m] = delegations[m]
    BY <1>6, <1>7 DEF Typed, DelegationTypes
  <2>2. ASSUME NEW m \in DOMAIN delegations' PROVE \E j \in DOMAIN rows' : rows'[j].task = delegations'[m].task
    <3>1. CASE m \in DOMAIN delegations
      BY <2>1, <1>13, <3>1 DEF Typed, DelegationTypes, Kept
    <3>2. CASE m = Len(delegations) + 1
      BY <1>6, <1>13, <2>1, <3>2 DEF Grown
    <3> QED BY <2>1, <2>2, <3>1, <3>2
  <2> QED BY <1>7, <2>1, <2>2 DEF DelegationTypes
<1> QED BY <1>8, <1>13, <1>14, <1>15 DEF Classified, Typed, Staffing, Risked

\* Q is R with status s for the rows J, of which there is one at most, and one if there is one in S.
FirstAre(Q, R, S, s, J) ==
  /\ J = {} <=> S = {}
  /\ \A x, y \in J : x = y
  /\ Q \in Seq(Assignment) /\ DOMAIN Q = DOMAIN R
  /\ \A x \in DOMAIN R : /\ Q[x].task = R[x].task /\ Q[x].employee = R[x].employee
                         /\ Q[x].status = IF x \in J THEN s ELSE R[x].status

LEMMA FirstOf ==
  ASSUME NEW R \in Seq(Assignment), NEW S \in SUBSET DOMAIN R, NEW s \in Work!RowStatuses, NEW Q \in Work!First(S, s, R)
  PROVE  \E J \in SUBSET S : FirstAre(Q, R, S, s, J)
<1>1. CASE S = {}
  <2>1. Q = R
    BY <1>1 DEF Work!First
  <2>2. PICK J : J = {}
    OBVIOUS
  <2>3. J \in SUBSET S /\ \A x : x \notin J
    BY <2>2
  <2> QED BY <1>1, <2>1, <2>2, <2>3 DEF FirstAre
<1>2. CASE S # {}
  <2>1. PICK i \in S : Q = Restated(R, i, s)
    BY <1>2 DEF Work!First, Restated
  <2>2. /\ Q \in Seq(Assignment) /\ DOMAIN Q = DOMAIN R
        /\ \A x \in DOMAIN R : /\ Q[x].task = R[x].task /\ Q[x].employee = R[x].employee
                               /\ Q[x].status = IF x = i THEN s ELSE R[x].status
    BY <2>1, RowRestated
  <2>3. PICK J : J = {i}
    OBVIOUS
  <2>4. J \in SUBSET S /\ J # {} /\ (\A x, y \in J : x = y) /\ \A x : x \in J <=> x = i
    BY <2>3
  <2> QED BY <1>2, <2>2, <2>4 DEF FirstAre
<1> QED BY <1>1, <1>2

LEMMA ResumeDelegationClassified ==
  ASSUME Typed, NEW n \in Nat, Work!ResumeDelegation(n) PROVE Classified
<1>1. n \in DOMAIN delegations /\ delegations[n].status = "ACTIVE"
  BY DEF Work!ResumeDelegation
<1>2. PICK d \in Delegation : d = delegations[n]
  BY <1>1 DEF Typed, DelegationTypes
<1>3. /\ delegations' = [delegations EXCEPT ![n].status = "COMPLETED"]
      /\ task' = task /\ workMode' = workMode /\ risks' = risks
  BY DEF Work!ResumeDelegation
<1>4. PICK R : R \in Work!First(Work!HeldBy(d.task, d.delegate), "COMPLETED", rows) /\ rows' \in Work!First(Work!OwnersRow(d, rows), "ASSIGNED", R)
  BY <1>2 DEF Work!ResumeDelegation
<1>5. PICK H \in SUBSET DOMAIN rows : H = Work!HeldBy(d.task, d.delegate)
  BY DEF Work!HeldBy, Work!Held
<1>a. PICK O \in SUBSET DOMAIN rows : O = Work!OwnersRow(d, rows)
  BY DEF Work!OwnersRow
<1>b. rows \in Seq(Assignment) /\ "COMPLETED" \in Work!RowStatuses /\ "ASSIGNED" \in Work!RowStatuses
  BY DEF Typed, RowTypes, Work!RowStatuses
<1>c. R \in Work!First(H, "COMPLETED", rows) /\ rows' \in Work!First(O, "ASSIGNED", R)
  BY <1>4, <1>5, <1>a
<1>6. PICK J \in SUBSET H : FirstAre(R, rows, H, "COMPLETED", J)
  BY <1>b, <1>c, FirstOf
<1>7. /\ \A x, y \in J : x = y
      /\ R \in Seq(Assignment) /\ DOMAIN R = DOMAIN rows
      /\ \A x \in DOMAIN rows : /\ R[x].task = rows[x].task /\ R[x].employee = rows[x].employee
                                /\ R[x].status = IF x \in J THEN "COMPLETED" ELSE rows[x].status
  BY <1>6 DEF FirstAre
<1>d. PICK I \in SUBSET O : FirstAre(rows', R, O, "ASSIGNED", I)
  <2>1. O \in SUBSET DOMAIN R
    BY <1>7
  <2> QED BY <1>7, <1>b, <1>c, <2>1, FirstOf
<1>8. /\ I = {} <=> O = {}
      /\ \A x, y \in I : x = y
      /\ rows' \in Seq(Assignment) /\ DOMAIN rows' = DOMAIN R
      /\ \A x \in DOMAIN R : /\ rows'[x].task = R[x].task /\ rows'[x].employee = R[x].employee
                             /\ rows'[x].status = IF x \in I THEN "ASSIGNED" ELSE R[x].status
  BY <1>d DEF FirstAre
<1>9. TaskTypes' /\ Parents
  BY <1>3, TasksKept
<1>10. /\ DOMAIN rows' = DOMAIN rows
       /\ \A x \in DOMAIN rows : rows'[x].task = rows[x].task /\ rows'[x].employee = rows[x].employee
  BY <1>7, <1>8
<1>11. Kept
  BY <1>3, <1>9, <1>10 DEF Kept
<1>12. RowTypes' /\ RiskTypes' /\ RisksKept
  BY <1>3, <1>8, <1>10, <1>11, RowTypesWritten, RisksUnchanged DEF Typed
<1>13. GivenBack(n)
  <2>1. I \in SUBSET DOMAIN rows /\ J \in SUBSET DOMAIN rows
    BY <1>7, <1>8
  <2>2. \A x \in I : rows[x].task = d.task /\ rows[x].employee = d.owner /\ rows[x].status = "DELEGATED"
    BY <1>a, <2>1 DEF Work!OwnersRow
  <2>3. \A x \in I : rows'[x].status = "ASSIGNED"
    BY <1>7, <1>8, <2>1
  <2>4. \A x \in J : rows[x].task = d.task
    BY <1>5, <2>1 DEF Work!HeldBy, Work!Held
  <2>5. \A x \in J \ I : rows'[x].status = "COMPLETED"
    BY <1>7, <1>8, <2>1
  <2>6. \A x \in DOMAIN rows \ (J \cup I) : rows'[x].status = rows[x].status
    BY <1>7, <1>8
  <2>7. I = {} => \A x \in DOMAIN rows :
                   ~(rows[x].task = d.task /\ rows[x].employee = d.owner /\ rows[x].status = "DELEGATED")
    BY <1>8, <1>a DEF Work!OwnersRow
  <2>8. BackTo(d, J, I)
    BY <1>7, <1>8, <2>2, <2>3, <2>4, <2>5, <2>6, <2>7 DEF BackTo
  <2> QED BY <1>1, <1>2, <1>3, <1>10, <2>1, <2>8 DEF GivenBack
<1>14. DelegationTypes'
  <2>1. PICK q : q = [d EXCEPT !.status = "COMPLETED"]
    OBVIOUS
  <2>2. q \in Delegation /\ q.task = d.task
    BY <2>1 DEF Delegation
  <2>3. delegations' = [delegations EXCEPT ![n] = q]
    BY <1>2, <1>3, <2>1
  <2>4. /\ delegations' \in Seq(Delegation) /\ DOMAIN delegations' = DOMAIN delegations
        /\ \A m \in DOMAIN delegations : delegations'[m] = IF m = n THEN q ELSE delegations[m]
    BY <1>1, <2>2, <2>3 DEF Typed, DelegationTypes
  <2>5. \A m \in DOMAIN delegations : delegations'[m].task = delegations[m].task
    BY <1>2, <2>2, <2>4
  <2>6. \A m \in DOMAIN delegations' : \E j \in DOMAIN rows' : rows'[j].task = delegations'[m].task
    BY <1>10, <2>4, <2>5 DEF Typed, DelegationTypes
  <2>7. "decide" \in workMode
    BY <1>1 DEF Typed, DelegationTypes
  <2> QED BY <1>3, <2>4, <2>6, <2>7 DEF DelegationTypes
<1> QED BY <1>9, <1>11, <1>12, <1>13, <1>14 DEF Classified, Typed, Staffing, Risked

\* Every step.
LEMMA NextClassified == ASSUME Typed, Work!Next PROVE Classified
<1>1. ASSUME NEW t \in WorkTasks, Work!WorkOn(t) PROVE Classified
  BY <1>1, UpdateAssigneeClassified, CreateTaskClassified, AssignEmployeeClassified, StatusClassified, DeleteTaskClassified DEF Work!WorkOn
<1>2. ASSUME NEW k \in DOMAIN risks, Work!Decide(k) PROVE Classified
  BY <1>2, ContinueClassified, PauseClassified, ReassignClassified, DelegateClassified, SplitClassified DEF Work!Decide
<1>3. ASSUME NEW i \in 1 .. WorkMaxRows, Work!RemoveAssignment(i) \/ Work!ResumeDelegation(i) PROVE Classified
  <2>1. CASE Work!RemoveAssignment(i)
    BY <2>1, RemoveAssignmentClassified
  <2>2. CASE Work!ResumeDelegation(i)
    <3>1. i \in DOMAIN delegations /\ delegations \in Seq(Delegation)
      BY <2>2 DEF Work!ResumeDelegation, Typed, DelegationTypes
    <3>2. i \in Nat
      BY <3>1
    <3> QED BY <2>2, <3>2, ResumeDelegationClassified
  <2> QED BY <1>3, <2>1, <2>2
<1>4. ASSUME NEW l \in WorkLeaves, Work!ApproveLeave(l) \/ Work!CancelLeave(l) PROVE Classified
  BY <1>4, ApproveLeaveClassified, CancelLeaveClassified
<1> QED BY <1>1, <1>2, <1>3, <1>4 DEF Work!Next

-----------------------------------------------------------------------------
(* What every step keeps *)

RisksApart ==
  /\ \A j, k \in DOMAIN risks : risks[j].row = risks[k].row /\ risks[j].leave = risks[k].leave => j = k
  /\ \A k \in DOMAIN risks : rows[risks[k].row].employee = WorkLeaveOf[risks[k].leave].employee

LEMMA RisksApartKept == ASSUME Typed, RisksApart, Classified PROVE RisksApart'
<1>1. /\ \A k \in DOMAIN risks : risks[k].row \in DOMAIN rows
      /\ \A i \in DOMAIN rows : i \in DOMAIN rows' /\ rows'[i].employee = rows[i].employee
  BY DEF Classified, Kept, Typed, RiskTypes
<1>2. CASE RisksKept
  BY <1>1, <1>2 DEF RisksKept, RisksApart
<1>3. ASSUME NEW i \in DOMAIN rows' \ DOMAIN rows, NEW l \in WorkLeaves,
             rows'[i].employee = WorkLeaveOf[l].employee, risks' = Append(risks, Work!Risk(i, l))
      PROVE  RisksApart'
  <2>1. PICK q : q = Work!Risk(i, l)
    OBVIOUS
  <2>2. q.row = i /\ q.leave = l
    BY <2>1 DEF Work!Risk
  <2>3. /\ DOMAIN risks = 1 .. Len(risks) /\ Len(risks) \in Nat /\ risks \in Seq(RiskRow) /\ risks' = Append(risks, q)
    BY <1>3, <2>1 DEF Typed, RiskTypes
  <2>4. /\ DOMAIN risks' = 1 .. (Len(risks) + 1) /\ risks'[Len(risks) + 1] = q
        /\ \A k \in DOMAIN risks : risks'[k] = risks[k]
    BY <2>3
  <2>5. \A k \in DOMAIN risks' : k \in DOMAIN risks \/ k = Len(risks) + 1
    BY <2>3, <2>4
  <2>6. \A j, k \in DOMAIN risks' : risks'[j].row = risks'[k].row /\ risks'[j].leave = risks'[k].leave => j = k
    BY <1>1, <2>2, <2>4, <2>5 DEF RisksApart
  <2>7. \A k \in DOMAIN risks' : rows'[risks'[k].row].employee = WorkLeaveOf[risks'[k].leave].employee
    BY <1>1, <1>3, <2>2, <2>4, <2>5 DEF RisksApart
  <2> QED BY <2>6, <2>7 DEF RisksApart
<1>4. ASSUME NEW l \in WorkLeaves, rows' = rows, risks' = risks \o Work!SetToSeq(Found(l)) PROVE RisksApart'
  <2>1. /\ \A k \in DOMAIN risks : k \in DOMAIN risks' /\ risks'[k] = risks[k]
        /\ \A k \in DOMAIN risks' \ DOMAIN risks : risks'[k].row \in Work!Hit(l) /\ risks'[k].leave = l
        /\ \A j, k \in DOMAIN risks' \ DOMAIN risks : risks'[j].row = risks'[k].row => j = k
    BY <1>4, RaisedRisks
  <2>2. \A i \in Work!Hit(l) : /\ rows[i].employee = WorkLeaveOf[l].employee
                               /\ \A k \in DOMAIN risks : ~(risks[k].row = i /\ risks[k].leave = l)
    BY DEF Work!Hit, Work!RiskFor
  <2>3. \A j, k \in DOMAIN risks' : risks'[j].row = risks'[k].row /\ risks'[j].leave = risks'[k].leave => j = k
    BY <2>1, <2>2 DEF RisksApart
  <2>4. \A k \in DOMAIN risks' : rows[risks'[k].row].employee = WorkLeaveOf[risks'[k].leave].employee
    BY <2>1, <2>2 DEF RisksApart
  <2> QED BY <1>4, <2>3, <2>4 DEF RisksApart
<1> QED BY <1>2, <1>3, <1>4 DEF Classified, Risked, RiskAdded, RisksRaised, Found

\* Nobody gets a task they hold.
LEMMA SingleKept == ASSUME Typed, Single, Classified PROVE Single'
<1> SUFFICES ASSUME "decide" \notin workMode PROVE Single'
  BY DEF Classified, Kept, Single
<1>1. ASSUME NEW i \in DOMAIN rows, NEW j \in DOMAIN rows, rows[i].task \in WorkTasks, rows[i].task = rows[j].task,
             rows[i].employee = rows[j].employee, rows[i].status # "CANCELLED", rows[j].status # "CANCELLED"
      PROVE  i = j
  <2>1. PICK t \in WorkTasks : t = rows[i].task
    BY <1>1
  <2>2. i \in Work!Held(t) /\ j \in Work!Held(t)
    BY <1>1, <2>1 DEF Work!Held
  <2> QED BY <1>1, <2>2 DEF Single
<1>2. /\ Kept /\ workMode' = workMode /\ DOMAIN delegations = {}
  BY DEF Classified, Kept, Typed, DelegationTypes
<1>3. Fewer \/ \E n \in Nat : Given(n)
  BY <1>2 DEF Classified, Staffing, TakenOver, GivenAway, GivenBack
<1>4. \A i \in DOMAIN rows : /\ rows'[i].task = rows[i].task /\ rows'[i].employee = rows[i].employee
                             /\ rows'[i].status # "CANCELLED" => rows[i].status # "CANCELLED"
  BY <1>2, <1>3 DEF Kept, Fewer, Given
<1>5. ASSUME NEW t \in WorkTasks, NEW i \in Work!Held(t)', NEW j \in Work!Held(t)', rows'[i].employee = rows'[j].employee PROVE i = j
  <2>1. /\ i \in DOMAIN rows' /\ j \in DOMAIN rows' /\ rows'[i].task = t /\ rows'[j].task = t
        /\ rows'[i].status # "CANCELLED" /\ rows'[j].status # "CANCELLED"
    BY <1>5 DEF Work!Held
  <2>2. CASE i \in DOMAIN rows /\ j \in DOMAIN rows
    <3>1. rows[i].task = t /\ rows[j].task = t /\ rows[i].employee = rows[j].employee
      BY <1>4, <1>5, <2>1, <2>2
    <3>2. rows[i].status # "CANCELLED" /\ rows[j].status # "CANCELLED"
      BY <1>4, <2>1, <2>2
    <3> QED BY <1>1, <2>2, <3>1, <3>2
  <2>3. CASE Fewer
    BY <2>1, <2>2, <2>3 DEF Fewer
  <2>4. ASSUME NEW n \in Nat, Given(n) PROVE i = j
    <3>1. \A x \in DOMAIN rows : rows[x].task = rows'[n].task /\ rows[x].employee = rows'[n].employee => rows'[x].status = "CANCELLED"
      BY <2>4 DEF Given
    <3>2. DOMAIN rows' = DOMAIN rows \cup {n}
      BY <2>4 DEF Given, Grown
    <3>3. ASSUME i = n, j \in DOMAIN rows PROVE FALSE
      BY <1>4, <1>5, <2>1, <3>1, <3>3
    <3>4. ASSUME j = n, i \in DOMAIN rows PROVE FALSE
      BY <1>4, <1>5, <2>1, <3>1, <3>4
    <3> QED BY <2>1, <2>2, <3>2, <3>3, <3>4
  <2> QED BY <1>3, <2>3, <2>4
<1> QED BY <1>2, <1>5 DEF Single

LEMMA PairingKept ==
  ASSUME NEW D, NEW A, NEW ds, NEW rs, NEW f, Pairing(f, D, A, ds, rs),
         NEW D2 \in SUBSET D, NEW A2, A \subseteq A2, NEW ds2, NEW rs2,
         \A m \in A : ds2[m].owner = ds[m].owner, \A i \in D2 : rs2[i].employee = rs[i].employee
  PROVE  \E g : Pairing(g, D2, A2, ds2, rs2)
<1>1. PICK g : g = [x \in D2 |-> f[x]]
  OBVIOUS
<1>2. Pairing(g, D2, A2, ds2, rs2)
  BY <1>1 DEF Pairing
<1> QED BY <1>2

\* D2 adds i to D, and A2 adds to A the delegation m of the owner of i.
PairAdded(D, A, ds, rs, i, m, D2, A2, ds2, rs2) ==
  /\ m \notin A /\ D2 \in SUBSET (D \cup {i}) /\ A \subseteq A2 /\ m \in A2
  /\ \A x \in A : ds2[x].owner = ds[x].owner
  /\ \A x \in D2 : rs2[x].employee = rs[x].employee
  /\ ds2[m].owner = rs2[i].employee

LEMMA PairingGrown ==
  ASSUME NEW D, NEW A, NEW ds, NEW rs, NEW f, Pairing(f, D, A, ds, rs), NEW i, NEW m, NEW D2, NEW A2, NEW ds2, NEW rs2,
         PairAdded(D, A, ds, rs, i, m, D2, A2, ds2, rs2)
  PROVE  \E g : Pairing(g, D2, A2, ds2, rs2)
<1> USE DEF PairAdded
<1>1. PICK g : g = [x \in D2 |-> IF x = i THEN m ELSE f[x]]
  OBVIOUS
<1>2. \A x \in D2 : x # i => x \in D /\ g[x] = f[x] /\ g[x] \in A
  BY <1>1 DEF Pairing
<1>3. \A x \in D2 : x = i => g[x] = m
  BY <1>1
<1>4. g \in [D2 -> A2]
  BY <1>1, <1>2, <1>3
<1>5. \A x, y \in D2 : g[x] = g[y] => x = y
  BY <1>2, <1>3 DEF Pairing
<1>6. \A x \in D2 : ds2[g[x]].owner = rs2[x].employee
  BY <1>2, <1>3 DEF Pairing
<1> QED BY <1>4, <1>5, <1>6 DEF Pairing

LEMMA PairingReturned ==
  ASSUME NEW D, NEW A, NEW ds, NEW rs, NEW f, Pairing(f, D, A, ds, rs), NEW n,
         NEW D2 \in SUBSET D, NEW A2, A \ {n} \subseteq A2, NEW ds2, NEW rs2,
         \A x \in A \ {n} : ds2[x].owner = ds[x].owner, \A x \in D2 : rs2[x].employee = rs[x].employee,
         \/ \A x \in D2 : rs[x].employee # ds[n].owner
         \/ \E i \in D \ D2 : rs[i].employee = ds[n].owner
  PROVE  \E g : Pairing(g, D2, A2, ds2, rs2)
<1>1. CASE \A x \in D2 : rs[x].employee # ds[n].owner
  <2>1. PICK g : g = [x \in D2 |-> f[x]]
    OBVIOUS
  <2>2. \A x \in D2 : g[x] = f[x] /\ g[x] \in A \ {n}
    BY <1>1, <2>1 DEF Pairing
  <2>3. Pairing(g, D2, A2, ds2, rs2)
    BY <2>1, <2>2 DEF Pairing
  <2> QED BY <2>3
<1>2. ASSUME NEW i \in D \ D2, rs[i].employee = ds[n].owner PROVE \E g : Pairing(g, D2, A2, ds2, rs2)
  <2>1. PICK g : g = [x \in D2 |-> IF f[x] = n THEN f[i] ELSE f[x]]
    OBVIOUS
  <2>2. \A x \in D2 : f[x] \in A /\ f[i] \in A /\ f[x] # f[i] /\ g[x] = IF f[x] = n THEN f[i] ELSE f[x]
    BY <2>1 DEF Pairing
  <2>3. \A x \in D2 : g[x] \in A \ {n}
    BY <2>2
  <2>4. \A x, y \in D2 : g[x] = g[y] => x = y
    BY <2>2 DEF Pairing
  <2>5. \A x \in D2 : ds[g[x]].owner = rs[x].employee
    BY <1>2, <2>2 DEF Pairing
  <2>6. g \in [D2 -> A2] /\ \A x \in D2 : ds2[g[x]].owner = rs2[x].employee
    BY <2>1, <2>3, <2>5
  <2>7. Pairing(g, D2, A2, ds2, rs2)
    BY <2>4, <2>6 DEF Pairing
  <2> QED BY <2>7
<1> QED BY <1>1, <1>2

\* Whoever is away still has a delegation that brings them back.
LEMMA MatchedKept == ASSUME Typed, Matched, Classified PROVE Matched'
<1>1. Kept /\ Staffing
  BY DEF Classified
<1> SUFFICES ASSUME NEW t \in WorkTasks PROVE \E g : Pairing(g, Delegated(t)', Active(t)', delegations', rows')
  BY DEF Matched
<1>2. PICK f : Pairing(f, Delegated(t), Active(t), delegations, rows)
  BY DEF Matched
<1>3. \A i \in DOMAIN rows : rows'[i].task = rows[i].task /\ rows'[i].employee = rows[i].employee
  BY <1>1 DEF Kept
<1>4. \A i \in Delegated(t) : i \in DOMAIN rows
  BY DEF Delegated
<1>5. ASSUME delegations' = delegations, Delegated(t)' \in SUBSET Delegated(t)
      PROVE  \E g : Pairing(g, Delegated(t)', Active(t)', delegations', rows')
  <2>1. Active(t)' = Active(t)
    BY <1>5 DEF Active
  <2>2. \A i \in Delegated(t)' : rows'[i].employee = rows[i].employee
    BY <1>3, <1>4, <1>5
  <2> QED BY <1>2, <1>5, <2>1, <2>2, PairingKept
<1>6. CASE Fewer
  BY <1>3, <1>5, <1>6 DEF Fewer, Delegated
<1>7. CASE \E n \in Nat : Given(n)
  BY <1>3, <1>5, <1>7 DEF Given, Grown, Delegated
<1>8. CASE \E i, n \in Nat : TakenOver(i, n)
  BY <1>3, <1>5, <1>8 DEF TakenOver, Grown, Delegated
<1>9. ASSUME NEW i \in Nat, NEW n \in Nat, GivenAway(i, n)
      PROVE  \E g : Pairing(g, Delegated(t)', Active(t)', delegations', rows')
  <2>1. PICK d \in Delegation : /\ d.task = rows[i].task /\ d.owner = rows[i].employee /\ d.status = "ACTIVE"
                                /\ delegations' = Append(delegations, d)
    BY <1>9 DEF GivenAway
  <2>2. PICK m : m = Len(delegations) + 1
    OBVIOUS
  <2>3. /\ m \notin DOMAIN delegations /\ DOMAIN delegations' = DOMAIN delegations \cup {m} /\ delegations'[m] = d
        /\ \A x \in DOMAIN delegations : delegations'[x] = delegations[x]
    BY <2>1, <2>2 DEF Typed, DelegationTypes
  <2>4. Active(t) \subseteq Active(t)' /\ m \notin Active(t) /\ \A x \in Active(t) : delegations'[x].owner = delegations[x].owner
    BY <2>3 DEF Active
  <2>5. /\ i \in DOMAIN rows /\ DOMAIN rows' = DOMAIN rows \cup {n} /\ rows'[n].status = "ASSIGNED"
        /\ \A j \in DOMAIN rows \ {i} : rows'[j].status = rows[j].status
    BY <1>9 DEF GivenAway, Grown
  <2>6. Delegated(t)' \subseteq Delegated(t) \cup {i}
    BY <1>3, <2>5 DEF Delegated
  <2>7. \A x \in Delegated(t)' : x \in DOMAIN rows /\ rows'[x].employee = rows[x].employee
    BY <1>3, <1>4, <2>5, <2>6
  <2>8. CASE rows[i].task = t
    <3>1. m \in Active(t)' /\ delegations'[m].owner = rows'[i].employee
      BY <1>3, <2>1, <2>3, <2>5, <2>8 DEF Active
    <3>2. PairAdded(Delegated(t), Active(t), delegations, rows, i, m, Delegated(t)', Active(t)', delegations', rows')
      BY <2>4, <2>6, <2>7, <3>1 DEF PairAdded
    <3> QED BY <1>2, <3>2, PairingGrown
  <2>9. CASE rows[i].task # t
    <3>1. Delegated(t)' \subseteq Delegated(t)
      BY <1>3, <2>5, <2>6, <2>9 DEF Delegated
    <3> QED BY <1>2, <2>4, <2>7, <3>1, PairingKept
  <2> QED BY <2>8, <2>9
<1>10. ASSUME NEW n \in Nat, GivenBack(n)
       PROVE  \E g : Pairing(g, Delegated(t)', Active(t)', delegations', rows')
  <2>1. PICK d \in Delegation : d = delegations[n]
    BY <1>10 DEF GivenBack, Typed, DelegationTypes
  <2>2. PICK J \in SUBSET DOMAIN rows, I \in SUBSET DOMAIN rows : BackTo(d, J, I)
    BY <1>10, <2>1 DEF GivenBack
  <2>3. /\ n \in DOMAIN delegations /\ DOMAIN rows' = DOMAIN rows /\ d.status = "ACTIVE"
        /\ delegations' = [delegations EXCEPT ![n].status = "COMPLETED"]
    BY <1>10, <2>1 DEF GivenBack
  <2>4. /\ DOMAIN delegations' = DOMAIN delegations
        /\ \A x \in DOMAIN delegations \ {n} : delegations'[x] = delegations[x]
    BY <2>3
  <2>5. Active(t) \ {n} \subseteq Active(t)' /\ \A x \in Active(t) \ {n} : delegations'[x].owner = delegations[x].owner
    BY <2>4 DEF Active
  <2>6. \A x \in Delegated(t)' : x \in Delegated(t) /\ x \notin J \cup I
    BY <1>3, <2>2, <2>3 DEF Delegated, BackTo
  <2>7. Delegated(t)' \in SUBSET Delegated(t) /\ \A x \in Delegated(t)' : rows'[x].employee = rows[x].employee
    BY <1>3, <1>4, <2>6
  <2>8. CASE d.task # t
    <3>1. n \notin Active(t)
      BY <2>1, <2>8 DEF Active
    <3>2. Active(t) \subseteq Active(t)' /\ \A x \in Active(t) : delegations'[x].owner = delegations[x].owner
      BY <2>5, <3>1
    <3> QED BY <1>2, <2>7, <3>2, PairingKept
  <2>9. CASE d.task = t
    <3>1. \/ \A x \in Delegated(t)' : rows[x].employee # delegations[n].owner
          \/ \E i \in Delegated(t) \ Delegated(t)' : rows[i].employee = delegations[n].owner
      <4>1. CASE I = {}
        BY <2>1, <2>2, <2>6, <2>9, <4>1 DEF BackTo, Delegated
      <4>2. ASSUME NEW i \in I PROVE i \in Delegated(t) \ Delegated(t)' /\ rows[i].employee = delegations[n].owner
        BY <2>1, <2>2, <2>6, <2>9, <4>2 DEF BackTo, Delegated
      <4> QED BY <4>1, <4>2
    <3> QED BY <1>2, <2>5, <2>7, <3>1, PairingReturned
  <2> QED BY <2>8, <2>9
<1> QED BY <1>1, <1>6, <1>7, <1>8, <1>9, <1>10 DEF Staffing

-----------------------------------------------------------------------------
(* Somebody is left *)

LEMMA CardTypes ==
  ASSUME NEW S, IsFiniteSet(S), NEW T, T \subseteq S
  PROVE  IsFiniteSet(T) /\ Cardinality(T) \in Nat /\ Cardinality(S) \in Nat /\ Cardinality(T) <= Cardinality(S)
<1>1. IsFiniteSet(T) /\ Cardinality(T) <= Cardinality(S)
  BY FS_Subset
<1> QED BY <1>1, FS_CardinalityType

LEMMA CardGrown ==
  ASSUME NEW S, IsFiniteSet(S), NEW x, x \notin S, NEW T, IsFiniteSet(T), S \cup {x} \subseteq T
  PROVE  Cardinality(T) >= Cardinality(S) + 1
<1>1. Cardinality(S \cup {x}) = Cardinality(S) + 1
  BY FS_AddElement
<1>2. Cardinality(S \cup {x}) <= Cardinality(T) /\ Cardinality(T) \in Nat /\ Cardinality(S) \in Nat
  BY CardTypes, FS_CardinalityType
<1> QED BY <1>1, <1>2

LEMMA CardShrunk ==
  ASSUME NEW S, IsFiniteSet(S), NEW x, NEW T, IsFiniteSet(T), S \ {x} \subseteq T
  PROVE  Cardinality(T) >= Cardinality(S) - 1 /\ IsFiniteSet(S \ {x}) /\ Cardinality(S \ {x}) \in Nat
         /\ Cardinality(S \ {x}) >= Cardinality(S) - 1
<1>1. /\ IsFiniteSet(S \ {x}) /\ Cardinality(S) \in Nat /\ Cardinality(T) \in Nat
      /\ Cardinality(S \ {x}) = IF x \in S THEN Cardinality(S) - 1 ELSE Cardinality(S)
  BY FS_RemoveElement, FS_CardinalityType
<1>2. Cardinality(S \ {x}) <= Cardinality(T) /\ Cardinality(S \ {x}) \in Nat
  BY <1>1, CardTypes
<1> QED BY <1>1, <1>2

LEMMA CardSwapped ==
  ASSUME NEW S, IsFiniteSet(S), NEW x, NEW n, n \notin S, NEW T, IsFiniteSet(T), (S \ {x}) \cup {n} \subseteq T
  PROVE  Cardinality(T) >= Cardinality(S)
<1>1. PICK R : R = S \ {x}
  OBVIOUS
<1>2. IsFiniteSet(R) /\ Cardinality(R) >= Cardinality(S) - 1 /\ Cardinality(R) \in Nat
  BY <1>1, CardShrunk
<1>3. n \notin R /\ R \cup {n} \subseteq T
  BY <1>1
<1>4. Cardinality(T) >= Cardinality(R) + 1
  BY <1>2, <1>3, CardGrown
<1> QED BY <1>2, <1>4, FS_CardinalityType

LEMMA FiniteRows ==
  ASSUME Typed, NEW t
  PROVE  /\ IsFiniteSet(Staff(t)) /\ IsFiniteSet(Active(t)) /\ IsFiniteSet(Delegated(t))
         /\ Cardinality(Staff(t)) \in Nat /\ Cardinality(Active(t)) \in Nat /\ Cardinality(Delegated(t)) \in Nat
<1>1. IsFiniteSet(1 .. Len(rows)) /\ IsFiniteSet(1 .. Len(delegations))
  BY FS_Interval DEF Typed, RowTypes, DelegationTypes
<1>2. Staff(t) \subseteq 1 .. Len(rows) /\ Delegated(t) \subseteq 1 .. Len(rows) /\ Active(t) \subseteq 1 .. Len(delegations)
  BY DEF Typed, RowTypes, DelegationTypes, Staff, Delegated, Active
<1> QED BY <1>1, <1>2, CardTypes

LEMMA FiniteRowsNext ==
  ASSUME Typed', NEW t
  PROVE  /\ IsFiniteSet(Staff(t)') /\ IsFiniteSet(Active(t)')
         /\ Cardinality(Staff(t)') \in Nat /\ Cardinality(Active(t)') \in Nat
<1>1. IsFiniteSet(1 .. Len(rows')) /\ IsFiniteSet(1 .. Len(delegations'))
  BY FS_Interval DEF Typed, RowTypes, DelegationTypes
<1>2. Staff(t)' \subseteq 1 .. Len(rows') /\ Active(t)' \subseteq 1 .. Len(delegations')
  BY DEF Typed, RowTypes, DelegationTypes, Staff, Active
<1> QED BY <1>1, <1>2, CardTypes

\* No step leaves a task with fewer people than delegations end.
LEMMA StaffedKept == ASSUME Typed, Staffed, Classified PROVE Staffed'
<1>1. Kept /\ Staffing /\ Typed'
  BY DEF Classified
<1> SUFFICES ASSUME "assign" \notin workMode, NEW t \in WorkTasks, NEW j \in DOMAIN rows', rows'[j].task = t, ~HasChild(t)'
             PROVE  Cardinality(Staff(t)') > Cardinality(Active(t)')
  BY <1>1 DEF Staffed, Kept
<1>2. ~HasChild(t)
  BY <1>1 DEF Kept, Parents, HasChild
<1>3. \A i \in DOMAIN rows : i \in DOMAIN rows' /\ rows'[i].task = rows[i].task
  BY <1>1 DEF Kept
<1>4. (\E i \in DOMAIN rows : rows[i].task = t) => Cardinality(Staff(t)) > Cardinality(Active(t))
  BY <1>2 DEF Staffed
<1>5. /\ IsFiniteSet(Staff(t)) /\ IsFiniteSet(Active(t)) /\ Cardinality(Staff(t)) \in Nat /\ Cardinality(Active(t)) \in Nat
      /\ Cardinality(Active(t)') \in Nat /\ Cardinality(Staff(t)') \in Nat /\ IsFiniteSet(Staff(t)') /\ IsFiniteSet(Active(t)')
  BY <1>1, FiniteRows, FiniteRowsNext
<1>6. ASSUME Staff(t)' = Staff(t), delegations' = delegations, \E i \in DOMAIN rows : rows[i].task = t
      PROVE  Cardinality(Staff(t)') > Cardinality(Active(t)')
  <2>1. Active(t)' = Active(t)
    BY <1>6 DEF Active
  <2> QED BY <1>4, <1>6, <2>1
\* The first row of a task.
<1>7. ASSUME NEW n \in Staff(t)', delegations' = delegations, \A i \in DOMAIN rows : rows[i].task # t
      PROVE  Cardinality(Staff(t)') > Cardinality(Active(t)')
  <2>1. Active(t)' = {}
    BY <1>7 DEF Active, Typed, DelegationTypes
  <2>2. Cardinality(Staff(t)') # 0
    BY <1>5, <1>7, FS_EmptySet
  <2>3. Cardinality(Active(t)') = 0
    BY <2>1, FS_EmptySet
  <2> QED BY <1>5, <2>2, <2>3
<1>8. CASE Fewer
  <2>1. \A i \in DOMAIN rows : rows'[i].status = rows[i].status
    BY <1>8 DEF Fewer
  <2>2. Staff(t)' = Staff(t)
    BY <1>3, <1>8, <2>1 DEF Fewer, Staff
  <2>3. \E i \in DOMAIN rows : rows[i].task = t
    BY <1>3, <1>8 DEF Fewer
  <2> QED BY <1>6, <1>8, <2>2, <2>3 DEF Fewer
<1>9. ASSUME NEW n \in Nat, Given(n) PROVE Cardinality(Staff(t)') > Cardinality(Active(t)')
  <2>1. /\ delegations' = delegations /\ n \notin DOMAIN rows /\ DOMAIN rows' = DOMAIN rows \cup {n} /\ rows'[n].status = "ASSIGNED"
        /\ \A i \in DOMAIN rows : rows'[i].status = rows[i].status /\ rows[i].task # rows'[n].task
    BY <1>9 DEF Given, Grown
  <2>2. CASE rows'[n].task = t
    <3>1. n \in Staff(t)'
      BY <2>1, <2>2 DEF Staff
    <3> QED BY <1>7, <2>1, <2>2, <3>1
  <2>3. CASE rows'[n].task # t
    <3>1. Staff(t)' = Staff(t)
      BY <1>3, <2>1, <2>3 DEF Staff
    <3>2. \E i \in DOMAIN rows : rows[i].task = t
      BY <1>3, <2>1, <2>3
    <3> QED BY <1>6, <2>1, <3>1, <3>2
  <2> QED BY <2>2, <2>3
<1>10. ASSUME NEW i \in Nat, NEW n \in Nat, TakenOver(i, n) PROVE Cardinality(Staff(t)') > Cardinality(Active(t)')
  <2>1. /\ delegations' = delegations /\ n \notin DOMAIN rows /\ DOMAIN rows' = DOMAIN rows \cup {n} /\ i \in DOMAIN rows
        /\ rows'[n].status = "ASSIGNED" /\ rows'[i].status = "CANCELLED"
        /\ \A x \in DOMAIN rows \ {i} : rows'[x].status = rows[x].status
    BY <1>10 DEF TakenOver, Grown
  <2>2. \/ rows'[n].task = rows[i].task
        \/ (\A x \in DOMAIN rows : rows[x].task # rows'[n].task) /\ rows'[i].task # t
    BY <1>10 DEF TakenOver
  <2>3. rows'[i].task = rows[i].task
    BY <1>3, <2>1
  <2>4. CASE rows'[n].task = t /\ rows[i].task = t
    <3>1. (Staff(t) \ {i}) \cup {n} \subseteq Staff(t)' /\ n \notin Staff(t)
      BY <1>3, <2>1, <2>4 DEF Staff
    <3>2. Cardinality(Staff(t)') >= Cardinality(Staff(t))
      BY <1>5, <3>1, CardSwapped
    <3>3. Active(t)' = Active(t)
      BY <2>1 DEF Active
    <3> QED BY <1>4, <1>5, <2>1, <2>4, <3>2, <3>3
  <2>5. CASE rows'[n].task = t /\ rows[i].task # t
    <3>1. n \in Staff(t)'
      BY <2>1, <2>5 DEF Staff
    <3> QED BY <1>7, <2>1, <2>2, <2>5, <3>1
  <2>6. CASE rows'[n].task # t
    <3>1. rows[i].task # t
      BY <2>2, <2>3, <2>6
    <3>2. Staff(t)' = Staff(t)
      BY <1>3, <2>1, <2>6, <3>1 DEF Staff
    <3>3. \E x \in DOMAIN rows : rows[x].task = t
      BY <1>3, <2>1, <2>6
    <3> QED BY <1>6, <2>1, <3>2, <3>3
  <2> QED BY <2>4, <2>5, <2>6
<1>11. ASSUME NEW i \in Nat, NEW n \in Nat, GivenAway(i, n) PROVE Cardinality(Staff(t)') > Cardinality(Active(t)')
  <2>1. PICK d \in Delegation : /\ d.task = rows[i].task /\ d.owner = rows[i].employee /\ d.status = "ACTIVE"
                                /\ delegations' = Append(delegations, d)
    BY <1>11 DEF GivenAway
  <2>2. PICK m : m = Len(delegations) + 1
    OBVIOUS
  <2>3. /\ m \notin DOMAIN delegations /\ DOMAIN delegations' = DOMAIN delegations \cup {m} /\ delegations'[m] = d
        /\ \A x \in DOMAIN delegations : delegations'[x] = delegations[x]
    BY <2>1, <2>2 DEF Typed, DelegationTypes
  <2>4. /\ i \in DOMAIN rows /\ n \notin DOMAIN rows /\ DOMAIN rows' = DOMAIN rows \cup {n} /\ rows'[n].status = "ASSIGNED"
        /\ rows'[n].task = rows[i].task /\ rows'[i].status = "DELEGATED"
        /\ \A x \in DOMAIN rows \ {i} : rows'[x].status = rows[x].status
    BY <1>11 DEF GivenAway, Grown
  <2>5. \E x \in DOMAIN rows : rows[x].task = t
    BY <1>3, <2>4
  <2>6. CASE rows[i].task = t
    <3>1. Staff(t) \cup {n} \subseteq Staff(t)' /\ n \notin Staff(t)
      BY <1>3, <2>4, <2>6 DEF Staff
    <3>2. Cardinality(Staff(t)') >= Cardinality(Staff(t)) + 1
      BY <1>5, <3>1, CardGrown
    <3>3. Active(t)' = Active(t) \cup {m} /\ m \notin Active(t)
      BY <2>1, <2>3, <2>6 DEF Active
    <3>4. Cardinality(Active(t)') = Cardinality(Active(t)) + 1
      BY <1>5, <3>3, FS_AddElement
    <3> QED BY <1>4, <1>5, <2>5, <3>2, <3>4
  <2>7. CASE rows[i].task # t
    <3>1. Staff(t)' = Staff(t)
      BY <1>3, <2>4, <2>7 DEF Staff
    <3>2. Active(t)' = Active(t)
      BY <2>1, <2>3, <2>7 DEF Active
    <3> QED BY <1>4, <2>5, <3>1, <3>2
  <2> QED BY <2>6, <2>7
<1>12. ASSUME NEW n \in Nat, GivenBack(n) PROVE Cardinality(Staff(t)') > Cardinality(Active(t)')
  <2>1. PICK d \in Delegation : d = delegations[n]
    BY <1>12 DEF GivenBack, Typed, DelegationTypes
  <2>2. PICK J \in SUBSET DOMAIN rows, I \in SUBSET DOMAIN rows : BackTo(d, J, I)
    BY <1>12, <2>1 DEF GivenBack
  <2>3. /\ n \in DOMAIN delegations /\ DOMAIN rows' = DOMAIN rows /\ d.status = "ACTIVE"
        /\ delegations' = [delegations EXCEPT ![n].status = "COMPLETED"]
    BY <1>12, <2>1 DEF GivenBack
  <2>4. /\ DOMAIN delegations' = DOMAIN delegations /\ delegations'[n].status = "COMPLETED"
        /\ \A x \in DOMAIN delegations \ {n} : delegations'[x] = delegations[x]
    <3>1. delegations'[n] = [d EXCEPT !.status = "COMPLETED"]
      BY <2>1, <2>3
    <3>2. delegations'[n].status = "COMPLETED"
      BY <3>1 DEF Delegation
    <3> QED BY <2>3, <3>2
  <2>5. \E x \in DOMAIN rows : rows[x].task = t
    BY <1>3, <2>3
  <2>6. Active(t)' = Active(t) \ {n}
    <3>1. n \notin Active(t)'
      BY <2>4 DEF Active
    <3> QED BY <2>4, <3>1 DEF Active
  <2>7. Staff(t) \ J \subseteq Staff(t)'
    BY <1>3, <2>2, <2>3 DEF Staff, BackTo
  <2>8. CASE d.task = t
    <3>1. n \in Active(t)
      BY <2>1, <2>3, <2>8 DEF Active
    <3>2. Cardinality(Active(t)') = Cardinality(Active(t)) - 1
      BY <1>5, <2>6, <3>1, FS_RemoveElement
    <3>3. PICK x : J \subseteq {x}
      BY <2>2 DEF BackTo
    <3>4. Staff(t) \ {x} \subseteq Staff(t)'
      BY <2>7, <3>3
    <3>5. Cardinality(Staff(t)') >= Cardinality(Staff(t)) - 1
      BY <1>5, <3>4, CardShrunk
    <3> QED BY <1>4, <1>5, <2>5, <3>2, <3>5
  <2>9. CASE d.task # t
    <3>1. n \notin Active(t)
      BY <2>1, <2>9 DEF Active
    <3>2. Active(t)' = Active(t)
      BY <2>6, <3>1
    <3>3. Staff(t) \subseteq Staff(t)'
      BY <2>2, <2>7, <2>9 DEF BackTo, Staff
    <3>4. Cardinality(Staff(t)) <= Cardinality(Staff(t)')
      BY <1>5, <3>3, CardTypes
    <3> QED BY <1>4, <1>5, <2>5, <3>2, <3>4
  <2> QED BY <2>8, <2>9
<1> QED BY <1>1, <1>8, <1>9, <1>10, <1>11, <1>12 DEF Staffing

-----------------------------------------------------------------------------
(* The theorem *)

ContinuityInv == Typed /\ RisksApart /\ Single /\ Matched /\ Staffed

LEMMA ContinuityInvInit == Work!Init => ContinuityInv
<1> SUFFICES ASSUME Work!Init PROVE ContinuityInv
  OBVIOUS
<1>1. task = [t \in WorkTasks |-> Work!NoTask] /\ rows = <<>> /\ risks = <<>> /\ delegations = <<>>
  BY DEF Work!Init
<1>2. \A t \in WorkTasks : ~Work!Exists(t)
  BY <1>1 DEF Work!Exists
<1>3. DOMAIN rows = {} /\ DOMAIN risks = {} /\ DOMAIN delegations = {}
  BY <1>1
<1>4. Typed
  BY <1>1, <1>2, <1>3 DEF Typed, TaskTypes, RowTypes, RiskTypes, DelegationTypes
<1>5. RisksApart /\ Single /\ Staffed
  BY <1>3 DEF RisksApart, Single, Work!Held, Staffed
<1>6. ASSUME NEW t \in WorkTasks PROVE \E f : Pairing(f, Delegated(t), Active(t), delegations, rows)
  <2>1. Delegated(t) = {}
    BY <1>3 DEF Delegated
  <2>2. PICK f : f = [i \in {} |-> i]
    OBVIOUS
  <2>3. Pairing(f, Delegated(t), Active(t), delegations, rows)
    BY <2>1, <2>2 DEF Pairing
  <2> QED BY <2>3
<1> QED BY <1>4, <1>5, <1>6 DEF ContinuityInv, Matched

LEMMA ContinuityInvNext == ContinuityInv /\ [Work!Next]_Work!vars => ContinuityInv'
<1> SUFFICES ASSUME ContinuityInv, [Work!Next]_Work!vars PROVE ContinuityInv'
  OBVIOUS
<1>1. CASE Work!Next
  <2>1. Classified
    BY <1>1, NextClassified DEF ContinuityInv
  <2> QED BY <2>1, RisksApartKept, SingleKept, MatchedKept, StaffedKept DEF ContinuityInv, Classified
<1>2. CASE UNCHANGED Work!vars
  <2>1. task' = task /\ rows' = rows /\ risks' = risks /\ delegations' = delegations /\ workMode' = workMode
    BY <1>2 DEF Work!vars
  <2>2. Typed'
    BY <2>1 DEF ContinuityInv, Typed, TaskTypes, Work!Exists, RowTypes, RiskTypes, DelegationTypes
  <2>3. RisksApart' /\ Single'
    BY <2>1 DEF ContinuityInv, RisksApart, Single, Work!Held
  <2>4. Matched'
    BY <2>1 DEF ContinuityInv, Matched, Delegated, Active
  <2>5. Staffed'
    BY <2>1 DEF ContinuityInv, Staffed, Staff, Active, HasChild, Work!Exists
  <2> QED BY <2>2, <2>3, <2>4, <2>5 DEF ContinuityInv
<1> QED BY <1>1, <1>2

LEMMA PairedReturn == ASSUME Typed, Matched PROVE Work!DelegationsReturn
<1> SUFFICES ASSUME NEW t \in WorkTasks, NEW e \in WorkEmployees
             PROVE  Cardinality({i \in Work!HeldBy(t, e) : rows[i].status = "DELEGATED"})
                      <= Cardinality({n \in DOMAIN delegations : /\ delegations[n].task = t /\ delegations[n].owner = e
                                                                 /\ delegations[n].status = "ACTIVE"})
  BY DEF Work!DelegationsReturn, Work!Cardinality, Cardinality
<1>1. PICK D : D = {i \in Work!HeldBy(t, e) : rows[i].status = "DELEGATED"}
  OBVIOUS
<1>2. PICK A : A = {n \in DOMAIN delegations : /\ delegations[n].task = t /\ delegations[n].owner = e
                                               /\ delegations[n].status = "ACTIVE"}
  OBVIOUS
<1>3. PICK f : Pairing(f, Delegated(t), Active(t), delegations, rows)
  BY DEF Matched
<1>4. \A i \in D : i \in Delegated(t) /\ rows[i].employee = e
  BY <1>1 DEF Work!HeldBy, Work!Held, Delegated
<1>5. \A i \in D : f[i] \in A
  BY <1>2, <1>3, <1>4 DEF Pairing, Active
<1>6. PICK g : g = [i \in D |-> f[i]]
  OBVIOUS
<1>7. g \in [D -> A] /\ \A i, j \in D : g[i] = g[j] => i = j
  BY <1>3, <1>4, <1>5, <1>6 DEF Pairing
<1>8. g \in Injection(D, A)
  BY <1>7 DEF Injection, IsInjective
<1>9. IsFiniteSet(A)
  <2>1. IsFiniteSet(Active(t)) /\ A \subseteq Active(t)
    BY <1>2, FiniteRows DEF Active
  <2> QED BY <2>1, FS_Subset
<1> QED BY <1>1, <1>2, <1>8, <1>9, FS_Injection

LEMMA SomebodyLeft == ASSUME Typed, Matched, Staffed PROVE Work!NobodyDropped
<1> SUFFICES ASSUME "assign" \notin workMode, NEW t \in WorkTasks, \E i \in DOMAIN rows : rows[i].task = t, ~HasChild(t),
                    \A i \in Work!Held(t) : rows[i].status # "ASSIGNED"
             PROVE  FALSE
  BY DEF Work!NobodyDropped, HasChild
<1>1. Cardinality(Staff(t)) > Cardinality(Active(t))
  BY DEF Staffed
<1>2. Staff(t) = Delegated(t)
  BY DEF Staff, Delegated, Work!Held
<1>3. PICK f : Pairing(f, Delegated(t), Active(t), delegations, rows)
  BY DEF Matched
<1>4. f \in Injection(Delegated(t), Active(t))
  BY <1>3 DEF Pairing, Injection, IsInjective
<1>5. Cardinality(Delegated(t)) <= Cardinality(Active(t))
  BY <1>4, FiniteRows, FS_Injection
<1> QED BY <1>1, <1>2, <1>5, FiniteRows

LEMMA OnceEach == ASSUME Typed, Single PROVE Work!HeldOnce
<1> SUFFICES ASSUME "decide" \notin workMode, NEW t \in WorkTasks, NEW e \in WorkEmployees PROVE Cardinality(Work!HeldBy(t, e)) <= 1
  BY DEF Work!HeldOnce, Work!Cardinality, Cardinality
<1>1. \A i, j \in Work!HeldBy(t, e) : i = j
  BY DEF Single, Work!HeldBy
<1>2. CASE Work!HeldBy(t, e) = {}
  BY <1>2, FS_EmptySet
<1>3. ASSUME NEW i \in Work!HeldBy(t, e) PROVE Cardinality(Work!HeldBy(t, e)) <= 1
  <2>1. Work!HeldBy(t, e) = {i}
    BY <1>1
  <2>2. Cardinality({i}) = 1
    BY FS_Singleton
  <2> QED BY <2>1, <2>2
<1> QED BY <1>2, <1>3

LEMMA ContinuityInvSound == ContinuityInv => Work!ContinuitySound
<1> SUFFICES ASSUME ContinuityInv PROVE Work!ContinuitySound
  OBVIOUS
<1>1. Work!ContinuityTypeOK
  <2>1. \A t \in WorkTasks : Work!Exists(t) => task[t] \in TaskRow
    BY DEF ContinuityInv, Typed, TaskTypes, Work!Exists
  <2>2. \A i \in DOMAIN rows : rows[i] \in Assignment /\ Work!Exists(rows[i].task)
    BY DEF ContinuityInv, Typed, RowTypes
  <2>3. \A t \in WorkTasks : Work!Exists(t) => /\ task[t].status \in Work!TaskStatuses /\ task[t].active \in BOOLEAN
                                               /\ task[t].parent # None => Work!Exists(task[t].parent)
    BY <2>1 DEF TaskRow, ContinuityInv, Typed, TaskTypes
  <2> QED BY <2>2, <2>3 DEF Work!ContinuityTypeOK, Assignment
<1>2. Work!OneRiskEach
  BY DEF ContinuityInv, RisksApart, Work!OneRiskEach, Work!RiskFor
<1> QED BY <1>1, <1>2, PairedReturn, SomebodyLeft, OnceEach DEF ContinuityInv, Work!ContinuitySound

\* Whatever the parts of the portfolio do, tasks go the way TaskContinuity says.
LEMMA WorkSteps == OfficeNext => [Work!Next]_Work!vars
BY DEF OfficeNext, ApprovalStep, ProjectsStep, WorkStep, RecordsStep, PlanStep, workVars, Work!vars

\* Tasks outlive the leave of those who work on them, for every number of employees, tasks,
\* leaves and rows: a risk is raised once, nobody holds a task twice until managers decide,
\* every delegated row has a delegation of its own that brings it back, and no sequence of
\* decisions leaves a task that had somebody to nobody.
THEOREM ContinuitySoundCorrect == OfficeSpec => []ContinuitySound
<1>1. OfficeInit => ContinuityInv
  BY ContinuityInvInit DEF OfficeInit
<1>2. ContinuityInv /\ [OfficeNext]_<<vars, projectVars, workVars, recordVars, planVars, part>> => ContinuityInv'
  <2>1. [OfficeNext]_<<vars, projectVars, workVars, recordVars, planVars, part>> => [Work!Next]_Work!vars
    BY WorkSteps DEF workVars, Work!vars
  <2> QED BY <2>1, ContinuityInvNext
<1>3. ContinuityInv => ContinuitySound
  BY ContinuityInvSound DEF ContinuitySound
<1> QED BY <1>1, <1>2, <1>3, PTL DEF OfficeSpec
===============================================================================
