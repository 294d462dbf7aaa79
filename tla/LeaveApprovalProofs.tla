------------------------- MODULE LeaveApprovalProofs -------------------------
(***************************************************************************)
(* Proofs about LeaveApproval.                                             *)
(***************************************************************************)
EXTENDS LeaveApproval, ApprovalEngineProofs

\* The length of a leave is a number.
LEMMA TotalDaysType ==
  ASSUME NEW a \in Applications
  PROVE  TotalDays(a) \in Nat
<1>1. a.from \in Nat /\ a.to \in Nat /\ Days \subseteq Nat
  BY LeaveAssumption
<1>2. Span(a) \cap WorkingDays \subseteq a.from..a.to
  <2> SUFFICES ASSUME NEW d \in Span(a) PROVE d \in a.from..a.to
    OBVIOUS
  <2>1. d \in Nat /\ a.from <= d /\ d <= a.to
    BY <1>1 DEF Span
  <2> QED BY <1>1, <2>1
<1>3. IsFiniteSet(a.from..a.to)
  BY <1>1, FS_Interval
<1>4. Cardinality(Span(a) \cap WorkingDays) \in Nat
  BY <1>2, <1>3, FS_Subset, FS_CardinalityType
<1> QED BY <1>4 DEF TotalDays

-----------------------------------------------------------------------------
(* What is approved, as a count *)

\* Rows of the table of leave requests.
Rows == requests \in [Targets -> {NoRequest} \cup [leave : Applications, status : LeaveStatuses]]

Lengths == [t \in Targets |-> IF requests[t] = NoRequest THEN 0 ELSE TotalDays(requests[t].leave)]

LEMMA LengthsType ==
  ASSUME Rows
  PROVE  /\ Lengths \in [Targets -> Nat]
         /\ \A t \in Targets : requests[t].status # "NONE" => Lengths[t] = TotalDays(requests[t].leave)
<1>1. ASSUME NEW t \in Targets, requests[t] # NoRequest
      PROVE  TotalDays(requests[t].leave) \in Nat
  BY <1>1, TotalDaysType DEF Rows
<1> QED BY <1>1 DEF Lengths, Rows, NoRequest

LEMMA DaysCount ==
  ASSUME Rows, NEW S \in SUBSET Targets, \A t \in S : requests[t].status # "NONE"
  PROVE  LeaveDays(S) = Cardinality(Dots(S, Lengths))
<1> DEFINE Body(h) == [s \in SUBSET S |->
                         IF s = {} THEN 0
                         ELSE TotalDays(requests[Picked(s)].leave) + h[s \ {Picked(s)}]]
           c == CHOOSE h : h = Body(h)
           g == Lengths
           G == [s \in SUBSET S |-> Cardinality(Dots(s, g))]
<1>1. LeaveDays(S) = c[S]
  BY DEF LeaveDays, MapThenSumSet, MapThenFoldSet, Picked
<1>2. S \subseteq Targets /\ IsFiniteSet(S)
  BY LeaveAssumption, FS_Subset
<1>3. \A x \in S : g[x] \in Nat /\ g[x] = TotalDays(requests[x].leave)
  BY <1>2, LengthsType
<1> HIDE DEF g
<1>4. \A s \in SUBSET S : s # {} => Picked(s) \in s /\ s \ {Picked(s)} \in SUBSET S
  BY DEF Picked
<1>5. \A s \in SUBSET S : s # {} => TotalDays(requests[Picked(s)].leave) = g[Picked(s)]
  BY <1>3, <1>4
<1>6. G = Body(G)
  <2>1. Cardinality(Dots({}, g)) = 0
    <3>1. Dots({}, g) = {}
      BY DEF Dots
    <3> QED BY <3>1, FS_EmptySet
  <2>2. ASSUME NEW s \in SUBSET S, s # {}
        PROVE  G[s] = TotalDays(requests[Picked(s)].leave) + G[s \ {Picked(s)}]
    <3>1. Cardinality(Dots(s, g)) = g[Picked(s)] + Cardinality(Dots(s \ {Picked(s)}, g))
      BY <1>2, <1>3, <1>4, <2>2, FS_Subset, DotsWithout
    <3> QED BY <1>4, <1>5, <2>2, <3>1
  <2>3. G[{}] = 0
    BY <2>1
  <2> QED BY <2>2, <2>3
<1> HIDE DEF G
<1>7. c = Body(c)
  BY <1>6
<1> HIDE DEF c
<1>8. SumsUp(c, g, S)
  BY <1>3, <1>5, <1>7 DEF SumsUp
<1> HIDE DEF Body
<1>9. c[S] = Cardinality(Dots(S, g))
  BY <1>2, <1>8, SumCountsDots
<1> QED BY <1>1, <1>9 DEF g

LEMMA DaysType ==
  ASSUME Rows, NEW S \in SUBSET Targets, \A t \in S : requests[t].status # "NONE"
  PROVE  LeaveDays(S) \in Nat
<1>1. IsFiniteSet(S) /\ \A t \in S : Lengths[t] \in Nat
  BY LeaveAssumption, FS_Subset, LengthsType
<1>2. IsFiniteSet(Dots(S, Lengths))
  BY <1>1, DotsFinite
<1> QED BY <1>2, DaysCount, FS_CardinalityType

LEMMA CountedRows ==
  ASSUME NEW e, NEW type
  PROVE  Counted(e, type) \in SUBSET Targets /\ \A t \in Counted(e, type) : requests[t].status # "NONE"
BY DEF Counted, Of

LEMMA ApprovedCounts ==
  ASSUME Rows, NEW e, NEW type
  PROVE  Approved(e, type) = Cardinality(Dots(Counted(e, type), Lengths))
BY CountedRows, DaysCount DEF Approved

LEMMA ApprovedType ==
  ASSUME Rows, NEW e, NEW type
  PROVE  Approved(e, type) \in Nat
BY CountedRows, DaysType DEF Approved

-----------------------------------------------------------------------------
(* What requests hold in memory *)

Applying == [op : {"apply", "applyLocked"}, target : Targets, leave : Applications, used : Nat]
Cancelling == [op : {"cancel"}, target : Targets, was : {"PENDING", "APPROVED"}]
Deciding == [op : {"decide", "decideLocked"}, target : Targets, leave : Applications,
             action : {"APPROVED", "REJECTED"}]

LeaveInMemory == txn \in [Workers -> Applying \cup Cancelling \cup Deciding \cup Acting \cup {Idle}]

Applies(r) == r.op \in {"apply", "applyLocked"}
Decides(r) == r.op \in {"decide", "decideLocked"}

\* An application is alone with its row, and every other request has a row to work on,
\* with the leave it read.
Fits(w) ==
  LET r == txn[w] IN
  /\ Applies(r) => /\ requests[r.target] = NoRequest
                   /\ \A v \in Workers \ {w} : txn[v] # Idle => txn[v].target # r.target
  /\ r # Idle /\ ~ Applies(r) => requests[r.target] # NoRequest
  /\ Decides(r) => requests[r.target].leave = r.leave

AllFit ==
  /\ \A w \in Workers : Fits(w)
  /\ \A t \in Targets : requests[t] = NoRequest => instances[t] = << >>

LeaveInv == TypeOK /\ Configured /\ LeaveInMemory /\ AllFit

\* A request begins, or goes on, without touching the tables.
LEMMA FitsReading ==
  ASSUME LeaveInMemory, AllFit, NEW w \in Workers, NEW r, txn' = [txn EXCEPT ![w] = r],
         UNCHANGED <<requests, instances>>,
         Applies(r) => /\ requests[r.target] = NoRequest
                       /\ \A v \in Workers \ {w} : txn[v] # Idle => txn[v].target # r.target,
         r # Idle /\ ~ Applies(r) => requests[r.target] # NoRequest,
         Decides(r) => requests[r.target].leave = r.leave
  PROVE  AllFit'
<1>1. txn'[w] = r /\ \A v \in Workers \ {w} : txn'[v] = txn[v]
  BY DEF LeaveInMemory
<1>2. Fits(w)'
  BY <1>1 DEF Fits
<1>3. ASSUME NEW v \in Workers \ {w} PROVE Fits(v)'
  <2>1. Applies(txn[v]) => requests[txn[v].target] = NoRequest
    BY DEF AllFit, Fits
  <2>2. Applies(txn[v]) /\ r # Idle => r.target # txn[v].target
    <3>1. CASE Applies(r)
      <4>1. txn[v] # Idle => txn[v].target # r.target
        BY <3>1
      <4>2. Applies(txn[v]) => txn[v] # Idle
        BY DEF Applies, Idle
      <4> QED BY <4>1, <4>2
    <3>2. CASE ~ Applies(r)
      BY <2>1, <3>2
    <3> QED BY <3>1, <3>2
  <2>3. \A z \in Workers \ {v} : Applies(txn[v]) /\ txn'[z] # Idle => txn'[z].target # txn[v].target
    BY <1>1, <2>2 DEF AllFit, Fits
  <2> QED BY <1>1, <2>3 DEF AllFit, Fits
<1> QED BY <1>2, <1>3 DEF AllFit

\* A request ends and leaves its row alone, or with the leave it had.
LEMMA FitsEnding ==
  ASSUME LeaveInMemory, AllFit, NEW w \in Workers, txn[w] # Idle, NEW t \in Targets, t = txn[w].target,
         txn' = [txn EXCEPT ![w] = Idle],
         \A u \in Targets \ {t} : requests'[u] = requests[u] /\ instances'[u] = instances[u],
         \/ requests'[t] = requests[t] /\ instances'[t] = instances[t]
         \/ /\ requests'[t] # NoRequest
            /\ requests[t] # NoRequest => requests'[t].leave = requests[t].leave
  PROVE  AllFit'
<1>1. txn'[w] = Idle /\ \A v \in Workers \ {w} : txn'[v] = txn[v]
  BY DEF LeaveInMemory
<1>2. Fits(w)'
  BY <1>1 DEF Fits, Applies, Decides, Idle
<1>3. ASSUME NEW v \in Workers \ {w}, txn[v] # Idle PROVE Fits(v)'
  <2>1. txn[v].target \in Targets
    BY <1>3 DEF LeaveInMemory, Applying, Cancelling, Deciding, Acting
  <2>2. \A z \in Workers \ {v} : txn'[z] # Idle => txn'[z] = txn[z] /\ txn[z] # Idle
    BY <1>1
  <2>3. CASE Applies(txn[v])
    <3>1. txn[v].target # t /\ requests[txn[v].target] = NoRequest
      BY <2>3 DEF AllFit, Fits
    <3>2. \A z \in Workers \ {v} : txn[z] # Idle => txn[z].target # txn[v].target
      BY <2>3 DEF AllFit, Fits
    <3> QED BY <1>1, <2>1, <2>2, <2>3, <3>1, <3>2 DEF Fits, Applies, Decides
  <2>4. CASE ~ Applies(txn[v])
    <3>1. /\ requests[txn[v].target] # NoRequest
          /\ Decides(txn[v]) => requests[txn[v].target].leave = txn[v].leave
      BY <1>3, <2>4 DEF AllFit, Fits
    <3> QED BY <1>1, <2>1, <2>4, <3>1 DEF Fits
  <2> QED BY <2>3, <2>4
<1>4. ASSUME NEW v \in Workers, txn[v] = Idle PROVE Fits(v)'
  BY <1>1, <1>4 DEF Fits, Applies, Decides, Idle
<1>5. \A u \in Targets : requests'[u] = NoRequest => instances'[u] = << >>
  BY DEF AllFit
<1> QED BY <1>2, <1>3, <1>4, <1>5 DEF AllFit

LEMMA LeaveInit == Init => LeaveInv
<1> SUFFICES ASSUME Init PROVE LeaveInv
  OBVIOUS
<1>1. EngineTypeOK /\ Configured
  BY EngineInitTypes, LeaveAssumption DEF Init
<1>2. today \in Days
  BY LeaveAssumption, MinIsLeast DEF Init
<1>3. TypeOK
  BY <1>1, <1>2 DEF Init, TypeOK
<1>4. LeaveInMemory /\ AllFit
  BY DEF Init, EngineInit, LeaveInMemory, AllFit, Fits, Applies, Decides, Idle
<1> QED BY <1>1, <1>3, <1>4 DEF LeaveInv

\* A request that only reads.
LEMMA ReadingKeeps ==
  ASSUME LeaveInv, NEW w \in Workers, NEW r \in Applying \cup Cancelling \cup Deciding \cup Acting \cup {Idle},
         txn' = [txn EXCEPT ![w] = r], UNCHANGED <<engine, records, today>>, AllFit'
  PROVE  LeaveInv'
BY DEF LeaveInv, TypeOK, EngineTypeOK, Configured, LeaveInMemory, engine, records

LEMMA ApplyReadKeeps ==
  ASSUME LeaveInv, NEW w \in Workers, NEW t \in Targets, NEW a \in Applications, ApplyRead(w, t, a)
  PROVE  LeaveInv'
<1> DEFINE r == [op |-> "apply", target |-> t, leave |-> a, used |-> used[<<Requester[t], a.type>>]]
<1>1. /\ txn' = [txn EXCEPT ![w] = r] /\ UNCHANGED <<engine, records, today>>
      /\ requests[t] = NoRequest
      /\ \A v \in Workers : txn[v] # Idle => txn[v].target # t
  BY DEF ApplyRead, StartRequest
<1>2. used[<<Requester[t], a.type>>] \in Nat
  BY LeaveAssumption, EngineAssumption DEF LeaveInv, TypeOK
<1>3. r \in Applying /\ r.op = "apply" /\ r.target = t
  BY <1>2 DEF Applying
<1> HIDE DEF r
<1>4. AllFit'
  BY <1>1, <1>3, FitsReading DEF LeaveInv, Applies, Decides, engine, records
<1> QED BY <1>1, <1>3, <1>4, ReadingKeeps

LEMMA ApplyLockKeeps ==
  ASSUME LeaveInv, NEW w \in Workers, ApplyLock(w)
  PROVE  LeaveInv'
<1>1. txn[w] \in Applying /\ Applies(txn[w])
  BY DEF ApplyLock, LeaveInv, LeaveInMemory, Cancelling, Deciding, Acting, Idle, Applies
<1> DEFINE r == [txn[w] EXCEPT !.op = "applyLocked"]
<1>2. r \in Applying /\ r.op = "applyLocked" /\ r.target = txn[w].target
  BY <1>1 DEF Applying
<1>3. UNCHANGED <<engine, records, today>>
  BY DEF ApplyLock
<1>4. CASE txn' = [txn EXCEPT ![w] = r]
  <2> HIDE DEF r
  <2>1. /\ requests[r.target] = NoRequest
        /\ \A v \in Workers \ {w} : txn[v] # Idle => txn[v].target # r.target
    BY <1>1, <1>2 DEF LeaveInv, AllFit, Fits
  <2>2. AllFit'
    BY <1>2, <1>3, <1>4, <2>1, FitsReading DEF LeaveInv, Applies, Decides, engine, records
  <2> QED BY <1>2, <1>3, <1>4, <2>2, ReadingKeeps
<1>5. CASE txn' = [txn EXCEPT ![w] = Idle]
  <2>1. AllFit'
    BY <1>3, <1>5, FitsReading DEF LeaveInv, Applies, Decides, engine, records, Idle
  <2> QED BY <1>3, <1>5, <2>1, ReadingKeeps
<1> QED BY <1>4, <1>5 DEF ApplyLock, EndRequest

LEMMA GrantTypes ==
  ASSUME LeaveInv, NEW t \in Targets, NEW a \in Applications
  PROVE  /\ Recomputed(Requester[t], a.type) \in [Employees \X LeaveTypes -> Nat]
         /\ onLeave \cup Marks(t, a) \subseteq Employees \X WorkingDays
<1>1. Approved(Requester[t], a.type) \in Nat
  BY ApprovedType DEF LeaveInv, TypeOK, Rows
<1>2. Requester[t] \in Employees
  BY EngineAssumption
<1>3. used \in [Employees \X LeaveTypes -> Nat] /\ onLeave \subseteq Employees \X WorkingDays
  BY DEF LeaveInv, TypeOK
<1>4. Recomputed(Requester[t], a.type) \in [Employees \X LeaveTypes -> Nat]
  BY <1>1, <1>3 DEF Recomputed
<1>5. Marks(t, a) \subseteq Employees \X WorkingDays
  BY <1>2 DEF Marks
<1> QED BY <1>3, <1>4, <1>5

LEMMA VerdictType ==
  ASSUME Rows, NEW t \in Targets, requests[t] # NoRequest, NEW v \in LeaveStatuses
  PROVE  /\ WithVerdict(t, v) \in [Targets -> {NoRequest} \cup [leave : Applications, status : LeaveStatuses]]
         /\ \A u \in Targets \ {t} : WithVerdict(t, v)[u] = requests[u]
         /\ WithVerdict(t, v)[t].leave = requests[t].leave
         /\ WithVerdict(t, v)[t].status = v /\ WithVerdict(t, v)[t] # NoRequest
         /\ requests[t].leave \in Applications /\ requests[t].status \in LeaveStatuses
<1>1. requests[t] \in [leave : Applications, status : LeaveStatuses]
  BY DEF Rows
<1>2. [requests[t] EXCEPT !.status = v] \in [leave : Applications, status : LeaveStatuses]
  BY <1>1
<1>3. [requests[t] EXCEPT !.status = v].leave = requests[t].leave
      /\ [requests[t] EXCEPT !.status = v].status = v
  BY <1>1
<1>4. WithVerdict(t, v)[t] = [requests[t] EXCEPT !.status = v]
  BY DEF WithVerdict, Rows
<1>5. v # "NONE"
  BY DEF LeaveStatuses
<1> QED BY <1>1, <1>2, <1>3, <1>4, <1>5 DEF WithVerdict, Rows, NoRequest

LEMMA ApplyWriteKeeps ==
  ASSUME LeaveInv, NEW w \in Workers, ApplyWrite(w)
  PROVE  LeaveInv'
<1>1. txn[w] \in Applying /\ Applies(txn[w]) /\ txn[w] # Idle
  BY DEF ApplyWrite, LeaveInv, LeaveInMemory, Cancelling, Deciding, Acting, Idle, Applies
<1>2. PICK t \in Targets : t = txn[w].target
  BY <1>1 DEF Applying
<1>3. PICK a \in Applications : a = txn[w].leave
  BY <1>1 DEF Applying
<1>4. PICK v \in {"PENDING", "APPROVED"} :
        /\ StartFlow(t, v)
        /\ requests' = [requests EXCEPT ![t] = [leave |-> a, status |-> v]]
        /\ IF v = "APPROVED" THEN Grant(t, a) ELSE UNCHANGED <<used, onLeave>>
  BY <1>2, <1>3 DEF ApplyWrite
<1>5. /\ instances \in [Targets -> Seq(Instance)] /\ Configured /\ Rows
      /\ used \in [Employees \X LeaveTypes -> Nat] /\ onLeave \subseteq Employees \X WorkingDays
  BY DEF LeaveInv, TypeOK, EngineTypeOK, Rows
<1>6. PICK rows \in Seq(Instance) : instances' = [instances EXCEPT ![t] = @ \o rows]
  BY <1>4, <1>5, StartFlowShape
<1>7. instances' \in [Targets -> Seq(Instance)]
  <2>1. instances[t] \o rows \in Seq(Instance)
    BY <1>5
  <2> QED BY <1>5, <1>6, <2>1
<1>8. /\ requests'[t] # NoRequest /\ \A u \in Targets \ {t} : requests'[u] = requests[u]
      /\ requests' \in [Targets -> {NoRequest} \cup [leave : Applications, status : LeaveStatuses]]
  BY <1>4, <1>5 DEF Rows, NoRequest, LeaveStatuses
<1>9. /\ used' \in [Employees \X LeaveTypes -> Nat] /\ onLeave' \subseteq Employees \X WorkingDays
  BY <1>4, <1>5, GrantTypes DEF Grant
<1>10. txn' = [txn EXCEPT ![w] = Idle] /\ UNCHANGED <<workflows, org, today>>
  BY DEF ApplyWrite, EndRequest
<1>11. requests[t] = NoRequest
  BY <1>1, <1>2 DEF LeaveInv, AllFit, Fits
<1>12. AllFit'
  <2>1. \A u \in Targets \ {t} : instances'[u] = instances[u]
    BY <1>5, <1>6
  <2>2. LeaveInMemory /\ AllFit
    BY DEF LeaveInv
  <2> QED BY <1>1, <1>2, <1>8, <1>10, <1>11, <2>1, <2>2, FitsEnding
<1>13. LeaveInMemory'
  BY <1>10 DEF LeaveInv, LeaveInMemory
<1> QED BY <1>7, <1>8, <1>9, <1>10, <1>12, <1>13 DEF LeaveInv, TypeOK, EngineTypeOK, Configured

LEMMA CancelReadKeeps ==
  ASSUME LeaveInv, NEW w \in Workers, NEW t \in Targets, CancelRead(w, t)
  PROVE  LeaveInv'
<1> DEFINE r == [op |-> "cancel", target |-> t, was |-> requests[t].status]
<1>1. /\ txn' = [txn EXCEPT ![w] = r] /\ UNCHANGED <<engine, records, today>>
      /\ requests[t].status \in {"PENDING", "APPROVED"}
  BY DEF CancelRead, StartRequest
<1>2. r \in Cancelling /\ r.op = "cancel" /\ r.target = t
  BY <1>1 DEF Cancelling
<1> HIDE DEF r
<1>3. requests[t] # NoRequest
  BY <1>1 DEF NoRequest
<1>4. AllFit'
  BY <1>1, <1>2, <1>3, FitsReading DEF LeaveInv, Applies, Decides, engine, records
<1> QED BY <1>1, <1>2, <1>4, ReadingKeeps

LEMMA CancelWriteKeeps ==
  ASSUME LeaveInv, NEW w \in Workers, CancelWrite(w)
  PROVE  LeaveInv'
<1>1. txn[w] \in Cancelling /\ ~ Applies(txn[w]) /\ txn[w] # Idle
  BY DEF CancelWrite, LeaveInv, LeaveInMemory, Applying, Deciding, Acting, Idle, Applies
<1>2. PICK t \in Targets : t = txn[w].target
  BY <1>1 DEF Cancelling
<1>3. requests[t] # NoRequest /\ Rows
  BY <1>1, <1>2 DEF LeaveInv, AllFit, Fits, TypeOK, Rows
<1>4. /\ requests' = WithVerdict(t, "CANCELLED") /\ UNCHANGED <<engine, today>>
      /\ txn' = [txn EXCEPT ![w] = Idle]
  BY <1>2 DEF CancelWrite, EndRequest
<1>5. "CANCELLED" \in LeaveStatuses
  BY DEF LeaveStatuses
<1>6. /\ requests' \in [Targets -> {NoRequest} \cup [leave : Applications, status : LeaveStatuses]]
      /\ \A u \in Targets \ {t} : requests'[u] = requests[u]
      /\ requests'[t].leave = requests[t].leave /\ requests'[t] # NoRequest
      /\ requests[t].leave \in Applications
  BY <1>3, <1>4, <1>5, VerdictType
<1>7. AllFit'
  BY <1>1, <1>2, <1>4, <1>6, FitsEnding DEF LeaveInv, engine
<1>8. /\ used' \in [Employees \X LeaveTypes -> Nat] /\ onLeave' \subseteq Employees \X WorkingDays
  <2> DEFINE e == Requester[t]
             type == requests[t].leave.type
             S == Counted(e, type) \ {t}
  <2>1. LeaveDays(S) \in Nat
    BY <1>3, CountedRows, DaysType
  <2>2. /\ onLeave' = onLeave \/ onLeave' = onLeave \ {<<e, d>> : d \in Span(requests[t].leave)}
        /\ used' = used \/ used' = [used EXCEPT ![<<e, type>>] = LeaveDays(S)]
    BY <1>2 DEF CancelWrite
  <2> HIDE DEF S, type
  <2> QED BY <2>1, <2>2 DEF LeaveInv, TypeOK
<1>9. LeaveInMemory'
  BY <1>4 DEF LeaveInv, LeaveInMemory
<1> QED BY <1>4, <1>6, <1>7, <1>8, <1>9 DEF LeaveInv, TypeOK, EngineTypeOK, Configured, engine

LEMMA DecideReadKeeps ==
  ASSUME LeaveInv, NEW w \in Workers, NEW t \in Targets, NEW x \in {"APPROVED", "REJECTED"},
         DecideRead(w, t, x)
  PROVE  LeaveInv'
<1> DEFINE r == [op |-> "decide", target |-> t, leave |-> requests[t].leave, action |-> x]
<1>1. /\ txn' = [txn EXCEPT ![w] = r] /\ UNCHANGED <<engine, records, today>>
      /\ requests[t].status = "PENDING"
  BY DEF DecideRead, StartRequest
<1>2. requests[t] # NoRequest
  BY <1>1 DEF NoRequest
<1>3. requests[t].leave \in Applications
  BY <1>2 DEF LeaveInv, TypeOK
<1>4. r \in Deciding /\ r.op = "decide" /\ r.target = t /\ r.leave = requests[t].leave
  BY <1>3 DEF Deciding
<1> HIDE DEF r
<1>5. AllFit'
  BY <1>1, <1>2, <1>4, FitsReading DEF LeaveInv, Applies, Decides, engine, records
<1> QED BY <1>1, <1>4, <1>5, ReadingKeeps

LEMMA DecideLockKeeps ==
  ASSUME LeaveInv, NEW w \in Workers, DecideLock(w)
  PROVE  LeaveInv'
<1>1. txn[w] \in Deciding /\ Decides(txn[w]) /\ ~ Applies(txn[w]) /\ txn[w] # Idle
  BY DEF DecideLock, LeaveInv, LeaveInMemory, Cancelling, Applying, Acting, Idle, Applies, Decides
<1> DEFINE r == [txn[w] EXCEPT !.op = "decideLocked"]
<1>2. r \in Deciding /\ r.op = "decideLocked" /\ r.target = txn[w].target /\ r.leave = txn[w].leave
  BY <1>1 DEF Deciding
<1>3. UNCHANGED <<engine, records, today>>
  BY DEF DecideLock
<1>4. CASE txn' = [txn EXCEPT ![w] = r]
  <2> HIDE DEF r
  <2>1. requests[r.target] # NoRequest /\ requests[r.target].leave = r.leave
    BY <1>1, <1>2 DEF LeaveInv, AllFit, Fits
  <2>2. AllFit'
    BY <1>2, <1>3, <1>4, <2>1, FitsReading DEF LeaveInv, Applies, Decides, engine, records
  <2> QED BY <1>2, <1>3, <1>4, <2>2, ReadingKeeps
<1>5. CASE txn' = [txn EXCEPT ![w] = Idle]
  <2>1. AllFit'
    BY <1>3, <1>5, FitsReading DEF LeaveInv, Applies, Decides, engine, records, Idle
  <2> QED BY <1>3, <1>5, <2>1, ReadingKeeps
<1> QED BY <1>4, <1>5 DEF DecideLock, EndRequest

LEMMA DecideWriteKeeps ==
  ASSUME LeaveInv, NEW w \in Workers, DecideWrite(w)
  PROVE  LeaveInv'
<1>1. txn[w] \in Deciding /\ ~ Applies(txn[w]) /\ txn[w] # Idle
  BY DEF DecideWrite, LeaveInv, LeaveInMemory, Cancelling, Applying, Acting, Idle, Applies
<1>2. PICK t \in Targets : t = txn[w].target
  BY <1>1 DEF Deciding
<1>3. PICK a \in Applications : a = txn[w].leave
  BY <1>1 DEF Deciding
<1>4. PICK x \in LeaveStatuses : x = txn[w].action
  BY <1>1 DEF Deciding, LeaveStatuses
<1>5. requests[t] # NoRequest /\ Rows
  BY <1>1, <1>2 DEF LeaveInv, AllFit, Fits, TypeOK, Rows
<1>6. /\ requests' = WithVerdict(t, x) /\ UNCHANGED <<engine, today>>
      /\ txn' = [txn EXCEPT ![w] = Idle]
      /\ Grant(t, a) \/ UNCHANGED <<used, onLeave>>
  BY <1>2, <1>3, <1>4 DEF DecideWrite, EndRequest
<1>7. /\ requests' \in [Targets -> {NoRequest} \cup [leave : Applications, status : LeaveStatuses]]
      /\ \A u \in Targets \ {t} : requests'[u] = requests[u]
      /\ requests'[t].leave = requests[t].leave /\ requests'[t] # NoRequest
  BY <1>5, <1>6, VerdictType
<1>8. AllFit'
  BY <1>1, <1>2, <1>6, <1>7, FitsEnding DEF LeaveInv, engine
<1>9. /\ used' \in [Employees \X LeaveTypes -> Nat] /\ onLeave' \subseteq Employees \X WorkingDays
  BY <1>6, GrantTypes DEF Grant, LeaveInv, TypeOK
<1>10. LeaveInMemory'
  BY <1>6 DEF LeaveInv, LeaveInMemory
<1> QED BY <1>6, <1>7, <1>8, <1>9, <1>10 DEF LeaveInv, TypeOK, EngineTypeOK, Configured, engine

LEMMA EngineReadingKeeps ==
  ASSUME LeaveInv, NEW w \in Workers, UNCHANGED <<records, today>>,
         \/ ActLook(w)
         \/ \E x \in Employees, t \in Targets : \E i \in DOMAIN instances[t], a \in {"APPROVED", "REJECTED"} :
              ActRead(w, x, t, i, a)
  PROVE  LeaveInv'
<1>1. instances \in [Targets -> Seq(Instance)] /\ LeaveInMemory /\ AllFit
  BY DEF LeaveInv, TypeOK, EngineTypeOK
<1>2. ASSUME NEW r \in Acting, txn' = [txn EXCEPT ![w] = r], requests[r.target] # NoRequest, UNCHANGED engine
      PROVE  LeaveInv'
  <2>1. ~ Applies(r) /\ ~ Decides(r)
    BY DEF Acting, Applies, Decides
  <2>2. AllFit'
    BY <1>1, <1>2, <2>1, FitsReading DEF engine, records
  <2> QED BY <1>2, <2>2, ReadingKeeps
<1>3. ASSUME NEW x \in Employees, NEW t \in Targets, NEW i \in DOMAIN instances[t],
             NEW a \in {"APPROVED", "REJECTED"}, ActRead(w, x, t, i, a)
      PROVE  LeaveInv'
  <2>1. PICK r \in Acting : txn' = [txn EXCEPT ![w] = r] /\ r.target = t
    BY <1>1, <1>3, ActReadType
  <2>2. requests[t] # NoRequest
    BY <1>3 DEF LeaveInv, AllFit
  <2>3. UNCHANGED engine
    BY <1>3 DEF ActRead, engine
  <2> QED BY <1>2, <2>1, <2>2, <2>3
<1>4. CASE ActLook(w)
  <2>1. txn[w] \in Acting /\ txn[w] # Idle /\ ~ Applies(txn[w])
    <3>1. txn[w].op = "act"
      BY <1>4 DEF ActLook
    <3> QED BY <3>1 DEF LeaveInv, LeaveInMemory, Cancelling, Applying, Deciding, Idle, Applies
  <2>2. PICK r \in Acting : txn' = [txn EXCEPT ![w] = r] /\ r.target = txn[w].target
    BY <1>1, <1>4, <2>1, ActLookType
  <2>3. requests[r.target] # NoRequest
    BY <2>1, <2>2 DEF LeaveInv, AllFit, Fits
  <2>4. UNCHANGED engine
    BY <1>4 DEF ActLook, engine
  <2> QED BY <1>2, <2>2, <2>3, <2>4
<1> QED BY <1>3, <1>4

LEMMA ActWriteKeeps ==
  ASSUME LeaveInv, NEW w \in Workers, ActWrite(w)
  PROVE  LeaveInv'
<1>1. PICK v \in Verdicts :
        /\ ActCommit(w, v)
        /\ requests' = IF v = "PENDING" THEN requests ELSE WithVerdict(txn[w].target, v)
        /\ IF v = "APPROVED" THEN Grant(txn[w].target, requests[txn[w].target].leave)
           ELSE UNCHANGED <<used, onLeave>>
  BY DEF ActWrite
<1>2. txn[w] \in Acting /\ ~ Applies(txn[w]) /\ txn[w] # Idle
  BY <1>1 DEF ActCommit, LeaveInv, LeaveInMemory, Cancelling, Applying, Deciding, Idle, Applies
<1>3. PICK t \in Targets : t = txn[w].target
  BY <1>2 DEF Acting
<1>4. requests[t] # NoRequest /\ Rows
  BY <1>2, <1>3 DEF LeaveInv, AllFit, Fits, TypeOK, Rows
<1>5. /\ txn' = [txn EXCEPT ![w] = Idle] /\ UNCHANGED <<workflows, org, today>>
  BY <1>1 DEF ActCommit, EndRequest, ActWrite
<1>6. /\ instances' \in [Targets -> Seq(Instance)]
      /\ \A u \in Targets \ {t} : instances'[u] = instances[u]
  BY <1>1, <1>2, <1>3, ActCommitType DEF LeaveInv, TypeOK, EngineTypeOK
<1>7. v \in LeaveStatuses
  BY DEF Verdicts, LeaveStatuses
<1>8. /\ requests' \in [Targets -> {NoRequest} \cup [leave : Applications, status : LeaveStatuses]]
      /\ \A u \in Targets \ {t} : requests'[u] = requests[u]
      /\ requests'[t].leave = requests[t].leave /\ requests'[t] # NoRequest
      /\ requests[t].leave \in Applications
  BY <1>1, <1>3, <1>4, <1>7, VerdictType DEF Rows
<1>9. AllFit'
  <2>1. \A u \in Targets \ {t} : requests'[u] = requests[u] /\ instances'[u] = instances[u]
    BY <1>6, <1>8
  <2>2. LeaveInMemory /\ AllFit
    BY DEF LeaveInv
  <2> QED BY <1>2, <1>3, <1>5, <1>8, <2>1, <2>2, FitsEnding
<1>10. /\ used' \in [Employees \X LeaveTypes -> Nat] /\ onLeave' \subseteq Employees \X WorkingDays
  BY <1>1, <1>3, <1>8, GrantTypes DEF Grant, LeaveInv, TypeOK
<1>11. LeaveInMemory'
  BY <1>5 DEF LeaveInv, LeaveInMemory
<1> QED BY <1>5, <1>6, <1>8, <1>9, <1>10, <1>11 DEF LeaveInv, TypeOK, EngineTypeOK, Configured

LEMMA AbortKeeps ==
  ASSUME LeaveInv, NEW w \in Workers, Abort(w)
  PROVE  LeaveInv'
<1>1. /\ txn' = [txn EXCEPT ![w] = Idle] /\ UNCHANGED <<engine, records, today>>
  BY DEF Abort, AbortRequest, EndRequest, engine, records
<1>2. AllFit'
  BY <1>1, FitsReading DEF LeaveInv, Applies, Decides, engine, records, Idle
<1> QED BY <1>1, <1>2, ReadingKeeps

LEMMA LeaveKept == LeaveInv /\ [Next]_vars => LeaveInv'
<1> SUFFICES ASSUME LeaveInv, [Next]_vars PROVE LeaveInv'
  OBVIOUS
<1>1. ASSUME UNCHANGED <<engine, txn, records>>, today' \in Days PROVE LeaveInv'
  BY <1>1 DEF LeaveInv, TypeOK, EngineTypeOK, Configured, LeaveInMemory, AllFit, Fits, engine, records
<1>2. ASSUME NEW w \in Workers, Serve(w) PROVE LeaveInv'
  BY <1>2, ApplyReadKeeps, ApplyLockKeeps, ApplyWriteKeeps, CancelReadKeeps, CancelWriteKeeps,
     DecideReadKeeps, DecideLockKeeps, DecideWriteKeeps DEF Serve
<1>3. ASSUME NEW w \in Workers, Engine(w) PROVE LeaveInv'
  <2>1. CASE ActWrite(w)
    BY <2>1, ActWriteKeeps
  <2> QED BY <1>3, <2>1, EngineReadingKeeps DEF Engine
<1>4. CASE Tomorrow
  BY <1>1, <1>4 DEF Tomorrow
<1>5. CASE UNCHANGED vars
  BY <1>1, <1>5 DEF vars, engine, records, LeaveInv, TypeOK
<1> QED BY <1>2, <1>3, <1>4, <1>5, AbortKeeps DEF Next

LEMMA LeaveAlways == Spec => []LeaveInv
BY LeaveInit, LeaveKept, PTL DEF Spec

\* The tables of leave requests, balances and attendance keep their shape, and nobody is
\* ever marked on leave on a day off, however applications, cancellations, decisions and
\* approvals overlap.
THEOREM LeaveTypeCorrect == Spec => []TypeOK
<1>1. LeaveInv => TypeOK
  BY DEF LeaveInv
<1> QED BY <1>1, LeaveAlways, PTL

-----------------------------------------------------------------------------
(* The allowance *)

\* The count says the same of the table after a step.
LEMMA ApprovedCountsNext ==
  ASSUME NEW e, NEW type
  PROVE  /\ Rows => /\ Approved(e, type) \in Nat
                    /\ Approved(e, type) = Cardinality(Dots(Counted(e, type), Lengths))
                    /\ IsFiniteSet(Dots(Counted(e, type), Lengths))
         /\ Rows' => /\ Approved(e, type)' \in Nat
                     /\ Approved(e, type)' = Cardinality(Dots(Counted(e, type)', Lengths'))
                     /\ IsFiniteSet(Dots(Counted(e, type)', Lengths'))
<1>1. Rows => /\ Approved(e, type) \in Nat
              /\ Approved(e, type) = Cardinality(Dots(Counted(e, type), Lengths))
              /\ IsFiniteSet(Dots(Counted(e, type), Lengths))
  <2> SUFFICES ASSUME Rows PROVE IsFiniteSet(Dots(Counted(e, type), Lengths))
    BY ApprovedCounts, ApprovedType
  <2>1. Counted(e, type) \subseteq Targets
    BY DEF Counted, Of
  <2>2. IsFiniteSet(Counted(e, type)) /\ \A t \in Counted(e, type) : Lengths[t] \in Nat
    BY <2>1, LeaveAssumption, FS_Subset, LengthsType
  <2> QED BY <2>2, DotsFinite
<1>2. (Rows => /\ Approved(e, type) \in Nat
               /\ Approved(e, type) = Cardinality(Dots(Counted(e, type), Lengths))
               /\ IsFiniteSet(Dots(Counted(e, type), Lengths)))'
  BY <1>1, PTL
<1> QED BY <1>1, <1>2 

LEMMA ApprovedShrinks ==
  ASSUME Rows, Rows', NEW e, NEW type,
         \A u \in Counted(e, type)' : u \in Counted(e, type) /\ Lengths'[u] = Lengths[u]
  PROVE  Approved(e, type)' <= Approved(e, type)
<1> DEFINE A == Dots(Counted(e, type), Lengths)
           B == Dots(Counted(e, type)', Lengths')
<1>1. B \subseteq A
  BY DEF Dots
<1> HIDE DEF A, B
<1>2. Approved(e, type) = Cardinality(A) /\ IsFiniteSet(A) /\ Approved(e, type)' = Cardinality(B)
  BY ApprovedCountsNext DEF A, B
<1>3. Cardinality(B) <= Cardinality(A)
  BY <1>1, <1>2, FS_Subset
<1> QED BY <1>2, <1>3

LEMMA ApprovedGrows ==
  ASSUME Rows, Rows', NEW e, NEW type, NEW t \in Targets, NEW n \in Nat,
         \A u \in Counted(e, type)' \ {t} : u \in Counted(e, type) /\ Lengths'[u] = Lengths[u],
         Lengths'[t] = n
  PROVE  Approved(e, type)' <= Approved(e, type) + n
<1> DEFINE A == Dots(Counted(e, type), Lengths)
           B == Dots(Counted(e, type)', Lengths')
           C == Dots({t}, Lengths')
<1>1. B \subseteq A \cup C
  BY DEF Dots
<1>2. IsFiniteSet(C) /\ Cardinality(C) = n
  <2>1. PICK g : g = Lengths'
    OBVIOUS
  <2>2. IsFiniteSet(Dots({t}, g)) /\ Cardinality(Dots({t}, g)) = g[t]
    BY <2>1, DotsAbove
  <2> QED BY <2>1, <2>2
<1> HIDE DEF A, B, C
<1>3. Approved(e, type) = Cardinality(A) /\ IsFiniteSet(A) /\ Approved(e, type)' = Cardinality(B)
  BY ApprovedCountsNext DEF A, B
<1>4. IsFiniteSet(A \cup C) /\ Cardinality(A \cup C) = Cardinality(A) + Cardinality(C) - Cardinality(A \cap C)
  BY <1>2, <1>3, FS_Union
<1>5. Cardinality(B) <= Cardinality(A \cup C)
  BY <1>1, <1>4, FS_Subset
<1>6. IsFiniteSet(A \cap C) /\ IsFiniteSet(B)
  <2>1. A \cap C \subseteq A
    OBVIOUS
  <2> QED BY <1>1, <1>3, <1>4, <2>1, FS_Subset
<1>7. Cardinality(A) \in Nat /\ Cardinality(B) \in Nat /\ Cardinality(A \cap C) \in Nat
  BY <1>3, <1>6, FS_CardinalityType
<1> QED BY <1>2, <1>3, <1>4, <1>5, <1>7

\* Leave is decided directly, and none is granted without being asked.
DirectOnly == \A t \in Targets : "engine" \notin DecidedBy[t]
AllWait == \A t \in Targets : \A rows \in FlowRows(t) : FlowStatus(rows) = "PENDING"

\* One request holds the balance row of an employee and a type, and a decision that holds
\* it has room for what it is about to approve.
OneHolder ==
  \A v, w \in Workers :
    (/\ txn[v].op \in Holding /\ txn[w].op \in Holding
     /\ Requester[txn[v].target] = Requester[txn[w].target]
     /\ txn[v].leave.type = txn[w].leave.type)
    => v = w

HasRoom(r) ==
  r.op = "decideLocked" =>
    /\ r.action = "APPROVED"
    /\ Approved(Requester[r.target], r.leave.type) + TotalDays(r.leave) <= Entitlement[r.leave.type]

NoEngine == \A w \in Workers : txn[w].op \notin {"act", "looked"}

HolderInv == LeaveInv /\ NoEngine /\ OneHolder

LEMMA HolderInit == Init => HolderInv
<1> SUFFICES ASSUME Init PROVE HolderInv
  OBVIOUS
<1>1. \A w \in Workers : txn[w] = Idle
  BY DEF Init, EngineInit
<1> QED BY <1>1, LeaveInit DEF HolderInv, NoEngine, OneHolder, Holding, Idle

LEMMA HolderKept == DirectOnly /\ HolderInv /\ [Next]_vars => HolderInv'
<1> SUFFICES ASSUME DirectOnly, HolderInv, [Next]_vars PROVE HolderInv'
  OBVIOUS
<1>1. LeaveInv'
  BY LeaveKept DEF HolderInv
<1>2. txn \in [Workers -> Applying \cup Cancelling \cup Deciding \cup Acting \cup {Idle}]
  BY DEF HolderInv, LeaveInv, LeaveInMemory
<1>3. ASSUME NEW w \in Workers, NEW r, txn' = [txn EXCEPT ![w] = r], r.op \notin {"act", "looked"},
             r.op \in Holding => ~ Locked(Requester[r.target], r.leave.type)
      PROVE  NoEngine' /\ OneHolder'
  <2>1. txn'[w] = r /\ \A v \in Workers \ {w} : txn'[v] = txn[v]
    BY <1>2, <1>3
  <2>2. NoEngine'
    BY <1>3, <2>1 DEF HolderInv, NoEngine
  <2>3. ASSUME NEW v \in Workers \ {w}, r.op \in Holding, txn[v].op \in Holding,
               Requester[txn[v].target] = Requester[r.target], txn[v].leave.type = r.leave.type
        PROVE  FALSE
    BY <1>3, <2>3 DEF Locked
  <2>4. OneHolder'
    BY <2>1, <2>3 DEF HolderInv, OneHolder
  <2> QED BY <2>2, <2>4
<1>4. ASSUME NEW w \in Workers, EndRequest(w) PROVE NoEngine' /\ OneHolder'
  BY <1>3, <1>4 DEF EndRequest, Idle, Holding
<1>5. ASSUME NEW w \in Workers, NEW r, StartRequest(w, r), r.op \in {"apply", "cancel", "decide"}
      PROVE  NoEngine' /\ OneHolder'
  BY <1>3, <1>5 DEF StartRequest, Holding
<1>6. ASSUME NEW w \in Workers, ApplyLock(w) PROVE NoEngine' /\ OneHolder'
  <2> DEFINE r == [txn[w] EXCEPT !.op = "applyLocked"]
  <2>1. txn[w] \in Applying
    BY <1>2, <1>6 DEF ApplyLock, Cancelling, Deciding, Acting, Idle
  <2>2. r.op = "applyLocked" /\ r.target = txn[w].target /\ r.leave = txn[w].leave
    BY <2>1 DEF Applying
  <2>3. ~ Locked(Requester[txn[w].target], txn[w].leave.type)
    BY <1>6 DEF ApplyLock
  <2>4. txn' = [txn EXCEPT ![w] = r] \/ EndRequest(w)
    BY <1>6 DEF ApplyLock
  <2> HIDE DEF r
  <2> QED BY <1>3, <1>4, <2>2, <2>3, <2>4
<1>7. ASSUME NEW w \in Workers, DecideLock(w) PROVE NoEngine' /\ OneHolder'
  <2> DEFINE r == [txn[w] EXCEPT !.op = "decideLocked"]
  <2>1. txn[w] \in Deciding
    BY <1>2, <1>7 DEF DecideLock, Cancelling, Applying, Acting, Idle
  <2>2. r.op = "decideLocked" /\ r.target = txn[w].target /\ r.leave = txn[w].leave
    BY <2>1 DEF Deciding
  <2>3. ~ Locked(Requester[txn[w].target], txn[w].leave.type)
    BY <1>7 DEF DecideLock
  <2>4. txn' = [txn EXCEPT ![w] = r] \/ EndRequest(w)
    BY <1>7 DEF DecideLock
  <2> HIDE DEF r
  <2> QED BY <1>3, <1>4, <2>2, <2>3, <2>4
<1>8. ASSUME NEW w \in Workers, Serve(w) PROVE NoEngine' /\ OneHolder'
  <2>1. ASSUME NEW t \in Targets, NEW a \in Applications, ApplyRead(w, t, a)
        PROVE  NoEngine' /\ OneHolder'
    BY <1>5, <2>1 DEF ApplyRead
  <2>2. ASSUME NEW t \in Targets, CancelRead(w, t) PROVE NoEngine' /\ OneHolder'
    BY <1>5, <2>2 DEF CancelRead
  <2>3. ASSUME NEW t \in Targets, NEW a \in {"APPROVED", "REJECTED"}, DecideRead(w, t, a)
        PROVE  NoEngine' /\ OneHolder'
    BY <1>5, <2>3 DEF DecideRead
  <2>4. ApplyWrite(w) \/ CancelWrite(w) \/ DecideWrite(w) => EndRequest(w)
    BY DEF ApplyWrite, CancelWrite, DecideWrite
  <2> QED BY <1>4, <1>6, <1>7, <1>8, <2>1, <2>2, <2>3, <2>4 DEF Serve
<1>9. ASSUME NEW w \in Workers, Engine(w) PROVE FALSE
  <2>1. ~ ActLook(w) /\ ~ ActWrite(w)
    BY DEF HolderInv, NoEngine, ActLook, ActWrite, ActCommit
  <2> QED BY <1>9, <2>1 DEF Engine, DirectOnly
<1>10. ASSUME UNCHANGED txn PROVE NoEngine' /\ OneHolder'
  BY <1>10 DEF HolderInv, NoEngine, OneHolder
<1>11. NoEngine' /\ OneHolder'
  BY <1>4, <1>8, <1>9, <1>10 DEF Next, Abort, AbortRequest, Tomorrow, vars
<1> QED BY <1>1, <1>11 DEF HolderInv

\* A step that leaves the requests alone: what it puts in memory under a row lock it
\* has just checked.
Checks(w, r) ==
  /\ UNCHANGED requests /\ txn' = [txn EXCEPT ![w] = r]
  /\ r.op \in Holding => \/ r.op = "applyLocked" /\ Overlapping(r.target, r.leave) = {}
                         \/ r.op = "decideLocked" /\ HasRoom(r)

\* A step that writes a request: who writes it, and what it may become.
Writes(w, t) ==
  /\ t = txn[w].target /\ txn[w] # Idle /\ txn' = [txn EXCEPT ![w] = Idle]
  /\ \A u \in Targets \ {t} : requests'[u] = requests[u]
  /\ \/ /\ txn[w].op = "applyLocked" /\ requests[t] = NoRequest
        /\ requests'[t].leave = txn[w].leave
        /\ \/ requests'[t].status = "PENDING"
           \/ requests'[t].status = "APPROVED" /\ StartFlow(t, "APPROVED")
     \/ /\ requests[t] # NoRequest /\ requests'[t].leave = requests[t].leave
        /\ \/ requests'[t].status \in {"CANCELLED", "REJECTED"}
           \/ /\ txn[w].op = "decideLocked" /\ txn[w].leave = requests[t].leave
              /\ requests'[t].status = txn[w].action

LEMMA DirectSteps ==
  ASSUME DirectOnly, HolderInv, [Next]_vars
  PROVE  \/ UNCHANGED <<requests, txn>>
         \/ \E w \in Workers : \E r : Checks(w, r)
         \/ \E w \in Workers, t \in Targets : Writes(w, t)
<1> DEFINE Goal == \/ UNCHANGED <<requests, txn>>
                   \/ \E w \in Workers : \E r : Checks(w, r)
                   \/ \E w \in Workers, t \in Targets : Writes(w, t)
<1>1. txn \in [Workers -> Applying \cup Cancelling \cup Deciding \cup Acting \cup {Idle}] /\ AllFit /\ Rows
  BY DEF HolderInv, LeaveInv, LeaveInMemory, TypeOK, Rows
<1>2. ASSUME NEW w \in Workers, NEW r, UNCHANGED records, txn' = [txn EXCEPT ![w] = r], r.op \notin Holding
      PROVE  Goal
  BY <1>2 DEF Checks, records
<1>3. ASSUME NEW w \in Workers, NEW r, UNCHANGED records, StartRequest(w, r), r.op \in {"apply", "cancel", "decide"}
      PROVE  Goal
  BY <1>2, <1>3 DEF StartRequest, Holding
<1>4. ASSUME NEW w \in Workers, UNCHANGED records, EndRequest(w) PROVE Goal
  BY <1>2, <1>4 DEF EndRequest, Idle, Holding
<1>5. ASSUME NEW w \in Workers, ApplyLock(w) PROVE Goal
  <2> DEFINE r == [txn[w] EXCEPT !.op = "applyLocked"]
  <2>1. txn[w] \in Applying
    BY <1>1, <1>5 DEF ApplyLock, Cancelling, Deciding, Acting, Idle
  <2>2. r.op = "applyLocked" /\ r.target = txn[w].target /\ r.leave = txn[w].leave
    BY <2>1 DEF Applying
  <2>3. /\ UNCHANGED records
        /\ \/ txn' = [txn EXCEPT ![w] = r] /\ Overlapping(txn[w].target, txn[w].leave) = {}
           \/ EndRequest(w)
    BY <1>5 DEF ApplyLock
  <2> HIDE DEF r
  <2> QED BY <1>4, <2>2, <2>3 DEF Checks, records
<1>6. ASSUME NEW w \in Workers, DecideLock(w) PROVE Goal
  <2> DEFINE r == [txn[w] EXCEPT !.op = "decideLocked"]
  <2>1. txn[w] \in Deciding
    BY <1>1, <1>6 DEF DecideLock, Cancelling, Applying, Acting, Idle
  <2>2. /\ r.op = "decideLocked" /\ r.target = txn[w].target /\ r.leave = txn[w].leave
        /\ r.action = txn[w].action
    BY <2>1 DEF Deciding
  <2>3. /\ UNCHANGED records
        /\ \/ /\ txn' = [txn EXCEPT ![w] = r] /\ txn[w].action = "APPROVED"
              /\ Approved(Requester[txn[w].target], txn[w].leave.type) + TotalDays(txn[w].leave)
                   <= Entitlement[txn[w].leave.type]
           \/ EndRequest(w)
    BY <1>6 DEF DecideLock
  <2> HIDE DEF r
  <2> QED BY <1>4, <2>2, <2>3 DEF Checks, HasRoom, records
<1>7. ASSUME NEW w \in Workers, ApplyWrite(w) PROVE Goal
  <2>1. txn[w] \in Applying /\ txn[w].op = "applyLocked" /\ txn[w] # Idle /\ Applies(txn[w])
    BY <1>1, <1>7 DEF ApplyWrite, Cancelling, Deciding, Acting, Idle, Applies
  <2>2. PICK t \in Targets : t = txn[w].target
    BY <2>1 DEF Applying
  <2>3. requests[t] = NoRequest
    BY <1>1, <2>1, <2>2 DEF AllFit, Fits
  <2>4. PICK v \in {"PENDING", "APPROVED"} :
          StartFlow(t, v) /\ requests' = [requests EXCEPT ![t] = [leave |-> txn[w].leave, status |-> v]]
    BY <1>7, <2>2 DEF ApplyWrite
  <2>5. /\ requests'[t].leave = txn[w].leave /\ requests'[t].status = v
        /\ \A u \in Targets \ {t} : requests'[u] = requests[u]
    BY <1>1, <2>4 DEF Rows
  <2>6. txn' = [txn EXCEPT ![w] = Idle]
    BY <1>7 DEF ApplyWrite, EndRequest
  <2>7. Writes(w, t)
    BY <2>1, <2>2, <2>3, <2>4, <2>5, <2>6 DEF Writes
  <2> QED BY <2>7
<1>8. ASSUME NEW w \in Workers, CancelWrite(w) PROVE Goal
  <2>1. txn[w] \in Cancelling /\ txn[w] # Idle /\ ~ Applies(txn[w])
    BY <1>1, <1>8 DEF CancelWrite, Applying, Deciding, Acting, Idle, Applies
  <2>2. PICK t \in Targets : t = txn[w].target
    BY <2>1 DEF Cancelling
  <2>3. requests[t] # NoRequest
    BY <1>1, <2>1, <2>2 DEF AllFit, Fits
  <2>4. requests' = WithVerdict(t, "CANCELLED") /\ txn' = [txn EXCEPT ![w] = Idle]
    BY <1>8, <2>2 DEF CancelWrite, EndRequest
  <2>5. "CANCELLED" \in LeaveStatuses
    BY DEF LeaveStatuses
  <2>6. /\ \A u \in Targets \ {t} : requests'[u] = requests[u]
        /\ requests'[t].leave = requests[t].leave /\ requests'[t].status = "CANCELLED"
    BY <1>1, <2>3, <2>4, <2>5, VerdictType
  <2>7. Writes(w, t)
    BY <2>1, <2>2, <2>3, <2>4, <2>6 DEF Writes
  <2> QED BY <2>7
<1>9. ASSUME NEW w \in Workers, DecideWrite(w) PROVE Goal
  <2>1. txn[w] \in Deciding /\ txn[w] # Idle /\ ~ Applies(txn[w]) /\ Decides(txn[w])
    BY <1>1, <1>9 DEF DecideWrite, Applying, Cancelling, Acting, Idle, Applies, Decides
  <2>2. PICK t \in Targets : t = txn[w].target
    BY <2>1 DEF Deciding
  <2>3. requests[t] # NoRequest /\ txn[w].leave = requests[t].leave
    BY <1>1, <2>1, <2>2 DEF AllFit, Fits
  <2>4. PICK x \in LeaveStatuses : x = txn[w].action
    BY <2>1 DEF Deciding, LeaveStatuses
  <2>5. /\ requests' = WithVerdict(t, x) /\ txn' = [txn EXCEPT ![w] = Idle]
        /\ txn[w].op = "decideLocked" \/ x = "REJECTED"
    BY <1>9, <2>2, <2>4 DEF DecideWrite, EndRequest
  <2>6. /\ \A u \in Targets \ {t} : requests'[u] = requests[u]
        /\ requests'[t].leave = requests[t].leave /\ requests'[t].status = x
    BY <1>1, <2>3, <2>5, VerdictType
  <2>7. Writes(w, t)
    BY <2>1, <2>2, <2>3, <2>4, <2>5, <2>6 DEF Writes
  <2> QED BY <2>7
<1>10. ASSUME NEW w \in Workers, Serve(w) PROVE Goal
  <2>1. ASSUME NEW t \in Targets, NEW a \in Applications, ApplyRead(w, t, a) PROVE Goal
    BY <1>3, <2>1 DEF ApplyRead
  <2>2. ASSUME NEW t \in Targets, CancelRead(w, t) PROVE Goal
    BY <1>3, <2>2 DEF CancelRead
  <2>3. ASSUME NEW t \in Targets, NEW a \in {"APPROVED", "REJECTED"}, DecideRead(w, t, a) PROVE Goal
    BY <1>3, <2>3 DEF DecideRead
  <2> HIDE DEF Goal
  <2> QED BY <1>5, <1>6, <1>7, <1>8, <1>9, <1>10, <2>1, <2>2, <2>3 DEF Serve
<1>11. ASSUME NEW w \in Workers, Engine(w) PROVE FALSE
  <2>1. ~ ActLook(w) /\ ~ ActWrite(w)
    BY DEF HolderInv, NoEngine, ActLook, ActWrite, ActCommit
  <2> QED BY <1>11, <2>1 DEF Engine, DirectOnly
<1>12. ASSUME NEW w \in Workers, Abort(w) PROVE Goal
  BY <1>4, <1>12 DEF Abort, AbortRequest
<1>13. ASSUME Tomorrow \/ UNCHANGED vars PROVE Goal
  BY <1>13 DEF Tomorrow, vars, records
<1> HIDE DEF Goal
<1>14. Goal
  BY <1>10, <1>11, <1>12, <1>13 DEF Next
<1> QED BY <1>14 DEF Goal

\* A request still held while another one writes: it holds another balance row.
LEMMA HeldApart ==
  ASSUME HolderInv, NEW w \in Workers, NEW t \in Targets, Writes(w, t),
         NEW z \in Workers, txn'[z].op \in Holding
  PROVE  /\ z # w /\ txn'[z] = txn[z]
         /\ txn[w].op \in Holding =>
              \/ Requester[t] # Requester[txn[z].target]
              \/ requests'[t].leave.type # txn[z].leave.type
<1>1. txn' = [txn EXCEPT ![w] = Idle] /\ txn \in [Workers -> Applying \cup Cancelling \cup Deciding \cup Acting \cup {Idle}]
  BY DEF Writes, HolderInv, LeaveInv, LeaveInMemory
<1>2. z # w /\ txn'[z] = txn[z]
  BY <1>1 DEF Holding, Idle
<1>3. ASSUME txn[w].op \in Holding PROVE requests'[t].leave = txn[w].leave /\ t = txn[w].target
  <2>1. CASE txn[w].op = "applyLocked"
    <3>1. requests[t] = NoRequest
      BY <2>1 DEF Writes, HolderInv, LeaveInv, AllFit, Fits, Applies
    <3> QED BY <2>1, <3>1 DEF Writes
  <2>2. CASE txn[w].op = "decideLocked"
    <3>1. requests[t].leave = txn[w].leave
      BY <2>2 DEF Writes, HolderInv, LeaveInv, AllFit, Fits, Decides
    <3> QED BY <2>2, <3>1 DEF Writes
  <2> QED BY <1>3, <2>1, <2>2 DEF Holding
<1> QED BY <1>2, <1>3 DEF HolderInv, OneHolder

\* An application that holds its balance row has found every request for its days.
Clear(r) ==
  r.op = "applyLocked" =>
    \A u \in HasStatus({"PENDING", "APPROVED"}) :
      (Requester[u] = Requester[r.target] /\ requests[u].leave.type = r.leave.type)
      => ~ Overlaps(r.leave, requests[u].leave)

AdmitInv == HolderInv /\ \A w \in Workers : Clear(txn[w])

LEMMA AdmitInit == Init => AdmitInv
<1> SUFFICES ASSUME Init PROVE AdmitInv
  OBVIOUS
<1>1. \A w \in Workers : txn[w] = Idle
  BY DEF Init, EngineInit
<1> QED BY <1>1, HolderInit DEF AdmitInv, Clear, Idle

LEMMA AdmitKept == DirectOnly /\ AdmitInv /\ [Next]_vars => AdmitInv'
<1> SUFFICES ASSUME DirectOnly, AdmitInv, [Next]_vars, NEW z \in Workers PROVE Clear(txn[z])'
  BY HolderKept DEF AdmitInv
<1>1. HolderInv /\ txn \in [Workers -> Applying \cup Cancelling \cup Deciding \cup Acting \cup {Idle}]
  BY DEF AdmitInv, HolderInv, LeaveInv, LeaveInMemory
<1>2. CASE UNCHANGED <<requests, txn>>
  BY <1>2 DEF AdmitInv, Clear, HasStatus
<1>3. ASSUME NEW w \in Workers, NEW r, Checks(w, r) PROVE Clear(txn[z])'
  <2>1. UNCHANGED requests /\ txn'[w] = r /\ \A v \in Workers \ {w} : txn'[v] = txn[v]
    BY <1>1, <1>3 DEF Checks
  <2>2. CASE z # w
    BY <2>1, <2>2 DEF AdmitInv, Clear, HasStatus
  <2>3. CASE z = w /\ r.op = "applyLocked"
    <3>1. Overlapping(r.target, r.leave) = {}
      BY <1>3, <2>3 DEF Checks, Holding
    <3> QED BY <2>1, <2>3, <3>1 DEF Clear, Overlapping, HasStatus
  <2>4. CASE z = w /\ r.op # "applyLocked"
    BY <2>1, <2>4 DEF Clear
  <2> QED BY <2>2, <2>3, <2>4
<1>4. ASSUME NEW w \in Workers, NEW t \in Targets, Writes(w, t) PROVE Clear(txn[z])'
  <2> SUFFICES ASSUME txn'[z].op = "applyLocked",
                      NEW u \in HasStatus({"PENDING", "APPROVED"})',
                      Requester[u] = Requester[txn'[z].target],
                      requests'[u].leave.type = txn'[z].leave.type
               PROVE  ~ Overlaps(txn'[z].leave, requests'[u].leave)
    BY DEF Clear
  <2>1. /\ z # w /\ txn'[z] = txn[z]
        /\ txn[w].op \in Holding =>
             \/ Requester[t] # Requester[txn[z].target]
             \/ requests'[t].leave.type # txn[z].leave.type
    BY <1>1, <1>4, HeldApart DEF Holding
  <2>2. u \in Targets /\ requests'[u].status \in {"PENDING", "APPROVED"}
    BY DEF HasStatus
  <2>3. u # t
    <3> SUFFICES ASSUME u = t PROVE FALSE
      OBVIOUS
    <3>1. txn[w].op \in Holding
      BY <1>4, <2>2 DEF Writes, Holding
    <3> QED BY <2>1, <3>1
  <2>4. requests'[u] = requests[u]
    BY <1>4, <2>2, <2>3 DEF Writes
  <2> QED BY <2>1, <2>2, <2>4 DEF AdmitInv, Clear, HasStatus
<1> QED BY <1>1, <1>2, <1>3, <1>4, DirectSteps

\* Decided directly, two applications of one leave type for the same days never both get
\* in, whatever the number of requests at a time.
THEOREM AdmittedOnceCorrect == DirectOnly => (Spec => AdmittedOnce)
<1> SUFFICES ASSUME DirectOnly PROVE Spec => AdmittedOnce
  OBVIOUS
<1> DEFINE Apart(t, u) ==
      (/\ t # u /\ Requester[t] = Requester[u]
       /\ requests[t] = NoRequest /\ requests'[t] # NoRequest
       /\ requests'[u].status \in {"PENDING", "APPROVED"}
       /\ requests'[t].leave.type = requests'[u].leave.type)
      => ~ Overlaps(requests'[t].leave, requests'[u].leave)
<1>1. AdmitInv /\ [Next]_vars => AdmitInv'
  BY AdmitKept
<1>2. AdmitInv /\ [Next]_vars => \A t, u \in Targets : Apart(t, u)
  <2> SUFFICES ASSUME AdmitInv, [Next]_vars, NEW t \in Targets, NEW u \in Targets,
                      t # u, Requester[t] = Requester[u],
                      requests[t] = NoRequest, requests'[t] # NoRequest,
                      requests'[u].status \in {"PENDING", "APPROVED"},
                      requests'[t].leave.type = requests'[u].leave.type
               PROVE  ~ Overlaps(requests'[t].leave, requests'[u].leave)
    OBVIOUS
  <2>1. HolderInv
    BY DEF AdmitInv
  <2>2. PICK w \in Workers : \E x \in Targets : Writes(w, x)
    BY <2>1, DirectSteps DEF Checks
  <2>3. Writes(w, t)
    BY <2>2 DEF Writes
  <2>4. /\ txn[w].op = "applyLocked" /\ requests'[t].leave = txn[w].leave
        /\ requests'[u] = requests[u] /\ t = txn[w].target
    BY <2>3 DEF Writes
  <2> QED BY <2>4 DEF AdmitInv, Clear, HasStatus
<1>3. AdmitInv /\ [Next]_vars => [\A t, u \in Targets : Apart(t, u)]_vars
  BY <1>2
<1> QED BY <1>1, <1>3, AdmitInit, PTL DEF Spec, AdmittedOnce

RoomInv ==
  /\ HolderInv /\ AllWait /\ NeverOverAllocated
  /\ \A w \in Workers : HasRoom(txn[w])

LEMMA RoomInit == Init /\ AllWait => RoomInv
<1> SUFFICES ASSUME Init, AllWait PROVE RoomInv
  OBVIOUS
<1>1. HolderInv /\ \A w \in Workers : HasRoom(txn[w])
  BY HolderInit DEF Init, EngineInit, HasRoom, Idle
<1>2. ASSUME NEW e \in Employees, NEW type \in LeaveTypes PROVE Approved(e, type) = 0
  <2>1. Counted(e, type) = {}
    BY DEF Counted, Of, Init, NoRequest
  <2>2. Dots(Counted(e, type), Lengths) = {}
    BY <2>1 DEF Dots
  <2>3. Rows
    BY <1>1 DEF HolderInv, LeaveInv, TypeOK, Rows
  <2> QED BY <2>2, <2>3, ApprovedCounts, FS_EmptySet
<1> QED BY <1>1, <1>2, LeaveAssumption DEF RoomInv, NeverOverAllocated

LEMMA AllWaitKept == AllWait /\ [Next]_vars => AllWait'
<1> SUFFICES ASSUME AllWait, [Next]_vars PROVE AllWait'
  OBVIOUS
<1>1. UNCHANGED <<workflows, org>>
  BY DEF Next, Serve, Engine, Abort, AbortRequest, Tomorrow, ApplyRead, ApplyLock, ApplyWrite, CancelRead,
         CancelWrite, DecideRead, DecideLock, DecideWrite, ActRead, ActLook, ActWrite, ActCommit, engine, vars
<1>2. \A t \in Targets : FlowRows(t)' = FlowRows(t)
  BY <1>1 DEF FlowRows, ActiveFor, Exists, StepsFor, OrderedRows
<1> QED BY <1>2 DEF AllWait

\* What a decision has room for it still has when no more is approved.
LEMMA RoomStays ==
  ASSUME Rows, Rows', NEW r, r.op = "decideLocked" => r \in Deciding, HasRoom(r),
         r.op = "decideLocked" =>
           Approved(Requester[r.target], r.leave.type)' <= Approved(Requester[r.target], r.leave.type),
         NEW z \in Workers, txn'[z] = r
  PROVE  HasRoom(txn[z])'
<1> SUFFICES ASSUME r.op = "decideLocked"
             PROVE  /\ r.action = "APPROVED"
                    /\ Approved(Requester[r.target], r.leave.type)' + TotalDays(r.leave) <= Entitlement[r.leave.type]
  BY DEF HasRoom
<1>1. PICK e \in Employees, type \in LeaveTypes : e = Requester[r.target] /\ type = r.leave.type
  BY LeaveAssumption, EngineAssumption DEF Deciding
<1>2. TotalDays(r.leave) \in Nat /\ Entitlement[type] \in Nat
  BY LeaveAssumption, TotalDaysType DEF Deciding
<1>3. Approved(e, type) \in Nat /\ Approved(e, type)' \in Nat
  BY ApprovedCountsNext
<1>4. /\ Approved(e, type)' <= Approved(e, type)
      /\ Approved(e, type) + TotalDays(r.leave) <= Entitlement[type]
      /\ r.action = "APPROVED"
  BY <1>1 DEF HasRoom
<1>5. Approved(e, type)' + TotalDays(r.leave) <= Entitlement[type]
  BY <1>2, <1>3, <1>4
<1> QED BY <1>1, <1>4, <1>5

LEMMA RoomKept == DirectOnly /\ RoomInv /\ [Next]_vars => RoomInv'
<1> SUFFICES ASSUME DirectOnly, RoomInv, [Next]_vars
             PROVE  NeverOverAllocated' /\ \A z \in Workers : HasRoom(txn[z])'
  BY HolderKept, AllWaitKept DEF RoomInv
<1>1. /\ HolderInv /\ Rows /\ Rows'
      /\ txn \in [Workers -> Applying \cup Cancelling \cup Deciding \cup Acting \cup {Idle}]
      /\ txn' \in [Workers -> Applying \cup Cancelling \cup Deciding \cup Acting \cup {Idle}]
  BY HolderKept DEF RoomInv, HolderInv, LeaveInv, LeaveInMemory, TypeOK, Rows
<1>2. \A z \in Workers : txn'[z].op = "decideLocked" => txn'[z] \in Deciding
  BY <1>1 DEF Applying, Cancelling, Acting, Idle
<1>3. ASSUME NEW e, NEW type, UNCHANGED requests PROVE Approved(e, type)' <= Approved(e, type)
  <2>1. Counted(e, type)' = Counted(e, type) /\ Lengths' = Lengths
    BY <1>3 DEF Counted, Of, HasStatus, Lengths
  <2> QED BY <1>1, <2>1, ApprovedShrinks
\* Nothing is written.
<1>4. ASSUME UNCHANGED requests,
             \A z \in Workers : HasRoom(txn'[z])
      PROVE  NeverOverAllocated' /\ \A z \in Workers : HasRoom(txn[z])'
  <2>1. NeverOverAllocated'
    <3> SUFFICES ASSUME NEW e \in Employees, NEW type \in LeaveTypes
                 PROVE  Approved(e, type)' <= Entitlement[type]
      BY DEF NeverOverAllocated
    <3>1. Approved(e, type)' <= Approved(e, type) /\ Approved(e, type) <= Entitlement[type]
      BY <1>3, <1>4 DEF RoomInv, NeverOverAllocated
    <3> QED BY <1>1, <3>1, ApprovedCountsNext, LeaveAssumption
  <2>2. ASSUME NEW z \in Workers PROVE HasRoom(txn[z])'
    <3>1. PICK r : r = txn'[z]
      OBVIOUS
    <3>2. HasRoom(r) /\ (r.op = "decideLocked" => r \in Deciding)
      BY <1>2, <1>4, <3>1
    <3>3. Approved(Requester[r.target], r.leave.type)' <= Approved(Requester[r.target], r.leave.type)
      BY <1>3, <1>4
    <3> QED BY <1>1, <3>1, <3>2, <3>3, RoomStays
  <2> QED BY <2>1, <2>2
<1>5. ASSUME NEW w \in Workers, NEW r, Checks(w, r)
      PROVE  NeverOverAllocated' /\ \A z \in Workers : HasRoom(txn[z])'
  <2>1. UNCHANGED requests /\ txn'[w] = r /\ \A v \in Workers \ {w} : txn'[v] = txn[v]
    BY <1>1, <1>5 DEF Checks
  <2>2. HasRoom(r)
    BY <1>5 DEF Checks, HasRoom, Holding
  <2>3. \A z \in Workers : HasRoom(txn'[z])
    BY <2>1, <2>2 DEF RoomInv
  <2> QED BY <1>4, <2>1, <2>3
\* A request is written by w.
<1>6. ASSUME NEW w \in Workers, NEW t \in Targets, Writes(w, t)
      PROVE  NeverOverAllocated' /\ \A z \in Workers : HasRoom(txn[z])'
  <2>1. /\ \A u \in Targets \ {t} : requests'[u] = requests[u]
        /\ t = txn[w].target
    BY <1>6 DEF Writes
  <2>2. \A u \in Targets \ {t} : Lengths'[u] = Lengths[u]
    BY <2>1 DEF Lengths
  <2>3. ASSUME NEW e, NEW type
        PROVE  \A u \in Counted(e, type)' \ {t} : u \in Counted(e, type) /\ Lengths'[u] = Lengths[u]
    BY <2>1, <2>2 DEF Counted, Of, HasStatus
  <2>4. ASSUME NEW e, NEW type, t \notin Counted(e, type)'
        PROVE  Approved(e, type)' <= Approved(e, type)
    BY <1>1, <2>3, <2>4, ApprovedShrinks
  <2>5. ASSUME NEW e, NEW type, t \in Counted(e, type)'
        PROVE  /\ txn[w].op = "decideLocked" /\ e = Requester[t] /\ type = requests'[t].leave.type
               /\ requests'[t].leave = txn[w].leave /\ requests'[t] # NoRequest
    <3>1. requests'[t].status = "APPROVED" /\ e = Requester[t] /\ type = requests'[t].leave.type
      BY <2>5 DEF Counted, Of, HasStatus
    <3>2. ~ StartFlow(t, "APPROVED")
      BY DEF StartFlow, RoomInv, AllWait
    <3>3. /\ txn[w].op = "decideLocked" /\ requests'[t].leave = txn[w].leave
      BY <1>6, <3>1, <3>2 DEF Writes
    <3>4. requests'[t] # NoRequest
      BY <3>1 DEF NoRequest
    <3> QED BY <3>1, <3>3, <3>4
  <2>6. NeverOverAllocated'
    <3> SUFFICES ASSUME NEW e \in Employees, NEW type \in LeaveTypes
                 PROVE  Approved(e, type)' <= Entitlement[type]
      BY DEF NeverOverAllocated
    <3>1. CASE t \notin Counted(e, type)'
      <4>1. Approved(e, type)' <= Approved(e, type) /\ Approved(e, type) <= Entitlement[type]
        BY <2>4, <3>1 DEF RoomInv, NeverOverAllocated
      <4> QED BY <1>1, <4>1, ApprovedCountsNext, LeaveAssumption
    <3>2. CASE t \in Counted(e, type)'
      <4>1. PICK a \in Applications : a = txn[w].leave
        BY <1>1, <2>5, <3>2 DEF Applying, Cancelling, Deciding, Acting, Idle
      <4>2. /\ e = Requester[t] /\ type = a.type /\ txn[w].op = "decideLocked"
            /\ requests'[t].leave = a /\ requests'[t] # NoRequest
        BY <2>5, <3>2, <4>1
      <4>3. TotalDays(a) \in Nat
        BY TotalDaysType
      <4>4. Lengths'[t] = TotalDays(a)
        BY <4>2 DEF Lengths
      <4>5. Approved(e, type)' <= Approved(e, type) + TotalDays(a)
        BY <1>1, <2>3, <4>3, <4>4, ApprovedGrows
      <4>6. Approved(e, type) + TotalDays(a) <= Entitlement[type]
        BY <2>1, <4>1, <4>2 DEF RoomInv, HasRoom
      <4>7. Approved(e, type) \in Nat /\ Approved(e, type)' \in Nat /\ Entitlement[type] \in Nat
        BY <1>1, ApprovedCountsNext, LeaveAssumption
      <4> QED BY <4>3, <4>5, <4>6, <4>7
    <3> QED BY <3>1, <3>2
  <2>7. ASSUME NEW z \in Workers PROVE HasRoom(txn[z])'
    <3> SUFFICES ASSUME txn'[z].op = "decideLocked" PROVE HasRoom(txn[z])'
      BY DEF HasRoom
    <3>1. PICK r : r = txn'[z]
      OBVIOUS
    <3>2. /\ z # w /\ r = txn[z]
          /\ txn[w].op \in Holding =>
               \/ Requester[t] # Requester[r.target]
               \/ requests'[t].leave.type # r.leave.type
      BY <1>1, <1>6, <3>1, HeldApart DEF Holding
    <3>3. HasRoom(r) /\ r \in Deciding
      BY <1>2, <3>1, <3>2 DEF RoomInv
    <3>4. PICK e, type : e = Requester[r.target] /\ type = r.leave.type
      OBVIOUS
    <3>5. t \notin Counted(e, type)'
      BY <2>5, <3>2, <3>4 DEF Holding
    <3>6. Approved(e, type)' <= Approved(e, type)
      BY <2>4, <3>5
    <3>7. Approved(Requester[r.target], r.leave.type)' <= Approved(Requester[r.target], r.leave.type)
      BY <3>4, <3>6
    <3> QED BY <1>1, <3>1, <3>3, <3>7, RoomStays
  <2> QED BY <2>6, <2>7
<1>7. CASE UNCHANGED <<requests, txn>>
  BY <1>4, <1>7 DEF RoomInv
<1> QED BY <1>1, <1>5, <1>6, <1>7, DirectSteps

\* Where every application waits for a decision and decisions are made directly, no more
\* is ever approved than the allowance, however many of them overlap: the balance row's
\* lock and the second check under it are enough.
THEOREM NeverOverAllocatedCorrect == DirectOnly => (Spec /\ AllWait => []NeverOverAllocated)
<1> SUFFICES ASSUME DirectOnly PROVE Spec /\ AllWait => []NeverOverAllocated
  OBVIOUS
<1>1. RoomInv /\ [Next]_vars => RoomInv'
  BY RoomKept
<1>2. RoomInv => NeverOverAllocated
  BY DEF RoomInv
<1> QED BY <1>1, <1>2, RoomInit, PTL DEF Spec

-----------------------------------------------------------------------------
(* One request at a time, and one mechanism for each leave *)

\* A leave is decided through the engine or directly, and is not withdrawn while its
\* flow is open.
OneMechanism ==
  /\ "withdraw" \notin Environment
  /\ \A t \in Targets : ~ {"engine", "direct"} \subseteq DecidedBy[t]

\* The instances of a leave say what its status does; a cancelled one has none open.
Stands(t) ==
  /\ Agrees(instances[t], requests[t].status)
  /\ requests[t].status = "CANCELLED" => OpenOf(instances[t]) = {}

\* What the only request there is has read is still so.
Timely(r) ==
  /\ r.op \in {"act", "looked"} => /\ "engine" \in DecidedBy[r.target]
                                   /\ requests[r.target].status = "PENDING" /\ OnRow(r)
  /\ Decides(r) => requests[r.target].status = "PENDING" /\ "engine" \notin DecidedBy[r.target]
  /\ r.op = "decideLocked" => r.action = "APPROVED"
  /\ r.op = "cancel" => /\ requests[r.target].status = r.was
                        /\ "engine" \in DecidedBy[r.target] => OpenOf(instances[r.target]) = {}
  /\ r.op = "applyLocked" => Overlapping(r.target, r.leave) = {}

SoleInv ==
  /\ LeaveInv
  /\ \A t \in Targets : "engine" \in DecidedBy[t] => Stands(t)
  /\ \A w \in Workers : Timely(txn[w])

LEMMA SoleInit == Init => SoleInv
<1> SUFFICES ASSUME Init PROVE SoleInv
  OBVIOUS
<1>1. \A t \in Targets : Stands(t)
  BY DEF Init, EngineInit, Stands, Agrees, NoRequest
<1>2. \A w \in Workers : Timely(txn[w])
  BY DEF Init, EngineInit, Timely, Decides, Idle
<1> QED BY <1>1, <1>2, LeaveInit DEF SoleInv

LEMMA TimelyKept ==
  ASSUME NEW z \in Workers, Timely(txn'[z]), UNCHANGED <<requests, instances>>
  PROVE  Timely(txn[z])'
<1>1. PICK r : r = txn'[z]
  OBVIOUS
<1>2. Timely(r)
  BY <1>1
<1>3. (r.op \in {"act", "looked"} => OnRow(r))'
  BY <1>2 DEF Timely, OnRow, Found, NextSteps, IndexesOf
<1>4. (r.op = "applyLocked" => Overlapping(r.target, r.leave) = {})'
  BY <1>2 DEF Timely, Overlapping, HasStatus
<1>5. (txn[z].op \in {"act", "looked"} => OnRow(txn[z]))'
  BY <1>1, <1>3 DEF OnRow, Found, NextSteps, IndexesOf
<1>6. (txn[z].op = "applyLocked" => Overlapping(txn[z].target, txn[z].leave) = {})'
  BY <1>1, <1>4 DEF Overlapping, HasStatus
<1> QED BY <1>1, <1>2, <1>5, <1>6 DEF Timely, Decides

\* A step that does not touch the tables.
LEMMA SoleReading ==
  ASSUME OneAtATime, SoleInv, NEW w \in Workers, NEW r, txn' = [txn EXCEPT ![w] = r],
         UNCHANGED <<requests, instances>>, Timely(r)
  PROVE  /\ \A t \in Targets : "engine" \in DecidedBy[t] => Stands(t)'
         /\ \A z \in Workers : Timely(txn[z])'
<1>1. \A z \in Workers : txn'[z] = r
  BY DEF OneAtATime, SoleInv, LeaveInv, LeaveInMemory
<1>2. \A z \in Workers : Timely(txn[z])'
  BY <1>1, TimelyKept
<1> QED BY <1>2 DEF SoleInv, Stands

\* The only request ends, and leaves its row standing.
LEMMA SoleEnding ==
  ASSUME OneAtATime, SoleInv, NEW w \in Workers, NEW t \in Targets, txn' = [txn EXCEPT ![w] = Idle],
         \A u \in Targets \ {t} : requests'[u] = requests[u] /\ instances'[u] = instances[u],
         "engine" \in DecidedBy[t] => Stands(t)'
  PROVE  /\ \A u \in Targets : "engine" \in DecidedBy[u] => Stands(u)'
         /\ \A z \in Workers : Timely(txn[z])'
<1>1. \A z \in Workers : txn'[z] = Idle
  BY DEF OneAtATime, SoleInv, LeaveInv, LeaveInMemory
<1>2. \A z \in Workers : Timely(txn[z])'
  BY <1>1 DEF Timely, Decides, Idle
<1> QED BY <1>2 DEF SoleInv, Stands

LEMMA SoleApplyWrite ==
  ASSUME OneAtATime, SoleInv, NEW w \in Workers, ApplyWrite(w)
  PROVE  /\ \A u \in Targets : "engine" \in DecidedBy[u] => Stands(u)'
         /\ \A z \in Workers : Timely(txn[z])'
<1>1. txn[w] \in Applying /\ Applies(txn[w])
  BY DEF ApplyWrite, SoleInv, LeaveInv, LeaveInMemory, Cancelling, Deciding, Acting, Idle, Applies
<1>2. PICK t \in Targets : t = txn[w].target
  BY <1>1 DEF Applying
<1>3. PICK v \in {"PENDING", "APPROVED"} :
        StartFlow(t, v) /\ requests' = [requests EXCEPT ![t] = [leave |-> txn[w].leave, status |-> v]]
  BY <1>2 DEF ApplyWrite
<1>4. /\ instances \in [Targets -> Seq(Instance)] /\ Configured /\ Rows
      /\ instances[t] = << >>
  BY <1>1, <1>2 DEF SoleInv, LeaveInv, AllFit, Fits, TypeOK, EngineTypeOK, Rows
<1>5. PICK rows \in FlowRows(t) : /\ instances' = [instances EXCEPT ![t] = @ \o rows]
                                  /\ v = FlowStatus(rows)
  BY <1>3 DEF StartFlow
<1>6. /\ rows \in Seq(Instance)
      /\ IF v = "PENDING" THEN Orderly(rows) ELSE v = "APPROVED" /\ AllTaken(rows)
  BY <1>4, <1>5, FlowRowsOrderly
<1>7. instances[t] \o rows = rows
  BY <1>4, <1>6
<1>8. /\ instances'[t] = rows /\ requests'[t].status = v
      /\ \A u \in Targets \ {t} : requests'[u] = requests[u] /\ instances'[u] = instances[u]
  BY <1>3, <1>4, <1>5, <1>7 DEF Rows
<1>9. Stands(t)'
  BY <1>6, <1>8 DEF Stands, Agrees
<1>10. txn' = [txn EXCEPT ![w] = Idle]
  BY DEF ApplyWrite, EndRequest
<1> QED BY <1>8, <1>9, <1>10, SoleEnding

LEMMA SoleActWrite ==
  ASSUME OneAtATime, SoleInv, NEW w \in Workers, ActWrite(w)
  PROVE  /\ \A u \in Targets : "engine" \in DecidedBy[u] => Stands(u)'
         /\ \A z \in Workers : Timely(txn[z])'
<1>1. PICK v \in Verdicts :
        /\ ActCommit(w, v)
        /\ requests' = IF v = "PENDING" THEN requests ELSE WithVerdict(txn[w].target, v)
  BY DEF ActWrite
<1>2. PICK r \in Acting : r = txn[w]
  BY <1>1 DEF ActCommit, SoleInv, LeaveInv, LeaveInMemory, Cancelling, Applying, Deciding, Idle
<1>3. PICK t \in Targets : t = r.target
  BY <1>2 DEF Acting
<1>4. /\ "engine" \in DecidedBy[t] /\ requests[t].status = "PENDING" /\ OnRow(r)
      /\ instances \in [Targets -> Seq(Instance)] /\ Rows
  BY <1>2, <1>3 DEF SoleInv, Timely, Acting, LeaveInv, TypeOK, EngineTypeOK, Rows
<1>5. Orderly(instances[t])
  BY <1>4 DEF SoleInv, Stands, Agrees
<1>6. ActCommit(w, v) /\ r = txn[w] /\ t = r.target
  BY <1>1, <1>2, <1>3
<1>7. Agrees(instances'[t], v)
  BY <1>4, <1>5, <1>6, CommitAgrees
<1>8. \A u \in Targets \ {t} : instances'[u] = instances[u]
  BY <1>4, <1>5, <1>6, CommitAgrees
<1>9. requests'[t].status = v /\ \A u \in Targets \ {t} : requests'[u] = requests[u]
  <2>1. requests[t] # NoRequest /\ v \in LeaveStatuses
    BY <1>4 DEF NoRequest, Verdicts, LeaveStatuses
  <2> QED BY <1>1, <1>2, <1>3, <1>4, <2>1, VerdictType
<1>10. Stands(t)'
  BY <1>7, <1>9 DEF Stands, Verdicts
<1>11. txn' = [txn EXCEPT ![w] = Idle]
  BY <1>1 DEF ActCommit, EndRequest
<1>12. \A u \in Targets \ {t} : requests'[u] = requests[u] /\ instances'[u] = instances[u]
  BY <1>8, <1>9
<1> QED BY <1>10, <1>11, <1>12, SoleEnding

\* What each request that only reads has found.
LEMMA SoleReads ==
  ASSUME OneAtATime, OneMechanism, SoleInv, NEW w \in Workers,
         \/ \E t \in Targets, a \in Applications : ApplyRead(w, t, a)
         \/ ApplyLock(w)
         \/ \E t \in Targets : MayCancel(t) /\ CancelRead(w, t)
         \/ \E t \in Targets, a \in {"APPROVED", "REJECTED"} : "direct" \in DecidedBy[t] /\ DecideRead(w, t, a)
         \/ DecideLock(w)
         \/ Abort(w)
  PROVE  \E r : txn' = [txn EXCEPT ![w] = r] /\ Timely(r)
<1>1. Timely(Idle)
  BY DEF Timely, Decides, Idle
<1>2. ASSUME NEW t \in Targets, NEW a \in Applications, ApplyRead(w, t, a)
      PROVE  \E r : txn' = [txn EXCEPT ![w] = r] /\ Timely(r)
  <2> DEFINE r == [op |-> "apply", target |-> t, leave |-> a, used |-> used[<<Requester[t], a.type>>]]
  <2>1. Timely(r)
    BY DEF Timely, Decides
  <2> QED BY <1>2, <2>1 DEF ApplyRead, StartRequest
<1>3. CASE ApplyLock(w)
  <2>1. txn[w] \in Applying
    BY <1>3 DEF ApplyLock, SoleInv, LeaveInv, LeaveInMemory, Cancelling, Deciding, Acting, Idle
  <2> DEFINE r == [txn[w] EXCEPT !.op = "applyLocked"]
  <2>2. r.op = "applyLocked" /\ r.target = txn[w].target /\ r.leave = txn[w].leave
    BY <2>1 DEF Applying
  <2> HIDE DEF r
  <2>3. CASE txn' = [txn EXCEPT ![w] = r] /\ Overlapping(txn[w].target, txn[w].leave) = {}
    BY <2>2, <2>3 DEF Timely, Decides
  <2> QED BY <1>1, <1>3, <2>3 DEF ApplyLock, EndRequest, r
<1>4. ASSUME NEW t \in Targets, MayCancel(t), CancelRead(w, t)
      PROVE  \E r : txn' = [txn EXCEPT ![w] = r] /\ Timely(r)
  <2> DEFINE r == [op |-> "cancel", target |-> t, was |-> requests[t].status]
  <2>1. "engine" \in DecidedBy[t] => OpenOf(instances[t]) = {}
    BY <1>4 DEF MayCancel, OneMechanism, OpenAt, IndexesOf, OpenOf
  <2>2. Timely(r)
    BY <2>1 DEF Timely, Decides
  <2> QED BY <1>4, <2>2 DEF CancelRead, StartRequest
<1>5. ASSUME NEW t \in Targets, NEW a \in {"APPROVED", "REJECTED"}, "direct" \in DecidedBy[t], DecideRead(w, t, a)
      PROVE  \E r : txn' = [txn EXCEPT ![w] = r] /\ Timely(r)
  <2> DEFINE r == [op |-> "decide", target |-> t, leave |-> requests[t].leave, action |-> a]
  <2>1. requests[t].status = "PENDING" /\ "engine" \notin DecidedBy[t]
    BY <1>5 DEF DecideRead, OneMechanism
  <2>2. Timely(r)
    BY <2>1 DEF Timely
  <2> QED BY <1>5, <2>2 DEF DecideRead, StartRequest
<1>6. CASE DecideLock(w)
  <2>1. txn[w] \in Deciding
    BY <1>6 DEF DecideLock, SoleInv, LeaveInv, LeaveInMemory, Cancelling, Applying, Acting, Idle
  <2> DEFINE r == [txn[w] EXCEPT !.op = "decideLocked"]
  <2>2. r.op = "decideLocked" /\ r.target = txn[w].target /\ r.action = "APPROVED"
    BY <1>6, <2>1 DEF Deciding, DecideLock
  <2>3. requests[txn[w].target].status = "PENDING" /\ "engine" \notin DecidedBy[txn[w].target]
    BY <1>6 DEF DecideLock, SoleInv, Timely, Decides
  <2> HIDE DEF r
  <2>4. Timely(r)
    BY <2>2, <2>3 DEF Timely
  <2> QED BY <1>1, <1>6, <2>4 DEF DecideLock, EndRequest, r
<1>7. CASE Abort(w)
  BY <1>1, <1>7 DEF Abort, AbortRequest, EndRequest
<1> QED BY <1>2, <1>3, <1>4, <1>5, <1>6, <1>7

LEMMA SoleActRead ==
  ASSUME OneAtATime, SoleInv, NEW w \in Workers, NEW x \in Employees, NEW t \in Targets,
         "engine" \in DecidedBy[t], NEW i \in DOMAIN instances[t], NEW a \in {"APPROVED", "REJECTED"},
         ActRead(w, x, t, i, a)
  PROVE  \E r : txn' = [txn EXCEPT ![w] = r] /\ Timely(r)
<1>1. instances \in [Targets -> Seq(Instance)] /\ Stands(t) /\ Rows
  BY DEF SoleInv, LeaveInv, TypeOK, EngineTypeOK, Rows
<1>2. PICK r \in Acting : txn' = [txn EXCEPT ![w] = r] /\ r.op = "act" /\ r.target = t /\ r.index = i
  BY <1>1, ActReadType
<1>3. instances[t][i].status = "PENDING" /\ OnRow(r)
  BY <1>2 DEF ActRead, OnRow
<1>4. requests[t].status \in LeaveStatuses \cup {"NONE"}
  BY <1>1 DEF Rows, NoRequest
<1>5. i \in OpenOf(instances[t])
  BY <1>3 DEF OpenOf, Open
<1>6. requests[t].status # "NONE"
  BY <1>1 DEF Stands, Agrees
<1>7. requests[t].status = "PENDING"
  BY <1>1, <1>3, <1>4, <1>5, <1>6 DEF Stands, Agrees, AllTaken, LeaveStatuses, Open
<1>8. Timely(r)
  BY <1>2, <1>3, <1>7 DEF Timely, Decides
<1> QED BY <1>2, <1>8

LEMMA SoleActLook ==
  ASSUME OneAtATime, SoleInv, NEW w \in Workers, ActLook(w)
  PROVE  \E r : txn' = [txn EXCEPT ![w] = r] /\ Timely(r)
<1>1. instances \in [Targets -> Seq(Instance)] /\ txn[w].op = "act"
  BY DEF SoleInv, LeaveInv, TypeOK, EngineTypeOK, ActLook
<1>2. txn[w] \in Acting
  BY <1>1 DEF SoleInv, LeaveInv, LeaveInMemory, Cancelling, Applying, Deciding, Idle
<1>3. /\ "engine" \in DecidedBy[txn[w].target] /\ requests[txn[w].target].status = "PENDING"
      /\ OnRow(txn[w])
  BY <1>1 DEF SoleInv, Timely
<1>4. PICK r \in Acting : /\ txn' = [txn EXCEPT ![w] = r]
                          /\ r.op = "looked" /\ r.target = txn[w].target /\ r.index = txn[w].index
                          /\ r.action = "APPROVED" /\ r.next \in Found(r.target)
  BY <1>1, <1>2, ActLookType
<1>5. OnRow(r)
  BY <1>3, <1>4 DEF OnRow
<1>6. Timely(r)
  BY <1>3, <1>4, <1>5 DEF Timely, Decides
<1> QED BY <1>4, <1>6

\* A decision or a cancellation, which leaves the instances alone.
LEMMA SoleVerdict ==
  ASSUME OneAtATime, SoleInv, NEW w \in Workers, CancelWrite(w) \/ DecideWrite(w)
  PROVE  \E t \in Targets, v \in {"APPROVED", "REJECTED", "CANCELLED"} :
           /\ txn' = [txn EXCEPT ![w] = Idle] /\ UNCHANGED instances
           /\ requests' = WithVerdict(t, v) /\ requests[t] # NoRequest
           /\ requests'[t].status = v
           /\ \A u \in Targets \ {t} : requests'[u] = requests[u]
           /\ IF v = "CANCELLED" THEN /\ requests[t].status \in {"PENDING", "APPROVED"}
                                      /\ "engine" \in DecidedBy[t] => OpenOf(instances[t]) = {}
              ELSE requests[t].status = "PENDING" /\ "engine" \notin DecidedBy[t]
<1>1. Rows
  BY DEF SoleInv, LeaveInv, TypeOK, Rows
<1>2. CASE CancelWrite(w)
  <2>1. txn[w] \in Cancelling
    BY <1>2 DEF CancelWrite, SoleInv, LeaveInv, LeaveInMemory, Deciding, Applying, Acting, Idle
  <2>2. PICK t \in Targets : t = txn[w].target
    BY <2>1 DEF Cancelling
  <2>3. /\ requests[t].status \in {"PENDING", "APPROVED"}
        /\ "engine" \in DecidedBy[t] => OpenOf(instances[t]) = {}
    BY <1>2, <2>1, <2>2 DEF SoleInv, Timely, CancelWrite, Cancelling
  <2>4. requests[t] # NoRequest
    BY <2>3 DEF NoRequest
  <2>5. requests' = WithVerdict(t, "CANCELLED") /\ UNCHANGED instances /\ txn' = [txn EXCEPT ![w] = Idle]
    BY <1>2, <2>2 DEF CancelWrite, EndRequest, engine
  <2>6. /\ requests'[t].status = "CANCELLED"
        /\ \A u \in Targets \ {t} : requests'[u] = requests[u]
    BY <1>1, <2>4, <2>5, VerdictType DEF LeaveStatuses
  <2> QED BY <2>3, <2>4, <2>5, <2>6
<1>3. CASE DecideWrite(w)
  <2>1. txn[w] \in Deciding
    BY <1>3 DEF DecideWrite, SoleInv, LeaveInv, LeaveInMemory, Cancelling, Applying, Acting, Idle
  <2>2. PICK t \in Targets, v \in {"APPROVED", "REJECTED"} : t = txn[w].target /\ v = txn[w].action
    BY <2>1 DEF Deciding
  <2>3. requests[t].status = "PENDING" /\ "engine" \notin DecidedBy[t]
    BY <1>3, <2>1, <2>2 DEF SoleInv, Timely, Decides, Deciding
  <2>4. requests[t] # NoRequest
    BY <2>3 DEF NoRequest
  <2>5. requests' = WithVerdict(t, v) /\ UNCHANGED instances /\ txn' = [txn EXCEPT ![w] = Idle]
    BY <1>3, <2>2 DEF DecideWrite, EndRequest, engine
  <2>6. /\ requests'[t].status = v
        /\ \A u \in Targets \ {t} : requests'[u] = requests[u]
    BY <1>1, <2>2, <2>4, <2>5, VerdictType DEF LeaveStatuses
  <2> QED BY <2>2, <2>3, <2>4, <2>5, <2>6
<1> QED BY <1>2, <1>3

LEMMA SoleSame ==
  ASSUME SoleInv, UNCHANGED <<requests, instances, txn>>
  PROVE  /\ \A u \in Targets : "engine" \in DecidedBy[u] => Stands(u)'
         /\ \A z \in Workers : Timely(txn[z])'
<1>1. \A z \in Workers : Timely(txn[z])'
  BY TimelyKept DEF SoleInv
<1> QED BY <1>1 DEF SoleInv, Stands

LEMMA SoleKept == OneAtATime /\ OneMechanism /\ SoleInv /\ [Next]_vars => SoleInv'
<1> SUFFICES ASSUME OneAtATime, OneMechanism, SoleInv, [Next]_vars PROVE SoleInv'
  OBVIOUS
<1> DEFINE Goal == /\ \A u \in Targets : "engine" \in DecidedBy[u] => Stands(u)'
                   /\ \A z \in Workers : Timely(txn[z])'
<1>1. LeaveInv'
  BY LeaveKept DEF SoleInv
<1>2. ASSUME NEW w \in Workers, UNCHANGED <<requests, instances>>,
             \E r : txn' = [txn EXCEPT ![w] = r] /\ Timely(r)
      PROVE  Goal
  BY <1>2, SoleReading
<1>3. ASSUME NEW w \in Workers, CancelWrite(w) \/ DecideWrite(w) PROVE Goal
  <2>1. PICK t \in Targets, v \in {"APPROVED", "REJECTED", "CANCELLED"} :
           /\ txn' = [txn EXCEPT ![w] = Idle] /\ UNCHANGED instances
           /\ requests'[t].status = v
           /\ \A u \in Targets \ {t} : requests'[u] = requests[u]
           /\ IF v = "CANCELLED" THEN "engine" \in DecidedBy[t] => OpenOf(instances[t]) = {}
              ELSE "engine" \notin DecidedBy[t]
    BY <1>3, SoleVerdict
  <2>2. "engine" \in DecidedBy[t] => Stands(t)'
    BY <2>1 DEF Stands, Agrees
  <2> QED BY <2>1, <2>2, SoleEnding
<1>4. ASSUME NEW w \in Workers, Serve(w) \/ Abort(w) PROVE Goal
  <2>1. CASE \/ \E t \in Targets, a \in Applications : ApplyRead(w, t, a)
             \/ ApplyLock(w)
             \/ \E t \in Targets : MayCancel(t) /\ CancelRead(w, t)
             \/ \E t \in Targets, a \in {"APPROVED", "REJECTED"} : "direct" \in DecidedBy[t] /\ DecideRead(w, t, a)
             \/ DecideLock(w)
             \/ Abort(w)
    <3>1. \E r : txn' = [txn EXCEPT ![w] = r] /\ Timely(r)
      BY <2>1, SoleReads
    <3>2. UNCHANGED <<requests, instances>>
      BY <2>1 DEF ApplyRead, ApplyLock, CancelRead, DecideRead, DecideLock, Abort, engine, records
    <3> QED BY <1>2, <3>1, <3>2
  <2>2. CASE ApplyWrite(w)
    BY <2>2, SoleApplyWrite
  <2>3. CASE CancelWrite(w) \/ DecideWrite(w)
    BY <1>3, <2>3
  <2> QED BY <1>4, <2>1, <2>2, <2>3 DEF Serve
<1>5. ASSUME NEW w \in Workers, Engine(w) PROVE Goal
  <2>1. CASE ActWrite(w)
    BY <2>1, SoleActWrite
  <2>2. ASSUME NEW x \in Employees, NEW t \in Targets, "engine" \in DecidedBy[t],
               NEW i \in DOMAIN instances[t], NEW a \in {"APPROVED", "REJECTED"},
               ActRead(w, x, t, i, a), UNCHANGED records
        PROVE  Goal
    BY <1>2, <2>2, SoleActRead DEF ActRead, records
  <2>3. CASE ActLook(w) /\ UNCHANGED records
    BY <1>2, <2>3, SoleActLook DEF ActLook, records
  <2> QED BY <1>5, <2>1, <2>2, <2>3 DEF Engine
<1>6. CASE Tomorrow \/ UNCHANGED vars
  <2>1. UNCHANGED <<requests, instances, txn>>
    BY <1>6 DEF Tomorrow, vars, engine, records
  <2> QED BY <1>1, <2>1, SoleSame DEF SoleInv
<1>7. ASSUME Goal PROVE SoleInv'
  BY <1>1, <1>7 DEF SoleInv
<1> HIDE DEF Goal
<1> QED BY <1>4, <1>5, <1>6, <1>7 DEF Next

\* A row's status changes in the ways the properties allow.
Onward(was, is) ==
  <<was, is>> \in ({"NONE", "PENDING"} \X {"PENDING", "APPROVED", "REJECTED"})
                    \cup ({"PENDING", "APPROVED"} \X {"CANCELLED"})

LEMMA OnwardOnly ==
  OneAtATime /\ OneMechanism /\ SoleInv /\ [Next]_vars =>
    \A t \in Targets : requests'[t].status # requests[t].status =>
      Onward(requests[t].status, requests'[t].status)
<1> SUFFICES ASSUME OneAtATime, OneMechanism, SoleInv, [Next]_vars,
                    NEW t \in Targets, requests'[t].status # requests[t].status
             PROVE  Onward(requests[t].status, requests'[t].status)
  OBVIOUS
<1>1. ASSUME NEW w \in Workers, ApplyWrite(w)
      PROVE  Onward(requests[t].status, requests'[t].status)
  <2>1. txn[w] \in Applying /\ Applies(txn[w])
    BY <1>1 DEF ApplyWrite, SoleInv, LeaveInv, LeaveInMemory, Cancelling, Deciding, Acting, Idle, Applies
  <2>2. PICK v \in {"PENDING", "APPROVED"} :
          requests' = [requests EXCEPT ![txn[w].target] = [leave |-> txn[w].leave, status |-> v]]
    BY <1>1 DEF ApplyWrite
  <2>3. requests[txn[w].target] = NoRequest /\ Rows
    BY <2>1 DEF SoleInv, LeaveInv, AllFit, Fits, TypeOK, Rows
  <2>4. t = txn[w].target /\ requests[t].status = "NONE" /\ requests'[t].status = v
    BY <2>2, <2>3 DEF Rows, NoRequest
  <2> QED BY <2>4 DEF Onward
<1>2. ASSUME NEW w \in Workers, CancelWrite(w) \/ DecideWrite(w)
      PROVE  Onward(requests[t].status, requests'[t].status)
  BY <1>2, SoleVerdict DEF Onward
<1>3. ASSUME NEW w \in Workers, ActWrite(w)
      PROVE  Onward(requests[t].status, requests'[t].status)
  <2>1. PICK v \in Verdicts :
          /\ ActCommit(w, v)
          /\ requests' = IF v = "PENDING" THEN requests ELSE WithVerdict(txn[w].target, v)
    BY <1>3 DEF ActWrite
  <2>2. txn[w] \in Acting
    BY <2>1 DEF ActCommit, SoleInv, LeaveInv, LeaveInMemory, Cancelling, Applying, Deciding, Idle
  <2>3. PICK u \in Targets : u = txn[w].target
    BY <2>2 DEF Acting
  <2>4. requests[u].status = "PENDING" /\ Rows
    BY <2>2, <2>3 DEF SoleInv, Timely, Acting, LeaveInv, TypeOK, Rows
  <2>5. requests[u] # NoRequest /\ v \in LeaveStatuses
    BY <2>4 DEF NoRequest, Verdicts, LeaveStatuses
  <2>6. requests' = WithVerdict(u, v)
    BY <2>1, <2>3
  <2>7. requests'[u].status = v /\ \A x \in Targets \ {u} : requests'[x] = requests[x]
    BY <2>4, <2>5, <2>6, VerdictType
  <2> QED BY <2>4, <2>7 DEF Onward, Verdicts
<1>4. UNCHANGED requests \/ \E w \in Workers : ApplyWrite(w) \/ CancelWrite(w) \/ DecideWrite(w) \/ ActWrite(w)
  BY DEF Next, Serve, Engine, Abort, Tomorrow, ApplyRead, ApplyLock, CancelRead, DecideRead, DecideLock,
         records, vars
<1> QED BY <1>1, <1>2, <1>3, <1>4

\* With one mechanism for each leave and one request at a time, a leave is decided only
\* while it waits for it, and only once; what is cancelled was waiting or approved, and
\* nothing comes back.
THEOREM OnlyPendingDecidedCorrect == OneAtATime /\ OneMechanism => (Spec => OnlyPendingDecided)
<1> SUFFICES ASSUME OneAtATime, OneMechanism PROVE Spec => OnlyPendingDecided
  OBVIOUS
<1>1. SoleInv /\ [Next]_vars => SoleInv'
  BY SoleKept
<1>2. SoleInv /\ [Next]_vars =>
        [\A t \in Targets : requests'[t].status # requests[t].status =>
           <<requests[t].status, requests'[t].status>> \in
             ({"NONE", "PENDING"} \X {"PENDING", "APPROVED", "REJECTED"})
               \cup ({"PENDING", "APPROVED"} \X {"CANCELLED"})]_vars
  BY OnwardOnly DEF Onward
<1> QED BY <1>1, <1>2, SoleInit, PTL DEF Spec, OnlyPendingDecided

-----------------------------------------------------------------------------
(* Who is on leave *)

Live(t) == requests[t].status \in {"PENDING", "APPROVED"}

\* An employee's live requests are for different days.
Apart ==
  \A t, u \in Targets : t # u /\ Live(t) /\ Live(u) /\ Requester[t] = Requester[u] =>
    ~ Overlaps(requests[t].leave, requests[u].leave)

DaysInv == SoleInv /\ Apart /\ OnLeaveIsApproved

\* Every day of a leave, as CancelWrite takes them off.
Pairs(t, a) == {<<Requester[t], d>> : d \in Span(a)}

\* Two requests of one employee for halves of the same day.
Halves(t, u) ==
  /\ Requester[t] = Requester[u] /\ requests[t].leave.from = requests[u].leave.from
  /\ requests[t].leave.half # "NO" /\ requests[u].leave.half # "NO"

\* Live requests share no day, unless they are for its two halves.
LEMMA ApartMarks ==
  ASSUME Rows, Apart, NEW t \in Targets, NEW u \in Targets, t # u, Live(t), Live(u), ~ Halves(t, u)
  PROVE  Marks(u, requests[u].leave) \cap Pairs(t, requests[t].leave) = {}
<1>1. PICK a \in Applications, b \in Applications : a = requests[t].leave /\ b = requests[u].leave
  BY DEF Rows, Live, NoRequest
<1>2. SUFFICES ASSUME NEW d \in Span(a), d \in Span(b), Requester[t] = Requester[u] PROVE FALSE
  BY <1>1 DEF Marks, Pairs
<1>3. /\ d \in Nat /\ a.from \in Nat /\ a.to \in Nat /\ b.from \in Nat /\ b.to \in Nat
      /\ a.from <= d /\ d <= a.to /\ b.from <= d /\ d <= b.to
  BY <1>2, LeaveAssumption DEF Span
<1>4. ~ Overlaps(a, b)
  BY <1>1, <1>2 DEF Apart
<1>5. a.half # "NO" /\ b.half # "NO"
  BY <1>3, <1>4 DEF Overlaps
<1>6. a.from = a.to /\ b.from = b.to
  BY <1>5, LeaveAssumption
<1>7. a.from = b.from
  BY <1>3, <1>6
<1> QED BY <1>1, <1>2, <1>5, <1>7 DEF Halves

\* One row of the leave requests changes, and with it the days it marks.
LEMMA MarksFollow ==
  ASSUME OnLeaveIsApproved, NEW t \in Targets, requests[t].status # "CANCELLED",
         \A u \in Targets \ {t} : requests'[u] = requests[u],
         NEW gone, NEW new, onLeave' = (onLeave \ gone) \cup new,
         requests'[t].status = "APPROVED" => new = Marks(t, requests'[t].leave),
         requests'[t].status # "APPROVED" => new = {},
         requests[t].status = "APPROVED" => Marks(t, requests[t].leave) \subseteq gone,
         \A u \in Targets \ {t} : requests[u].status = "APPROVED" =>
           Marks(u, requests[u].leave) \cap gone = {} \/ LostToOtherHalf(u)'
  PROVE  OnLeaveIsApproved'
<1>1. /\ \A x \in onLeave : \E u \in Targets : requests[u].status = "APPROVED" /\ x \in Marks(u, requests[u].leave)
      /\ \A u \in Targets : requests[u].status = "APPROVED" =>
           Marks(u, requests[u].leave) \subseteq onLeave \/ LostToOtherHalf(u)
  BY DEF OnLeaveIsApproved, HasStatus
<1>2. \A u \in Targets \ {t} : Marks(u, requests[u].leave)' = Marks(u, requests[u].leave)
  BY DEF Marks
<1>3. Marks(t, requests[t].leave)' = Marks(t, requests'[t].leave)
  BY DEF Marks
<1>4. ASSUME NEW x, x \in onLeave'
      PROVE  \E u \in Targets : requests'[u].status = "APPROVED" /\ x \in Marks(u, requests[u].leave)'
  <2>1. CASE x \in new
    BY <1>3, <2>1
  <2>2. CASE x \notin new
    <3>1. x \in onLeave /\ x \notin gone
      BY <1>4, <2>2
    <3>2. PICK u \in Targets : requests[u].status = "APPROVED" /\ x \in Marks(u, requests[u].leave)
      BY <1>1, <3>1
    <3>3. u # t
      BY <3>1, <3>2
    <3> QED BY <1>2, <3>2, <3>3
  <2> QED BY <2>1, <2>2
<1>5. ASSUME NEW u \in Targets, requests'[u].status = "APPROVED"
      PROVE  Marks(u, requests[u].leave)' \subseteq onLeave' \/ LostToOtherHalf(u)'
  <2>1. CASE u = t
    BY <1>3, <1>5, <2>1
  <2>2. CASE u # t
    <3>1. requests[u].status = "APPROVED" /\ requests'[u] = requests[u]
      BY <1>5, <2>2
    <3>2. CASE Marks(u, requests[u].leave) \subseteq onLeave
      BY <1>2, <2>2, <3>1, <3>2
    <3>3. CASE LostToOtherHalf(u)
      <4>1. PICK z \in Targets : /\ requests[z].status = "CANCELLED" /\ Requester[z] = Requester[u]
                                 /\ requests[z].leave.from = requests[u].leave.from
                                 /\ requests[z].leave.half # "NO" /\ requests[u].leave.half # "NO"
        BY <3>3 DEF LostToOtherHalf, HasStatus
      <4>2. requests'[z] = requests[z]
        BY <4>1
      <4> QED BY <3>1, <4>1, <4>2 DEF LostToOtherHalf, HasStatus
    <3> QED BY <1>1, <3>1, <3>2, <3>3
  <2> QED BY <2>1, <2>2
<1> QED BY <1>4, <1>5 DEF OnLeaveIsApproved, HasStatus

LEMMA DaysInit == Init => DaysInv
<1> SUFFICES ASSUME Init PROVE DaysInv
  OBVIOUS
<1>1. \A t \in Targets : requests[t].status = "NONE"
  BY DEF Init, NoRequest
<1>2. Apart
  BY <1>1 DEF Apart, Live
<1>3. OnLeaveIsApproved
  BY <1>1 DEF OnLeaveIsApproved, HasStatus, Init
<1> QED BY <1>2, <1>3, SoleInit DEF DaysInv

LEMMA DaysSame ==
  ASSUME DaysInv, UNCHANGED <<requests, onLeave>>
  PROVE  Apart' /\ OnLeaveIsApproved'
<1>1. Apart'
  BY DEF DaysInv, Apart, Live
<1>2. OnLeaveIsApproved'
  BY DEF DaysInv, OnLeaveIsApproved, LostToOtherHalf, HasStatus, Marks
<1> QED BY <1>1, <1>2

\* A verdict on a request that keeps its leave.
LEMMA ApartVerdict ==
  ASSUME Apart, NEW t \in Targets, \A u \in Targets \ {t} : requests'[u] = requests[u],
         Live(t), requests'[t].leave = requests[t].leave
  PROVE  Apart'
<1>1. \A u \in Targets : Live(u)' => Live(u) /\ requests'[u].leave = requests[u].leave
  BY DEF Live
<1> QED BY <1>1 DEF Apart

LEMMA DaysApplied ==
  ASSUME OneAtATime, DaysInv, NEW w \in Workers, ApplyWrite(w)
  PROVE  Apart' /\ OnLeaveIsApproved'
<1>1. txn[w] \in Applying /\ Applies(txn[w]) /\ Rows
  BY DEF ApplyWrite, DaysInv, SoleInv, LeaveInv, LeaveInMemory, Cancelling, Deciding, Acting, Idle,
         Applies, TypeOK, Rows
<1>2. PICK t \in Targets, a \in Applications : t = txn[w].target /\ a = txn[w].leave
  BY <1>1 DEF Applying
<1>3. PICK v \in {"PENDING", "APPROVED"} :
        /\ requests' = [requests EXCEPT ![t] = [leave |-> a, status |-> v]]
        /\ IF v = "APPROVED" THEN onLeave' = onLeave \cup Marks(t, a) ELSE onLeave' = onLeave
  BY <1>2 DEF ApplyWrite, Grant
<1>4. /\ requests[t].status = "NONE" /\ Overlapping(t, a) = {}
  BY <1>1, <1>2 DEF ApplyWrite, DaysInv, SoleInv, Timely, LeaveInv, AllFit, Fits, NoRequest
<1>5. /\ requests'[t].status = v /\ requests'[t].leave = a
      /\ \A u \in Targets \ {t} : requests'[u] = requests[u]
  BY <1>1, <1>3 DEF Rows
<1>6. ASSUME NEW u \in Targets \ {t}, Live(u), Requester[u] = Requester[t]
      PROVE  ~ Overlaps(a, requests[u].leave) /\ ~ Overlaps(requests[u].leave, a)
  <2>1. ~ Overlaps(a, requests[u].leave)
    BY <1>4, <1>6 DEF Overlapping, HasStatus, Live
  <2> QED BY <2>1 DEF Overlaps
<1>7. \A u \in Targets \ {t} : (Live(u)' <=> Live(u)) /\ requests'[u].leave = requests[u].leave
  BY <1>5 DEF Live
<1>8. Apart'
  BY <1>5, <1>6, <1>7 DEF Apart, DaysInv
<1>9. PICK new : new = IF v = "APPROVED" THEN Marks(t, a) ELSE {}
  OBVIOUS
<1>10. PICK gone : gone = {}
  OBVIOUS
<1>11. onLeave' = (onLeave \ gone) \cup new
  BY <1>3, <1>9, <1>10
<1>12. \A u \in Targets \ {t} : requests[u].status = "APPROVED" =>
       Marks(u, requests[u].leave) \cap gone = {} \/ LostToOtherHalf(u)'
  BY <1>10
<1>13. /\ requests'[t].status = "APPROVED" => new = Marks(t, requests'[t].leave)
       /\ requests'[t].status # "APPROVED" => new = {}
       /\ requests[t].status = "APPROVED" => Marks(t, requests[t].leave) \subseteq gone
       /\ requests[t].status # "CANCELLED"
  BY <1>4, <1>5, <1>9
<1>14. OnLeaveIsApproved'
  BY <1>5, <1>11, <1>12, <1>13, MarksFollow DEF DaysInv
<1> QED BY <1>8, <1>14

\* A decision on a pending request: the engine's or a direct one.
LEMMA DaysDecided ==
  ASSUME DaysInv, NEW t \in Targets, NEW v \in {"APPROVED", "REJECTED"},
         requests[t].status = "PENDING", requests' = WithVerdict(t, v),
         IF v = "APPROVED" THEN onLeave' = onLeave \cup Marks(t, requests[t].leave)
         ELSE onLeave' = onLeave
  PROVE  Apart' /\ OnLeaveIsApproved'
<1>1. Rows /\ requests[t] # NoRequest /\ v \in LeaveStatuses /\ Live(t)
  BY DEF DaysInv, SoleInv, LeaveInv, TypeOK, Rows, NoRequest, LeaveStatuses, Live
<1>2. /\ requests'[t].status = v /\ requests'[t].leave = requests[t].leave
      /\ \A u \in Targets \ {t} : requests'[u] = requests[u]
  BY <1>1, VerdictType
<1>3. Apart'
  BY <1>1, <1>2, ApartVerdict DEF DaysInv
<1>4. PICK new : new = IF v = "APPROVED" THEN Marks(t, requests[t].leave) ELSE {}
  OBVIOUS
<1>5. PICK gone : gone = {}
  OBVIOUS
<1>6. onLeave' = (onLeave \ gone) \cup new
  BY <1>4, <1>5
<1>7. \A u \in Targets \ {t} : requests[u].status = "APPROVED" =>
       Marks(u, requests[u].leave) \cap gone = {} \/ LostToOtherHalf(u)'
  BY <1>5
<1>8. /\ requests'[t].status = "APPROVED" => new = Marks(t, requests'[t].leave)
      /\ requests'[t].status # "APPROVED" => new = {}
      /\ requests[t].status = "APPROVED" => Marks(t, requests[t].leave) \subseteq gone
      /\ requests[t].status # "CANCELLED"
  BY <1>2, <1>4
<1>9. OnLeaveIsApproved'
  BY <1>2, <1>6, <1>7, <1>8, MarksFollow DEF DaysInv
<1> QED BY <1>3, <1>9

LEMMA DaysCancelled ==
  ASSUME DaysInv, NEW t \in Targets, Live(t), requests' = WithVerdict(t, "CANCELLED"),
         IF requests[t].status = "APPROVED" THEN onLeave' = onLeave \ Pairs(t, requests[t].leave)
         ELSE onLeave' = onLeave
  PROVE  Apart' /\ OnLeaveIsApproved'
<1>1. Rows /\ requests[t] # NoRequest
  BY DEF DaysInv, SoleInv, LeaveInv, TypeOK, Rows, NoRequest, Live
<1>2. /\ requests'[t].status = "CANCELLED" /\ requests'[t].leave = requests[t].leave
      /\ \A u \in Targets \ {t} : requests'[u] = requests[u]
  BY <1>1, VerdictType DEF LeaveStatuses
<1>3. Apart'
  BY <1>1, <1>2, ApartVerdict DEF DaysInv
<1>4. PICK gone : gone = IF requests[t].status = "APPROVED" THEN Pairs(t, requests[t].leave) ELSE {}
  OBVIOUS
<1>5. PICK new : new = {}
  OBVIOUS
<1>6. onLeave' = (onLeave \ gone) \cup new
  BY <1>4, <1>5
<1>7. ASSUME NEW u \in Targets \ {t}, requests[u].status = "APPROVED"
      PROVE  Marks(u, requests[u].leave) \cap gone = {} \/ LostToOtherHalf(u)'
  <2>1. CASE ~ Halves(t, u)
    BY <1>1, <1>4, <1>7, <2>1, ApartMarks DEF DaysInv, Live
  <2>2. CASE Halves(t, u)
    BY <1>2, <2>2 DEF Halves, LostToOtherHalf, HasStatus
  <2> QED BY <2>1, <2>2
<1>8. /\ requests'[t].status # "APPROVED" /\ new = {} /\ requests[t].status # "CANCELLED"
      /\ requests[t].status = "APPROVED" => Marks(t, requests[t].leave) \subseteq gone
  BY <1>2, <1>4, <1>5 DEF Marks, Pairs, Live
<1>9. OnLeaveIsApproved'
  BY <1>2, <1>6, <1>7, <1>8, MarksFollow DEF DaysInv
<1> QED BY <1>3, <1>9

LEMMA DaysKept == OneAtATime /\ OneMechanism /\ DaysInv /\ [Next]_vars => DaysInv'
<1> SUFFICES ASSUME OneAtATime, OneMechanism, DaysInv, [Next]_vars PROVE DaysInv'
  OBVIOUS
<1>1. SoleInv'
  BY SoleKept DEF DaysInv
<1>2. CASE UNCHANGED <<requests, onLeave>>
  BY <1>1, <1>2, DaysSame DEF DaysInv
<1>3. ASSUME NEW w \in Workers, ApplyWrite(w) PROVE DaysInv'
  BY <1>1, <1>3, DaysApplied DEF DaysInv
<1>4. ASSUME NEW w \in Workers, CancelWrite(w) PROVE DaysInv'
  <2>1. txn[w] \in Cancelling
    BY <1>4 DEF CancelWrite, DaysInv, SoleInv, LeaveInv, LeaveInMemory, Deciding, Applying, Acting, Idle
  <2>2. PICK t \in Targets : t = txn[w].target
    BY <2>1 DEF Cancelling
  <2>3. Live(t) /\ requests[t].status = txn[w].was
    BY <1>4, <2>1, <2>2 DEF DaysInv, SoleInv, Timely, CancelWrite, Cancelling, Live
  <2>4. /\ requests' = WithVerdict(t, "CANCELLED")
        /\ IF requests[t].status = "APPROVED" THEN onLeave' = onLeave \ Pairs(t, requests[t].leave)
           ELSE onLeave' = onLeave
    BY <1>4, <2>2, <2>3 DEF CancelWrite, Pairs
  <2> QED BY <1>1, <2>3, <2>4, DaysCancelled DEF DaysInv
<1>5. ASSUME NEW w \in Workers, DecideWrite(w) PROVE DaysInv'
  <2>1. txn[w] \in Deciding
    BY <1>5 DEF DecideWrite, DaysInv, SoleInv, LeaveInv, LeaveInMemory, Cancelling, Applying, Acting, Idle
  <2>2. PICK t \in Targets, v \in {"APPROVED", "REJECTED"} : t = txn[w].target /\ v = txn[w].action
    BY <2>1 DEF Deciding
  <2>3. requests[t].status = "PENDING" /\ requests[t].leave = txn[w].leave
    BY <1>5, <2>1, <2>2 DEF DaysInv, SoleInv, Timely, Decides, Deciding, LeaveInv, AllFit, Fits
  <2>4. txn[w].op = "decideLocked" => v = "APPROVED"
    BY <1>5, <2>2 DEF DaysInv, SoleInv, Timely
  <2>5. /\ requests' = WithVerdict(t, v)
        /\ IF v = "APPROVED" THEN onLeave' = onLeave \cup Marks(t, requests[t].leave)
           ELSE onLeave' = onLeave
    BY <1>5, <2>2, <2>3, <2>4 DEF DecideWrite, Grant
  <2> QED BY <1>1, <2>3, <2>5, DaysDecided DEF DaysInv
<1>6. ASSUME NEW w \in Workers, ActWrite(w) PROVE DaysInv'
  <2>1. PICK v \in Verdicts :
          /\ ActCommit(w, v)
          /\ requests' = IF v = "PENDING" THEN requests ELSE WithVerdict(txn[w].target, v)
          /\ IF v = "APPROVED" THEN onLeave' = onLeave \cup Marks(txn[w].target, requests[txn[w].target].leave)
             ELSE onLeave' = onLeave
    BY <1>6 DEF ActWrite, Grant
  <2>2. txn[w] \in Acting
    BY <2>1 DEF ActCommit, DaysInv, SoleInv, LeaveInv, LeaveInMemory, Cancelling, Applying, Deciding, Idle
  <2>3. PICK t \in Targets : t = txn[w].target
    BY <2>2 DEF Acting
  <2>4. requests[t].status = "PENDING"
    BY <2>2, <2>3 DEF DaysInv, SoleInv, Timely, Acting
  <2>5. CASE v = "PENDING"
    BY <1>2, <2>1, <2>5
  <2>6. CASE v \in {"APPROVED", "REJECTED"}
    <3>1. /\ requests' = WithVerdict(t, v)
          /\ IF v = "APPROVED" THEN onLeave' = onLeave \cup Marks(t, requests[t].leave)
             ELSE onLeave' = onLeave
      BY <2>1, <2>3, <2>6
    <3> QED BY <1>1, <2>4, <2>6, <3>1, DaysDecided DEF DaysInv
  <2> QED BY <2>5, <2>6 DEF Verdicts
<1>7. \/ UNCHANGED <<requests, onLeave>>
      \/ \E w \in Workers : ApplyWrite(w) \/ CancelWrite(w) \/ DecideWrite(w) \/ ActWrite(w)
  BY DEF Next, Serve, Engine, Abort, Tomorrow, ApplyRead, ApplyLock, CancelRead, DecideRead, DecideLock,
         records, vars
<1> QED BY <1>2, <1>3, <1>4, <1>5, <1>6, <1>7

\* With one mechanism for each leave and one request at a time: the attendance table shows an
\* employee on leave on no day but the working days of its approved requests, and on all of
\* those, unless the other half of the day was cancelled; and every table keeps its shape.
THEOREM LeaveSoundCorrect == OneAtATime /\ OneMechanism => (Spec => []LeaveSound)
<1> SUFFICES ASSUME OneAtATime, OneMechanism PROVE Spec => []LeaveSound
  OBVIOUS
<1>1. DaysInv /\ [Next]_vars => DaysInv'
  BY DaysKept
<1>2. DaysInv => LeaveSound
  BY DEF DaysInv, SoleInv, LeaveInv, LeaveSound
<1> QED BY <1>1, <1>2, DaysInit, PTL DEF Spec

-----------------------------------------------------------------------------
(* How far the balance lags behind *)

LagInv == SoleInv /\ UsedLagsOne

LEMMA DaysCountAfter ==
  ASSUME NEW S \in SUBSET Targets
  PROVE  (Rows /\ (\A u \in S : requests[u].status # "NONE") => LeaveDays(S) = Cardinality(Dots(S, Lengths)))'
<1>1. Rows /\ (\A u \in S : requests[u].status # "NONE") => LeaveDays(S) = Cardinality(Dots(S, Lengths))
  BY DaysCount
<1> QED BY <1>1, PTL

\* A sum over requests that keep their leave stays the same.
LEMMA DaysStay ==
  ASSUME Rows, Rows', NEW S \in SUBSET Targets,
         \A u \in S : /\ requests[u].status # "NONE" /\ requests'[u].status # "NONE"
                      /\ requests'[u].leave = requests[u].leave
  PROVE  LeaveDays(S)' = LeaveDays(S)
<1>1. LeaveDays(S) = Cardinality(Dots(S, Lengths))
  BY DaysCount
<1>2. LeaveDays(S)' = Cardinality(Dots(S, Lengths)')
  BY DaysCountAfter
<1>3. ASSUME NEW u \in S
      PROVE  Lengths'[u] = Lengths[u]
  <2>1. u \in Targets /\ requests[u] # NoRequest /\ requests'[u] # NoRequest
    BY DEF NoRequest
  <2>2. Lengths[u] = TotalDays(requests[u].leave) /\ Lengths'[u] = TotalDays(requests'[u].leave)
    BY <2>1 DEF Lengths
  <2>3. requests'[u].leave = requests[u].leave
    OBVIOUS
  <2> QED BY <2>2, <2>3
<1>4. Dots(S, Lengths)' = Dots(S, Lengths)
  BY <1>3 DEF Dots
<1> QED BY <1>1, <1>2, <1>4

\* The balance and the approved requests of a type are what they were.
LEMMA LagSame ==
  ASSUME Rows, Rows', UsedLagsOne, NEW e \in Employees, NEW type \in LeaveTypes,
         used'[<<e, type>>] = used[<<e, type>>], Counted(e, type)' = Counted(e, type),
         \A u \in Counted(e, type) : requests'[u] = requests[u]
  PROVE  ShortOfOne(e, type)'
<1>1. PICK S \in SUBSET Targets : S = Counted(e, type) /\ S = Counted(e, type)'
  BY CountedRows
<1>2. \A u \in S : requests[u].status # "NONE" /\ requests'[u] = requests[u]
  BY <1>1, CountedRows
<1>3. LeaveDays(S)' = LeaveDays(S) /\ \A u \in S : LeaveDays(S \ {u})' = LeaveDays(S \ {u})
  BY <1>2, DaysStay
<1>4. Approved(e, type)' = LeaveDays(S)' /\ Approved(e, type) = LeaveDays(S)
  BY <1>1 DEF Approved
<1>5. used[<<e, type>>] = LeaveDays(S) \/ \E u \in S : used[<<e, type>>] = LeaveDays(S \ {u})
  BY <1>1, <1>4 DEF UsedLagsOne, ShortOfOne
<1>6. \A u \in S : LeaveDays(Counted(e, type) \ {u})' = LeaveDays(S \ {u})'
  BY <1>1
<1> QED BY <1>1, <1>3, <1>4, <1>5, <1>6 DEF ShortOfOne

\* Only approved requests are counted.
LEMMA CountedSame ==
  ASSUME NEW t \in Targets, NEW e, NEW type, \A u \in Targets \ {t} : requests'[u] = requests[u],
         ~ (t \in Counted(e, type)), ~ (t \in Counted(e, type)')
  PROVE  Counted(e, type)' = Counted(e, type) /\ \A u \in Counted(e, type) : requests'[u] = requests[u]
BY DEF Counted, Of, HasStatus

\* A step that neither approves nor takes back.
LEMMA LagOther ==
  ASSUME Rows, Rows', UsedLagsOne, used' = used, NEW t \in Targets,
         \A u \in Targets \ {t} : requests'[u] = requests[u],
         requests[t].status # "APPROVED", requests'[t].status # "APPROVED"
  PROVE  UsedLagsOne'
<1>1. ASSUME NEW e \in Employees, NEW type \in LeaveTypes
      PROVE  ShortOfOne(e, type)'
  <2>1. ~ (t \in Counted(e, type)) /\ ~ (t \in Counted(e, type)')
    BY DEF Counted, HasStatus
  <2> QED BY <2>1, CountedSame, LagSame
<1> QED BY <1>1 DEF UsedLagsOne

\* An approval writes the sum as it was before, whoever approves.
LEMMA LagApproved ==
  ASSUME Rows, Rows', used \in [Employees \X LeaveTypes -> Nat], UsedLagsOne, NEW t \in Targets,
         \A u \in Targets \ {t} : requests'[u] = requests[u],
         requests[t].status # "APPROVED", requests'[t].status = "APPROVED",
         NEW a \in Applications, requests'[t].leave = a, used' = Recomputed(Requester[t], a.type)
  PROVE  UsedLagsOne'
<1>1. ASSUME NEW e \in Employees, NEW type \in LeaveTypes
      PROVE  ShortOfOne(e, type)'
  <2>1. ~ (t \in Counted(e, type))
    BY DEF Counted, HasStatus
  <2>2. CASE e = Requester[t] /\ type = a.type
    <3>1. PICK S \in SUBSET Targets : S = Counted(e, type)
      BY CountedRows
    <3>2. \A u \in S : requests[u].status # "NONE" /\ requests'[u] = requests[u]
      BY <2>1, <3>1, CountedRows
    <3>3. Counted(e, type)' = S \cup {t}
      BY <2>2, <3>1 DEF Counted, Of, HasStatus
    <3>4. used'[<<e, type>>] = LeaveDays(S)
      BY <2>2, <3>1 DEF Recomputed, Approved
    <3>5. LeaveDays(S)' = LeaveDays(S)
      BY <3>2, DaysStay
    <3>6. (S \cup {t}) \ {t} = S
      BY <2>1, <3>1
    <3>7. LeaveDays((S \cup {t}) \ {t})' = LeaveDays(S)'
      BY <3>6
    <3>8. LeaveDays(Counted(e, type) \ {t})' = LeaveDays((S \cup {t}) \ {t})'
      BY <3>3
    <3> QED BY <3>3, <3>4, <3>5, <3>7, <3>8 DEF ShortOfOne
  <2>3. CASE ~ (e = Requester[t] /\ type = a.type)
    <3>1. ~ (t \in Counted(e, type)')
      BY <2>3 DEF Counted, Of
    <3>2. used'[<<e, type>>] = used[<<e, type>>]
      BY <2>3 DEF Recomputed
    <3>3. Counted(e, type)' = Counted(e, type) /\ \A u \in Counted(e, type) : requests'[u] = requests[u]
      BY <2>1, <3>1, CountedSame
    <3> QED BY <3>2, <3>3, LagSame
  <2> QED BY <2>2, <2>3
<1> QED BY <1>1 DEF UsedLagsOne

\* The cancellation of an approved leave writes the sum of those that are left.
LEMMA LagCancelled ==
  ASSUME Rows, Rows', used \in [Employees \X LeaveTypes -> Nat], UsedLagsOne, NEW t \in Targets,
         \A u \in Targets \ {t} : requests'[u] = requests[u],
         requests'[t].status # "APPROVED", NEW a \in Applications, requests[t].leave = a,
         used' = [used EXCEPT ![<<Requester[t], a.type>>] = LeaveDays(Counted(Requester[t], a.type) \ {t})]
  PROVE  UsedLagsOne'
<1>1. ASSUME NEW e \in Employees, NEW type \in LeaveTypes
      PROVE  ShortOfOne(e, type)'
  <2>1. ~ (t \in Counted(e, type)')
    BY DEF Counted, HasStatus
  <2>2. CASE e = Requester[t] /\ type = a.type
    <3>1. PICK S \in SUBSET Targets : S = Counted(e, type) \ {t}
      BY CountedRows
    <3>2. \A u \in S : requests[u].status # "NONE" /\ requests'[u] = requests[u]
      BY <3>1, CountedRows
    <3>3. Counted(e, type)' = S
      BY <2>1, <3>1 DEF Counted, Of, HasStatus
    <3>4. used'[<<e, type>>] = LeaveDays(S)
      BY <2>2, <3>1
    <3>5. LeaveDays(S)' = LeaveDays(S)
      BY <3>2, DaysStay
    <3>6. Approved(e, type)' = LeaveDays(S)'
      BY <3>3 DEF Approved
    <3> QED BY <3>4, <3>5, <3>6 DEF ShortOfOne
  <2>3. CASE ~ (e = Requester[t] /\ type = a.type)
    <3>1. ~ (t \in Counted(e, type))
      BY <2>3 DEF Counted, Of
    <3>2. used'[<<e, type>>] = used[<<e, type>>]
      BY <2>3
    <3>3. Counted(e, type)' = Counted(e, type) /\ \A u \in Counted(e, type) : requests'[u] = requests[u]
      BY <2>1, <3>1, CountedSame
    <3> QED BY <3>2, <3>3, LagSame
  <2> QED BY <2>2, <2>3
<1> QED BY <1>1 DEF UsedLagsOne

LEMMA LagKept == OneAtATime /\ OneMechanism /\ LagInv /\ [Next]_vars => LagInv'
<1> SUFFICES ASSUME OneAtATime, OneMechanism, LagInv, [Next]_vars PROVE LagInv'
  OBVIOUS
<1>1. /\ SoleInv' /\ SoleInv /\ LeaveInv /\ UsedLagsOne /\ Rows /\ Rows'
      /\ used \in [Employees \X LeaveTypes -> Nat]
  BY SoleKept DEF LagInv, SoleInv, LeaveInv, TypeOK, Rows
<1>2. CASE UNCHANGED <<requests, used>>
  <2>1. ASSUME NEW e \in Employees, NEW type \in LeaveTypes
        PROVE  ShortOfOne(e, type)'
    <3>1. Counted(e, type)' = Counted(e, type)
      BY <1>2 DEF Counted, Of, HasStatus
    <3> QED BY <1>1, <1>2, <3>1, LagSame
  <2> QED BY <1>1, <2>1 DEF LagInv, UsedLagsOne
<1>3. ASSUME NEW w \in Workers, ApplyWrite(w) PROVE LagInv'
  <2>1. txn[w] \in Applying /\ Applies(txn[w])
    BY <1>1, <1>3 DEF ApplyWrite, LeaveInv, LeaveInMemory, Cancelling, Deciding, Acting, Idle, Applies
  <2>2. PICK t \in Targets, a \in Applications : t = txn[w].target /\ a = txn[w].leave
    BY <2>1 DEF Applying
  <2>3. PICK v \in {"PENDING", "APPROVED"} :
          /\ requests' = [requests EXCEPT ![t] = [leave |-> a, status |-> v]]
          /\ IF v = "APPROVED" THEN used' = Recomputed(Requester[t], a.type) ELSE used' = used
    BY <1>3, <2>2 DEF ApplyWrite, Grant
  <2>4. requests[t].status = "NONE"
    BY <1>1, <2>1, <2>2 DEF LeaveInv, AllFit, Fits, NoRequest
  <2>5. /\ requests'[t].status = v /\ requests'[t].leave = a
        /\ \A u \in Targets \ {t} : requests'[u] = requests[u]
    BY <1>1, <2>3 DEF Rows
  <2>6. CASE v = "APPROVED"
    BY <1>1, <2>3, <2>4, <2>5, <2>6, LagApproved DEF LagInv
  <2>7. CASE v = "PENDING"
    BY <1>1, <2>3, <2>4, <2>5, <2>7, LagOther DEF LagInv
  <2> QED BY <2>6, <2>7
<1>4. ASSUME NEW t \in Targets, NEW v \in {"APPROVED", "REJECTED"},
             requests[t].status = "PENDING", requests' = WithVerdict(t, v),
             IF v = "APPROVED" THEN used' = Recomputed(Requester[t], requests[t].leave.type) ELSE used' = used
      PROVE  LagInv'
  <2>1. requests[t] # NoRequest /\ v \in LeaveStatuses
    BY <1>4 DEF NoRequest, LeaveStatuses
  <2>2. /\ requests'[t].status = v /\ requests'[t].leave = requests[t].leave
        /\ \A u \in Targets \ {t} : requests'[u] = requests[u]
    BY <1>1, <1>4, <2>1, VerdictType
  <2>3. PICK a \in Applications : a = requests[t].leave
    BY <1>1, <2>1 DEF Rows
  <2>4. CASE v = "APPROVED"
    BY <1>1, <1>4, <2>2, <2>3, <2>4, LagApproved DEF LagInv
  <2>5. CASE v = "REJECTED"
    BY <1>1, <1>4, <2>2, <2>5, LagOther DEF LagInv
  <2> QED BY <2>4, <2>5
<1>5. ASSUME NEW w \in Workers, CancelWrite(w) PROVE LagInv'
  <2>1. txn[w] \in Cancelling
    BY <1>1, <1>5 DEF CancelWrite, LeaveInv, LeaveInMemory, Deciding, Applying, Acting, Idle
  <2>2. PICK t \in Targets : t = txn[w].target
    BY <2>1 DEF Cancelling
  <2>3. Live(t) /\ requests[t].status = txn[w].was
    BY <1>1, <1>5, <2>1, <2>2 DEF SoleInv, Timely, CancelWrite, Cancelling, Live
  <2>4. requests[t] # NoRequest
    BY <2>3 DEF Live, NoRequest
  <2>5. PICK a \in Applications : a = requests[t].leave
    BY <1>1, <2>4 DEF Rows
  <2>6. /\ requests' = WithVerdict(t, "CANCELLED")
        /\ IF requests[t].status = "APPROVED"
           THEN used' = [used EXCEPT ![<<Requester[t], a.type>>] = LeaveDays(Counted(Requester[t], a.type) \ {t})]
           ELSE used' = used
    BY <1>5, <2>2, <2>3, <2>5 DEF CancelWrite
  <2>7. /\ requests'[t].status = "CANCELLED"
        /\ \A u \in Targets \ {t} : requests'[u] = requests[u]
    BY <1>1, <2>4, <2>6, VerdictType DEF LeaveStatuses
  <2>8. CASE requests[t].status = "APPROVED"
    BY <1>1, <2>5, <2>6, <2>7, <2>8, LagCancelled DEF LagInv
  <2>9. CASE requests[t].status # "APPROVED"
    BY <1>1, <2>6, <2>7, <2>9, LagOther DEF LagInv
  <2> QED BY <2>8, <2>9
<1>6. ASSUME NEW w \in Workers, DecideWrite(w) PROVE LagInv'
  <2>1. txn[w] \in Deciding
    BY <1>1, <1>6 DEF DecideWrite, LeaveInv, LeaveInMemory, Cancelling, Applying, Acting, Idle
  <2>2. PICK t \in Targets, v \in {"APPROVED", "REJECTED"} : t = txn[w].target /\ v = txn[w].action
    BY <2>1 DEF Deciding
  <2>3. requests[t].status = "PENDING" /\ requests[t].leave = txn[w].leave
    BY <1>1, <1>6, <2>1, <2>2 DEF SoleInv, Timely, Decides, Deciding, LeaveInv, AllFit, Fits
  <2>4. txn[w].op = "decideLocked" => v = "APPROVED"
    BY <1>1, <1>6, <2>2 DEF SoleInv, Timely
  <2>5. /\ requests' = WithVerdict(t, v)
        /\ IF v = "APPROVED" THEN used' = Recomputed(Requester[t], requests[t].leave.type) ELSE used' = used
    BY <1>6, <2>2, <2>3, <2>4 DEF DecideWrite, Grant
  <2> QED BY <1>4, <2>3, <2>5
<1>7. ASSUME NEW w \in Workers, ActWrite(w) PROVE LagInv'
  <2>1. PICK v \in Verdicts :
          /\ ActCommit(w, v)
          /\ requests' = IF v = "PENDING" THEN requests ELSE WithVerdict(txn[w].target, v)
          /\ IF v = "APPROVED"
             THEN used' = Recomputed(Requester[txn[w].target], requests[txn[w].target].leave.type) ELSE used' = used
    BY <1>7 DEF ActWrite, Grant
  <2>2. txn[w] \in Acting
    BY <1>1, <2>1 DEF ActCommit, LeaveInv, LeaveInMemory, Cancelling, Applying, Deciding, Idle
  <2>3. PICK t \in Targets : t = txn[w].target
    BY <2>2 DEF Acting
  <2>4. requests[t].status = "PENDING"
    BY <1>1, <2>2, <2>3 DEF SoleInv, Timely, Acting
  <2>5. CASE v = "PENDING"
    BY <1>2, <2>1, <2>5
  <2>6. CASE v \in {"APPROVED", "REJECTED"}
    <3>1. /\ requests' = WithVerdict(t, v)
          /\ IF v = "APPROVED" THEN used' = Recomputed(Requester[t], requests[t].leave.type) ELSE used' = used
      BY <2>1, <2>3, <2>6
    <3> QED BY <1>4, <2>4, <2>6, <3>1
  <2> QED BY <2>5, <2>6 DEF Verdicts
<1>8. \/ UNCHANGED <<requests, used>>
      \/ \E w \in Workers : ApplyWrite(w) \/ CancelWrite(w) \/ DecideWrite(w) \/ ActWrite(w)
  BY DEF Next, Serve, Engine, Abort, Tomorrow, ApplyRead, ApplyLock, CancelRead, DecideRead, DecideLock,
         records, vars
<1> QED BY <1>2, <1>3, <1>5, <1>6, <1>7, <1>8

LEMMA NoneCounted ==
  ASSUME Init, NEW e, NEW type PROVE Approved(e, type) = 0
<1>1. Counted(e, type) = {}
  BY DEF Init, NoRequest, Counted, HasStatus
<1>2. Rows
  BY DEF Init, Rows
<1>3. Dots({}, Lengths) = {}
  BY DEF Dots
<1>4. LeaveDays({}) = Cardinality(Dots({}, Lengths))
  BY <1>2, DaysCount
<1> QED BY <1>1, <1>3, <1>4, FS_EmptySet DEF Approved

\* With one mechanism for each leave and one request at a time: the balance shown of a leave
\* type is the sum of its approved requests, or that sum without one of them, however many
\* approvals and cancellations there were.
THEOREM UsedLagsOneCorrect == OneAtATime /\ OneMechanism => (Spec => []UsedLagsOne)
<1> SUFFICES ASSUME OneAtATime, OneMechanism PROVE Spec => []UsedLagsOne
  OBVIOUS
<1>1. Init => LagInv
  BY SoleInit, NoneCounted DEF LagInv, UsedLagsOne, ShortOfOne, Init
<1>2. LagInv /\ [Next]_vars => LagInv'
  BY LagKept
<1>3. LagInv => UsedLagsOne
  BY DEF LagInv
<1> QED BY <1>1, <1>2, <1>3, PTL DEF Spec
=============================================================================
