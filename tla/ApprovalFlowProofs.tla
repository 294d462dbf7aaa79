-------------------------- MODULE ApprovalFlowProofs --------------------------
(*****************************************************************************)
(* Proofs about ApprovalFlow, for any number of approvers, targets, charts and *)
(* configured steps. Whatever overlaps: the types, that a flow never gets    *)
(* stuck, and that no requester decides. When requests do not overlap: levels *)
(* in order, complete approvals, final rejections, and that what the engine  *)
(* does to a target implements ApprovalDecision.                             *)
(*****************************************************************************)
EXTENDS ApprovalFlow, ApprovalEngineProofs

-----------------------------------------------------------------------------
(* Type correctness *)

FlowTypes == TypeOK /\ Configured

LEMMA ActTypes ==
  ASSUME FlowTypes, NEW w \in Workers, Act(w)
  PROVE  TypeOK'
<1> USE DEF FlowTypes, TypeOK, EngineTypeOK
<1>1. ASSUME NEW x \in Employees, NEW t \in Targets, NEW i \in DOMAIN instances[t],
             NEW a \in {"APPROVED", "REJECTED"}, ActRead(w, x, t, i, a), UNCHANGED outcome
      PROVE  TypeOK'
  <2>1. PICK r \in Acting : txn' = [txn EXCEPT ![w] = r]
    BY <1>1, ActReadType
  <2> QED BY <1>1, <2>1 DEF ActRead
<1>2. CASE ActLook(w) /\ UNCHANGED outcome
  <2>1. txn[w] \in Acting
    BY <1>2 DEF ActLook, Idle
  <2>2. PICK r \in Acting : txn' = [txn EXCEPT ![w] = r]
    BY <1>2, <2>1, ActLookType
  <2> QED BY <1>2, <2>2 DEF ActLook
<1>3. CASE Commit(w)
  <2>1. PICK v \in Verdicts :
          /\ ActCommit(w, v)
          /\ outcome' = [outcome EXCEPT ![txn[w].target] = Outcome(txn[w].target, v)]
    BY <1>3 DEF Commit
  <2>2. txn[w] \in Acting
    BY <2>1 DEF ActCommit, Idle
  <2>3. instances' \in [Targets -> Seq(Instance)]
    BY <2>1, <2>2, ActCommitType
  <2>4. outcome' \in [Targets -> Verdicts \cup {"NONE"}]
    BY <2>1, <2>2 DEF Outcome, Acting
  <2>5. txn' \in [Workers -> Acting \cup {Idle}]
    BY <2>1 DEF ActCommit, EndRequest
  <2> QED BY <2>1, <2>3, <2>4, <2>5 DEF ActCommit
<1> QED BY <1>1, <1>2, <1>3 DEF Act

LEMMA SubmitTypes ==
  ASSUME FlowTypes, NEW t \in Targets, Submit(t)
  PROVE  TypeOK'
<1> USE DEF FlowTypes, TypeOK, EngineTypeOK
<1>1. PICK v \in Verdicts : StartFlow(t, v) /\ outcome' = [outcome EXCEPT ![t] = v]
  BY DEF Submit
<1>2. PICK rows \in Seq(Instance) : instances' = [instances EXCEPT ![t] = @ \o rows]
  BY <1>1, StartFlowShape
<1>3. instances[t] \o rows \in Seq(Instance)
  BY <1>2
<1> QED BY <1>1, <1>2, <1>3 DEF Submit

LEMMA TypesKept == FlowTypes /\ [Next]_vars => FlowTypes'
<1> SUFFICES ASSUME FlowTypes, [Next]_vars PROVE FlowTypes'
  OBVIOUS
<1>1. UNCHANGED workflows
  BY DEF Next, Submit, Act, Abort, AbortRequest, Personnel, ActRead, ActLook, Commit, ActCommit,
         GrantRole, RevokeRole, vars
<1>2. Configured'
  BY <1>1 DEF FlowTypes, Configured
<1>3. ASSUME NEW w \in Workers, Abort(w) PROVE TypeOK'
  BY <1>3 DEF FlowTypes, TypeOK, EngineTypeOK, Abort, AbortRequest, EndRequest
<1>4. CASE Personnel
  <2>1. UNCHANGED <<workflows, txn, instances, outcome>>
    BY <1>4 DEF Personnel, GrantRole, RevokeRole
  <2>2. PICK x \in Employees, r \in Roles : \/ org' = [org EXCEPT !.holds = @ \cup {<<x, r>>}]
                                            \/ org' = [org EXCEPT !.holds = @ \ {<<x, r>>}]
    BY <1>4 DEF Personnel, GrantRole, RevokeRole
  <2>3. org \in Org
    BY DEF FlowTypes, TypeOK, EngineTypeOK
  <2>4. /\ org.holds \cup {<<x, r>>} \in SUBSET (Employees \X Roles)
        /\ org.holds \ {<<x, r>>} \in SUBSET (Employees \X Roles)
    BY <2>3 DEF Org
  <2>5. org' \in Org
    BY <2>2, <2>3, <2>4 DEF Org
  <2> QED BY <1>2, <2>1, <2>5 DEF FlowTypes, TypeOK, EngineTypeOK
<1>5. CASE UNCHANGED vars
  BY <1>2, <1>5 DEF FlowTypes, TypeOK, EngineTypeOK, vars
<1> QED BY <1>2, <1>3, <1>4, <1>5, ActTypes, SubmitTypes DEF Next, FlowTypes

LEMMA InitTypesOfFlow == Init => FlowTypes
<1> SUFFICES ASSUME Init PROVE FlowTypes
  OBVIOUS
<1>1. EngineTypeOK /\ Configured
  BY EngineInitTypes, FlowAssumption DEF Init
<1> QED BY <1>1 DEF Init, EngineInit, FlowTypes, TypeOK

\* Instances, requests in memory and outcomes keep the shape of their columns and
\* fields, for any number of levels, targets and approvers.
THEOREM FlowTypeCorrect == Spec => []TypeOK
<1>1. FlowTypes => TypeOK
  BY DEF FlowTypes
<1> QED BY <1>1, InitTypesOfFlow, TypesKept, PTL DEF Spec

-----------------------------------------------------------------------------
(* No target hangs between two levels *)

\* What a request has in memory stays true of the table while others commit: its own
\* instance never becomes DRAFT again, so the next one it found is another one.
Remembered(r) ==
  LET rows == instances[r.target] IN
  /\ r.index \in DOMAIN rows /\ rows[r.index].status # "DRAFT"
  /\ r.next # 0 => r.next \in DOMAIN rows /\ r.next # r.index

StuckInv == NeverStuck /\ \A w \in Workers : txn[w] # Idle => Remembered(txn[w])

LEMMA StuckSubmit ==
  ASSUME FlowTypes, StuckInv, NEW t \in Targets, Submit(t)
  PROVE  StuckInv'
<1>1. PICK v \in Verdicts : StartFlow(t, v) /\ outcome' = [outcome EXCEPT ![t] = v]
  BY DEF Submit
<1>2. PICK rows \in Seq(Instance) :
        /\ instances' = [instances EXCEPT ![t] = @ \o rows]
        /\ v = "PENDING" => \E i \in DOMAIN rows : rows[i].status = "PENDING"
  BY <1>1, StartFlowShape DEF FlowTypes, TypeOK, EngineTypeOK
<1> DEFINE old == instances[t]
           new == old \o rows
<1>3. old \in Seq(Instance)
  BY DEF FlowTypes, TypeOK, EngineTypeOK
<1>4. /\ \A i \in DOMAIN old : i \in DOMAIN new /\ new[i] = old[i]
      /\ \A i \in DOMAIN rows : Len(old) + i \in DOMAIN new /\ new[Len(old) + i] = rows[i]
  BY <1>3
<1>5. /\ instances'[t] = new
      /\ \A u \in Targets \ {t} : instances'[u] = instances[u] /\ outcome'[u] = outcome[u]
      /\ outcome'[t] = v
  BY <1>1, <1>2 DEF FlowTypes, TypeOK, EngineTypeOK
<1> HIDE DEF old, new
<1>6. NeverStuck'
  <2> SUFFICES ASSUME NEW u \in Targets, outcome'[u] = "PENDING"
               PROVE  \E i \in DOMAIN instances'[u] : instances'[u][i].status = "PENDING"
    BY DEF NeverStuck, IndexesOf
  <2>1. CASE u = t
    <3>1. PICK i \in DOMAIN rows : rows[i].status = "PENDING"
      BY <1>2, <1>5, <2>1
    <3>2. Len(old) + i \in DOMAIN new /\ new[Len(old) + i].status = "PENDING"
      BY <1>4, <3>1
    <3> QED BY <1>5, <2>1, <3>2
  <2>2. CASE u # t
    BY <1>5, <2>2 DEF StuckInv, NeverStuck, IndexesOf
  <2> QED BY <2>1, <2>2
<1>7. ASSUME NEW w \in Workers, txn[w] # Idle PROVE Remembered(txn[w])'
  <2>1. Remembered(txn[w]) /\ txn[w].target \in Targets /\ txn' = txn
    BY <1>7 DEF StuckInv, FlowTypes, TypeOK, Acting, Submit
  <2>2. CASE txn[w].target = t
    BY <1>4, <1>5, <2>1, <2>2 DEF Remembered, old
  <2>3. CASE txn[w].target # t
    BY <1>5, <2>1, <2>3 DEF Remembered
  <2> QED BY <2>2, <2>3
<1> QED BY <1>6, <1>7 DEF StuckInv, Submit

LEMMA StuckRead ==
  ASSUME FlowTypes, StuckInv, NEW w \in Workers, NEW x, NEW t \in Targets,
         NEW i \in DOMAIN instances[t], NEW a, ActRead(w, x, t, i, a), UNCHANGED outcome
  PROVE  StuckInv'
<1> DEFINE r == [op |-> "act", by |-> x, target |-> t, index |-> i, action |-> a, next |-> 0]
<1>1. txn' = [txn EXCEPT ![w] = r] /\ UNCHANGED instances /\ txn \in [Workers -> Acting \cup {Idle}]
  BY DEF ActRead, StartRequest, FlowTypes, TypeOK
<1>2. Remembered(r)
  BY DEF Remembered, ActRead
<1> HIDE DEF r
<1>3. ASSUME NEW v \in Workers, txn'[v] # Idle PROVE Remembered(txn'[v])
  BY <1>1, <1>2, <1>3 DEF StuckInv
<1>4. ASSUME NEW v \in Workers, txn'[v] # Idle PROVE Remembered(txn[v])'
  BY <1>1, <1>3, <1>4 DEF Remembered
<1>5. NeverStuck'
  BY <1>1 DEF StuckInv, NeverStuck, IndexesOf
<1> QED BY <1>4, <1>5 DEF StuckInv

LEMMA StuckLook ==
  ASSUME FlowTypes, StuckInv, NEW w \in Workers, ActLook(w), UNCHANGED outcome
  PROVE  StuckInv'
<1>1. txn \in [Workers -> Acting \cup {Idle}] /\ txn[w] \in Acting /\ UNCHANGED instances
  BY DEF ActLook, FlowTypes, TypeOK, Idle
<1>2. PICK next \in IF NextSteps(txn[w].target) = {} THEN {0} ELSE NextSteps(txn[w].target) :
        txn' = [txn EXCEPT ![w] = [@ EXCEPT !.op = "looked", !.next = next]]
  BY DEF ActLook
<1> DEFINE r == [txn[w] EXCEPT !.op = "looked", !.next = next]
<1>3. r.target = txn[w].target /\ r.index = txn[w].index /\ r.next = next
  BY <1>1 DEF Acting
<1>4. Remembered(txn[w])
  BY <1>1 DEF StuckInv, ActLook, Idle
<1>5. next # 0 => /\ next \in DOMAIN instances[r.target]
                  /\ instances[r.target][next].status = "DRAFT"
  BY <1>2, <1>3 DEF NextSteps, IndexesOf
<1> HIDE DEF r
<1>6. Remembered(r)
  BY <1>3, <1>4, <1>5 DEF Remembered
<1>7. txn' = [txn EXCEPT ![w] = r]
  BY <1>2 DEF r
<1>8. ASSUME NEW v \in Workers, txn'[v] # Idle PROVE Remembered(txn'[v])
  BY <1>1, <1>6, <1>7, <1>8 DEF StuckInv
<1>9. ASSUME NEW v \in Workers, txn'[v] # Idle PROVE Remembered(txn[v])'
  BY <1>1, <1>8, <1>9 DEF Remembered
<1>10. NeverStuck'
  BY <1>1 DEF StuckInv, NeverStuck, IndexesOf
<1> QED BY <1>9, <1>10 DEF StuckInv

LEMMA StuckCommit ==
  ASSUME FlowTypes, StuckInv, NEW w \in Workers, Commit(w)
  PROVE  StuckInv'
<1> DEFINE r == txn[w]
           t == r.target
           old == instances[t]
           new == instances'[t]
<1>1. PICK v \in Verdicts : ActCommit(w, v) /\ outcome' = [outcome EXCEPT ![t] = Outcome(t, v)]
  BY DEF Commit
<1>2. /\ txn \in [Workers -> Acting \cup {Idle}] /\ r \in Acting /\ t \in Targets
      /\ txn' = [txn EXCEPT ![w] = Idle] /\ Remembered(r)
  <2>1. r \in Acting /\ txn' = [txn EXCEPT ![w] = Idle] /\ r # Idle
    BY <1>1 DEF ActCommit, EndRequest, FlowTypes, TypeOK, Idle
  <2> QED BY <2>1 DEF FlowTypes, TypeOK, StuckInv, Acting
<1>3. /\ \/ new = ApproveRows(old, r.index, r.next) /\ v = IF r.next = 0 THEN "APPROVED" ELSE "PENDING"
         \/ new = RejectRows(old, r.index) /\ v = "REJECTED"
      /\ \A u \in Targets \ {t} : instances'[u] = instances[u] /\ outcome'[u] = outcome[u]
      /\ outcome'[t] = Outcome(t, v)
  BY <1>1, <1>2 DEF ActCommit, FlowTypes, TypeOK, EngineTypeOK
<1>4. old \in Seq(Instance)
  BY <1>2 DEF FlowTypes, TypeOK, EngineTypeOK
\* Nothing becomes DRAFT, and no row comes or goes.
<1>5. /\ DOMAIN new = DOMAIN old
      /\ \A i \in DOMAIN old : old[i].status # "DRAFT" => new[i].status # "DRAFT"
  <2>1. PICK n \in Nat : old \in [1..n -> Instance]
    BY <1>4
  <2>2. ASSUME NEW i \in DOMAIN old, NEW st \in {"APPROVED", "PENDING", "REJECTED"}
        PROVE  [old[i] EXCEPT !.status = st].status # "DRAFT"
    BY <2>1 DEF Instance
  <2> QED BY <1>3, <2>2 DEF ApproveRows, RejectRows
<1>6. v = "PENDING" => r.next \in DOMAIN new /\ new[r.next].status = "PENDING"
  <2>1. PICK n \in Nat : old \in [1..n -> Instance]
    BY <1>4
  <2>2. ASSUME v = "PENDING"
        PROVE  /\ r.next \in DOMAIN old /\ r.next # r.index
               /\ new = ApproveRows(old, r.index, r.next)
    BY <1>2, <1>3, <2>2 DEF Remembered
  <2>3. ASSUME v = "PENDING" PROVE new[r.next] = [old[r.next] EXCEPT !.status = "PENDING"]
    BY <2>2, <2>3 DEF ApproveRows
  <2>4. ASSUME v = "PENDING" PROVE new[r.next].status = "PENDING"
    BY <2>1, <2>2, <2>3, <2>4 DEF Instance
  <2> QED BY <1>5, <2>2, <2>4
<1>7. NeverStuck'
  <2> SUFFICES ASSUME NEW u \in Targets, outcome'[u] = "PENDING"
               PROVE  \E i \in DOMAIN instances'[u] : instances'[u][i].status = "PENDING"
    BY DEF NeverStuck, IndexesOf
  <2>1. CASE u = t
    <3>1. v = "PENDING"
      BY <1>3, <2>1 DEF Outcome
    <3> QED BY <1>6, <2>1, <3>1
  <2>2. CASE u # t
    BY <1>3, <2>2 DEF StuckInv, NeverStuck, IndexesOf
  <2> QED BY <2>1, <2>2
<1>8. ASSUME NEW z \in Workers, txn'[z] # Idle PROVE Remembered(txn[z])'
  <2>1. z # w /\ txn'[z] = txn[z] /\ Remembered(txn[z]) /\ txn[z].target \in Targets
    BY <1>2, <1>8 DEF StuckInv, Acting
  <2>2. CASE txn[z].target = t
    BY <1>5, <2>1, <2>2 DEF Remembered
  <2>3. CASE txn[z].target # t
    BY <1>3, <2>1, <2>3 DEF Remembered
  <2> QED BY <2>2, <2>3
<1> QED BY <1>7, <1>8 DEF StuckInv

\* However approvals and rejections of one target overlap, die half way or are repeated,
\* a pending target has a pending level: somebody can always be asked.
THEOREM NeverStuckCorrect == Spec => []NeverStuck
<1>1. Init => StuckInv
  BY DEF Init, EngineInit, StuckInv, NeverStuck
<1>2. Init => FlowTypes
  BY InitTypesOfFlow
<1>3. FlowTypes /\ StuckInv /\ [Next]_vars => StuckInv'
  <2> SUFFICES ASSUME FlowTypes, StuckInv, [Next]_vars PROVE StuckInv'
    OBVIOUS
  <2>1. ASSUME NEW w \in Workers, Act(w) PROVE StuckInv'
    BY <2>1, StuckRead, StuckLook, StuckCommit DEF Act
  <2>2. ASSUME NEW w \in Workers, Abort(w) PROVE StuckInv'
    BY <2>2 DEF Abort, AbortRequest, EndRequest, StuckInv, NeverStuck, IndexesOf, Remembered,
                FlowTypes, TypeOK
  <2>3. CASE UNCHANGED <<txn, instances, outcome>>
    BY <2>3 DEF StuckInv, NeverStuck, IndexesOf, Remembered
  <2> QED BY <2>1, <2>2, <2>3, StuckSubmit DEF Next, Personnel, GrantRole, RevokeRole, vars
<1>4. StuckInv => NeverStuck
  BY DEF StuckInv
<1> QED BY <1>1, <1>2, <1>3, <1>4, TypesKept, PTL DEF Spec

-----------------------------------------------------------------------------
(* Requests that do not overlap                                              *)

\* Steps of a flow are at most MaxLevels.
Short == \A f \in WorkflowIds : Cardinality(workflows[f].steps) <= MaxLevels

LEMMA ShortKept == Init => Short
<1> SUFFICES ASSUME Init, NEW f \in WorkflowIds
             PROVE  Cardinality(workflows[f].steps) <= MaxLevels
  BY DEF Short
<1>1. PICK m \in ModuleTypes, list \in StepLists :
        workflows[f] = [module |-> m, active |-> TRUE, steps |-> Normalised(list, None)]
  BY DEF Init, EngineInit
<1>2. Len(list) \in Nat /\ DOMAIN list = 1..Len(list) /\ Len(list) <= MaxLevels
  <2> DEFINE Sent == [role : Roles, level : Nat, approver : Roles, scope : Scopes]
  <2>1. list \in Seq(Sent)
    BY ConfigAssumption
  <2> HIDE DEF Sent
  <2> QED BY <2>1, FlowAssumption
<1> DEFINE Before(j, i) ==
      /\ list[j].role = list[i].role
      /\ list[j].level < list[i].level \/ (list[j].level = list[i].level /\ j <= i)
    Made(i) == [role |-> list[i].role, level |-> Cardinality({j \in DOMAIN list : Before(j, i)}),
                approver |-> list[i].approver, scope |-> list[i].scope, made |-> None]
    g == [i \in 1..Len(list) |-> Made(i)]
<1>3. Normalised(list, None) = {Made(i) : i \in DOMAIN list}
  BY DEF Normalised
<1> HIDE DEF Made
<1>4. g \in Surjection(1..Len(list), Normalised(list, None))
  BY <1>2, <1>3 DEF Surjection
<1> HIDE DEF g
<1>5. Cardinality(Normalised(list, None)) <= Len(list)
  BY <1>2, <1>4, FS_SurjCardinalityBound DEF ExistsSurjection
<1>6. Cardinality(Normalised(list, None)) \in Nat
  BY NormalisedFinite, FS_CardinalityType
<1> QED BY <1>1, <1>2, <1>5, <1>6, FlowAssumption

-----------------------------------------------------------------------------
(* One request at a time: where a target stands *)

\* The only request there is still sees the table it read.
Current(r) == outcome[r.target] = "PENDING" /\ OnRow(r)

OrderInv ==
  /\ FlowTypes /\ Short
  /\ \A t \in Targets : Agrees(instances[t], outcome[t]) /\ Len(instances[t]) <= MaxLevels
  /\ \A w \in Workers : txn[w] # Idle => Current(txn[w])

LEMMA OrderInit == Init => OrderInv
<1> SUFFICES ASSUME Init PROVE OrderInv
  OBVIOUS
<1>1. \A t \in Targets : instances[t] = << >> /\ outcome[t] = "NONE"
  BY DEF Init, EngineInit
<1>2. \A w \in Workers : txn[w] = Idle
  BY DEF Init, EngineInit
<1> QED BY <1>1, <1>2, InitTypesOfFlow, ShortKept, FlowAssumption DEF OrderInv, Agrees

LEMMA OrderSubmit ==
  ASSUME OrderInv, NEW t \in Targets, Submit(t)
  PROVE  /\ \A u \in Targets : Agrees(instances[u], outcome[u])' /\ Len(instances'[u]) <= MaxLevels
         /\ \A w \in Workers : txn'[w] # Idle => Current(txn[w])'
<1>1. PICK v \in Verdicts : StartFlow(t, v) /\ outcome' = [outcome EXCEPT ![t] = v]
  BY DEF Submit
<1>2. PICK rows \in FlowRows(t) : /\ instances' = [instances EXCEPT ![t] = @ \o rows]
                                  /\ v = FlowStatus(rows)
  BY <1>1 DEF StartFlow
<1>3. /\ rows \in Seq(Instance) /\ Len(rows) <= MaxLevels
      /\ IF v = "PENDING" THEN Orderly(rows) ELSE v = "APPROVED" /\ AllTaken(rows)
  <2>1. Configured /\ Short
    BY DEF OrderInv, FlowTypes
  <2>2. PICK f \in WorkflowIds : Len(rows) <= Cardinality(workflows[f].steps)
    BY <2>1, FlowRowsOrderly
  <2>3. rows \in Seq(Instance) /\ Len(rows) <= MaxLevels
    <3>1. Len(rows) \in Nat /\ Cardinality(workflows[f].steps) \in Nat
      BY <2>1, FlowRowsOrderly, FS_CardinalityType DEF Configured
    <3>2. Cardinality(workflows[f].steps) <= MaxLevels
      BY <2>1 DEF Short
    <3> QED BY <2>1, <2>2, <3>1, <3>2, FlowRowsOrderly, FlowAssumption
  <2> QED BY <1>2, <2>1, <2>3, FlowRowsOrderly
<1>4. /\ instances \in [Targets -> Seq(Instance)] /\ outcome \in [Targets -> Verdicts \cup {"NONE"}]
      /\ outcome[t] = "NONE" /\ instances[t] = << >> /\ UNCHANGED txn
  BY DEF OrderInv, FlowTypes, TypeOK, EngineTypeOK, Submit, Agrees
<1>5. instances[t] \o rows = rows
  BY <1>3, <1>4
<1>6. /\ instances'[t] = rows /\ outcome'[t] = v
      /\ \A u \in Targets \ {t} : instances'[u] = instances[u] /\ outcome'[u] = outcome[u]
  BY <1>1, <1>2, <1>4, <1>5
<1>7. Agrees(rows, v)
  BY <1>3 DEF Agrees
<1>8. ASSUME NEW u \in Targets
      PROVE  Agrees(instances[u], outcome[u])' /\ Len(instances'[u]) <= MaxLevels
  BY <1>3, <1>6, <1>7 DEF OrderInv, Agrees, Orderly, AllTaken
<1>9. ASSUME NEW w \in Workers, txn'[w] # Idle PROVE Current(txn[w])'
  <2>1. Current(txn[w]) /\ txn[w].target \in Targets /\ txn' = txn
    BY <1>4, <1>9 DEF OrderInv, FlowTypes, TypeOK, Acting
  <2>2. txn[w].target # t
    BY <1>4, <2>1 DEF Current
  <2> QED BY <1>6, <2>1, <2>2 DEF Current, OnRow, Found, NextSteps, IndexesOf
<1> QED BY <1>8, <1>9

\* What a request remembers stays current while no table changes.
LEMMA CurrentKept ==
  ASSUME NEW z \in Workers, Current(txn'[z]), UNCHANGED <<instances, outcome>>
  PROVE  Current(txn[z])'
BY DEF Current, OnRow, Found, NextSteps, IndexesOf

LEMMA OrderRead ==
  ASSUME OneAtATime, OrderInv, NEW w \in Workers, NEW x, NEW t \in Targets,
         NEW i \in DOMAIN instances[t], NEW a, ActRead(w, x, t, i, a), UNCHANGED outcome
  PROVE  /\ \A u \in Targets : Agrees(instances[u], outcome[u])' /\ Len(instances'[u]) <= MaxLevels
         /\ \A z \in Workers : txn'[z] # Idle => Current(txn[z])'
<1> DEFINE r == [op |-> "act", by |-> x, target |-> t, index |-> i, action |-> a, next |-> 0]
<1>1. txn' = [txn EXCEPT ![w] = r] /\ UNCHANGED instances /\ instances[t][i].status = "PENDING"
  BY DEF ActRead, StartRequest
<1>2. outcome[t] = "PENDING"
  <2>1. outcome[t] \in {"NONE", "PENDING", "APPROVED", "REJECTED"} /\ Agrees(instances[t], outcome[t])
    BY DEF OrderInv, FlowTypes, TypeOK, Verdicts
  <2> QED BY <1>1, <2>1 DEF Agrees, AllTaken, Open
<1>3. Current(r)
  BY <1>1, <1>2 DEF Current, OnRow
<1>4. txn'[w] = r /\ \A z \in Workers : z = w
  BY <1>1 DEF OneAtATime, OrderInv, FlowTypes, TypeOK
<1> HIDE DEF r
<1>5. ASSUME NEW z \in Workers PROVE Current(txn[z])'
  <2>1. txn'[z] = r /\ UNCHANGED <<instances, outcome>>
    BY <1>1, <1>4
  <2> QED BY <1>3, <2>1, CurrentKept
<1>6. UNCHANGED <<instances, outcome>>
  BY <1>1
<1> QED BY <1>5, <1>6 DEF OrderInv, Agrees, Orderly, AllTaken

LEMMA OrderLook ==
  ASSUME OneAtATime, OrderInv, NEW w \in Workers, ActLook(w), UNCHANGED outcome
  PROVE  /\ \A u \in Targets : Agrees(instances[u], outcome[u])' /\ Len(instances'[u]) <= MaxLevels
         /\ \A z \in Workers : txn'[z] # Idle => Current(txn[z])'
<1>1. txn \in [Workers -> Acting \cup {Idle}] /\ txn[w] \in Acting /\ UNCHANGED instances
  BY DEF ActLook, OrderInv, FlowTypes, TypeOK, Idle
<1>2. PICK next \in Found(txn[w].target) :
        txn' = [txn EXCEPT ![w] = [@ EXCEPT !.op = "looked", !.next = next]]
  BY DEF ActLook, Found
<1> DEFINE r == [txn[w] EXCEPT !.op = "looked", !.next = next]
<1>3. /\ r.target = txn[w].target /\ r.index = txn[w].index /\ r.next = next
      /\ r.action = "APPROVED"
  BY <1>1 DEF Acting, ActLook
<1>4. Current(txn[w])
  BY <1>1 DEF OrderInv, ActLook, Idle
<1>5. txn'[w] = r /\ \A z \in Workers : z = w
  BY <1>1, <1>2 DEF OneAtATime
<1> HIDE DEF r
<1>6. Current(r)
  BY <1>2, <1>3, <1>4 DEF Current, OnRow
<1>7. ASSUME NEW z \in Workers PROVE Current(txn[z])'
  <2>1. txn'[z] = r /\ UNCHANGED <<instances, outcome>>
    BY <1>1, <1>5
  <2> QED BY <1>6, <2>1, CurrentKept
<1> QED BY <1>1, <1>7 DEF OrderInv, Agrees, Orderly, AllTaken

\* What the commit of the only request does to its target.
LEMMA CommitEffect ==
  ASSUME OrderInv, NEW w \in Workers, Commit(w)
  PROVE  LET t == txn[w].target
             open == OpenOf(instances[t])
             open2 == OpenOf(instances'[t])
         IN  /\ t \in Targets /\ outcome[t] = "PENDING"
             /\ \A u \in Targets \ {t} : instances'[u] = instances[u] /\ outcome'[u] = outcome[u]
             /\ Agrees(instances'[t], outcome'[t])
             /\ DOMAIN instances'[t] = DOMAIN instances[t]
             /\ txn' = [txn EXCEPT ![w] = Idle]
             /\ \/ outcome'[t] = "REJECTED"
                \/ /\ outcome'[t] \in {"APPROVED", "PENDING"}
                   /\ txn[w].index \in open /\ open2 = open \ {txn[w].index}
<1>1. PICK v \in Verdicts : /\ ActCommit(w, v)
                            /\ outcome' = [outcome EXCEPT ![txn[w].target] = Outcome(txn[w].target, v)]
  BY DEF Commit
<1>2. PICK r \in Acting : r = txn[w] /\ txn' = [txn EXCEPT ![w] = Idle] /\ Current(r)
  <2>1. txn[w] \in Acting /\ txn' = [txn EXCEPT ![w] = Idle] /\ txn[w] # Idle
    BY <1>1 DEF ActCommit, EndRequest, OrderInv, FlowTypes, TypeOK, Idle
  <2> QED BY <2>1 DEF OrderInv
<1>3. PICK t \in Targets : t = r.target
  BY DEF Acting
<1>4. /\ instances \in [Targets -> Seq(Instance)]
      /\ outcome[t] = "PENDING" /\ Orderly(instances[t]) /\ OnRow(r)
  BY <1>2, <1>3 DEF OrderInv, FlowTypes, TypeOK, EngineTypeOK, Current, Agrees
<1>5. /\ \A u \in Targets \ {t} : instances'[u] = instances[u]
      /\ v \in Verdicts /\ Agrees(instances'[t], v)
      /\ DOMAIN instances'[t] = DOMAIN instances[t]
      /\ v # "REJECTED" => r.index \in OpenOf(instances[t]) /\ OpenOf(instances'[t]) = OpenOf(instances[t]) \ {r.index}
  <2>1. ActCommit(w, v) /\ r = txn[w] /\ t = r.target
    BY <1>1, <1>2, <1>3
  <2>2. instances \in [Targets -> Seq(Instance)] /\ Orderly(instances[t]) /\ OnRow(r)
    BY <1>4
  <2>3. v \in Verdicts
    BY <2>1, <2>2, CommitAgrees
  <2>4. Agrees(instances'[t], v)
    BY <2>1, <2>2, CommitAgrees
  <2>5. DOMAIN instances'[t] = DOMAIN instances[t]
    BY <2>1, <2>2, CommitAgrees
  <2>6. \A u \in Targets \ {t} : instances'[u] = instances[u]
    BY <2>1, <2>2, CommitAgrees
  <2>7. v # "REJECTED" => /\ r.index \in OpenOf(instances[t])
                         /\ OpenOf(instances'[t]) = OpenOf(instances[t]) \ {r.index}
    BY <2>1, <2>2, CommitAgrees
  <2> QED BY <2>3, <2>4, <2>5, <2>6, <2>7
<1>6. outcome'[t] = v /\ \A u \in Targets \ {t} : outcome'[u] = outcome[u]
  BY <1>1, <1>2, <1>3, <1>4 DEF OrderInv, FlowTypes, TypeOK, Outcome
<1>7. /\ outcome[t] = "PENDING"
      /\ \A u \in Targets \ {t} : instances'[u] = instances[u] /\ outcome'[u] = outcome[u]
      /\ Agrees(instances'[t], outcome'[t])
      /\ DOMAIN instances'[t] = DOMAIN instances[t]
      /\ txn' = [txn EXCEPT ![w] = Idle]
      /\ \/ outcome'[t] = "REJECTED"
         \/ outcome'[t] \in {"APPROVED", "PENDING"} /\ r.index \in OpenOf(instances[t]) /\ OpenOf(instances'[t]) = OpenOf(instances[t]) \ {r.index}
  BY <1>2, <1>4, <1>5, <1>6 DEF Verdicts
<1> QED BY <1>2, <1>3, <1>7

LEMMA OrderCommit ==
  ASSUME OneAtATime, OrderInv, NEW w \in Workers, Commit(w)
  PROVE  /\ \A u \in Targets : Agrees(instances[u], outcome[u])' /\ Len(instances'[u]) <= MaxLevels
         /\ \A z \in Workers : txn'[z] # Idle => Current(txn[z])'
<1> DEFINE t == txn[w].target
<1>1. /\ t \in Targets /\ Agrees(instances'[t], outcome'[t]) /\ txn' = [txn EXCEPT ![w] = Idle]
      /\ DOMAIN instances'[t] = DOMAIN instances[t]
      /\ \A u \in Targets \ {t} : instances'[u] = instances[u] /\ outcome'[u] = outcome[u]
  BY CommitEffect
<1> HIDE DEF t
<1>2. Len(instances'[t]) <= MaxLevels
  <2>1. instances[t] \in Seq(Instance) /\ instances'[t] \in Seq(Instance)
    BY <1>1, ActTypes DEF OrderInv, FlowTypes, TypeOK, EngineTypeOK, Act
  <2>2. Len(instances'[t]) = Len(instances[t])
    BY <1>1, <2>1
  <2> QED BY <1>1, <2>2 DEF OrderInv
<1>3. \A z \in Workers : txn'[z] = Idle
  BY <1>1 DEF OneAtATime, OrderInv, FlowTypes, TypeOK
<1> QED BY <1>1, <1>2, <1>3 DEF OrderInv, Agrees, Orderly, AllTaken

LEMMA OrderKept == OneAtATime /\ OrderInv /\ [Next]_vars => OrderInv'
<1> SUFFICES ASSUME OneAtATime, OrderInv, [Next]_vars PROVE OrderInv'
  OBVIOUS
<1>1. FlowTypes'
  BY TypesKept DEF OrderInv
<1>2. Short'
  <2>1. UNCHANGED workflows
    BY DEF Next, Submit, Act, Abort, AbortRequest, Personnel, ActRead, ActLook, Commit, ActCommit,
           GrantRole, RevokeRole, vars
  <2> QED BY <2>1 DEF OrderInv, Short
<1> DEFINE Goal == /\ \A u \in Targets : Agrees(instances[u], outcome[u])' /\ Len(instances'[u]) <= MaxLevels
                   /\ \A z \in Workers : txn'[z] # Idle => Current(txn[z])'
<1>3. ASSUME NEW t \in Targets, Submit(t) PROVE Goal
  BY <1>3, OrderSubmit
<1>4. ASSUME NEW w \in Workers, Act(w) PROVE Goal
  <2>1. ASSUME NEW x \in Employees, NEW t \in Targets, NEW i \in DOMAIN instances[t],
               NEW a \in {"APPROVED", "REJECTED"}, ActRead(w, x, t, i, a), UNCHANGED outcome
        PROVE  Goal
    BY <2>1, OrderRead
  <2>2. CASE ActLook(w) /\ UNCHANGED outcome
    BY <2>2, OrderLook
  <2>3. CASE Commit(w)
    BY <2>3, OrderCommit
  <2> HIDE DEF Goal
  <2> QED BY <1>4, <2>1, <2>2, <2>3 DEF Act
<1>5. ASSUME NEW w \in Workers, Abort(w) PROVE Goal
  <2>1. \A z \in Workers : txn'[z] = Idle
    BY <1>5 DEF Abort, AbortRequest, EndRequest, OneAtATime, OrderInv, FlowTypes, TypeOK
  <2> QED BY <1>5, <2>1 DEF Abort, OrderInv, Agrees, Orderly, AllTaken
<1>6. ASSUME UNCHANGED <<txn, instances, outcome>> PROVE Goal
  <2>1. ASSUME NEW z \in Workers, txn'[z] # Idle PROVE Current(txn[z])'
    <3>1. Current(txn[z]) /\ UNCHANGED <<txn, instances, outcome>>
      BY <1>6, <2>1 DEF OrderInv
    <3> QED BY <3>1 DEF Current, OnRow, Found, NextSteps, IndexesOf
  <2> QED BY <1>6, <2>1 DEF OrderInv, Agrees, Orderly, AllTaken
<1> HIDE DEF Goal
<1>7. Goal
  BY <1>3, <1>4, <1>5, <1>6 DEF Next, Personnel, GrantRole, RevokeRole, vars
<1> QED BY <1>1, <1>2, <1>7 DEF OrderInv, Goal
-----------------------------------------------------------------------------
(* What follows for requests that do not overlap *)

LEMMA OrderAlways == OneAtATime => (Spec => []OrderInv)
<1> SUFFICES ASSUME OneAtATime PROVE Spec => []OrderInv
  OBVIOUS
<1>1. OrderInv /\ [Next]_vars => OrderInv'
  BY OrderKept
<1> QED BY <1>1, OrderInit, PTL DEF Spec

\* While requests do not overlap, no level is asked while a lower one is open, whatever
\* the workflow, the chart and the roles taken or given meanwhile.
THEOREM LevelsInOrderCorrect == OneAtATime => (Spec => []LevelsInOrder)
<1> SUFFICES ASSUME OneAtATime PROVE Spec => []LevelsInOrder
  OBVIOUS
<1>1. OrderInv => LevelsInOrder
  <2> SUFFICES ASSUME OrderInv, NEW t \in Targets,
                      NEW i \in DOMAIN instances[t], NEW j \in DOMAIN instances[t],
                      instances[t][i].level < instances[t][j].level,
                      instances[t][i].status \in Open,
                      instances[t][j].status \notin {"DRAFT", "SKIPPED"}
               PROVE  FALSE
    BY DEF LevelsInOrder
  <2> DEFINE rows == instances[t]
  <2>1. /\ rows \in Seq(Instance) /\ Agrees(rows, outcome[t])
        /\ outcome[t] \in {"NONE", "PENDING", "APPROVED", "REJECTED"}
    BY DEF OrderInv, FlowTypes, TypeOK, EngineTypeOK, Verdicts
  <2>2. Orderly(rows)
    BY <2>1 DEF Agrees, AllTaken, Open
  <2>3. \A k \in DOMAIN rows : rows[k].level \in Nat /\ rows[k].status \in InstanceStatuses
    <3>1. PICK n \in Nat : rows \in [1..n -> Instance]
      BY <2>1
    <3> QED BY <3>1 DEF Instance
  <2> HIDE DEF rows
  <2>4. PICK p \in DOMAIN rows : rows[p].status = "PENDING"
    BY <2>2 DEF Orderly
  <2>5. \A k \in DOMAIN rows :
          /\ rows[k].status = "PENDING" => p = k
          /\ rows[k].status = "DRAFT" => NotAbove(rows, p, k)
          /\ rows[k].status = "APPROVED" => NotAbove(rows, k, p)
          /\ rows[k].status # "REJECTED"
    BY <2>2, <2>4 DEF Orderly
  <2>6. i \in DOMAIN rows /\ j \in DOMAIN rows /\ rows[i].level < rows[j].level
        /\ rows[i].status \in {"DRAFT", "PENDING"}
        /\ rows[j].status \in {"PENDING", "APPROVED", "REJECTED"}
    BY <2>3 DEF rows, Open, InstanceStatuses
  <2>7. NotAbove(rows, p, i) \/ p = i
    BY <2>5, <2>6
  <2>8. NotAbove(rows, j, p) \/ p = j
    BY <2>5, <2>6
  <2> QED BY <2>3, <2>4, <2>6, <2>7, <2>8 DEF NotAbove
<1> QED BY <1>1, OrderAlways, PTL

\* While requests do not overlap, an approved target has had every level approved or
\* skipped.
THEOREM ApprovedCompleteCorrect == OneAtATime => (Spec => []ApprovedComplete)
<1> SUFFICES ASSUME OneAtATime PROVE Spec => []ApprovedComplete
  OBVIOUS
<1>1. OrderInv => ApprovedComplete
  BY DEF OrderInv, Agrees, AllTaken, ApprovedComplete
<1> QED BY <1>1, OrderAlways, PTL

\* What a step of the only request does to outcomes: a decided target keeps its outcome.
LEMMA OutcomeSteps ==
  ASSUME OrderInv, [Next]_vars
  PROVE  \/ \E t \in Targets : Submit(t)
         \/ \E w \in Workers : Commit(w)
         \/ UNCHANGED <<instances, outcome>>
BY DEF Next, Act, Abort, AbortRequest, Personnel, ActRead, ActLook, GrantRole, RevokeRole, vars

\* While requests do not overlap, a rejected target stays rejected.
THEOREM RejectionFinalCorrect == OneAtATime => (Spec => RejectionFinal)
<1> SUFFICES ASSUME OneAtATime PROVE Spec => RejectionFinal
  OBVIOUS
<1>1. OrderInv /\ [Next]_vars =>
        [\A t \in Targets : outcome[t] = "REJECTED" => outcome'[t] = "REJECTED"]_vars
  <2> SUFFICES ASSUME OrderInv, [Next]_vars, NEW t \in Targets, outcome[t] = "REJECTED"
               PROVE  outcome'[t] = "REJECTED"
    OBVIOUS
  <2>1. ASSUME NEW u \in Targets, Submit(u) PROVE outcome'[t] = "REJECTED"
    BY <2>1 DEF Submit, OrderInv, FlowTypes, TypeOK
  <2>2. ASSUME NEW w \in Workers, Commit(w) PROVE outcome'[t] = "REJECTED"
    BY <2>2, CommitEffect
  <2> QED BY <2>1, <2>2, OutcomeSteps
<1> QED BY <1>1, OrderAlways, PTL DEF Spec, RejectionFinal

-----------------------------------------------------------------------------
(* The engine implements ApprovalDecision *)

LEMMA OpenFinite ==
  ASSUME NEW rows \in Seq(Instance), Len(rows) <= MaxLevels
  PROVE  LET open == {k \in DOMAIN rows : rows[k].status \in Open}
         IN  IsFiniteSet(open) /\ Cardinality(open) \in 0..MaxLevels
<1> DEFINE open == {k \in DOMAIN rows : rows[k].status \in Open}
<1>1. Len(rows) \in Nat /\ DOMAIN rows = 1..Len(rows)
  OBVIOUS
<1>2. IsFiniteSet(1..Len(rows)) /\ Cardinality(1..Len(rows)) <= Len(rows)
  BY <1>1, FS_Interval
<1>3. open \subseteq 1..Len(rows)
  BY <1>1
<1> HIDE DEF open
<1>4. IsFiniteSet(open) /\ Cardinality(open) <= Cardinality(1..Len(rows))
  BY <1>2, <1>3, FS_Subset
<1>5. Cardinality(open) \in Nat /\ Cardinality(1..Len(rows)) \in Nat
  BY <1>2, <1>4, FS_CardinalityType
<1>6. Cardinality(open) \in 0..MaxLevels
  BY <1>1, <1>2, <1>4, <1>5, FlowAssumption
<1> QED BY <1>4, <1>6 DEF open

LEMMA DecisionSubmit ==
  ASSUME OrderInv, OrderInv', NEW t \in Targets, Submit(t)
  PROVE  Decision!Submit(t)
<1> DEFINE rows == instances'[t]
           open == {k \in DOMAIN rows : rows[k].status \in Open}
           n == Cardinality(open)
<1>1. PICK v \in Verdicts : StartFlow(t, v) /\ outcome' = [outcome EXCEPT ![t] = v]
  BY DEF Submit
<1>2. outcome[t] = "NONE" /\ outcome'[t] = v
  BY <1>1 DEF Submit, OrderInv, FlowTypes, TypeOK
<1>3. v \in {"PENDING", "APPROVED"}
  BY <1>1 DEF StartFlow, FlowStatus
<1>4. rows \in Seq(Instance) /\ Len(rows) <= MaxLevels /\ Agrees(rows, v)
  BY <1>2 DEF OrderInv, FlowTypes, TypeOK, EngineTypeOK
<1>5. IsFiniteSet(open) /\ n \in 0..MaxLevels
  <2> HIDE DEF rows
  <2> QED BY <1>4, OpenFinite
<1>6. v = IF n = 0 THEN "APPROVED" ELSE "PENDING"
  <2>1. v = "PENDING" => open # {}
    BY <1>4 DEF Agrees, Orderly, Open
  <2>2. v = "APPROVED" => open = {}
    BY <1>4 DEF Agrees, AllTaken, Open
  <2> HIDE DEF open
  <2> QED BY <1>3, <1>5, <2>1, <2>2, FS_EmptySet
<1>7. left' = [left EXCEPT ![t] = n]
  <2>1. \A u \in Targets \ {t} : instances'[u] = instances[u]
    BY <1>1 DEF StartFlow, OrderInv, FlowTypes, TypeOK, EngineTypeOK
  <2>2. \A u \in Targets \ {t} : OpenAt(u)' = OpenAt(u)
    BY <2>1 DEF OpenAt, IndexesOf
  <2>3. OpenAt(t)' = open
    BY DEF OpenAt, IndexesOf
  <2> HIDE DEF open
  <2> QED BY <2>2, <2>3 DEF left
<1> HIDE DEF n
<1> QED BY <1>1, <1>2, <1>5, <1>6, <1>7 DEF Decision!Submit

LEMMA DecisionCommit ==
  ASSUME OrderInv, OrderInv', NEW w \in Workers, Commit(w)
  PROVE  \E t \in Targets : Decision!Approve(t) \/ Decision!Reject(t)
<1>0. PICK t \in Targets : t = txn[w].target
  BY CommitEffect
<1> DEFINE i == txn[w].index
           open == OpenOf(instances[t])
           open2 == OpenOf(instances'[t])
<1>1. /\ t \in Targets /\ outcome[t] = "PENDING"
      /\ \A u \in Targets \ {t} : instances'[u] = instances[u] /\ outcome'[u] = outcome[u]
      /\ Agrees(instances'[t], outcome'[t])
      /\ \/ outcome'[t] = "REJECTED"
         \/ outcome'[t] \in {"APPROVED", "PENDING"} /\ i \in open /\ open2 = open \ {i}
  BY <1>0, CommitEffect
<1>2. /\ instances[t] \in Seq(Instance) /\ Len(instances[t]) <= MaxLevels
      /\ instances'[t] \in Seq(Instance) /\ Len(instances'[t]) <= MaxLevels
  BY <1>1 DEF OrderInv, FlowTypes, TypeOK, EngineTypeOK
<1>3. /\ IsFiniteSet(open) /\ Cardinality(open) \in 0..MaxLevels
      /\ IsFiniteSet(open2) /\ Cardinality(open2) \in 0..MaxLevels
  BY <1>2, OpenFinite DEF OpenOf
<1>4. OpenAt(t) = open /\ OpenAt(t)' = open2
  BY DEF OpenAt, IndexesOf, OpenOf
<1>5. \A u \in Targets \ {t} : OpenAt(u)' = OpenAt(u)
  BY <1>1 DEF OpenAt, IndexesOf
<1>6. /\ outcome'[t] \in {"APPROVED", "REJECTED"} => open2 = {}
      /\ outcome'[t] = "PENDING" => open2 # {}
  BY <1>1 DEF Agrees, AllTaken, Orderly, Open, OpenOf
<1>7. outcome' = [outcome EXCEPT ![t] = outcome'[t]]
  BY <1>1 DEF OrderInv, FlowTypes, TypeOK
<1> HIDE DEF open, open2, i
<1>8. /\ left[t] = Cardinality(open)
      /\ left' = [left EXCEPT ![t] = Cardinality(open2)]
  BY <1>1, <1>4, <1>5 DEF left
<1>9. CASE outcome'[t] = "REJECTED"
  <2>1. Cardinality(open2) = 0
    BY <1>6, <1>9, FS_EmptySet
  <2> QED BY <1>1, <1>7, <1>8, <1>9, <2>1 DEF Decision!Reject
<1>10. CASE outcome'[t] # "REJECTED"
  <2>1. Cardinality(open2) = Cardinality(open) - 1
    BY <1>1, <1>3, <1>10, FS_RemoveElement
  <2>2. outcome'[t] = IF Cardinality(open) = 1 THEN "APPROVED" ELSE "PENDING"
    <3>1. Cardinality(open2) = 0 <=> open2 = {}
      BY <1>3, FS_EmptySet
    <3> QED BY <1>1, <1>3, <1>6, <1>10, <2>1, <3>1
  <2> QED BY <1>1, <1>7, <1>8, <2>1, <2>2 DEF Decision!Approve
<1> QED BY <1>9, <1>10

\* Requests that do not overlap decide a target as ApprovalDecision says: a rejection at
\* any level ends it, and each approval leaves one level less, the last one approving it.
THEOREM EngineDecidesOnce == OneAtATime => (Spec => DecidedOnce)
<1> SUFFICES ASSUME OneAtATime PROVE Spec => DecidedOnce
  OBVIOUS
<1>1. Init => Decision!Init
  <2> SUFFICES ASSUME Init PROVE Decision!Init
    OBVIOUS
  <2>1. \A t \in Targets : OpenAt(t) = {}
    BY DEF Init, EngineInit, OpenAt, IndexesOf
  <2>2. left = [t \in Targets |-> 0]
    BY <2>1, FS_EmptySet DEF left
  <2> QED BY <2>2 DEF Init, Decision!Init
<1>2. OrderInv /\ OrderInv' /\ [Next]_vars => [Decision!Next]_<<outcome, left>>
  <2> SUFFICES ASSUME OrderInv, OrderInv', [Next]_vars
               PROVE  Decision!Next \/ UNCHANGED <<outcome, left>>
    OBVIOUS
  <2>1. CASE UNCHANGED <<instances, outcome>>
    BY <2>1 DEF left, OpenAt, IndexesOf
  <2> QED BY <2>1, OutcomeSteps, DecisionSubmit, DecisionCommit DEF Decision!Next
<1> QED BY <1>1, <1>2, OrderAlways, PTL DEF Spec, DecidedOnce, Decision!Spec

-----------------------------------------------------------------------------
(* Nobody decides for itself, however requests overlap *)

\* Employees who submit are active and have a department, and roles are only lost
\* while requests are open.
RequestersPlaced ==
  /\ "grant" \notin Environment
  /\ \A chart \in Charts, t \in Targets :
       Requester[t] \in chart.active /\ chart.dept[Requester[t]] # None

Placed == \A t \in Targets : Requester[t] \in org.active /\ org.dept[Requester[t]] # None

Others(t, row) == row.status # "SKIPPED" => ~ Authorized(Requester[t], t, row)

\* A request in memory was made by somebody else, and the instances it is going to
\* update are not skipped ones.
ByOthers(r) ==
  LET rows == instances[r.target] IN
  /\ r.by # Requester[r.target]
  /\ r.index \in DOMAIN rows /\ rows[r.index].status # "SKIPPED"
  /\ r.next # 0 => r.next \in DOMAIN rows /\ rows[r.next].status # "SKIPPED"

OwnInv ==
  /\ FlowTypes /\ Placed
  /\ \A t \in Targets : \A i \in DOMAIN instances[t] : Others(t, instances[t][i])
  /\ \A w \in Workers : txn[w] # Idle => ByOthers(txn[w])

LEMMA NewInstanceOthers ==
  ASSUME Placed, org \in Org, NEW t \in Targets, NEW s \in Step,
         NEW x \in Candidates(org, Requester[t], s.scope, s.approver)
  PROVE  Others(t, NewInstance(Requester[t], s, x))
<1> DEFINE e == Requester[t]
           row == NewInstance(e, s, x)
<1>1. /\ row.approver = x /\ row.scope = s.scope /\ row.role = s.approver
      /\ row.status = FirstStatus(e, s, x)
  BY DEF NewInstance
<1>2. s.scope \in Scopes
  BY DEF Step
<1>3. e \in Employees /\ e \in org.active /\ org.dept[e] # None
  BY EngineAssumption DEF Placed
<1> HIDE DEF e, row
<1> SUFFICES ASSUME row.status # "SKIPPED", Authorized(e, t, row) PROVE FALSE
  BY DEF Others, row, e
<1>4. x # e /\ (x = None => s.scope \in {"DEPARTMENT_ASSIGNMENT", "GLOBAL"})
  BY <1>1, <1>2 DEF FirstStatus, Scopes
<1>5. x = None /\ InPool(org, e, e, s.scope, s.approver)
  BY <1>1, <1>4 DEF Authorized, e
<1>6. <<e, s.approver>> \in org.holds
  BY <1>5 DEF InPool
<1>7. e \in Holders(org, s.approver) \cap org.active
  BY <1>3, <1>6 DEF Holders
<1>8. None \notin Holders(org, s.approver)
  BY FlowAssumption DEF Holders
<1>9. CASE s.scope = "GLOBAL"
  <2>1. x \in OrNone(Holders(org, s.approver) \cap org.active)
    BY <1>9 DEF Candidates, e
  <2> QED BY <1>5, <1>7, <1>8, <2>1 DEF OrNone
<1>10. CASE s.scope = "DEPARTMENT_ASSIGNMENT"
  <2> DEFINE S == {y \in Holders(org, s.approver) \cap org.active :
                     org.dept[e] # None /\ org.dept[y] = org.dept[e]}
  <2>1. x \in OrNone(S)
    BY <1>10 DEF Candidates, e
  <2>2. e \in S /\ None \notin S
    BY <1>3, <1>7, <1>8
  <2> HIDE DEF S
  <2> QED BY <1>5, <2>1, <2>2 DEF OrNone
<1> QED BY <1>4, <1>5, <1>9, <1>10

LEMMA FlowRowsOthers ==
  ASSUME Configured, Placed, org \in Org, NEW t \in Targets, NEW rows \in FlowRows(t)
  PROVE  \A i \in DOMAIN rows : Others(t, rows[i])
<1> DEFINE e == Requester[t]
<1>1. PICK f \in ActiveFor(ModuleOf[t]) : \E q \in LevelOrders(StepsFor(f, e)) : rows \in OrderedRows(e, q)
  BY DEF FlowRows
<1> DEFINE S == StepsFor(f, e)
           n == Cardinality(S)
<1>2. S \subseteq Step
  BY DEF ActiveFor, StepsFor, Configured, Workflow
<1>3. PICK q \in LevelOrders(S) : rows \in OrderedRows(e, q)
  BY <1>1
<1> HIDE DEF S
<1>4. q \in [1..n -> S]
  BY DEF LevelOrders
<1> HIDE DEF n, e
<1> DEFINE Fresh(pick) == [i \in DOMAIN q |-> NewInstance(e, q[i], pick[i])]
<1>5. PICK pick \in [DOMAIN q -> Employees \cup {None}] :
        /\ rows = Activated(Fresh(pick))
        /\ \A i \in DOMAIN q : pick[i] \in Candidates(org, e, q[i].scope, q[i].approver)
  BY <1>3 DEF OrderedRows
<1> DEFINE fresh == Fresh(pick)
<1>6. ASSUME NEW i \in 1..n
      PROVE  /\ fresh[i] = NewInstance(e, q[i], pick[i])
             /\ Others(t, fresh[i])
  <2>1. q[i] \in Step
    BY <1>2, <1>4
  <2>2. fresh[i] = NewInstance(e, q[i], pick[i])
    BY <1>4
  <2>3. pick[i] \in Candidates(org, e, q[i].scope, q[i].approver)
    BY <1>4, <1>5
  <2> QED BY <2>1, <2>2, <2>3, NewInstanceOthers DEF e
<1>7. DOMAIN fresh = 1..n
  BY <1>4
<1> HIDE DEF Fresh, fresh
\* Activation only makes a DRAFT instance PENDING.
<1>8. ASSUME NEW i \in 1..n
      PROVE  /\ rows[i].approver = fresh[i].approver /\ rows[i].scope = fresh[i].scope
             /\ rows[i].role = fresh[i].role
             /\ rows[i].status # "SKIPPED" => fresh[i].status # "SKIPPED"
  <2> DEFINE drafts == {k \in DOMAIN fresh : fresh[k].status = "DRAFT"}
             p == Min(drafts)
  <2>1. CASE drafts = {}
    <3>1. rows = fresh
      BY <1>5, <2>1 DEF Activated, fresh
    <3> QED BY <3>1
  <2>2. CASE drafts # {}
    <3>1. rows = [fresh EXCEPT ![p].status = "PENDING"]
      BY <1>5, <2>2 DEF Activated, fresh
    <3>2. p \in drafts
      <4>1. drafts \subseteq Nat
        BY <1>7
      <4> HIDE DEF drafts
      <4> QED BY <2>2, <4>1, MinIsLeast
    <3> HIDE DEF p
    <3>3. p \in 1..n /\ fresh[p].status = "DRAFT"
      BY <1>7, <3>2
    <3>4. CASE i = p
      <4>1. rows[i] = [fresh[i] EXCEPT !.status = "PENDING"]
        BY <1>7, <3>1, <3>4
      <4>2. fresh[i] = NewInstance(e, q[i], pick[i])
        BY <1>6
      <4> QED BY <3>3, <3>4, <4>1, <4>2 DEF NewInstance
    <3>5. CASE i # p
      BY <1>7, <3>1, <3>5
    <3> QED BY <3>4, <3>5
  <2> QED BY <2>1, <2>2
<1>9. DOMAIN rows = 1..n
  BY <1>5, <1>7 DEF Activated, fresh
<1> QED BY <1>6, <1>8, <1>9 DEF Others, Authorized

\* Rows that are not skipped were not before, whoever is asked stays asked, and a role
\* that is lost authorises nobody.
LEMMA OthersKept ==
  ASSUME OwnInv, instances' \in [Targets -> Seq(Instance)],
         org.dept' = org.dept, org.leads' = org.leads, org'.holds \subseteq org.holds,
         NEW t \in Targets, DOMAIN instances'[t] = DOMAIN instances[t],
         \A i \in DOMAIN instances[t] :
            LET new == instances'[t][i]
                old == instances[t][i]
            IN  /\ new.approver = old.approver /\ new.scope = old.scope /\ new.role = old.role
                /\ old.status = "SKIPPED" => new.status = "SKIPPED"
  PROVE  \A i \in DOMAIN instances'[t] : Others(t, instances[t][i])'
<1> SUFFICES ASSUME NEW i \in DOMAIN instances[t] PROVE Others(t, instances[t][i])'
  OBVIOUS
<1>1. Others(t, instances[t][i])
  BY DEF OwnInv
<1> QED BY <1>1 DEF Others, Authorized, InPool

LEMMA OwnSubmit ==
  ASSUME OwnInv, NEW t \in Targets, Submit(t)
  PROVE  /\ \A u \in Targets : \A i \in DOMAIN instances'[u] : Others(u, instances[u][i])'
         /\ \A w \in Workers : txn'[w] # Idle => ByOthers(txn[w])'
<1>1. PICK rows \in FlowRows(t) : instances' = [instances EXCEPT ![t] = @ \o rows]
  BY DEF Submit, StartFlow
<1>2. /\ instances \in [Targets -> Seq(Instance)] /\ org \in Org /\ UNCHANGED <<org, txn>>
      /\ txn \in [Workers -> Acting \cup {Idle}]
  BY DEF OwnInv, FlowTypes, TypeOK, EngineTypeOK, Submit
<1>3. rows \in Seq(Instance) /\ \A i \in DOMAIN rows : Others(t, rows[i])
  BY <1>1, <1>2, FlowRowsOrderly, FlowRowsOthers DEF OwnInv, FlowTypes
<1> DEFINE old == instances[t]
           new == old \o rows
<1>4. old \in Seq(Instance)
  BY <1>2
<1>5. /\ \A i \in DOMAIN old : i \in DOMAIN new /\ new[i] = old[i]
      /\ \A i \in DOMAIN new : (i \in DOMAIN old /\ new[i] = old[i])
                              \/ \E j \in DOMAIN rows : new[i] = rows[j]
  <2>1. DOMAIN new = 1..(Len(old) + Len(rows)) /\ Len(old) \in Nat /\ Len(rows) \in Nat
    BY <1>3, <1>4
  <2>2. DOMAIN old = 1..Len(old) /\ DOMAIN rows = 1..Len(rows)
    BY <1>3, <1>4
  <2>3. \A i \in DOMAIN new : new[i] = IF i <= Len(old) THEN old[i] ELSE rows[i - Len(old)]
    BY <1>3, <1>4
  <2>4. ASSUME NEW i \in DOMAIN old PROVE i \in DOMAIN new /\ new[i] = old[i]
    BY <2>1, <2>2, <2>3
  <2>5. ASSUME NEW i \in DOMAIN new, i \notin DOMAIN old
        PROVE  i - Len(old) \in DOMAIN rows /\ new[i] = rows[i - Len(old)]
    BY <2>1, <2>2, <2>3, <2>5
  <2> HIDE DEF new, old
  <2> QED BY <2>4, <2>5
<1>6. instances'[t] = new /\ \A u \in Targets \ {t} : instances'[u] = instances[u]
  BY <1>1, <1>2
<1>7. \A i \in DOMAIN old : Others(t, old[i])
  BY DEF OwnInv
<1> HIDE DEF old, new
<1>8. ASSUME NEW u \in Targets, NEW i \in DOMAIN instances'[u]
      PROVE  Others(u, instances'[u][i])
  <2>1. CASE u = t
    BY <1>3, <1>5, <1>6, <1>7, <1>8, <2>1
  <2>2. CASE u # t
    BY <1>6, <1>8, <2>2 DEF OwnInv
  <2> QED BY <2>1, <2>2
<1>9. \A u \in Targets : \A i \in DOMAIN instances'[u] : Others(u, instances[u][i])'
  BY <1>2, <1>8 DEF Others, Authorized, InPool
<1>10. ASSUME NEW w \in Workers, txn'[w] # Idle PROVE ByOthers(txn[w])'
  <2>1. ByOthers(txn[w]) /\ txn[w].target \in Targets /\ txn' = txn
    BY <1>2, <1>10 DEF OwnInv, Acting
  <2>2. CASE txn[w].target = t
    BY <1>5, <1>6, <2>1, <2>2 DEF ByOthers, old
  <2>3. CASE txn[w].target # t
    BY <1>6, <2>1, <2>3 DEF ByOthers
  <2> QED BY <2>2, <2>3
<1> QED BY <1>9, <1>10

\* While the rows stay, the requests of other workers remain by others.
LEMMA OwnRequest ==
  ASSUME OwnInv, UNCHANGED <<org, instances>>, NEW w \in Workers, NEW r,
         txn' = [txn EXCEPT ![w] = r], ByOthers(r)
  PROVE  /\ \A u \in Targets : \A i \in DOMAIN instances'[u] : Others(u, instances[u][i])'
         /\ \A z \in Workers : txn'[z] # Idle => ByOthers(txn[z])'
<1>1. ASSUME NEW z \in Workers, txn'[z] # Idle PROVE ByOthers(txn'[z])
  BY <1>1 DEF OwnInv, FlowTypes, TypeOK
<1>2. ASSUME NEW z \in Workers, txn'[z] # Idle PROVE ByOthers(txn[z])'
  BY <1>1, <1>2 DEF ByOthers
<1>3. \A u \in Targets : \A i \in DOMAIN instances'[u] : Others(u, instances[u][i])'
  BY DEF OwnInv, Others, Authorized, InPool
<1> QED BY <1>2, <1>3

LEMMA OwnRead ==
  ASSUME OwnInv, NEW w \in Workers, NEW x, NEW t \in Targets,
         NEW i \in DOMAIN instances[t], NEW a, ActRead(w, x, t, i, a)
  PROVE  /\ \A u \in Targets : \A k \in DOMAIN instances'[u] : Others(u, instances[u][k])'
         /\ \A z \in Workers : txn'[z] # Idle => ByOthers(txn[z])'
<1> DEFINE r == [op |-> "act", by |-> x, target |-> t, index |-> i, action |-> a, next |-> 0]
<1>1. /\ txn' = [txn EXCEPT ![w] = r] /\ UNCHANGED <<org, instances>>
      /\ instances[t][i].status = "PENDING" /\ Authorized(x, t, instances[t][i])
  BY DEF ActRead, StartRequest
<1>2. ~ Authorized(Requester[t], t, instances[t][i])
  BY <1>1 DEF OwnInv, Others
<1>3. ByOthers(r)
  BY <1>1, <1>2 DEF ByOthers
<1> HIDE DEF r
<1> QED BY <1>1, <1>3, OwnRequest

LEMMA OwnLook ==
  ASSUME OwnInv, NEW w \in Workers, ActLook(w)
  PROVE  /\ \A u \in Targets : \A k \in DOMAIN instances'[u] : Others(u, instances[u][k])'
         /\ \A z \in Workers : txn'[z] # Idle => ByOthers(txn[z])'
<1>1. txn[w] \in Acting /\ UNCHANGED <<org, instances>>
  BY DEF ActLook, OwnInv, FlowTypes, TypeOK, Idle
<1>2. PICK next \in Found(txn[w].target) :
        txn' = [txn EXCEPT ![w] = [@ EXCEPT !.op = "looked", !.next = next]]
  BY DEF ActLook, Found
<1> DEFINE r == [txn[w] EXCEPT !.op = "looked", !.next = next]
<1>3. r.target = txn[w].target /\ r.index = txn[w].index /\ r.next = next /\ r.by = txn[w].by
  BY <1>1 DEF Acting
<1>4. ByOthers(txn[w])
  BY <1>1 DEF OwnInv, ActLook, Idle
<1>5. next # 0 => /\ next \in DOMAIN instances[r.target]
                  /\ instances[r.target][next].status # "SKIPPED"
  BY <1>2, <1>3 DEF Found, NextSteps, IndexesOf
<1>6. txn' = [txn EXCEPT ![w] = r]
  BY <1>2
<1> HIDE DEF r
<1>7. ByOthers(r)
  BY <1>3, <1>4, <1>5 DEF ByOthers
<1> QED BY <1>1, <1>6, <1>7, OwnRequest

LEMMA OwnCommit ==
  ASSUME OwnInv, instances' \in [Targets -> Seq(Instance)], NEW w \in Workers, Commit(w)
  PROVE  /\ \A u \in Targets : \A k \in DOMAIN instances'[u] : Others(u, instances[u][k])'
         /\ \A z \in Workers : txn'[z] # Idle => ByOthers(txn[z])'
<1>1. PICK v \in Verdicts : ActCommit(w, v)
  BY DEF Commit
<1>2. /\ txn \in [Workers -> Acting \cup {Idle}] /\ txn[w] \in Acting
      /\ txn' = [txn EXCEPT ![w] = Idle] /\ UNCHANGED org
      /\ ByOthers(txn[w])
  <2>1. txn[w] # Idle
    BY <1>1 DEF ActCommit, Idle
  <2> QED BY <1>1, <2>1 DEF ActCommit, EndRequest, OwnInv, FlowTypes, TypeOK
<1>3. PICK r \in Acting : r = txn[w]
  BY <1>2
<1>4. PICK t \in Targets : t = r.target
  BY <1>3 DEF Acting
<1> DEFINE old == instances[t]
           new == instances'[t]
<1>5. /\ \/ new = ApproveRows(old, r.index, r.next)
         \/ new = RejectRows(old, r.index)
      /\ \A u \in Targets \ {t} : instances'[u] = instances[u]
  BY <1>1, <1>3, <1>4 DEF ActCommit, OwnInv, FlowTypes, TypeOK, EngineTypeOK
<1>6. PICK n \in Nat : old \in [1..n -> Instance]
  BY DEF OwnInv, FlowTypes, TypeOK, EngineTypeOK
<1>7. /\ r.index \in DOMAIN old /\ old[r.index].status # "SKIPPED"
      /\ r.next \in DOMAIN old => r.next # 0
      /\ r.next # 0 => r.next \in DOMAIN old /\ old[r.next].status # "SKIPPED"
  BY <1>2, <1>3, <1>4, <1>6 DEF ByOthers
<1> HIDE DEF new
<1>8. /\ DOMAIN new = DOMAIN old
      /\ \A i \in DOMAIN old :
           /\ new[i].approver = old[i].approver /\ new[i].scope = old[i].scope
           /\ new[i].role = old[i].role
           /\ old[i].status = "SKIPPED" <=> new[i].status = "SKIPPED"
  <2>1. DOMAIN new = DOMAIN old
    BY <1>5 DEF ApproveRows, RejectRows
  <2>2. ASSUME NEW i \in DOMAIN old
        PROVE  \/ new[i] = old[i]
               \/ /\ old[i].status # "SKIPPED"
                  /\ \E st \in {"APPROVED", "PENDING", "REJECTED"} : new[i] = [old[i] EXCEPT !.status = st]
    BY <1>5, <1>7 DEF ApproveRows, RejectRows, Open
  <2>3. ASSUME NEW i \in DOMAIN old, NEW st
        PROVE  LET row == [old[i] EXCEPT !.status = st]
               IN  /\ row.approver = old[i].approver /\ row.scope = old[i].scope
                   /\ row.role = old[i].role /\ row.status = st
    BY <1>6 DEF Instance
  <2> HIDE DEF old
  <2>4. ASSUME NEW i \in DOMAIN old
        PROVE  /\ new[i].approver = old[i].approver /\ new[i].scope = old[i].scope
               /\ new[i].role = old[i].role
               /\ old[i].status = "SKIPPED" <=> new[i].status = "SKIPPED"
    <3>1. CASE new[i] = old[i]
      BY <3>1
    <3>2. ASSUME NEW st \in {"APPROVED", "PENDING", "REJECTED"}, new[i] = [old[i] EXCEPT !.status = st],
                 old[i].status # "SKIPPED"
          PROVE  /\ new[i].approver = old[i].approver /\ new[i].scope = old[i].scope
                 /\ new[i].role = old[i].role
                 /\ old[i].status = "SKIPPED" <=> new[i].status = "SKIPPED"
      BY <2>3, <3>2
    <3> QED BY <2>2, <3>1, <3>2
  <2> QED BY <2>1, <2>4
<1>9. ASSUME NEW u \in Targets
      PROVE  \A k \in DOMAIN instances'[u] : Others(u, instances[u][k])'
  BY <1>2, <1>5, <1>8, OthersKept DEF new
<1>10. ASSUME NEW z \in Workers, txn'[z] # Idle PROVE ByOthers(txn[z])'
  <2>1. txn'[z] = txn[z] /\ ByOthers(txn[z]) /\ txn[z].target \in Targets
    BY <1>2, <1>10 DEF OwnInv, Acting
  <2>2. CASE txn[z].target = t
    BY <1>8, <2>1, <2>2 DEF ByOthers, new
  <2>3. CASE txn[z].target # t
    BY <1>5, <2>1, <2>3 DEF ByOthers
  <2> QED BY <2>2, <2>3
<1> QED BY <1>9, <1>10

LEMMA OwnKept == RequestersPlaced /\ OwnInv /\ [Next]_vars => OwnInv'
<1> SUFFICES ASSUME RequestersPlaced, OwnInv, [Next]_vars PROVE OwnInv'
  OBVIOUS
<1>1. FlowTypes' /\ instances' \in [Targets -> Seq(Instance)]
  BY TypesKept DEF OwnInv, FlowTypes, TypeOK, EngineTypeOK
<1>2. /\ org'.active = org.active /\ org'.dept = org.dept /\ org'.leads = org.leads
      /\ org'.holds \subseteq org.holds
  <2>1. CASE org' = org
    BY <2>1
  <2>2. CASE \E x \in Employees, r \in Roles : RevokeRole(x, r)
    <3>1. PICK x \in Employees, r \in Roles : org' = [org EXCEPT !.holds = @ \ {<<x, r>>}]
      BY <2>2 DEF RevokeRole
    <3>2. org \in Org
      BY DEF OwnInv, FlowTypes, TypeOK, EngineTypeOK
    <3> QED BY <3>1, <3>2 DEF Org
  <2> QED BY <2>1, <2>2 DEF RequestersPlaced, Next, Submit, Act, Abort, AbortRequest, Personnel,
             ActRead, ActLook, Commit, ActCommit, vars
<1>3. Placed'
  BY <1>2 DEF OwnInv, Placed
<1> DEFINE Goal == /\ \A u \in Targets : \A k \in DOMAIN instances'[u] : Others(u, instances[u][k])'
                   /\ \A z \in Workers : txn'[z] # Idle => ByOthers(txn[z])'
<1>4. ASSUME NEW t \in Targets, Submit(t) PROVE Goal
  BY <1>4, OwnSubmit
<1>5. ASSUME NEW w \in Workers, Act(w) PROVE Goal
  <2>1. ASSUME NEW x \in Employees, NEW t \in Targets, NEW i \in DOMAIN instances[t],
               NEW a \in {"APPROVED", "REJECTED"}, ActRead(w, x, t, i, a)
        PROVE  Goal
    BY <2>1, OwnRead
  <2>2. CASE ActLook(w)
    BY <2>2, OwnLook
  <2>3. CASE Commit(w)
    BY <1>1, <2>3, OwnCommit
  <2> HIDE DEF Goal
  <2> QED BY <1>5, <2>1, <2>2, <2>3 DEF Act
<1>6. ASSUME UNCHANGED instances, \A z \in Workers : txn'[z] \in {Idle, txn[z]} PROVE Goal
  <2>1. ASSUME NEW u \in Targets
        PROVE  \A k \in DOMAIN instances'[u] : Others(u, instances[u][k])'
    BY <1>1, <1>2, <1>6, OthersKept
  <2>2. ASSUME NEW z \in Workers, txn'[z] # Idle PROVE ByOthers(txn[z])'
    <3>1. txn'[z] = txn[z] /\ ByOthers(txn[z])
      BY <1>6, <2>2 DEF OwnInv
    <3> QED BY <1>6, <3>1 DEF ByOthers
  <2> QED BY <2>1, <2>2
<1>7. ASSUME NEW w \in Workers, Abort(w)
      PROVE  UNCHANGED instances /\ \A z \in Workers : txn'[z] \in {Idle, txn[z]}
  BY <1>7 DEF Abort, AbortRequest, EndRequest, OwnInv, FlowTypes, TypeOK
<1>8. ASSUME UNCHANGED <<txn, instances>>
      PROVE  UNCHANGED instances /\ \A z \in Workers : txn'[z] \in {Idle, txn[z]}
  BY <1>8
<1> HIDE DEF Goal
<1>9. Goal
  BY <1>4, <1>5, <1>6, <1>7, <1>8 DEF Next, Personnel, GrantRole, RevokeRole, vars
<1> QED BY <1>1, <1>3, <1>9 DEF OwnInv, Goal

\* However requests overlap, die or are repeated, no requester ever decides a level of
\* its own request: a step that resolves to the requester is skipped, and a step that
\* resolves to nobody has no pool with the requester in it, as long as requesters are
\* active, have a department and are given no role meanwhile.
THEOREM NoSelfApprovalCorrect == RequestersPlaced => (Spec => []NoSelfApproval)
<1> SUFFICES ASSUME RequestersPlaced PROVE Spec => []NoSelfApproval
  OBVIOUS
<1>1. Init => OwnInv
  BY InitTypesOfFlow DEF Init, EngineInit, OwnInv, Placed, RequestersPlaced
<1>2. OwnInv /\ [Next]_vars => OwnInv'
  BY OwnKept
<1>3. OwnInv => NoSelfApproval
  BY DEF OwnInv, ByOthers, NoSelfApproval
<1> QED BY <1>1, <1>2, <1>3, PTL DEF Spec

\* What was decided was decided in order, completely and by others.
THEOREM DecisionsSoundCorrect == OneAtATime /\ RequestersPlaced => (Spec => []DecisionsSound)
<1> SUFFICES ASSUME OneAtATime, RequestersPlaced PROVE Spec => []DecisionsSound
  OBVIOUS
<1>1. LevelsInOrder /\ ApprovedComplete /\ NoSelfApproval => DecisionsSound
  BY DEF DecisionsSound
<1> QED BY <1>1, LevelsInOrderCorrect, ApprovedCompleteCorrect, NoSelfApprovalCorrect, PTL
===============================================================================
