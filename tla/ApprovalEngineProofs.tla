------------------------- MODULE ApprovalEngineProofs -------------------------
(*****************************************************************************)
(* Proofs about ApprovalWorkflows, for any number of administrators whose    *)
(* requests overlap, workflows, module types and step lists; and what the    *)
(* engine does to the rows of one target: lemmas for the modules whose       *)
(* targets it decides.                                                       *)
(*****************************************************************************)
EXTENDS ApprovalEngine, FiniteSetTheorems, WellFoundedInduction, TLAPS

\* Every non-empty set of natural numbers has a least one.
LEMMA LeastNumber ==
  ASSUME NEW S, S \subseteq Nat, S # {}
  PROVE  \E n \in S : \A k \in S : n <= k
<1>1. PICK n \in S : \A k \in S : <<k, n>> \notin OpToRel(<, Nat)
  BY NatLessThanWellFounded, WFMin
<1>2. \A k \in S : ~(k < n)
  BY <1>1 DEF OpToRel
<1> QED BY <1>2

\* Numbers up to a bound have a greatest one.
LEMMA GreatestNumber ==
  ASSUME NEW n \in Nat, NEW S, S \subseteq 0..n, S # {}
  PROVE  Max(S) \in S /\ \A k \in S : k <= Max(S)
<1>1. PICK d \in {n - k : k \in S} : \A e \in {n - k : k \in S} : d <= e
  <2>1. \A k \in S : n - k \in Nat
    OBVIOUS
  <2>2. {n - k : k \in S} \subseteq Nat /\ {n - k : k \in S} # {}
    BY <2>1
  <2> QED BY <2>2, LeastNumber
<1>2. PICK m \in S : d = n - m
  BY <1>1
<1>3. \A k \in S : m >= k
  <2> SUFFICES ASSUME NEW k \in S PROVE m >= k
    OBVIOUS
  <2>1. d <= n - k
    BY <1>1
  <2> QED BY <2>1, <1>2
<1> QED BY <1>3 DEF Max

-----------------------------------------------------------------------------
(* The configuration                                                         *)

cvars == <<workflows, txn>>

\* The renumbering of set_workflow_steps makes rows: every level is a positive number.
LEMMA NormalisedRows ==
  ASSUME NEW list \in StepLists, NEW w \in Workers \cup {None}
  PROVE  Normalised(list, w) \subseteq Step
<1> DEFINE Before(j, i) ==
      /\ list[j].role = list[i].role
      /\ list[j].level < list[i].level \/ (list[j].level = list[i].level /\ j <= i)
    Level(i) == Cardinality({j \in DOMAIN list : Before(j, i)})
    Sent == [role : Roles, level : Nat, approver : Roles, scope : Scopes]
<1>1. /\ DOMAIN list = 1..Len(list) /\ Len(list) \in Nat
      /\ \A i \in DOMAIN list : list[i] \in Sent
  <2>1. list \in Seq(Sent)
    BY ConfigAssumption
  <2> HIDE DEF Sent, Level, Before
  <2>2. QED BY <2>1
<1>2. IsFiniteSet(DOMAIN list)
  <2>1. Len(list) \in Int /\ 1 \in Int
    BY <1>1
  <2>2. IsFiniteSet(1..Len(list))
    BY <2>1, FS_Interval
  <2>3. QED BY <1>1, <2>2
<1>3. ASSUME NEW i \in DOMAIN list PROVE Level(i) \in Nat \ {0}
  <2>1. {j \in DOMAIN list : Before(j, i)} \subseteq DOMAIN list
    OBVIOUS
  <2>2. IsFiniteSet({j \in DOMAIN list : Before(j, i)})
    BY <1>2, <2>1, FS_Subset
  <2>3. i \in {j \in DOMAIN list : Before(j, i)}
    BY <1>1
  <2>4. QED BY <2>2, <2>3, FS_CardinalityType, FS_EmptySet
<1>4. Normalised(list, w) =
        {[role |-> list[i].role, level |-> Level(i), approver |-> list[i].approver,
          scope |-> list[i].scope, made |-> w] : i \in DOMAIN list}
  BY DEF Normalised
<1> HIDE DEF Level
<1>5. QED BY <1>1, <1>3, <1>4 DEF Step

LEMMA TypeStep == ConfigTypeOK /\ [ConfigNext]_cvars => ConfigTypeOK'
<1> SUFFICES ASSUME ConfigTypeOK, [ConfigNext]_cvars PROVE ConfigTypeOK'
  OBVIOUS
<1> USE DEF ConfigTypeOK, Workflow
<1>1. ASSUME NEW w \in Workers, NEW f \in WorkflowIds, NEW m \in ModuleTypes,
             CreateWorkflow(w, f, m)
      PROVE  ConfigTypeOK'
  BY <1>1 DEF CreateWorkflow, NoWorkflow
<1>2. ASSUME NEW w \in Workers, NEW f \in WorkflowIds, StepsRead(w, f) PROVE ConfigTypeOK'
  BY <1>2 DEF StepsRead, StartRequest, Editing
<1>3. ASSUME NEW w \in Workers, NEW f \in WorkflowIds, ActivateRead(w, f) PROVE ConfigTypeOK'
  BY <1>3 DEF ActivateRead, StartRequest, Editing
<1>4. ASSUME NEW w \in Workers, StepsWrite(w) PROVE ConfigTypeOK'
  <2>1. txn' \in [Workers -> Editing \cup {Idle}]
    BY <1>4 DEF StepsWrite, EndRequest
  <2>2. PICK list \in StepLists :
          workflows' = [workflows EXCEPT ![txn[w].workflow].steps =
                          (@ \ txn[w].seen) \cup Normalised(list, w)]
    BY <1>4 DEF StepsWrite
  <2>3. Normalised(list, w) \subseteq Step
    BY NormalisedRows
  <2>4. workflows' \in [WorkflowIds -> Workflow]
    BY <2>2, <2>3
  <2>5. QED BY <2>1, <2>4
<1>5. ASSUME NEW w \in Workers, ActivateWrite(w) PROVE ConfigTypeOK'
  BY <1>5 DEF ActivateWrite, EndRequest
<1>6. ASSUME NEW w \in Workers, AbortRequest(w) PROVE ConfigTypeOK'
  BY <1>6 DEF AbortRequest, EndRequest
<1>7. CASE UNCHANGED cvars
  BY <1>7 DEF cvars
<1>8. QED BY <1>1, <1>2, <1>3, <1>4, <1>5, <1>6, <1>7 DEF ConfigNext, Configure

LEMMA OneActiveStep ==
  ConfigTypeOK /\ OneActivePerModule /\ [ConfigNext]_cvars => OneActivePerModule'
<1> SUFFICES ASSUME ConfigTypeOK, OneActivePerModule, [ConfigNext]_cvars
             PROVE  OneActivePerModule'
  OBVIOUS
<1> USE DEF OneActivePerModule, ConfigTypeOK, Workflow
<1>1. ASSUME NEW w \in Workers, NEW f \in WorkflowIds, NEW m \in ModuleTypes,
             CreateWorkflow(w, f, m)
      PROVE  OneActivePerModule'
  \* The new workflow is not active; the others are what they were.
  <2>1. \A g \in WorkflowIds : workflows'[g].active => workflows'[g] = workflows[g]
    BY <1>1 DEF CreateWorkflow, NoWorkflow
  <2>2. QED BY <2>1
<1>2. ASSUME NEW w \in Workers, StepsWrite(w) PROVE OneActivePerModule'
  <2>1. \A g \in WorkflowIds : /\ workflows'[g].active = workflows[g].active
                               /\ workflows'[g].module = workflows[g].module
    BY <1>2 DEF StepsWrite
  <2>2. QED BY <2>1
<1>3. ASSUME NEW w \in Workers, ActivateWrite(w) PROVE OneActivePerModule'
  <2> DEFINE f == txn[w].workflow
  \* Within the module type only f can be active; outside of it nothing changes.
  <2>1. \A g \in WorkflowIds :
          /\ workflows'[g].module = workflows[g].module
          /\ workflows[g].module = workflows[f].module => (workflows'[g].active => g = f)
          /\ workflows[g].module # workflows[f].module => workflows'[g] = workflows[g]
    BY <1>3 DEF ActivateWrite
  <2> HIDE DEF f
  <2>2. SUFFICES ASSUME NEW g \in WorkflowIds, NEW h \in WorkflowIds,
                        workflows'[g].active, workflows'[h].active,
                        workflows'[g].module = workflows'[h].module
                 PROVE  g = h
    OBVIOUS
  <2>3. CASE workflows[g].module = workflows[f].module
    BY <2>1, <2>2, <2>3
  <2>4. CASE workflows[g].module # workflows[f].module
    BY <2>1, <2>2, <2>4
  <2>5. QED BY <2>3, <2>4
<1>4. ASSUME UNCHANGED workflows PROVE OneActivePerModule'
  BY <1>4
<1>5. QED
  BY <1>1, <1>2, <1>3, <1>4
  DEF ConfigNext, Configure, cvars, StepsRead, ActivateRead, AbortRequest

\* Workflow rows and the requests in memory keep the shape of their columns: the
\* renumbered steps are rows, whatever list an administrator sends.
THEOREM ConfigTypeCorrect == ConfigSpec => []ConfigTypeOK
<1>1. ConfigInit => ConfigTypeOK
  BY DEF ConfigInit, ConfigTypeOK, NoWorkflow, Workflow
<1>2. QED BY <1>1, TypeStep, PTL DEF ConfigSpec, cvars

\* However many activations overlap, no module type is left with two active workflows:
\* the bulk UPDATE of activate_workflow and its own row commit together.
THEOREM OneActiveCorrect == ConfigSpec => []OneActivePerModule
<1>1. ConfigInit => OneActivePerModule
  BY DEF ConfigInit, OneActivePerModule, NoWorkflow
<1>2. QED BY <1>1, ConfigTypeCorrect, OneActiveStep, PTL DEF ConfigSpec, cvars

-----------------------------------------------------------------------------
(* Requests that do not overlap *)

\* One administrator's request at a time.
OneAtATime == \A v, w \in Workers : v = w

\* What the only request read is still so when it writes.
StillRead(r) ==
  /\ r.op = "steps" => ~ workflows[r.workflow].active
  /\ r.op = "activate" => /\ workflows[r.workflow].steps # {}
                          /\ Contiguous(workflows[r.workflow].steps)

ActiveInv ==
  /\ ConfigTypeOK /\ ActiveWellFormed
  /\ \A w \in Workers : txn[w] # Idle => StillRead(txn[w])

LEMMA ActiveInvStep == OneAtATime /\ ActiveInv /\ [ConfigNext]_cvars => ActiveInv'
<1> SUFFICES ASSUME OneAtATime, ActiveInv, [ConfigNext]_cvars PROVE ActiveInv'
  OBVIOUS
<1>1. ConfigTypeOK'
  BY TypeStep DEF ActiveInv
<1>2. txn \in [Workers -> Editing \cup {Idle}] /\ workflows \in [WorkflowIds -> Workflow]
  BY DEF ActiveInv, ConfigTypeOK
<1> DEFINE Goal == ActiveWellFormed' /\ \A z \in Workers : txn'[z] # Idle => StillRead(txn[z])'
<1>3. ASSUME NEW w \in Workers, NEW f \in WorkflowIds, NEW m \in ModuleTypes,
             CreateWorkflow(w, f, m)
      PROVE  Goal
  <2>1. \A z \in Workers : txn'[z] = Idle
    BY <1>3 DEF CreateWorkflow, OneAtATime
  <2>2. \A g \in WorkflowIds : workflows'[g].active => workflows'[g] = workflows[g]
    BY <1>2, <1>3 DEF CreateWorkflow, NoWorkflow
  <2> QED BY <2>1, <2>2 DEF ActiveInv, ActiveWellFormed
<1>4. ASSUME NEW w \in Workers, NEW f \in WorkflowIds, StepsRead(w, f) PROVE Goal
  <2>1. \A z \in Workers : StillRead(txn[z])'
    BY <1>2, <1>4 DEF StepsRead, StartRequest, OneAtATime, StillRead
  <2> QED BY <1>4, <2>1 DEF StepsRead, ActiveInv, ActiveWellFormed
<1>5. ASSUME NEW w \in Workers, NEW f \in WorkflowIds, ActivateRead(w, f) PROVE Goal
  <2>1. \A z \in Workers : StillRead(txn[z])'
    BY <1>2, <1>5 DEF ActivateRead, StartRequest, OneAtATime, StillRead
  <2> QED BY <1>5, <2>1 DEF ActivateRead, ActiveInv, ActiveWellFormed
<1>6. ASSUME NEW w \in Workers, txn' = [txn EXCEPT ![w] = Idle] PROVE \A z \in Workers : txn'[z] = Idle
  BY <1>2, <1>6 DEF OneAtATime
<1>7. ASSUME NEW w \in Workers, StepsWrite(w) PROVE Goal
  <2> DEFINE f == txn[w].workflow
  <2>1. f \in WorkflowIds /\ ~ workflows[f].active
    BY <1>2, <1>7 DEF StepsWrite, ActiveInv, StillRead, Editing, Idle
  <2>2. PICK list \in StepLists : workflows' = [workflows EXCEPT ![f].steps =
                                     (@ \ txn[w].seen) \cup Normalised(list, w)]
    BY <1>7 DEF StepsWrite
  <2> HIDE DEF f
  <2>3. \A g \in WorkflowIds : workflows'[g].active => workflows'[g] = workflows[g]
    BY <1>2, <2>1, <2>2
  <2> QED BY <1>6, <1>7, <2>3 DEF StepsWrite, EndRequest, ActiveInv, ActiveWellFormed
<1>8. ASSUME NEW w \in Workers, ActivateWrite(w) PROVE Goal
  <2> DEFINE f == txn[w].workflow
  <2>1. workflows[f].steps # {} /\ Contiguous(workflows[f].steps)
    BY <1>8 DEF ActivateWrite, ActiveInv, StillRead, Idle
  <2>2. \A g \in WorkflowIds :
          /\ workflows'[g].steps = workflows[g].steps
          /\ workflows'[g].active => g = f \/ workflows[g].active
    BY <1>2, <1>8 DEF ActivateWrite, Workflow
  <2> HIDE DEF f
  <2> QED BY <1>6, <1>8, <2>1, <2>2 DEF ActivateWrite, EndRequest, ActiveInv, ActiveWellFormed
<1>9. ASSUME NEW w \in Workers, AbortRequest(w) PROVE Goal
  BY <1>6, <1>9 DEF AbortRequest, EndRequest, ActiveInv, ActiveWellFormed
<1>10. ASSUME UNCHANGED cvars PROVE Goal
  BY <1>10 DEF cvars, ActiveInv, ActiveWellFormed, StillRead
<1> HIDE DEF Goal
<1>11. Goal
  BY <1>3, <1>4, <1>5, <1>7, <1>8, <1>9, <1>10 DEF ConfigNext, Configure
<1> QED BY <1>1, <1>11 DEF ActiveInv, Goal

\* While the requests of administrators do not overlap, an active workflow has steps,
\* numbered 1, 2, ... for every requester role: the check of activate_workflow still
\* holds when it commits, and set_workflow_steps never touches an active one.
THEOREM ActiveWellFormedCorrect == OneAtATime => (ConfigSpec => []ActiveWellFormed)
<1> SUFFICES ASSUME OneAtATime PROVE ConfigSpec => []ActiveWellFormed
  OBVIOUS
<1>1. ConfigInit => ActiveInv
  BY DEF ConfigInit, ActiveInv, ActiveWellFormed, ConfigTypeOK, NoWorkflow, Workflow
<1>2. ActiveInv /\ [ConfigNext]_cvars => ActiveInv'
  BY ActiveInvStep
<1>3. ActiveInv => ActiveWellFormed
  BY DEF ActiveInv
<1> QED BY <1>1, <1>2, <1>3, PTL DEF ConfigSpec, cvars

-----------------------------------------------------------------------------
(* What the engine does to the rows of one target                            *)

\* An administrator's list makes finitely many steps.
LEMMA NormalisedFinite ==
  ASSUME NEW list \in StepLists, NEW w
  PROVE  IsFiniteSet(Normalised(list, w))
<1> DEFINE Before(j, i) ==
      /\ list[j].role = list[i].role
      /\ list[j].level < list[i].level \/ (list[j].level = list[i].level /\ j <= i)
    Made(i) == [role |-> list[i].role, level |-> Cardinality({j \in DOMAIN list : Before(j, i)}),
                approver |-> list[i].approver, scope |-> list[i].scope, made |-> w]
    f == [i \in DOMAIN list |-> Made(i)]
<1>1. Normalised(list, w) = {Made(i) : i \in DOMAIN list}
  BY DEF Normalised
<1>2. IsFiniteSet(DOMAIN list)
  <2> DEFINE Sent == [role : Roles, level : Nat, approver : Roles, scope : Scopes]
  <2>1. list \in Seq(Sent)
    BY ConfigAssumption
  <2> HIDE DEF Sent
  <2>2. DOMAIN list = 1..Len(list) /\ Len(list) \in Nat
    BY <2>1
  <2>3. IsFiniteSet(1..Len(list))
    BY <2>2, FS_Interval
  <2> QED BY <2>2, <2>3
<1> HIDE DEF Made
<1>3. f \in Surjection(DOMAIN list, Normalised(list, w))
  BY <1>1 DEF Surjection
<1> HIDE DEF f
<1> QED BY <1>2, <1>3, FS_Surjection

-----------------------------------------------------------------------------
(* Submissions *)

\* What is configured never changes while requests are served.
Configured ==
  /\ workflows \in [WorkflowIds -> Workflow]
  /\ \A f \in WorkflowIds : IsFiniteSet(workflows[f].steps)

\* Activating the first level keeps the rows a sequence of instances.
LEMMA ActivatedRows ==
  ASSUME NEW n \in Nat, NEW rows \in [1..n -> Instance]
  PROVE  Activated(rows) \in [1..n -> Instance]
<1> DEFINE first == Min({i \in DOMAIN rows : rows[i].status = "DRAFT"})
<1>1. Activated(rows) = rows \/ Activated(rows) = [rows EXCEPT ![first].status = "PENDING"]
  BY DEF Activated
<1> HIDE DEF first
<1>2. [rows EXCEPT ![first].status = "PENDING"] \in [1..n -> Instance]
  BY DEF Instance, InstanceStatuses
<1> QED BY <1>1, <1>2

\* A commit changes statuses only.
LEMMA CommitRows ==
  ASSUME NEW rows \in Seq(Instance), NEW i, NEW k
  PROVE  /\ ApproveRows(rows, i, k) \in Seq(Instance) /\ RejectRows(rows, i) \in Seq(Instance)
         /\ DOMAIN ApproveRows(rows, i, k) = DOMAIN rows /\ DOMAIN RejectRows(rows, i) = DOMAIN rows
<1>1. PICK n \in Nat : rows \in [1..n -> Instance]
  OBVIOUS
<1>2. \A j \in 1..n : rows[j] \in Instance
  BY <1>1
<1>3. ASSUME NEW j \in 1..n, NEW st \in InstanceStatuses
      PROVE  [rows[j] EXCEPT !.status = st] \in Instance
  BY <1>2 DEF Instance
<1>4. {"APPROVED", "PENDING", "REJECTED"} \subseteq InstanceStatuses
  BY DEF InstanceStatuses
<1>5. ApproveRows(rows, i, k) \in [1..n -> Instance]
  BY <1>1, <1>2, <1>3, <1>4 DEF ApproveRows
<1>6. RejectRows(rows, i) \in [1..n -> Instance]
  BY <1>1, <1>2, <1>3, <1>4 DEF RejectRows
<1> QED BY <1>1, <1>5, <1>6

LEMMA MinIsLeast ==
  ASSUME NEW S, S \subseteq Nat, S # {}
  PROVE  Min(S) \in S /\ \A k \in S : Min(S) <= k
BY LeastNumber DEF Min

-----------------------------------------------------------------------------
(* What a submission inserts *)

NotAbove(rows, i, j) == rows[i].level <= rows[j].level

\* One level is asked, no level below it remains, and none above it has been taken.
Orderly(rows) ==
  /\ \E p \in DOMAIN rows : rows[p].status = "PENDING"
  /\ \A i, j \in DOMAIN rows : rows[i].status = "PENDING" =>
       /\ rows[j].status = "PENDING" => i = j
       /\ rows[j].status = "DRAFT" => NotAbove(rows, i, j)
       /\ rows[j].status = "APPROVED" => NotAbove(rows, j, i)
       /\ rows[j].status # "REJECTED"

AllTaken(rows) == \A i \in DOMAIN rows : rows[i].status \in {"APPROVED", "SKIPPED"}

LEMMA ActivatedOrderly ==
  ASSUME NEW n \in Nat, NEW rows \in [1..n -> Instance],
         \A i \in 1..n : rows[i].status \in {"DRAFT", "SKIPPED"},
         \A i, j \in 1..n : i < j => rows[i].level <= rows[j].level
  PROVE  IF FlowStatus(Activated(rows)) = "PENDING" THEN Orderly(Activated(rows))
         ELSE FlowStatus(Activated(rows)) = "APPROVED" /\ AllTaken(Activated(rows))
<1> DEFINE drafts == {i \in DOMAIN rows : rows[i].status = "DRAFT"}
           p == Min(drafts)
<1>1. CASE drafts = {}
  <2>1. Activated(rows) = rows
    BY <1>1 DEF Activated
  <2> QED BY <1>1, <2>1 DEF FlowStatus, AllTaken
<1>2. CASE drafts # {}
  <2> DEFINE a == [rows EXCEPT ![p].status = "PENDING"]
  <2>1. Activated(rows) = a
    BY <1>2 DEF Activated
  <2>2. p \in drafts /\ \A k \in drafts : p <= k
    <3>1. drafts \subseteq Nat
      OBVIOUS
    <3> HIDE DEF drafts
    <3> QED BY <1>2, <3>1, MinIsLeast
  <2> HIDE DEF p
  <2>3. p \in 1..n /\ \A k \in 1..n : rows[k].status = "DRAFT" => p <= k
    BY <2>2
  <2>4. /\ DOMAIN a = 1..n
        /\ a[p].status = "PENDING" /\ a[p].level = rows[p].level
        /\ \A k \in (1..n) \ {p} : a[k] = rows[k]
    BY <2>3 DEF Instance
  <2> HIDE DEF a
  <2>5. \A k \in 1..n : rows[k].level \in Nat
    BY DEF Instance
  <2>6. \A k \in 1..n : rows[k].status = "DRAFT" => rows[p].level <= rows[k].level
    BY <2>3, <2>5
  <2>7. Orderly(a)
    <3>1. \A k \in 1..n : a[k].status = "PENDING" => k = p
      BY <2>4
    <3>2. \A k \in 1..n : a[k].status = "DRAFT" => NotAbove(a, p, k)
      BY <2>4, <2>6 DEF NotAbove
    <3> QED BY <2>3, <2>4, <3>1, <3>2 DEF Orderly
  <2> QED BY <2>1, <2>3, <2>4, <2>7 DEF FlowStatus
<1> QED BY <1>1, <1>2

\* A submission inserts instances, at most as many as the workflow has steps, that say
\* of the target what its verdict does.
LEMMA FlowRowsOrderly ==
  ASSUME Configured, NEW t \in Targets, NEW rows \in FlowRows(t)
  PROVE  /\ rows \in Seq(Instance)
         /\ \E f \in WorkflowIds : Len(rows) <= Cardinality(workflows[f].steps)
         /\ IF FlowStatus(rows) = "PENDING" THEN Orderly(rows)
            ELSE FlowStatus(rows) = "APPROVED" /\ AllTaken(rows)
<1> DEFINE e == Requester[t]
<1>1. PICK f \in ActiveFor(ModuleOf[t]) : \E q \in LevelOrders(StepsFor(f, e)) : rows \in OrderedRows(e, q)
  BY DEF FlowRows
<1> DEFINE S == StepsFor(f, e)
           n == Cardinality(S)
<1>2. f \in WorkflowIds /\ S \subseteq Step /\ S \subseteq workflows[f].steps
  BY DEF ActiveFor, StepsFor, Configured, Workflow
<1>3. IsFiniteSet(S) /\ n \in Nat /\ n <= Cardinality(workflows[f].steps)
  <2>1. IsFiniteSet(workflows[f].steps)
    BY <1>2 DEF Configured
  <2>2. IsFiniteSet(S) /\ Cardinality(S) <= Cardinality(workflows[f].steps)
    BY <1>2, <2>1, FS_Subset
  <2> QED BY <2>2, FS_CardinalityType
<1>4. PICK q \in LevelOrders(S) : rows \in OrderedRows(e, q)
  BY <1>1
<1> HIDE DEF S, e
<1>5. q \in [1..n -> S] /\ \A i, j \in 1..n : i < j => q[i].level <= q[j].level
  BY DEF LevelOrders
<1> HIDE DEF n
<1> DEFINE Fresh(pick) == [i \in DOMAIN q |-> NewInstance(e, q[i], pick[i])]
<1>6. PICK pick \in [DOMAIN q -> Employees \cup {None}] : rows = Activated(Fresh(pick))
  BY <1>4 DEF OrderedRows
<1>7. ASSUME NEW s \in S, NEW x \in Employees \cup {None}
      PROVE  /\ NewInstance(e, s, x) \in Instance
             /\ NewInstance(e, s, x).status \in {"DRAFT", "SKIPPED"}
             /\ NewInstance(e, s, x).level = s.level
  BY <1>2 DEF NewInstance, FirstStatus, Instance, InstanceStatuses, Step
<1>8. /\ Fresh(pick) \in [1..n -> Instance]
      /\ \A i \in 1..n : /\ Fresh(pick)[i].status \in {"DRAFT", "SKIPPED"}
                         /\ Fresh(pick)[i].level = q[i].level
  BY <1>5, <1>7
<1> HIDE DEF Fresh
<1>9. \A i, j \in 1..n : i < j => Fresh(pick)[i].level <= Fresh(pick)[j].level
  BY <1>5, <1>8
<1>10. rows \in [1..n -> Instance]
  BY <1>3, <1>6, <1>8, ActivatedRows
<1>11. rows \in Seq(Instance) /\ Len(rows) = n
  BY <1>3, <1>10
<1>12. IF FlowStatus(rows) = "PENDING" THEN Orderly(rows)
       ELSE FlowStatus(rows) = "APPROVED" /\ AllTaken(rows)
  BY <1>3, <1>6, <1>8, <1>9, ActivatedOrderly
<1> QED BY <1>2, <1>3, <1>11, <1>12

\* A submission appends instances to the target's: the earlier ones stay where they
\* are, and a pending verdict comes with a pending instance.
LEMMA StartFlowShape ==
  ASSUME Configured, instances \in [Targets -> Seq(Instance)],
         NEW t \in Targets, NEW verdict, StartFlow(t, verdict)
  PROVE  \E rows \in Seq(Instance) :
           /\ instances' = [instances EXCEPT ![t] = @ \o rows]
           /\ verdict = "PENDING" => \E i \in DOMAIN rows : rows[i].status = "PENDING"
<1>1. PICK rows \in FlowRows(t) : /\ instances' = [instances EXCEPT ![t] = @ \o rows]
                                 /\ verdict = FlowStatus(rows)
  BY DEF StartFlow
<1>2. rows \in Seq(Instance)
  BY <1>1, FlowRowsOrderly
<1> QED BY <1>1, <1>2 DEF FlowStatus

-----------------------------------------------------------------------------
(* What a decision does to the rows of its target *)

\* What the rows of a target say of the verdict, and the other way round.
Agrees(rows, verdict) ==
  /\ verdict = "NONE" => rows = << >>
  /\ verdict = "PENDING" => Orderly(rows)
  /\ verdict = "APPROVED" => AllTaken(rows)
  /\ verdict = "REJECTED" => \A i \in DOMAIN rows : rows[i].status \notin Open

\* The levels still to be taken.
OpenOf(rows) == {k \in DOMAIN rows : rows[k].status \in Open}

\* What the search for the level to ask next may find.
Found(t) == IF NextSteps(t) = {} THEN {0} ELSE NextSteps(t)

\* An approver's request still sees the rows it read.
OnRow(r) ==
  LET rows == instances[r.target] IN
  /\ r.index \in DOMAIN rows /\ rows[r.index].status = "PENDING"
  /\ r.op = "looked" =>
       /\ r.action = "APPROVED"
       /\ r.next \in Found(r.target)

\* With no next step found, no level is left to be asked.
LEMMA NothingNext ==
  ASSUME NEW t \in Targets, instances[t] \in Seq(Instance), NextSteps(t) = {}
  PROVE  \A i \in DOMAIN instances[t] : instances[t][i].status # "DRAFT"
<1> DEFINE drafts == IndexesOf(t, {"DRAFT"})
           levels == {instances[t][i].level : i \in drafts}
<1> SUFFICES ASSUME drafts # {} PROVE FALSE
  BY DEF IndexesOf
<1>1. \A i \in drafts : instances[t][i].level \in Nat
  <2>1. PICK n \in Nat : instances[t] \in [1..n -> Instance]
    OBVIOUS
  <2>2. drafts \subseteq 1..n
    BY <2>1 DEF IndexesOf
  <2> HIDE DEF drafts
  <2> QED BY <2>1, <2>2 DEF Instance
<1>2. levels \subseteq Nat /\ levels # {}
  <2> HIDE DEF drafts
  <2>1. \A x \in levels : x \in Nat
    BY <1>1
  <2>2. PICK i \in drafts : TRUE
    OBVIOUS
  <2>3. instances[t][i].level \in levels
    BY <2>2
  <2> QED BY <2>1, <2>3
<1>3. PICK n \in levels : \A k \in levels : n <= k
  <2> HIDE DEF levels
  <2> QED BY <1>2, LeastNumber
<1>4. PICK i \in drafts : n = instances[t][i].level
  BY <1>3
<1>5. i \in NextSteps(t)
  BY <1>3, <1>4 DEF NextSteps
<1> QED BY <1>5

\* Approving the pending level hands on to the next one, or takes the last one.
LEMMA ApproveAgrees ==
  ASSUME NEW t \in Targets, instances[t] \in Seq(Instance), Orderly(instances[t]),
         NEW i \in DOMAIN instances[t], instances[t][i].status = "PENDING",
         NEW next \in Found(t),
         NEW new, new = ApproveRows(instances[t], i, next)
  PROVE  /\ DOMAIN new = DOMAIN instances[t]
         /\ next = 0 => AllTaken(new)
         /\ next # 0 => Orderly(new)
         /\ OpenOf(new) = OpenOf(instances[t]) \ {i}
<1> DEFINE old == instances[t]
<1>1. PICK n \in Nat : old \in [1..n -> Instance]
  OBVIOUS
<1>2. /\ DOMAIN old = 1..n /\ i \in 1..n /\ old[i].status = "PENDING"
      /\ \A k \in 1..n : old[k].status \in InstanceStatuses
  BY <1>1 DEF Instance
<1>3. \A k \in 1..n : old[k].level \in Nat
  BY <1>1 DEF Instance
<1>4. DOMAIN new = 1..n
  BY <1>2 DEF ApproveRows
<1>5. \A k \in 1..n : new[k].status = IF k = i THEN "APPROVED"
                                       ELSE IF k = next THEN "PENDING" ELSE old[k].status
  BY <1>1, <1>2 DEF ApproveRows, Instance
<1>10. \A k \in 1..n : new[k].level = old[k].level
  BY <1>1, <1>2 DEF ApproveRows, Instance
<1>6. \A j \in 1..n : /\ old[j].status = "PENDING" => i = j
                      /\ old[j].status = "DRAFT" => NotAbove(old, i, j)
                      /\ old[j].status = "APPROVED" => NotAbove(old, j, i)
                      /\ old[j].status # "REJECTED"
  BY <1>2 DEF Orderly
<1> HIDE DEF old
<1>7. ASSUME NextSteps(t) = {}
      PROVE  /\ next = 0 /\ AllTaken(new)
             /\ \A k \in 1..n : new[k].status \in Open <=> old[k].status \in Open /\ k # i
  <2>1. \A k \in 1..n : old[k].status # "DRAFT"
    BY <1>2, <1>7, NothingNext DEF old
  <2>2. next = 0
    BY <1>7 DEF Found
  <2>3. \A k \in 1..n : new[k].status \in {"APPROVED", "SKIPPED"}
    BY <1>1, <1>2, <1>5, <1>6, <2>1, <2>2 DEF InstanceStatuses
  <2>4. \A k \in 1..n : new[k].status \in Open <=> old[k].status \in Open /\ k # i
    BY <1>2, <1>5, <1>6, <2>1, <2>3 DEF Open
  <2> QED BY <1>4, <2>2, <2>3, <2>4 DEF AllTaken
<1>8. ASSUME NextSteps(t) # {}
      PROVE  /\ next # 0 /\ Orderly(new)
             /\ \A k \in 1..n : new[k].status \in Open <=> old[k].status \in Open /\ k # i
  <2>1. /\ next \in 1..n /\ old[next].status = "DRAFT"
        /\ \A j \in 1..n : old[j].status = "DRAFT" => NotAbove(old, next, j)
    BY <1>2, <1>8 DEF Found, NextSteps, IndexesOf, NotAbove, old
  <2>2. next # i /\ next # 0
    BY <1>1, <1>2, <2>1
  <2>3. Orderly(new)
    <3>1. new[next].status = "PENDING"
      BY <1>5, <2>1, <2>2
    <3>2. \A j \in 1..n : new[j].status = "PENDING" => next = j
      BY <1>5, <1>6
    <3>3. \A j \in 1..n : new[j].status # "REJECTED"
      BY <1>5, <1>6
    <3>4. \A j \in 1..n : new[j].status = "DRAFT" => NotAbove(new, next, j)
      <4>1. \A j \in 1..n : new[j].status = "DRAFT" => NotAbove(old, next, j)
        BY <1>5, <2>1
      <4> QED BY <1>10, <2>1, <4>1 DEF NotAbove
    <3>5. \A j \in 1..n : new[j].status = "APPROVED" => NotAbove(new, j, next)
      <4>1. \A j \in 1..n : new[j].status = "APPROVED" => NotAbove(old, j, i) \/ j = i
        BY <1>5, <1>6
      <4>2. NotAbove(old, i, next)
        BY <1>6, <2>1
      <4> QED BY <1>2, <1>3, <1>10, <2>1, <4>1, <4>2 DEF NotAbove
    <3> QED BY <1>4, <2>1, <3>1, <3>2, <3>3, <3>4, <3>5 DEF Orderly
  <2>4. \A k \in 1..n : new[k].status \in Open <=> old[k].status \in Open /\ k # i
    BY <1>5, <2>1, <2>2 DEF Open
  <2> QED BY <2>2, <2>3, <2>4
<1>9. OpenOf(new) = OpenOf(old) \ {i}
  BY <1>2, <1>4, <1>7, <1>8 DEF OpenOf
<1> QED BY <1>2, <1>4, <1>7, <1>8, <1>9 DEF old

LEMMA RejectAgrees ==
  ASSUME NEW rows \in Seq(Instance), NEW i \in DOMAIN rows, rows[i].status = "PENDING"
  PROVE  /\ DOMAIN RejectRows(rows, i) = DOMAIN rows
         /\ \A k \in DOMAIN rows : RejectRows(rows, i)[k].status \notin Open
<1>1. PICK n \in Nat : rows \in [1..n -> Instance]
  OBVIOUS
<1>2. \A k \in 1..n : [rows[k] EXCEPT !.status = "REJECTED"].status = "REJECTED"
  BY <1>1 DEF Instance
<1> QED BY <1>1, <1>2 DEF RejectRows, Open

\* The commit of a request that still sees its rows leaves them as its verdict says, and
\* an approval takes exactly the level it approves.
LEMMA CommitAgrees ==
  ASSUME instances \in [Targets -> Seq(Instance)], NEW w \in Workers, NEW v,
         NEW r \in Acting, r = txn[w], NEW t \in Targets, t = r.target,
         ActCommit(w, v), Orderly(instances[t]), OnRow(r)
  PROVE  /\ \A u \in Targets \ {t} : instances'[u] = instances[u]
         /\ v \in Verdicts /\ Agrees(instances'[t], v)
         /\ DOMAIN instances'[t] = DOMAIN instances[t]
         /\ v # "REJECTED" => /\ r.index \in OpenOf(instances[t])
                              /\ OpenOf(instances'[t]) = OpenOf(instances[t]) \ {r.index}
<1> DEFINE old == instances[t]
           new == instances'[t]
<1>1. /\ \/ /\ r.op = "looked" /\ new = ApproveRows(old, r.index, r.next)
            /\ v = IF r.next = 0 THEN "APPROVED" ELSE "PENDING"
         \/ new = RejectRows(old, r.index) /\ v = "REJECTED"
      /\ \A u \in Targets \ {t} : instances'[u] = instances[u]
  BY DEF ActCommit
<1>2. /\ old \in Seq(Instance) /\ Orderly(old)
      /\ r.index \in DOMAIN old /\ old[r.index].status = "PENDING"
  BY DEF OnRow
<1>3. ASSUME v # "REJECTED"
      PROVE  /\ DOMAIN new = DOMAIN old /\ v \in Verdicts /\ Agrees(new, v)
             /\ r.index \in OpenOf(old) /\ OpenOf(new) = OpenOf(old) \ {r.index}
  <2>1. /\ r.op = "looked" /\ new = ApproveRows(old, r.index, r.next)
        /\ v = IF r.next = 0 THEN "APPROVED" ELSE "PENDING"
    BY <1>1, <1>3
  <2>2. r.next \in Found(t)
    BY <2>1 DEF OnRow
  <2>3. /\ DOMAIN new = DOMAIN old
        /\ r.next = 0 => AllTaken(new)
        /\ r.next # 0 => Orderly(new)
        /\ OpenOf(new) = OpenOf(old) \ {r.index}
    <3>1. PICK i \in DOMAIN instances[t] : i = r.index /\ instances[t][i].status = "PENDING"
      BY <1>2
    <3>2. PICK next \in Found(t) : next = r.next
      BY <2>2
    <3>3. instances[t] \in Seq(Instance) /\ Orderly(instances[t])
      OBVIOUS
    <3>4. PICK b : b = ApproveRows(instances[t], i, next)
      OBVIOUS
    <3>5. /\ DOMAIN b = DOMAIN instances[t]
          /\ next = 0 => AllTaken(b)
          /\ next # 0 => Orderly(b)
          /\ OpenOf(b) = OpenOf(instances[t]) \ {i}
      BY <3>1, <3>3, <3>4, ApproveAgrees
    <3>6. new = b
      BY <2>1, <3>1, <3>2, <3>4
    <3> HIDE DEF new
    <3> QED BY <3>1, <3>2, <3>5, <3>6
  <2>4. r.index \in OpenOf(old)
    BY <1>2 DEF Open, OpenOf
  <2> HIDE DEF old, new
  <2> QED BY <2>1, <2>3, <2>4 DEF Agrees, Verdicts
<1>4. ASSUME v = "REJECTED" PROVE DOMAIN new = DOMAIN old /\ Agrees(new, v)
  <2>1. new = RejectRows(old, r.index)
    BY <1>1, <1>4
  <2> HIDE DEF new
  <2> QED BY <1>2, <1>4, <2>1, RejectAgrees DEF Agrees
<1> HIDE DEF new, old
<1>5. /\ \A u \in Targets \ {t} : instances'[u] = instances[u]
      /\ v \in Verdicts /\ Agrees(new, v)
      /\ DOMAIN new = DOMAIN old
      /\ v # "REJECTED" => r.index \in OpenOf(old) /\ OpenOf(new) = OpenOf(old) \ {r.index}
  BY <1>1, <1>3, <1>4 DEF Verdicts
<1> QED BY <1>5 DEF new, old

-----------------------------------------------------------------------------
(* Types, whatever else a request may be in memory *)

LEMMA EngineInitTypes ==
  ASSUME NEW charts, charts \subseteq Org, EngineInit(StepLists, charts)
  PROVE  EngineTypeOK /\ Configured
<1>1. \A f \in WorkflowIds : \E m \in ModuleTypes, list \in StepLists :
        workflows[f] = [module |-> m, active |-> TRUE, steps |-> Normalised(list, None)]
  BY DEF EngineInit
<1>2. ASSUME NEW f \in WorkflowIds
      PROVE  workflows[f] \in Workflow /\ IsFiniteSet(workflows[f].steps)
  <2>1. PICK m \in ModuleTypes, list \in StepLists :
          workflows[f] = [module |-> m, active |-> TRUE, steps |-> Normalised(list, None)]
    BY <1>1
  <2>2. Normalised(list, None) \subseteq Step /\ IsFiniteSet(Normalised(list, None))
    BY NormalisedRows, NormalisedFinite
  <2> QED BY <2>1, <2>2 DEF Workflow
<1>3. Configured
  BY <1>2 DEF Configured, EngineInit
<1> QED BY <1>3 DEF EngineInit, EngineTypeOK, Configured

\* An approver's request, when it has checked the instance and when it has found the
\* next one.
LEMMA ActReadType ==
  ASSUME instances \in [Targets -> Seq(Instance)], NEW w \in Workers, NEW x \in Employees,
         NEW t \in Targets, NEW i \in DOMAIN instances[t], NEW a \in {"APPROVED", "REJECTED"},
         ActRead(w, x, t, i, a)
  PROVE  \E r \in Acting : /\ txn' = [txn EXCEPT ![w] = r]
                           /\ r.op = "act" /\ r.target = t /\ r.index = i
<1>1. instances[t] \in Seq(Instance)
  OBVIOUS
<1>2. i \in Nat \ {0}
  BY <1>1
<1>3. [op |-> "act", by |-> x, target |-> t, index |-> i, action |-> a, next |-> 0] \in Acting
  BY <1>2 DEF Acting
<1> QED BY <1>3 DEF ActRead, StartRequest

LEMMA ActLookType ==
  ASSUME instances \in [Targets -> Seq(Instance)], NEW w \in Workers, txn[w] \in Acting, ActLook(w)
  PROVE  \E r \in Acting : /\ txn' = [txn EXCEPT ![w] = r]
                           /\ r.op = "looked" /\ r.target = txn[w].target /\ r.index = txn[w].index
                           /\ r.action = "APPROVED" /\ r.next \in Found(r.target)
<1>1. PICK next \in Found(txn[w].target) :
        txn' = [txn EXCEPT ![w] = [@ EXCEPT !.op = "looked", !.next = next]]
  BY DEF ActLook, Found
<1>2. instances[txn[w].target] \in Seq(Instance)
  BY DEF Acting
<1>3. next \in Nat
  BY <1>1, <1>2 DEF Found, NextSteps, IndexesOf
<1> DEFINE r == [txn[w] EXCEPT !.op = "looked", !.next = next]
<1>4. r \in Acting /\ r.op = "looked" /\ r.target = txn[w].target /\ r.index = txn[w].index
      /\ r.next = next /\ r.action = txn[w].action
  BY <1>3 DEF Acting
<1>5. txn' = [txn EXCEPT ![w] = r] /\ txn[w].action = "APPROVED"
  BY <1>1 DEF ActLook
<1> HIDE DEF r
<1> QED BY <1>1, <1>4, <1>5

LEMMA ActCommitType ==
  ASSUME instances \in [Targets -> Seq(Instance)], NEW w \in Workers, txn[w] \in Acting,
         NEW v, ActCommit(w, v)
  PROVE  /\ instances' \in [Targets -> Seq(Instance)] /\ v \in Verdicts
         /\ \A u \in Targets \ {txn[w].target} : instances'[u] = instances[u]
<1>1. PICK t \in Targets : t = txn[w].target
  BY DEF Acting
<1>2. instances[t] \in Seq(Instance)
  OBVIOUS
<1>3. /\ ApproveRows(instances[t], txn[w].index, txn[w].next) \in Seq(Instance)
      /\ RejectRows(instances[t], txn[w].index) \in Seq(Instance)
  BY <1>2, CommitRows
<1>4. PICK rows \in Seq(Instance) : instances' = [instances EXCEPT ![t] = rows]
  BY <1>1, <1>3 DEF ActCommit
<1>5. v \in Verdicts
  BY DEF ActCommit, Verdicts
<1> QED BY <1>1, <1>4, <1>5

-----------------------------------------------------------------------------
(* A sum of natural numbers counts dots: g[x] of them above each x. *)

Dots(S, g) == {d \in S \X Nat : d[2] # 0 /\ d[2] <= g[d[1]]}

LEMMA DotsAbove ==
  ASSUME NEW x, NEW g, g[x] \in Nat
  PROVE  IsFiniteSet(Dots({x}, g)) /\ Cardinality(Dots({x}, g)) = g[x]
<1> DEFINE n == g[x]
           D == Dots({x}, g)
           f == [k \in 1..n |-> <<x, k>>]
<1>1. IsFiniteSet(1..n) /\ Cardinality(1..n) = n
  BY FS_Interval
<1>2. f \in Bijection(1..n, D)
  <2>1. \A k \in 1..n : <<x, k>> \in D
    BY DEF Dots
  <2>2. \A d \in D : d[2] \in 1..n /\ d = <<x, d[2]>>
    BY DEF Dots
  <2>3. \A d \in D : \E k \in 1..n : f[k] = d
    BY <2>2
  <2>4. \A j, k \in 1..n : f[j] = f[k] => j = k
    OBVIOUS
  <2>5. f \in [1..n -> D]
    BY <2>1
  <2> HIDE DEF f, D
  <2> QED BY <2>3, <2>4, <2>5 DEF Bijection, Injection, Surjection, IsInjective
<1> HIDE DEF D, f, n
<1>3. ExistsBijection(1..n, D)
  BY <1>2 DEF ExistsBijection
<1>4. IsFiniteSet(D) /\ Cardinality(D) = n
  BY <1>1, <1>3, FS_Bijection
<1> QED BY <1>4 DEF D, n

LEMMA DotsFinite ==
  ASSUME NEW S, IsFiniteSet(S), NEW g, \A x \in S : g[x] \in Nat
  PROVE  IsFiniteSet(Dots(S, g))
<1> DEFINE C == {Dots({x}, g) : x \in S}
           f == [x \in S |-> Dots({x}, g)]
<1>1. f \in Surjection(S, C)
  BY DEF Surjection
<1>2. \A D \in C : IsFiniteSet(D)
  BY DotsAbove
<1>3. Dots(S, g) = UNION C
  BY DEF Dots
<1> HIDE DEF f, C
<1>4. IsFiniteSet(C)
  BY <1>1, FS_Surjection
<1> QED BY <1>2, <1>3, <1>4, FS_UNION

\* Taking one away takes its dots away.
LEMMA DotsWithout ==
  ASSUME NEW S, IsFiniteSet(S), NEW g, \A x \in S : g[x] \in Nat, NEW y \in S
  PROVE  Cardinality(Dots(S, g)) = g[y] + Cardinality(Dots(S \ {y}, g))
<1> DEFINE A == Dots({y}, g)
           B == Dots(S \ {y}, g)
<1>1. IsFiniteSet(A) /\ Cardinality(A) = g[y]
  BY DotsAbove
<1>2. IsFiniteSet(B)
  <2>1. IsFiniteSet(S \ {y})
    BY FS_RemoveElement
  <2> QED BY <2>1, DotsFinite
<1>3. Dots(S, g) = A \cup B /\ A \cap B = {}
  BY DEF Dots
<1> HIDE DEF A, B
<1>4. Cardinality(A \cup B) = Cardinality(A) + Cardinality(B) - Cardinality(A \cap B)
  BY <1>1, <1>2, FS_Union
<1>5. Cardinality(A) \in Nat /\ Cardinality(B) \in Nat /\ Cardinality(A \cap B) = 0
  BY <1>1, <1>2, <1>3, FS_CardinalityType, FS_EmptySet
<1> QED BY <1>1, <1>3, <1>4, <1>5 DEF B

\* A sum taken one by one counts the dots.
Picked(s) == CHOOSE x \in s : TRUE
SumsUp(F, g, S) ==
  /\ \A x \in S : g[x] \in Nat
  /\ F[{}] = 0
  /\ \A s \in SUBSET S : s # {} => F[s] = g[Picked(s)] + F[s \ {Picked(s)}]

LEMMA SumCountsDots ==
  ASSUME NEW S, IsFiniteSet(S), NEW g, NEW F, SumsUp(F, g, S)
  PROVE  F[S] = Cardinality(Dots(S, g))
<1>0. /\ \A x \in S : g[x] \in Nat
      /\ F[{}] = 0
      /\ \A s \in SUBSET S : s # {} => F[s] = g[Picked(s)] + F[s \ {Picked(s)}]
  BY DEF SumsUp
<1> DEFINE Wrong == {s \in SUBSET S : F[s] # Cardinality(Dots(s, g))}
           sizes == {Cardinality(s) : s \in Wrong}
<1> SUFFICES ASSUME Wrong # {} PROVE FALSE
  OBVIOUS
<1>1. \A s \in SUBSET S : IsFiniteSet(s) /\ Cardinality(s) \in Nat
  BY FS_Subset, FS_CardinalityType
<1>2. PICK s \in Wrong : \A z \in Wrong : Cardinality(s) <= Cardinality(z)
  <2>1. sizes \subseteq Nat /\ sizes # {}
    BY <1>1
  <2>2. PICK n \in sizes : \A k \in sizes : n <= k
    <3> HIDE DEF sizes
    <3> QED BY <2>1, LeastNumber
  <2> QED BY <2>2
<1>3. s \in SUBSET S /\ F[s] # Cardinality(Dots(s, g))
  OBVIOUS
<1>4. s # {}
  <2>1. Dots({}, g) = {}
    BY DEF Dots
  <2> QED BY <1>0, <1>3, <2>1, FS_EmptySet
<1> DEFINE y == Picked(s)
           z == s \ {y}
<1>5. y \in s /\ z \in SUBSET S
  BY <1>3, <1>4 DEF Picked
<1>6. F[s] = g[y] + F[z]
  BY <1>0, <1>3, <1>4
<1>7. Cardinality(z) = Cardinality(s) - 1
  BY <1>1, <1>3, <1>5, FS_RemoveElement
<1>8. F[z] = Cardinality(Dots(z, g))
  <2>1. z \notin Wrong
    BY <1>1, <1>2, <1>3, <1>5, <1>7
  <2> QED BY <1>5, <2>1
<1>9. Cardinality(Dots(s, g)) = g[y] + Cardinality(Dots(z, g))
  BY <1>0, <1>1, <1>3, <1>5, DotsWithout
<1> QED BY <1>3, <1>6, <1>8, <1>9
===============================================================================
