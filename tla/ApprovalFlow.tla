------------------------------ MODULE ApprovalFlow ------------------------------
(***************************************************************************)
(* The approval engine over targets that do nothing but take its verdict:  *)
(* what it promises by itself, to modules whose targets are decided only   *)
(* through it.                                                             *)
(***************************************************************************)
EXTENDS ApprovalEngine

CONSTANTS
  Charts,           \* organisation charts to start from
  MaxLevels,        \* bound on the steps of one flow
  Environment       \* optional steps an instance allows

ASSUME FlowAssumption ==
  /\ Environment \subseteq {"abort", "grant", "revoke"}
  /\ MaxLevels \in Nat /\ \A list \in StepLists : Len(list) <= MaxLevels
  /\ Charts \subseteq Org
  /\ None \notin Employees

VARIABLE outcome    \* status of each target; "NONE" before it is submitted

vars == <<workflows, txn, org, instances, outcome>>

Submit(t) ==
  /\ outcome[t] = "NONE"
  /\ \E v \in Verdicts : StartFlow(t, v) /\ outcome' = [outcome EXCEPT ![t] = v]
  /\ UNCHANGED <<workflows, txn, org>>

\* _update_target_status: the target's own status is not looked at.
Outcome(t, v) == IF v = "PENDING" THEN outcome[t] ELSE v

Commit(w) ==
  \E v \in Verdicts :
    /\ ActCommit(w, v)
    /\ outcome' = [outcome EXCEPT ![txn[w].target] = Outcome(txn[w].target, v)]

Abort(w) ==
  /\ "abort" \in Environment
  /\ AbortRequest(w)
  /\ UNCHANGED <<org, instances, outcome>>

Act(w) ==
  \/ \E x \in Employees, t \in Targets : \E i \in DOMAIN instances[t], a \in {"APPROVED", "REJECTED"} :
       ActRead(w, x, t, i, a) /\ UNCHANGED outcome
  \/ ActLook(w) /\ UNCHANGED outcome
  \/ Commit(w)

Personnel ==
  \/ /\ "grant" \in Environment
     /\ \E x \in Employees, r \in Roles : GrantRole(x, r)
     /\ UNCHANGED outcome
  \/ /\ "revoke" \in Environment
     /\ \E x \in Employees, r \in Roles : RevokeRole(x, r)
     /\ UNCHANGED outcome

Init == EngineInit(StepLists, Charts) /\ outcome = [t \in Targets |-> "NONE"]

Next ==
  \/ \E t \in Targets : Submit(t)
  \/ \E w \in Workers : Act(w) \/ Abort(w)
  \/ Personnel

Spec == Init /\ [][Next]_vars

-----------------------------------------------------------------------------
\* Instances and requests in memory have the shape of their columns and fields, and a
\* target has one of the statuses.
TypeOK ==
  /\ EngineTypeOK
  /\ txn \in [Workers -> Acting \cup {Idle}]
  /\ outcome \in [Targets -> Verdicts \cup {"NONE"}]

\* Whatever requests overlap or die, a request that is pending has a level somebody
\* can be asked about: it never hangs between two levels.
NeverStuck == \A t \in Targets : outcome[t] = "PENDING" => IndexesOf(t, {"PENDING"}) # {}

\* Levels are taken one at a time and in order: nothing is asked of a level while a
\* lower one is open.
LevelsInOrder ==
  \A t \in Targets : \A i, j \in DOMAIN instances[t] :
    (/\ instances[t][i].level < instances[t][j].level
     /\ instances[t][i].status \in Open) => instances[t][j].status \in {"DRAFT", "SKIPPED"}

\* An approved target has every level approved or skipped: "No more steps left!
\* Overall request is approved."
ApprovedComplete ==
  \A t \in Targets : outcome[t] = "APPROVED" =>
    \A i \in DOMAIN instances[t] : instances[t][i].status \in {"APPROVED", "SKIPPED"}

\* A rejected target stays rejected: the rejection cancels "all other steps for this
\* target", so nobody can act on it any more.
RejectionFinal ==
  [][\A t \in Targets : outcome[t] = "REJECTED" => outcome'[t] = "REJECTED"]_vars

\* A step the requester would have to approve is skipped: no requester ever decides a
\* level of its own request.
NoSelfApproval == \A w \in Workers : txn[w] # Idle => txn[w].by # Requester[txn[w].target]

\* Requests that do not overlap decide a target as ApprovalDecision says.
left == [t \in Targets |-> Cardinality(OpenAt(t))]
Decision == INSTANCE ApprovalDecision WITH Targets <- Targets, MaxLevels <- MaxLevels,
                                          outcome <- outcome, left <- left
DecidedOnce == Decision!Spec

\* What was decided was decided in order, completely, and by others.
DecisionsSound == LevelsInOrder /\ ApprovedComplete /\ NoSelfApproval
=============================================================================
