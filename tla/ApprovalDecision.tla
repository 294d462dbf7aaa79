--------------------------- MODULE ApprovalDecision ---------------------------
(***************************************************************************)
(* What the approval engine promises about one request: it is decided     *)
(* once, by rejecting it at any level or by approving every level, one     *)
(* approval at a time.                                                     *)
(***************************************************************************)
EXTENDS Integers

CONSTANTS Targets, MaxLevels

VARIABLES
  outcome,    \* "NONE" until submitted, then "PENDING" until decided
  left        \* levels still to be approved

Submit(t) ==
  /\ outcome[t] = "NONE"
  /\ \E n \in 0..MaxLevels :
       /\ left' = [left EXCEPT ![t] = n]
       /\ outcome' = [outcome EXCEPT ![t] = IF n = 0 THEN "APPROVED" ELSE "PENDING"]

Approve(t) ==
  /\ outcome[t] = "PENDING"
  /\ left' = [left EXCEPT ![t] = @ - 1]
  /\ outcome' = [outcome EXCEPT ![t] = IF left[t] = 1 THEN "APPROVED" ELSE "PENDING"]

Reject(t) ==
  /\ outcome[t] = "PENDING"
  /\ left' = [left EXCEPT ![t] = 0]
  /\ outcome' = [outcome EXCEPT ![t] = "REJECTED"]

Init ==
  /\ outcome = [t \in Targets |-> "NONE"]
  /\ left = [t \in Targets |-> 0]

Next == \E t \in Targets : Submit(t) \/ Approve(t) \/ Reject(t)

Spec == Init /\ [][Next]_<<outcome, left>>
=============================================================================
