---------------------------- MODULE MCLeaveApproval ----------------------------
(* Instances of LeaveApproval: one employee, its lead and the head. *)
EXTENDS LeaveApproval, TLC

CONSTANTS emp, lead, head, staffRole, leadRole, headRole, annual, sick, t1, t2

MCCharts ==
  {[manager |-> [x \in {emp, lead, head} |-> IF x = emp THEN lead ELSE IF x = lead THEN head ELSE None],
    holds |-> {<<emp, staffRole>>, <<lead, leadRole>>, <<head, headRole>>},
    dept |-> [x \in {emp, lead, head} |-> None], leads |-> [x \in {emp, lead, head} |-> {}],
    active |-> {emp, lead, head}]}

Row(level, approver, scope) ==
  [role |-> staffRole, level |-> level, approver |-> approver, scope |-> scope]
\* The lead, then the head; or nobody: leave that approves itself.
TwoLevels == <<Row(1, leadRole, "REPORTING_HIERARCHY"), Row(2, headRole, "GLOBAL")>>
MCTwoLevels == {TwoLevels}
MCStepLists == {TwoLevels, << >>}

Ask(from, to, half) == [type |-> annual, from |-> from, to |-> to, half |-> half]
\* Day 3 is a day off.
MCWholeDays == {Ask(1, 1, "NO"), Ask(1, 2, "NO"), Ask(2, 4, "NO")}
MCAnyDays ==
  MCWholeDays \cup {Ask(2, 2, "FIRST_HALF"), Ask(2, 2, "SECOND_HALF"), [Ask(1, 2, "NO") EXCEPT !.type = sick]}

MCEntitlement == [l \in LeaveTypes |-> 4]
MCRequester == [t \in Targets |-> emp]
MCModuleOf == [t \in Targets |-> CHOOSE m \in ModuleTypes : TRUE]
MCAliasOf == [m \in ModuleTypes |-> m]

Directly == [t \in Targets |-> {"direct"}]
OneWayEach == [t \in Targets |-> IF t = t1 THEN {"engine"} ELSE {"direct"}]

\* Requests other than the first are decided in the same way and may change places.
OthersSymmetric == Permutations(Targets \ {t1})

\* Workers are interchangeable, and so are requests that are all decided directly.
Symmetric == Permutations(Workers) \cup Permutations(Targets)
=============================================================================
