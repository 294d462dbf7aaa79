------------------------------- MODULE MCApproval -------------------------------
(* Instances of the approval engine: three employees in a reporting line, an     *)
(* employee, a lead and a head, and workflows of one to three levels.            *)
EXTENDS ApprovalFlow

CONSTANTS emp, lead, head, staffRole, leadRole, headRole, dep, leave, sheet

Line == [x \in {emp, lead, head} |-> IF x = emp THEN lead ELSE IF x = lead THEN head ELSE None]
Chart(holds) == [manager |-> Line, holds |-> holds, dept |-> [x \in {emp, lead, head} |-> dep],
                 leads |-> [x \in {emp, lead, head} |-> IF x = emp THEN {lead} ELSE {}],
                 active |-> {emp, lead, head}]
Usual == {<<emp, staffRole>>, <<lead, leadRole>>, <<head, headRole>>}

MCCharts == {Chart(Usual),
             Chart(Usual \ {<<head, headRole>>}),          \* nobody holds the top role
             Chart(Usual \cup {<<emp, leadRole>>}),        \* the requester holds two roles
             Chart(Usual \cup {<<emp, headRole>>}),        \* the requester may approve others
             Chart(Usual \cup {<<lead, headRole>>})}       \* one person on two levels
MCPlainCharts == {Chart(Usual), Chart(Usual \cup {<<lead, headRole>>})}
MCVacantCharts == {Chart(Usual \ {<<head, headRole>>})}

Row(role, level, approver, scope) ==
  [role |-> role, level |-> level, approver |-> approver, scope |-> scope]
ToLead(l) == Row(staffRole, l, leadRole, "REPORTING_HIERARCHY")
ToTeamLead(l) == Row(staffRole, l, leadRole, "TEAM_ASSIGNMENT")
ToDept(l) == Row(staffRole, l, headRole, "DEPARTMENT_ASSIGNMENT")
ToHead(l) == Row(staffRole, l, headRole, "GLOBAL")
LeadToHead(l) == Row(leadRole, l, headRole, "GLOBAL")

MCStepLists == {<<ToLead(1)>>, <<ToHead(2), ToLead(1)>>, <<ToTeamLead(1), ToDept(2), ToHead(3)>>,
                <<ToLead(1), ToHead(2), LeadToHead(1)>>}
MCThreeLevels == {<<ToTeamLead(1), ToDept(2), ToHead(3)>>, <<ToLead(1), ToHead(2)>>}
MCOneLevel == {<<ToHead(1)>>}
MCEditLists == {<< >>, <<ToLead(2), ToHead(5)>>, <<ToHead(1), LeadToHead(1)>>}

MCRequester == [t \in Targets |-> emp]
MCModuleOf == [t \in Targets |-> leave]
MCAliasOf == [m \in ModuleTypes |-> m]
=============================================================================
