------------------------- MODULE MCApprovalWorkflows -------------------------
(* Instances of ApprovalWorkflows: workflows of two module types, and charts of   *)
(* four employees. The configuration never reads the chart, so an instance        *)
(* explores one or the other: every chart, reached by changing one manager or one *)
(* role holder at a time, cycles and self-managed employees included, as nothing  *)
(* in the walk excludes them; and every configuration.                            *)
EXTENDS ApprovalWorkflows

CONSTANTS staffRole, leadRole, headRole

VARIABLE org

Row(role, level, approver, scope) ==
  [role |-> role, level |-> level, approver |-> approver, scope |-> scope]

\* No steps at all; levels sent with gaps; steps for two requester roles.
MCStepLists ==
  {<< >>,
   <<Row(staffRole, 5, headRole, "GLOBAL"), Row(staffRole, 2, leadRole, "REPORTING_HIERARCHY")>>,
   <<Row(staffRole, 1, headRole, "GLOBAL"), Row(leadRole, 1, headRole, "GLOBAL")>>}

Flat == [manager |-> [e \in Employees |-> None], holds |-> {},
         dept |-> [e \in Employees |-> None], leads |-> [e \in Employees |-> {}],
         active |-> Employees]

ChangeManager(e, m) == org' = [org EXCEPT !.manager[e] = m]
ChangeHolder(e) ==
  org' = [org EXCEPT !.holds = IF <<e, leadRole>> \in @ THEN @ \ {<<e, leadRole>>}
                               ELSE @ \cup {<<e, leadRole>>}]

\* Activations overlap one another; an edit of steps overlaps nothing.
OnlyActivationsOverlap ==
  \A v, w \in Workers : (v # w /\ txn[v] # Idle /\ txn[w] # Idle) => txn[v].op = "activate"

MCInit == ConfigInit /\ org = Flat
MCNext ==
  \/ org = Flat /\ ConfigNext /\ OnlyActivationsOverlap' /\ UNCHANGED org
  \/ /\ ConfigInit
     /\ \/ \E e \in Employees, m \in Employees \cup {None} : ChangeManager(e, m)
        \/ \E e \in Employees : ChangeHolder(e)
     /\ UNCHANGED <<workflows, txn>>
MCSpec == MCInit /\ [][MCNext]_<<workflows, txn, org>>

\* resolve_approver_for_step, reporting hierarchy: the walk stops at the nearest
\* manager with the role on every chart, charts with cycles included, never passes the
\* requester, and falls back to the direct manager.
NearestManagerFound == NearestManager(org)
=============================================================================
