--------------------------- MODULE ApprovalWorkflows ---------------------------
(***************************************************************************)
(* The configuration side of approval_service.py: workflows, their steps   *)
(* and which of them is active. Administrators' requests overlap: each is  *)
(* a Read step, with its checks, and a Write step that commits. Workflow   *)
(* versions and strategies are left out; nothing reads them again.         *)
(*                                                                         *)
(* An operator with a suffix after an underscore is what a plausible slip  *)
(* would make of the one without it; only mutation runs put it in.         *)
(***************************************************************************)
EXTENDS ApproverResolution, Sequences

CONSTANTS
  Workers,          \* threads that can be serving a request
  WorkflowIds,
  ModuleTypes,      \* values of module_type
  StepLists         \* lists of steps an administrator may send

ASSUME ConfigAssumption ==
  StepLists \subseteq Seq([role : Roles, level : Nat, approver : Roles, scope : Scopes])

VARIABLES
  workflows,        \* approval_workflows with their steps
  txn               \* what each worker's request holds in memory

\* One row of approval_workflow_steps; `made' tells apart the rows of two requests.
Step == [role : Roles, level : Nat \ {0}, approver : Roles, scope : Scopes, made : Workers \cup {None}]

Workflow == [module : ModuleTypes \cup {None}, active : BOOLEAN, steps : SUBSET Step]
NoWorkflow == [module |-> None, active |-> FALSE, steps |-> {}]

Idle == [op |-> "idle"]
Editing == [op : {"steps"}, workflow : WorkflowIds, seen : SUBSET Step]
           \cup [op : {"activate"}, workflow : WorkflowIds, wasActive : BOOLEAN]

StartRequest(w, r) == txn[w] = Idle /\ txn' = [txn EXCEPT ![w] = r]
EndRequest(w) == txn' = [txn EXCEPT ![w] = Idle]

Exists(f) == workflows[f].module # None

-----------------------------------------------------------------------------
Normalised_zeroBased(list, w) ==
  {[role |-> list[i].role,
    level |-> Cardinality({j \in DOMAIN list : list[j].role = list[i].role /\ list[j].level < list[i].level}),
    approver |-> list[i].approver, scope |-> list[i].scope, made |-> w] : i \in DOMAIN list}

\* Levels are renumbered 1, 2, ... for each requester role in the order of the levels
\* sent; Python's sort is stable.
Normalised(list, w) ==
  LET Before(j, i) == /\ list[j].role = list[i].role
                      /\ list[j].level < list[i].level \/ (list[j].level = list[i].level /\ j <= i)
  IN  {[role |-> list[i].role, level |-> Cardinality({j \in DOMAIN list : Before(j, i)}),
        approver |-> list[i].approver, scope |-> list[i].scope, made |-> w] : i \in DOMAIN list}

\* create_workflow
CreateWorkflow(w, f, m) ==
  /\ txn[w] = Idle
  /\ ~ Exists(f)
  /\ workflows' = [workflows EXCEPT ![f] = [NoWorkflow EXCEPT !.module = m]]
  /\ UNCHANGED txn

StepsRead_unchecked(w, f) ==
  /\ Exists(f)
  /\ StartRequest(w, [op |-> "steps", workflow |-> f, seen |-> workflows[f].steps])
  /\ UNCHANGED workflows

\* set_workflow_steps: refused on an active workflow.
StepsRead(w, f) ==
  /\ Exists(f) /\ ~ workflows[f].active
  /\ StartRequest(w, [op |-> "steps", workflow |-> f, seen |-> workflows[f].steps])
  /\ UNCHANGED workflows

\* It deletes the steps it loaded and inserts the new ones.
StepsWrite(w) ==
  /\ txn[w].op = "steps"
  /\ \E list \in StepLists :
       workflows' = [workflows EXCEPT ![txn[w].workflow].steps =
                       (@ \ txn[w].seen) \cup Normalised(list, w)]
  /\ EndRequest(w)

\* For each requester role the levels are 1, 2, ... without gap or repetition.
Contiguous(steps) ==
  \A r \in Roles : LET mine == {s \in steps : s.role = r} IN
                   {s.level : s \in mine} = 1..Cardinality(mine)

\* activate_workflow
ActivateRead(w, f) ==
  /\ Exists(f) /\ workflows[f].steps # {} /\ Contiguous(workflows[f].steps)
  /\ StartRequest(w, [op |-> "activate", workflow |-> f, wasActive |-> workflows[f].active])
  /\ UNCHANGED workflows

ActivateWrite_keepsOthers(w) ==
  /\ txn[w].op = "activate"
  /\ workflows' = [workflows EXCEPT ![txn[w].workflow].active = TRUE]
  /\ EndRequest(w)

\* The bulk UPDATE clears is_active on every workflow of the module type, this one
\* included. The assignment that follows is flushed only if it changes the value
\* that was loaded.
ActivateWrite(w) ==
  /\ txn[w].op = "activate"
  /\ LET f == txn[w].workflow IN
     workflows' = [g \in WorkflowIds |->
                     IF workflows[g].module # workflows[f].module THEN workflows[g]
                     ELSE [workflows[g] EXCEPT !.active = (g = f /\ ~ txn[w].wasActive)]]
  /\ EndRequest(w)

Configure(w) ==
  \/ \E f \in WorkflowIds : \/ \E m \in ModuleTypes : CreateWorkflow(w, f, m)
                            \/ StepsRead(w, f) \/ ActivateRead(w, f)
  \/ StepsWrite(w) \/ ActivateWrite(w)

\* The process dies or the connection does: nothing uncommitted survives.
AbortRequest(w) ==
  /\ txn[w] # Idle
  /\ EndRequest(w)
  /\ UNCHANGED workflows

ConfigInit ==
  /\ workflows = [f \in WorkflowIds |-> NoWorkflow]
  /\ txn = [w \in Workers |-> Idle]

ConfigNext == \E w \in Workers : Configure(w) \/ AbortRequest(w)

ConfigSpec == ConfigInit /\ [][ConfigNext]_<<workflows, txn>>

-----------------------------------------------------------------------------
\* Workflow rows and requests in memory have the shape of their columns and fields.
ConfigTypeOK ==
  /\ workflows \in [WorkflowIds -> Workflow]
  /\ txn \in [Workers -> Editing \cup {Idle}]

\* However activations overlap, no module type is left with two active workflows: a
\* submission would pick either of them.
OneActivePerModule ==
  \A f, g \in WorkflowIds :
    (/\ workflows[f].active /\ workflows[g].active
     /\ workflows[f].module = workflows[g].module) => f = g

\* While no edit of steps overlaps another request, an active workflow has steps, with
\* levels 1, 2, ... for every role: a submission never meets a gap, nor approves itself
\* for want of steps that were configured.
ActiveWellFormed ==
  \A f \in WorkflowIds :
    workflows[f].active => workflows[f].steps # {} /\ Contiguous(workflows[f].steps)

\* "Cannot modify steps on an active workflow."
ActiveStepsFrozen ==
  [][\A f \in WorkflowIds : workflows[f].active => workflows'[f].steps = workflows[f].steps]_workflows

\* "Activate this workflow and deactivate others of the same module type": the
\* workflow is active when its activation has committed.
ActivationActivates ==
  [][\A w \in Workers : (txn[w].op = "activate" /\ workflows' # workflows /\ txn'[w] = Idle)
                        => workflows'[txn[w].workflow].active]_<<workflows, txn>>
=============================================================================
