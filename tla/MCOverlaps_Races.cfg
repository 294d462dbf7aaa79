SPECIFICATION OverlapsSpec
CONSTANTS
  emp = emp
  lead = lead
  head = head
  staffRole = staffRole
  leadRole = leadRole
  headRole = headRole
  annual = annual
  sick = sick
  t1 = t1
  t2 = t2
  None = None
  SyncUsers = {finger}
  SyncUserOf <- MCUserOf
  SyncMaxTime = 2
  SyncMaxRuns = 3
  SyncModes <- MCModes
  Employees = {emp, lead, head}
  Roles = {staffRole, leadRole, headRole}
  Departments = {}
  Workers = {w1, w2}
  WorkflowIds = {f1}
  ModuleTypes = {leave}
  StepLists <- MCTwoLevels
  Targets = {t1, t2, t3}
  Requester <- MCRequester
  ModuleOf <- MCModuleOf
  AliasOf <- MCAliasOf
  Charts <- MCCharts
  LeaveTypes = {annual, sick}
  Days = {1, 2, 3, 4}
  WorkingDays = {1, 2, 4}
  Applications <- MCAnyDays
  Entitlement <- MCEntitlement
  DecidedBy <- Directly
  Environment = {"abort", "cancel"}
INVARIANTS
  NeverOverAllocated
  SyncSound
PROPERTIES
  AdmittedOnce
SYMMETRY Symmetric
CHECK_DEADLOCK FALSE
