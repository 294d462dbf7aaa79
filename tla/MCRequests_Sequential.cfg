SPECIFICATION MCSpec
CONSTANTS
  emp = emp
  lead = lead
  head = head
  staffRole = staffRole
  leadRole = leadRole
  headRole = headRole
  annual = annual
  sick = sick
  t1 = t1
  t2 = t2
  s1 = s1
  s2 = s2
  c1 = c1
  c2 = c2
  None = None
  Employees = {emp, lead, head}
  Roles = {staffRole, leadRole, headRole}
  Departments = {}
  Workers = {w1}
  WorkflowIds = {f1}
  ModuleTypes = {leave}
  StepLists <- MCStepLists
  Targets = {t1, t2, t3}
  Requester <- MCRequester
  ModuleOf <- MCModuleOf
  AliasOf <- MCAliasOf
  Charts <- MCCharts
  LeaveTypes = {annual, sick}
  Days = {1, 2, 3, 4}
  WorkingDays = {1, 2, 4}
  Applications <- MCAnyDays
  Entitlement <- MCEntitlement
  DecidedBy <- OneWayEach
  Environment = {"abort", "cancel", "days"}
SYMMETRY OthersSymmetric
CHECK_DEADLOCK FALSE
INVARIANTS
  LeaveSound
  UsedLagsOne
PROPERTIES
  OnlyPendingDecided
  SheetSound
  RecordsSound
