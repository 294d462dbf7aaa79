SPECIFICATION Spec
CONSTANTS
  emp = emp
  lead = lead
  head = head
  staffRole = staffRole
  leadRole = leadRole
  headRole = headRole
  dep = dep
  leave = leave
  sheet = sheet
  None = None
  Employees = {emp, lead, head}
  Roles = {staffRole, leadRole, headRole}
  Departments = {dep}
  Workers = {w1, w2}
  WorkflowIds = {f1}
  ModuleTypes = {leave}
  StepLists <- MCThreeLevels
  Targets = {t1}
  Requester <- MCRequester
  ModuleOf <- MCModuleOf
  AliasOf <- MCAliasOf
  Charts <- MCPlainCharts
  MaxLevels = 4
  Environment = {}
INVARIANTS
  ApprovedComplete
CHECK_DEADLOCK FALSE
