SPECIFICATION Spec
CONSTANTS
  emp = emp
  lead = lead
  head = head
  staffRole = staffRole
  leadRole = leadRole
  headRole = headRole
  annual = annual
  sick = sick
  t1 = t1
  t2 = t2
  None = None
  Employees = {emp, lead, head}
  Roles = {staffRole, leadRole, headRole}
  Departments = {}
  Workers = {w1}
  WorkflowIds = {f1}
  ModuleTypes = {leave}
  StepLists <- MCStepLists
  Targets = {t1, t2}
  Requester <- MCRequester
  ModuleOf <- MCModuleOf
  AliasOf <- MCAliasOf
  Charts <- MCCharts
  LeaveTypes = {annual}
  Days = {1, 2, 3, 4}
  WorkingDays = {1, 2, 4}
  Applications <- MCWholeDays
  Entitlement <- MCEntitlement
  DecidedBy <- Directly
  Environment = {"cancel"}
INVARIANTS
  UsedIsApproved
CHECK_DEADLOCK FALSE
