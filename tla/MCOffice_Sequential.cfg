SPECIFICATION OfficeSpec
CONSTANTS
  emp = emp
  lead = lead
  head = head
  staffRole = staffRole
  leadRole = leadRole
  headRole = headRole
  dep = dep
  leave = leave
  sheet = sheet
  None = None
  p1 = p1
  p2 = p2
  t3 = t3
  t4 = t4
  e1 = e1
  e2 = e2
  l1 = l1
  l2 = l2
  l3 = l3
  gone = gone
  WorkEmployees = {e1, e2, e3}
  WorkInactive = {e3}
  WorkTasks = {t3, t4}
  WorkLeaves = {l1, l2, l3}
  WorkLeaveOf <- MCLeaveOf
  WorkWindows <- MCWindows
  WorkDays = {1, 2}
  WorkMaxRows = 3
  WorkModes = {{"assign"}, {"set"}, {"decide"}}
  WorkCancelled = {{l2}, {l3}}
  Employees = {emp, lead, head}
  Roles = {staffRole, leadRole, headRole}
  Departments = {dep}
  Workers = {w1}
  WorkflowIds = {f1}
  ModuleTypes = {leave}
  StepLists <- MCStepLists
  Targets = {t1, t2}
  Requester <- MCRequester
  ModuleOf <- MCModuleOf
  AliasOf <- MCAliasOf
  Charts <- MCCharts
  MaxLevels = 4
  Environment = {"abort", "revoke"}
SYMMETRY Symmetric
CHECK_DEADLOCK FALSE
INVARIANTS
  TypeOK
  DecisionsSound
  ContinuitySound
PROPERTIES
  RejectionFinal
  DecidedOnce
  ProjectsSound
