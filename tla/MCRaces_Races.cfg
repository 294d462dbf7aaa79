SPECIFICATION RacesSpec
CONSTANTS
  emp = emp
  lead = lead
  head = head
  staffRole = staffRole
  leadRole = leadRole
  headRole = headRole
  dep = dep
  leave = leave
  sheet = sheet
  None = None
  p1 = p1
  p2 = p2
  p3 = p3
  c1 = c1
  c2 = c2
  y1 = y1
  s1 = s1
  s2 = s2
  s3 = s3
  unset = unset
  LeavingEmployees = {p1, p2, p3}
  LeavingProjects = {j1}
  LeavingTasks = {t1}
  DeskEmployees = {p1, p2}
  DeskAdmins = {p2}
  DeskCategories = {c1, c2}
  DeskTypes = {y1}
  DeskPriorities = {p3}
  DeskStatuses = {s1, s2, s3}
  DeskNames = {"Open", "Closed", "In Progress"}
  DeskModes <- MCDeskModes
  Employees = {emp, lead, head}
  Roles = {staffRole, leadRole, headRole}
  Departments = {dep}
  Workers = {w1, w2}
  WorkflowIds = {f1}
  ModuleTypes = {leave}
  StepLists <- MCThreeLevels
  Targets = {t1}
  Requester <- MCRequester
  ModuleOf <- MCModuleOf
  AliasOf <- MCAliasOf
  Charts <- MCPlainCharts
  MaxLevels = 4
  Environment = {"abort", "grant"}
CHECK_DEADLOCK FALSE
INVARIANTS
  NeverStuck
  TicketsSound
PROPERTIES
  ReportingSound
  HandedOver
  ChoicesSound
