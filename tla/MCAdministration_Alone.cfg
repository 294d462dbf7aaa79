SPECIFICATION AdminSpec
CONSTANTS
  staffRole = staffRole
  leadRole = leadRole
  headRole = headRole
  None = None
  p1 = p1
  p2 = p2
  p3 = p3
  d1 = d1
  t1 = t1
  t2 = t2
  r1 = r1
  r2 = r2
  r3 = r3
  f1 = f1
  f2 = f2
  admin = admin
  plain = plain
  m1 = m1
  m2 = m2
  m3 = m3
  cal = cal
  title = title
  late = late
  Employees = {e1, e2, e3, e4}
  Departments = {}
  Roles = {staffRole, leadRole, headRole}
  Workers = {w1, w2}
  WorkflowIds = {f1, f2, f3}
  ModuleTypes = {leave, sheet}
  StepLists <- MCStepLists
  ChartEmployees = {p1, p2, p3}
  ChartAccounts = {"ACTIVE", "RESIGNED"}
  ChartModes <- MCChartModes
  PlacedEmployees = {p1, p2}
  Teams = {t1, t2}
  PlacedDepartments = {d1}
  PlaceModes <- MCPlaceModes
  AccessEmployees = {p1, p2}
  AccessRoles = {r1, r2, r3}
  AccessFeatures = {f1, f2}
  AccessDepartments = {d1}
  AccessModes <- MCAccessModes
  RoleCodes = {admin, plain}
  SuperCodes = {admin}
  SystemRoles = {r1, r2}
  FlaggedRoles = {r1}
  SameNamed = {f1}
  GivenScopes = {"NONE", "TEAM"}
  RoleHoldings <- MCHoldings
  StartRoles = {r1, r2}
  SeededRole = r1
  ScopeEntries = {s1}
  LeaveEntries = {l1}
  ReasonEntries = {i1}
  Titles = {t1, t2}
  Features = {f1, cal, title, late}
  LateFeatures = {late}
  CalendarFeatures = {cal}
  TitleFeature = title
  FeatureOf <- MCFeatureOf
  Databases <- MCDatabases
SYMMETRY Symmetric
INVARIANTS
  ConfigTypeOK
  OneActivePerModule
  ActiveWellFormed
  NearestManagerFound
  ChartSound
PROPERTIES
  PlacementSound
  RolesSound
  StartSound
