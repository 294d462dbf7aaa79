SPECIFICATION MCSpec
CONSTANTS
  staffRole = staffRole
  leadRole = leadRole
  headRole = headRole
  None = None
  Employees = {}
  Departments = {}
  Roles = {staffRole, leadRole, headRole}
  Workers = {w1}
  WorkflowIds = {f1, f2, f3}
  ModuleTypes = {leave, sheet}
  StepLists <- MCStepLists
PROPERTIES
  ActivationActivates
