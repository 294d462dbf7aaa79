SPECIFICATION Spec
CONSTANTS
  e1 = e1
  t1 = t1
  t2 = t2
  w1 = w1
  w2 = w2
  None = None
  Employees = {e1}
  Tasks = {t1, t2}
  Workers = {w1}
  MaxSessions = 2
  MaxBreaks = 1
  MaxMinutes = 2
  MaxTime = 1
  DayLength = 2
  IstOffset = 1
  AutoCloseAfter = 0
  Environment = {"timesheet", "rollback", "autoClose"}
  Assigned <- AllAssigned
SYMMETRY TaskSymmetry
CHECK_DEADLOCK FALSE
INVARIANTS
  TypeOK
  SessionsInPlace
  WorkBooked
PROPERTIES
  OnlyBreakEndDoubles
  HistoryKept
