SPECIFICATION Spec
CONSTANTS
  e1 = e1
  t1 = t1
  t2 = t2
  w1 = w1
  w2 = w2
  None = None
  Employees = {e1}
  Tasks = {t1, t2}
  Workers = {w1}
  MaxSessions = 2
  MaxBreaks = 1
  MaxMinutes = 2
  MaxTime = 0
  DayLength = 2
  IstOffset = 1
  AutoCloseAfter = 1
  Environment = {}
  Assigned <- AllAssigned
CHECK_DEADLOCK FALSE
INVARIANTS
  OneRunning
