SPECIFICATION PagesSpec
CONSTANTS
  e1 = e1
  q1 = q1
  q2 = q2
  t1 = t1
  t2 = t2
  w1 = w1
  w2 = w2
  None = None
  Employees = {e1}
  Tasks = {t1, t2}
  Workers = {w1, w2}
  MaxSessions = 2
  MaxBreaks = 0
  MaxMinutes = 2
  MaxTime = 0
  DayLength = 2
  IstOffset = 1
  AutoCloseAfter = 0
  Environment = {"autoClose"}
  Assigned <- OnlyFirstAssigned
CHECK_DEADLOCK FALSE
PROPERTIES
  RequestsFinish
  ClockOutClosesSessions
  PagesSound
