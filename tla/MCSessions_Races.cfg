SPECIFICATION SessionsSpec
CONSTANTS
  e1 = e1
  j1 = j1
  j2 = j2
  x1 = x1
  x2 = x2
  t1 = t1
  t2 = t2
  w1 = w1
  w2 = w2
  None = None
  Employees = {e1}
  Tasks = {t1, t2}
  Workers = {w1, w2}
  MaxSessions = 2
  MaxBreaks = 2
  MaxMinutes = 2
  MaxTime = 0
  DayLength = 2
  IstOffset = 1
  AutoCloseAfter = 0
  Environment = {"abort", "slow", "autoClose"}
  Assigned <- AllAssigned
  Secrets = {1, 2}
  AttemptLimit = 2
  LockTime = 2
  AccessTime = 1
  RefreshTime = 2
  SignTime = 3
  SignModes <- MCSignModes
SYMMETRY Symmetric
CHECK_DEADLOCK FALSE
INVARIANTS
  StopTimeMatchesStatus
  LockedRowsCurrent
PROPERTIES
  OnlyOverlapDoubles
  ScheduleSound
  SignInSound
