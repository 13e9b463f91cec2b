SPECIFICATION Spec
CONSTANTS
  Calls = {c1}
  Ops = {"register", "login"}
  Emails = {e1}
  UserNames = {n1}
  Passwords = {p1}
  AccessTTL = 1
  RefreshTTL = 1
  CalendarShift <- SteadyClock
  MaxTime = 0
  MaxCalls = 2
  MaxFaults = 0
CHECK_DEADLOCK FALSE
PROPERTY LoginRevokesOldTokens
