SPECIFICATION Spec
CONSTANTS
  Calls = {c1, c2}
  Ops = {"register", "login", "verify", "serverLogin"}
  Emails = {e1, e2}
  UserNames = {n1}
  Passwords = {p1, p2}
  AccessTTL = 1
  RefreshTTL = 2
  CalendarShift <- SteadyClock
  MaxTime = 0
  MaxCalls = 4
  MaxFaults = 1
CHECK_DEADLOCK FALSE
SYMMETRY Symmetry
INVARIANTS TypeOK ProfileNotShared AcceptedIdentity
PROPERTIES DuplicateNeedsOverlap OrphanOnlyByFault
