SPECIFICATION Spec
CONSTANTS
  Calls = {c1, c2}
  Accounts = {a1, a2}
  People = {p1, p2}
  Labels = {"UNREAD"}
  MaxRequests = 3
  MaxFaults = 1
CHECK_DEADLOCK FALSE
SYMMETRY Symmetry
INVARIANTS TypeOK
PROPERTIES ActsOnOwnAccount RemovesOnlyTheAttendee RefusedOnlyIfDeleted
