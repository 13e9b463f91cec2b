SPECIFICATION Spec
CONSTANTS
  Calls = {c1, c2}
  Accounts = {a1, a2}
  Emails = {e1, e2}
  Endpoints = {"findAll", "personal", "patch"}
  Bodies <- OneBody
  MaxTime = 1
  MaxRequests = 2
  MaxFaults = 1
CHECK_DEADLOCK FALSE
SYMMETRY Symmetry
INVARIANTS TypeOK AuthorisedActor
