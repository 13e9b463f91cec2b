SPECIFICATION FairSpec
CONSTANTS
  Calls = {c1, c2}
  Accounts = {a1}
  Emails = {e1}
  Endpoints = {"findAll", "patch"}
  Bodies <- TwoBodies
  MaxTime = 0
  MaxRequests = 3
  MaxFaults = 1
CHECK_DEADLOCK FALSE
INVARIANTS TornOnlyByOverlap
PROPERTIES UndoesOnlyOverlapping EveryRequestAnswered
