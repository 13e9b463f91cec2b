SPECIFICATION FairSpec
CONSTANTS
  Calls = {c1, c2}
  Ops = {"register", "login", "refresh", "verify", "serverLogin"}
  Emails = {e1}
  UserNames = {n1}
  Passwords = {p1}
  AccessTTL = 1
  RefreshTTL = 2
  CalendarShift <- ChangingClock
  MaxTime = 1
  MaxCalls = 3
  MaxFaults = 1
CHECK_DEADLOCK FALSE
INVARIANTS
  SessionHasOneAccount TokensNameAccounts AnsweredTokensStored RefreshRefusedOnlyIfExpired
PROPERTIES ImplementsDirectory EveryCallAnswered
