SPECIFICATION FairSpec
CONSTANTS
  Calls = {c1, c2}
  Browsers = {b1}
  Users = {u1, u2}
  Tweeter = u1
  MaxRequests = 4
  MaxFaults = 1
CHECK_DEADLOCK FALSE
INVARIANTS TypeOK ConnectsWhoAsked LastLinkWins TwitterSecretKept ConnectedKeepsOnlyId
PROPERTIES EveryRequestAnswered
