SPECIFICATION Spec
CONSTANTS
  Calls = {c1}
  Browsers = {b1}
  Users = {u1}
  Tweeter = u1
  MaxRequests = 3
  MaxFaults = 0
CHECK_DEADLOCK FALSE
PROPERTY ConnectedOnce
