SPECIFICATION Spec
CONSTANTS
  Calls = {c1, c2}
  Folders = {"docs"}
  Files = {f1}
  MaxRequests = 3
  MaxFaults = 1
CHECK_DEADLOCK FALSE
SYMMETRY Symmetry
INVARIANTS TypeOK UploadsAreFound
PROPERTIES LosesOnlyOverlapped MovedMeansMoved ErrorNeedsCause
