SPECIFICATION Spec
CONSTANTS
  Sockets = {s1, s2, s3}
  MaxAdaptors = 2
  MaxSends = 1
CHECK_DEADLOCK FALSE
SYMMETRY Symmetry
INVARIANTS TypeOK ReachesOnlyAddressed AnsweredMeansReceived
PROPERTY OneIdPerConnection
