CONSTANTS
  Channel = {c1, c2}
  Kind = {"session"}
  Request = {"pty-req"}
  Conf <- AllPermitted
  MaxSent = 1
SPECIFICATION Spec
SYMMETRY MCSymmetry
INVARIANT EveryPTYRecorded
CHECK_DEADLOCK FALSE
