CONSTANTS
  a = a
  b = b
  Session = {s1, s2, s3}
  Host = {a, b}
  Blank = Blank
  None = None
  Dial = {d1}
  Target <- MCTarget
  HostLists <- MCHostLists
SPECIFICATION FairSpec
INVARIANTS TypeOK OpenLinearizable ClosedIsEmpty
PROPERTIES ImplementsDirectory CloseForgetsNone CloseReachesAll
CHECK_DEADLOCK FALSE
