CONSTANTS
  User = {u1, u2}
  MaxChan = 1
  Environment <- MCEnvironment
SPECIFICATION ProxyFairSpec
INVARIANTS ProxyTypeOK TrailWellFormed NoTargetLeak ShutdownDrained ClosedAfterUse
PROPERTIES Exits GoneUsersReleased
CHECK_DEADLOCK FALSE
