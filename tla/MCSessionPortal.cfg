CONSTANTS
  s1 = s1
  s2 = s2
  d1 = d1
  d2 = d2
  None = None
  Cast <- MCCast
  Foreign <- MCForeign
  Setting <- MCSetting
  MaxSessions = 2
  MaxEvents = 2
  MaxDay = 2
  MaxNoise = 1
  MaxRestart = 1
SPECIFICATION Spec
INVARIANTS TypeOK ReplayIsFinal  ListKeepsLatest AuditShowsNewest
CHECK_DEADLOCK FALSE
