CONSTANTS
  Stream = {s1, s2, s3}
  InitialBackoff = 1
  MaxBackoff = 5
  MaxWaits = 3
SPECIFICATION FairSpec
INVARIANTS BackoffSchedule NothingOutlivesHandle
PROPERTIES Reconnects Stops
