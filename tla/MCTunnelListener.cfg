CONSTANTS
  a = a
  b = b
  Session = {s1, s2}
  Host = {a, b}
  Blank = Blank
  None = None
  Dial = {d1}
  Target <- MCTarget
  HostLists = {}
  Cert <- MCCert
SPECIFICATION FairListenerSpec
INVARIANTS ListenerTypeOK ServingOwnsItsHosts EntriesHaveHandlers RoutedByCertificate
PROPERTIES ShutdownCompletes DeadEntriesRemoved
CHECK_DEADLOCK FALSE
