CONSTANTS
  Channel = {c1}
  Kind = {"session", "direct-tcpip"}
  Request = {"pty-req", "window-change", "sftp"}
  Conf <- SomePermitted
  MaxSent = 3
SPECIFICATION FairSpec
INVARIANTS TypeOK OutputBeforeClose RecordingFaithful PortForwardAccounted
PROPERTY PipeEnds
CHECK_DEADLOCK FALSE
