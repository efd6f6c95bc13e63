SPECIFICATION ClosingSpec
CONSTANTS
  Addrs = {a1}
  Acceptors = {p1}
  CfgBacklog = 1
  DefaultBacklog = 2
  ViaListen = TRUE
  ReceiveBacklog = 1
  MaxPackets = 2
  Readers = {1}
  Writers = {}
  Closers = {1, 2}
  ReadErrors = FALSE
  Deadlines = {"accept", "read"}
PROPERTIES ListenerCloseReturns ConnCloseReturns AcceptUnblocked ReadReleased
