SPECIFICATION Spec
CONSTANTS
  Addrs = {a1, a2}
  Acceptors = {p1}
  CfgBacklog = 1
  DefaultBacklog = 2
  ViaListen = TRUE
  ReceiveBacklog = 1
  MaxPackets = 2
  Readers = {}
  Writers = {}
  Closers = {1, 2}
  ReadErrors = FALSE
  Deadlines = {}
INVARIANTS ReadLoopOutlivesConns
