SPECIFICATION Spec
CONSTANTS
  Addrs = {a1}
  Acceptors = {p1}
  CfgBacklog = 0
  DefaultBacklog = 2
  ViaListen = FALSE
  ReceiveBacklog = 1
  MaxPackets = 2
  Readers = {}
  Writers = {}
  Closers = {1, 2}
  ReadErrors = FALSE
  Deadlines = {}
INVARIANTS NoPanic
