SPECIFICATION Spec
CONSTANTS
  Addrs = {a1, a2}
  Acceptors = {p1}
  CfgBacklog = 1
  DefaultBacklog = 2
  ViaListen = TRUE
  ReceiveBacklog = 2
  MaxPackets = 3
  Readers = {1}
  Writers = {}
  Closers = {1, 2}
  ReadErrors = TRUE
  Deadlines = {}
SYMMETRY MCSymmetry
INVARIANTS Demultiplexed BufferExclusive ReleasedReadIsEOF
PROPERTIES ImplementsDemux
