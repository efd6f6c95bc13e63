SPECIFICATION Spec
CONSTANTS
  Addrs = {a1, a2}
  Acceptors = {p1, p2}
  CfgBacklog = 1
  DefaultBacklog = 2
  ViaListen = FALSE
  ReceiveBacklog = 1
  MaxPackets = 3
  Readers = {}
  Writers = {1}
  Closers = {1, 2, 3}
  ReadErrors = FALSE
  Deadlines = {}
SYMMETRY MCSymmetry
INVARIANTS TypeOK WaitGroupExact CloseOnlyOnce RoutingTableExact NoConnStranded ListenerWaitIsFinal ConnWaitMissesOnlyLater CloseErrReported NoGoroutineLeak PanicNeedsLateAdd OutlivesUnlessLateAdd WriteHitsOpenSocket
PROPERTIES ConnsDieOnce
