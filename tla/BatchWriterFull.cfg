SPECIFICATION Spec
CONSTANTS
  BatchSize = 2
  Closers = {k1, k2}
  MaxWrites = 3
INVARIANTS FullQueueIsFlushed
