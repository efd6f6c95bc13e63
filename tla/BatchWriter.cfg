SPECIFICATION FairSpec
CONSTANTS
  BatchSize = 3
  Closers = {k1, k2}
  MaxWrites = 7
INVARIANTS TypeOK
PROPERTIES ReleasedBuffersUntouched WorkerEnds
