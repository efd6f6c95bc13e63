SPECIFICATION FairSpec
CONSTANTS
  BatchSize = 3
  Readers = {r1, r2}
  Closers = {k1, k2}
  MaxDatagrams = 6
  MaxReads = 7
  ReadErrors = TRUE
INVARIANTS TypeOK DataBufferOwned
PROPERTIES ImplementsRawReader ReleasedBuffersUntouched CloseReturns
