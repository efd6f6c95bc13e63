SPECIFICATION Spec
CONSTANTS
  BatchSize = 2
  Readers = {r1}
  Closers = {k1}
  MaxDatagrams = 4
  MaxReads = 5
  ReadErrors = TRUE
INVARIANTS MessagesUnreturned
