SPECIFICATION Spec
CONSTANTS
  Hosts <- MCHosts
  PConns <- MCPConns
  Desired = 3
  MaxSize = 4
  Lens = {3}
  GsoSizes = {0, 2, 4}
  OobLens = {0, 1, 2, 3, 4}
  Uint16 = 4
  MaxWrites = 1
INVARIANTS TypeOK BufferVerdictExact DialedSizeKept CapabilitiesHonest ReadTruthful MarkArrives SegmentsHonoured OnlyInvalidWritesFatal
