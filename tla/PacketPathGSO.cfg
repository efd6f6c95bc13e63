SPECIFICATION Spec
CONSTANTS
  Hosts <- MCHosts
  PConns <- MCPConns
  Desired = 3
  MaxSize = 4
  Lens = {3}
  GsoSizes = {0, 2}
  OobLens = {4}
  Uint16 = 4
  MaxWrites = 1
INVARIANT GSOHonoured
