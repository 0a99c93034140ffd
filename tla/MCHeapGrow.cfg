CONSTANTS
  c1 = c1
  c2 = c2
  c3 = c3
  NoBlock = NoBlock
  Clients <- MCClients
  Sizes = {1, 13}
  PageSize = 12
  ListSz = 1
  MapSz = 1
  NodeSz = 1
  MaxPages = 3
SPECIFICATION Spec
SYMMETRY Symmetry
INVARIANT LiveBlocksAreSafe
