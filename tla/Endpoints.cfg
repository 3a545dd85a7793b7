SPECIFICATION EndpointsSpec
CONSTANTS
  Hosts = {h1, h2}
  Grids = {0, 1}
  Adapters = {a1, a2, a3}
  None = None
  N = 2
  TryInterval = 2
  CheckInterval = 2
  TransInterval = 0
  FailFrequency = 1
  FailInterval = 0
  MinTimeouts = 1
  Radio = 90
  MaxOut = 1
  MaxTotal = 1
SYMMETRY Symmetry
INVARIANTS
  EndpointsAreKnown
  OnlyMovedStay
PROPERTIES
  RetriesAreSpaced
