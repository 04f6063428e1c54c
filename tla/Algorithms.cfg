\* Every graph of four pipelines, self-loops included; every ready set and load of four instances.
SPECIFICATION CallSpec
CONSTANTS
  Nodes = {1, 2, 3, 4}
  Ordinals = {0, 1, 2, 3}
  MaxLoad = 2
INVARIANTS
  CycleIsReal
  RejectsCycles
  ReturnsLeastLoaded
CHECK_DEADLOCK FALSE
