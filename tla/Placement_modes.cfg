\* One pipeline moved between two clusters and a pod, stopped and deleted, with edits at any moment.
SPECIFICATION SafetySpec
CONSTANTS
  p1 = p1
  p2 = p2
  c1 = c1
  c2 = c2
  plain = plain
  withSecret = withSecret
  unrendered = unrendered
  refused = refused
  v1 = v1
  v2 = v2
  None = None
  Pipelines = {p1}
  Clusters = {c1, c2}
  Ordinals = {0}
  Refs = {c1, c2, None}
  Configs = {plain, unrendered}
  BadRender = {unrendered}
  Rejected = {}
  NeedsSecret = {}
  SecretValues = {}
  Faults = {"undo", "crash", "timeout", "down", "cluster", "pod"}
  MaxFaults = 1
  MaxEdits = 3
  EditRaces = TRUE
INVARIANTS
  TypeOK
  OneRunMode
  StatusMatchesObservedSpec
  HealthyStreamUntouched
  QuietMeansSettled
PROPERTIES
  CleanRelease
  PlacementIsLease
SYMMETRY ClusterSymmetry
CHECK_DEADLOCK FALSE
