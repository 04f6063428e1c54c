\* A stop that arrives during the first deploy.
SPECIFICATION SafetySpec
CONSTANTS
  p1 = p1
  p2 = p2
  c1 = c1
  c2 = c2
  plain = plain
  withSecret = withSecret
  unrendered = unrendered
  refused = refused
  v1 = v1
  v2 = v2
  None = None
  Pipelines = {p1}
  Clusters = {c1}
  Ordinals = {0}
  Refs = {c1}
  Configs = {plain}
  BadRender = {}
  Rejected = {}
  NeedsSecret = {}
  SecretValues = {}
  Faults = {"undo"}
  MaxFaults = 0
  MaxEdits = 2
  EditRaces = TRUE
INVARIANTS
  StoppedHasNoStream
CHECK_DEADLOCK FALSE
