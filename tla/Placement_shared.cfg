\* Two pipelines share a two-instance cluster and one worker; an instance fails.
SPECIFICATION Spec
CONSTANTS
  p1 = p1
  p2 = p2
  c1 = c1
  c2 = c2
  plain = plain
  withSecret = withSecret
  unrendered = unrendered
  refused = refused
  v1 = v1
  v2 = v2
  None = None
  Pipelines = {p1, p2}
  Clusters = {c1}
  Ordinals = {0, 1}
  Refs = {c1}
  Configs = {plain}
  BadRender = {}
  Rejected = {}
  NeedsSecret = {}
  SecretValues = {}
  Faults = {"undo", "down", "cut", "drop", "stall"}
  MaxFaults = 1
  MaxEdits = 3
  EditRaces = FALSE
INVARIANTS
  NoStrayStreams
PROPERTIES
  Converges
CHECK_DEADLOCK FALSE
