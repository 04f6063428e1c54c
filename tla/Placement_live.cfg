\* One pipeline, any recoverable disturbance: it converges with the current config, stops and is deleted.
SPECIFICATION Spec
CONSTANTS
  p1 = p1
  p2 = p2
  c1 = c1
  c2 = c2
  plain = plain
  withSecret = withSecret
  unrendered = unrendered
  refused = refused
  v1 = v1
  v2 = v2
  None = None
  Pipelines = {p1}
  Clusters = {c1, c2}
  Ordinals = {0}
  Refs = {c1, c2, None}
  Configs = {refused, withSecret}
  BadRender = {}
  Rejected = {refused}
  NeedsSecret = {withSecret}
  SecretValues = {v1, v2}
  Faults = {"crash", "timeout", "down", "cut", "flap", "drop", "stall", "secret"}
  MaxFaults = 1
  MaxEdits = 2
  EditRaces = TRUE
PROPERTIES
  Converges
  DeletionCompletes
  StopCompletes
  ConfigReachesStream
CHECK_DEADLOCK FALSE
