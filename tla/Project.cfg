\* One instance, one pipeline at the end of a route, two writes or faults.
SPECIFICATION Spec
CONSTANTS
  Specs <- KeepOrDrop
  Created <- DropAll
  Roles = {"from"}
  Ends <- RouteEnds
  MaxInstances = 1
  MaxEvents = 2
INVARIANTS
  TypeOK
  QuietMeansProvisioned
  FinalizerFirst
PROPERTIES
  DataKept
  Settles
CHECK_DEADLOCK FALSE
