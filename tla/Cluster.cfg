\* One instance, no PodMonitor CRD, two writes or faults.
SPECIFICATION Spec
CONSTANTS
  Specs <- RolloutSpecs
  Monitoring = FALSE
  MaxInstances = 1
  MaxEvents = 2
INVARIANTS
  TypeOK
  QuietMeansApplied
PROPERTIES
  Settles
CHECK_DEADLOCK FALSE
