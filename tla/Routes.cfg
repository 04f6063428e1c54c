\* One or two routes over three pipelines, messages of two kinds.
SPECIFICATION Spec
CONSTANTS
  Pipelines <- Members
  Kinds = {"red", "blue"}
  Namespaces <- SmallNamespaces
INVARIANTS
  TypeOK
  DeliveredAsRouted
  NothingLost
  NoLoop
  UserIOReported
CHECK_DEADLOCK FALSE
