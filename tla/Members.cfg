\* A project starts; users add and remove cache resources; the instance restarts.
SPECIFICATION Spec
CONSTANTS
  Caches = {"seen", "other"}
  Managed = {"seen"}
  Needed = "seen"
  MaxEdits = 4
  MaxRestarts = 2
INVARIANTS
  QuietMemberServed
PROPERTY MemberRunsUnlessLate
CHECK_DEADLOCK FALSE
