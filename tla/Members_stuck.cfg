\* A project starts, once, and nobody edits it: its member stays refused.
SPECIFICATION Spec
CONSTANTS
  Caches = {"seen", "other"}
  Managed = {}
  Needed = "seen"
  MaxEdits = 0
  MaxRestarts = 0
PROPERTY MemberRuns
CHECK_DEADLOCK FALSE
