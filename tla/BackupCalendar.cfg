SPECIFICATION Spec
CONSTANTS
  Dates <- MCDates
INVARIANTS
  TypeOK
  BackupIsRecent
PROPERTIES
  BackupIsKept
\* A program whose config.yaml was cut cannot be started any more.
CHECK_DEADLOCK FALSE
