\* An archive of two events, one file they may refer to; one process may be
\* killed and one rename or file may fail.
SPECIFICATION Spec
CONSTANTS
  Companion = {c1}
  Plain = Plain
  Absent = Absent
  Bare = Bare
  ReplacesBare = FALSE
  MaxEvents = 2
  MaxRestores = 1
  MaxFaults = 1
  MaxKills = 1
INVARIANTS
  NothingDestroyed
  BackupIsSelfContained
PROPERTIES
  ReportIsTrue
CHECK_DEADLOCK FALSE
