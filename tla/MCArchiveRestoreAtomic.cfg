\* The restore is killed between its two renames.
SPECIFICATION Spec
CONSTANTS
  Companion = {}
  Plain = Plain
  Absent = Absent
  Bare = Bare
  ReplacesBare = TRUE
  MaxEvents = 1
  MaxRestores = 1
  MaxFaults = 0
  MaxKills = 1
PROPERTIES
  InstallIsAtomic
CHECK_DEADLOCK FALSE
