\* Two processes, two payloads, three lines; processes die, the power fails, and
\* two writes or syncs may fail.
CONSTANTS
  Process = {p1, p2}
  Value = {v1, v2}
  MaxLines = 3
  MaxFaults = 2
SPECIFICATION Spec
INVARIANTS
  AckedDurable
  HandleAgrees
  AckedBytesOnDisk
PROPERTIES
  DurablePrefixKept
  ImplementsLog
