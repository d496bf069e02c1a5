\* One write that fails is enough for the documented format to be lost.
CONSTANTS
  Process = {p1, p2}
  Value = {v1, v2}
  MaxLines = 2
  MaxFaults = 1
SPECIFICATION Spec
INVARIANTS
  OneRecordPerAppend
