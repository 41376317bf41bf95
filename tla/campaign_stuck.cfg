SPECIFICATION Spec
CONSTANTS
  Msg = {m1}
  Session = {}
  Batch = {b1}
  Request = {}
  Times = {"none", "ahead"}
  MaxCopies = 1
  MaxStarts = 1
SYMMETRY Symmetric
INVARIANTS
  SettlesInTheEnd
CHECK_DEADLOCK FALSE
