SPECIFICATION Spec
CONSTANTS
  Msg = {m1}
  Session = {s1}
  Batch = {b1}
  Request = {}
  Times = {"none", "ahead"}
  MaxCopies = 1
  MaxStarts = 1
SYMMETRY Symmetric
INVARIANTS
  SentAfterBroadcast
CHECK_DEADLOCK FALSE
