SPECIFICATION FairSpec
CONSTANTS
  Msg = {m1}
  Session = {s1}
  Batch = {b1}
  Request = {q1}
  Times = {"ahead"}
  MaxCopies = 1
  MaxStarts = 1
PROPERTIES
  SendingMovesOn
CHECK_DEADLOCK FALSE
