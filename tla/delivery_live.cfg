SPECIFICATION FairSpec
CONSTANTS
  Msg = {m1}
  Dlr = {t1}
  Retry = {}
  MaxRetries = 1
  MaxCopies = 2
  MaxCrashes = 1
PROPERTIES
  NeverForgotten
  SubmittedIsResolved
CHECK_DEADLOCK FALSE
