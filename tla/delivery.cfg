SPECIFICATION Spec
CONSTANTS
  Msg = {m1}
  Dlr = {t1}
  Retry = {q1}
  MaxRetries = 1
  MaxCopies = 2
  MaxCrashes = 1
INVARIANTS
  TypeOK
  ResentForCause
  HeldWhileProcessing
CHECK_DEADLOCK FALSE
