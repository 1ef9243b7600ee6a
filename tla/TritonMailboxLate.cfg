SPECIFICATION Spec
CONSTANTS
  Threads = {t1}
  MaxWrites = 2
  MaxSends = 0
INVARIANTS
  SuccessIsOwn
CHECK_DEADLOCK FALSE
