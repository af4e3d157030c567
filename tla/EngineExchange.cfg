SPECIFICATION Spec
CONSTANTS
  Threads = {t1, t2}
  MaxRequests = 4
  MaxInterrupts = 1
CHECK_DEADLOCK FALSE
INVARIANTS
  AnswersBelong
  EditsApplyOnce
  EndIsOrderly
PROPERTY CallsReturn
