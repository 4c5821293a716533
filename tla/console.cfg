CONSTANTS
  Threads = {t1, t2}
  MaxRetries = 1
  MaxExpiries = 1
  MaxFaults = 2
SPECIFICATION Spec
INVARIANTS OncePerCall AnswerTells RowTells TaskSettles
CHECK_DEADLOCK FALSE
