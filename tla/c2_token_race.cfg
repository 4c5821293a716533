CONSTANTS
  Threads = {t1, t2}
  MaxRetries = 2
  MaxExpiries = 1
  MaxFaults = 1
SPECIFICATION ClientSpec
INVARIANT SharedTokenIsFine
CHECK_DEADLOCK FALSE
