CONSTANTS
  Callers = {c1, c2, c3}
  Hosts = {h}
  maxRequests = 2
  window = 3
  Preemption = FALSE
  MaxTime = 6
SPECIFICATION RateSpec
INVARIANT MaxPerWindow
