CONSTANTS
  Callers = {c1, c2, c3}
  Hosts = {h}
  maxRequests = 2
  window = 2
  Preemption = TRUE
  MaxTime = 3
SPECIFICATION FairRateSpec
INVARIANTS MaxPlusOnePerWindow SleepIsJustified RateInv
PROPERTY CallReturns
