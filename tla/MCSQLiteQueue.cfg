CONSTANTS
  a = a
  A = A
  b = b
  bad = bad
  Urls <- MCUrls
  Keys <- MCKeys
  normalizeURL <- MCnormalizeURL
  Invalid = Invalid
  None = None
  MaxRetriesOption = 2
  Callers = {c1, c2}
  ResetLive = FALSE
  MaxFaults = 2
SPECIFICATION SQLFairSpec
INVARIANTS SQLInv EmptyIsFinished
PROPERTIES KeepsContract EveryRowIsSettled
