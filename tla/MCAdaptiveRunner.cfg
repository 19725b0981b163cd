CONSTANTS
  a = a
  b = b
  c = c
  Urls <- MCUrls
  Keys <- MCUrls
  normalizeURL <- MCnormalizeURL
  Invalid = Invalid
  NoRequest = NoRequest
  MaxRetriesOption = 1
  Workers = {w1, w2, w3, w4}
  Links <- MCLinks
  Permitted <- MCPermitted
  Flaky = {b}
  RateLimited = TRUE
  Seeds = {a}
  AttemptCap = 0
  MinWorkersOption = 1
  MaxWorkersOption = 2
  MaxAdjustments = 6
  Cancellable = TRUE
SPECIFICATION Spec
INVARIANTS IInv SurplusIsOwedToTokens NoWorkAbandoned
PROPERTY QuietAfterReturn
SYMMETRY MCSymmetry
