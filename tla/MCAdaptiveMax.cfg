CONSTANTS
  a = a
  b = b
  c = c
  Urls <- SmallUrls
  Keys <- SmallUrls
  normalizeURL <- SmallnormalizeURL
  Invalid = Invalid
  NoRequest = NoRequest
  MaxRetriesOption = 1
  Workers = {w1, w2, w3}
  Links <- SmallLinks
  Permitted <- SmallPermitted
  Flaky = {b}
  RateLimited = TRUE
  Seeds = {a}
  AttemptCap = 0
  MinWorkersOption = 1
  MaxWorkersOption = 2
  MaxAdjustments = 3
  Cancellable = FALSE
SPECIFICATION Spec
INVARIANT WithinMaxWorkers
