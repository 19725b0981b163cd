CONSTANTS
  a = a
  b = b
  c = c
  d = d
  A = A
  Urls <- MCUrls
  Keys <- MCKeys
  normalizeURL <- MCnormalizeURL
  Invalid = Invalid
  NoRequest = NoRequest
  MaxRetriesOption = 2
  Workers = {w1, w2}
  Links <- TreeLinks
  Permitted <- TreePermitted
  Flaky = {a}
  RateLimited = FALSE
  Seeds = {a}
  AttemptCap = 0
  Cancellable = FALSE
SPECIFICATION Spec
INVARIANT DifferentUrlEach
