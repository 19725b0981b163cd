CONSTANTS
  a = a
  b = b
  c = c
  d = d
  A = A
  Urls <- MCUrls
  Keys <- MCKeys
  normalizeURL <- MCnormalizeURL
  Invalid = Invalid
  NoRequest = NoRequest
  MaxRetriesOption = 2
  Workers = {w1, w2, w3}
  Links <- TreeLinks
  Permitted <- TreePermitted
  Flaky = {b, c}
  RateLimited = FALSE
  Seeds = {a, b}
  AttemptCap = 3
  Cancellable = FALSE
SPECIFICATION FairSpec
INVARIANTS EmptyIsEOF OnePlacePerKey RetryBudget CompletedMeansCrawled OnlyPermittedPages
PROPERTIES NoKeyForgotten KeepsContract NeverCrawledAgain Termination MonitorEnds
