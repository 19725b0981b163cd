CONSTANTS
  a = a
  b = b
  c = c
  d = d
  A = A
  Urls <- CyclicPages
  Keys <- CyclicKeys
  normalizeURL <- CyclicnormalizeURL
  Invalid = Invalid
  NoRequest = NoRequest
  MaxRetriesOption = 2
  Workers = {w1, w2}
  Links <- CyclicLinks
  Permitted <- CyclicPermitted
  Flaky = {b}
  RateLimited = FALSE
  Seeds = {a}
  AttemptCap = 0
  Cancellable = TRUE
SPECIFICATION Spec
INVARIANTS IInv NoWorkAbandoned CrawlComplete
PROPERTY QuietAfterReturn
SYMMETRY MCSymmetry
