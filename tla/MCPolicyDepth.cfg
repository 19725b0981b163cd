CONSTANTS
  a = a
  b = b
  c = c
  o = o
  O = O
  bad = bad
  h = h
  lower = lower
  Upper = Upper
  Urls <- BackUrls
  Keys <- BackUrls
  normalizeURL <- BacknormalizeURL
  Invalid = Invalid
  NoRequest = NoRequest
  MaxRetriesOption = 1
  Workers = {w1, w2}
  Links <- BackLinks
  Permitted <- BackPermitted
  Flaky = {}
  RateLimited = FALSE
  Seeds = {a}
  AttemptCap = 0
  Cancellable = FALSE
  Hosts = {h, lower, Upper}
  NoHost = NoHost
  hostOf <- BackhostOf
  lowerHost <- MClowerHost
  globPatterns <- MCGlobPatterns
  maxDepth = 2
  maxPerDomain = 0
  Setups <- BackSetups
  LaterSeeds = {}
  NoLink = NoLink
SPECIFICATION CrawlSpec
INVARIANT DepthIsComplete
