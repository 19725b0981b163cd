CONSTANTS
  a = a
  b = b
  c = c
  o = o
  O = O
  bad = bad
  h = h
  lower = lower
  Upper = Upper
  Urls <- MCUrls
  Keys <- MCKeys
  normalizeURL <- MCnormalizeURL
  Invalid = Invalid
  NoRequest = NoRequest
  MaxRetriesOption = 1
  Workers = {w1, w2}
  Links <- MCLinks
  Permitted <- MCPermitted
  Flaky = {b}
  RateLimited = TRUE
  Seeds = {a}
  AttemptCap = 0
  Cancellable = TRUE
  Hosts = {h, lower, Upper}
  NoHost = NoHost
  hostOf <- MChostOf
  lowerHost <- MClowerHost
  globPatterns <- MCGlobPatterns
  maxDepth = 2
  maxPerDomain = 1
  Setups <- MCSetups
  LaterSeeds = {o}
  NoLink = NoLink
SPECIFICATION FairCrawlSpec
INVARIANTS CrawlTypeOK WithinDepth SameDomainStays PagesPerDomain GlobMatches
PROPERTY RunEnds
