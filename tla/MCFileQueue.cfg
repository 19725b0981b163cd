CONSTANTS
  a = a
  A = A
  b = b
  bad = bad
  Urls <- MCUrls
  Keys <- MCKeys
  normalizeURL <- MCnormalizeURL
  Invalid = Invalid
  None = None
  Torn = Torn
  MaxRetriesOption = 2
  Workers = {w1, w2}
  MaxFaults = 2
  StorageKeys <- MCStorageKeys
  Values <- MCKeys
  fileName <- MCfileName
  keyBytes <- MCkeyBytes
  Nameable <- MCNameable
  NoData = NoData
  TornData = TornData
  NameMax = 7
SPECIFICATION FileCrawlSpec
INVARIANTS FileInv VisitedSurvives EOFOverlooksOnlyBadFiles  FileNamesAreSafe
PROPERTY KeepsContract
SYMMETRY MCWorkersSymmetry
