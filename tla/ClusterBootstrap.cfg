CONSTANTS
  p1 = p1
  p2 = p2
  Procs = {p1, p2}
  Name <- McName
  Configs <- McConfigs
  UrlText <- McUrlText
  Tokens <- McTokens
  Hashes <- McHashes
  BadUrl = 0
SPECIFICATION Spec
INVARIANTS
  SameBootstrap
  SameVerdict
CHECK_DEADLOCK FALSE
