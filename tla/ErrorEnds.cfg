CONSTANTS
  LPUrls = 1
  UrlLists <- McOneUrl
  Stoppers = {}
SPECIFICATION FairSpec
PROPERTIES
  ErrorEndsProcess
CHECK_DEADLOCK FALSE
