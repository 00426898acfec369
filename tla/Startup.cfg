CONSTANTS
  LPUrls = 1
  UrlLists <- McUrlLists
  Stoppers = {t1}
SPECIFICATION FairSpec
INVARIANTS
  ClientListenersClosed
  NoSendOnClosedChannel
PROPERTIES
  RestartedEndsOnError
CHECK_DEADLOCK FALSE
