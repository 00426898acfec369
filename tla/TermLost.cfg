CONSTANTS
  n1 = n1
  n2 = n2
  n3 = n3
  Ids <- MCIds
  Nil = Nil
  MaxIndex = 3
  Self = n1
  PeerLists <- MCPeerLists
  ElectionTicks = 3
  TickBuffer = 2
  PreVotes = {TRUE, FALSE}
  MaxTerm = 4
SPECIFICATION Spec
PROPERTY TermSurvivesRestart
CHECK_DEADLOCK FALSE
