SPECIFICATION FairSpec
CONSTANTS
  h = h
  s = s
  NoClient = NoClient
  Clients <- MCClients
  Honest <- MCHonest
  Word = 16
  Capacity = 7
  Regions <- MCRegions
  Prefixes <- MCPrefixes
  ReplySizes <- MCReplySizes
INVARIANTS OnlyFramesForwarded HonestAnswered
PROPERTIES HonestReleased ThreadEnds
CHECK_DEADLOCK FALSE
