SPECIFICATION TdfSpec
CONSTANTS
  Width = 24
  Tags <- TwoTags
  Values <- SomeValues
  Lists <- SomeLists
  Maps <- SomeMaps
  MessageTypes = {1, 3}
  MessageNumbers = {1, 16777217}
  UserIndexes = {33}
  Metadatas <- SomeMetadatas
  MaxCalls = 3
  MaxDepth = 2
INVARIANTS RoundTrip Truncated PacketRoundTrip
CHECK_DEADLOCK FALSE
