CONSTANTS
  alice = alice
  bob = bob
  d1 = d1
  d2 = d2
  d3 = d3
  etc = etc
  home = home
  long = long
  number = number
  path = path
  read <- MCRead
  write <- MCWrite
  NoRegex = NoRegex
  BadRegex = BadRegex
  NoToolset = NoToolset
  NoLimit = NoLimit
  NoName = NoName
  Nothing = Nothing
  Garbled = Garbled
  Empty = Empty
  Malformed = Malformed
  NoToken = NoToken
  Refused = Refused
  NoFile = NoFile
  NoTool <- MCNoTool
  Length <- MCLength
  Menu <- MCMenu
  Additions <- MCServeMenu
  Toolsets <- MCToolsets
  Calls <- MCCalls
  MaxRules = 2
  Files <- MCFiles
  Edited <- MCEdited
  Policies <- MCPolicies
  Tokens <- MCTokens
  Recordings <- MCRecordings
  GivenFiles <- MCGivenFiles
  ReplayEnd = 2
SPECIFICATION FairSpec
CHECK_DEADLOCK FALSE
INVARIANTS PolicyMeansFile DoorShut ChecksAgree LogClosed ReplayHonest
PROPERTIES InterruptEnds ReloadNotLost
