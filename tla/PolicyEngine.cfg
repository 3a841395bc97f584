CONSTANTS
  h1 = h1
  h2 = h2
  alice = alice
  bob = bob
  path = path
  etc = etc
  NoRegex = NoRegex
  BadRegex = BadRegex
  NoToolset = NoToolset
  NoLimit = NoLimit
  NoName = NoName
  Length <- MCLength
  Handlers <- MCHandlers
  Clients <- MCClients
  Tools <- MCTools
  Args <- MCArgs
  Policies <- MCPolicies
  MaxStall = 1
  MaxClock = 3
  MaxCalls = 4
SPECIFICATION Spec
INVARIANTS CountExact RateBounded DenialEarned
PROPERTIES WindowsAdvance
SYMMETRY MCSymmetry
