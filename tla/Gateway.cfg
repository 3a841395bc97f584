CONSTANTS
  h1 = h1
  h2 = h2
  alice = alice
  bob = bob
  read = read
  write = write
  path = path
  etc = etc
  NoRegex = NoRegex
  BadRegex = BadRegex
  NoToolset = NoToolset
  NoLimit = NoLimit
  NoName = NoName
  Length <- MCLength
  Handlers = {h1, h2}
  Clients = {alice, bob}
  Tools <- MCTools
  FirstPolicy <- MCFirstPolicy
  Policies <- MCPolicies
  MaxRequests = 3
  MaxWrites = 0
  MaxSessions = 1
  MaxSwaps = 1
SPECIFICATION Spec
SYMMETRY MCSymmetry
INVARIANTS AnswersAudited ExecutedLawfully ListingHonest SessionsTraced ClosedLast
CHECK_DEADLOCK FALSE
