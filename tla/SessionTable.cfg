CONSTANTS
  h1 = h1
  h2 = h2
  alice = alice
  bob = bob
  Handlers = {h1, h2}
  Clients = {alice, bob}
  TTL = 3
  MaxEntries = 2
  MaxStall = 1
  MaxSessions = 3
  MaxClock = 3
SPECIFICATION Spec
SYMMETRY Symmetry
INVARIANTS MetricsExact CapacityRespected LeaseBounds HandlersApart
PROPERTIES LeaseSpec
