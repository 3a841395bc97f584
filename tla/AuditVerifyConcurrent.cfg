CONSTANTS
  c1 = c1
  c2 = c2
  Callers = {c1, c2}
  Mode = "block"
  ChanSize = 2
  BatchMax = 2
  HashChain = TRUE
  Retention = {}
  TrimChunk = 1
  Faults = {}
  Restarts = {"close"}
  MaxEvents = 2
SPECIFICATION Spec
INVARIANT LogVerifies
