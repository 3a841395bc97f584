CONSTANTS
  c1 = c1
  c2 = c2
  Callers = {c1}
  Mode = "block"
  ChanSize = 2
  BatchMax = 2
  HashChain = TRUE
  Retention = {"size"}
  TrimChunk = 1
  Faults = {"trim"}
  Restarts = {"close"}
  MaxEvents = 3
SPECIFICATION Spec
INVARIANT RetentionReseals
