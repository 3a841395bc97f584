CONSTANTS
  c1 = c1
  c2 = c2
  Callers = {c1}
  Mode = "block"
  ChanSize = 1
  BatchMax = 2
  HashChain = TRUE
  Retention = {"age", "size"}
  TrimChunk = 1
  Faults = {"insert","delete","trim","reseal"}
  Restarts = {"close","kill"}
  MaxEvents = 5
SPECIFICATION FairSpec
INVARIANTS LogVerifies TailVerifies
PROPERTIES AcceptedSettles OperationsReturn
