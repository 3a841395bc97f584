CONSTANTS
  c1 = c1
  c2 = c2
  Callers = {c1, c2}
  Mode = "fail_closed"
  ChanSize = 1
  BatchMax = 2
  HashChain = TRUE
  Retention = {"age", "size"}
  TrimChunk = 1
  Faults = {"insert", "delete"}
  Restarts = {}
  MaxEvents = 6
SPECIFICATION Spec
CHECK_DEADLOCK FALSE
SYMMETRY Symmetry
INVARIANTS TypeOK Accounting DroppedIsExact LossBounded ChainIsLinear
PROPERTY TrailSpec
