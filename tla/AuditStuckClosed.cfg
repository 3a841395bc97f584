CONSTANTS
  c1 = c1
  c2 = c2
  Callers = {c1}
  Mode = "fail_closed"
  ChanSize = 2
  BatchMax = 2
  HashChain = TRUE
  Retention = {}
  TrimChunk = 1
  Faults = {"insert"}
  Restarts = {"close"}
  MaxEvents = 3
SPECIFICATION Spec
PROPERTY RefusalIsTemporary
