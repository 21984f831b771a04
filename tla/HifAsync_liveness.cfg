\* No signals, power kept in suspend, SDIO core calls succeed.
CONSTANTS
  c1 = c1
  c2 = c2
  NoReq = NoReq
  Callers = {c1, c2}
  NumReqs = 2
  MaxSemAsync = 4
  Interruptible = FALSE
  PowerCut = FALSE
  BusCanFail = FALSE
  CanRemove = FALSE
SPECIFICATION Spec

PROPERTIES RequestsReturnToPool
