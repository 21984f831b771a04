\* A signal ends a synchronous wait; nothing else fails.
CONSTANTS
  c1 = c1
  c2 = c2
  NoReq = NoReq
  Callers = {c1, c2}
  NumReqs = 2
  MaxSemAsync = 4
  Interruptible = TRUE
  PowerCut = FALSE
  BusCanFail = FALSE
  CanRemove = FALSE
SPECIFICATION Spec

INVARIANTS PoolConserved
