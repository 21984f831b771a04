\* Every behaviour: signals, power-cut suspend, failing SDIO core calls, card removal.
CONSTANTS
  c1 = c1
  c2 = c2
  NoReq = NoReq
  Callers = {c1, c2}
  NumReqs = 2
  MaxSemAsync = 4
  Interruptible = TRUE
  PowerCut = TRUE
  BusCanFail = TRUE
  CanRemove = TRUE
SPECIFICATION Spec
\* The suspend thread can hang for good in hif_disable_func (NoWaitOnMissingTask, see README), a state in which nothing moves.
CHECK_DEADLOCK FALSE
SYMMETRY Symm
INVARIANTS TypeOK RequestOwnershipExclusive FreeRequestsQuiescent RemovedWithoutThread
PROPERTIES ServesInSubmissionOrder
