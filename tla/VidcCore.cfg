\* Two sessions, faults fatal (so the work item can be re-queued), delayed
\* firmware unload enabled; the sessions are symmetric.
CONSTANTS
  Insts = {i1, i2}
  i1 = i1
  i2 = i2
  i3 = i3
  NoInst = NoInst
  MaxSupportedInstances = 2
  NonFatalFaults = FALSE
  FwUnload = TRUE
SPECIFICATION Spec
SYMMETRY Symm
INVARIANTS TypeOK NoUseAfterFree KrefCountsHolders
