\* A second open passes core_init (line 2591) while the first waits for sys-init;
\* the first one's failure deinits the core under the second session.
CONSTANTS
  Insts = {i1, i2}
  i1 = i1
  i2 = i2
  i3 = i3
  NoInst = NoInst
  MaxSupportedInstances = 2
  NonFatalFaults = FALSE
  FwUnload = TRUE
SPECIFICATION Spec
INVARIANTS SessionsOnLiveCore
