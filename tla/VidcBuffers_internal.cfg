\* Internal buffers with allocation and map failures (one client buffer, to
\* keep the client half small): a half-created buffer reaches the firmware.
CONSTANTS
  o1 = o1
  o2 = o2
  o3 = o3
  d1 = d1
  d2 = d2
  Objs = {o1}
  DmaBufs = {d1}
  MapCanFail = TRUE
  i1 = i1
  i2 = i2
  i3 = i3
  IObjs = {i1, i2, i3}
  ISizes = {1, 2}
  ICounts = {1, 2}
  AllocCanFail = TRUE
  HfiCanFail = TRUE
SPECIFICATION Spec
SYMMETRY Symm
INVARIANTS QueuedInternalMapped
