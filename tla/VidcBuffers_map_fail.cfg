\* The memory map may fail while a new buffer is being acquired.
CONSTANTS
  o1 = o1
  o2 = o2
  o3 = o3
  d1 = d1
  d2 = d2
  Objs = {o1, o2, o3}
  DmaBufs = {d1, d2}
  MapCanFail = TRUE
  i1 = i1
  i2 = i2
  i3 = i3
  IObjs = {i1, i2, i3}
  ISizes = {1, 2}
  ICounts = {1, 2}
  AllocCanFail = TRUE
  HfiCanFail = TRUE
SPECIFICATION Spec
INVARIANTS NoDanglingBuffer
