\* Decode and encode sessions (the type is chosen at Init): read-only repeats of a decoder, shared mappings of an encoder.
CONSTANTS
  o1 = o1
  o2 = o2
  o3 = o3
  d1 = d1
  d2 = d2
  Objs = {o1, o2, o3}
  DmaBufs = {d1, d2}
  MapCanFail = FALSE
  i1 = i1
  i2 = i2
  i3 = i3
  IObjs = {i1, i2}
  ISizes = {1, 2}
  ICounts = {1, 2}
  AllocCanFail = FALSE
  HfiCanFail = TRUE
SPECIFICATION Spec
SYMMETRY Symm
INVARIANTS TypeOK MapCountsBuffers StoppedPortHoldsNothing FirmwareHoldsOnce
