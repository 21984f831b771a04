\* No call fails: the irq and mem lend notifications alone, handled in
\* either order, are enough for sde_vm_owns_hw to answer wrongly.
CONSTANTS
  NumIrqs = 2
  LentHandle = 1
  HypCanFail = FALSE
  MaxLends = 2
SPECIFICATION Spec
CHECK_DEADLOCK FALSE
INVARIANTS OwnsHwSound
