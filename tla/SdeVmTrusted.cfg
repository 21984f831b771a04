\* Two irq labels, three lend cycles, every RM and irq call may fail.
\* The bound on lend cycles ends every behaviour, and a failed release can
\* leave the primary VM unable to lend again, so final states are expected.
CONSTANTS
  NumIrqs = 2
  LentHandle = 1
  HypCanFail = TRUE
  MaxLends = 3
SPECIFICATION Spec
CHECK_DEADLOCK FALSE
INVARIANTS IrqCountWithinHeld HandleNamesAcceptedMem
