---------------------------- MODULE SdeVmTrusted ----------------------------
(***************************************************************************)
(* The display driver of the trusted VM, src/msm/sde/sde_vm_trusted.c:    *)
(* the primary VM lends the display's io memory and irqs through the       *)
(* hypervisor resource manager (RM); the trusted VM accepts them in two    *)
(* notification handlers, reports whether it owns the hardware            *)
(* (sde_vm_owns_hw), and gives everything back in _sde_vm_release.         *)
(*                                                                         *)
(* Every handler and the release run under vm_res_lock, so each is one     *)
(* atomic step.  Initialisation does not take the lock: it arms the irq    *)
(* lend handler (hh_irq_wait_for_lend) before it publishes kms->vm and     *)
(* zeroes n_irq_lent, and a handler may run in between.                   *)
(*                                                                         *)
(* The hypervisor is abstracted to who holds the memory and each irq:      *)
(* PRIMARY, LENT (offered, not yet accepted), TRUSTED (accepted), and for  *)
(* the memory RELEASED (given back by hh_rm_mem_release, owner not yet     *)
(* notified).  A lend notification stays pending until its handler is     *)
(* registered.                                                             *)
(***************************************************************************)
EXTENDS Integers, FiniteSets

CONSTANTS
  NumIrqs,     \* irq_desc->n_irq: the lent irq labels, sorted, are 1..NumIrqs
  LentHandle,  \* the mem handle the RM gives for the lent io memory (>= 0)
  HypCanFail,  \* RM and irq calls (accept, release, notify, kmalloc) may fail
  MaxLends     \* bound on the lend cycles of the primary VM

ASSUME NumIrqs \in Nat \ {0} /\ LentHandle \in Nat \ {0}
ASSUME HypCanFail \in BOOLEAN /\ MaxLends \in Nat

Labels == 1..NumIrqs

VARIABLES
  ipc,          \* sde_vm_trusted_init and teardown, see InitStates
  nIrqLent,     \* sde_vm->base.n_irq_lent
  ioMemHandle,  \* sde_vm->base.io_mem_handle (kzalloc'd: 0)
  mem,          \* RM: holder of the display io memory
  irq,          \* RM: holder of each irq label
  memNotif,     \* a mem lend notification is pending
  irqNotif,     \* an irq lend notification is pending, per label
  lends,        \* lend cycles the primary VM has started
  freedAccess   \* an irq lend handler ran on the freed sde_vm

vars == <<ipc, nIrqLent, ioMemHandle, mem, irq, memNotif, irqNotif, lends, freedAccess>>
hypVars == <<mem, irq, memNotif, irqNotif, lends>>

(* start: not initialised; armed: both notifiers registered, kms->vm not   *)
(* yet set; ready: kms->vm set; failed: init failed with nothing armed;    *)
(* failed_mem_armed: init failed after registering the mem notifier, which *)
(* its error path leaves registered; freed: _sde_vm_deinit ran.            *)
InitStates == {"start", "armed", "ready", "failed", "failed_mem_armed", "freed"}

(* RM layouts of the lent memory: the expected one, or any other.          *)
SglLayouts == {"expected", "other"}

Outcome == IF HypCanFail THEN BOOLEAN ELSE {TRUE}

Held == {l \in Labels : irq[l] = "TRUSTED"}

-----------------------------------------------------------------------------
(* _sde_vm_validate_sgl: the assigned scatter list, sorted by ipa base,    *)
(* must equal the expected one entry by entry.                             *)
ValidateSgl(assigned) == assigned = "expected"

(* sde_vm_owns_hw: every irq counted and a non-negative mem handle.        *)
OwnsHw ==
  /\ ipc = "ready"
  /\ nIrqLent = NumIrqs
  /\ ioMemHandle >= 0

(* _sde_vm_deinit when kms->vm is still NULL, the case of every init      *)
(* failure: it returns at once, so nothing is unregistered or freed.       *)
DeinitNoVm(next) == ipc' = next

(* sde_vm_trusted_init up to hh_irq_wait_for_lend: _sde_vm_populate_res,   *)
(* the mem notifier, then the irq lend handler.  A NULL cookie goes to     *)
(* init_fail with rc still 0.                                              *)
InitRegister ==
  /\ ipc = "start"
  /\ \E resOk, cookieOk, waitOk \in Outcome :
       IF ~resOk \/ ~cookieOk THEN DeinitNoVm("failed")
       ELSE IF ~waitOk THEN DeinitNoVm("failed_mem_armed")
       ELSE ipc' = "armed"
  /\ UNCHANGED <<nIrqLent, ioMemHandle, freedAccess>> /\ UNCHANGED hypVars

(* The rest of sde_vm_trusted_init: kms->vm = &sde_vm->base, then          *)
(* atomic_set(&n_irq_lent, 0), over any count a handler already made.      *)
InitPublish ==
  /\ ipc = "armed"
  /\ ipc' = "ready"
  /\ nIrqLent' = 0
  /\ UNCHANGED <<ioMemHandle, freedAccess>> /\ UNCHANGED hypVars

(* Mutant: n_irq_lent is incremented as soon as the notification comes,  *)
(* before hh_irq_accept.                                                   *)
IrqLendHandlerCountFirst(l) ==
  /\ irqNotif[l]
  /\ ipc \in {"armed", "ready"}
  /\ irqNotif' = [irqNotif EXCEPT ![l] = FALSE]
  /\ nIrqLent' = nIrqLent + 1
  /\ \E acceptOk \in Outcome :
       irq' = IF acceptOk /\ irq[l] = "LENT" THEN [irq EXCEPT ![l] = "TRUSTED"] ELSE irq
  /\ UNCHANGED <<ipc, ioMemHandle, mem, memNotif, lends, freedAccess>>

(* sde_vm_irq_lend_notification_handler for label l: hh_irq_accept, which *)
(* takes the irq only if it is lent, then the irq_data and hwirq checks;   *)
(* only when all of them pass is n_irq_lent incremented.  An irq accepted  *)
(* whose checks fail stays with the trusted VM uncounted.                  *)
IrqLendHandler(l) ==
  /\ irqNotif[l]
  /\ ipc \in {"armed", "ready"}
  /\ irqNotif' = [irqNotif EXCEPT ![l] = FALSE]
  /\ \E acceptOk, dataOk \in Outcome :
       IF acceptOk /\ irq[l] = "LENT"
       THEN /\ irq' = [irq EXCEPT ![l] = "TRUSTED"]
            /\ nIrqLent' = IF dataOk THEN nIrqLent + 1 ELSE nIrqLent
       ELSE UNCHANGED <<irq, nIrqLent>>
  /\ UNCHANGED <<ipc, ioMemHandle, mem, memNotif, lends, freedAccess>>

(* The irq lend handler stays registered after _sde_vm_deinit freed       *)
(* sde_vm: a later lend runs it on freed memory.                           *)
IrqLendHandlerFreed(l) ==
  /\ irqNotif[l]
  /\ ipc = "freed"
  /\ irqNotif' = [irqNotif EXCEPT ![l] = FALSE]
  /\ freedAccess' = TRUE
  /\ UNCHANGED <<ipc, nIrqLent, ioMemHandle, mem, irq, memNotif, lends>>

(* sde_vm_mem_lend_notification_handler: sde_vm_populate_acl (kmalloc),    *)
(* hh_rm_mem_accept with ACCEPT_DONE, which takes the memory if it is      *)
(* lent, then _sde_vm_validate_sgl; only a valid layout records the        *)
(* handle.  Memory accepted with a layout that fails validation stays      *)
(* with the trusted VM and the handle keeps its old value.                 *)
MemLendHandler ==
  /\ memNotif
  /\ ipc \in {"armed", "ready", "failed_mem_armed"}
  /\ memNotif' = FALSE
  /\ \E aclOk, acceptOk \in Outcome, assigned \in SglLayouts :
       IF aclOk /\ acceptOk /\ mem = "LENT"
       THEN /\ mem' = "TRUSTED"
            /\ ioMemHandle' = IF ValidateSgl(assigned) THEN LentHandle ELSE ioMemHandle
       ELSE UNCHANGED <<mem, ioMemHandle>>
  /\ UNCHANGED <<ipc, nIrqLent, irq, irqNotif, lends, freedAccess>>

(* Mutant: the release loop does not decrement n_irq_lent.                *)
ReleaseIrqNoDec ==
  \E k \in 0..NumIrqs :
    /\ \A l \in 1..k : irq[l] = "TRUSTED"
    /\ k < NumIrqs => irq[k + 1] # "TRUSTED" \/ HypCanFail
    /\ irq' = [l \in Labels |-> IF l <= k THEN "PRIMARY" ELSE irq[l]]
    /\ UNCHANGED nIrqLent

(* _sde_vm_release_irq: hh_irq_release for the labels in sorted order,     *)
(* n_irq_lent decremented after each; the loop returns at the first        *)
(* failure, which a label the trusted VM does not hold always is.  k is    *)
(* the number of labels released.                                          *)
ReleaseIrq ==
  \E k \in 0..NumIrqs :
    /\ \A l \in 1..k : irq[l] = "TRUSTED"
    /\ k < NumIrqs => irq[k + 1] # "TRUSTED" \/ HypCanFail
    /\ irq' = [l \in Labels |-> IF l <= k THEN "PRIMARY" ELSE irq[l]]
    /\ nIrqLent' = nIrqLent - k

(* Mutant: io_mem_handle is not reset after the memory is given back.     *)
ReleaseKeepHandle ==
  /\ ipc = "ready"
  /\ mem = "TRUSTED"
  /\ ioMemHandle = LentHandle
  /\ \E notifyOk \in Outcome :
       IF notifyOk
       THEN /\ mem' = "PRIMARY"
            /\ ReleaseIrq
            /\ UNCHANGED ioMemHandle
       ELSE /\ mem' = "RELEASED"
            /\ UNCHANGED <<ioMemHandle, nIrqLent, irq>>
  /\ UNCHANGED <<ipc, memNotif, irqNotif, lends, freedAccess>>

(* _sde_vm_release when kms->vm is set.  hh_rm_mem_release of             *)
(* io_mem_handle succeeds only for the handle of memory the trusted VM    *)
(* holds (otherwise the call changes nothing, a stuttering step);          *)
(* hh_rm_mem_notify tells the owner, which reclaims it; only then is       *)
(* io_mem_handle set to -1 and the irqs released.  A failed notify leaves  *)
(* the memory released but the handle set.                                 *)
Release ==
  /\ ipc = "ready"
  /\ mem = "TRUSTED"
  /\ ioMemHandle = LentHandle
  /\ \E notifyOk \in Outcome :
       IF notifyOk
       THEN /\ mem' = "PRIMARY"
            /\ ioMemHandle' = -1
            /\ ReleaseIrq
       ELSE /\ mem' = "RELEASED"
            /\ UNCHANGED <<ioMemHandle, nIrqLent, irq>>
  /\ UNCHANGED <<ipc, memNotif, irqNotif, lends, freedAccess>>

(* _sde_vm_deinit with kms->vm set: unregister the mem notifier and free   *)
(* sde_vm.  The irq lend handler is not unregistered.                      *)
Deinit ==
  /\ ipc = "ready"
  /\ ipc' = "freed"
  /\ UNCHANGED <<nIrqLent, ioMemHandle, freedAccess>> /\ UNCHANGED hypVars

-----------------------------------------------------------------------------
(* The primary VM, outside src/: it lends the memory and every irq when    *)
(* it holds all of them, and each lend is notified to the trusted VM.      *)
PrimaryLend ==
  /\ lends < MaxLends
  /\ mem = "PRIMARY"
  /\ \A l \in Labels : irq[l] = "PRIMARY"
  /\ mem' = "LENT"
  /\ irq' = [l \in Labels |-> "LENT"]
  /\ memNotif' = TRUE
  /\ irqNotif' = [l \in Labels |-> TRUE]
  /\ lends' = lends + 1
  /\ UNCHANGED <<ipc, nIrqLent, ioMemHandle, freedAccess>>

Init ==
  /\ ipc = "start"
  /\ nIrqLent = 0
  /\ ioMemHandle = 0
  /\ mem = "PRIMARY"
  /\ irq = [l \in Labels |-> "PRIMARY"]
  /\ memNotif = FALSE
  /\ irqNotif = [l \in Labels |-> FALSE]
  /\ lends = 0
  /\ freedAccess = FALSE

Next ==
  \/ InitRegister \/ InitPublish \/ MemLendHandler \/ Release \/ Deinit
  \/ PrimaryLend
  \/ \E l \in Labels : IrqLendHandler(l) \/ IrqLendHandlerFreed(l)

Spec == Init /\ [][Next]_vars

-----------------------------------------------------------------------------
(* Type of every variable.  n_irq_lent may go below zero: the release     *)
(* loop decrements for irqs the lend handler accepted without counting.    *)
TypeOK ==
  /\ ipc \in InitStates
  /\ nIrqLent \in -(NumIrqs * MaxLends)..NumIrqs
  /\ ioMemHandle \in {-1, 0, LentHandle}
  /\ mem \in {"PRIMARY", "LENT", "TRUSTED", "RELEASED"}
  /\ irq \in [Labels -> {"PRIMARY", "LENT", "TRUSTED"}]
  /\ memNotif \in BOOLEAN /\ freedAccess \in BOOLEAN
  /\ irqNotif \in [Labels -> BOOLEAN]
  /\ lends \in 0..MaxLends

(* The irq half of sde_vm_owns_hw never counts an irq the trusted VM does  *)
(* not hold: n_irq_lent, raised by the lend handler after a successful     *)
(* accept, overwritten by init and lowered by the release loop, never     *)
(* exceeds the labels the RM has given to the trusted VM, whatever the     *)
(* order of handlers, init and partial releases.                           *)
IrqCountWithinHeld == nIrqLent <= Cardinality(Held)

(* A recorded io_mem_handle always names memory the trusted VM accepted    *)
(* (and possibly gave back without the owner being told): the handle is    *)
(* set only after accept and validation, and reset once the owner has      *)
(* been notified of the release.                                           *)
HandleNamesAcceptedMem ==
  ioMemHandle = LentHandle => mem \in {"TRUSTED", "RELEASED"}

(* Whenever sde_vm_owns_hw returns true, the trusted VM holds the io       *)
(* memory and every irq: the display driver may program the hardware.      *)
OwnsHwSound ==
  OwnsHw => mem = "TRUSTED" /\ Held = Labels

=============================================================================
