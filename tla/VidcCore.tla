------------------------------ MODULE VidcCore ------------------------------
(***************************************************************************)
(* The core lifecycle and the session registry of the video driver,        *)
(* src/driver/vidc/src/msm_vidc_driver.c: msm_vidc_core_init/deinit, the   *)
(* session list core->instances with the kref of each session, session    *)
(* close with its bounded wait, the SMMU fault handler and its work item,  *)
(* and the delayed firmware unload.                                        *)
(*                                                                         *)
(* Every section that holds core->lock and does not wait is one step, so   *)
(* the core lock needs no variable.  The instance lock is a variable: a    *)
(* state change holds it across the check and the write of inst->state.    *)
(* The session state is abstracted to RUN / ERROR; the protocol inside RUN *)
(* is the module VidcInstance.                                             *)
(***************************************************************************)
EXTENDS Naturals, FiniteSets

CONSTANTS
  Insts,                  \* session objects (one per client thread)
  MaxSupportedInstances,  \* MAX_SUPPORTED_INSTANCES, size of the fault snapshot
  NonFatalFaults,         \* core->capabilities[NON_FATAL_FAULTS].value # 0
  FwUnload,               \* core->capabilities[FW_UNLOAD].value # 0
  NoInst                  \* NULL: the fault work holds no session

ASSUME MaxSupportedInstances \in Nat \ {0}
ASSUME NonFatalFaults \in BOOLEAN /\ FwUnload \in BOOLEAN
ASSUME NoInst \notin Insts

VARIABLES
  coreState,      \* core->state
  sysInitSent,    \* a sys-init request is with the firmware, not yet answered
  initDone,       \* completion core->init_done
  instances,      \* core->instances
  instState,      \* inst->state, or NONE before allocation, FREED after kfree
  refcount,       \* inst->kref
  instLocked,     \* inst->lock is held
  pc,             \* where the client thread of each session is
  closeDone,      \* completion inst->completions[SIGNAL_CMD_CLOSE]
  faultHandled,   \* core->smmu_fault_handled
  workPending,    \* core->smmu_fault_work is queued
  wpc,            \* where the fault work item is
  snap,           \* instances[] of the fault work not yet visited
  cur,            \* the instance the fault work holds
  unloadPending,  \* core->fw_unload_work is scheduled
  closeAns,       \* sessions whose close answer the firmware still owes
  rcur            \* the session the close-answer response work holds

vars == <<coreState, sysInitSent, initDone, instances, instState, refcount,
          instLocked, pc, closeDone, faultHandled, workPending, wpc, snap,
          cur, unloadPending, closeAns, rcur>>

-----------------------------------------------------------------------------
(* msm_vidc_change_inst_state: a session in ERROR stays there.             *)
ChangeInstState(i, request) ==
  IF instState[i] = "ERROR" THEN "ERROR" ELSE request

(* msm_vidc_core_deinit: unless the core is already down, or not forced    *)
(* with sessions left, tear the firmware down and unlink every session,    *)
(* putting it in ERROR; venus_hfi_core_deinit resets the firmware, which   *)
(* then owes no close answer.  The write to inst->state is done under the *)
(* core lock only, not the instance lock.                                  *)
CoreDeinit(force) ==
  IF coreState = "DEINIT" \/ (~force /\ instances # {})
  THEN UNCHANGED <<coreState, sysInitSent, instances, instState, closeAns>>
  ELSE /\ sysInitSent' = FALSE
       /\ closeAns' = {}
       /\ instState' = [i \in Insts |->
                          IF i \in instances THEN ChangeInstState(i, "ERROR")
                          ELSE instState[i]]
       /\ instances' = {}
       /\ coreState' = "DEINIT"

(* msm_vidc_remove_session: unlink every listed session with this id.      *)
RemoveSession(i) == instances \ {i}

(* Mutant: put_inst dropping two references.                              *)
PutInstDouble(i) ==
  /\ refcount' = [refcount EXCEPT ![i] = @ - 2]
  /\ instState' = [instState EXCEPT ![i] = IF refcount[i] <= 2 THEN "FREED" ELSE @]

(* put_inst: kref_put, running msm_vidc_close_helper (kfree) at zero.      *)
PutInst(i) ==
  /\ refcount' = [refcount EXCEPT ![i] = @ - 1]
  /\ instState' = [instState EXCEPT ![i] = IF refcount[i] = 1 THEN "FREED" ELSE @]

(* Mutant: a kref_get on the copied pointer, without finding it on the     *)
(* list and without the unless-zero test.                                  *)
GetInstRefNoLookup(i) == refcount[i] >= 0

(* msm_vidc_schedule_core_deinit: with FW_UNLOAD, cancel and re-arm the    *)
(* delayed unload; without it, leave the work as it is.                    *)
ScheduleCoreDeinit == FwUnload \/ unloadPending

(* get_inst_ref: under the core lock, find the pointer on the list and     *)
(* take a reference unless the count already dropped to zero.             *)
GetInstRef(i) == i \in instances /\ refcount[i] > 0

(* get_inst: the same under the core lock, matching inst->session_id; two  *)
(* live session objects never share an id (hash collisions are not        *)
(* modelled).                                                              *)
GetInst(i) == i \in instances /\ refcount[i] > 0

-----------------------------------------------------------------------------
(* Client threads.  pc of a session's thread:                              *)
(*   idle -> wait_init -> add -> running <-> state_write                   *)
(*   running -> wait_close -> [close_timeout] -> close_relock -> idle      *)
(* init_failed is core_init's error exit, which runs core_deinit(true).    *)

Holding == {"running", "state_write", "wait_close", "close_timeout", "close_relock"}

(* msm_vidc_core_init up to the wait: under the core lock, return 0 if the *)
(* core is already INIT; otherwise move it to INIT, re-arm init_done,      *)
(* clear smmu_fault_handled and send sys-init, whose failure goes to the   *)
(* forced deinit.  The caller (msm_vidc_open) starts here with a new       *)
(* session object, whose memory is either fresh or freed before.           *)
CoreInit(i) ==
  /\ pc[i] = "idle"
  /\ instState[i] \in {"NONE", "FREED"}
  /\ IF coreState = "INIT"
     THEN /\ pc' = [pc EXCEPT ![i] = "add"]
          /\ UNCHANGED <<coreState, sysInitSent, initDone, faultHandled>>
     ELSE /\ coreState' = "INIT"
          /\ initDone' = FALSE
          /\ faultHandled' = FALSE
          /\ \E sent \in BOOLEAN :          \* venus_hfi_core_init result
               /\ sysInitSent' = sent
               /\ pc' = [pc EXCEPT ![i] = IF sent THEN "wait_init" ELSE "init_failed"]
  /\ UNCHANGED <<rcur, instances, instState, refcount, instLocked, closeDone,
                 workPending, wpc, snap, cur, unloadPending,
                 closeAns>>

(* The rest of msm_vidc_core_init: wait_for_completion_timeout on          *)
(* init_done with the core lock released, relock, and fail with           *)
(* -ETIMEDOUT when the firmware has not answered.                          *)
CoreInitWait(i) ==
  /\ pc[i] = "wait_init"
  /\ \E timedOut \in BOOLEAN :
       /\ timedOut => ~initDone
       /\ ~timedOut => initDone
       /\ pc' = [pc EXCEPT ![i] = IF timedOut THEN "init_failed" ELSE "add"]
  /\ UNCHANGED <<rcur, coreState, sysInitSent, initDone, instances, instState,
                 refcount, instLocked, closeDone, faultHandled, workPending,
                 wpc, snap, cur, unloadPending,
                 closeAns>>

(* core_init's error exit: msm_vidc_core_deinit(core, true).               *)
CoreInitFailed(i) ==
  /\ pc[i] = "init_failed"
  /\ CoreDeinit(TRUE)
  /\ pc' = [pc EXCEPT ![i] = "idle"]
  /\ UNCHANGED <<rcur, initDone, refcount, instLocked, closeDone, faultHandled,
                 workPending, wpc, snap, cur, unloadPending>>

(* msm_vidc_open after core init: allocate the session with kref 1 and its *)
(* completions initialised, and msm_vidc_add_session links it (the count  *)
(* limit 0xffffff is never met).                                           *)
(* The core state is not looked at again.                                  *)
AddSession(i) ==
  /\ pc[i] = "add"
  /\ instances' = instances \cup {i}
  /\ instState' = [instState EXCEPT ![i] = "RUN"]
  /\ refcount' = [refcount EXCEPT ![i] = 1]
  /\ closeDone' = [closeDone EXCEPT ![i] = FALSE]
  /\ pc' = [pc EXCEPT ![i] = "running"]
  /\ UNCHANGED <<rcur, coreState, sysInitSent, initDone, instLocked,
                 faultHandled, workPending, wpc, snap, cur,
                 unloadPending,
                 closeAns>>

(* A state change of the session under inst->lock, first half:            *)
(* msm_vidc_change_inst_state reads inst->state and refuses to leave ERROR.*)
StateCheck(i) ==
  /\ pc[i] = "running"
  /\ ~instLocked[i]
  /\ instState[i] # "ERROR"
  /\ instLocked' = [instLocked EXCEPT ![i] = TRUE]
  /\ pc' = [pc EXCEPT ![i] = "state_write"]
  /\ UNCHANGED <<rcur, coreState, sysInitSent, initDone, instances, instState,
                 refcount, closeDone, faultHandled, workPending, wpc, snap,
                 cur, unloadPending,
                 closeAns>>

(* Second half: inst->state = request, then inst_unlock.                   *)
StateWrite(i) ==
  /\ pc[i] = "state_write"
  /\ instState' = [instState EXCEPT ![i] = "RUN"]
  /\ instLocked' = [instLocked EXCEPT ![i] = FALSE]
  /\ pc' = [pc EXCEPT ![i] = "running"]
  /\ UNCHANGED <<rcur, coreState, sysInitSent, initDone, instances, refcount,
                 closeDone, faultHandled, workPending, wpc, snap, cur, unloadPending,
                 closeAns>>

(* msm_vidc_close, inst_lock, then msm_vidc_session_close up to its wait:  *)
(* venus_hfi_session_close (refused for a session the core has unlinked,   *)
(* which returns at once), then inst->lock is dropped for the wait.        *)
CloseBegin(i) ==
  /\ pc[i] = "running"
  /\ ~instLocked[i]
  /\ closeDone' = [closeDone EXCEPT ![i] = FALSE]
  /\ IF i \in instances
     THEN /\ pc' = [pc EXCEPT ![i] = "wait_close"]
          /\ closeAns' = closeAns \cup {i}
     ELSE /\ pc' = [pc EXCEPT ![i] = "close_relock"]
          /\ UNCHANGED closeAns
  /\ UNCHANGED <<rcur, coreState, sysInitSent, initDone, instances, instState,
                 refcount, instLocked, faultHandled, workPending, wpc, snap,
                 cur, unloadPending>>

(* wait_for_completion_timeout on SIGNAL_CMD_CLOSE: done, or timed out     *)
(* while the firmware has not answered.                                    *)
CloseWait(i) ==
  /\ pc[i] = "wait_close"
  /\ pc' = [pc EXCEPT ![i] = IF closeDone[i] THEN "close_relock" ELSE "close_timeout"]
  /\ UNCHANGED <<rcur, coreState, sysInitSent, initDone, instances, instState,
                 refcount, instLocked, closeDone, faultHandled, workPending,
                 wpc, snap, cur, unloadPending,
                 closeAns>>

(* On a timeout, msm_vidc_core_timeout: a forced core deinit.              *)
CloseTimeout(i) ==
  /\ pc[i] = "close_timeout"
  /\ CoreDeinit(TRUE)
  /\ pc' = [pc EXCEPT ![i] = "close_relock"]
  /\ UNCHANGED <<rcur, initDone, refcount, instLocked, closeDone, faultHandled,
                 workPending, wpc, snap, cur, unloadPending>>

(* Mutant: the close path forgetting its put_inst.                         *)
CloseFinishNoPut(i) ==
  /\ pc[i] = "close_relock"
  /\ ~instLocked[i]
  /\ instances' = RemoveSession(i)
  /\ unloadPending' = ScheduleCoreDeinit
  /\ pc' = [pc EXCEPT ![i] = "idle"]
  /\ UNCHANGED <<rcur, coreState, sysInitSent, initDone, instLocked, closeDone,
                 faultHandled, workPending, wpc, snap, cur,
                 refcount, instState,
                 closeAns>>

(* mutex_lock(&inst->lock), msm_vidc_remove_session, free the packet;      *)
(* back in msm_vidc_close: inst_unlock, put_inst and                      *)
(* msm_vidc_schedule_core_deinit (cancel and re-arm the unload work when   *)
(* FW_UNLOAD is set).  The thread may then open a new session, which may   *)
(* be given the same memory.                                               *)
CloseFinish(i) ==
  /\ pc[i] = "close_relock"
  /\ ~instLocked[i]
  /\ instances' = RemoveSession(i)
  /\ PutInst(i)
  /\ unloadPending' = ScheduleCoreDeinit
  /\ pc' = [pc EXCEPT ![i] = "idle"]
  /\ UNCHANGED <<rcur, coreState, sysInitSent, initDone, instLocked, closeDone,
                 faultHandled, workPending, wpc, snap, cur,
                 closeAns>>

-----------------------------------------------------------------------------
(* Firmware answers (handled by the response path): sys-init done          *)
(* completes core->init_done; a close answer completes SIGNAL_CMD_CLOSE    *)
(* of a session the core still knows (below).                              *)
FwSysInitDone ==
  /\ sysInitSent
  /\ sysInitSent' = FALSE
  /\ initDone' = TRUE
  /\ UNCHANGED <<rcur, coreState, instances, instState, refcount, instLocked, pc,
                 closeDone, faultHandled, workPending, wpc, snap, cur, unloadPending,
                 closeAns>>

(* The close answer, handled by the response work one answer at a time:  *)
(* get_inst finds the session by session_id (hash32_ptr of the object, so *)
(* a session object has one id) and takes a reference unless the count is *)
(* zero; an answer for a session no longer listed is dropped.             *)
RespCloseGet(i) ==
  /\ rcur = NoInst
  /\ i \in closeAns
  /\ closeAns' = closeAns \ {i}
  /\ IF GetInst(i)
     THEN /\ refcount' = [refcount EXCEPT ![i] = @ + 1]
          /\ rcur' = i
     ELSE UNCHANGED <<refcount, rcur>>
  /\ UNCHANGED <<coreState, sysInitSent, initDone, instances, instState,
                 instLocked, pc, closeDone, faultHandled, workPending, wpc,
                 snap, cur, unloadPending>>

(* The handler completes SIGNAL_CMD_CLOSE of the session it holds, and     *)
(* put_inst drops its reference, freeing the session if its client closed *)
(* it (after a close timeout) in between.                                  *)
RespCloseDone ==
  /\ rcur # NoInst
  /\ closeDone' = [closeDone EXCEPT ![rcur] = TRUE]
  /\ PutInst(rcur)
  /\ rcur' = NoInst
  /\ UNCHANGED <<coreState, sysInitSent, initDone, instances, instLocked, pc,
                 faultHandled, workPending, wpc, snap, cur, unloadPending,
                 closeAns>>

-----------------------------------------------------------------------------
(* msm_vidc_smmu_fault_handler: a repeated fault is ignored when faults    *)
(* are non-fatal; otherwise mark it handled and queue the work.            *)
SmmuFault ==
  /\ ~(faultHandled /\ NonFatalFaults)
  /\ ~(faultHandled /\ workPending)
  /\ faultHandled' = TRUE
  /\ workPending' = TRUE
  /\ UNCHANGED <<rcur, coreState, sysInitSent, initDone, instances, instState,
                 refcount, instLocked, pc, closeDone, wpc, snap, cur, unloadPending,
                 closeAns>>

(* msm_vidc_smmu_fault_work_handler, under the core lock: copy every       *)
(* listed session pointer into instances[MAX_SUPPORTED_INSTANCES].         *)
FaultSnapshot ==
  /\ wpc = "idle"
  /\ workPending
  /\ workPending' = FALSE
  /\ snap' = instances
  /\ wpc' = "scan"
  /\ UNCHANGED <<rcur, coreState, sysInitSent, initDone, instances, instState,
                 refcount, instLocked, pc, closeDone, faultHandled, cur,
                 unloadPending,
                 closeAns>>

(* One turn of the while loop: get_inst_ref on a copied pointer, skip it   *)
(* when it is no longer listed; the loop ends when the copy is used up.    *)
FaultGetRef ==
  /\ wpc = "scan"
  /\ IF snap = {}
     THEN /\ wpc' = "idle"
          /\ UNCHANGED <<snap, refcount, cur>>
     ELSE \E i \in snap :
            /\ snap' = snap \ {i}
            /\ IF GetInstRef(i)
               THEN /\ refcount' = [refcount EXCEPT ![i] = @ + 1]
                    /\ cur' = i
                    /\ wpc' = "print"
               ELSE UNCHANGED <<refcount, cur, wpc>>
  /\ UNCHANGED <<rcur, coreState, sysInitSent, initDone, instances, instState,
                 instLocked, pc, closeDone, faultHandled, workPending,
                 unloadPending,
                 closeAns>>

(* inst_lock, msm_vidc_print_inst_info, inst_unlock, then put_inst: the   *)
(* work item may drop the last reference and free the session.  The print *)
(* changes nothing, so it is one step with the put.                        *)
FaultPut ==
  /\ wpc = "print"
  /\ ~instLocked[cur]
  /\ PutInst(cur)
  /\ cur' = NoInst
  /\ wpc' = "scan"
  /\ UNCHANGED <<rcur, coreState, sysInitSent, initDone, instances, instLocked,
                 pc, closeDone, faultHandled, workPending, snap, unloadPending, closeAns>>

(* msm_vidc_fw_unload_handler: the delayed work runs                       *)
(* msm_vidc_core_deinit(core, false).                                      *)
FwUnloadWork ==
  /\ unloadPending
  /\ unloadPending' = FALSE
  /\ CoreDeinit(FALSE)
  /\ UNCHANGED <<rcur, initDone, refcount, instLocked, pc, closeDone,
                 faultHandled, workPending, wpc, snap, cur>>

-----------------------------------------------------------------------------
Init ==
  /\ coreState = "DEINIT"
  /\ sysInitSent = FALSE
  /\ initDone = FALSE
  /\ instances = {}
  /\ instState = [i \in Insts |-> "NONE"]
  /\ refcount = [i \in Insts |-> 0]
  /\ instLocked = [i \in Insts |-> FALSE]
  /\ pc = [i \in Insts |-> "idle"]
  /\ closeDone = [i \in Insts |-> FALSE]
  /\ faultHandled = FALSE
  /\ workPending = FALSE
  /\ wpc = "idle"
  /\ snap = {}
  /\ cur = NoInst
  /\ unloadPending = FALSE
  /\ closeAns = {}
  /\ rcur = NoInst

Next ==
  \/ \E i \in Insts :
       \/ CoreInit(i) \/ CoreInitWait(i) \/ CoreInitFailed(i)
       \/ AddSession(i) \/ StateCheck(i) \/ StateWrite(i)
       \/ CloseBegin(i) \/ CloseWait(i) \/ CloseTimeout(i) \/ CloseFinish(i)
       \/ RespCloseGet(i)
  \/ FwSysInitDone \/ RespCloseDone
  \/ SmmuFault \/ FaultSnapshot \/ FaultGetRef \/ FaultPut
  \/ FwUnloadWork

Spec == Init /\ [][Next]_vars

-----------------------------------------------------------------------------
TypeOK ==
  /\ coreState \in {"DEINIT", "INIT"}
  /\ {sysInitSent, initDone, faultHandled, workPending, unloadPending} \subseteq BOOLEAN
  /\ instances \subseteq Insts
  /\ instState \in [Insts -> {"NONE", "RUN", "ERROR", "FREED"}]
  /\ refcount \in [Insts -> 0..3]
  /\ instLocked \in [Insts -> BOOLEAN]
  /\ closeDone \in [Insts -> BOOLEAN]
  /\ pc \in [Insts -> {"idle", "wait_init", "init_failed", "add"} \cup Holding]
  /\ wpc \in {"idle", "scan", "print"}
  /\ snap \subseteq Insts
  /\ cur \in Insts \cup {NoInst}
  /\ closeAns \subseteq Insts
  /\ rcur \in Insts \cup {NoInst}

(* The references to a session: its client thread between allocation and  *)
(* its put_inst, the fault work between get_inst_ref and put_inst, and the *)
(* close-answer response work between get_inst and put_inst.              *)
Holders(i) ==
  (IF pc[i] \in Holding THEN 1 ELSE 0) + (IF wpc = "print" /\ cur = i THEN 1 ELSE 0)
    + (IF rcur = i THEN 1 ELSE 0)

(* No use after free: a session that is on core->instances, or that a      *)
(* thread holds (the client, the fault work or the response work), has    *)
(* not been freed by msm_vidc_close_helper.                                *)
NoUseAfterFree ==
  \A i \in Insts :
    (i \in instances \/ Holders(i) > 0) => instState[i] \in {"RUN", "ERROR"}

(* The kref of a live session counts exactly the threads holding it: no    *)
(* put_inst is missing or doubled on any path (close, timeout, the fault   *)
(* work's skip and put, the response work's put after the client's), so   *)
(* the session is freed exactly when the last                              *)
(* holder lets go.                                                         *)
KrefCountsHolders ==
  \A i \in Insts : instState[i] \in {"RUN", "ERROR"} => refcount[i] = Holders(i)

(* ERROR is absorbing: once a session is in ERROR it leaves it only by     *)
(* being freed (msm_vidc_change_inst_state refuses every other change).    *)
ErrorAbsorbing ==
  [][\A i \in Insts : instState[i] = "ERROR" => instState'[i] \in {"ERROR", "FREED"}]_vars

(* Every snapshot the fault work takes fits instances[MAX_SUPPORTED_INSTANCES]: *)
(* no more sessions are linked than the array holds when it copies them.  *)
SnapshotFits ==
  [][FaultSnapshot => Cardinality(instances) <= MaxSupportedInstances]_vars

(* Every linked session runs on an initialised core: the core is not torn  *)
(* down (by the unload work or a timeout) while sessions are linked to it. *)
SessionsOnLiveCore ==
  instances # {} => coreState = "INIT"

=============================================================================
