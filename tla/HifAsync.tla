------------------------------ MODULE HifAsync ------------------------------
(***************************************************************************)
(* The SDIO HIF request path of src/hif/src/sdio/native_sdio/src/hif.c.    *)
(*                                                                         *)
(* Callers submit read/write requests with hif_read_write.  Each takes a   *)
(* bus_request from the device's free list (hif_allocate_bus_request),     *)
(* appends it to the async list (add_to_async_list) and ups sem_async.  A  *)
(* synchronous caller then sleeps on the request's own sem_req.  One       *)
(* kernel thread, async_task, serves the list: it downs sem_async, drains  *)
(* every queued request, frees the asynchronous ones itself and ups        *)
(* sem_req of the synchronous ones, whose callers free them.               *)
(*                                                                         *)
(* System suspend with power cut stops that thread through                 *)
(* hif_disable_func, and resume starts a new one through hif_enable_func.  *)
(* The SDIO core functions they call (hif_sdio_func_enable/disable,        *)
(* reinit_sdio, kthread_create, sdio_set_host_pm_flags) are outside src/:  *)
(* their result is a free choice when BusCanFail holds.                    *)
(*                                                                         *)
(* A bus request is a number 1..NumReqs; the free list is a stack (insert  *)
(* and remove at the head) and the async list a FIFO, both as sequences.   *)
(***************************************************************************)
EXTENDS Naturals, Sequences, FiniteSets

CONSTANTS
  Callers,        \* threads calling hif_read_write
  NumReqs,        \* BUS_REQUEST_MAX_NUM
  NoReq,          \* no request
  Interruptible,  \* a signal may end a caller's down_interruptible(sem_req)
  PowerCut,       \* the host may not keep power in suspend (power cut)
  BusCanFail,     \* SDIO core calls may fail
  MaxSemAsync,    \* bound on the count of sem_async
  CanRemove       \* the mmc stack may remove the card (hif_device_removed)

ASSUME /\ NumReqs \in Nat \ {0}
       /\ {Interruptible, PowerCut, BusCanFail, CanRemove} \subseteq BOOLEAN
       /\ MaxSemAsync \in Nat \ {0}

Reqs == 1..NumReqs
ASSUME NoReq \notin Reqs

VARIABLES
  freeQ,        \* device->bus_request_free_queue, head first
  asyncQ,       \* device->asyncreq and its inusenext chain
  semAsync,     \* count of device->sem_async
  semReq,       \* count of bus_request[r].sem_req
  reqSync,      \* bus_request[r].request & HIF_SYNCHRONOUS
  cpc,          \* a caller: idle, past the suspend test (check_sync or
                \* check_async), or wait in down_interruptible(sem_req)
  creq,         \* the request a waiting caller sleeps on
  task,         \* device->async_task: NULL, LIVE, or ERR (an ERR_PTR)
  wpc,          \* async_task: top of its loop, drain, exec, or exited
  wcur,         \* the request async_task is executing
  shutdown,     \* device->async_shutdown
  isDisabled,   \* device->is_disabled
  isSuspend,    \* device->is_suspend
  powerConfig,  \* device->power_config: UP, DOWN or CUT
  devState,     \* device->device_state: ON, CUTPOWER, WOW or DEEPSLEEP
  ppc           \* the suspend or remove thread: idle, disable_wait or remove_wait
                \* in hif_disable_func, or removed once del_hif_device freed the device

vars == <<freeQ, asyncQ, semAsync, semReq, reqSync, cpc, creq, task, wpc,
          wcur, shutdown, isDisabled, isSuspend, powerConfig, devState, ppc>>
devVars == <<task, shutdown, isDisabled, isSuspend, powerConfig, devState, ppc>>

(* Results an SDIO core call may return.                                   *)
Outcome == IF BusCanFail THEN BOOLEAN ELSE {TRUE}

InSeq(r, s) == \E k \in 1..Len(s) : s[k] = r

-----------------------------------------------------------------------------
(* hif_free_bus_request: insert first in the free list.                    *)
FreeBusRequest(r) == freeQ' = <<r>> \o freeQ

(* hif_allocate_bus_request: remove the first of the free list.           *)
AllocateBusRequest == Head(freeQ)

(* Mutant: the request is linked in front of the async list.               *)
AddToAsyncListHead(r) == asyncQ' = <<r>> \o asyncQ

(* add_to_async_list: walk to the last request and link r after it.       *)
AddToAsyncList(r) == asyncQ' = Append(asyncQ, r)

(* hif_read_write, entry: the test of is_suspend and power_config, made   *)
(* without any lock.  While suspended with the power cut the call returns  *)
(* success without any I/O (a stuttering step); otherwise the caller goes *)
(* on, and a suspend may run before its next step.                         *)
ReadWrite(c, sync) ==
  /\ cpc[c] = "idle"
  /\ ~(isSuspend /\ powerConfig = "CUT")
  /\ cpc' = [cpc EXCEPT ![c] = IF sync THEN "check_sync" ELSE "check_async"]
  /\ UNCHANGED <<freeQ, asyncQ, semAsync, semReq, reqSync, creq, wpc, wcur>>
  /\ UNCHANGED devVars

(* hif_read_write, then: take the head of the free list, or return         *)
(* QDF_STATUS_E_FAILURE when it is empty; fill it in, add_to_async_list    *)
(* (append at the tail) and up(sem_async).  A synchronous caller goes on   *)
(* to sleep on the request's sem_req; an asynchronous one returns          *)
(* QDF_STATUS_E_PENDING.  Nothing here looks at the device state again.    *)
ReadWriteQueue(c) ==
  /\ cpc[c] \in {"check_sync", "check_async"}
  /\ \/ /\ freeQ = <<>>
        /\ cpc' = [cpc EXCEPT ![c] = "idle"]
        /\ UNCHANGED <<freeQ, asyncQ, semAsync, reqSync, creq>>
     \/ /\ freeQ # <<>>
        /\ semAsync < MaxSemAsync
        /\ LET r == AllocateBusRequest
               sync == cpc[c] = "check_sync"
           IN /\ freeQ' = Tail(freeQ)
              /\ reqSync' = [reqSync EXCEPT ![r] = sync]
              /\ AddToAsyncList(r)
              /\ semAsync' = semAsync + 1
              /\ cpc' = [cpc EXCEPT ![c] = IF sync THEN "wait" ELSE "idle"]
              /\ creq' = [creq EXCEPT ![c] = IF sync THEN r ELSE NoReq]
  /\ UNCHANGED <<semReq, wpc, wcur>>
  /\ UNCHANGED devVars

(* Mutant: the synchronous caller returns without freeing its request.     *)
SyncWakeNoFree(c) ==
  /\ cpc[c] = "wait"
  /\ semReq[creq[c]] > 0
  /\ semReq' = [semReq EXCEPT ![creq[c]] = @ - 1]
  /\ cpc' = [cpc EXCEPT ![c] = "idle"]
  /\ creq' = [creq EXCEPT ![c] = NoReq]
  /\ UNCHANGED <<freeQ, asyncQ, semAsync, reqSync, wpc, wcur>>
  /\ UNCHANGED devVars

(* hif_read_write, synchronous case: down_interruptible(sem_req) returns 0 *)
(* once async_task has upped it; the caller reads the status and frees the *)
(* request.                                                                *)
SyncWake(c) ==
  /\ cpc[c] = "wait"
  /\ semReq[creq[c]] > 0
  /\ semReq' = [semReq EXCEPT ![creq[c]] = @ - 1]
  /\ FreeBusRequest(creq[c])
  /\ cpc' = [cpc EXCEPT ![c] = "idle"]
  /\ creq' = [creq EXCEPT ![c] = NoReq]
  /\ UNCHANGED <<asyncQ, semAsync, reqSync, wpc, wcur>>
  /\ UNCHANGED devVars

(* hif_read_write, synchronous case: a signal ends the sleep on sem_req    *)
(* and the caller returns QDF_STATUS_E_FAILURE, leaving its request on the *)
(* async list or with async_task.                                          *)
SyncInterrupted(c) ==
  /\ Interruptible
  /\ cpc[c] = "wait"
  /\ semReq[creq[c]] = 0
  /\ cpc' = [cpc EXCEPT ![c] = "idle"]
  /\ creq' = [creq EXCEPT ![c] = NoReq]
  /\ UNCHANGED <<freeQ, asyncQ, semAsync, semReq, reqSync, wpc, wcur>>
  /\ UNCHANGED devVars

-----------------------------------------------------------------------------
(* async_task, top of its loop: leave when async_shutdown is set, else     *)
(* down(sem_async) and, unless async_shutdown was set meanwhile, claim the *)
(* host and start draining.  Leaving is complete_and_exit.                 *)
WorkerTop ==
  /\ task = "LIVE" /\ wpc = "top"
  /\ \/ /\ shutdown
        /\ wpc' = "exited"
        /\ UNCHANGED semAsync
     \/ /\ ~shutdown
        /\ semAsync > 0
        /\ semAsync' = semAsync - 1
        /\ wpc' = "drain"
  /\ UNCHANGED <<freeQ, asyncQ, semReq, reqSync, cpc, creq, wcur>>
  /\ UNCHANGED devVars

(* async_task under asynclock: pull the head of the async list, or, when   *)
(* the list is empty, release the host and go back to the top.             *)
WorkerPop ==
  /\ task = "LIVE" /\ wpc = "drain"
  /\ \/ /\ asyncQ = <<>>
        /\ wpc' = "top"
        /\ UNCHANGED <<asyncQ, wcur>>
     \/ /\ asyncQ # <<>>
        /\ wcur' = Head(asyncQ)
        /\ asyncQ' = Tail(asyncQ)
        /\ wpc' = "exec"
  /\ UNCHANGED <<freeQ, semAsync, semReq, reqSync, cpc, creq>>
  /\ UNCHANGED devVars

(* Mutant: async_task frees every request it executes, the synchronous     *)
(* ones too.                                                               *)
WorkerExecFreeAll ==
  /\ task = "LIVE" /\ wpc = "exec"
  /\ FreeBusRequest(wcur)
  /\ semReq' = IF reqSync[wcur] THEN [semReq EXCEPT ![wcur] = @ + 1] ELSE semReq
  /\ wpc' = "drain"
  /\ wcur' = NoReq
  /\ UNCHANGED <<asyncQ, semAsync, reqSync, cpc, creq>>
  /\ UNCHANGED devVars

(* Mutant: sem_req is upped for asynchronous requests as well.             *)
WorkerExecUpAll ==
  /\ task = "LIVE" /\ wpc = "exec"
  /\ IF reqSync[wcur] THEN UNCHANGED freeQ ELSE FreeBusRequest(wcur)
  /\ semReq' = [semReq EXCEPT ![wcur] = @ + 1]
  /\ wpc' = "drain"
  /\ wcur' = NoReq
  /\ UNCHANGED <<asyncQ, semAsync, reqSync, cpc, creq>>
  /\ UNCHANGED devVars

(* async_task: __hif_read_write in synchronous mode; then an asynchronous  *)
(* request is freed before rw_compl_handler is called, and a synchronous   *)
(* one gets its status and up(sem_req).                                    *)
WorkerExec ==
  /\ task = "LIVE" /\ wpc = "exec"
  /\ IF reqSync[wcur] THEN UNCHANGED freeQ ELSE FreeBusRequest(wcur)
  /\ semReq' = IF reqSync[wcur] THEN [semReq EXCEPT ![wcur] = @ + 1] ELSE semReq
  /\ wpc' = "drain"
  /\ wcur' = NoReq
  /\ UNCHANGED <<asyncQ, semAsync, reqSync, cpc, creq>>
  /\ UNCHANGED devVars
-----------------------------------------------------------------------------
(* The end of hif_disable_func after async_task is gone or was never       *)
(* started (ok is the result of hif_sdio_func_disable), then the end of    *)
(* power_state_change_notify(POWER_CUT) with is_suspend set, and of        *)
(* hif_device_suspend: the device is in CUTPOWER.                          *)
DisableTail(ok) ==
  /\ isDisabled' = (ok \/ isDisabled)
  /\ devState' = "CUTPOWER"
  /\ ppc' = "idle"

(* hif_disable_func with an async_task that is not an ERR_PTR (a NULL one *)
(* included): set async_shutdown, up(sem_async), wait_for_completion.     *)
DisableBegin ==
  /\ shutdown' = TRUE
  /\ semAsync' = semAsync + 1
  /\ ppc' = "disable_wait"

(* hif_device_suspend without MMC_PM_KEEP_POWER: is_suspend and power_config *)
(* CUT are set first, then hif_configure_device(POWER_STATE_CHANGE) runs   *)
(* hif_disable_func.  Unless async_task is an ERR_PTR, that sets           *)
(* async_shutdown, ups sem_async and waits for async_task to complete.     *)
SuspendCut ==
  /\ PowerCut
  /\ ppc = "idle" /\ devState = "ON"
  /\ isSuspend' = TRUE
  /\ powerConfig' = "CUT"
  /\ \/ /\ task = "ERR"
        /\ \E ok \in Outcome : DisableTail(ok)
        /\ UNCHANGED <<shutdown, semAsync>>
     \/ /\ task # "ERR"
        /\ DisableBegin
        /\ UNCHANGED <<isDisabled, devState>>
  /\ UNCHANGED <<freeQ, asyncQ, semReq, reqSync, cpc, creq, task, wpc, wcur>>

(* Mutant: sem_async is not re-initialised, so the up that woke the old   *)
(* async_task for shutdown stays counted.                                  *)
DisableDoneNoSemaInit ==
  /\ ppc = "disable_wait"
  /\ task = "LIVE" /\ wpc = "exited"
  /\ task' = "NULL"
  /\ \E ok \in Outcome : DisableTail(ok)
  /\ UNCHANGED <<freeQ, asyncQ, semAsync, semReq, reqSync, cpc, creq, wpc, wcur,
                 shutdown, isSuspend, powerConfig>>

(* hif_disable_func after wait_for_completion returns: async_task = NULL,  *)
(* sema_init(sem_async, 0), then hif_sdio_func_disable.                    *)
DisableDone ==
  /\ ppc = "disable_wait"
  /\ task = "LIVE" /\ wpc = "exited"
  /\ task' = "NULL"
  /\ semAsync' = 0
  /\ \E ok \in Outcome : DisableTail(ok)
  /\ UNCHANGED <<freeQ, asyncQ, semReq, reqSync, cpc, creq, wpc, wcur,
                 shutdown, isSuspend, powerConfig>>

(* del_hif_device: the device (and its bus requests, async list and      *)
(* semaphores) is freed.                                                   *)
DelHifDevice == ppc' = "removed"

(* hif_device_removed without power cut (with power cut it only clears     *)
(* device->func, which the model does not track): the device leaves        *)
(* hif_devices[], hif_sdio_remove and hif_mask_interrupt run, then a       *)
(* disabled device only has is_disabled cleared, any other goes through    *)
(* hif_disable_func, which waits for async_task (an ERR_PTR, for which it  *)
(* would not wait, is only left by hif_enable_func on a disabled device,   *)
(* which stays disabled).  The mmc stack does not run remove and suspend   *)
(* of one card at the same time.                                           *)
RemoveBegin ==
  /\ CanRemove
  /\ ppc = "idle" /\ powerConfig # "CUT"
  /\ \/ /\ isDisabled
        /\ isDisabled' = FALSE
        /\ DelHifDevice
        /\ UNCHANGED <<shutdown, semAsync>>
     \/ /\ ~isDisabled
        /\ shutdown' = TRUE
        /\ semAsync' = semAsync + 1
        /\ ppc' = "remove_wait"
        /\ UNCHANGED isDisabled
  /\ UNCHANGED <<freeQ, asyncQ, semReq, reqSync, cpc, creq, task, wpc, wcur,
                 isSuspend, powerConfig, devState>>

(* hif_disable_func of the removal after async_task completed: async_task  *)
(* = NULL, sema_init(sem_async, 0), hif_sdio_func_disable; then            *)
(* del_hif_device.                                                         *)
RemoveDone ==
  /\ ppc = "remove_wait"
  /\ task = "LIVE" /\ wpc = "exited"
  /\ task' = "NULL"
  /\ semAsync' = 0
  /\ \E ok \in Outcome : isDisabled' = (ok \/ isDisabled)
  /\ DelHifDevice
  /\ UNCHANGED <<freeQ, asyncQ, semReq, reqSync, cpc, creq, wpc, wcur,
                 shutdown, isSuspend, powerConfig, devState>>

(* hif_device_suspend keeping power.  With MMC_PM_WAKE_SDIO_IRQ (WOW)      *)
(* power_state_change_notify(POWER_DOWN) sets power_config DOWN; otherwise *)
(* the card enters deep sleep.  Either sdio_set_host_pm_flags call may     *)
(* fail, which returns -EINVAL with is_suspend already set.                *)
SuspendKeepPower ==
  /\ ppc = "idle" /\ devState = "ON"
  /\ isSuspend' = TRUE
  /\ \/ /\ powerConfig' = "DOWN"
        /\ devState' = "WOW"
     \/ /\ devState' = "DEEPSLEEP"
        /\ UNCHANGED powerConfig
     \/ /\ BusCanFail
        /\ UNCHANGED <<powerConfig, devState>>
     \/ /\ BusCanFail
        /\ powerConfig' = "DOWN"
        /\ UNCHANGED devState
  /\ UNCHANGED <<freeQ, asyncQ, semAsync, semReq, reqSync, cpc, creq, task,
                 wpc, wcur, shutdown, isDisabled, ppc>>

(* Mutant: a successful kthread_create leaves is_disabled as it was.      *)
EnableFuncKeepDisabled(s, enOk, kOk) ==
  IF enOk /\ s.task = "NULL" /\ s.dis
  THEN IF kOk THEN [task |-> "LIVE", dis |-> s.dis, sd |-> FALSE]
              ELSE [task |-> "ERR", dis |-> s.dis, sd |-> FALSE]
  ELSE s

(* hif_enable_func on a state s = [task, dis, sd]: nothing when            *)
(* hif_sdio_func_enable fails (enOk); a new async_task only when there is  *)
(* none and the device is disabled, which clears async_shutdown and, when  *)
(* kthread_create succeeds (kOk), is_disabled.  A failed kthread_create    *)
(* leaves an ERR_PTR in async_task.                                        *)
EnableFunc(s, enOk, kOk) ==
  IF enOk /\ s.task = "NULL" /\ s.dis
  THEN IF kOk THEN [task |-> "LIVE", dis |-> FALSE, sd |-> FALSE]
              ELSE [task |-> "ERR", dis |-> s.dis, sd |-> FALSE]
  ELSE s

(* power_state_change_notify(POWER_UP) with power_config CUT and          *)
(* is_suspend set: reinit_sdio, then hif_enable_func if it succeeded.      *)
NotifyPowerUp(s, reinitOk, enOk, kOk) ==
  IF reinitOk THEN EnableFunc(s, enOk, kOk) ELSE s

(* hif_device_resume from CUTPOWER: power_state_change_notify(POWER_UP)    *)
(* with power_config CUT and is_suspend set runs reinit_sdio, sets         *)
(* power_config UP and, if reinit succeeded, hif_enable_func; then         *)
(* hif_device_resume calls hif_enable_func a second time and clears        *)
(* is_suspend.  A new async_task starts at the top of its loop.            *)
ResumeCut ==
  /\ ppc = "idle" /\ devState = "CUTPOWER"
  /\ \E reinitOk, en1, k1, en2, k2 \in Outcome :
       LET s0 == [task |-> task, dis |-> isDisabled, sd |-> shutdown]
           s1 == NotifyPowerUp(s0, reinitOk, en1, k1)
           s2 == EnableFunc(s1, en2, k2)
       IN /\ task' = s2.task
          /\ isDisabled' = s2.dis
          /\ shutdown' = s2.sd
          /\ wpc' = IF s2.task = "LIVE" /\ task # "LIVE" THEN "top" ELSE wpc
  /\ powerConfig' = "UP"
  /\ isSuspend' = FALSE
  /\ devState' = "ON"
  /\ UNCHANGED <<freeQ, asyncQ, semAsync, semReq, reqSync, cpc, creq, wcur, ppc>>

(* hif_device_resume from WOW or deep sleep: unmask the interrupt, clear   *)
(* is_suspend.                                                             *)
ResumeKeepPower ==
  /\ ppc = "idle" /\ devState \in {"WOW", "DEEPSLEEP"}
  /\ isSuspend' = FALSE
  /\ devState' = "ON"
  /\ UNCHANGED <<freeQ, asyncQ, semAsync, semReq, reqSync, cpc, creq, task,
                 wpc, wcur, shutdown, isDisabled, powerConfig, ppc>>

-----------------------------------------------------------------------------
(* After hif_device_inserted for a new device: every bus request pushed on *)
(* the free list in index order (so the last one is the head), sem_async   *)
(* at 0, and hif_enable_func has started async_task.                       *)
Init ==
  /\ freeQ = [k \in 1..NumReqs |-> NumReqs + 1 - k]
  /\ asyncQ = <<>>
  /\ semAsync = 0
  /\ semReq = [r \in Reqs |-> 0]
  /\ reqSync = [r \in Reqs |-> FALSE]
  /\ cpc = [c \in Callers |-> "idle"]
  /\ creq = [c \in Callers |-> NoReq]
  /\ task = "LIVE"
  /\ wpc = "top"
  /\ wcur = NoReq
  /\ shutdown = FALSE
  /\ isDisabled = FALSE
  /\ isSuspend = FALSE
  /\ powerConfig = "UP"
  /\ devState = "ON"
  /\ ppc = "idle"

Caller(c) ==
  \/ \E sync \in BOOLEAN : ReadWrite(c, sync)
  \/ ReadWriteQueue(c)
  \/ SyncWake(c)
  \/ SyncInterrupted(c)

Worker == WorkerTop \/ WorkerPop \/ WorkerExec

Power == SuspendCut \/ DisableDone \/ SuspendKeepPower \/ ResumeCut \/ ResumeKeepPower
         \/ RemoveBegin \/ RemoveDone

Next == (\E c \in Callers : Caller(c)) \/ Worker \/ Power

(* async_task is a kernel thread and runs whenever it is runnable; a       *)
(* caller inside hif_read_write goes on, and one whose sem_req was upped   *)
(* is woken; the suspend thread resumes once async_task completes.         *)
(* Callers issuing requests, signals, suspend                              *)
(* and resume are not assumed to happen.                                   *)
Fairness ==
  /\ WF_vars(WorkerTop) /\ WF_vars(WorkerPop) /\ WF_vars(WorkerExec)
  /\ WF_vars(DisableDone)
  /\ \A c \in Callers : WF_vars(ReadWriteQueue(c)) /\ WF_vars(SyncWake(c))

Spec == Init /\ [][Next]_vars /\ Fairness

-----------------------------------------------------------------------------
TypeOK ==
  /\ freeQ \in Seq(Reqs) /\ asyncQ \in Seq(Reqs)
  /\ semAsync \in 0..MaxSemAsync + 1
  /\ semReq \in [Reqs -> Nat]
  /\ reqSync \in [Reqs -> BOOLEAN]
  /\ cpc \in [Callers -> {"idle", "check_sync", "check_async", "wait"}]
  /\ creq \in [Callers -> Reqs \cup {NoReq}]
  /\ task \in {"NULL", "LIVE", "ERR"}
  /\ wpc \in {"top", "drain", "exec", "exited"}
  /\ wcur \in Reqs \cup {NoReq}
  /\ {shutdown, isDisabled, isSuspend} \subseteq BOOLEAN
  /\ powerConfig \in {"UP", "DOWN", "CUT"}
  /\ devState \in {"ON", "CUTPOWER", "WOW", "DEEPSLEEP"}
  /\ ppc \in {"idle", "disable_wait", "remove_wait", "removed"}

(* The requests on the free list, on the async list and in async_task's    *)
(* hands, in that order.                                                   *)
Placed == freeQ \o asyncQ \o (IF wpc = "exec" THEN <<wcur>> ELSE <<>>)

(* A bus request has one owner at a time: it is never twice on the free    *)
(* list or the async list, never on both, never freed while async_task     *)
(* executes it or while a synchronous caller still sleeps on it, and no    *)
(* two callers sleep on the same one.  Breaking it takes a free by both    *)
(* async_task and the caller, or a request put back twice.                 *)
RequestOwnershipExclusive ==
  /\ \A i, j \in 1..Len(Placed) : i # j => Placed[i] # Placed[j]
  /\ \A c \in Callers : cpc[c] = "wait" => ~InSeq(creq[c], freeQ)
  /\ \A c, d \in Callers :
       (c # d /\ cpc[c] = "wait" /\ cpc[d] = "wait") => creq[c] # creq[d]

(* A request on the free list carries no pending up of its sem_req, so the *)
(* next synchronous caller that takes it sleeps until async_task has       *)
(* executed its own transfer, never returning an earlier status.           *)
FreeRequestsQuiescent == \A k \in 1..Len(freeQ) : semReq[freeQ[k]] = 0

(* Every bus request is accounted for: free, queued, being executed, or    *)
(* held by a caller that sleeps on it.  One that is none of these is lost  *)
(* to the pool for good.                                                   *)
PoolConserved ==
  \A r \in Reqs :
    \/ InSeq(r, freeQ) \/ InSeq(r, asyncQ)
    \/ (wpc = "exec" /\ wcur = r)
    \/ \E c \in Callers : cpc[c] = "wait" /\ creq[c] = r

(* Every bus request taken from the free list eventually returns to it:    *)
(* async_task executes every queued request, and an asynchronous request   *)
(* is freed by async_task, a synchronous one by its woken caller.          *)
RequestsReturnToPool == \A r \in Reqs : ~InSeq(r, freeQ) ~> InSeq(r, freeQ)

(* The refinement mapping to HifRequestQueue: the pool is the free list,   *)
(* the queue is the request async_task has pulled followed by the async   *)
(* list, and a synchronous request is served once its sem_req was upped.  *)
Pulled == IF wpc = "exec" THEN <<wcur>> ELSE <<>>

Abstract == INSTANCE HifRequestQueue
              WITH free <- {freeQ[k] : k \in 1..Len(freeQ)},
                   queue <- Pulled \o asyncQ,
                   served <- {r \in Reqs : semReq[r] > 0}

(* HifAsync implements HifRequestQueue: every step of callers, async_task  *)
(* and the suspend and resume paths either stutters or is a submit, the    *)
(* service of the oldest request, or a caller giving back a served one.   *)
(* A request appended anywhere but at the tail, served twice, freed by    *)
(* both async_task and its caller, or freed before it was served breaks    *)
(* it.                                                                     *)
ServesInSubmissionOrder == Abstract!Spec

(* hif_disable_func waits for async_completion only while an async_task    *)
(* exists that will complete it; otherwise suspend sleeps for ever.        *)
NoWaitOnMissingTask == ppc \in {"disable_wait", "remove_wait"} => task = "LIVE"

(* hif_device_removed frees the device only once no async_task runs on it. *)
(* It skips hif_disable_func for a device whose is_disabled is set, so     *)
(* this rests on is_disabled never being set while a thread lives:         *)
(* hif_enable_func clears it exactly when kthread_create succeeds, and     *)
(* hif_disable_func sets it only after the thread completed, across any    *)
(* order of suspends, resumes and failing SDIO calls before the removal.   *)
RemovedWithoutThread == ppc = "removed" => task # "LIVE"

(* No synchronous caller still sleeps on a bus request of a device that    *)
(* hif_device_removed has freed: the async_task it stopped never drained   *)
(* the async list.                                                         *)
NoCallerOnFreedDevice == ppc = "removed" => \A c \in Callers : cpc[c] = "idle"
=============================================================================
