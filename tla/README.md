# TLA+ models of the msm_vidc video driver core (and neighbours)

This directory holds TLA+ specifications of the code under `src/`, checked
with TLC. Each module is translated from the C source, and `PROJECT.json`
maps every definition to the lines it models. Where the code a definition
stands for is not under `src/` (the callers of the driver functions, the
firmware), it is modelled from `spec.md` and marked `spec_modelled`.

## The system

`src/` holds six files from three unrelated kernel drivers:

| Part | Source | State | Concurrency |
|---|---|---|---|
| Video session state machine | `driver/vidc/src/msm_vidc_driver.c` 486-1060, `inc/msm_vidc_control.h` | `inst->state`, `inst->response_works` (deferred IPSC), vb2 `streaming` of 4 queues | Runs under `inst->lock`. |
| Core lifecycle and session registry | `msm_vidc_driver.c` 2044-2320, 2548-2800, 2891-2964 | `core->state`, `core->instances`, `init_done`, each session's `kref`, the fault and unload works | Client threads, the firmware response thread, the SMMU fault irq and its work, the delayed unload work. The waits drop the locks. |
| Buffer lifecycle | `msm_vidc_driver.c` 1127-1912, 2806-2889 | client buffer list, refcounted maps, internal buffers | Runs under `inst->lock`, with firmware responses; stream-off drops the lock while it waits. |
| Capability tables | `msm_vidc_driver.c` 25-30, 2322-2547 | `core->capabilities`, `core->inst_caps`, `codecs_count`, a session's capabilities | Probe, then sessions; no concurrency. |
| SDIO HIF async requests | `hif/src/sdio/native_sdio/src/hif.c` | async request list, bus-request pool, `sem_async`, `sem_req`, device power state | Caller threads, the `async_task` thread, suspend and resume. |
| Display trusted-VM handoff | `msm/sde/sde_vm_trusted.c`, `sde_vm_common.h` | `n_irq_lent`, `io_mem_handle` | Hypervisor notifications and release under `vm_res_lock`; init without it. |
| RX MPDU descriptor | `qcom/.../rx_mpdu_info.h` | none: generated bit-field offsets | none |

How the video parts interact: a client call first asks the core to be
initialised, then links its session on `core->instances`. The session then
drives its own state machine and buffers. A timeout in any session forces a
core deinit, which unlinks every session and puts it in ERROR. The fault work
and the firmware response path reach sessions through the list with
`get_inst_ref` and the kref. Capability tables are built at probe and copied
into each session at open. The HIF and the display VM do not touch the video
driver.

## Modules

### `VidcInstance`: one session's state machine

State: `state` (`inst->state`), `pendingIpsc` (IPSC works deferred on
`response_works`), `streaming[type]`. The guards (`AllowStreamon`,
`AllowStreamoff`, `AllowStop`, `AllowStart`, `AllowInputPsc`,
`AllowLastFlag`, and the reconfiguration guards `AllowSFmt`, `AllowReqbufs`,
`AllowSCtrl`, whose control ids are abstracted to `CtrlIds`) and the transitions (`StateChangeStreamon`, ...,
`StateChangeLastFlag`) are named after their C functions;
`ProcessPendingIpsc` is the replay of a deferred IPSC. The actions are the
callers (`StreamOn`, `StreamOff`, `Stop`, `Start`, `InputPsc`, `LastFlag`,
`KillSession`), which live outside `src/`. Whether the firmware handled a
replayed IPSC and whether streamon or start succeeded are free choices.

### `VidcCore` (checked through `MCVidcCore`): the core and its sessions

Sessions are model values, each with a client thread `pc`:
- open is `CoreInit` → `CoreInitWait` → `AddSession`, failing through
  `CoreInitFailed` (`core_deinit(true)`);
- a state change is `StateCheck` (read under `inst->lock`) then `StateWrite`,
  because `core_deinit` can write ERROR in between;
- close is `CloseBegin` → `CloseWait` (lock dropped) → `CloseTimeout` (forced
  deinit) → `CloseFinish` (`remove_session`, `put_inst`,
  `schedule_core_deinit`).

Other actors: the firmware (`FwSysInitDone`), the response work for a close
answer (`RespCloseGet`: `get_inst` by session id; `RespCloseDone`: complete
`SIGNAL_CMD_CLOSE`, `put_inst`, which frees the session when its client
closed it after a timeout in between), the SMMU irq (`SmmuFault`) and its work (`FaultSnapshot` →
`FaultGetRef` → `FaultPut`, where the print under `inst->lock` changes
nothing and is one step with the put), the delayed unload (`FwUnloadWork`).
`closeAns` holds the close answers the firmware still owes; a core deinit
resets the firmware and drops them. A section holding
`core->lock` without waiting is one step. A freed session's memory may be
reused by a new open, so pointer reuse is modelled.

### `VidcBuffers` (checked through `MCVidcBuffers`): client and internal buffers

Client half: the port whose buffers may repeat (decoder OUTPUT or encoder
INPUT, chosen at Init). Objects and dmabufs are model values; `objState`
(FREE, LISTED, DANGLING), `attr` and `mapRef[d]` (the map refcount).
`QueueBuffer` is `msm_vidc_queue_buffer` with `get_driver_buf`: `ReuseBuf`
(decoder read-only repeat, no map) or `NewBuf` (kzalloc, `list_add_tail`,
map). Stream-off is split at its unlocked wait: `StreamoffBegin`,
`StreamoffEnd` (kill and flush when buffers are still QUEUED or the stop timed
out). `CloseSession` is `msm_vidc_destroy_buffers`.

Internal half: `AllocAndQueueInternal` is
`msm_vidc_alloc_and_queue_session_internal_buffers` as one step, because it
runs under `inst->lock`: `GetInternalBuffers` (reuse when the size and count
still fit), `CreateInternalBuffers` (list the buffer, then alloc and map, each
able to fail), `QueueInternalBuffers` (send every listed buffer that is not
QUEUED, each HFI call able to fail). `ReleaseInternalBuffers`,
`DestroyInternalBuffer` (looks the buffer up by dmabuf, `DmaKey`),
`FwInternalReleaseDone` (firmware, from the spec) and `CloseInternal`
complete the cycle.

Modelled from the spec: `StreamOn`, `FwBufferDone`, `FwReleaseRO`,
`FwStopDone`, `FwInternalReleaseDone`.

### `VidcCaps`: the capability tables

A pure algorithm checked against a reference. The platform tables are chosen
in Init over every small table. The code's loops are operators: `CountBits`
(COUNT_BITS, RECURSIVE), `NextSetBit` (the inner while loop),
`DomainCodecs` (one codec loop, carrying `check_bit`), `InitCoreCapsFrom`
(FoldLeft over the first CORE_CAP_MAX entries), `InstCapsSkeleton` (the u8
masks, the count, both codec loops), `InitInstanceCapsFrom` (the platform loop
with `Matches` and `UpdateInstCapability`), and `GetInstCapability` (last
match wins, zero when none). The actions are the lifecycle: `InitCoreCaps`,
`InitInstanceCaps`, `OpenSession` (whose codec is `V4l2CodecToDriver` of a
V4L2 pixel format: H264, HEVC, VP9, or one the driver does not know, which
gives 0), `CloseSession`, `DeinitInstanceCaps`
(which, like the code, leaves `codecs_count`), `DeinitCoreCaps`. The
reference (`RefCore`, `SupportedPairs`, `RefCaps`) states the tables over the
platform data with sets, not loops.

### `HifAsync` (checked through `MCHifAsync`) and `HifRequestQueue`

`HifAsync` models hif.c's request path. Callers (`ReadWrite`, the unlocked suspend
test; `ReadWriteQueue`; then `SyncWake` or `SyncInterrupted`) take a bus request from the free list (a
stack, `freeQ`), append it to the async list (`asyncQ`) and up `sem_async`.
The `async_task` thread (`WorkerTop`, `WorkerPop`, `WorkerExec`) drains the
list, frees asynchronous requests and ups `sem_req` of synchronous ones.
Suspend and resume (`SuspendCut`, `DisableDone`, `SuspendKeepPower`,
`ResumeCut`, `ResumeKeepPower`, via `DisableBegin`, `EnableFunc`,
`NotifyPowerUp`) stop and restart the thread. Card removal without power cut
(`RemoveBegin`, `RemoveDone`, `DelHifDevice`: `hif_device_removed`) clears
`is_disabled` of a disabled device, otherwise runs `hif_disable_func`, and
then frees the device (`ppc = "removed"`); with `CanRemove` false it never
happens. SDIO core calls outside `src/` succeed or fail freely when
`BusCanFail`.

`HifRequestQueue` is the abstract specification of the path: a pool, a FIFO
of submitted requests, served requests not yet given back. `HifAsync`
instantiates it with the refinement mapping free list ↦ pool, (request being
executed) ∘ async list ↦ queue, requests with a pending `sem_req` up ↦
served, and checks `Abstract!Spec` as a property.

### `SdeVmTrusted`: display resources lent to the trusted VM

`ipc` is the init/teardown progress (`InitRegister`, `InitPublish`,
`Deinit`). The hypervisor is abstracted to who holds the memory and each irq.
`PrimaryLend` starts a lend cycle; `IrqLendHandler` and `MemLendHandler` are
the notification handlers; `Release` is `_sde_vm_release` (with `ReleaseIrq`);
`OwnsHw` is `sde_vm_owns_hw`. Every RM call may fail when `HypCanFail`.

## Runs

| Run | Cfg | Expect | What it shows |
|---|---|---|---|
| instance_safety | `VidcInstance.cfg` | pass | `InputPortConsistent`: outside ERROR the input queue streams exactly when the state says the input port is started. `PortSettingsFrozenWhileStreaming`: the s_fmt, reqbufs and s_ctrl guards, which look only at the state, never admit a format change or buffer reallocation on a streaming main queue, nor a static control while the input streams. |
| core_safety | `VidcCore.cfg` | pass | `NoUseAfterFree`: no listed or held session is freed, across close, close timeout, forced and delayed deinit, fault work and memory reuse. `KrefCountsHolders`: the kref counts the threads holding the session, the response work that holds a late close answer's reference included. |
| core_dead_core | `VidcCore_unload_race.cfg` | violation | `SessionsOnLiveCore` fails: a second `core_init` returns 0 during the first one's init (line 2591); the first one's failure deinits the core and the second session is linked to a DEINIT core. |
| buffers_safety | `VidcBuffers.cfg` | pass | `MapCountsBuffers`, `StoppedPortHoldsNothing` (also for buffers queued during the unlocked stop wait), `FirmwareHoldsOnce` (the PENDING_RELEASE test at 1764 reads `flags`, never set; the QUEUED test alone keeps it true). |
| buffers_map_fail | `VidcBuffers_map_fail.cfg` | violation | `NoDanglingBuffer` fails: a failed map frees a new buffer (line 1385) still on the list (line 1366). |
| buffers_internal | `VidcBuffers_internal.cfg` | violation | `QueuedInternalMapped` fails: a failed alloc or map leaves a listed internal buffer without memory (line 1675), and a later round queues it to the firmware. |
| caps_reference | `VidcCaps.cfg` | pass | `InstCapsMatchPlatform`: one entry per supported (domain, codec), each with the reference values. `SessionCapsMatchPlatform`: a session gets exactly its own pair's entry. |
| hif_safety | `HifAsync.cfg` | pass | `RequestOwnershipExclusive`, `FreeRequestsQuiescent`, `ServesInSubmissionOrder` (the refinement of `HifRequestQueue`) and `RemovedWithoutThread` (removal, which skips `hif_disable_func` when `is_disabled` is set, never frees the device under a live `async_task`), with signals, power cut, failing SDIO calls and card removal. |
| hif_liveness | `HifAsync_liveness.cfg` | pass | `RequestsReturnToPool`: without signals, power cut or card removal every request returns to the pool. |
| hif_interrupt_leak | `HifAsync_interrupt.cfg` | violation | `PoolConserved` fails: an interrupted synchronous call (line 447) leaves its request with nobody to free it. |
| sde_safety | `SdeVmTrusted.cfg` | pass | `IrqCountWithinHeld`, `HandleNamesAcceptedMem`, with every RM call able to fail and handlers racing init. |
| sde_owns_hw | `SdeVmTrusted_owns_hw.cfg` | violation | `OwnsHwSound` fails: `io_mem_handle` starts at 0, so irq notifications handled first make `owns_hw` true while the memory is only lent (line 303). |

Each property of a passing run has a mutant in `PROJECT.json`: a plausible bug
in the mapped code that TLC catches under the run's cfg.

### Stated but not kept as runs

These properties are in the modules, and TLC finds each one violated with the
module's constants set as described. They are left out of the run list to
keep it to the distinct questions above:
- `OutputPortConsistent` (VidcInstance): an input streamoff in
  DRAIN_START_INPUT goes to START_OUTPUT (line 900) with no queue streaming.
- `ReplayedIpscEntersDrc` (VidcInstance): an IPSC deferred in DRC survives an
  output streamoff (line 914) and is replayed later into START.
- `ErrorAbsorbing` (VidcCore): the ERROR written by `core_deinit` (line 2571)
  is overwritten by a state change that passed its check first.
- `SnapshotFits` (VidcCore, three sessions against `MaxSupportedInstances =
  2`): the fault work copies every linked session into
  `instances[MAX_SUPPORTED_INSTANCES]` without a bound (line 2718).
- `StreamoffAckedSucceeds` (VidcBuffers): a qbuf during the unlocked stop wait
  (line 2225) leaves a QUEUED buffer and the session is killed although the
  firmware stopped in time.
- `NoWaitOnMissingTask` (HifAsync): after a failed `kthread_create`,
  `hif_disable_func` waits for a completion nothing will signal (line 680).
- `NoCallerOnFreedDevice` (HifAsync): `hif_device_removed` stops
  `async_task` without draining the async list and frees the device while a
  synchronous caller still sleeps on one of its bus requests (line 1393).
- `FirmwareHoldsOnlyListed` (VidcBuffers, with the constants of
  `buffers_internal`): `msm_vidc_destroy_internal_buffer` deletes the first
  listed buffer with a matching dmabuf (line 1569); for a release done of a
  half-created buffer the key is NULL, and another half-created buffer the
  firmware still holds is deleted instead.
- `RequestsReturnToPool` with `PowerCut = TRUE`: `async_task` exits on
  shutdown without draining the async list (line 514); and a caller that
  passed the unlocked suspend test (line 411) before a power-cut suspend
  queues its request to an `async_task` that is being stopped.

## Bounds and why they suffice

- VidcInstance: `MaxPendingIpsc = 2`, one more than the code assumes; all four
  queue types.
- VidcCore: two sessions (one's close timeout deinits the core under the
  other; the fault work holds a session while its owner closes and reopens).
  The sessions are symmetric. Fatal faults, so the work can be re-queued; delayed unload on.
- VidcBuffers: three client objects, two dmabufs (a decoder RO repeat, two
  encoder objects on one dmabuf, a qbuf during the stop wait); two internal
  objects, sizes and counts {1, 2} (reuse, growth, partial queue). Map
  failure is off in the passing run: its path ends in a dangling entry,
  undefined behaviour, shown by `buffers_map_fail`.
- VidcCaps: two codec bits, core tables of up to two entries (both masks set,
  a type given twice), instance tables of up to two entries over every domain
  mask, codec mask and one valid and one out-of-range id: 25,039 platform
  pairs. Sessions open with the three known pixel formats and an unknown
  one; VP9's codec bit lies above the two modelled bits, so it meets tables
  that never list it. The CORE_CAP_MAX cut-off and codec bits above 7 (lost to the u8
  narrowing) are modelled but not reached at these bounds; a third core entry
  made the run exceed five minutes.
- HifAsync: two callers (symmetric), two bus requests, `sem_async` capped at
  4: enough for a synchronous and an asynchronous request in flight together
  and for a request to be reused. Removal may come in any state the
  suspend and resume paths reach, so after any of their failures.
- SdeVmTrusted: two irq labels, up to three lend cycles.

## Fairness

- HifAsync: `async_task` is a kernel thread and runs whenever it is runnable
  (weak fairness of its steps); a caller inside `hif_read_write` goes on
  (`ReadWriteQueue`), and one whose `sem_req` was upped is woken;
  the suspend thread resumes once `async_task` completes. Callers, signals,
  suspend and resume are not assumed to happen.
- The other modules check only safety and assume no fairness.

`CHECK_DEADLOCK FALSE` is set for HifAsync (the suspend thread can hang in
`hif_disable_func`, a state where nothing moves) and SdeVmTrusted (the lend
bound ends every behaviour, and a failed release can leave the primary VM
unable to lend again).

## Not modelled

- `rx_mpdu_info.h`: generated register layout with no behaviour.
- `msm_vidc_control.h`: only declarations are in `src/`.
- `sde_vm_common.h`: structures and declarations; used by `SdeVmTrusted`.
- HIF device insertion (`hif_device_inserted`) and removal with power cut
  (which only clears `device->func`): re-probing a device kept across a power
  cut looks it up through the drvdata of the new `sdio_func`, which the mmc
  stack (outside `src/`) decides, and re-pushes every bus request onto a free
  list it does not reset; a failed enable frees a device whose thread may
  have started (hazards at hif.c 1118, 1126). Modelling them would need the
  mmc stack's behaviour and memory reuse of the whole device. Card removal
  without power cut is modelled.
- Properties for the hazards still without one: each is a defect of the
  code that TLC finds (listed above under the properties stated but not
  kept) or that needs a violation run of its own, and the project keeps at
  most twelve runs, five of them violations.
- Conversion tables, logging and formatting functions of `msm_vidc_driver.c`:
  pure mappings with no state.
- Session-id hash collisions: sessions are distinct model values.
- The HFI packet builders of `msm_vidc_driver.c` (`msm_vidc_session_open`,
  `msm_vidc_session_set_codec`, `msm_vidc_session_set_default_header`,
  `msm_vidc_session_streamon`, `msm_vidc_update_meta_port_settings`) and the
  buffer-region choice (`msm_vidc_get_buffer_region`): they fill packets or
  pick a memory region and forward to the HFI layer, which is outside `src/`;
  the only state they change (the packet allocated at open and freed at
  close, the region of a mapping) is not read by any modelled guard.
  `msm_vidc_get_buffer_region` gives ARP buffers the secure non-pixel region
  even in a non-secure session (a TODO in the code); `spec.md` gives no
  region table to compare it with.
