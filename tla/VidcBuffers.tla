----------------------------- MODULE VidcBuffers -----------------------------
(***************************************************************************)
(* Client buffers of one session port, src/driver/vidc/src/               *)
(* msm_vidc_driver.c: msm_vidc_get_driver_buf with its repeat policy,      *)
(* msm_vidc_map/unmap_driver_buf and the refcounted mappings,              *)
(* msm_vidc_queue_buffer with its deferral, msm_vidc_put_driver_buf,       *)
(* msm_vidc_flush_buffers and msm_vidc_session_streamoff, which drops      *)
(* inst->lock while it waits for the firmware to stop the port.            *)
(*                                                                         *)
(* The port is the one whose buffers may repeat: decoder OUTPUT or encoder *)
(* INPUT.  A buffer object is a model value; its dmabuf is one of a small  *)
(* set.  mapRef[d] is the refcount of the mapping of d on the mappings     *)
(* list, 0 when there is none.                                             *)
(*                                                                         *)
(* The second part models the session's internal buffers of one type      *)
(* (ARP or PERSIST): msm_vidc_alloc_and_queue_session_internal_buffers,   *)
(* msm_vidc_release_internal_buffers, msm_vidc_destroy_internal_buffer on *)
(* the firmware's release done, and their destruction at close.  The      *)
(* buffers->list order matters (loops stop at the first failure, destroy  *)
(* deletes the first entry with a matching dmabuf), so it is a sequence.  *)
(***************************************************************************)
EXTENDS Naturals, FiniteSets, Sequences, SequencesExt

CONSTANTS
  Objs,        \* msm_vidc_buffer objects (kzalloc fails when all are in use)
  DmaBufs,     \* backing memory handles the client queues
  MapCanFail,  \* msm_vidc_memory_map may return an error
  IObjs,       \* internal msm_vidc_buffer objects (kzalloc fails when all are in use)
  ISizes,      \* buffer sizes the session's buffer_size op may ask for
  ICounts,     \* buffer counts its min_count op may ask for
  AllocCanFail,\* msm_vidc_memory_alloc (or a kzalloc of alloc/map) may fail
  HfiCanFail   \* venus_hfi_queue_buffer / venus_hfi_release_buffer may fail

ASSUME MapCanFail \in BOOLEAN /\ AllocCanFail \in BOOLEAN /\ HfiCanFail \in BOOLEAN
ASSUME ISizes \subseteq Nat \ {0} /\ ICounts \subseteq Nat \ {0}

VARIABLES
  objState,   \* FREE, LISTED on buffers->list, or DANGLING: freed but still linked
  objD,       \* buf->dmabuf
  attr,       \* buf->attr, a subset of {DEFERRED, QUEUED, RO}
  mapRef,     \* refcount of the mapping of each dmabuf
  streaming,  \* inst->vb2q[port].streaming
  soPc,       \* the streamoff thread: idle, or wait (inst->lock dropped)
  stopSet,    \* buffers with the firmware when the stop was sent
  stopDone,   \* completion SIGNAL_CMD_STOP_*
  errored,    \* inst->state = ERROR (msm_vidc_kill_session)
  encode,     \* is_encode_session (else a decode session), fixed at open
  iList,      \* the internal type's buffers->list, in list order
  iAttr,      \* buffer->attr of an internal buffer: QUEUED, PENDING_RELEASE
  iMem,       \* how far create got: NONE (no alloc), ALLOC (alloc, no map), MAPPED
  iBufSize,   \* buffer->buffer_size
  iSize,      \* buffers->size
  iMinCount,  \* buffers->min_count
  iReuse,     \* buffers->reuse
  iFw         \* how many times the firmware holds each internal buffer

clientVars == <<objState, objD, attr, mapRef, streaming, soPc, stopSet, stopDone, errored, encode>>
internalVars == <<iList, iAttr, iMem, iBufSize, iSize, iMinCount, iReuse, iFw>>
vars == <<clientVars, internalVars>>

Listed == {o \in Objs : objState[o] = "LISTED"}
ListedWith(d) == {o \in Listed : objD[o] = d}

-----------------------------------------------------------------------------
(* msm_vidc_allow_qbuf: no buffer is taken in ERROR.                       *)
AllowQbuf == ~errored

(* Mutant: the lookup of an existing mapping misses, so a second map entry *)
(* with refcount 1 replaces the count.                                     *)
MapDriverBufFresh(d, ok) ==
  mapRef' = IF ok THEN [mapRef EXCEPT ![d] = 1] ELSE mapRef

(* msm_vidc_map_driver_buf for a buffer that is not read-only: an existing *)
(* mapping of the dmabuf is mapped again (refcount + 1), otherwise a new   *)
(* one with refcount 1 is added; ok is the result of msm_vidc_memory_map.  *)
MapDriverBuf(d, ok) ==
  mapRef' = IF ok THEN [mapRef EXCEPT ![d] = @ + 1] ELSE mapRef

(* Mutant: each put unmaps twice.                                          *)
PutDriverBufsDoubleUnmap(S) ==
  /\ mapRef' = [d \in DmaBufs |-> mapRef[d] - 2 * Cardinality({o \in S : objD[o] = d})]
  /\ objState' = [o \in Objs |-> IF o \in S THEN "FREE" ELSE objState[o]]
  /\ attr' = [o \in Objs |-> IF o \in S THEN {} ELSE attr[o]]

(* msm_vidc_put_driver_buf on a set of buffers: msm_vidc_unmap_driver_buf  *)
(* (refcount - 1, the entry deleted at zero), put the dmabuf, list_del and *)
(* kfree.                                                                  *)
PutDriverBufs(S) ==
  /\ mapRef' = [d \in DmaBufs |-> mapRef[d] - Cardinality({o \in S : objD[o] = d})]
  /\ objState' = [o \in Objs |-> IF o \in S THEN "FREE" ELSE objState[o]]
  /\ attr' = [o \in Objs |-> IF o \in S THEN {} ELSE attr[o]]

(* The submit part of msm_vidc_queue_buffer for a buffer obtained from     *)
(* msm_vidc_get_driver_buf: deferred while the port is not streaming,     *)
(* otherwise sent to the firmware (submitted is FALSE when the meta buffer *)
(* is missing or venus_hfi_queue_buffer fails) and marked QUEUED.          *)
QueueAttr(a, submitted) ==
  IF ~streaming THEN a \cup {"DEFERRED"}
  ELSE IF submitted THEN (a \ {"DEFERRED"}) \cup {"QUEUED"}
  ELSE a

(* Mutant: the read-only repeat is mapped again.                           *)
ReuseBufRemap(o, submitted) ==
  /\ ~encode
  /\ "RO" \in attr[o]
  /\ attr' = [attr EXCEPT ![o] = QueueAttr({"RO"}, submitted)]
  /\ mapRef' = [mapRef EXCEPT ![objD[o]] = @ + 1]
  /\ UNCHANGED <<objState, objD>>

(* msm_vidc_get_driver_buf, reuse case: only a decoder buffer carrying the *)
(* read-only attribute may repeat; its attributes are reset to RO and the  *)
(* mapping is skipped.  An encoder repeat is treated as a new buffer.      *)
ReuseBuf(o, submitted) ==
  /\ ~encode
  /\ "RO" \in attr[o]
  /\ attr' = [attr EXCEPT ![o] = QueueAttr({"RO"}, submitted)]
  /\ UNCHANGED <<objState, objD, mapRef>>

(* msm_vidc_get_driver_buf, new buffer: kzalloc, list_add_tail, then map.  *)
(* On a map failure the error path kfree()s the buffer without taking it   *)
(* off the list.                                                           *)
NewBuf(d, submitted) ==
  \E o \in Objs, ok \in BOOLEAN :
    /\ objState[o] = "FREE"
    /\ ok \/ MapCanFail
    /\ MapDriverBuf(d, ok)
    /\ objD' = [objD EXCEPT ![o] = d]
    /\ objState' = [objState EXCEPT ![o] = IF ok THEN "LISTED" ELSE "DANGLING"]
    /\ attr' = [attr EXCEPT ![o] = IF ok THEN QueueAttr({}, submitted) ELSE {}]

(* msm_vidc_queue_buffer (with msm_vidc_get_driver_buf) for a client       *)
(* buffer backed by d, under inst->lock: either the streamoff thread is    *)
(* not running, or it has dropped the lock for its wait.                   *)
QueueBuffer(d) ==
  /\ AllowQbuf
  /\ \E submitted \in BOOLEAN :
       IF ListedWith(d) # {} /\ ~encode
       THEN \E o \in ListedWith(d) : ReuseBuf(o, submitted)
       ELSE NewBuf(d, submitted)
  /\ UNCHANGED <<streaming, soPc, stopSet, stopDone, errored>>

(* msm_vidc_num_buffers(inst, type, MSM_VIDC_ATTR_QUEUED).                 *)
NumQueued == Cardinality({o \in Listed : "QUEUED" \in attr[o]})

(* Mutant: flush completes only DEFERRED buffers.                          *)
FlushSetDeferredOnly == {o \in Listed : "DEFERRED" \in attr[o]}

(* msm_vidc_flush_buffers: every buffer of the port (meta and data) that   *)
(* is QUEUED or DEFERRED is completed to vb2 and put.                      *)
FlushSet == {o \in Listed : attr[o] \cap {"QUEUED", "DEFERRED"} # {}}

(* The error exit of msm_vidc_session_streamoff: msm_vidc_kill_session     *)
(* (session close, then ERROR) and msm_vidc_flush_buffers.                 *)
KillAndFlush ==
  /\ errored' = TRUE
  /\ PutDriverBufs(FlushSet)

(* msm_vidc_session_streamoff up to its wait: venus_hfi_stop, whose        *)
(* failure goes straight to the error exit, then mutex_unlock.  vb2 clears *)
(* the streaming flag when the stop returns.                               *)
StreamoffBegin ==
  /\ soPc = "idle"
  /\ streaming
  /\ \E stopSent \in BOOLEAN :
       IF stopSent
       THEN /\ soPc' = "wait"
            /\ stopDone' = FALSE
            /\ stopSet' = {o \in Listed : "QUEUED" \in attr[o]}
            /\ UNCHANGED <<objState, objD, attr, mapRef, streaming, errored>>
       ELSE /\ KillAndFlush
            /\ streaming' = FALSE
            /\ UNCHANGED <<objD, soPc, stopSet, stopDone>>

(* The rest of msm_vidc_session_streamoff: mutex_lock again; a timeout     *)
(* (the core timeout is VidcCore's) or a QUEUED buffer left on the port    *)
(* takes the error exit.                                                   *)
StreamoffEnd ==
  /\ soPc = "wait"
  /\ soPc' = "idle"
  /\ streaming' = FALSE
  /\ IF stopDone /\ NumQueued = 0
     THEN UNCHANGED <<objState, objD, attr, mapRef, errored>>
     ELSE /\ KillAndFlush
          /\ UNCHANGED objD
  /\ UNCHANGED <<stopSet, stopDone>>

(* msm_vidc_destroy_buffers at close puts every buffer left; the client    *)
(* then opens a new session on the same memory.                            *)
CloseSession ==
  /\ soPc = "idle"
  /\ ~streaming
  /\ PutDriverBufs(Listed)
  /\ streaming' = FALSE
  /\ errored' = FALSE
  /\ UNCHANGED <<objD, soPc, stopSet, stopDone>>

-----------------------------------------------------------------------------
(* Callers and firmware, outside src/.                                     *)

(* Stream on (msm_vidc_session_streamon and the queueing of the deferred   *)
(* buffers): the port streams and every DEFERRED buffer becomes QUEUED.    *)
StreamOn ==
  /\ soPc = "idle"
  /\ ~streaming
  /\ ~errored
  /\ streaming' = TRUE
  /\ attr' = [o \in Objs |-> IF o \in Listed /\ "DEFERRED" \in attr[o]
                             THEN (attr[o] \ {"DEFERRED"}) \cup {"QUEUED"}
                             ELSE attr[o]]
  /\ UNCHANGED <<objState, objD, mapRef, soPc, stopSet, stopDone, errored>>

(* The firmware returns a QUEUED buffer: it is completed to vb2 and put,   *)
(* unless a decoder keeps it as a read-only reference.                     *)
FwBufferDone(o) ==
  /\ o \in Listed
  /\ "QUEUED" \in attr[o]
  /\ \E ro \in BOOLEAN :
       IF ro /\ ~encode
       THEN /\ attr' = [attr EXCEPT ![o] = {"RO"}]
            /\ UNCHANGED <<objState, mapRef>>
       ELSE PutDriverBufs({o})
  /\ UNCHANGED <<objD, streaming, soPc, stopSet, stopDone, errored>>

(* The firmware releases a read-only reference it no longer needs.         *)
FwReleaseRO(o) ==
  /\ o \in Listed
  /\ attr[o] = {"RO"}
  /\ PutDriverBufs({o})
  /\ UNCHANGED <<objD, streaming, soPc, stopSet, stopDone, errored>>

(* Stop done: the firmware answers once every buffer it held at the stop   *)
(* has been returned.                                                      *)
FwStopDone ==
  /\ soPc = "wait"
  /\ ~stopDone
  /\ \A o \in stopSet : o \notin Listed \/ "QUEUED" \notin attr[o]
  /\ stopDone' = TRUE
  /\ UNCHANGED <<objState, objD, attr, mapRef, streaming, soPc, stopSet, errored>>

-----------------------------------------------------------------------------
(* Internal buffers.                                                       *)

IListed == ToSet(iList)
IFree == IObjs \ IListed

(* Outcomes of a call that fails only when its constant allows it.          *)
Outcome(canFail) == IF canFail THEN BOOLEAN ELSE {TRUE}

(* The dmabuf destroy matches on: a created buffer's own allocation, or    *)
(* NULL for a buffer whose create stopped before buffer->dmabuf was set.   *)
DmaKey(b) == IF iMem[b] = "MAPPED" THEN b ELSE "NULL"

(* Sequences of k distinct objects of S, in creation order.                *)
Arrangements(S, k) == {f \in [1..k -> S] : IsInjective(f)}

(* msm_vidc_get_internal_buffers: the buffers are reused when the current  *)
(* size and count cover what the session asks for; otherwise the new       *)
(* size and count are recorded.                                            *)
GetInternalBuffers(sz, cnt) ==
  LET reuse == sz <= iSize /\ cnt <= iMinCount
  IN /\ iReuse' = reuse
     /\ iSize' = IF reuse THEN iSize ELSE sz
     /\ iMinCount' = IF reuse THEN iMinCount ELSE cnt

(* msm_vidc_create_internal_buffers with msm_vidc_create_internal_buffer   *)
(* for each index below min_count: kzalloc the buffer (no free object:     *)
(* -ENOMEM, nothing listed), list_add_tail, then alloc and map.  A failure *)
(* of the alloc returns with the buffer listed and no memory (NONE), one   *)
(* of the map with its allocation made but not recorded in the buffer      *)
(* (ALLOC); buffer->dmabuf is set only at the end.  made is the sequence   *)
(* of buffers listed, last the stage the last one reached.                 *)
CreateInternalBuffers(made, last, ok) ==
  LET k == Len(made)
  IN /\ \/ ok /\ k = iMinCount' /\ last = "MAPPED"
        \/ ~ok /\ k < iMinCount' /\ IFree \ ToSet(made) = {} /\ last = "MAPPED"
        \/ ~ok /\ k > 0 /\ last # "MAPPED"
     /\ iList' = iList \o made
     /\ iMem' = [b \in IObjs |-> IF b \in ToSet(made)
                                 THEN IF b = made[k] THEN last ELSE "MAPPED"
                                 ELSE iMem[b]]
     /\ iBufSize' = [b \in IObjs |-> IF b \in ToSet(made) THEN iSize' ELSE iBufSize[b]]

(* Mutant: the loop also sends buffers already QUEUED.                     *)
QueueInternalBuffersAll(list) ==
  \E k \in 0..Len(list) :
    /\ k < Len(list) => HfiCanFail
    /\ LET sent == ToSet(SubSeq(list, 1, k))
       IN /\ iAttr' = [b \in IObjs |-> IF b \in sent THEN iAttr[b] \cup {"QUEUED"} ELSE iAttr[b]]
          /\ iFw' = [b \in IObjs |-> IF b \in sent THEN iFw[b] + 1 ELSE iFw[b]]

(* msm_vidc_queue_internal_buffers over the list: a buffer is skipped when *)
(* it is QUEUED (the PENDING_RELEASE test reads buffer->flags, which is 0  *)
(* for an internal buffer, so it never skips); the others are sent to the  *)
(* firmware in list order and marked QUEUED, up to the first failure.      *)
QueueInternalBuffers(list) ==
  LET elig == SelectSeq(list, LAMBDA b : "QUEUED" \notin iAttr[b])
  IN \E k \in 0..Len(elig) :
       /\ k < Len(elig) => HfiCanFail
       /\ LET sent == ToSet(SubSeq(elig, 1, k))
          IN /\ iAttr' = [b \in IObjs |-> IF b \in sent THEN iAttr[b] \cup {"QUEUED"} ELSE iAttr[b]]
             /\ iFw' = [b \in IObjs |-> IF b \in sent THEN iFw[b] + 1 ELSE iFw[b]]

(* msm_vidc_alloc_and_queue_session_internal_buffers: get, then create and *)
(* queue, each skipped when reuse is set; an error ends the call.          *)
AllocAndQueueInternal ==
  \E sz \in ISizes, cnt \in ICounts :
    /\ GetInternalBuffers(sz, cnt)
    /\ IF iReuse'
       THEN UNCHANGED <<iList, iAttr, iMem, iBufSize, iFw>>
       ELSE \E k \in 0..cnt :
              \E made \in Arrangements(IFree, k), last \in {"NONE", "ALLOC", "MAPPED"},
                 ok \in BOOLEAN :
                /\ last = "NONE" => AllocCanFail
                /\ last = "ALLOC" => MapCanFail
                /\ CreateInternalBuffers(made, last, ok)
                /\ IF ok THEN QueueInternalBuffers(iList \o made)
                   ELSE UNCHANGED <<iAttr, iFw>>

(* msm_vidc_release_internal_buffers (nothing when reuse is set): every    *)
(* QUEUED buffer not yet PENDING_RELEASE is released to the firmware, in   *)
(* list order up to the first failure, and marked PENDING_RELEASE.         *)
ReleaseInternalBuffers ==
  /\ ~iReuse
  /\ LET elig == SelectSeq(iList, LAMBDA b : "QUEUED" \in iAttr[b] /\ "PENDING_RELEASE" \notin iAttr[b])
     IN \E k \in 1..Len(elig) :
          /\ k < Len(elig) => HfiCanFail
          /\ iAttr' = [b \in IObjs |-> IF b \in ToSet(SubSeq(elig, 1, k))
                                      THEN iAttr[b] \cup {"PENDING_RELEASE"} ELSE iAttr[b]]
  /\ UNCHANGED <<iList, iMem, iBufSize, iSize, iMinCount, iReuse, iFw>>

(* msm_vidc_destroy_internal_buffer(b): unmap, free and list_del the first *)
(* entries whose dmabuf equals b's (for a NULL dmabuf, the first buffer    *)
(* whose create did not finish, not necessarily b), then reset the type's *)
(* size and counts.  The allocation of an ALLOC buffer matches nothing and *)
(* is not tracked further.                                                 *)
DestroyInternalBuffer(b) ==
  LET i == SelectInSeq(iList, LAMBDA x : DmaKey(x) = DmaKey(b))
      t == iList[i]
  IN /\ iList' = RemoveAt(iList, i)
     /\ iAttr' = [iAttr EXCEPT ![t] = {}]
     /\ iMem' = [iMem EXCEPT ![t] = "NONE"]
     /\ iBufSize' = [iBufSize EXCEPT ![t] = 0]
     /\ iSize' = 0
     /\ iMinCount' = 0

(* The firmware's release done for b (its response handler, outside src/, *)
(* calls msm_vidc_destroy_internal_buffer).                                *)
FwInternalReleaseDone(b) ==
  /\ b \in IListed
  /\ "PENDING_RELEASE" \in iAttr[b]
  /\ iFw[b] > 0
  /\ DestroyInternalBuffer(b)
  /\ iFw' = [iFw EXCEPT ![b] = 0]
  /\ UNCHANGED iReuse

(* msm_vidc_destroy_buffers at close, internal part: each listed buffer is *)
(* destroyed in list order (each call deletes the first entry with its     *)
(* dmabuf, which is the entry itself at that point); the firmware session  *)
(* is closed, and the next session starts without reuse.                   *)
CloseInternal ==
  /\ iList' = <<>>
  /\ iAttr' = [b \in IObjs |-> {}]
  /\ iMem' = [b \in IObjs |-> "NONE"]
  /\ iBufSize' = [b \in IObjs |-> 0]
  /\ iSize' = 0
  /\ iMinCount' = 0
  /\ iReuse' = FALSE
  /\ iFw' = [b \in IObjs |-> 0]

-----------------------------------------------------------------------------
Init ==
  /\ objState = [o \in Objs |-> "FREE"]
  /\ objD = [o \in Objs |-> CHOOSE d \in DmaBufs : TRUE]
  /\ attr = [o \in Objs |-> {}]
  /\ mapRef = [d \in DmaBufs |-> 0]
  /\ streaming = FALSE
  /\ soPc = "idle"
  /\ stopSet = {}
  /\ stopDone = FALSE
  /\ errored = FALSE
  /\ encode \in BOOLEAN
  /\ iList = <<>>
  /\ iAttr = [b \in IObjs |-> {}]
  /\ iMem = [b \in IObjs |-> "NONE"]
  /\ iBufSize = [b \in IObjs |-> 0]
  /\ iSize = 0
  /\ iMinCount = 0
  /\ iReuse = FALSE
  /\ iFw = [b \in IObjs |-> 0]

(* No operation changes the session type.  Client and internal buffers    *)
(* change independently, except at close, which destroys both.             *)
ClientStep ==
  \/ \E d \in DmaBufs : QueueBuffer(d)
  \/ StreamoffBegin \/ StreamoffEnd \/ StreamOn \/ FwStopDone
  \/ \E o \in Objs : FwBufferDone(o) \/ FwReleaseRO(o)

InternalStep ==
  \/ AllocAndQueueInternal \/ ReleaseInternalBuffers
  \/ \E b \in IObjs : FwInternalReleaseDone(b)

Next ==
  \/ ClientStep /\ UNCHANGED encode /\ UNCHANGED internalVars
  \/ InternalStep /\ UNCHANGED clientVars
  \/ CloseSession /\ CloseInternal /\ UNCHANGED encode

Spec == Init /\ [][Next]_vars

-----------------------------------------------------------------------------
TypeOK ==
  /\ objState \in [Objs -> {"FREE", "LISTED", "DANGLING"}]
  /\ objD \in [Objs -> DmaBufs]
  /\ attr \in [Objs -> SUBSET {"DEFERRED", "QUEUED", "RO"}]
  /\ mapRef \in [DmaBufs -> 0..Cardinality(Objs)]
  /\ soPc \in {"idle", "wait"}
  /\ stopSet \subseteq Objs
  /\ {streaming, stopDone, errored, encode, iReuse} \subseteq BOOLEAN
  /\ iList \in Seq(IObjs) /\ IsInjective(iList)
  /\ iAttr \in [IObjs -> SUBSET {"QUEUED", "PENDING_RELEASE"}]
  /\ iMem \in [IObjs -> {"NONE", "ALLOC", "MAPPED"}]
  /\ iBufSize \in [IObjs -> {0} \cup ISizes]
  /\ iSize \in {0} \cup ISizes /\ iMinCount \in {0} \cup ICounts
  /\ iFw \in [IObjs -> 0..2]

(* The mapping of each dmabuf is refcounted by exactly the buffers on the  *)
(* list that use it, across repeats (decoder read-only reuse skips the     *)
(* map, an encoder repeat maps again), buffer done, flush and destroy; so  *)
(* a mapping is deleted exactly when its last buffer is put.               *)
MapCountsBuffers ==
  \A d \in DmaBufs : mapRef[d] = Cardinality(ListedWith(d))

(* Once a stream-off has finished and the port is not streaming, no       *)
(* buffer of the port is still marked QUEUED: either the firmware returned *)
(* all of them, or the error exit flushed them, also those a qbuf queued   *)
(* while session_streamoff had dropped inst->lock.                         *)
StoppedPortHoldsNothing ==
  (soPc = "idle" /\ ~streaming) => \A o \in Listed : "QUEUED" \notin attr[o]

(* No buffer on buffers->list has been freed: msm_vidc_get_driver_buf's    *)
(* error path must take a new buffer off the list before kfree.            *)
NoDanglingBuffer ==
  \A o \in Objs : objState[o] # "DANGLING"

(* The firmware never holds an internal buffer twice: the queue loop of    *)
(* msm_vidc_queue_internal_buffers must not send again a buffer released   *)
(* and still PENDING_RELEASE.  Its PENDING_RELEASE test reads              *)
(* buffer->flags, which is never set, so this rests on the QUEUED test     *)
(* alone, across reuse, partial queue and release failures and destroys.  *)
FirmwareHoldsOnce ==
  \A b \in IObjs : iFw[b] <= 1

(* Every internal buffer the firmware holds is still on buffers->list: a  *)
(* release done destroys the buffer the firmware returned, never another  *)
(* one the firmware still uses (msm_vidc_destroy_internal_buffer matches  *)
(* by dmabuf, NULL for every half-created buffer).                         *)
FirmwareHoldsOnlyListed ==
  \A b \in IObjs : iFw[b] > 0 => b \in IListed

(* Every internal buffer the firmware holds has its memory allocated and  *)
(* mapped: msm_vidc_queue_internal_buffers must not send a buffer whose    *)
(* create failed half-way.                                                 *)
QueuedInternalMapped ==
  \A b \in IObjs : iFw[b] > 0 => iMem[b] = "MAPPED"

(* A stream-off the firmware acknowledged in time, after returning every   *)
(* buffer it held, succeeds and does not kill the session.                 *)
StreamoffAckedSucceeds ==
  [][(soPc = "wait" /\ stopDone /\ soPc' = "idle" /\ ~errored) => ~errored']_vars

=============================================================================
