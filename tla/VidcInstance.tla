---------------------------- MODULE VidcInstance ----------------------------
(***************************************************************************)
(* The session (instance) state machine of the video codec driver,         *)
(* src/driver/vidc/src/msm_vidc_driver.c: the guard predicates            *)
(* msm_vidc_allow_*, the transition functions msm_vidc_state_change_*,     *)
(* the deferred input-port-settings-change (IPSC) work list they consult, *)
(* and the vb2 streaming flag of each of the four V4L2 queues.            *)
(*                                                                         *)
(* Every step runs under the instance lock, so one step of this module is *)
(* one whole call.  The callers (the V4L2 ioctl handlers and the firmware *)
(* response work handler) are outside src/: they are modelled from the    *)
(* spec, which says they consult the guard before calling the transition.  *)
(***************************************************************************)
EXTENDS Naturals, TLC

CONSTANTS
  MaxPendingIpsc  \* bound on the IPSC entries of inst->response_works

ASSUME MaxPendingIpsc \in Nat \ {0}

VARIABLES
  state,        \* inst->state
  pendingIpsc,  \* number of RESP_WORK_INPUT_PSC entries in inst->response_works
  streaming     \* inst->vb2q[port].streaming, per V4L2 buffer type

vars == <<state, pendingIpsc, streaming>>

States == {"OPEN", "START_INPUT", "START_OUTPUT", "START", "DRC",
           "DRC_LAST_FLAG", "DRAIN", "DRAIN_LAST_FLAG", "DRC_DRAIN",
           "DRC_DRAIN_LAST_FLAG", "DRAIN_START_INPUT", "ERROR"}

Types == {"INPUT_MPLANE", "OUTPUT_MPLANE", "INPUT_META_PLANE", "OUTPUT_META_PLANE"}
MetaTypes == {"INPUT_META_PLANE", "OUTPUT_META_PLANE"}

\* The states a transition table maps to something other than ERROR are the
\* domain of the table; every other state falls through to ERROR.
Lookup(table, s) == IF s \in DOMAIN table THEN table[s] ELSE "ERROR"

-----------------------------------------------------------------------------
(* msm_vidc_change_inst_state: a session in ERROR never leaves it; the     *)
(* request is logged and ignored.                                          *)
ChangeInstState(request) == IF state = "ERROR" THEN "ERROR" ELSE request

(* Guard predicates.                                                       *)
AllowStreamon(type) ==
  IF type \in {"INPUT_MPLANE", "INPUT_META_PLANE"}
  THEN state \in {"OPEN", "START_OUTPUT"}
  ELSE state \in {"OPEN", "START_INPUT", "DRAIN_START_INPUT"}

StreamoffDisallowedIn ==
  [t \in Types |->
     CASE t = "INPUT_MPLANE"      -> {"OPEN", "START_OUTPUT"}
       [] t = "INPUT_META_PLANE"  -> {"START_INPUT"}
       [] t = "OUTPUT_MPLANE"     -> {"OPEN", "START_INPUT"}
       [] t = "OUTPUT_META_PLANE" -> {"START_OUTPUT"}]

AllowStreamoff(type) == state \notin StreamoffDisallowedIn[type]

AllowStop ==
  CASE state \in {"START", "DRC", "DRC_LAST_FLAG", "DRC_DRAIN"} -> "ALLOW"
    [] state = "START_INPUT"                                   -> "IGNORE"
    [] OTHER                                                   -> "DISALLOW"

AllowStart == state \in {"DRAIN_LAST_FLAG", "DRC_LAST_FLAG", "DRC_DRAIN_LAST_FLAG"}

AllowInputPsc ==
  CASE state \in {"START", "START_INPUT", "DRAIN"} -> "ALLOW"
    [] state \in {"DRC", "DRC_LAST_FLAG", "DRC_DRAIN",
                  "DRC_DRAIN_LAST_FLAG", "DRAIN_START_INPUT"} -> "DEFER"
    [] OTHER -> "DISALLOW"

(* msm_vidc_allow_s_fmt: any type in OPEN, only the port that is not       *)
(* started in START_INPUT / START_OUTPUT, nothing in any other state.      *)
AllowSFmt(type) ==
  \/ state = "OPEN"
  \/ state = "START_INPUT" /\ type \in {"OUTPUT_MPLANE", "OUTPUT_META_PLANE"}
  \/ state = "START_OUTPUT" /\ type \in {"INPUT_MPLANE", "INPUT_META_PLANE"}

\* Fault: reqbufs accepted for the port that START_INPUT has started.
AllowReqbufsSwapped(type) ==
  \/ state = "OPEN"
  \/ state = "START_INPUT" /\ type \in {"INPUT_MPLANE", "INPUT_META_PLANE"}
  \/ state = "START_OUTPUT" /\ type \in {"INPUT_MPLANE", "INPUT_META_PLANE"}

(* msm_vidc_allow_reqbufs: the same rule as s_fmt.                         *)
AllowReqbufs(type) ==
  \/ state = "OPEN"
  \/ state = "START_INPUT" /\ type \in {"OUTPUT_MPLANE", "OUTPUT_META_PLANE"}
  \/ state = "START_OUTPUT" /\ type \in {"INPUT_MPLANE", "INPUT_META_PLANE"}

(* Control ids, abstracted to what msm_vidc_allow_s_ctrl tells apart:      *)
(* V4L2_CID_MPEG_VIDC_CODEC_CONFIG, the encoder's list of dynamic controls *)
(* (bitrate, GOP size, key frame, flips, layer rates, LTR, blur, ...), and *)
(* every other (static) control.                                           *)
CtrlIds == {"CODEC_CONFIG", "ENC_DYNAMIC", "STATIC"}

(* msm_vidc_allow_s_ctrl: anything in OPEN; a decoder takes every control  *)
(* while its input queue is stopped and only CODEC_CONFIG while it         *)
(* streams; an encoder takes its dynamic controls in START and            *)
(* START_OUTPUT.                                                           *)
AllowSCtrl(isDecode, id) ==
  \/ state = "OPEN"
  \/ isDecode /\ (~streaming["INPUT_MPLANE"] \/ id = "CODEC_CONFIG")
  \/ ~isDecode /\ state \in {"START", "START_OUTPUT"} /\ id = "ENC_DYNAMIC"

AllowLastFlag == state \in {"DRC", "DRAIN", "DRC_DRAIN"}

-----------------------------------------------------------------------------
(* msm_vidc_process_pending_ipsc: replay the first pending IPSC, if any.    *)
(* 'handled' is the result of handle_session_response_work.  The replay   *)
(* corrects the state the caller computed only for the three states       *)
(* listed; it removes exactly one entry.                                   *)
ProcessPendingIpsc(newState, handled) ==
  CASE pendingIpsc = 0 -> newState
    [] ~handled        -> "ERROR"
    [] state \in {"DRC_DRAIN_LAST_FLAG", "DRAIN_START_INPUT"} -> "DRC_DRAIN"
    [] state = "DRC_LAST_FLAG" -> "DRC"
    [] OTHER -> newState

\* Fault: the replay deletes an entry also when the list is empty.
IpscAfterReplayUnchecked == pendingIpsc - 1

IpscAfterReplay == IF pendingIpsc > 0 THEN pendingIpsc - 1 ELSE 0

(* msm_vidc_state_change_streamon.                                         *)
StateChangeStreamon(type, handled) ==
  IF type \in MetaTypes THEN UNCHANGED <<state, pendingIpsc>>
  ELSE IF type = "OUTPUT_MPLANE" /\ state = "DRAIN_START_INPUT"
  THEN /\ state' = ChangeInstState(ProcessPendingIpsc("DRAIN", handled))
       /\ pendingIpsc' = IpscAfterReplay
  ELSE LET table == IF type = "INPUT_MPLANE"
                    THEN ("OPEN" :> "START_INPUT") @@ ("START_OUTPUT" :> "START")
                    ELSE ("OPEN" :> "START_OUTPUT") @@ ("START_INPUT" :> "START")
       IN /\ state' = ChangeInstState(Lookup(table, state))
          /\ UNCHANGED pendingIpsc

(* msm_vidc_state_change_streamoff.  Input streamoff out of a DRC or DRAIN *)
(* state discards every pending IPSC; no other row touches the list.       *)
DrcDrainStates == {"DRC", "DRC_LAST_FLAG", "DRAIN", "DRAIN_LAST_FLAG",
                   "DRC_DRAIN", "DRC_DRAIN_LAST_FLAG", "DRAIN_START_INPUT"}

\* Fault: input streamoff from START claims the input side still started.
StreamoffInputSwapped ==
  [s \in DrcDrainStates |-> "START_OUTPUT"]
    @@ ("START_INPUT" :> "OPEN") @@ ("START" :> "START_INPUT")

StreamoffInput ==
  [s \in DrcDrainStates |-> "START_OUTPUT"]
    @@ ("START_INPUT" :> "OPEN") @@ ("START" :> "START_OUTPUT")

StreamoffOutput ==
  [s \in {"START", "DRAIN", "DRAIN_LAST_FLAG", "DRC", "DRC_LAST_FLAG",
          "DRC_DRAIN"} |-> "START_INPUT"]
    @@ ("START_OUTPUT" :> "OPEN") @@ ("DRC_DRAIN_LAST_FLAG" :> "DRAIN_START_INPUT")

StateChangeStreamoff(type) ==
  CASE type \in MetaTypes -> UNCHANGED <<state, pendingIpsc>>
    [] type = "INPUT_MPLANE" ->
         /\ state' = ChangeInstState(Lookup(StreamoffInput, state))
         /\ pendingIpsc' = IF state \in DrcDrainStates THEN 0 ELSE pendingIpsc
    [] type = "OUTPUT_MPLANE" ->
         /\ state' = ChangeInstState(Lookup(StreamoffOutput, state))
         /\ UNCHANGED pendingIpsc

(* msm_vidc_state_change_stop.                                             *)
StopTable ==
  ("START" :> "DRAIN") @@ ("DRC" :> "DRC_DRAIN")
    @@ ("DRC_DRAIN" :> "DRC_DRAIN_LAST_FLAG") @@ ("DRC_LAST_FLAG" :> "DRC_DRAIN_LAST_FLAG")

StateChangeStop ==
  /\ state' = ChangeInstState(Lookup(StopTable, state))
  /\ UNCHANGED pendingIpsc

(* msm_vidc_state_change_start: resume replays a pending IPSC.             *)
StartTable ==
  ("DRAIN_LAST_FLAG" :> "START") @@ ("DRC_LAST_FLAG" :> "START")
    @@ ("DRC_DRAIN_LAST_FLAG" :> "DRAIN")

StateChangeStart(handled) ==
  IF state \in DOMAIN StartTable
  THEN /\ state' = ChangeInstState(ProcessPendingIpsc(StartTable[state], handled))
       /\ pendingIpsc' = IpscAfterReplay
  ELSE /\ state' = ChangeInstState("ERROR")
       /\ UNCHANGED pendingIpsc

(* msm_vidc_state_change_input_psc: no change while only input streams.    *)
StateChangeInputPsc ==
  /\ state' = IF state = "START_INPUT" THEN state
              ELSE ChangeInstState(Lookup(("START" :> "DRC") @@ ("DRAIN" :> "DRC_DRAIN"), state))
  /\ UNCHANGED pendingIpsc

(* msm_vidc_state_change_last_flag.                                        *)
StateChangeLastFlag ==
  /\ state' = ChangeInstState(Lookup(("DRC" :> "DRC_LAST_FLAG")
                                       @@ ("DRAIN" :> "DRAIN_LAST_FLAG")
                                       @@ ("DRC_DRAIN" :> "DRC_DRAIN_LAST_FLAG"), state))
  /\ UNCHANGED pendingIpsc

-----------------------------------------------------------------------------
(***************************************************************************)
(* Callers.  The ioctl handlers consult the guard, call the transition and *)
(* the vb2 queue streamon/streamoff; vb2 accepts a streamon of a streaming *)
(* queue and a streamoff of a stopped one.  The firmware delivers an IPSC  *)
(* only while the input queue streams and a last flag only on an output    *)
(* buffer, so only while the output queue streams.                         *)
(***************************************************************************)
StreamOn(type) ==
  /\ AllowStreamon(type)
  /\ \E handled \in BOOLEAN : StateChangeStreamon(type, handled)
  /\ streaming' = [streaming EXCEPT ![type] = TRUE]

StreamOff(type) ==
  /\ AllowStreamoff(type)
  /\ StateChangeStreamoff(type)
  /\ streaming' = [streaming EXCEPT ![type] = FALSE]

Stop ==
  /\ AllowStop = "ALLOW"
  /\ StateChangeStop
  /\ UNCHANGED streaming

Start ==
  /\ AllowStart
  /\ \E handled \in BOOLEAN : StateChangeStart(handled)
  /\ UNCHANGED streaming

(* The response work handler: an allowed IPSC is handled and applied, a    *)
(* deferred one is left on response_works, a disallowed one errors.        *)
InputPsc ==
  /\ streaming["INPUT_MPLANE"]
  /\ CASE AllowInputPsc = "ALLOW" ->
            \E handled \in BOOLEAN :
               IF handled THEN StateChangeInputPsc
               ELSE /\ state' = ChangeInstState("ERROR")
                    /\ UNCHANGED pendingIpsc
       [] AllowInputPsc = "DEFER" ->
            /\ pendingIpsc < MaxPendingIpsc
            /\ pendingIpsc' = pendingIpsc + 1
            /\ UNCHANGED state
       [] OTHER ->
            /\ state' = ChangeInstState("ERROR")
            /\ UNCHANGED pendingIpsc
  /\ UNCHANGED streaming

LastFlag ==
  /\ streaming["OUTPUT_MPLANE"]
  /\ AllowLastFlag
  /\ StateChangeLastFlag
  /\ UNCHANGED streaming

(* msm_vidc_kill_session after a firmware response timeout.                *)
KillSession ==
  /\ state # "ERROR"
  /\ state' = ChangeInstState("ERROR")
  /\ UNCHANGED <<pendingIpsc, streaming>>

Init ==
  /\ state = "OPEN"
  /\ pendingIpsc = 0
  /\ streaming = [t \in Types |-> FALSE]

Next ==
  \/ \E t \in Types : StreamOn(t) \/ StreamOff(t)
  \/ Stop
  \/ Start
  \/ InputPsc
  \/ LastFlag
  \/ KillSession

Spec == Init /\ [][Next]_vars

-----------------------------------------------------------------------------
TypeOK ==
  /\ state \in States
  /\ pendingIpsc \in 0..MaxPendingIpsc
  /\ streaming \in [Types -> BOOLEAN]

InputStarted == {"START_INPUT", "START"} \cup DrcDrainStates
OutputStarted == {"START_OUTPUT", "START", "DRC", "DRC_LAST_FLAG", "DRAIN",
                  "DRAIN_LAST_FLAG", "DRC_DRAIN", "DRC_DRAIN_LAST_FLAG"}

(* Outside ERROR, the instance state says the input side is started        *)
(* exactly when the vb2 input queue streams: every streamon, streamoff,    *)
(* stop, resume, IPSC and last-flag transition keeps the two in step.      *)
InputPortConsistent ==
  state # "ERROR" => (streaming["INPUT_MPLANE"] <=> state \in InputStarted)

(* The same for the output side: a state that claims the output port is   *)
(* started has a streaming output queue and the converse.                  *)
OutputPortConsistent ==
  state # "ERROR" => (streaming["OUTPUT_MPLANE"] <=> state \in OutputStarted)

(* Port settings are frozen while the port streams: msm_vidc_allow_s_fmt   *)
(* and msm_vidc_allow_reqbufs decide from inst->state alone, so after any  *)
(* sequence of streamon, streamoff, drain, resume and IPSC they must never *)
(* admit a format change or a buffer reallocation on a main queue that vb2 *)
(* still streams, and msm_vidc_allow_s_ctrl (of a decoder or an encoder)   *)
(* must never admit a static control while the input queue streams.        *)
MainTypes == {"INPUT_MPLANE", "OUTPUT_MPLANE"}

PortSettingsFrozenWhileStreaming ==
  /\ \A t \in MainTypes : (AllowSFmt(t) \/ AllowReqbufs(t)) => ~streaming[t]
  /\ \A isDecode \in BOOLEAN :
       AllowSCtrl(isDecode, "STATIC") => ~streaming["INPUT_MPLANE"]

(* A deferred IPSC that is replayed (consumed while the input port keeps   *)
(* streaming) leaves the session in a DRC state: the port settings change  *)
(* the client is told about is reflected in the state.                     *)
DrcStates == {"DRC", "DRC_LAST_FLAG", "DRC_DRAIN", "DRC_DRAIN_LAST_FLAG"}

ReplayedIpscEntersDrc ==
  [][ (pendingIpsc' < pendingIpsc /\ streaming'["INPUT_MPLANE"])
        => state' \in DrcStates \cup {"ERROR"} ]_vars

=============================================================================
