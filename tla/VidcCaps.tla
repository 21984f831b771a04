------------------------------- MODULE VidcCaps -------------------------------
(***************************************************************************)
(* Capability tables of the video driver, src/driver/vidc/src/             *)
(* msm_vidc_driver.c: msm_vidc_init_core_caps copies the platform's core  *)
(* capabilities, msm_vidc_init_instance_caps builds one entry per enabled  *)
(* (domain, codec) from the ENC_CODECS and DEC_CODECS bit masks and       *)
(* applies every platform instance capability to the entries its domain   *)
(* and codec masks match, and msm_vidc_get_inst_capability copies the     *)
(* entry of a session's domain and codec into the session.                *)
(*                                                                         *)
(* The loops are operators, RECURSIVE where the code's loop carries state *)
(* (check_bit) from one iteration to the next.  The platform tables are   *)
(* chosen in Init over all small tables; an instance entry's value is its *)
(* index in the table, so a value tells which entry was applied last.     *)
(* Properties compare the tables with a declarative reference.            *)
(***************************************************************************)
EXTENDS Naturals, Sequences, SequencesExt, FiniteSetsExt, Bitwise

CONSTANTS
  CoreCapMax,          \* CORE_CAP_MAX: platform core entries read at most
  InstCapMax,          \* INST_CAP_MAX: capability ids are 0..InstCapMax-1
  CodecBits,           \* codec bits the platform masks use (BIT(0), BIT(1), ...)
  MaxCoreEntries,      \* bound on the length of the platform core table
  MaxInstEntries       \* bound on the length of the platform instance table

ASSUME /\ CoreCapMax \in Nat \ {0}
       /\ InstCapMax \in Nat \ {0}
       /\ CodecBits \in 1..8
       /\ MaxCoreEntries \in Nat /\ MaxInstEntries \in Nat

ENCODER == 1     \* MSM_VIDC_ENCODER
DECODER == 2     \* MSM_VIDC_DECODER
ByteBits == 8    \* sizeof(u8) * 8
CoreTypes == {"ENC_CODECS", "DEC_CODECS"}
Masks == 0..(2^CodecBits - 1)
CapIds == 0..(InstCapMax - 1)
NoCaps == [c \in CapIds |-> 0]
Bit(k) == 2^k

\* Platform table entries: msm_platform_core_capability and
\* msm_platform_inst_capability (cap InstCapMax is an invalid id).
CoreEntries == [type : CoreTypes, value : Masks]
InstShapes == [cap : 0..InstCapMax, domain : {ENCODER, DECODER, ENCODER + DECODER},
               codec : Masks \ {0}]

VARIABLES
  coreData,    \* platform->data.core_data
  instData,    \* platform->data.instance_data
  coreAlloc,   \* core->capabilities is allocated
  coreCaps,    \* core->capabilities[type].value
  instAlloc,   \* core->inst_caps is allocated
  instCaps,    \* core->inst_caps[0 .. codecs_count - 1]
  codecsCount, \* core->codecs_count
  sess,        \* the session: open, domain, codec
  sessCaps     \* inst->capabilities->cap[id].value

vars == <<coreData, instData, coreAlloc, coreCaps, instAlloc, instCaps,
          codecsCount, sess, sessCaps>>

-----------------------------------------------------------------------------
U8(x) == x % 256

(* COUNT_BITS(a, out): out is increased by the number of set bits of a.    *)
RECURSIVE CountBits(_)
CountBits(a) == IF a < 1 THEN 0 ELSE (a & 1) + CountBits(a \div 2)

(* The inner while loop: from check_bit b, the first bit set in mask, or  *)
(* ByteBits when none is left.                                             *)
RECURSIVE NextSetBit(_, _)
NextSetBit(mask, b) ==
  IF b >= ByteBits \/ (mask & Bit(b)) # 0 THEN b ELSE NextSetBit(mask, b + 1)

(* One codec loop of msm_vidc_init_instance_caps: n turns of the for loop, *)
(* each running the while loop from check_bit b and, when it finds a set  *)
(* bit, filling the entry with the domain and that codec bit and stepping *)
(* past it.  A turn that finds no bit leaves its kcalloc'd entry zero.    *)
RECURSIVE DomainCodecs(_, _, _, _)
DomainCodecs(dom, mask, n, b) ==
  IF n = 0 THEN <<>>
  ELSE LET k == NextSetBit(mask, b)
       IN IF k < ByteBits
          THEN <<[domain |-> dom, codec |-> mask & Bit(k), cap |-> NoCaps]>>
                 \o DomainCodecs(dom, mask, n - 1, k + 1)
          ELSE <<[domain |-> 0, codec |-> 0, cap |-> NoCaps]>>
                 \o DomainCodecs(dom, mask, n - 1, k)

(* msm_vidc_init_core_caps: kcalloc the table, then, for the first         *)
(* CORE_CAP_MAX platform entries, capabilities[type] = value.              *)
InitCoreCapsFrom(data) ==
  LET n == IF Len(data) < CoreCapMax THEN Len(data) ELSE CoreCapMax
  IN FoldLeft(LAMBDA caps, e : [caps EXCEPT ![e.type] = e.value],
              [t \in CoreTypes |-> 0], SubSeq(data, 1, n))

(* update_inst_capability: copy the platform entry into cap[in->cap]       *)
(* unless the id is out of range.                                          *)
UpdateInstCapability(in, capability) ==
  IF in.cap < InstCapMax
  THEN [capability EXCEPT !.cap[in.cap] = in.value]
  ELSE capability

(* The platform entry applies to a core entry sharing a domain bit and a  *)
(* codec bit with it.                                                      *)
Matches(p, e) == (p.domain & e.domain) # 0 /\ (p.codec & e.codec) # 0

(* Mutant: the decoder loop is a copy of the encoder loop that kept its  *)
(* domain.                                                                 *)
InstCapsSkeletonDecAsEnc(core) ==
  LET enc == U8(core["ENC_CODECS"])
      dec == U8(core["DEC_CODECS"])
      encCount == U8(CountBits(enc))
      count == U8(encCount + CountBits(dec))
  IN DomainCodecs(ENCODER, enc, encCount, 0)
       \o DomainCodecs(ENCODER, dec, count - encCount, 0)

(* The first half of msm_vidc_init_instance_caps: the u8 masks,           *)
(* codecs_count accumulated by COUNT_BITS over both, the kcalloc'd table,  *)
(* the encoder entries, then the decoder entries from i = enc_codec_count  *)
(* with check_bit reset to 0.                                              *)
InstCapsSkeleton(core) ==
  LET enc == U8(core["ENC_CODECS"])
      dec == U8(core["DEC_CODECS"])
      encCount == U8(CountBits(enc))
      count == U8(encCount + CountBits(dec))
  IN DomainCodecs(ENCODER, enc, encCount, 0)
       \o DomainCodecs(DECODER, dec, count - encCount, 0)

(* The platform loop: every platform entry, in order, updates every entry  *)
(* whose domain and codec it matches.                                      *)
InitInstanceCapsFrom(core, data) ==
  FoldLeft(LAMBDA caps, p :
             [j \in DOMAIN caps |->
                IF Matches(p, caps[j]) THEN UpdateInstCapability(p, caps[j])
                ELSE caps[j]],
           InstCapsSkeleton(core), data)

CodecsCountFrom(core) ==
  U8(CountBits(U8(core["ENC_CODECS"])) + CountBits(U8(core["DEC_CODECS"])))

(* Mutant: the entry is picked by codec alone.                             *)
GetInstCapabilityAnyDomain(dom, codec) ==
  LET m == {i \in 1..codecsCount : instCaps[i].codec = codec}
  IN IF m = {} THEN NoCaps ELSE instCaps[Max(m)].cap

(* msm_vidc_get_inst_capability on the session's kzalloc'd capabilities:   *)
(* every entry with the session's domain and codec is copied in turn, so   *)
(* the last one wins; with none the capabilities stay zero.                *)
GetInstCapability(dom, codec) ==
  LET m == {i \in 1..codecsCount : instCaps[i].domain = dom /\ instCaps[i].codec = codec}
  IN IF m = {} THEN NoCaps ELSE instCaps[Max(m)].cap

-----------------------------------------------------------------------------
(* Core probe: msm_vidc_init_core_caps.  Its early returns (no platform    *)
(* data, kcalloc failure) change nothing.                                  *)
InitCoreCaps ==
  /\ ~coreAlloc
  /\ coreAlloc' = TRUE
  /\ coreCaps' = InitCoreCapsFrom(coreData)
  /\ UNCHANGED <<coreData, instData, instAlloc, instCaps, codecsCount, sess, sessCaps>>

(* Core probe: msm_vidc_init_instance_caps, which needs core->capabilities.*)
InitInstanceCaps ==
  /\ coreAlloc /\ ~instAlloc
  /\ instAlloc' = TRUE
  /\ codecsCount' = CodecsCountFrom(coreCaps)
  /\ instCaps' = InitInstanceCapsFrom(coreCaps, instData)
  /\ UNCHANGED <<coreData, instData, coreAlloc, coreCaps, sess, sessCaps>>

(* v4l2_codec_to_driver: the V4L2 pixel formats the driver knows map to   *)
(* their enum msm_vidc_codec_type bit (H264 BIT(0), HEVC BIT(1), VP9       *)
(* BIT(2)); any other format is logged and gives 0.                        *)
V4l2Codecs == {"H264", "HEVC", "VP9", "MPEG2"}

V4l2CodecToDriver(v4l2Codec) ==
  CASE v4l2Codec = "H264" -> Bit(0)
    [] v4l2Codec = "HEVC" -> Bit(1)
    [] v4l2Codec = "VP9"  -> Bit(2)
    [] OTHER              -> 0

(* Session open: the codec is v4l2_codec_to_driver's result, 0 for a codec *)
(* it does not know; msm_vidc_get_inst_capability fills the session.       *)
OpenSession(dom, codec) ==
  /\ instAlloc /\ ~sess.open
  /\ sess' = [open |-> TRUE, domain |-> dom, codec |-> codec]
  /\ sessCaps' = GetInstCapability(dom, codec)
  /\ UNCHANGED <<coreData, instData, coreAlloc, coreCaps, instAlloc, instCaps, codecsCount>>

(* Session close frees the instance and its capabilities.                  *)
CloseSession ==
  /\ sess.open
  /\ sess' = [open |-> FALSE, domain |-> 0, codec |-> 0]
  /\ sessCaps' = NoCaps
  /\ UNCHANGED <<coreData, instData, coreAlloc, coreCaps, instAlloc, instCaps, codecsCount>>

(* Core remove: msm_vidc_deinit_instance_caps frees core->inst_caps and    *)
(* leaves codecs_count; msm_vidc_deinit_core_caps frees the core table.   *)
DeinitInstanceCaps ==
  /\ instAlloc /\ ~sess.open
  /\ instAlloc' = FALSE
  /\ instCaps' = <<>>
  /\ UNCHANGED <<coreData, instData, coreAlloc, coreCaps, codecsCount, sess, sessCaps>>

DeinitCoreCaps ==
  /\ coreAlloc /\ ~instAlloc
  /\ coreAlloc' = FALSE
  /\ coreCaps' = [t \in CoreTypes |-> 0]
  /\ UNCHANGED <<coreData, instData, instAlloc, instCaps, codecsCount, sess, sessCaps>>

(* The platform tables are any small tables; instance entry i has value i. *)
Init ==
  /\ coreData \in UNION {[1..n -> CoreEntries] : n \in 0..MaxCoreEntries}
  /\ \E n \in 0..MaxInstEntries : \E s \in [1..n -> InstShapes] :
       instData = [i \in 1..n |-> [cap |-> s[i].cap, domain |-> s[i].domain,
                                   codec |-> s[i].codec, value |-> i]]
  /\ coreAlloc = FALSE
  /\ coreCaps = [t \in CoreTypes |-> 0]
  /\ instAlloc = FALSE
  /\ instCaps = <<>>
  /\ codecsCount = 0
  /\ sess = [open |-> FALSE, domain |-> 0, codec |-> 0]
  /\ sessCaps = NoCaps

Next ==
  \/ InitCoreCaps \/ InitInstanceCaps
  \/ \E dom \in {ENCODER, DECODER}, v4l2Codec \in V4l2Codecs :
       OpenSession(dom, V4l2CodecToDriver(v4l2Codec))
  \/ CloseSession
  \/ DeinitInstanceCaps \/ DeinitCoreCaps

Spec == Init /\ [][Next]_vars

-----------------------------------------------------------------------------
(* Reference: what the tables should hold, stated over the platform data   *)
(* directly.  A core type takes the value of its last entry among the      *)
(* first CORE_CAP_MAX; a (domain, codec) is supported when the codec is a  *)
(* bit of the domain's mask; a capability of a supported pair takes the    *)
(* value of the last platform entry for that id whose domain and codec     *)
(* masks contain the pair, and is zero when there is none.                 *)
RefCore(t) ==
  LET idx == {i \in 1..Len(coreData) : i <= CoreCapMax /\ coreData[i].type = t}
  IN IF idx = {} THEN 0 ELSE coreData[Max(idx)].value

DomainMask == [d \in {ENCODER, DECODER} |->
                 IF d = ENCODER THEN RefCore("ENC_CODECS") ELSE RefCore("DEC_CODECS")]

SupportedPairs ==
  UNION {{<<d, Bit(k)>> : k \in {b \in 0..(ByteBits - 1) : (DomainMask[d] & Bit(b)) # 0}} :
           d \in {ENCODER, DECODER}}

RefCap(d, codec, c) ==
  LET idx == {i \in 1..Len(instData) :
                instData[i].cap = c /\ (instData[i].domain & d) # 0
                /\ (instData[i].codec & codec) # 0}
  IN IF idx = {} THEN 0 ELSE instData[Max(idx)].value

RefCaps(d, codec) ==
  IF <<d, codec>> \in SupportedPairs THEN [c \in CapIds |-> RefCap(d, codec, c)] ELSE NoCaps

(* Once msm_vidc_init_instance_caps has run, core->inst_caps holds exactly *)
(* one entry for each supported (domain, codec), codecs_count of them, and *)
(* each entry's capabilities are the reference's: the two bit-scanning     *)
(* loops and the platform loop build the table the platform data states.   *)
InstCapsMatchPlatform ==
  instAlloc =>
    /\ Len(instCaps) = codecsCount
    /\ {<<instCaps[j].domain, instCaps[j].codec>> : j \in 1..Len(instCaps)} = SupportedPairs
    /\ IsInjective([j \in 1..Len(instCaps) |-> <<instCaps[j].domain, instCaps[j].codec>>])
    /\ \A j \in 1..Len(instCaps) :
         instCaps[j].cap = RefCaps(instCaps[j].domain, instCaps[j].codec)

(* An open session holds the reference capabilities of its own domain and  *)
(* codec, and all zero when the core does not support that pair:           *)
(* msm_vidc_get_inst_capability copies the right entry, never another      *)
(* domain's entry for the same codec.                                      *)
SessionCapsMatchPlatform ==
  sess.open => sessCaps = RefCaps(sess.domain, sess.codec)
=============================================================================
