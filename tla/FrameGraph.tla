----------------------------- MODULE FrameGraph -----------------------------
(***************************************************************************)
(* Where the frames of a hardware transcode are, from the decoder to the   *)
(* encoder: the acceleration options (setAcceleration and                  *)
(* _build_preopts_postopts), the filter chain the encoder's class adds     *)
(* to (converter/avcodecs.py), and what each rung of the fallback ladder   *)
(* rewrites of both (the module-level helpers of mediaprocessor.py).       *)
(* FallbackLadder says which rung runs when; here any may, full_sw last.   *)
(*                                                                         *)
(* A filter is a record: its name, whether it scales (to the stream's      *)
(* "target" size, to its "own", or not: "none") and the bit depth its      *)
(* format pins, 0 for none.  NVENC, presets and encoder flags are left     *)
(* out.                                                                    *)
(***************************************************************************)
EXTENDS Naturals, Sequences, SequencesExt

CONSTANTS
  Streams,     \* the settings looked at; MCPlan says of what
  NoDevice     \* no device configured

VARIABLES
  fset,        \* the settings of the stream (never change)
  preOpts,     \* what precedes the input
  fopts,       \* options["video"]
  fstage,      \* what runs next
  command      \* the command last run

frameVars == <<fset, preOpts, fopts, fstage, command>>

Seg(f, size, depth) == [f |-> f, size |-> size, depth |-> depth]

QsvVpp == {"vpp_qsv", "scale_qsv"}
GpuScalers == QsvVpp \cup {"scale_vaapi"}
Bridges == {"hwmap", "hwupload", "hwdownload"}

Without(chain, names) == SelectSeq(chain, LAMBDA g : g.f \notin names)
Only(chain, names) == SelectSeq(chain, LAMBDA g : g.f \in names)

\* What the last of these segments that has any says, else the default.
LastSize(chain, else) == FoldLeft(LAMBDA a, g : IF g.size # "none" THEN g.size ELSE a, else, chain)
LastDepth(chain, else) == FoldLeft(LAMBDA a, g : IF g.depth # 0 THEN g.depth ELSE a, else, chain)

-----------------------------------------------------------------------------
(* generateOptions.                                                        *)

FrameStart(streams) ==
  /\ fset \in streams /\ fstage = "accelerate"
  /\ preOpts = [accel |-> "none", out |-> FALSE, decoder |-> FALSE, named |-> {}]
  /\ fopts = [enc |-> fset.enc, chain |-> fset.chain, dims |-> fset.dims, depth |-> fset.depth,
              device |-> NoDevice, decDevice |-> NoDevice]
  /\ command = [tier |-> "none", pre |-> preOpts, opts |-> fopts]

FrameInit == FrameStart(Streams)

\* setAcceleration: the first configured platform this build has (QSV takes its device
\* by path, the others by the name "sma"), and a decoder the bit depth allows.
Accelerate ==
  /\ fstage = "accelerate" /\ fstage' = "fold"
  /\ preOpts' = [accel |-> fset.accel, out |-> fset.out, decoder |-> fset.decoder,
                 named |-> IF fset.accelDev # NoDevice /\ fset.accel \notin {"none", "qsv"}
                           THEN {"sma"} ELSE {}]
  /\ UNCHANGED <<fset, fopts, command>>

\* Both dimensions of the target, or the source's proportions to derive one.
Resolvable == "h" \in fopts.dims \/ fset.known

\* _qsv_passthrough_filter, with the downscale in it.
Passthrough ==
  LET depth == IF fopts.depth = 0 THEN fset.srcDepth ELSE fopts.depth
      folds == fopts.dims # {} /\ Resolvable IN
  [fopts EXCEPT !.chain = <<Seg("vpp_qsv", IF folds THEN "target" ELSE "none", depth)>>,
                !.dims = IF folds THEN {} ELSE @]

\* _fold_scale_into_explicit_qsv_filter: a filter that scales keeps its own size.
Folded ==
  LET vpp == {i \in DOMAIN fopts.chain : fopts.chain[i].f \in QsvVpp}
      i == CHOOSE k \in vpp : \A m \in vpp : k <= m IN
  IF fopts.dims = {} \/ vpp = {} THEN fopts
  ELSE IF fopts.chain[i].size # "none" THEN [fopts EXCEPT !.dims = {}]
  ELSE IF Resolvable THEN [fopts EXCEPT !.chain[i].size = "target", !.dims = {}]
  ELSE fopts

FoldScale ==
  /\ fstage = "fold" /\ fstage' = "bind"
  /\ fopts' = IF fset.enc # "qsv" THEN fopts
              ELSE IF preOpts.accel = "qsv" /\ preOpts.out /\ fopts.chain = <<>> THEN Passthrough
              ELSE Folded
  /\ UNCHANGED <<fset, preOpts, command>>

\* hwdevices: the encoder shares the decoder's device or opens a second one; QSV has
\* no named device.
BindDevice ==
  /\ fstage = "bind" /\ fstage' = "hw"
  /\ IF fset.encDev = NoDevice \/ fset.enc # "vaapi" THEN UNCHANGED <<preOpts, fopts>>
     ELSE LET other == fset.accelDev \notin {NoDevice, fset.encDev}
              name == IF other THEN "sma2" ELSE "sma"
              opens == fset.accelDev # fset.encDev IN
          /\ preOpts' = [preOpts EXCEPT !.named = @ \cup (IF opens THEN {name} ELSE {})]
          /\ fopts' = [fopts EXCEPT !.device = name, !.decDevice = IF other THEN "sma" ELSE @]
  /\ UNCHANGED <<fset, command>>

-----------------------------------------------------------------------------
(* The chain of a command: the options' filter, then the encoder's own.    *)

\* _qsv_scale_opts: the size always; a bare format only where none like it is pinned.
QsvTail(o) ==
  IF o.dims # {} THEN <<Seg("scale_qsv", "target", o.depth)>>
  ELSE IF o.depth = 0 \/ \E i \in DOMAIN o.chain : o.chain[i].f \in QsvVpp /\ o.chain[i].depth = o.depth
  THEN <<>> ELSE <<Seg("scale_qsv", "none", o.depth)>>

\* VAAPIVideoCodec: frames of another device come down first; frames a bridge brought
\* are on the device already.
VaapiTail(o) ==
  LET download == o.decDevice # NoDevice /\ o.decDevice # o.device
      bridged == Only(o.chain, {"hwmap"}) # <<>> IN
  (IF download THEN <<Seg("hwdownload", "none", 0)>> ELSE <<>>)
  \o (IF bridged THEN <<>>
      ELSE <<Seg("hwupload", "none", 0)>>
           \o (IF o.dims # {} THEN <<Seg("scale_vaapi", "target", o.depth)>>
               ELSE IF o.depth # 0 THEN <<Seg("scale_vaapi", "none", o.depth)>> ELSE <<>>))

\* The software encoders take the pixel format as an option.
SoftwareTail(o) == IF o.dims # {} THEN <<Seg("scale", "target", 0)>> ELSE <<>>

Chain(o) ==
  o.chain \o (CASE o.enc = "qsv" -> QsvTail(o) [] o.enc = "vaapi" -> VaapiTail(o)
                [] o.enc = "software" -> SoftwareTail(o))

\* A VAAPI encoder without a device opens its own.
OpensOwn(o) == o.enc = "vaapi" /\ o.device = NoDevice

FilterDevice(o) == IF OpensOwn(o) THEN "vaapi0" ELSE o.device

-----------------------------------------------------------------------------
(* The rungs.                                                              *)

Undecoded(pre) == [pre EXCEPT !.decoder = FALSE]

\* _strip_qsv_decode_keep_encoder
SystemMemory(pre) == [pre EXCEPT !.decoder = FALSE, !.accel = "none", !.out = FALSE]

Runs(tier, pre, o) == command' = [tier |-> tier, pre |-> pre, opts |-> o]

HwTier == fstage = "hw" /\ fstage' = "ladder" /\ Runs("hw", preOpts, fopts) /\ UNCHANGED fopts

\* _rewrite_qsv_preopts_for_vaapi_encode leaves empty preopts, and a VAAPI device, alone.
WithVaapi(pre) ==
  IF (pre.accel = "none" /\ ~pre.decoder /\ fset.encDev = NoDevice) \/ pre.named # {} THEN pre
  ELSE [pre EXCEPT !.named = {"vaapi0"}]

\* _rewrite_qsv_filter_for_vaapi_encode: the QSV scalers become one behind the bridge.
Bridged(o) ==
  LET scalers == Only(o.chain, QsvVpp)
      size == IF o.dims # {} THEN "target" ELSE LastSize(scalers, "none")
      depth == LastDepth(scalers, o.depth) IN
  IF Only(o.chain, {"hwmap"}) # <<>> THEN o
  ELSE [o EXCEPT !.dims = {}, !.depth = 0,
                 !.chain = <<Seg("hwmap", "none", 0)>>
                           \o (IF size = "none" /\ depth = 0 THEN <<>>
                               ELSE <<Seg("scale_vaapi", size, depth)>>)
                           \o Without(@, QsvVpp)]

HwAltTier ==
  /\ fstage = "ladder" /\ fopts.enc = "qsv"
  /\ Runs("hw_alt", WithVaapi(preOpts),
          Bridged([fopts EXCEPT !.enc = "vaapi", !.device = "vaapi0"]))
  /\ UNCHANGED <<fopts, fstage>>

\* _rewrite_qsv_filter_for_sw_decode: always ends in a pinned format.
InSystemMemory(o) ==
  LET scalers == Only(o.chain, GpuScalers)
      size == LastSize(scalers, IF o.dims # {} THEN "target" ELSE "none")
      depth == LastDepth(scalers, IF o.depth # 0 THEN o.depth ELSE 8) IN
  [o EXCEPT !.dims = {}, !.depth = 0,
            !.chain = (IF size = "none" THEN <<>> ELSE <<Seg("scale", size, 0)>>)
                      \o <<Seg("format", "none", depth)>> \o Without(@, GpuScalers \cup {"hwmap"})]

\* _try_decode_side_rescue
RescueTier ==
  /\ fstage = "ladder"
  /\ preOpts.decoder \/ preOpts.accel # "none"
  /\ Runs("sw_decode_hw_encode", SystemMemory(preOpts), InSystemMemory(fopts))
  /\ UNCHANGED <<fopts, fstage>>

\* _strip_hw_decoder_from_preopts: the rest is what the first rung ran.
SwDecodeTier ==
  /\ fstage = "ladder" /\ preOpts.decoder
  /\ Runs("sw_decode", Undecoded(preOpts), fopts)
  /\ UNCHANGED <<fopts, fstage>>

\* _rewrite_options_for_full_sw, segment by segment.
AsSoftware(g) ==
  IF g.f \in Bridges THEN <<>>
  ELSE IF g.f \in GpuScalers
  THEN (IF g.size = "none" THEN <<>> ELSE <<Seg("scale", g.size, 0)>>)
       \o (IF g.depth = 0 THEN <<>> ELSE <<Seg("format", "none", g.depth)>>)
  ELSE IF g.f = "deinterlace_vaapi" THEN <<Seg("yadif", "none", 0)>>
  ELSE IF g.f = "tonemap_vaapi" THEN <<>>
  ELSE <<g>>

\* Slip: the encoder is swapped and the filters are left.
FullSoftwareSlip(o) == [o EXCEPT !.enc = "software", !.device = NoDevice, !.decDevice = NoDevice]

\* _swap_hw_codec_to_sw and the filters, in the options themselves.
FullSoftware(o) ==
  [o EXCEPT !.enc = "software", !.device = NoDevice, !.decDevice = NoDevice,
            !.chain = FlattenSeq([i \in DOMAIN @ |-> AsSoftware(@[i])])]

\* Every device option goes, or ffmpeg would still try to open the device.
FullSwTier ==
  /\ fstage = "ladder" /\ fopts.enc # "software" /\ fstage' = "over"
  /\ fopts' = FullSoftware(fopts)
  /\ Runs("full_sw", [SystemMemory(preOpts) EXCEPT !.named = {}], fopts')

Rungs == HwTier \/ HwAltTier \/ RescueTier \/ SwDecodeTier \/ FullSwTier

FrameNext ==
  \/ Accelerate \/ FoldScale \/ BindDevice
  \/ Rungs /\ UNCHANGED <<fset, preOpts>>

FrameSpec == FrameInit /\ [][FrameNext]_frameVars

-----------------------------------------------------------------------------
(* ffmpeg, as the comments of the code describe it.                        *)

\* Where the decoder leaves the frames.
DecodedTo(pre) == IF pre.out THEN pre.accel ELSE "cpu"

\* Where a filter leaves frames it is given at this place; "lost" where it refuses them.
Passed(place, g) ==
  CASE g.f \in QsvVpp /\ place = "qsv"               -> "qsv"
    [] g.f = "hwmap" /\ place \in {"qsv", "vaapi"}   -> "vaapi"
    [] g.f = "hwupload" /\ place \in {"cpu", "vaapi"} -> "vaapi"
    [] g.f = "hwdownload" /\ place \in {"qsv", "vaapi"} -> "cpu"
    [] g.f \in {"scale_vaapi", "deinterlace_vaapi", "tonemap_vaapi"} /\ place = "vaapi" -> "vaapi"
    [] g.f \in {"scale", "format", "yadif", "crop"} /\ place = "cpu" -> "cpu"
    [] OTHER -> "lost"

Delivered(c) == FoldLeft(Passed, DecodedTo(c.pre), Chain(c.opts))

\* A QSV encoder uploads frames in system memory by itself.
EncoderTakes(enc) ==
  CASE enc = "qsv" -> {"qsv", "cpu"} [] enc = "vaapi" -> {"vaapi"} [] enc = "software" -> {"cpu"}

-----------------------------------------------------------------------------
(* Properties.                                                             *)

Ran == command.tier # "none"

\* Settings that agree with themselves: the frames are decoded to the encoder's device
\* and nothing in the operator's chain takes them off it, or the encoder is software
\* and nothing is accelerated.
Consistent ==
  /\ fset.accel = (IF fset.enc = "software" THEN "none" ELSE fset.enc)
  /\ fset.out <=> fset.accel # "none"
  /\ fset.accelDev = fset.encDev
  /\ \A i \in DOMAIN fset.chain :
       fset.chain[i].f \in (CASE fset.enc = "qsv" -> QsvVpp [] fset.enc = "vaapi" -> {}
                              [] fset.enc = "software" -> {"yadif", "crop"})

Scaling(c) == Only(Chain(c.opts), GpuScalers \cup {"scale"})

\* Whatever rung of the ladder runs, ffmpeg can build the graph: every filter is given
\* frames where it can read them, the encoder too, and the filters' device is one the
\* command opens, once.  For full_sw this holds of every setting: no hardware is left.
GraphsBuild ==
  Ran /\ (Consistent \/ command.tier = "full_sw") =>
    /\ Delivered(command) \in EncoderTakes(command.opts.enc)
    /\ OpensOwn(command.opts) => "vaapi0" \notin command.pre.named
    /\ FilterDevice(command.opts) # NoDevice =>
         OpensOwn(command.opts) \/ FilterDevice(command.opts) \in command.pre.named

\* The size asked for is applied once on every rung, unless the operator's own filter
\* scales, which then does so alone; and no two QSV scalers follow each other in the
\* pipeline the planner composed itself.
ScaledOnce ==
  Ran /\ Consistent =>
    LET sizes == SelectSeq(Scaling(command), LAMBDA g : g.size # "none")
        own == LastSize(fset.chain, "none") # "none" IN
    /\ Len(sizes) = (IF own \/ fset.dims # {} THEN 1 ELSE 0)
    /\ own => sizes[1].size = "own"
    /\ fset.chain = <<>> /\ fset.known => Len(Only(Chain(command.opts), QsvVpp)) <= 1

\* What every rewrite of the command owes together (_attempt_ladder).
FramesFlow == GraphsBuild /\ ScaledOnce

=============================================================================
