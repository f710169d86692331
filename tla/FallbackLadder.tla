--------------------------- MODULE FallbackLadder ---------------------------
(***************************************************************************)
(* The recovery ladder of one conversion whose hardware transcode fails    *)
(* (MediaProcessor._attempt_ladder and the helpers that rewrite the        *)
(* command, resources/mediaprocessor.py).  A command is what the tiers     *)
(* change of it: whether a decoder is named (-vcodec before the input),    *)
(* whether the frames are accelerated (-hwaccel and its companions), and   *)
(* which family encodes.  Filters follow the encoder and the frames.       *)
(***************************************************************************)
EXTENDS Sequences, Naturals

CONSTANT Policies    \* the fallback policies looked at

Policy  == {"aggressive", "sw_decode_only", "hw_alt", "hw_only"}
Encoder == {"qsv", "vaapi", "otherHw", "software"}
Failure == {"decoder_init_failed", "filter_init_failed", "other"}

ASSUME LadderAssumption == Policies \subseteq Policy

VARIABLES
  policy,    \* settings.fallback_policy
  preopts,   \* what precedes -i: [decoder |-> named?, accel |-> accelerated?]
  codec,     \* options["video"]["codec"], the dictionary the tiers share
  chosen,    \* history: the codec the ladder began with
  tier,      \* the tier about to run, or "ok" or "failed"
  records    \* the attempts: tier, command and failure (or "none")

ladderVars == <<policy, preopts, codec, chosen, tier, records>>

Command(p, c) == [decoder |-> p.decoder, accel |-> p.accel, encoder |-> c]

LadderInit ==
  /\ policy \in Policies
  /\ preopts \in [decoder : BOOLEAN, accel : BOOLEAN]
  /\ codec \in Encoder /\ chosen = codec
  /\ tier = "hw" /\ records = << >>

-----------------------------------------------------------------------------
(* What the tiers run; "nothing to rewrite" keeps a tier from running.     *)

\* _swap_qsv_codec_to_vaapi works on a copy of the options.
HasVaapiTwin == codec = "qsv"

\* _strip_hw_decoder_from_preopts
StripsDecoder == preopts.decoder

\* _strip_qsv_decode_keep_encoder
StripsDecode == preopts.decoder \/ preopts.accel

\* _swap_hw_codec_to_sw
HasSoftwareTwin == codec # "software"

\* Slip: the preopts of the sw_decode tier are those of the first attempt.
SwDecodeCommandSlip == Command(preopts, codec)

\* Only the decoder is dropped: frames may still be accelerated.
SwDecodeCommand == Command([preopts EXCEPT !.decoder = FALSE], codec)

CommandOf(t) ==
  CASE t = "hw"                  -> Command(preopts, codec)
    [] t = "hw_alt"              -> Command(preopts, "vaapi")
    [] t = "sw_decode_hw_encode" -> Command([decoder |-> FALSE, accel |-> FALSE], codec)
    [] t = "sw_decode"           -> SwDecodeCommand
    [] t = "full_sw"             -> Command([decoder |-> FALSE, accel |-> FALSE], "software")

\* _try_decode_side_rescue: whether the failure earns it and it can be built.
Rescues(failure) == failure \in {"decoder_init_failed", "filter_init_failed"} /\ StripsDecode

\* The tier after sw_decode, or after what stands for it.
AfterDecode ==
  IF policy = "sw_decode_only" \/ ~HasSoftwareTwin THEN "failed" ELSE "full_sw"

BeforeDecode == IF StripsDecoder THEN "sw_decode" ELSE AfterDecode

\* The policies that go on to software decoding.
Descends == policy \in {"aggressive", "sw_decode_only"}

\* The tier that follows when tier t failed this way.
TierAfter(t, failure) ==
  LET rescue == IF Rescues(failure) THEN "sw_decode_hw_encode" ELSE "failed" IN
  CASE t = "hw" /\ policy # "hw_only" /\ HasVaapiTwin    -> "hw_alt"
    [] t = "hw" /\ policy = "hw_only"                    -> rescue
    [] t = "hw" /\ policy = "hw_alt" /\ ~HasVaapiTwin    -> rescue
    [] t = "hw" /\ Descends /\ ~HasVaapiTwin             -> BeforeDecode
    [] t = "hw_alt" /\ policy = "hw_alt"                 -> rescue
    [] t = "hw_alt" /\ Descends                          -> BeforeDecode
    [] t = "sw_decode"                                   -> AfterDecode
    [] t \in {"sw_decode_hw_encode", "full_sw"}          -> "failed"

\* The full-software swap is made in the options themselves.
Prepared(t) == IF t = "full_sw" THEN "software" ELSE codec

Attempt(failure) ==
  /\ tier \notin {"ok", "failed"}
  /\ LET next == IF failure = "none" THEN "ok" ELSE TierAfter(tier, failure) IN
     /\ records' = Append(records, [tier |-> tier, command |-> CommandOf(tier),
                                    failure |-> failure])
     /\ tier' = next /\ codec' = Prepared(next)
  /\ UNCHANGED <<policy, preopts, chosen>>

LadderNext == \E failure \in Failure \cup {"none"} : Attempt(failure)

LadderSpec == LadderInit /\ [][LadderNext]_ladderVars

-----------------------------------------------------------------------------
(* Properties.                                                             *)

Ran(t) == \E i \in 1 .. Len(records) : records[i].tier = t

\* Whatever fails, and whatever the command had to begin with: no command runs twice;
\* the encoder is the chosen one, or its VAAPI twin unless the policy is hw_only, or
\* software under aggressive alone; aggressive gives up on a hardware encoder only after
\* software alone failed, and sw_decode_only only when no named decoder was left.
LadderKeepsPolicy ==
  /\ \A i, k \in 1 .. Len(records) : i # k => records[i].command # records[k].command
  /\ \A i \in 1 .. Len(records) :
       \/ records[i].command.encoder = chosen
       \/ records[i].command.encoder = "vaapi" /\ chosen = "qsv" /\ policy # "hw_only"
       \/ records[i].command.encoder = "software" /\ policy = "aggressive"
  /\ tier = "failed" /\ policy = "aggressive" /\ chosen # "software" => Ran("full_sw")
  /\ tier = "failed" /\ policy = "sw_decode_only" =>
       ~records[Len(records)].command.decoder

\* docs/configuration.md: "under hw_alt and hw_only, a failure classified
\* decoder_init_failed [...] or filter_init_failed [...] still earns one software-decode +
\* hardware-encode retry".
DecodeFailureEarnsRetry ==
  tier = "failed" /\ policy \in {"hw_alt", "hw_only"} /\ StripsDecode
  /\ (\E i \in 1 .. Len(records) :
        records[i].failure \in {"decoder_init_failed", "filter_init_failed"})
  => Ran("sw_decode_hw_encode")

=============================================================================
