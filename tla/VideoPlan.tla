----------------------------- MODULE VideoPlan -----------------------------
(***************************************************************************)
(* Whether a conversion copies or re-encodes the video, and at what rate   *)
(* (_select_video_codec in resources/mediaprocessor.py, with the           *)
(* recommendations of resources/analyzer.py, and the burning of subtitles  *)
(* that _build_subtitle_settings adds): a chain of rules, each of which    *)
(* may end a copy or change what an earlier one has set.  One action is    *)
(* one rule, in the order of the code.                                     *)
(*                                                                         *)
(* Bitrates are in kbit/s and 0 is None; the source's is known and         *)
(* positive.  Frame rates are in thousandths.  A pixel format is *)
(* its bit depth, 0 when unset.  Colour tags, bitstream filters, presets,  *)
(* frame counts, titles and the custom hook are left out.                  *)
(***************************************************************************)
EXTENDS Integers, Sequences, FiniteSets, SequencesExt

CONSTANTS
  VideoSources, VideoSettings,   \* records; MCPlan says of what
  Family,     \* codec or encoder -> "h264" or "h265"
  ProbeName,  \* encoder -> the name ffprobe gives its output
  MaxDepth    \* encoder -> the bit depth it supports

VARIABLES
  vsrc, vset,    \* source and settings (never change)
  vrule,         \* the next rule
  vid,           \* the stream's settings so far
  marks          \* vdebug: why the stream is not copied

videoVars == <<vsrc, vset, vrule, vid, marks>>

-----------------------------------------------------------------------------
(* build_recommendations.                                                  *)

Content(kind) ==
  CASE kind = "animation"    -> [ratio |-> 90, ceiling |-> 8000]
    [] kind = "talking_head" -> [ratio |-> 85, ceiling |-> 4000]
    [] kind = "high_motion"  -> [ratio |-> 115, ceiling |-> 12000]
    [] OTHER                 -> [ratio |-> 0, ceiling |-> 0]

Larger(a, b) == IF a >= b THEN a ELSE b
Smaller(a, b) == IF a <= b THEN a ELSE b

\* Noise raises the ratio but never lowers a ceiling; interlacing and letterboxing
\* ask for a filter and a re-encode.
Advice(seen) ==
  LET content == Content(seen.kind) IN
  [order |-> IF seen.kind = "animation" THEN <<"h265", "h264">> ELSE <<>>,
   ratio |-> IF seen.noisy THEN Larger(content.ratio, 110) ELSE content.ratio,
   ceiling |-> IF seen.noisy /\ content.ceiling = 0 THEN 10000 ELSE content.ceiling,
   filter |-> seen.noisy \/ seen.interlaced \/ seen.letterboxed,
   force |-> seen.interlaced \/ seen.letterboxed]

Adv == Advice(vset.seen)

-----------------------------------------------------------------------------
(* The codec pool and what is derived from the settings.                   *)

\* ffprobeSafeCodecs: what the first encoder writes may be copied too.
Safe(pool) ==
  IF ProbeName[pool[1]] \in ToSet(pool) THEN pool ELSE Append(pool, ProbeName[pool[1]])

\* _reorder_codec_pool: the families in the advised order, the others behind them.
Reordered(pool, order) ==
  LET members(f) == SelectSeq(pool, LAMBDA c : Family[c] = f) IN
  FoldLeft(LAMBDA done, f : done \o members(f), <<>>, order)
    \o SelectSeq(pool, LAMBDA c : Family[c] \notin ToSet(order))

Pool ==
  Reordered(Safe(IF vsrc.hdr /\ vset.hdrPool # <<>> THEN vset.hdrPool ELSE vset.pool), Adv.order)

Encoder == Pool[1]

DolbyVision5 == vsrc.dv5 /\ vsrc.codec = "hevc"

\* -1 leaves the general maximum in force for HDR, 0 lifts it, for the advised one too.
MaxRate ==
  LET own == IF vsrc.hdr /\ vset.hdrMaxRate >= 0 THEN vset.hdrMaxRate ELSE vset.maxRate
      unlimited == vsrc.hdr /\ vset.hdrMaxRate = 0 IN
  IF Adv.ceiling = 0 \/ unlimited THEN own
  ELSE IF own = 0 THEN Adv.ceiling ELSE Smaller(own, Adv.ceiling)

Rule(this, next) == vrule = this /\ vrule' = next /\ UNCHANGED <<vsrc, vset>>

Encoding(changes) == [k \in DOMAIN vid |-> IF k = "codec" THEN Encoder
                                           ELSE IF k \in DOMAIN changes THEN changes[k] ELSE vid[k]]

\* A re-encode the operator is told the reason of.
ForceWhen(cond, mark, changes) ==
  IF cond THEN vid' = Encoding(changes) /\ marks' = marks \cup {mark}
  ELSE UNCHANGED <<vid, marks>>

Nothing == [k \in {} |-> 0]

-----------------------------------------------------------------------------
(* _select_video_codec.                                                    *)

VideoStart(sources, settings) ==
  /\ vsrc \in sources /\ vset \in settings
  /\ vrule = "codec" /\ marks = {}
  /\ vid = [codec |-> "none", rate |-> 0, maxrate |-> 0, buf |-> 0, scaled |-> FALSE,
            profile |-> "none", pix |-> 0, filter |-> {}, fps |-> 0, icq |-> FALSE]

VideoInit == VideoStart(VideoSources, VideoSettings)

ChooseCodec ==
  /\ Rule("codec", "rate")
  /\ LET copied == vsrc.codec \in ToSet(Pool) IN
     IF copied /\ vset.force
     THEN vid' = [vid EXCEPT !.codec = Encoder] /\ marks' = {"force-reencode"}
     ELSE vid' = [vid EXCEPT !.codec = IF copied THEN "copy" ELSE Encoder] /\ UNCHANGED marks

LimitRate ==
  /\ Rule("rate", "size")
  /\ LET ratio == IF Adv.ratio = 0 THEN 100 ELSE Adv.ratio
         wanted == (vsrc.rate * vset.ratio * ratio) \div 10000 IN
     IF MaxRate > 0 /\ wanted > MaxRate
     THEN vid' = Encoding([rate |-> MaxRate]) /\ marks' = marks \cup {"max-bitrate"}
     ELSE vid' = [vid EXCEPT !.rate = wanted] /\ UNCHANGED marks

\* video-max-width and the dimensions of a repair.
LimitSize ==
  /\ Rule("size", "level")
  /\ LET wide == vset.maxWidth > 0 /\ vset.maxWidth < vsrc.width
         why == (IF wide THEN {"max-width"} ELSE {})
                \cup (IF vset.dims THEN {"dims-override"} ELSE {}) IN
     /\ vid' = IF why = {} THEN vid ELSE Encoding([scaled |-> TRUE])
     /\ marks' = marks \cup why

LimitLevel ==
  /\ Rule("level", "profile")
  /\ ForceWhen(vset.level > 0 /\ vsrc.level > vset.level, "max-level", Nothing)

ChooseProfile ==
  /\ Rule("profile", "vbv")
  /\ LET hdr == vsrc.hdr /\ vset.hdrProfiles # <<>>
         approved == IF hdr THEN vset.hdrProfiles ELSE vset.profiles IN
     IF approved = <<>> THEN UNCHANGED <<vid, marks>>
     ELSE IF vsrc.profile \in ToSet(approved)
     THEN vid' = [vid EXCEPT !.profile = vsrc.profile] /\ UNCHANGED marks
     ELSE ForceWhen(TRUE, IF hdr THEN "hdr-profile-fmt" ELSE "profile", [profile |-> approved[1]])

\* _match_bitrate_profile: the last profile, in ascending order, whose floor the
\* source reaches; 4K takes no other size's.
RateProfiles ==
  CASE vsrc.height > 1080  -> vset.rateProfilesUhd
    [] vsrc.height \in 720 .. 1080 /\ vset.rateProfilesHd # <<>> -> vset.rateProfilesHd
    [] OTHER -> vset.rateProfiles

Matching == SelectSeq(RateProfiles, LAMBDA p : vsrc.rate >= p.floor)

\* The VBV ceiling from the rate profile, or from the maximum, with room above it
\* (VBV_PEAK_RATIO) when that was the reason to re-encode.
WithCeiling ==
  LET peak == IF "max-bitrate" \in marks THEN (MaxRate * 3) \div 2 ELSE MaxRate IN
  IF Matching # <<>>
  THEN Encoding([rate |-> Last(Matching).target, maxrate |-> Last(Matching).max,
                 buf |-> 2 * Last(Matching).max])
  ELSE IF MaxRate > 0 THEN [vid EXCEPT !.maxrate = peak, !.buf = 2 * peak] ELSE vid

\* Slip: the advised ceiling lowers the peak only.
AdvisedSlip(v) ==
  IF Adv.ceiling = 0 THEN v
  ELSE LET top == IF v.maxrate > 0 THEN Smaller(v.maxrate, Adv.ceiling) ELSE Adv.ceiling IN
       [v EXCEPT !.maxrate = top, !.buf = 2 * top]

Advised(v) ==
  IF Adv.ceiling = 0 THEN v
  ELSE LET top == IF v.maxrate > 0 THEN Smaller(v.maxrate, Adv.ceiling) ELSE Adv.ceiling IN
       [v EXCEPT !.rate = Smaller(@, Adv.ceiling), !.maxrate = top, !.buf = 2 * top]

SetCeiling == Rule("vbv", "filter") /\ vid' = Advised(WithCeiling) /\ UNCHANGED marks

SetFilter ==
  /\ Rule("filter", "pix")
  /\ LET own == IF vsrc.hdr /\ vset.hdrFilter THEN {"hdr"}
                ELSE IF vset.filter THEN {"video"} ELSE {}
         forced == IF vsrc.hdr THEN vset.hdrFilter /\ vset.forceFilter
                   ELSE vset.filter /\ vset.forceFilter IN
     IF forced
     THEN /\ vid' = Encoding([filter |-> own])
          /\ marks' = marks \cup {IF vsrc.hdr THEN "hdr-force-filter" ELSE "force-filter"}
     ELSE vid' = [vid EXCEPT !.filter = own] /\ UNCHANGED marks

ChoosePixFmt ==
  /\ Rule("pix", "depth")
  /\ LET approved == IF vsrc.hdr THEN vset.hdrPix ELSE vset.pix IN
     IF approved = <<>> THEN UNCHANGED <<vid, marks>>
     ELSE IF vsrc.depth \in ToSet(approved)
     THEN /\ vid' = [vid EXCEPT !.pix = IF vset.keepPix THEN vsrc.depth ELSE approved[1]]
          /\ UNCHANGED marks
     ELSE ForceWhen(TRUE, IF vsrc.hdr THEN "hdr-pix_fmt" ELSE "pix_fmt", [pix |-> approved[1]])

DepthOf(v) == IF v.pix = 0 THEN vsrc.depth ELSE v.pix

\* The safety check: only for a stream that is to be re-encoded by now.
CheckDepth ==
  /\ Rule("depth", "advice")
  /\ vid' = IF vid.codec # "copy" /\ DepthOf(vid) > MaxDepth[vid.codec]
            THEN [vid EXCEPT !.pix = MaxDepth[vid.codec]] ELSE vid
  /\ UNCHANGED marks

FollowAdvice ==
  /\ Rule("advice", "fps")
  /\ LET forced == Adv.force /\ vid.codec = "copy"
         why == (IF forced THEN {"analyzer-force-reencode"} ELSE {})
                \cup (IF Adv.filter THEN {"analyzer-filter"} ELSE {}) IN
     /\ vid' = IF Adv.filter THEN [vid EXCEPT !.filter = @ \cup {"analyzer"},
                                              !.codec = IF @ = "copy" THEN Encoder ELSE @]
               ELSE vid
     /\ marks' = marks \cup why

\* _capped_fps: the fastest rate of the source's own family under the cap, else the
\* fastest standard rate.
Ntsc == {23976, 29970, 59940}
Pal  == {25000, 50000}
Film == {24000, 30000, 60000}

Fastest(S) == CHOOSE r \in S : \A q \in S : q <= r

CappedFps(fps, cap) ==
  LET family == IF fps % 1000 # 0 THEN Ntsc ELSE IF fps % 25000 = 0 THEN Pal ELSE Film
      fitting == {r \in family : r * 1000 <= cap * 1002}
      standard == {r \in Ntsc \cup Pal \cup Film : r <= cap} IN
  IF fitting # {} THEN Fastest(fitting) ELSE IF standard # {} THEN Fastest(standard) ELSE cap

TooManyFrames == vset.maxFps > 0 /\ vsrc.fps * 1000 > vset.maxFps * 1002

CapFps ==
  /\ Rule("fps", "dolby")
  /\ IF TooManyFrames
     THEN /\ vid' = [vid EXCEPT !.fps = CappedFps(vsrc.fps, vset.maxFps),
                                !.codec = IF @ = "copy" THEN Encoder ELSE @]
          /\ marks' = marks \cup {"max-fps"}
     ELSE UNCHANGED <<vid, marks>>

\* Dolby Vision profile 5 has no base layer a re-encode could show: copied, whatever
\* asked for the re-encode.
KeepDolbyVision ==
  /\ Rule("dolby", "reconcile")
  /\ vid' = IF vid.codec # "copy" /\ DolbyVision5
            THEN [vid EXCEPT !.codec = "copy", !.filter = {}, !.fps = 0] ELSE vid
  /\ UNCHANGED marks

\* _reconcile_profile_to_bit_depth
Sibling(p, depth) ==
  IF depth <= 8 THEN (IF p = "main10" THEN "main" ELSE IF p = "high10" THEN "high" ELSE p)
  ELSE (IF p = "main" THEN "main10" ELSE IF p = "high" THEN "high10" ELSE p)

ReconcileProfile ==
  /\ Rule("reconcile", "clamp")
  /\ vid' = IF vid.codec = "copy" THEN vid
            ELSE [vid EXCEPT !.profile = Sibling(@, DepthOf(vid))]
  /\ UNCHANGED marks

\* A re-encode into the source's own family gains nothing above 1.2 times its rate.
ClampSameFamily ==
  /\ Rule("clamp", "control")
  /\ LET soft == (vsrc.rate * 12) \div 10
         top == (soft * 3) \div 2 IN
     vid' = IF /\ vid.codec # "copy" /\ Family[vsrc.codec] = Family[vid.codec]
               /\ vid.rate > soft
            THEN [vid EXCEPT !.rate = soft,
                             !.maxrate = IF @ > top THEN top ELSE @,
                             !.buf = IF vid.maxrate > top THEN 3 * soft ELSE @]
            ELSE vid
  /\ UNCHANGED marks

BitrateDriven == "max-bitrate" \in marks \/ Matching # <<>> \/ Adv.ceiling > 0

\* Constant quality unless the rate was the reason; otherwise the configured floor.
SelectRateControl ==
  /\ Rule("control", "vbvLevel")
  /\ IF vid.codec # "copy" /\ vid.rate > 0 /\ ~BitrateDriven /\ vset.quality
     THEN /\ vid' = [vid EXCEPT !.rate = 0, !.maxrate = 0, !.buf = 0, !.icq = TRUE]
          /\ marks' = marks \cup {"icq"}
     ELSE IF vid.codec # "copy" /\ vid.rate > 0 /\ vid.rate < vset.minRate
     THEN /\ vid' = [vid EXCEPT
                       !.rate = vset.minRate,
                       !.maxrate = IF @ > 0 THEN Larger(@, vset.minRate) ELSE @,
                       !.buf = IF 0 < vid.maxrate /\ vid.maxrate < vset.minRate
                               THEN 2 * vset.minRate ELSE @]
          /\ marks' = marks \cup {"min-bitrate"}
     ELSE UNCHANGED <<vid, marks>>

\* _clamp_vbv_to_level: the Main tier of HEVC level 4.0; never below the target.
LevelLimit == IF vset.level = 40 THEN 12000 ELSE 240000

ClampToLevel ==
  /\ Rule("vbvLevel", "burn")
  /\ LET clamped(x) == IF x > LevelLimit THEN Larger(LevelLimit, vid.rate) ELSE x IN
     vid' = IF vid.codec # "copy" /\ vset.level > 0 /\ Family[vid.codec] = "h265"
            THEN [vid EXCEPT !.maxrate = clamped(@), !.buf = clamped(@)] ELSE vid
  /\ UNCHANGED marks

\* Last of all, in _build_subtitle_settings.
BurnSubtitles ==
  Rule("burn", "done")
  /\ ForceWhen(vset.burn /\ ~DolbyVision5, "burn-subtitles",
               [filter |-> vid.filter \cup {"burn"}])

VideoNext ==
  \/ ChooseCodec \/ LimitRate \/ LimitSize \/ LimitLevel \/ ChooseProfile \/ SetCeiling
  \/ SetFilter \/ ChoosePixFmt \/ CheckDepth \/ FollowAdvice \/ CapFps \/ KeepDolbyVision
  \/ ReconcileProfile \/ ClampSameFamily \/ SelectRateControl \/ ClampToLevel
  \/ BurnSubtitles

VideoSpec == VideoInit /\ [][VideoNext]_videoVars

-----------------------------------------------------------------------------
VideoPlanned == vrule = "done"

\* The picture survives the rules whatever their order did: Dolby Vision profile 5 is
\* copied untouched, every other stream that some rule named a reason to re-encode is
\* re-encoded, a copy is of a codec the settings accept, and a frame rate that was
\* lowered stays under the cap.
PictureKept ==
  VideoPlanned =>
    /\ DolbyVision5 => vid.filter \subseteq {"video", "hdr"} /\ vid.fps = 0
    /\ DolbyVision5 /\ marks # {} => vid.codec = "copy"
    /\ ~DolbyVision5 /\ marks # {} => vid.codec # "copy"
    /\ vid.codec = "copy" => DolbyVision5 \/ vsrc.codec \in ToSet(Pool)
    /\ vid.fps > 0 => vid.fps < vsrc.fps /\ vid.fps * 1000 <= vset.maxFps * 1002

\* What an encoder is given together makes sense to it: no ceiling below the target,
\* none without a target (hardware encoders refuse both at start), and constant
\* quality only without either.
RateControlled ==
  VideoPlanned /\ vid.codec # "copy" =>
    /\ vid.maxrate > 0 => vid.rate > 0 /\ vid.rate <= vid.maxrate
    /\ vid.buf > 0 <=> vid.maxrate > 0
    /\ vid.icq => vid.rate = 0 /\ vid.maxrate = 0

\* What the video rules owe together (_select_video_codec and what follows it).
PictureSound == PictureKept /\ RateControlled

=============================================================================
