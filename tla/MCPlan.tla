------------------------------- MODULE MCPlan -------------------------------
(***************************************************************************)
(* Small instances, for TLC, of what one process does on its own: the      *)
(* plans of a conversion's streams and of its name, the queue of a single  *)
(* node, and the readers of its configuration, in four parts: "cache" is   *)
(* request threads and loads, "agree" a request thread, loads and          *)
(* manual.py, "identity" loads, restarts and edits, and "meaning" what a   *)
(* file gives.  As in MCServices, one of them runs and the others rest.    *)
(***************************************************************************)
EXTENDS AudioPlan, VideoPlan, SubtitlePlan, FrameGraph, NamePlan, LocalQueue, MCConfig, TLC

CONSTANTS p1, p2, cfg1, cfg2, hq, lq, r1, r2, u1, u2

Track(lang, ch, codec, flags, rate, atmos) ==
  [lang |-> lang, ch |-> ch, codec |-> codec, flags |-> flags, rate |-> rate, atmos |-> atmos]

MCTracks ==
  { Track("eng", 8, "truehd", {"default"}, 0, TRUE),
    Track("eng", 6, "truehd", {}, 0, TRUE),
    Track("eng", 6, "ac3", {"default"}, 6, FALSE),
    Track("eng", 6, "ac3", {}, 6, FALSE),
    Track("fra", 6, "eac3", {"default"}, 9, TRUE),
    Track("fra", 2, "aac", {}, 2, FALSE),
    Track("eng", 2, "aac", {"comment"}, 2, FALSE),
    Track("eng", 2, "aac", {"default"}, 2, FALSE),
    Track(Undefined, 2, "dts", {}, 3, FALSE) }

MCAudioSources == UNION {[1 .. n -> MCTracks] : n \in 0 .. 3}

Base ==
  [langs |-> <<>>, original |-> Unset, prefer |-> Unset, ignored |-> {}, unique |-> FALSE,
   firstOfLang |-> FALSE, forceDefault |-> FALSE, ua |-> FALSE, uaFirst |-> FALSE,
   uaPool |-> <<"aac">>, uaRate |-> 2, defaultRate |-> 2, pool |-> <<"eac3", "ac3", "aac">>,
   maxCh |-> 0, rate |-> 1, maxRate |-> 0, noCopy |-> FALSE, atmos |-> FALSE, mp4 |-> TRUE,
   copyOriginal |-> FALSE, combos |-> {},
   sortBy |-> <<"language", "channels.d", "map", "d.comment">>,
   defaultBy |-> <<"channels.d", "map", "d.comment">>]

MCAudioSettings ==
  { Base,
    [Base EXCEPT !.langs = <<"eng">>, !.prefer = "eng", !.ua = TRUE, !.uaFirst = TRUE],
    [Base EXCEPT !.langs = <<"fra", "eng">>, !.firstOfLang = TRUE, !.atmos = TRUE],
    [Base EXCEPT !.langs = <<"eng">>, !.original = "fra", !.ignored = {"comment"},
                 !.ua = TRUE, !.maxCh = 6],
    [Base EXCEPT !.prefer = "fra", !.forceDefault = TRUE, !.firstOfLang = TRUE,
                 !.copyOriginal = TRUE, !.noCopy = TRUE,
                 !.defaultBy = <<"bitrate.d">>],
    [Base EXCEPT !.prefer = "eng", !.combos = {<<"truehd", "ac3">>}, !.atmos = TRUE],
    [Base EXCEPT !.prefer = "eng", !.combos = {<<"truehd", "ac3">>}, !.ua = TRUE,
                 !.maxRate = 6, !.rate = 0],
    [Base EXCEPT !.unique = TRUE, !.prefer = "fra", !.atmos = TRUE, !.maxCh = 2] }

-----------------------------------------------------------------------------
Picture(codec, rate, height, depth, profile, hdr, fps, dv5) ==
  [codec |-> codec, rate |-> rate, height |-> height, width |-> 2 * height, depth |-> depth,
   profile |-> profile, level |-> 41, hdr |-> hdr, fps |-> fps, dv5 |-> dv5]

MCPictures ==
  { Picture("hevc", 20000, 2160, 10, "main10", TRUE, 59940, TRUE),
    Picture("hevc", 20000, 2160, 10, "main10", TRUE, 23976, FALSE),
    Picture("hevc", 10000, 1080, 10, "main10", FALSE, 50000, FALSE),
    Picture("h264", 10000, 1080, 8, "high", FALSE, 30000, FALSE),
    Picture("h264", 2000, 480, 8, "main", FALSE, 29970, FALSE),
    Picture("mpeg2", 30000, 1080, 8, "main", FALSE, 25000, FALSE) }

Plain == [kind |-> "live", noisy |-> FALSE, interlaced |-> FALSE, letterboxed |-> FALSE]

VBase ==
  [pool |-> <<"hevc_qsv", "hevc">>, hdrPool |-> <<>>, force |-> FALSE, ratio |-> 100,
   maxRate |-> 0, hdrMaxRate |-> 0 - 1, seen |-> Plain, maxWidth |-> 0, dims |-> FALSE,
   level |-> 0, profiles |-> <<>>, hdrProfiles |-> <<>>, rateProfiles |-> <<>>,
   rateProfilesHd |-> <<>>, rateProfilesUhd |-> <<>>, filter |-> FALSE, hdrFilter |-> FALSE,
   forceFilter |-> FALSE, pix |-> <<>>, hdrPix |-> <<>>, keepPix |-> FALSE, maxFps |-> 0,
   quality |-> FALSE, minRate |-> 0, burn |-> FALSE]

Steps3 == << [floor |-> 1000, target |-> 2000, max |-> 3000], [floor |-> 9000, target |-> 6000, max |-> 14000] >>

\* Each changes one corner of the settings; a plan combines two of them.
Corners ==
  { [burn |-> FALSE], [burn |-> TRUE], [force |-> TRUE], [maxRate |-> 5000],
    [maxRate |-> 8000, hdrMaxRate |-> 0], [pool |-> <<"h264_vaapi", "h264", "hevc">>],
    [hdrPool |-> <<"hevc_qsv">>, pool |-> <<"h264_vaapi">>], [maxWidth |-> 1920],
    [dims |-> TRUE], [level |-> 40], [profiles |-> <<"main10", "main">>],
    [profiles |-> <<"main">>, hdrProfiles |-> <<"main10">>],
    [rateProfiles |-> Steps3], [rateProfilesHd |-> Steps3, rateProfilesUhd |-> Steps3],
    [filter |-> TRUE, forceFilter |-> TRUE], [hdrFilter |-> TRUE, forceFilter |-> TRUE],
    [filter |-> TRUE], [pix |-> <<8>>, hdrPix |-> <<10>>], [pix |-> <<10, 8>>],
    [pix |-> <<8, 10>>, keepPix |-> TRUE], [maxFps |-> 30000], [maxFps |-> 20000],
    [quality |-> TRUE], [minRate |-> 7000], [ratio |-> 50],
    [seen |-> [Plain EXCEPT !.kind = "animation", !.noisy = TRUE]],
    [seen |-> [Plain EXCEPT !.kind = "talking_head"]],
    [seen |-> [Plain EXCEPT !.interlaced = TRUE]] }

MCVideoSettings == {a @@ b @@ VBase : a, b \in Corners}

MCFamily == [c \in {"hevc_qsv", "hevc"} |-> "h265"] @@ [c \in {"h264_vaapi", "h264"} |-> "h264"]
            @@ [c \in {"mpeg2"} |-> "mpeg2"]

MCProbeName == "hevc_qsv" :> "hevc" @@ "h264_vaapi" :> "h264"
MCMaxDepth == [c \in {"hevc_qsv", "hevc"} |-> 10] @@ [c \in {"h264_vaapi", "h264"} |-> 8]

-----------------------------------------------------------------------------
Sub(lang, form, scodec, flags) == [lang |-> lang, form |-> form, codec |-> scodec, flags |-> flags]

Sidecar(name, lang, form, flags) ==
  [name |-> name, lang |-> lang, form |-> form, flags |-> flags,
   codec |-> IF form = "image" THEN "hdmv_pgs_subtitle" ELSE "subrip"]

Entry(name, streams, files, asIs) == [name |-> name, streams |-> streams, files |-> files, asIs |-> asIs]

MCSubs ==
  { Sub("eng", "text", "subrip", {}), Sub("eng", "text", "subrip", {"forced"}),
    Sub("eng", "text", "mov_text", {"default", "hearing_impaired"}),
    Sub("eng", "image", "hdmv_pgs_subtitle", {}), Sub("fra", "image", "dvd_subtitle", {"default"}),
    Sub(UndefinedLang, "text", "ass", {}), Sub("fra", "corrupt", "subrip", {}) }

MCSidecars ==
  { <<>>, <<Sidecar(<<"a", "eng">>, "eng", "text", {})>>,
    <<Sidecar(<<"a", "fra">>, "fra", "image", {}), Sidecar(<<"a", "forced">>, "eng", "text", {"forced"})>> }

MCTitles == {Entry("a", streams, files, FALSE) :
              streams \in UNION {[1 .. n -> MCSubs] : n \in 0 .. 3}, files \in MCSidecars}

MCBatches ==
  {<<f>> : f \in MCTitles} \cup
  {<<Entry("a", <<>>, <<Sidecar(<<"a", "eng">>, "eng", "text", {})>>, asIs),
     Entry("b", <<>>, <<Sidecar(<<"b", "eng">>, "eng", "text", {})>>, FALSE)>> : asIs \in BOOLEAN}

SBase ==
  [langs |-> <<>>, original |-> UnsetLang, sdl |-> UnsetLang, ignored |-> {}, unique |-> FALSE,
   firstOfLang |-> FALSE, forceDefault |-> FALSE, embed |-> TRUE, embedImages |-> TRUE,
   ignoreEmbedded |-> FALSE, internalOnly |-> FALSE, download |-> FALSE, clean |-> FALSE,
   mp4 |-> TRUE, textPool |-> <<"subrip">>, imagePool |-> <<"dvd_subtitle", "mov_text">>,
   outputDir |-> FALSE, moveTo |-> FALSE, delete |-> TRUE]

MCSubtitleSettings ==
  { SBase,
    [SBase EXCEPT !.langs = <<"eng">>, !.sdl = "eng", !.forceDefault = TRUE, !.download = TRUE],
    [SBase EXCEPT !.firstOfLang = TRUE, !.clean = TRUE, !.sdl = "fra", !.outputDir = TRUE],
    [SBase EXCEPT !.firstOfLang = TRUE, !.embed = FALSE, !.mp4 = FALSE, !.delete = FALSE,
                  !.textPool = <<"mov_text", "subrip">>],
    [SBase EXCEPT !.langs = <<"fra">>, !.original = "eng", !.ignored = {HI}, !.internalOnly = TRUE,
                  !.clean = TRUE, !.mp4 = FALSE, !.imagePool = <<"mov_text">>],
    [SBase EXCEPT !.unique = TRUE, !.ignored = {HI}, !.embedImages = FALSE, !.outputDir = TRUE,
                  !.moveTo = TRUE],
    [SBase EXCEPT !.ignoreEmbedded = TRUE, !.langs = <<"eng", "fra">>, !.download = TRUE] }

-----------------------------------------------------------------------------
\* The operator's chains, the analyzer's (crop and yadif), and none.
MCChains ==
  { <<>>, <<Seg("vpp_qsv", "none", 0)>>, <<Seg("vpp_qsv", "none", 10)>>,
    <<Seg("vpp_qsv", "own", 8)>>, <<Seg("crop", "none", 0), Seg("yadif", "none", 0)>>,
    <<Seg("deinterlace_vaapi", "none", 0), Seg("scale_vaapi", "own", 0)>>,
    <<Seg("hwmap", "none", 0), Seg("tonemap_vaapi", "none", 0), Seg("hwdownload", "none", 0),
      Seg("format", "none", 10)>> }

MCStreams ==
  {[enc |-> e, accel |-> a[1], out |-> a[2], decoder |-> d, accelDev |-> v[1], encDev |-> v[2],
    chain |-> c, dims |-> w[1], known |-> w[2], depth |-> b, srcDepth |-> 10] :
     e \in {"qsv", "vaapi", "software"},
     a \in {<<"none", FALSE>>, <<"qsv", FALSE>>, <<"qsv", TRUE>>, <<"vaapi", TRUE>>},
     d \in BOOLEAN,
     v \in {<<NoDevice, NoDevice>>, <<"d0", "d0">>, <<NoDevice, "d0">>, <<"d0", "d1">>},
     c \in MCChains,
     w \in {<<{}, TRUE>>, <<{"w"}, TRUE>>, <<{"w"}, FALSE>>, <<{"w", "h"}, FALSE>>},
     b \in {0, 8, 10}}

-----------------------------------------------------------------------------
MCNameSources ==
  {s \in [program : {"rename", "convert"}, place : {"plain", "tv", "movie"},
          number : {"zero", "asked"}, date : BOOLEAN, ids : {"none", "name", "args"},
          args : BOOLEAN, hint : {"none", "tv"}, refetch : BOOLEAN] :
     /\ s.program = "rename" => ~s.refetch
     /\ s.program = "convert" => s.place = "plain" /\ s.ids # "name"}

\* Who knows nothing of a title cannot find it by a number or a date.
MCNameWorlds ==
  {w \in [up : BOOLEAN, known : BOOLEAN, titled : BOOLEAN, byNumber : BOOLEAN, byDate : BOOLEAN,
          series : {"unknown", "standard", "daily"}, listed : BOOLEAN, airs : BOOLEAN,
          radarr : BOOLEAN] :
     /\ ~w.up => ~(w.known \/ w.byNumber \/ w.byDate \/ w.titled)
     /\ w.series = "unknown" => ~w.listed
     /\ ~w.listed => ~w.airs}

-----------------------------------------------------------------------------
Submission(p, c, column, args, retries) ==
  [path |-> p, config |-> c, kind |-> "convert", profile |-> column, args |-> args,
   maxRetries |-> retries, priority |-> 0]

\* POST /jobs and the library audit leave the profile in the arguments.
MCMixed ==
  {Submission(p1, cfg1, NoProfile, hq, 2), Submission(p2, cfg1, NoProfile, hq, 0),
   Submission(p2, cfg2, hq, hq, 0), Submission(p2, cfg2, lq, lq, 0)}

MCCap    == hq :> 1
MCCost   == hq :> 1 @@ lq :> 2
MCWeight == lq :> 1

-----------------------------------------------------------------------------
VARIABLE plan   \* the plan under test

\* The state in which a plan that is not under test rests.
AudioAtRest == AudioStart({<<>>}, {Base})
VideoAtRest == VideoStart({Picture("h264", 10000, 1080, 8, "high", FALSE, 30000, FALSE)}, {VBase})
SubtitlesAtRest == SubtitleStart({<<>>}, {SBase})
FramesAtRest == FrameStart({CHOOSE s \in MCStreams : s.enc = "software"})
NamesAtRest == NameStart({CHOOSE s \in MCNameSources : s.program = "rename"},
                         {CHOOSE w \in MCNameWorlds : ~w.up})

ConfigParts == {"cache", "agree", "identity", "meaning"}

\* The files a part of the configuration may find or be given; at rest, one.
PartFiles ==
  CASE plan = "cache" -> CacheFiles [] plan = "agree" -> AgreeFiles
    [] plan = "identity" -> SavedFiles [] plan = "meaning" -> MeantFiles
    [] OTHER -> {Routed}

ConfigStart == Init /\ doc \in PartFiles

\* A part saves its own files, and only "identity" more than once, with two UUIDs and with
\* what is pushed to the cluster.
Confined ==
  /\ edits' # edits => doc' \in PartFiles
  /\ plan # "identity" => edits' <= 1 /\ id'.made \subseteq {u1} /\ shared' = NoLayer

Asking(rs) ==
  /\ \A r \in Askers \ rs : asked'[r].pc = "idle"
  /\ \A r \in rs : asked'[r].media \in KidsMedia \cup {NotRead}

CacheNext == Next /\ Confined /\ Asking({r1, r2}) /\ tool'.pc = "idle"

AgreeNext ==
  /\ Next /\ Confined /\ Asking({r1})
  /\ tool'.media \in KidsMedia \cup {NotRead}
  /\ tool'.args \in MCArgSets

IdentityNext == (Load \/ Serve \/ Reload \/ Restart \/ Edit \/ PushConfig) /\ Confined

\* One load of each file; the tool reads it when that is done.
MeaningNext == (Load \/ (loader.pc \in {"idle", "stopped"} /\ (Route \/ Construct))) /\ Confined

ConfigNext ==
  \/ plan = "cache" /\ CacheNext
  \/ plan = "agree" /\ AgreeNext
  \/ plan = "identity" /\ IdentityNext
  \/ plan = "meaning" /\ MeaningNext

PlanInit ==
  /\ plan \in {"audio", "video", "subtitles", "frames", "names", "queue"} \cup ConfigParts
  /\ ConfigStart
  /\ IF plan = "audio" THEN AudioInit ELSE AudioAtRest
  /\ IF plan = "video" THEN VideoInit ELSE VideoAtRest
  /\ IF plan = "subtitles" THEN SubtitleInit ELSE SubtitlesAtRest
  /\ IF plan = "frames" THEN FrameInit ELSE FramesAtRest
  /\ IF plan = "names" THEN NameInit ELSE NamesAtRest
  /\ LocalInit

streamVars == <<audioVars, videoVars, subtitleVars, frameVars, nameVars, localVars>>

PlanNext ==
  /\ UNCHANGED plan
  /\ \/ /\ plan = "audio" /\ AudioNext
        /\ UNCHANGED <<videoVars, subtitleVars, frameVars, nameVars, localVars, vars>>
     \/ /\ plan = "video" /\ VideoNext
        /\ UNCHANGED <<audioVars, subtitleVars, frameVars, nameVars, localVars, vars>>
     \/ /\ plan = "subtitles" /\ SubtitleNext
        /\ UNCHANGED <<audioVars, videoVars, frameVars, nameVars, localVars, vars>>
     \/ /\ plan = "frames" /\ FrameNext
        /\ UNCHANGED <<audioVars, videoVars, subtitleVars, nameVars, localVars, vars>>
     \/ /\ plan = "names" /\ NameNext
        /\ UNCHANGED <<audioVars, videoVars, subtitleVars, frameVars, localVars, vars>>
     \/ /\ plan = "queue" /\ LocalNext
        /\ UNCHANGED <<audioVars, videoVars, subtitleVars, frameVars, nameVars, vars>>
     \/ /\ ConfigNext
        /\ UNCHANGED streamVars

allPlanVars == <<plan, streamVars, vars>>

PlanSpec == PlanInit /\ [][PlanNext]_allPlanVars

=============================================================================
