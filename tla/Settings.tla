------------------------------- MODULE Settings -------------------------------
(***************************************************************************)
(* How sma-ng.yml becomes the settings of a run: the schema's validators   *)
(* (resources/config_schema.py), loading, profiles and routing             *)
(* (config_loader.py), what a conversion takes from the result             *)
(* (readsettings.py) and from its command line (manual.py).                *)
(*                                                                         *)
(* A layer (the base, a profile, a service instance, the daemon's block)   *)
(* is a function from the options it gives to their values; sections and   *)
(* blocks are flattened into the options' names.  The options kept are     *)
(* those that another one changes and a sample of the rest.  Encoder flags *)
(* are a set, each with its value; the hdr section's are as video's.       *)
(* A path is a sequence of pieces, "/" among them, so that a prefix need   *)
(* not end at a directory.                                                 *)
(***************************************************************************)
EXTENDS Integers, SequencesExt

CONSTANTS
  Bare,       \* None, for a profile: the base alone
  QsvOnly,    \* flags that only an encoder of Intel's QSV understands
  VaapiOnly   \* flags that only an encoder of VAAPI understands

ASSUME FlagsDiffer == QsvOnly \cap VaapiOnly = {} /\ "-low_power" \in QsvOnly

Gives(layer, o) == o \in DOMAIN layer
Set(o, v) == [x \in {o} |-> v]
LeaveOut(layer, os) == [x \in DOMAIN layer \ os |-> layer[x]]

\* _deep_merge, and {**lower, **upper}: what the upper layer gives replaces.
Over(upper, lower) ==
  [x \in DOMAIN upper \cup DOMAIN lower |-> IF Gives(upper, x) THEN upper[x] ELSE lower[x]]

\* The schema's defaults.
Text == [o \in {"output-directory", "move-to", "copy-to", "gpu"} |-> ""]
Switches ==
  [o \in {"force-convert", "force-reencode", "process-same-extensions", "post-process",
          "universal.enabled"} |-> "false"]
Flags == [o \in {"codec-parameters", "qsv.codec-parameters", "vaapi.codec-parameters",
                 "hwaccels"} |-> {}]
Others ==
  [o \in {"fallback-policy", "chmod", "output-format", "output-extension", "delete-original",
          "tag", "minimum-size", "qsv.low-power", "universal-audio"} |->
     CASE o = "fallback-policy" -> "aggressive"
       [] o = "chmod" -> "0664"
       [] o \in {"output-format", "output-extension"} -> "mp4"
       [] o \in {"delete-original", "tag"} -> "true"
       [] o = "minimum-size" -> "0"
       [] o = "qsv.low-power" -> "unset"
       [] OTHER -> "null"]
Default ==
  Over(Text, Over(Switches, Over(Flags, Over(Others,
    Over(Set("codec", <<"h265">>), Set("subtitle.codec", <<"mov_text">>))))))

-----------------------------------------------------------------------------
(* The validation of one layer.                                            *)

\* _migrate_software_fallback: the older name counts where the newer is not given.
PolicyRead(layer) ==
  LET rest == LeaveOut(layer, {"software-fallback"})
  IN IF Gives(layer, "fallback-policy") \/ ~Gives(layer, "software-fallback") THEN rest
     ELSE IF layer["software-fallback"] = "null" THEN rest
     ELSE Over(Set("fallback-policy",
                   IF layer["software-fallback"] = "true" THEN "aggressive" ELSE "hw_only"),
               rest)

\* _stringify_chmod: "mode" is chmod's other name; a text that is no mode is the default.
ModeGiven(layer) == IF Gives(layer, "chmod") THEN layer["chmod"] ELSE layer["mode"]

ModeRead(layer) ==
  IF ~Gives(layer, "chmod") /\ ~Gives(layer, "mode") THEN layer
  ELSE Over(Set("chmod", IF ModeGiven(layer) = "text" THEN "0664" ELSE ModeGiven(layer)),
            LeaveOut(layer, {"mode"}))

\* A number that is no mode is refused.
ModeAccepted(layer) ==
  Gives(layer, "chmod") \/ Gives(layer, "mode") => ModeGiven(layer) # "number"

\* _migrate_encoder_flags: flags of one encoder alone leave the shared ones for its block.
FlagsIn(layer, block) == IF Gives(layer, block) THEN layer[block] ELSE {}

Lifted(layer, block, only) ==
  LET taken == FlagsIn(layer, "codec-parameters") \cap only IN
  IF taken = {} THEN layer ELSE Over(Set(block, FlagsIn(layer, block) \cup taken), layer)

FlagsRead(layer) ==
  IF FlagsIn(layer, "codec-parameters") \cap (QsvOnly \cup VaapiOnly) = {} THEN layer
  ELSE Over(Set("codec-parameters", layer["codec-parameters"] \ (QsvOnly \cup VaapiOnly)),
            Lifted(Lifted(layer, "qsv.codec-parameters", QsvOnly),
                   "vaapi.codec-parameters", VaapiOnly))

\* The validators of the sections, which BaseConfig and ProfileOverlay share.
SectionsRead(layer) == FlagsRead(ModeRead(PolicyRead(layer)))

\* _propagate_universal_audio_shortcut, on the whole file only.
ShortcutRead(layer) ==
  IF ~Gives(layer, "universal-audio") THEN layer
  ELSE IF layer["universal-audio"] = "null" THEN layer
  ELSE Over(Set("universal.enabled", layer["universal-audio"]), layer)

\* Slip: the nested option is not marked as given, and the profile's dump leaves it out.
ValidatedUnmarked(layer) == SectionsRead(layer)
Validated(layer) == ShortcutRead(SectionsRead(layer))

-----------------------------------------------------------------------------
(* A file: its form; the base; profiles, each with its options and cost;   *)
(* the routing rules; the service instances and each kind's _defaults; the *)
(* daemon's block; whether the daemon may write it.                        *)

Profiles(file) == DOMAIN file.profiles
HasProfile(file, p) == p \in Profiles(file) \cup {Bare}

DaemonSays(file, o, otherwise) == IF Gives(file.daemon, o) THEN file.daemon[o] ELSE otherwise

\* profile_concurrency_costs and concurrency_budget, and the same in the validator:
\* nothing or less is one, and the number of workers.
JobCost(file, p) == IF file.profiles[p].cost > 0 THEN file.profiles[p].cost ELSE 1
NodeBudget(file) ==
  IF DaemonSays(file, "concurrency-budget", 0) > 0 THEN file.daemon["concurrency-budget"]
  ELSE DaemonSays(file, "workers", 4)

\* _validate_concurrency_budget
Affordable(file, p) == JobCost(file, p) <= NodeBudget(file)

\* _match_not_empty, _validate_routing_references; a service is its kind and its name.
RuleAccepted(file, rule) ==
  /\ rule.match # <<>>
  /\ HasProfile(file, rule.profile)
  /\ rule.services \subseteq DOMAIN file.services

\* _apply_service_defaults: an instance over its kind's _defaults.
Instance(file, s) ==
  IF s[1] \in DOMAIN file.defaults THEN Over(file.services[s], file.defaults[s[1]])
  ELSE file.services[s]

\* SmaConfig's validation.
Valid(file) ==
  /\ DaemonSays(file, "workers", 4) >= 1
  /\ ModeAccepted(file.base)
  /\ \A p \in Profiles(file) : ModeAccepted(file.profiles[p].options) /\ Affordable(file, p)
  /\ \A i \in DOMAIN file.rules : RuleAccepted(file, file.rules[i])
  /\ \A s \in DOMAIN file.services : Gives(Instance(file, s), "url")

\* ConfigLoader.load, _reject_old_shape: a mapping, not of the former flat shape.  A file
\* that is empty or cannot be opened is a mapping that gives nothing.
Loads(file) == file.form \in {"buckets", "absent"} /\ Valid(file)

\* _normalize_subtitle_codec_for_container: of the base alone, before any profile.
Container(b) == IF b["output-format"] # "" THEN b["output-format"] ELSE b["output-extension"]

Fitted(b) ==
  IF Container(b) \in {"mkv", "webm"} /\ b["subtitle.codec"] = <<"mov_text">>
  THEN [b EXCEPT !["subtitle.codec"] = <<"srt">>] ELSE b

BaseOf(file) == Fitted(ShortcutRead(Over(SectionsRead(file.base), Default)))

\* apply_profile: what the profile gives, over the base with its defaults, read as a
\* BaseConfig again.
Resolved(file, p) ==
  IF p = Bare THEN BaseOf(file)
  ELSE SectionsRead(Over(Validated(file.profiles[p].options), BaseOf(file)))

-----------------------------------------------------------------------------
(* Routing.                                                                *)

\* _has_path_prefix and path_under: dir itself, or something beneath it.
Beneath(path, dir) ==
  /\ IsPrefix(dir, path)
  /\ Len(path) > Len(dir) => path[Len(dir) + 1] = "/"

\* _rule_matches: a trailing star is left out, with the slash before it.
Starred(match) == match # <<>> /\ match[Len(match)] = "**"
Stem(match) ==
  IF ~Starred(match) THEN match
  ELSE SubSeq(match, 1, IF Len(match) < 2 THEN 0 ELSE Len(match) - 2)

RuleMatches(path, rule) == Stem(rule.match) = <<>> \/ Beneath(path, Stem(rule.match))

\* resolve_routing: the longest pattern that matches, the first of its length.
RulesMatching(file, path) == {i \in DOMAIN file.rules : RuleMatches(path, file.rules[i])}

Before(file, i, k) ==
  \/ Len(file.rules[i].match) > Len(file.rules[k].match)
  \/ Len(file.rules[i].match) = Len(file.rules[k].match) /\ i <= k

RuleFor(file, path) ==
  IF RulesMatching(file, path) = {} THEN [match |-> <<>>, profile |-> Bare, services |-> {}]
  ELSE file.rules[CHOOSE i \in RulesMatching(file, path) :
                    \A k \in RulesMatching(file, path) : Before(file, i, k)]

-----------------------------------------------------------------------------
(* ReadSettings: what a conversion works with.                             *)

\* HWACCEL_PROFILES, in _apply_hwaccel_profile: only where nothing was given.
Accels(b) ==
  IF b["hwaccels"] # {} THEN b["hwaccels"]
  ELSE CASE b["gpu"] \in {"qsv", "vaapi", "videotoolbox"} -> {b["gpu"]}
         [] b["gpu"] = "nvenc" -> {"cuda"}
         [] OTHER -> {}

\* CODEC_ALIASES and HWACCEL_CODEC_MAP
Canonical(c) == CASE c \in {"hevc", "x265"} -> "h265" [] c = "x264" -> "h264" [] OTHER -> c

EncoderMap ==
  [qsv |-> [h265 |-> "h265qsv", h264 |-> "h264qsv", av1 |-> "av1qsv", vp9 |-> "vp9qsv"],
   vaapi |-> [h265 |-> "h265vaapi", h264 |-> "h264vaapi", av1 |-> "av1vaapi"],
   nvenc |-> [h265 |-> "h265_nvenc", h264 |-> "h264_nvenc", av1 |-> "av1_nvenc"],
   videotoolbox |-> [h265 |-> "h265_videotoolbox", h264 |-> "h264_videotoolbox"]]

OnGpu(gpu, c) ==
  IF gpu \in DOMAIN EncoderMap /\ Canonical(c) \in DOMAIN EncoderMap[gpu]
  THEN EncoderMap[gpu][Canonical(c)] ELSE c

\* _map_codecs_with_fallback: each codec's encoder on the GPU, and itself after it.
Joined(codecs, c) == IF \E i \in DOMAIN codecs : codecs[i] = c THEN codecs ELSE Append(codecs, c)

GpuCodecs(gpu, codecs) ==
  IF gpu \notin DOMAIN EncoderMap THEN codecs
  ELSE FoldLeft(LAMBDA done, c :
                  IF OnGpu(gpu, c) = c THEN Joined(done, c)
                  ELSE Joined(Joined(done, OnGpu(gpu, c)), c),
                <<>>, codecs)

\* _project_qsv and _subblock_extras: the block of the encoder in use, typed fields too.
ActiveFlags(b) ==
  CASE b["gpu"] = "qsv" ->
         b["qsv.codec-parameters"]
           \cup (IF b["qsv.low-power"] = "unset" THEN {} ELSE {"-low_power"})
    [] b["gpu"] = "vaapi" -> b["vaapi.codec-parameters"]
    [] OTHER -> {}

\* _read_converter, _read_video
Projected(b) ==
  [b EXCEPT !["hwaccels"] = Accels(b),
            !["codec"] = GpuCodecs(b["gpu"], b["codec"]),
            !["codec-parameters"] = b["codec-parameters"] \cup ActiveFlags(b),
            !["process-same-extensions"] =
               IF "true" \in {b["force-convert"], b["force-reencode"]} THEN "true"
               ELSE b["process-same-extensions"]]

\* apply_cli_overrides: args gives a value to each switch of the command line that is used.
Overridden(s, args) ==
  [s EXCEPT !["output-directory"] = IF Gives(args, "nomove") THEN "" ELSE s["output-directory"],
            !["move-to"] = IF Gives(args, "nomove") THEN ""
                           ELSE IF Gives(args, "moveto") THEN args["moveto"] ELSE s["move-to"],
            !["copy-to"] = IF Gives(args, "nocopy") THEN "" ELSE s["copy-to"],
            !["delete-original"] = IF Gives(args, "nodelete") THEN "false"
                                   ELSE s["delete-original"],
            !["process-same-extensions"] =
               IF \E a \in {"processsameextensions", "forceconvert", "forcereencode"} :
                    Gives(args, a)
               THEN "true" ELSE s["process-same-extensions"],
            !["force-convert"] = IF Gives(args, "forceconvert") THEN "true"
                                 ELSE s["force-convert"],
            !["force-reencode"] = IF Gives(args, "forcereencode") THEN "true"
                                  ELSE s["force-reencode"],
            !["tag"] = IF Gives(args, "notag") /\ ~Gives(args, "tagonly") THEN "false"
                       ELSE s["tag"],
            !["post-process"] = IF Gives(args, "nopost") THEN "false" ELSE s["post-process"],
            !["minimum-size"] = IF Gives(args, "minsize") THEN args["minsize"]
                                ELSE s["minimum-size"]]

\* canBypassConvert's first case: the file is passed back as it is.
PassedBack(s, ext) ==
  /\ s["output-extension"] = ext
  /\ s["force-convert"] = "false"
  /\ s["process-same-extensions"] = "false"

-----------------------------------------------------------------------------
(* The same question in the daemon, before the file is queued.             *)

\* The section that _converter_for_path keeps.
ConverterOf(b) ==
  [o \in {"output-extension", "force-convert", "force-reencode", "process-same-extensions"} |->
     b[o]]

\* should_skip_same_extension
Skipped(conv, ext) ==
  /\ conv["force-convert"] = "false"
  /\ conv["process-same-extensions"] = "false"
  /\ ext = IF conv["output-extension"] = "" THEN "mp4" ELSE conv["output-extension"]

-----------------------------------------------------------------------------
(* _read_services: an entry for each rule that names an instance, with the *)
(* rule's pattern as it is written for its path.                           *)

Servers == {"autoscan", "emby", "jellyfin"}
InstanceSays(file, s, o, otherwise) ==
  IF Gives(Instance(file, s), o) THEN Instance(file, s)[o] ELSE otherwise

\* _build_autoscan_instances, _build_media_server_instances: not one that is switched off.
SwitchedOn(file, s) == s[1] \in Servers => InstanceSays(file, s, "enabled", "true") = "true"

\* What _find_arr_instance, refreshEmby and refreshJellyfin ask of an instance.
Answers(file, s) ==
  /\ s[1] # "autoscan" => InstanceSays(file, s, "apikey", "") # ""
  /\ s[1] \in {"emby", "jellyfin"} => InstanceSays(file, s, "refresh", "false") = "true"

Entries(file) ==
  {e \in [service : DOMAIN file.services, path : {file.rules[i].match : i \in DOMAIN file.rules}] :
     /\ SwitchedOn(file, e.service)
     /\ \E i \in DOMAIN file.rules : /\ file.rules[i].match = e.path
                                     /\ e.service \in file.rules[i].services}

Dir(path) == SubSeq(path, 1, Len(path) - 2)

\* _find_arr_instance: plain prefixes, the longest first, Sonarr's before Radarr's.
ArrEntries(file, path, kind) ==
  {e \in Entries(file) : /\ e.service[1] = kind
                         /\ IsPrefix(e.path, Dir(path))
                         /\ Answers(file, e.service)}

ArrFor(file, path) ==
  LET found == IF ArrEntries(file, path, "sonarr") # {} THEN ArrEntries(file, path, "sonarr")
               ELSE ArrEntries(file, path, "radarr")
  IN {e.service : e \in {f \in found : \A g \in found : Len(g.path) <= Len(f.path)}}

\* trigger_refresh, triggerAutoscan: every instance above the file's directory.
ServersFor(file, path) ==
  {e.service : e \in {f \in Entries(file) : /\ f.service[1] \in Servers
                                            /\ Beneath(Dir(path), f.path)
                                            /\ Answers(file, f.service)}}

=============================================================================
