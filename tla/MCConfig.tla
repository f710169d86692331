------------------------------- MODULE MCConfig -------------------------------
(***************************************************************************)
(* Files for ConfigReaders, which MCPlan runs: a few that differ in all a  *)
(* load does, for the interleavings of loads, requests, runs and edits;    *)
(* and families of layers, rules and instances, for what one file means.   *)
(***************************************************************************)
EXTENDS ConfigReaders

MCQsvOnly == {"-low_power", "-extbrc"}
MCVaapiOnly == {"-rc_mode"}

Plainly == [form |-> "buckets", base |-> NoLayer, profiles |-> NoLayer, rules |-> <<>>,
            services |-> NoLayer, defaults |-> NoLayer, daemon |-> NoLayer, writable |-> TRUE]

RuleWith(m, p, ss) == [match |-> m, profile |-> p, services |-> ss]
Overlay(layer, c) == [options |-> layer, cost |-> c]
Two(a, v, b, w) == Over(Set(a, v), Set(b, w))

Tv == <<"/", "tv">>
Kids == <<"/", "tv", "/", "kids">>
TvShow == <<"/", "tv", "show">>
AllOfTv == <<"/", "tv", "/", "**">>

MCMedia == {[path |-> Tv \o <<"/", "a.mp4">>, ext |-> "mp4"],
            [path |-> Kids \o <<"/", "b.mkv">>, ext |-> "mkv"]}

-----------------------------------------------------------------------------
(* Files a load tells apart.                                               *)

Routed ==
  [Plainly EXCEPT !.profiles = Set("hq", Overlay(Set("output-extension", "mkv"), 1)),
                  !.rules = <<RuleWith(Kids, "hq", {})>>,
                  !.daemon = Set("strict-routing", "true")]

\* The kids' profile is another, and default-args cannot be split.
Unclosed ==
  [Plainly EXCEPT !.base = Set("output-extension", "m4v"),
                  !.profiles = Set("lq", Overlay(Two("output-extension", "mkv", "force-convert", "true"), 4)),
                  !.rules = <<RuleWith(Kids, "lq", {})>>,
                  !.daemon = Set("default-args", "unclosed")]

Pinned ==
  [Plainly EXCEPT !.base = Set("force-convert", "true"),
                  !.daemon = Set("node-id", <<"pinned">>), !.writable = FALSE]

\* As the sample: the key is there, with nothing after it.
Sample == [Plainly EXCEPT !.daemon = Set("node-id", NoId)]

Absent == [Plainly EXCEPT !.form = "absent", !.writable = FALSE]
Flat == [Plainly EXCEPT !.form = "flat"]
Costly == [Routed EXCEPT !.profiles = Set("hq", Overlay(NoLayer, 5))]

Reencoded ==
  [Plainly EXCEPT !.base = Two("output-extension", "mkv", "force-reencode", "true")]
ReadOnly == [Plainly EXCEPT !.writable = FALSE]

\* Those that a load tells apart; those that readers do; and all, for the identity.
CacheFiles == {Routed, Unclosed, Flat}
AgreeFiles == {Routed, Unclosed, Reencoded}
SavedFiles == {Routed, Unclosed, Pinned, Sample, Absent, Flat, Costly, ReadOnly}

MCArgSets == {NoLayer, Set("profile", "hq")}
KidsMedia == {m \in MCMedia : m.ext = "mkv"}

-----------------------------------------------------------------------------
(* Families.                                                               *)

Layers ==
  {NoLayer,
   Set("software-fallback", "true"), Set("software-fallback", "false"),
   Two("software-fallback", "false", "fallback-policy", "hw_alt"),
   Set("fallback-policy", "sw_decode_only"),
   Set("mode", "0777"), Two("mode", "0777", "chmod", "0640"), Set("chmod", "text"),
   Set("chmod", "number"),
   Set("universal-audio", "true"), Two("universal-audio", "false", "universal.enabled", "true"),
   Two("universal-audio", "null", "universal.enabled", "true"),
   Two("output-format", "mkv", "output-extension", "mkv"),
   Two("force-reencode", "true", "process-same-extensions", "false"),
   Two("gpu", "qsv", "codec", <<"hevc", "x264">>),
   Two("gpu", "vaapi", "codec-parameters", {"-extbrc", "-rc_mode", "-tune"}),
   Two("gpu", "qsv", "codec-parameters", {"-extbrc", "-rc_mode"}),
   Two("codec-parameters", {"-extbrc", "-tune"}, "qsv.codec-parameters", {"-low_power"}),
   Two("gpu", "vaapi", "vaapi.codec-parameters", {"-extbrc"}),
   Two("gpu", "nvenc", "qsv.low-power", "1")}

ProfileFiles ==
  {[Plainly EXCEPT !.base = b, !.profiles = Set("hq", Overlay(p, 1)),
                   !.rules = <<RuleWith(Tv, "hq", {})>>] : b \in Layers, p \in Layers}

CostFiles ==
  {[Plainly EXCEPT !.profiles = Set("hq", Overlay(NoLayer, c)),
                   !.rules = <<RuleWith(Tv, p, {})>>,
                   !.daemon = Two("workers", w, "concurrency-budget", n)] :
     c \in {-1, 3, 5}, p \in {Bare, "hq", "lq"}, w \in {0, 1, 4}, n \in {0, 2}}

Sonarr == <<"sonarr", "main">>
Radarr == <<"radarr", "main">>
Scan == <<"autoscan", "main">>
Emby == <<"emby", "main">>

Given == Two("url", "http", "apikey", "key")

Services(off) ==
  [s \in {Sonarr, Radarr, Scan, Emby} |->
     IF s = Emby THEN Over(Set("enabled", off), Set("apikey", "key"))
     ELSE IF s = Scan THEN Set("url", "http") ELSE Given]

ServiceFiles ==
  {[Plainly EXCEPT !.rules = rules, !.services = Services(off),
                   !.defaults = Set("emby", Two("url", "http", "refresh", "true"))] :
     rules \in {<<RuleWith(m, Bare, a), RuleWith(n, Bare, b)>> :
                  m \in {Tv, TvShow}, n \in {Kids, Tv}, a \in {{Sonarr, Emby}, {Scan}},
                  b \in {{}, {Radarr, Emby}, {Scan, Emby}}},
     off \in {"true", "false"}}

FamilyMedia ==
  MCMedia \cup {[path |-> TvShow \o <<"/", "c.mp4">>, ext |-> "mp4"]}

FamilyArgs ==
  {NoLayer,
   [a \in {"nomove", "nocopy", "nodelete", "nopost", "notag", "minsize", "forcereencode"} |-> "5"],
   [a \in {"moveto", "tagonly", "forceconvert"} |-> "/x"]}

\* A rule as the documents write it, with stars, and another without.
StarredFiles ==
  {[Plainly EXCEPT !.rules = <<RuleWith(m, Bare, {Sonarr})>>, !.services = Services("true"),
                   !.defaults = Set("emby", Set("url", "http"))] : m \in {AllOfTv, Tv}}

MeantFiles == ProfileFiles \cup CostFiles \cup ServiceFiles \cup StarredFiles
MCSaves == SavedFiles \cup AgreeFiles
MCFiles == MCSaves \cup MeantFiles
ManyArgs == FamilyArgs \cup MCArgSets

=============================================================================
