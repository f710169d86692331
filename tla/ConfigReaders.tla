----------------------------- MODULE ConfigReaders -----------------------------
(***************************************************************************)
(* The readers of one sma-ng.yml: the daemon's PathConfigManager, which    *)
(* loads it at the start and again while it serves (config.py), request    *)
(* threads that ask it whether a file would be passed back, manual.py,     *)
(* which reads the file twice for each conversion, and the operator who    *)
(* edits it.  A load is serialized by _reload_lock; nothing else is.       *)
(***************************************************************************)
EXTENDS Settings

CONSTANTS
  Files,      \* the texts the file may have
  Media,      \* the media files asked about and converted: a path, an extension
  ArgSets,    \* command lines of manual.py: values of the switches used
  Askers,     \* request threads of the daemon
  Ids,        \* the UUIDs that may be generated (a bound)
  NoId,
  Saves,      \* those the operator saves while the daemon is there (a bound)
  MaxEdits    \* how often (a bound)

NoLayer == [o \in {} |-> ""]
NotRead == [form |-> "none"]

\* A layer's older fallback-policy is a switch, or empty.
LayerForm(layer) ==
  Gives(layer, "software-fallback") => layer["software-fallback"] \in {"true", "false", "null"}

FileForm(f) ==
  /\ DOMAIN f = {"form", "base", "profiles", "rules", "services", "defaults", "daemon", "writable"}
  /\ f.form \in {"buckets", "flat", "list", "absent"}
  /\ LayerForm(f.base) /\ \A p \in DOMAIN f.profiles : LayerForm(f.profiles[p].options)
  /\ Len(f.rules) \in Nat /\ DOMAIN f.rules = 1..Len(f.rules)
  /\ \A i \in DOMAIN f.rules : Len(f.rules[i].match) \in Nat

ASSUME SomeEdits == MaxEdits \in Nat /\ Saves \subseteq Files

ASSUME FilesForm ==
  \A f \in Files :
    /\ FileForm(f)
    /\ f.form = "absent" => /\ f.base = NoLayer /\ f.profiles = NoLayer /\ f.rules = <<>>
                            /\ f.services = NoLayer /\ f.daemon = NoLayer /\ ~f.writable

VARIABLES
  doc,      \* the file on disk
  edits,    \* how often it was saved
  up,       \* the daemon serves
  cfg,      \* _cfg
  cache,    \* _converter_cache
  attrs,    \* the file that _apply_smaconfig's earlier and later assignments are from
  loader,   \* where the one load is, and what it has read
  asked,    \* a request thread: where it is, its file, profile and answer
  tool,     \* a run of manual.py
  id,       \* the node-id cache, the server's node_id, the UUIDs generated
  shared    \* the row of cluster_config: its daemon block

vars == <<doc, edits, up, cfg, cache, attrs, loader, asked, tool, id, shared>>

NoRequest == [pc |-> "idle", media |-> NotRead, profile |-> Bare, mine |-> FALSE,
              conv |-> NoLayer, settled |-> FALSE]
NoRun == [pc |-> "idle", media |-> NotRead, args |-> NoLayer, profile |-> Bare,
          file |-> NotRead, steady |-> FALSE, settings |-> NoLayer]
Starting(made) == [cached |-> NoId, server |-> NoId, made |-> made]
Reading == [pc |-> "read", file |-> NotRead, copy |-> NotRead, fresh |-> NoId, ok |-> FALSE,
            clean |-> FALSE, pool |-> NoLayer]

\* A process that finds no file loads none: it is left out.
Init ==
  /\ doc \in {f \in Files : f.form # "absent"}
  /\ edits = 0 /\ up = FALSE
  /\ cfg = NotRead /\ cache = NoLayer
  /\ attrs = [early |-> NotRead, late |-> NotRead]
  /\ loader = Reading
  /\ asked = [r \in Askers |-> NoRequest]
  /\ tool = NoRun
  /\ id = Starting({})
  /\ shared = NoLayer

-----------------------------------------------------------------------------
(* PathConfigManager.load_config                                           *)

\* d.node_id: the alias counts if it is there, with nothing after it too.
GivenId(file) ==
  IF Gives(file.daemon, "node-id") THEN file.daemon["node-id"]
  ELSE DaemonSays(file, "node_id", NoId)

\* A load that raised: reload_config logs it and returns; at the start the daemon ends.
Ended == [loader EXCEPT !.pc = IF up THEN "idle" ELSE "stopped", !.ok = FALSE]

Read ==
  /\ loader.pc = "read"
  /\ LET read == [loader EXCEPT !.file = doc, !.clean = TRUE, !.pool = shared] IN
     loader' = IF Loads(doc) THEN [read EXCEPT !.pc = "swap"]
               ELSE [Ended EXCEPT !.file = doc, !.clean = TRUE, !.pool = shared]
  /\ UNCHANGED <<doc, edits, up, cfg, cache, attrs, asked, tool, id, shared>>

Unsettled(f) == [r \in Askers |-> [f[r] EXCEPT !.settled = FALSE]]

\* self._cfg = cfg
Swap ==
  /\ loader.pc = "swap"
  /\ cfg' = loader.file
  /\ asked' = Unsettled(asked)
  /\ loader' = [loader EXCEPT !.pc = "reset"]
  /\ UNCHANGED <<doc, edits, up, cache, attrs, tool, id, shared>>

\* self._converter_cache = {}: a thread that has fetched the former one keeps it.
Reset ==
  /\ loader.pc = "reset"
  /\ cache' = NoLayer
  /\ asked' = [r \in Askers |-> [asked[r] EXCEPT !.mine = FALSE, !.settled = FALSE]]
  /\ loader' = [loader EXCEPT !.pc = "apply"]
  /\ UNCHANGED <<doc, edits, up, cfg, attrs, tool, id, shared>>

\* _apply_smaconfig: default_args are split as a shell would, which an unclosed quote fails,
\* between the earlier and the later assignments.  No caller gives load_config a job_db, so
\* the merge with cluster_config that follows is never done.
Apply ==
  /\ loader.pc = "apply"
  /\ IF DaemonSays(loader.file, "default-args", "words") = "unclosed"
     THEN /\ attrs' = [attrs EXCEPT !.early = loader.file]
          /\ loader' = Ended
     ELSE /\ attrs' = [early |-> loader.file, late |-> loader.file]
          /\ loader' = [loader EXCEPT !.pc = "identify"]
  /\ UNCHANGED <<doc, edits, up, cfg, cache, asked, tool, id, shared>>

Loaded == [loader EXCEPT !.pc = "idle", !.ok = TRUE]

\* _ensure_node_id: the id the file gives, or a new one.
ResolveId ==
  /\ loader.pc = "identify"
  /\ \/ /\ GivenId(loader.file) # NoId
        /\ id' = [id EXCEPT !.cached = GivenId(loader.file)]
        /\ loader' = Loaded
     \/ /\ GivenId(loader.file) = NoId
        /\ \E n \in Ids \ id.made :
             /\ id' = [id EXCEPT !.made = id.made \cup {n}]
             /\ loader' = [loader EXCEPT !.pc = "copy", !.fresh = n]
  /\ UNCHANGED <<doc, edits, up, cfg, cache, attrs, asked, tool, shared>>

\* _write_node_id_to_yaml reads the file again; one that is no mapping is left alone.
Copy ==
  /\ loader.pc = "copy"
  /\ IF doc.form \in {"buckets", "flat"}
     THEN /\ loader' = [loader EXCEPT !.pc = "write", !.copy = doc]
          /\ UNCHANGED id
     ELSE /\ loader' = Loaded
          /\ id' = [id EXCEPT !.cached = loader.fresh]
  /\ UNCHANGED <<doc, edits, up, cfg, cache, attrs, asked, tool, shared>>

\* The file changes between manual.py's two readings of it.
Overtaken == [tool EXCEPT !.steady = tool.steady /\ tool.pc # "routed"]

\* The copy, with the id in it, replaces what is there by now; an error is logged.
Stamped(file, n) == [file EXCEPT !.daemon = Over(Set("node_id", n), file.daemon)]

Write ==
  /\ loader.pc = "write"
  /\ IF doc.writable
     THEN /\ doc' = Stamped(loader.copy, loader.fresh)
          /\ tool' = Overtaken
     ELSE UNCHANGED <<doc, tool>>
  /\ loader' = Loaded
  /\ id' = [id EXCEPT !.cached = loader.fresh]
  /\ UNCHANGED <<edits, up, cfg, cache, attrs, asked, shared>>

Load == Read \/ Swap \/ Reset \/ Apply \/ ResolveId \/ Copy \/ Write

\* DaemonServer is built with the identity resolved then.
Serve ==
  /\ loader.pc = "idle" /\ ~up
  /\ up' = TRUE
  /\ id' = [id EXCEPT !.server = id.cached]
  /\ UNCHANGED <<doc, edits, cfg, cache, attrs, loader, asked, tool, shared>>

\* reload_config, of the watcher and of POST /reload, one at a time.
Reload ==
  /\ up /\ loader.pc = "idle"
  /\ loader' = Reading
  /\ UNCHANGED <<doc, edits, up, cfg, cache, attrs, asked, tool, id, shared>>

\* The process ends, wherever it is, and another starts.
Restart ==
  /\ doc.form # "absent"
  /\ up' = FALSE /\ cfg' = NotRead /\ cache' = NoLayer
  /\ attrs' = [early |-> NotRead, late |-> NotRead]
  /\ loader' = Reading
  /\ asked' = [r \in Askers |-> NoRequest]
  /\ id' = Starting(id.made)
  /\ UNCHANGED <<doc, edits, tool, shared>>

-----------------------------------------------------------------------------
(* should_skip_same_extension in a request thread: _converter_for_path.    *)

Ask(r) ==
  /\ up /\ asked[r].pc \in {"idle", "answered"}
  /\ \E m \in Media :
       asked' = [asked EXCEPT ![r] =
                   [NoRequest EXCEPT !.pc = "routed", !.media = m,
                                     !.profile = RuleFor(cfg, m.path).profile,
                                     !.settled = loader.pc # "reset"]]
  /\ UNCHANGED <<doc, edits, up, cfg, cache, attrs, loader, tool, id, shared>>

Fetch(r) ==
  /\ asked[r].pc = "routed"
  /\ asked' =
       [asked EXCEPT ![r] =
          IF Gives(cache, asked[r].profile)
          THEN [asked[r] EXCEPT !.pc = "answered", !.conv = cache[asked[r].profile]]
          ELSE [asked[r] EXCEPT !.pc = "fetched", !.mine = TRUE]]
  /\ UNCHANGED <<doc, edits, up, cfg, cache, attrs, loader, tool, id, shared>>

\* apply_profile, with the _cfg of now; a profile it does not have is an exception, and
\* _cfg is read once more.
Merge(r) ==
  /\ asked[r].pc = "fetched"
  /\ asked' =
       [asked EXCEPT ![r] =
          IF HasProfile(cfg, asked[r].profile)
          THEN [asked[r] EXCEPT !.pc = "merged",
                                !.conv = ConverterOf(Resolved(cfg, asked[r].profile))]
          ELSE [asked[r] EXCEPT !.pc = "unknown"]]
  /\ UNCHANGED <<doc, edits, up, cfg, cache, attrs, loader, tool, id, shared>>

MergeBase(r) ==
  /\ asked[r].pc = "unknown"
  /\ asked' = [asked EXCEPT ![r] = [asked[r] EXCEPT !.pc = "merged",
                                                    !.conv = ConverterOf(BaseOf(cfg))]]
  /\ UNCHANGED <<doc, edits, up, cfg, cache, attrs, loader, tool, id, shared>>

\* Slip: the manager's cache is looked up again for the store.
StoreAgain(r) ==
  /\ asked[r].pc = "merged"
  /\ cache' = Over(Set(asked[r].profile, asked[r].conv), cache)
  /\ asked' = [asked EXCEPT ![r] = [asked[r] EXCEPT !.pc = "answered"]]
  /\ UNCHANGED <<doc, edits, up, cfg, attrs, loader, tool, id, shared>>

\* Into the cache that was fetched, which may no longer be the manager's.
Store(r) ==
  /\ asked[r].pc = "merged"
  /\ cache' = IF asked[r].mine THEN Over(Set(asked[r].profile, asked[r].conv), cache) ELSE cache
  /\ asked' = [asked EXCEPT ![r] = [asked[r] EXCEPT !.pc = "answered"]]
  /\ UNCHANGED <<doc, edits, up, cfg, attrs, loader, tool, id, shared>>

RequestStep(r) == Ask(r) \/ Fetch(r) \/ Merge(r) \/ MergeBase(r) \/ Store(r)

-----------------------------------------------------------------------------
(* manual.py                                                               *)

\* _resolve_effective_profile: the command line's, or the rule's of a first reading of the
\* file, whose errors are left to the second.
Route ==
  /\ tool.pc \in {"idle", "ready", "failed"}
  /\ \E m \in Media, args \in ArgSets :
       tool' = [NoRun EXCEPT !.pc = "routed", !.media = m, !.args = args, !.steady = TRUE,
                             !.profile = IF Gives(args, "profile") THEN args["profile"]
                                         ELSE IF Loads(doc) THEN RuleFor(doc, m.path).profile
                                         ELSE Bare]
  /\ UNCHANGED <<doc, edits, up, cfg, cache, attrs, loader, asked, id, shared>>

\* ReadSettings.__init__, apply_cli_overrides.
Construct ==
  /\ tool.pc = "routed"
  /\ tool' = IF doc.form = "buckets" /\ Loads(doc) /\ HasProfile(doc, tool.profile)
             THEN [tool EXCEPT !.pc = "ready", !.file = doc,
                     !.settings = Overridden(Projected(Resolved(doc, tool.profile)), tool.args)]
             ELSE [tool EXCEPT !.pc = "failed"]
  /\ UNCHANGED <<doc, edits, up, cfg, cache, attrs, loader, asked, id, shared>>

-----------------------------------------------------------------------------
(* The operator                                                            *)

Edit ==
  /\ edits < MaxEdits
  /\ edits' = edits + 1
  /\ doc' \in Saves \ {doc}
  /\ loader' = [loader EXCEPT !.clean = FALSE]
  /\ tool' = Overtaken
  /\ UNCHANGED <<up, cfg, cache, attrs, asked, id, shared>>

\* push-config, through _strip_secrets and set_cluster_config: of the daemon's block, all but
\* its secrets.
SecretKeys == {"api-key", "db-url", "username", "password", "node-id", "node_id"}

PushConfig ==
  /\ up /\ doc.form # "list"
  /\ shared' = LeaveOut(doc.daemon, SecretKeys)
  /\ UNCHANGED <<doc, edits, up, cfg, cache, attrs, loader, asked, tool, id>>

Next ==
  \/ Load \/ Serve \/ Reload \/ Restart
  \/ \E r \in Askers : RequestStep(r)
  \/ Route \/ Construct
  \/ Edit \/ PushConfig

Spec == Init /\ [][Next]_vars

-----------------------------------------------------------------------------
(* Properties                                                              *)

\* Two texts of the file alike in what a conversion takes from it.
Alike(f, g) == f.base = g.base /\ f.profiles = g.profiles /\ f.rules = g.rules

Applicable == IF cfg = NotRead THEN {} ELSE Profiles(cfg) \cup {Bare}

\* Every variable has the shape its readers rely on.
TypeOK ==
  /\ edits \in 0..MaxEdits /\ up \in BOOLEAN
  /\ DOMAIN asked = Askers
  /\ \A r \in Askers : /\ asked[r].pc \in {"idle", "routed", "fetched", "unknown", "merged",
                                           "answered"}
                       /\ asked[r].mine \in BOOLEAN /\ asked[r].settled \in BOOLEAN
  /\ tool.pc \in {"idle", "routed", "ready", "failed"}
  /\ loader.pc \in {"read", "swap", "reset", "apply", "identify", "copy", "write", "idle",
                    "stopped"}
  /\ id.made \subseteq Ids
  /\ up => cfg # NotRead

\* _converter_for_path: outside the two assignments of a load, whatever a request thread has
\* left in the cache is what the configuration in force gives, also when that thread began
\* under an earlier one.
CacheCurrent ==
  loader.pc # "reset" =>
    \A p \in DOMAIN cache :
      cache[p] = ConverterOf(Resolved(cfg, IF HasProfile(cfg, p) THEN p ELSE Bare))

\* No load overlapped a request that was told to skip a file, and a run of manual.py has read
\* the same text, for the same file, with nothing on its command line.
SkippedAndRun(r) ==
  /\ asked[r].pc = "answered" /\ asked[r].settled
  /\ Skipped(asked[r].conv, asked[r].media.ext)
  /\ tool.pc = "ready" /\ tool.steady /\ tool.args = NoLayer
  /\ tool.media = asked[r].media /\ Alike(tool.file, cfg)

\* should_skip_same_extension's promise, as far as it is kept: a file the daemon skips is one
\* that the tool passes back, unless force-reencode is set or the extension is left empty.
SkipMeansPassedBack ==
  \A r \in Askers :
    /\ SkippedAndRun(r)
    /\ tool.settings["force-reencode"] = "false" /\ tool.settings["output-extension"] # ""
    => PassedBack(tool.settings, asked[r].media.ext)

\* _read_converter, apply_cli_overrides: force-convert and force-reencode imply
\* process-same-extensions wherever they are given, in the base, in a profile or on the
\* command line, so a run that has one of them never passes its file back for its extension.
ForcedIsConverted ==
  tool.pc = "ready" /\ "true" \in {tool.settings["force-convert"], tool.settings["force-reencode"]}
  => ~PassedBack(tool.settings, tool.media.ext)

\* What a job can be routed to can be claimed: the profile of every rule in force is there,
\* and one job of it fits the node's budget.
RoutedClaimable ==
  cfg # NotRead =>
    \A m \in Media : LET p == RuleFor(cfg, m.path).profile IN
                     p # Bare => p \in Profiles(cfg) /\ JobCost(cfg, p) <= NodeBudget(cfg)

\* _ensure_node_id: after a load of a file that the daemon may write and that does not hold
\* the key node-id, what is on disk gives the identity the process runs under, so that a
\* restart comes back as the same node.
IdentityOnDisk ==
  /\ loader.pc = "idle" /\ loader.ok /\ loader.clean
  /\ doc.form = "buckets" /\ doc.writable /\ ~Gives(doc.daemon, "node-id")
  => GivenId(doc) = id.cached

\* What a layer says of an option, under either of its names: a set, empty for nothing.
Says(layer, o) ==
  CASE o = "fallback-policy" /\ ~Gives(layer, o) /\ Gives(layer, "software-fallback") ->
         {p \in {"aggressive", "hw_only"} :
            layer["software-fallback"] = IF p = "aggressive" THEN "true" ELSE "false"}
    [] o = "chmod" /\ (Gives(layer, "chmod") \/ Gives(layer, "mode")) ->
         {IF ModeGiven(layer) = "text" THEN "0664" ELSE ModeGiven(layer)}
    [] o = "universal.enabled" /\ Gives(layer, "universal-audio")
         /\ layer["universal-audio"] # "null" ->
         {layer["universal-audio"]}
    [] OTHER -> IF Gives(layer, o) THEN {layer[o]} ELSE {}

Meant(file, p, o) ==
  IF p # Bare /\ Says(file.profiles[p].options, o) # {} THEN Says(file.profiles[p].options, o)
  ELSE IF Says(file.base, o) # {} THEN Says(file.base, o)
  ELSE {Default[o]}

\* The options that no validator moves to another.
PlainOptions == DOMAIN Default \ {"codec-parameters", "qsv.codec-parameters",
                           "vaapi.codec-parameters", "subtitle.codec"}

\* apply_profile: an option of the base or a profile, under whichever of its names, counts
\* for that profile's files unless the profile itself says otherwise; validating the two
\* layers apart and their merge again neither loses nor revives one.
ClosestLayerWins ==
  \A p \in Applicable, o \in PlainOptions : {Resolved(cfg, p)[o]} = Meant(cfg, p, o)

Foreign(gpu) == (IF gpu = "qsv" THEN {} ELSE QsvOnly) \cup (IF gpu = "vaapi" THEN {} ELSE VaapiOnly)

OwnBlock(b) == IF b["gpu"] = "vaapi" THEN b["vaapi.codec-parameters"]
               ELSE IF b["gpu"] = "qsv" THEN b["qsv.codec-parameters"] ELSE {}

\* _read_video's guarantee: a flag that only one encoder understands is never on the command
\* line of another, unless it was written into that encoder's own block; and every flag a
\* layer gave that the encoder does understand is there.
FlagsReachTheirEncoder ==
  \A p \in Applicable :
    LET b == Resolved(cfg, p)
        flags == Projected(b)["codec-parameters"]
        layer == IF p = Bare THEN cfg.base ELSE cfg.profiles[p].options
    IN /\ flags \cap Foreign(b["gpu"]) \subseteq OwnBlock(b)
       /\ FlagsIn(layer, "codec-parameters") \ Foreign(b["gpu"]) \subseteq flags

\* _read_services: a media server that the rule of a file names is told of it, whatever other
\* rules name it too, when the rule is a plain directory.
RoutedServersTold ==
  cfg # NotRead =>
    \A m \in Media :
      LET rule == RuleFor(cfg, m.path) IN
      rule.match # <<>> /\ ~Starred(rule.match) /\ Beneath(Dir(m.path), rule.match) =>
        \A s \in rule.services :
          s[1] \in Servers /\ SwitchedOn(cfg, s) /\ Answers(cfg, s) => s \in ServersFor(cfg, m.path)

\* The daemon, its request threads and the tool work with one configuration and one identity,
\* although each reads the file for itself and none waits for another.
ReadersAgree == CacheCurrent /\ SkipMeansPassedBack /\ IdentityOnDisk

\* What the layers, rules and instances of a file in force say is what a run of it gets.
SettingsSound ==
  /\ ForcedIsConverted /\ ClosestLayerWins /\ FlagsReachTheirEncoder
  /\ RoutedClaimable /\ RoutedServersTold

-----------------------------------------------------------------------------
(* What the documents promise, which the code does not keep.               *)

\* docs/configuration.md:131: force-reencode implies process-same-extensions, so a file the
\* daemon skips is one that the tool would pass back.
SkippedIsPassedBack ==
  \A r \in Askers :
    SkippedAndRun(r) /\ tool.settings["output-extension"] # ""
    => PassedBack(tool.settings, asked[r].media.ext)

\* docs/configuration.md: with Matroska output and no subtitle codec given, it is srt.
SubtitlesFit ==
  \A p \in Applicable :
    /\ ~Gives(cfg.base, "subtitle.codec")
    /\ p # Bare => ~Gives(cfg.profiles[p].options, "subtitle.codec")
    /\ Container(Resolved(cfg, p)) \in {"mkv", "webm"}
    => Resolved(cfg, p)["subtitle.codec"] # <<"mov_text">>

\* docs/daemon.md: each reload merges the cluster's configuration below the local one.
ClusterConfigMerged ==
  up /\ loader.pc = "idle" /\ loader.ok =>
    DaemonSays(attrs.late, "strict-routing", "false")
      = IF Gives(attrs.late.daemon, "strict-routing") THEN attrs.late.daemon["strict-routing"]
        ELSE IF Gives(loader.pool, "strict-routing") THEN loader.pool["strict-routing"]
        ELSE "false"

\* docs/daemon.md: a reload that fails keeps the previous settings, so those in force are all
\* of one file.
OneFileInForce ==
  up /\ loader.pc = "idle" => cfg = attrs.late /\ attrs.early = attrs.late

\* docs/daemon.md: where the identity cannot be written, the one in memory stays for the run.
IdentityKept ==
  [][up /\ loader.pc = "write" /\ ~doc.writable => id'.cached = id.cached]_vars

\* docs/integrations.md: the Sonarr or Radarr instance told of a file is the one that the
\* longest matching rule names.
ArrOfTheRule ==
  cfg # NotRead =>
    \A m \in Media :
      LET named == {s \in RuleFor(cfg, m.path).services :
                      s[1] \in {"sonarr", "radarr"} /\ Answers(cfg, s)}
      IN named # {} => ArrFor(cfg, m.path) # {} /\ ArrFor(cfg, m.path) \subseteq named

=============================================================================
