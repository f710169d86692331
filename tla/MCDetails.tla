----------------------------- MODULE MCDetails -----------------------------
(***************************************************************************)
(* Small instances, for TLC, of what other modules take as one step or     *)
(* leave out: the statements of a claim, the tiers of a transcode, the     *)
(* files of a conversion and their hand-over to the media manager, repairs *)
(* by stream copy, renamed files, requests, and log rows on their way to   *)
(* the archive.  As in MCServices, one of them runs and the others rest.   *)
(***************************************************************************)
EXTENDS ClaimRace, FallbackLadder, Conversion, Handover, Repair, Renaming, Submission,
  LogArchive, TLC

CONSTANTS t1, t2, r1, r2, r3, ra, rb, m1, m2, q1, q2

VARIABLE part   \* the detail under test

MCProfiles == r1 :> Capped @@ r2 :> Capped @@ r3 :> Uncapped

MCBudgets(kinds, sets) == {[k \in kinds |-> IF k \in on THEN 1 ELSE 0] : on \in sets}

\* Settings by name, and the kinds of the two conversions.
MCSetup(on, kind1, kind2) ==
  [outDir |-> "outDir" \in on, temp |-> "temp" \in on, delete |-> "delete" \in on,
   bin |-> "bin" \in on, moveto |-> "moveto" \in on,
   kind |-> t1 :> kind1 @@ t2 :> kind2, dir |-> t1 :> "a" @@ t2 :> "b"]

MCSetups ==
  { MCSetup({"temp", "delete", "bin"}, "convert", "none"),
    MCSetup({}, "convert", "none"),
    MCSetup({"outDir", "temp", "delete"}, "convert", "none"),
    MCSetup({"temp", "delete", "bin", "moveto"}, "convert", "none"),
    MCSetup({"temp", "delete", "bin"}, "redo", "none"),
    MCSetup({"bin"}, "redo", "none"),
    MCSetup({"outDir", "temp", "delete", "bin"}, "redo", "none"),
    MCSetup({"outDir", "bin"}, "redo", "none"),
    MCSetup({"outDir", "temp", "delete", "bin", "moveto"}, "redo", "none"),
    MCSetup({"outDir", "temp", "delete", "bin"}, "bypass", "none"),
    MCSetup({"temp", "delete", "bin"}, "bypass", "none"),
    MCSetup({"outDir", "temp", "delete", "bin"}, "convert", "convert"),
    MCSetup({"outDir"}, "convert", "convert"),
    [MCSetup({"temp", "bin"}, "convert", "redo") EXCEPT !.dir[t2] = "a"],
    [MCSetup({"temp", "delete", "bin"}, "convert", "redo") EXCEPT !.dir[t2] = "a"] }

MCFiles == MCBudgets(FileDisturbance,
  {{"crash", "attempt"}, {"crash", "fileError"}, {"diskFull"}, {"wipe"},
   {"arrival", "attempt"}})

MCLogs == MCBudgets(LogDisturbance, {{"writeFails", "prune"}, {"insertFails"}, {"crash"}})

MCManager(place, rescan, rename) ==
  [place |-> place, key |-> TRUE, rescan |-> rescan, rename |-> rename]

MCManagers ==
  { <<>>, <<MCManager("own", TRUE, TRUE)>>, <<MCManager("own", TRUE, FALSE)>>,
    <<MCManager("elsewhere", TRUE, TRUE), MCManager("own", FALSE, TRUE)>>,
    <<MCManager("sibling", TRUE, TRUE), MCManager("own", TRUE, TRUE)>> }

\* Without delete, a conversion onto its own name is given another one (Conversion).
MCHandovers ==
  {s \in [redo : BOOLEAN, delete : BOOLEAN, naming : BOOLEAN, moves : BOOLEAN,
          refuses : BOOLEAN, mapped : BOOLEAN, managers : MCManagers] : s.redo => s.delete}

Media(streams, aspect, mp4) ==
  [title |-> "film", streams |-> streams, aspect |-> aspect, mp4 |-> mp4, whole |-> TRUE]

Hybrid == Media({"picture", "still", "audio", "timecode", "chapters"}, "corrected", TRUE)

MCMedia ==
  { Hybrid, Media({"picture", "audio", "poster", "unknown", "font", "subtitle"}, "stretched", FALSE),
    Media({"still", "poster", "audio"}, "ok", TRUE), Media({"timecode", "unknown"}, "ok", TRUE),
    Media({"picture", "audio", "chapters"}, "ok", TRUE) }

MCRepair(media, library, mode, faults) ==
  [media |-> media, linked |-> library = "linked", twin |-> library # "linked",
   across |-> library = "across", full |-> FALSE, mode |-> ra :> "all" @@ rb :> mode,
   todo |-> ra :> Target @@ rb :> {"film"}, faults |-> faults]

MCRepairs ==
  {MCRepair(Hybrid, l, "all", f) : l \in {"linked", "twin", "across"},
     f \in {{}, {"kill"}, {"fail"}, {"kill", "sweep"}, {"fail", "sweep"}}} \cup
  {MCRepair(m, "linked", "hybrid", {}) : m \in MCMedia} \cup
  {[MCRepair(Hybrid, "linked", "all", {}) EXCEPT !.full = TRUE]}

\* What a medium is called by everyone, and its episodes.
Titled(name, eps, sure) ==
  [name |-> name, episodes |-> eps, known |-> sure,
   head |-> IF eps = {} THEN {"title", "tmdb"} ELSE {"title", "year", "tvdb"}]

F(words) == In("lib", words, "mp4")
S(words) == In("lib", words, "srt")

\* Two media and a third that is in another's way; sidecars of one, of both, of none.
MCLibrary == F(<<"a">>) :> 1 @@ S(<<"a", "en">>) :> 11 @@ F(<<"b">>) :> 2
MCLibraries ==
  { MCLibrary @@ S(<<"n", "en">>) :> 14,
    MCLibrary @@ S(<<"a", "en", "forced">>) :> 12 @@ S(<<"b", "en">>) :> 13,
    MCLibrary @@ F(<<"a", "cut">>) :> 3 @@ S(<<"a", "cut", "en">>) :> 15,
    MCLibrary @@ S(<<"a", "words">>) :> 15 @@ In("lib", <<"b">>, "mkv") :> 3 }

MCTitles2 ==
  { 1 :> Titled(<<"n">>, {"e1"}, TRUE) @@ 2 :> Titled(<<"n">>, {"e1"}, TRUE) @@
    3 :> Titled(<<"a">>, {"e3"}, TRUE),
    1 :> Titled(<<"b">>, {"e1", "e2"}, TRUE) @@ 2 :> Titled(<<"n">>, {"e3"}, FALSE) @@
    3 :> Titled(<<"n", "cut">>, {}, TRUE) }

OldPlex == [head |-> {"title", "tmdb"}, other |-> {"hint"}, episodes |-> "e9" :> F(<<"z">>)]

MCRenameCase(files, media, tools, converts, links, kill) ==
  [files |-> files, media |-> media, tools |-> tools, converts |-> converts, links |-> links,
   kill |-> kill, long |-> {"words"}, plex |-> IF links THEN OldPlex ELSE NoPlex]

Out(words, ext) == In("out", words, ext)
Converted1 == Out(<<"c">>, "mp4") :> 4 @@ Out(<<"c", "en">>, "srt") :> 16

MCRenamings ==
  {MCRenameCase(f, m, {m1}, << >>, links, TRUE) :
     f \in MCLibraries, m \in MCTitles2, links \in BOOLEAN} \cup
  {MCRenameCase(f, m, {m1, m2}, << >>, links, kill) :
     f \in {MCLibrary, MCLibrary @@ S(<<"n", "en">>) :> 14}, m \in MCTitles2,
     links \in BOOLEAN, kill \in BOOLEAN} \cup
  {MCRenameCase(F(<<"a">>) :> 1 @@ F(<<"a", "cut">>) :> 3 @@ S(<<"a", "cut", "en">>) :> 15, m,
     {m1, m2}, << >>, links, FALSE) : m \in MCTitles2, links \in BOOLEAN} \cup
  {MCRenameCase(MCLibrary @@ Converted1, m @@ 4 :> Titled(<<"n">>, {"e4"}, TRUE), {m1},
     m2 :> [output |-> Out(<<"c">>, "mp4"), naming |-> naming,
            subtitles |-> {Out(<<"c", "en">>, "srt")}],
     links, FALSE) : m \in MCTitles2, naming \in BOOLEAN, links \in BOOLEAN}

\* Two requests to a daemon, and what it is configured with.
Hook(route, target, args) ==
  [route |-> route, form |-> "ok", event |-> "Download", target |-> target, kind |-> "convert",
   args |-> args, profile |-> Unnamed, config |-> Unnamed, label |-> Unnamed, tags |-> <<>>,
   ids |-> {"tvdb", "tmdb"}, paths |-> {}]

Service(type, name) == [type |-> type, name |-> name]
Route(match, size, profile, services) ==
  [match |-> match, size |-> size, profile |-> profile, services |-> services]

Sonarr1 == Service("sonarr", "tv")
Sonarr2 == Service("sonarr", "uhd")
Scan1 == Service("autoscan", "one")
Scan2 == Service("autoscan", "two")

\* "/in" is what the daemon walks, "/m" what the jobs are called after; of /m/t/*, /m/t/x
\* and /m/b the second names more of the path and the first is written longer.
In_(p) == <<"in">> \o p
Under(p) == <<"m">> \o p

MCDaemon(requests, strict, defaults, mixed) ==
  [disk |-> In_(<<"t">>) :> "dir" @@ In_(<<"t", "x">>) :> "dir" @@
            [p \in {In_(<<"t", f>>) : f \in {"a", "e", "f"}} \cup
                   {In_(<<"t", "x", "a">>), In_(<<"t", ".h", "a">>), In_(<<"b", "a">>),
                    In_(<<"c", "a">>), In_(<<"bin", "a">>)} |-> "file"],
   hidden |-> {".h"}, ext |-> "a" :> "mkv" @@ "f" :> "mp4",
   rewrites |-> {[from |-> <<"in">>, to |-> <<"m">>],
                 [from |-> <<"in", "c">>, to |-> <<"elsewhere", "c">>]},
   rules |-> <<Route(Under(<<"t", "x">>), 6, "hq", <<Scan1, Scan2>>),
               Route(Under(<<"t">>), 7, Unnamed, <<Scan1, Sonarr2, Sonarr1>>),
               Route(Under(<<"b">>), 4, "hq", <<Sonarr1>>)>>,
   output |-> [p \in {"hq", Unnamed} |-> [ext |-> "mp4", again |-> p = "hq"]],
   labels |-> Sonarr1 :> ("id1" :> "lq") @@ Sonarr2 :> ("id1" :> "mq" @@ "id2" :> "lq"),
   usable |-> {Sonarr1, Sonarr2, Scan1}, recycle |-> Under(<<"bin">>), strict |-> strict,
   defaults |-> defaults, mixed |-> mixed, fails |-> ~mixed, requests |-> requests]

Jobs(kind, target, args, profile) ==
  [Hook("jobs", target, args) EXCEPT !.kind = kind, !.profile = profile]

Lq == <<Flag("p"), Word("lq")>>
Dir == In_(<<"t">>)
A == In_(<<"t", "a">>)
B == In_(<<"b", "a">>)
C == In_(<<"c", "a">>)

MCPairs ==
  { <<Hook("generic", Dir, <<>>), Hook("generic", Under(<<"t", "a">>), Lq)>>,
    <<Hook("generic", Dir, <<>>), [Hook("sonarr", A, <<>>) EXCEPT !.tags = <<"id3", "id1">>]>>,
    <<[Hook("generic", Dir, <<>>) EXCEPT !.config = "missing"],
      [Hook("generic", C, <<>>) EXCEPT !.config = "exists"]>>,
    <<Jobs("convert", B, <<>>, "lq"), [Hook("radarr", B, <<>>) EXCEPT !.label = "lq"]>>,
    <<Hook("generic", B, <<Joined("profile", "lq")>>), Hook("generic", In_(<<"bin", "a">>), <<>>)>>,
    <<Hook("generic", A, <<Flag("movie")>>), Hook("generic", C, <<>>)>>,
    <<Jobs("preview", B, Lq, Unnamed), Jobs("preview", Dir, <<>>, Unnamed)>>,
    <<Jobs("repair", A, <<Flag("c")>>, Unnamed), Jobs("repair", <<"gone">>, <<>>, "hq")>>,
    <<Jobs("repair", Dir, <<>>, "lq"), Jobs("preview", A, <<Joined("c", "x")>>, "lq")>>,
    <<Jobs("rename", A, <<>>, "lq"), Hook("generic", A, <<>>)>>,
    <<[Hook("sonarr", A, <<>>) EXCEPT !.event = "Test"], Hook("radarr", Unnamed, <<>>)>>,
    <<[Hook("generic", A, <<>>) EXCEPT !.form = "bad"],
      [Hook("sonarr", B, <<>>) EXCEPT !.tags = <<"id1">>, !.ids = {"imdb"}]>>,
    <<[Hook("radarr", A, <<>>) EXCEPT !.form = "odd"],
      [Hook("radarr", B, <<>>) EXCEPT !.ids = {}]>> } \cup
  { <<[Hook(arr, Unnamed, <<>>) EXCEPT !.event = "Other", !.paths = paths],
      Jobs("tidy", A, <<>>, Unnamed)>> :
      arr \in {"sonarr", "radarr"}, paths \in {{}, {A}, {B}, {In_(<<"t", "x", "a">>), C}} }

MCDefaults == {<<>>, <<Flag("tv")>>, <<Flag("profile"), Word("dq")>>, <<Flag("tmdb"), Word("9")>>}
Small(r, strict, d, mixed) == MCDaemon(q1 :> r[1] @@ q2 :> r[2], strict, d, mixed)

\* An older node matters where a request is for another kind of job.
MCSubmits ==
  {Small(r, strict, <<>>, FALSE) : r \in MCPairs, strict \in BOOLEAN} \cup
  {Small(r, FALSE, d, FALSE) : r \in MCPairs, d \in MCDefaults} \cup
  {Small(r, FALSE, <<>>, TRUE) : r \in {p \in MCPairs : p[1].kind # "convert"}}

\* A detail that is not under test rests in one initial state.
DetailsInit ==
  /\ part \in {"claim", "ladder", "files", "handover", "repair", "renaming", "submission", "logs"}
  /\ ClaimInit /\ (part # "claim" => locking)
  /\ LadderInit
  /\ part # "ladder" => policy = "hw_only" /\ codec = "qsv" /\ preopts.decoder /\ preopts.accel
  /\ FileInit
  /\ part # "files" => /\ set = MCSetup({}, "convert", "none")
                       /\ fleft = [k \in FileDisturbance |-> IF k = "diskFull" THEN 1 ELSE 0]
  /\ HandoverInit /\ (part # "handover" => hset = CHOOSE s \in MCHandovers : s.managers = <<>>)
  /\ RepairInit /\ (part # "repair" => rset.full)
  /\ RenameInit /\ (part # "renaming" => ncase = CHOOSE c \in MCRenamings : TRUE)
  /\ SubmitInit
  /\ part # "submission" => scase = CHOOSE c \in MCSubmits : ~c.mixed
  /\ LogInit
  /\ part # "logs" => lleft = [k \in LogDisturbance |-> IF k = "crash" THEN 1 ELSE 0]

DetailsNext ==
  /\ UNCHANGED part
  /\ \/ /\ part = "claim" /\ ClaimNext
        /\ UNCHANGED <<ladderVars, fileVars, handoverVars, repairVars, renamingVars,
                       submissionVars, logVars>>
     \/ /\ part = "ladder" /\ LadderNext
        /\ UNCHANGED <<claimVars, fileVars, handoverVars, repairVars, renamingVars,
                       submissionVars, logVars>>
     \/ /\ part = "files" /\ FileNext
        /\ UNCHANGED <<claimVars, ladderVars, handoverVars, repairVars, renamingVars,
                       submissionVars, logVars>>
     \/ /\ part = "handover" /\ HandoverNext
        /\ UNCHANGED <<claimVars, ladderVars, fileVars, repairVars, renamingVars,
                       submissionVars, logVars>>
     \/ /\ part = "repair" /\ RepairNext
        /\ UNCHANGED <<claimVars, ladderVars, fileVars, handoverVars, renamingVars,
                       submissionVars, logVars>>
     \/ /\ part = "renaming" /\ RenamingNext
        /\ UNCHANGED <<claimVars, ladderVars, fileVars, handoverVars, repairVars,
                       submissionVars, logVars>>
     \/ /\ part = "submission" /\ SubmitNext
        /\ UNCHANGED <<claimVars, ladderVars, fileVars, handoverVars, repairVars, renamingVars,
                       logVars>>
     \/ /\ part = "logs" /\ LogNext
        /\ UNCHANGED <<claimVars, ladderVars, fileVars, handoverVars, repairVars,
                       renamingVars, submissionVars>>

detailsVars ==
  <<part, claimVars, ladderVars, fileVars, handoverVars, repairVars, renamingVars, submissionVars,
    logVars>>

DetailsSpec == DetailsInit /\ [][DetailsNext]_detailsVars

=============================================================================
