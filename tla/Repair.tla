------------------------------- MODULE Repair -------------------------------
(***************************************************************************)
(* Media repaired by stream copy (resources/media_repair.py): what is      *)
(* wrong with a file, the remux that drops it, and how the copy takes the  *)
(* file's place.  repair.py, the audit of a library and manual.py repair,  *)
(* each in a process of its own, and two of them may work on one file; a   *)
(* file may be a hard link, and files that differ in extension or          *)
(* directory only share the names of their copies.  A process may be       *)
(* killed, a write may fail, and the storage janitor removes old copies.   *)
(*                                                                         *)
(* Files are names of inodes.  Of a stream the model keeps what the repair *)
(* looks at; ffmpeg writes a copy between Open and Finish.                 *)
(***************************************************************************)
EXTENDS Naturals, FiniteSets, FiniteSetsExt

CONSTANTS
  Repairer,      \* the processes that repair
  RepairCases    \* the damage, the links and the settings

StreamKinds ==
  {"picture", "still", "image", "poster", "audio", "subtitle", "font", "timecode", "unknown",
   "chapters"}

Medium ==
  [title : {"film", "other"}, streams : SUBSET StreamKinds,
   aspect : {"ok", "stretched", "corrected"}, mp4 : BOOLEAN, whole : BOOLEAN]

\* A film, another name of it in the library or with a seeder, another film of that name.
Target == {"film", "link", "other"}

RepairCase ==
  [media : {m \in Medium : m.whole /\ m.title = "film"}, linked : BOOLEAN, twin : BOOLEAN,
   across : BOOLEAN, full : BOOLEAN, mode : [Repairer -> {"all", "hybrid"}],
   todo : [Repairer -> SUBSET Target], faults : SUBSET {"kill", "fail", "sweep"}]

ASSUME RepairAssumption == RepairCases \subseteq RepairCase

VARIABLES
  rset,      \* (never changes)
  inode,     \* the inode of each name, 0 for none
  data,      \* the contents of each inode
  rp,        \* what each repairer does
  results,   \* what each said of its targets
  rhurt      \* history: kills, failures, clashes of two copies, sweeps

repairVars == <<rset, inode, data, rp, results, rhurt>>

Copy == <<"copy", "copy.2", "copy.3">>
Copies == {Copy[n] : n \in DOMAIN Copy}
Partial == [film |-> "film.smatmp", link |-> "link.smatmp", other |-> "other.smatmp"]
Names == Target \cup Copies \cup {Partial[t] : t \in Target}
Inodes == 1 .. 8

Present(n) == inode[n] # 0
At(n) == data[inode[n]]
Links(t) == Cardinality({n \in Names : inode[n] = inode[t]})

-----------------------------------------------------------------------------
(* The diagnosis.                                                          *)

\* A still picture is artwork beside a real one only; a poster always is.
CoverArt(d) ==
  d.streams \cap ({"poster", "image"} \cup IF "picture" \in d.streams THEN {"still"} ELSE {})

Keep(d) == (d.streams \cap {"picture", "still", "audio", "subtitle", "font"}) \ CoverArt(d)

\* diagnose: MP4 keeps its chapters in a track, which no remux maps.
Dropped(d) ==
  CoverArt(d) \cup (d.streams \cap ({"timecode", "unknown"} \cup IF d.mp4 THEN {} ELSE {"chapters"}))

NeedsRepair(d) == Dropped(d) # {} \/ d.aspect = "stretched"

\* repair_check: a picture of a stretched size is hybrid while its pixels are square, or
\* an older repair left its poster as a track.
Kind(d) ==
  IF d.aspect = "stretched" \/ (d.aspect = "corrected" /\ "still" \in CoverArt(d))
    THEN "hybrid" ELSE "streams"

\* manual.py and the audit's settings may choose the hybrids only.
Wanted(r, d) == NeedsRepair(d) /\ (rset.mode[r] = "all" \/ Kind(d) = "hybrid")

Survives(d) == Keep(d) \cap {"picture", "still", "audio"} # {}

\* The remux writes no timecode track of its own, and a chapter track where there was one.
Remuxed(d) ==
  [d EXCEPT !.streams = Keep(d) \cup IF d.mp4 THEN @ \cap {"chapters"} ELSE {},
            !.aspect = IF @ = "stretched" THEN "corrected" ELSE @]

\* verify: the streams kept, the chapters, the duration and the size are the source's.
Verified(seen, d) == d.whole /\ d = [Remuxed(seen) EXCEPT !.whole = TRUE] /\ ~NeedsRepair(d)

-----------------------------------------------------------------------------
(* One repairer.                                                           *)

Resting == [pc |-> "idle", t |-> "film", seen |-> [whole |-> FALSE], tmp |-> "copy",
         from |-> 0, to |-> 0, torn |-> FALSE]

RepairStart(cases) ==
  /\ rset \in cases
  /\ inode = [n \in Names |-> CASE n = "film" -> 1
                                [] n = "link" -> IF rset.linked THEN 1 ELSE 0
                                [] n = "other" -> IF rset.twin THEN 2 ELSE 0
                                [] OTHER -> 0]
  /\ data = [i \in Inodes |-> [rset.media EXCEPT !.title = IF i = 2 THEN "other" ELSE @]]
  /\ rp = [r \in Repairer |-> Resting]
  /\ results = [r \in Repairer |-> [t \in Target |-> "none"]]
  /\ rhurt = {}

RepairInit == RepairStart(RepairCases)

Step(r, pc) == rp' = [rp EXCEPT ![r].pc = pc]
Says(r, t, status) == results' = [results EXCEPT ![r][t] = status]
Done(r, status) == rp' = [rp EXCEPT ![r] = Resting] /\ Says(r, rp[r].t, status)
Hurt(h) == rhurt' = rhurt \cup {h}

\* A copy cut short may still probe, but for no longer than it lasts.
Probe(r, t) ==
  /\ rp[r].pc = "idle" /\ t \in rset.todo[r] /\ results[r][t] = "none" /\ Present(t)
  /\ \/ ~At(t).whole /\ Says(r, t, "failed") /\ UNCHANGED rp
     \/ ~NeedsRepair(At(t)) /\ Says(r, t, "normal") /\ UNCHANGED rp
     \/ NeedsRepair(At(t)) /\ ~Wanted(r, At(t)) /\ Says(r, t, "skipped") /\ UNCHANGED rp
     \/ Wanted(r, At(t)) /\ ~Survives(At(t)) /\ Says(r, t, "failed") /\ UNCHANGED rp
     \/ /\ Wanted(r, At(t)) /\ Survives(At(t)) /\ UNCHANGED results
        /\ rp' = [rp EXCEPT ![r] = [Resting EXCEPT !.pc = "choose", !.t = t, !.seen = At(t)]]
  /\ UNCHANGED <<rset, inode, data, rhurt>>

\* outputDirHasFreeSpace.
NoSpace(r) ==
  /\ rp[r].pc = "choose" /\ rset.full
  /\ Done(r, "failed") /\ UNCHANGED <<rset, inode, data, rhurt>>

\* getTempFile: the first name that does not exist yet.
Choose(r) ==
  /\ rp[r].pc = "choose" /\ ~rset.full
  /\ LET free == {n \in DOMAIN Copy : ~Present(Copy[n])} IN
       /\ free # {}
       /\ rp' = [rp EXCEPT ![r].pc = "open", ![r].tmp = Copy[Min(free)]]
  /\ UNCHANGED <<rset, inode, data, results, rhurt>>

\* Whoever reads or writes an inode that is cut to nothing gets something else.
Torn(i, r) ==
  [q \in Repairer |-> IF q # r /\ rp[q].pc # "idle" /\ (rp[q].from = i \/ rp[q].to = i)
                      THEN [rp[q] EXCEPT !.torn = TRUE] ELSE rp[q]]

FreeInodes ==
  {i \in Inodes : /\ \A n \in Names : inode[n] # i
                  /\ \A q \in Repairer : rp[q].from # i /\ rp[q].to # i}
Fresh == Min(FreeInodes)

Cut(i) == [data EXCEPT ![i].whole = FALSE]

\* ffmpeg opens both files; with -y it empties a copy that exists by now.
Open(r) ==
  /\ rp[r].pc = "open" /\ Present(rp[r].t) /\ FreeInodes # {}
  /\ LET clash == Present(rp[r].tmp)
         i == IF clash THEN inode[rp[r].tmp] ELSE Fresh IN
       /\ inode' = [inode EXCEPT ![rp[r].tmp] = i]
       /\ data' = Cut(i)
       /\ rp' = [Torn(i, r) EXCEPT ![r].pc = "remux", ![r].from = inode[rp[r].t], ![r].to = i,
                                   ![r].torn = ~At(rp[r].t).whole]
       /\ rhurt' = (IF clash THEN rhurt \cup {"clash"} ELSE rhurt)
  /\ UNCHANGED <<rset, results>>

Finish(r) ==
  /\ rp[r].pc = "remux"
  /\ rp' = [rp EXCEPT ![r].pc = "verify", ![r].from = 0, ![r].to = 0, ![r].torn = FALSE]
  /\ data' = [data EXCEPT ![rp[r].to] =
                [Remuxed(data[rp[r].from]) EXCEPT !.whole = ~rp[r].torn]]
  /\ UNCHANGED <<rset, inode, results, rhurt>>

\* Slip: every file is replaced.
ReplacesSlip(r) == TRUE

\* A file with other links is rewritten, so that they see the repair.
Replaces(r) == Links(rp[r].t) = 1

Verify(r) ==
  /\ rp[r].pc = "verify" /\ Present(rp[r].tmp) /\ Present(rp[r].t)
  /\ Verified(rp[r].seen, At(rp[r].tmp))
  /\ Step(r, IF Replaces(r) THEN "replace" ELSE "rewrite")
  /\ UNCHANGED <<rset, inode, data, results, rhurt>>

\* _atomic_move on one filesystem, and to another through a partial copy.
Replace(r) ==
  /\ rp[r].pc = "replace" /\ ~rset.across /\ Present(rp[r].tmp)
  /\ inode' = [inode EXCEPT ![rp[r].t] = inode[rp[r].tmp], ![rp[r].tmp] = 0]
  /\ Done(r, "repaired") /\ UNCHANGED <<rset, data, rhurt>>

CopyOver(r) ==
  /\ rp[r].pc = "replace" /\ rset.across /\ Present(rp[r].tmp) /\ FreeInodes # {}
  /\ LET clash == Present(Partial[rp[r].t])
         i == IF clash THEN inode[Partial[rp[r].t]] ELSE Fresh IN
       /\ inode' = [inode EXCEPT ![Partial[rp[r].t]] = i]
       /\ data' = Cut(i)
       /\ rp' = [Torn(i, r) EXCEPT ![r].pc = "place", ![r].from = inode[rp[r].tmp], ![r].to = i]
       /\ rhurt' = (IF clash THEN rhurt \cup {"clash"} ELSE rhurt)
  /\ UNCHANGED <<rset, results>>

\* The copy is complete and takes the file's name; then the source of the copy goes.
PlaceCopy(r) ==
  /\ rp[r].pc = "place" /\ Present(Partial[rp[r].t])
  /\ data' = [data EXCEPT ![rp[r].to] = [data[rp[r].from] EXCEPT !.whole = @ /\ ~rp[r].torn]]
  /\ inode' = [inode EXCEPT ![rp[r].t] = inode[Partial[rp[r].t]], ![Partial[rp[r].t]] = 0,
                            ![rp[r].tmp] = 0]
  /\ Done(r, "repaired") /\ UNCHANGED <<rset, rhurt>>

\* _rewrite_in_place: the file is emptied, then written.
Rewrite(r) ==
  /\ rp[r].pc = "rewrite" /\ Present(rp[r].tmp) /\ Present(rp[r].t)
  /\ data' = Cut(inode[rp[r].t])
  /\ rp' = [Torn(inode[rp[r].t], r) EXCEPT ![r].pc = "rewriting", ![r].torn = FALSE,
              ![r].from = inode[rp[r].tmp], ![r].to = inode[rp[r].t]]
  /\ UNCHANGED <<rset, inode, results, rhurt>>

\* Two that write the same bytes over each other make the file whole between them.
Rewritten(r) ==
  /\ rp[r].pc = "rewriting"
  /\ data' = [data EXCEPT ![rp[r].to] = [data[rp[r].from] EXCEPT !.whole = @ /\ ~rp[r].torn]]
  /\ inode' = [inode EXCEPT ![rp[r].tmp] = 0]
  /\ rp' = [q \in Repairer |->
              IF q = r THEN Resting
              ELSE IF rp[q].pc = "rewriting" /\ rp[q].to = rp[r].to
                      /\ data[rp[q].from] = data[rp[r].from]
                THEN [rp[q] EXCEPT !.torn = FALSE] ELSE rp[q]]
  /\ Says(r, rp[r].t, "repaired") /\ UNCHANGED <<rset, rhurt>>

-----------------------------------------------------------------------------
(* What goes wrong.                                                        *)

\* Something is not there any more, or the copy is not what it should be.
Amiss(r) ==
  \/ rp[r].pc \in {"open", "rewrite", "verify"} /\ ~Present(rp[r].t)
  \/ rp[r].pc \in {"verify", "replace", "rewrite"} /\ ~Present(rp[r].tmp)
  \/ rp[r].pc = "place" /\ ~Present(Partial[rp[r].t])
  \/ rp[r].pc = "verify" /\ Present(rp[r].tmp) /\ ~Verified(rp[r].seen, At(rp[r].tmp))

\* The copy goes, unless the file was being rewritten from it.
Abandon(r) ==
  IF rp[r].pc = "rewriting" THEN UNCHANGED inode /\ Done(r, "kept")
  ELSE /\ inode' = [inode EXCEPT ![rp[r].tmp] = 0,
                                 ![Partial[rp[r].t]] = IF rp[r].pc = "place" THEN 0 ELSE @]
       /\ Done(r, "failed")

Fails(r) == Amiss(r) /\ Abandon(r) /\ UNCHANGED <<rset, data, rhurt>>

\* A write fails.
WriteFails(r) ==
  /\ rp[r].pc \in {"remux", "place", "rewriting"} /\ "fail" \in rset.faults \ rhurt
  /\ Abandon(r) /\ Hurt("fail") /\ UNCHANGED <<rset, data>>

Killed(r) ==
  /\ rp[r].pc \notin {"idle", "dead"} /\ "kill" \in rset.faults \ rhurt
  /\ Step(r, "dead") /\ Hurt("kill") /\ UNCHANGED <<rset, inode, data, results>>

\* sweep_output_directory: a copy that nobody has written to for hours.
Sweep ==
  /\ "sweep" \in rset.faults \ rhurt
  /\ \E c \in Copies :
       /\ Present(c) /\ \A r \in Repairer : rp[r].pc \in {"idle", "dead"} \/ rp[r].tmp # c
       /\ inode' = [inode EXCEPT ![c] = 0]
  /\ Hurt("sweep") /\ UNCHANGED <<rset, data, rp, results>>

RepairNext ==
  \/ \E r \in Repairer :
       \/ \E t \in Target : Probe(r, t)
       \/ NoSpace(r) \/ Choose(r) \/ Open(r) \/ Finish(r) \/ Verify(r) \/ Replace(r)
       \/ CopyOver(r) \/ PlaceCopy(r) \/ Rewrite(r) \/ Rewritten(r)
       \/ Fails(r) \/ WriteFails(r) \/ Killed(r)
  \/ Sweep

-----------------------------------------------------------------------------
\* A name that has all of a film.
Has(n, t) ==
  Present(n) /\ At(n).whole /\ At(n).title = (IF t = "other" THEN "other" ELSE "film")
            /\ Keep(At(n)) = Keep(rset.media)

\* Somebody is rewriting it, or was killed, or said that the rewriting failed.
Rewriter(t) ==
  {r \in Repairer : rp[r].pc \in {"rewriting", "dead"}
                    \/ \E u \in Target : inode[u] = inode[t] /\ results[r][u] = "kept"}

\* However the repairers of a library meet, and wherever one is killed or its writes fail:
\* every film is whole under its name, or under that of a verified copy that a rewriting
\* left there and nobody swept; links stay links; and without a mishap what was found
\* damaged ends up normal.  (Two repairers that find the same name for their copies free
\* write into one file: nothing is promised then.)
RepairsSound ==
  "clash" \notin rhurt =>
    /\ \A t \in Target : Present(t) =>
         \/ Has(t, t)
         \/ Rewriter(t) # {} /\ ((\E c \in Copies : Has(c, t)) \/ "sweep" \in rhurt)
    /\ rset.linked => inode["film"] = inode["link"]
    /\ rhurt = {} => \A r \in Repairer, t \in Target :
         results[r][t] = "repaired" =>
           ~NeedsRepair(At(t)) \/ \E q \in Repairer : rp[q].pc = "rewriting"

=============================================================================
