------------------------------ MODULE Handover ------------------------------
(***************************************************************************)
(* A converted file is handed over: processFile of manual.py names it,     *)
(* tells the media servers, writes the archive of processed files, and has *)
(* the Sonarr or Radarr that owns the file rescan, import and rename it    *)
(* (triggerRescan, resources/mediamanager.py).  The manager works through  *)
(* its commands in its own time, and other conversions of the series send  *)
(* it commands too; the conversion polls and gives up after a minute.      *)
(*                                                                         *)
(* The file's names: "in" and "out" as converted, "titled" by a template   *)
(* of sma-ng, "arr" by the manager.  A conversion onto its own name takes  *)
(* the input aside first, to "aside".  Copies and moves to other           *)
(* directories are left out (Conversion), and so are TMDB and scripts.     *)
(***************************************************************************)
EXTENDS Naturals, FiniteSets, Sequences, SequencesExt

CONSTANTS
  HandoverSetups,   \* settings and managers
  Delays            \* how many polls may give up

VARIABLES
  hset,       \* (never changes)
  hstage,     \* what runs next
  disk,       \* the names in the directory
  output,     \* output["output"]
  known,      \* the name in the manager's file record, "none" if unlinked
  pending,    \* the commands the manager has yet to execute
  told,       \* what the media servers were told
  processed,  \* the archive of processed files
  warned,     \* the log holds a warning about the hand-over
  hleft       \* delays and commands of other conversions to come

handoverVars ==
  <<hset, hstage, disk, output, known, pending, told, processed, warned, hleft>>

ApiCommand(name, file) == [name |-> name, file |-> file]

-----------------------------------------------------------------------------
(* The manager (external).                                                 *)

\* _find_arr_instance: the first whose path is a prefix of the directory's.
Matches(managers) == SelectSeq(managers, LAMBDA m : m.place \in {"own", "sibling"} /\ m.key)
Matching == Matches(hset.managers)
Manager == IF Matching = <<>> THEN [place |-> "none", rescan |-> FALSE, rename |-> FALSE]
           ELSE Head(Matching)

\* Only the manager of the directory knows the file, and only if it sees the same paths.
Visible == Manager.place = "own" /\ ~hset.mapped

MovedFile(from, to) == (disk \ {from}) \cup {to}

\* A rescan unlinks what is gone, an import links (and, if so configured, moves) what
\* it accepts, a rename moves what is linked.
Execute ==
  /\ pending # <<>> /\ pending' = Tail(pending)
  /\ LET c == Head(pending) IN
       \/ /\ c.name = "rescan" /\ UNCHANGED disk
          /\ known' = (IF known \in disk THEN known ELSE "none")
       \/ /\ c.name = "import" /\ c.file \in disk /\ Visible
          /\ known' = (IF hset.moves THEN "arr" ELSE c.file)
          /\ disk' = (IF hset.moves THEN MovedFile(c.file, "arr") ELSE disk)
       \/ /\ c.name = "import" /\ (c.file \notin disk \/ ~Visible \/ hset.refuses)
          /\ UNCHANGED <<disk, known>>
       \/ /\ c.name = "rename" /\ c.file \in disk
          /\ disk' = MovedFile(c.file, "arr") /\ known' = "arr"
       \/ c.name = "rename" /\ c.file \notin disk /\ UNCHANGED <<disk, known>>
  /\ UNCHANGED <<hset, hstage, output, told, processed, warned, hleft>>

\* Another conversion of the same series asks for a rescan of all of it.
PeerRescan ==
  /\ hleft.peers > 0 /\ hleft' = [hleft EXCEPT !.peers = @ - 1]
  /\ pending' = Append(pending, ApiCommand("rescan", "none"))
  /\ UNCHANGED <<hset, hstage, disk, output, known, told, processed, warned>>

-----------------------------------------------------------------------------
(* processFile.                                                            *)

ArrWillRename == Manager.rename /\ Manager.rescan

\* output["input"]: once set aside, the input keeps that name.
Source == IF hset.redo THEN "aside" ELSE "in"

HandoverStart(setups) ==
  /\ hset \in setups /\ hstage = "convert"
  /\ disk = {Source}
  /\ output = "none" /\ known = (IF Manager.place = "own" THEN "in" ELSE "none") /\ pending = <<>>
  /\ told = {} /\ processed = {} /\ warned = FALSE
  /\ hleft = [delays |-> Delays, peers |-> 1]

HandoverInit == HandoverStart(HandoverSetups)

\* A conversion that fails puts its input back and hands nothing over.
Fail ==
  /\ hstage = "convert" /\ hstage' = "failed" /\ disk' = {"in"}
  /\ UNCHANGED <<hset, output, known, pending, told, processed, warned, hleft>>

\* The output gets its name, unless the manager will give it one; then the original goes.
PlaceOutput ==
  /\ hstage = "convert" /\ hstage' = "notify"
  /\ LET name == IF hset.naming /\ ~ArrWillRename THEN "titled"
                 ELSE IF hset.redo THEN "in" ELSE "out" IN
       /\ output' = name
       /\ disk' = {name} \cup (IF hset.delete THEN {} ELSE {Source})
  /\ UNCHANGED <<hset, known, pending, told, processed, warned, hleft>>

\* post: the input is reported as deleted if it was another file and is gone.
Updates ==
  {<<"modified", output>>} \cup
  (IF output # Source /\ Source \notin disk THEN {<<"deleted", Source>>} ELSE {})

\* Then addtoProcessedArchive.  A server that is down is logged and nothing else.
Notify ==
  /\ hstage = "notify" /\ hstage' = "rescan"
  /\ told' \in {Updates, {}}
  /\ processed' = {output} \cup (IF hset.delete THEN {} ELSE {Source})
  /\ UNCHANGED <<hset, disk, output, known, pending, warned, hleft>>

-----------------------------------------------------------------------------
(* triggerRescan.                                                          *)

GoTo(stage) == hstage' = stage

\* A command that the manager accepts, or an exception that is logged.
Sent(name, stage) ==
  pending' = Append(pending, ApiCommand(name, output)) /\ GoTo(stage) /\ UNCHANGED warned
NotSent(stage) == warned' = TRUE /\ GoTo(stage) /\ UNCHANGED pending

\* rescan_via_arr: without an id there is no wait, and the import is tried all the same.
Rescan ==
  /\ hstage = "rescan"
  /\ \/ ~Manager.rescan /\ GoTo("done") /\ UNCHANGED <<pending, warned>>
     \/ Manager.rescan /\ (Sent("rescan", "rescanning") \/ NotSent("import"))
  /\ UNCHANGED <<hset, disk, output, known, told, processed, hleft>>

\* downloaded_scan_via_arr.
Import ==
  /\ hstage = "import"
  /\ Sent("import", "importing") \/ NotSent("done")
  /\ UNCHANGED <<hset, disk, output, known, told, processed, hleft>>

\* rename_via_arr: the record of the file is found by its path or its name.
Rename ==
  /\ hstage = "rename"
  /\ IF known = output THEN Sent("rename", "renaming") \/ NotSent("done") ELSE NotSent("done")
  /\ UNCHANGED <<hset, disk, output, known, told, processed, hleft>>

Executed(name) == \A i \in DOMAIN pending : pending[i].name # name

\* What follows a command that completed, and the name reported after a rename.
After(stage) ==
  CASE stage = "rescanning" -> "import"
    [] stage = "importing" /\ Manager.rename -> "rename"
    [] OTHER -> "done"

\* Slip: the new name is not taken over.
WaitedSlip(name, stage) ==
  /\ hstage = stage /\ Executed(name) /\ GoTo(After(stage))
  /\ UNCHANGED <<hset, disk, output, known, pending, told, processed, warned, hleft>>

Waited(name, stage) ==
  /\ hstage = stage /\ Executed(name) /\ GoTo(After(stage))
  /\ output' = (IF stage = "renaming" THEN known ELSE output)
  /\ UNCHANGED <<hset, disk, known, pending, told, processed, warned, hleft>>

\* wait_for_command gives up after six polls: nothing further is sent.
GaveUp(name, stage) ==
  /\ hstage = stage /\ ~Executed(name) /\ GoTo("done") /\ warned' = TRUE
  /\ hleft.delays > 0 /\ hleft' = [hleft EXCEPT !.delays = @ - 1]
  /\ UNCHANGED <<hset, disk, output, known, pending, told, processed>>

Poll(name, stage) == Waited(name, stage) \/ GaveUp(name, stage)

HandoverNext ==
  \/ Fail \/ PlaceOutput \/ Notify \/ Rescan \/ Import \/ Rename
  \/ Poll("rescan", "rescanning") \/ Poll("import", "importing") \/ Poll("rename", "renaming")
  \/ Execute \/ PeerRescan

HandoverSpec == HandoverInit /\ [][HandoverNext]_handoverVars

-----------------------------------------------------------------------------
AllSettled == hstage = "done" /\ pending = <<>>

\* A hand-over that logged nothing is complete, whatever other conversions of the series
\* asked of the manager meanwhile: the name in the last line of the log is a file's, the
\* manager's record links a file unless the manager would not have it, and the series does
\* not have the title twice.  And the servers and the archive were told of the files there are.
HandedOver ==
  /\ AllSettled /\ ~warned /\ Manager.rescan /\ (Manager.rename \/ ~hset.moves) => output \in disk
  /\ AllSettled /\ ~warned /\ Manager.rescan /\ ~hset.refuses /\ Visible => known \in disk
  /\ hstage # "failed" => Cardinality(disk \ {Source}) <= 1
  /\ hstage = "rescan" =>
       processed = disk /\ (told # {} => (<<"deleted", Source>> \in told <=> Source \notin disk))

\* post: an input that was another file is reported as deleted "so the stale library entry
\* is removed" (its docstring).  One that was set aside is reported under a name no
\* library has seen.
StaleEntryReported ==
  hstage = "rescan" /\ told # {} /\ "in" \notin disk => <<"deleted", "in">> \in told

\* docs/integrations.md: a Sonarr or Radarr instance "matches on whole path components:
\* /media/TV matches /media/TV and /media/TV/Show, but no longer /media/TV-Anime".
RightManager == hstage = "rescanning" => Manager.place = "own"

\* A conversion that failed leaves the manager with the record it had.
RecordKept == hstage = "failed" /\ pending = <<>> /\ Manager.place = "own" => known = "in"

=============================================================================
