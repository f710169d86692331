----------------------------- MODULE Background -----------------------------
(***************************************************************************)
(* The background threads of a daemon and the reload that replaces them:   *)
(* ScannerThread and ConfigWatcherThread (resources/daemon/threads.py),    *)
(* DaemonServer.reload_config (resources/daemon/server.py) and the table   *)
(* scanned_files (resources/daemon/db.py).  A reload stops the old scanner,*)
(* waits five seconds for it and starts a new one: an old scanner in the   *)
(* middle of a scan goes on beside the new one.                            *)
(***************************************************************************)
EXTENDS Integers, FiniteSets

CONSTANTS
  ScanFile,      \* media files below the scan path
  Routed,        \* version of sma-ng.yml -> the files its routing rules match
  MaxVersion,    \* bound: edits of sma-ng.yml
  MaxScanners,   \* bound: scanner threads ever started
  MaxSubmits,    \* bound: jobs a file may get
  BackBudgets    \* bounds: how often each disturbance may happen

BackDisturbance == {"raise", "crash", "api", "broken"}

ASSUME BackAssumption ==
  /\ MaxVersion \in Nat /\ MaxScanners \in Nat \ {0} /\ MaxSubmits \in Nat \ {0}
  /\ Routed \in [0 .. MaxVersion -> SUBSET ScanFile]
  /\ BackBudgets \subseteq [BackDisturbance -> Nat]

VARIABLES
  disk,      \* sma-ng.yml: its version (mtime and size) and whether it loads
  loaded,    \* the version the PathConfigManager holds
  watcher,   \* the watcher's pc, last and stable
  reload,    \* _reload_lock: its holder, and where the reload is
  scanner,   \* scanner thread -> pc, whether it may go on, files left, files handled
  latest,    \* server.scanner_thread
  scanned,   \* scanned_files
  working,   \* files with a pending or running job
  submits,   \* file -> jobs the scanners have added for it
  bleft,
  lateEdit,  \* history: a change came after the load and before the watcher's stat
  overlap,   \* history: two scanners were scanning at a time
  aborted    \* history: a scan was cut short by an exception or a crash

scanVars == <<scanner, latest, scanned, working, submits, overlap, aborted>>
confVars == <<disk, loaded, watcher, reload, lateEdit>>
backVars == <<scanVars, confVars, bleft>>

Scanner == 1 .. MaxScanners
NotBorn == [pc |-> "unborn", go |-> FALSE, todo |-> {}, handled |-> {}]
Newborn == [NotBorn EXCEPT !.pc = "rest", !.go = TRUE]
Asleep  == [pc |-> "sleep", last |-> 0, stable |-> 0]
NoReload == [by |-> "nobody", pc |-> "none"]

BSpend(kind) == bleft[kind] > 0 /\ bleft' = [bleft EXCEPT ![kind] = @ - 1]

BackInit ==
  /\ disk = [version |-> 0, loads |-> TRUE] /\ loaded = 0
  /\ watcher = Asleep /\ reload = NoReload
  /\ scanner = [s \in Scanner |-> IF s = 1 THEN Newborn ELSE NotBorn] /\ latest = 1
  /\ scanned = {} /\ working = {} /\ submits = [f \in ScanFile |-> 0]
  /\ lateEdit = FALSE /\ overlap = FALSE /\ aborted = FALSE
  /\ bleft \in BackBudgets

-----------------------------------------------------------------------------
(* ScannerThread.                                                          *)

Scanning(s) == scanner[s].pc = "scan"

\* Slip: looks the files up under their rewritten paths, which are never recorded.
UnscannedSlip == ScanFile

\* filter_unscanned
Unscanned == ScanFile \ scanned

\* The walk over the scan path; nothing new ends the scan at once.
Walk(s) ==
  /\ scanner[s].pc = "rest" /\ scanner[s].go /\ Unscanned # {}
  /\ scanner' = [scanner EXCEPT ![s] =
                   [@ EXCEPT !.pc = "scan", !.todo = Unscanned, !.handled = {}]]
  /\ overlap' = (overlap \/ \E t \in Scanner \ {s} : Scanning(t))
  /\ UNCHANGED <<latest, scanned, working, submits, aborted, confVars, bleft>>

\* What is recorded once the scan has passed f by.
Handled(s, f) == IF f \in Routed[loaded] THEN scanner[s].handled \cup {f}
                 ELSE scanner[s].handled

\* One file: passed over when no routing rule of the configuration in force matches,
\* else given to add_job, which adds nothing while the file has an active job.
HandleFile(s) == \E f \in scanner[s].todo :
  /\ Scanning(s)
  /\ scanner' = [scanner EXCEPT ![s].todo = @ \ {f}, ![s].handled = Handled(s, f)]
  /\ IF f \in Routed[loaded] \ working
     THEN /\ submits[f] < MaxSubmits
          /\ submits' = [submits EXCEPT ![f] = @ + 1]
          /\ working' = working \cup {f}
     ELSE UNCHANGED <<working, submits>>
  /\ UNCHANGED <<latest, scanned, overlap, aborted, confVars, bleft>>

\* record_scanned of what was handled, at the end of the scan.
Record(s) ==
  /\ Scanning(s) /\ scanner[s].todo = {}
  /\ scanned' = scanned \cup scanner[s].handled
  /\ scanner' = [scanner EXCEPT ![s] = [@ EXCEPT !.pc = "rest", !.handled = {}]]
  /\ UNCHANGED <<latest, working, submits, overlap, aborted, confVars, bleft>>

\* add_job raises: the scan ends without recording anything.
ScanRaises(s) ==
  /\ Scanning(s) /\ BSpend("raise")
  /\ scanner' = [scanner EXCEPT ![s] = [Newborn EXCEPT !.go = scanner[s].go]]
  /\ aborted' = TRUE
  /\ UNCHANGED <<latest, scanned, working, submits, overlap, confVars>>

\* A stopped scanner leaves its loop between two scans.
ScannerEnds(s) ==
  /\ scanner[s].pc = "rest" /\ ~ scanner[s].go
  /\ scanner' = [scanner EXCEPT ![s].pc = "ended"]
  /\ UNCHANGED <<latest, scanned, working, submits, overlap, aborted, confVars, bleft>>

\* The job of a file comes to an end; the converted file keeps its path.
JobEnds(f) ==
  /\ f \in working /\ working' = working \ {f}
  /\ UNCHANGED <<scanner, latest, scanned, submits, overlap, aborted, confVars, bleft>>

-----------------------------------------------------------------------------
(* ConfigWatcherThread and reload_config.                                  *)

EditConfig == \E loads \in BOOLEAN :
  /\ disk.version < MaxVersion
  /\ IF loads THEN UNCHANGED bleft ELSE BSpend("broken")
  /\ disk' = [version |-> disk.version + 1, loads |-> loads]
  /\ lateEdit' = (lateEdit \/ (reload.by = "watcher" /\ reload.pc # "load"))
  /\ UNCHANGED <<loaded, watcher, reload, scanVars>>

\* The stat of an interval differs from the last one: the debounce begins.
NoticeEdit ==
  /\ watcher.pc = "sleep" /\ disk.version # watcher.last
  /\ watcher' = [watcher EXCEPT !.pc = "settle", !.stable = disk.version]
  /\ UNCHANGED <<disk, loaded, reload, lateEdit, scanVars, bleft>>

\* The file changed during the debounce; or the debounce is over.
Debounce ==
  /\ watcher.pc = "settle"
  /\ watcher' = IF disk.version # watcher.stable
                THEN [watcher EXCEPT !.stable = disk.version]
                ELSE [watcher EXCEPT !.pc = "reload"]
  /\ UNCHANGED <<disk, loaded, reload, lateEdit, scanVars, bleft>>

\* _reload_lock is taken by the watcher or by a POST /reload.
BeginReload(by) ==
  /\ reload = NoReload
  /\ \/ by = "watcher" /\ watcher.pc = "reload" /\ UNCHANGED bleft
     \/ by = "api" /\ BSpend("api")
  /\ reload' = [by |-> by, pc |-> "load"]
  /\ UNCHANGED <<disk, loaded, watcher, lateEdit, scanVars>>

\* Slip: the version the watcher last looked at is loaded.
InForceSlip == watcher.stable

\* The version a reload reads: the one on disk.
InForce == disk.version

\* load_config; a file that does not load keeps the previous settings.
LoadConfig ==
  /\ reload.pc = "load"
  /\ IF disk.loads
     THEN loaded' = InForce /\ reload' = [reload EXCEPT !.pc = "stop"]
     ELSE UNCHANGED loaded /\ reload' = [reload EXCEPT !.pc = "done"]
  /\ lateEdit' = FALSE
  /\ UNCHANGED <<disk, watcher, scanVars, bleft>>

StopScanner ==
  /\ reload.pc = "stop" /\ reload' = [reload EXCEPT !.pc = "join"]
  /\ scanner' = [scanner EXCEPT ![latest].go = FALSE]
  /\ UNCHANGED <<disk, loaded, watcher, lateEdit, latest, scanned, working, submits,
                 overlap, aborted, bleft>>

\* join(timeout=5) returns, the old thread ended or not; the new one is started.  The
\* other threads a reload replaces are stopped and started in the same way.
StartScanner ==
  /\ reload.pc = "join" /\ latest < MaxScanners
  /\ reload' = [reload EXCEPT !.pc = "done"]
  /\ scanner' = [scanner EXCEPT ![latest + 1] = Newborn] /\ latest' = latest + 1
  /\ UNCHANGED <<disk, loaded, watcher, lateEdit, scanned, working, submits, overlap,
                 aborted, bleft>>

\* The watcher looks at the file again after its reload and remembers what it sees.
EndReload ==
  /\ reload.pc = "done" /\ reload' = NoReload
  /\ IF reload.by = "watcher"
     THEN watcher' = [watcher EXCEPT !.pc = "sleep", !.last = disk.version]
     ELSE UNCHANGED watcher
  /\ UNCHANGED <<disk, loaded, lateEdit, scanVars, bleft>>

\* The process dies and starts again: all threads are new, and the file is loaded.
BackCrash ==
  /\ latest < MaxScanners /\ disk.loads /\ BSpend("crash")
  /\ loaded' = disk.version /\ reload' = NoReload /\ lateEdit' = FALSE
  /\ watcher' = [Asleep EXCEPT !.last = disk.version]
  /\ scanner' = [s \in Scanner |-> IF s = latest + 1 THEN Newborn
                                   ELSE IF s <= latest THEN [NotBorn EXCEPT !.pc = "ended"]
                                   ELSE NotBorn]
  /\ latest' = latest + 1 /\ aborted' = (aborted \/ \E s \in Scanner : Scanning(s))
  /\ UNCHANGED <<disk, scanned, working, submits, overlap>>

-----------------------------------------------------------------------------
ScannerStep(s) == Walk(s) \/ HandleFile(s) \/ Record(s) \/ ScannerEnds(s)

ReloadStep == LoadConfig \/ StopScanner \/ StartScanner \/ EndReload

BackNext ==
  \/ \E s \in Scanner : ScannerStep(s) \/ ScanRaises(s)
  \/ \E f \in ScanFile : JobEnds(f)
  \/ EditConfig
  \/ NoticeEdit
  \/ Debounce
  \/ \E by \in {"watcher", "api"} : BeginReload(by)
  \/ ReloadStep
  \/ BackCrash

\* Every thread runs, and the lock is given to a waiting watcher.
BackFairness ==
  /\ \A s \in Scanner : WF_backVars(ScannerStep(s))
  /\ WF_backVars(NoticeEdit \/ Debounce \/ BeginReload("watcher"))
  /\ WF_backVars(ReloadStep)

BackSpec == BackInit /\ [][BackNext]_backVars /\ BackFairness

-----------------------------------------------------------------------------
(* Properties.                                                             *)

BackTypeOK ==
  /\ disk.version \in 0 .. MaxVersion /\ loaded \in 0 .. MaxVersion
  /\ watcher.pc \in {"sleep", "settle", "reload"}
  /\ reload.by \in {"nobody", "watcher", "api"}
  /\ scanned \subseteq ScanFile /\ working \subseteq ScanFile
  /\ submits \in [ScanFile -> 0 .. MaxSubmits] /\ latest \in Scanner

\* A scanner adds a job for a file at most once, whatever the restarts of the scanner,
\* unless two scanners scanned at a time (a reload that did not wait long enough) or
\* a scan was cut short after it had added jobs.
ScannedOnce == ~ overlap /\ ~ aborted => \A f \in ScanFile : submits[f] <= 1

\* Once sma-ng.yml stops changing, the version on disk is the one in force, if it
\* loads, unless the last change came while the watcher's reload was running.
LastEditLoaded == <>[](loaded = disk.version \/ ~ disk.loads \/ lateEdit)

\* threads.py: the watcher "triggers DaemonServer.reload_config() on detected changes".
EveryEditLoaded == <>[](loaded = disk.version \/ ~ disk.loads)

\* Every file that a routing rule matches gets a job, also when the rule was added
\* after scans that passed the file by, and when scans are cut short.
EveryFileQueued == <>[](\A f \in Routed[loaded] : submits[f] > 0)

\* What the operator saves comes into force, and what it routes is then converted: the
\* watcher and the scanner, which wait for each other in a reload, both come to an end.
EditsAndFilesArrive == LastEditLoaded /\ EveryFileQueued

=============================================================================
