----------------------------- MODULE Conversion -----------------------------
(***************************************************************************)
(* What one conversion does to files, from the start of the subprocess to  *)
(* its report (processFile in manual.py, and MediaProcessor.process,       *)
(* convert, restoreFromOutput, replicate and _cleanup_input in             *)
(* resources/mediaprocessor.py), with a second conversion, an unrelated    *)
(* writer, and the wipe of the output directory beside it.                 *)
(*                                                                         *)
(* A file is its content: whose media it holds and whether all of it.  The *)
(* content that ffmpeg is still writing follows renames and is lost to an  *)
(* unlink, as an open file is.  Names are <<directory, extension, number>>:*)
(* every media file has the same stem, which is the case that collides.    *)
(* Tags, naming templates and subtitles change no media file here.         *)
(***************************************************************************)
EXTENDS Integers, FiniteSets

CONSTANTS
  Task,            \* conversions, one subprocess each
  Folder,          \* the directories inputs are in
  Stranger,        \* a file some other program puts beside an input
  Setups,          \* the settings and inputs to start from
  MaxNumber,       \* bound: how high collisions may number a file
  FileBudgets      \* bounds: how often each disturbance may happen

FileDisturbance ==
  {"crash", "attempt", "fileError", "diskFull", "wipe", "arrival"}

RunKind == {"convert", "redo", "bypass", "none"}

Setup ==
  [outDir : BOOLEAN, temp : BOOLEAN, delete : BOOLEAN, bin : BOOLEAN, moveto : BOOLEAN,
   kind : [Task -> RunKind], dir : [Task -> Folder]]

ASSUME ConversionAssumption ==
  /\ Stranger \notin Task /\ Folder \cap {"out", "dest", "bin", "none"} = {}
  /\ Setups \subseteq Setup /\ MaxNumber \in Nat
  /\ FileBudgets \subseteq [FileDisturbance -> Nat]

VARIABLES
  set,      \* the settings (never change)
  fs,       \* name -> content, defined on the files there are
  task,     \* task -> where it is: pc, input as it is named now, working and final
            \* output names, output["delete"], the name chosen in the recycle bin
  fleft,    \* disturbances still allowed
  harmed,   \* history: tasks whose output another one removed, overwrote or shared
  truncated, \* history: tasks whose copy into the output directory was cut short
  unrecycled, \* history: tasks whose copy to the recycle bin failed
  crashed,  \* history: tasks that were killed
  arrived   \* history: the stranger's file came

history == <<truncated, unrecycled, crashed, arrived>>
fileVars == <<set, fs, task, fleft, harmed, history>>

Number == 0 .. MaxNumber

Content(t, state) == [of |-> t, state |-> state]

Exists(p) == p \in DOMAIN fs

Holds(files, t, states) ==
  \E p \in DOMAIN files : files[p].of = t /\ files[p].state \in states

Without(p, files) == [q \in DOMAIN files \ {p} |-> files[q]]

With(p, c, files) == [q \in DOMAIN files \cup {p} |-> IF q = p THEN c ELSE files[q]]

Moved(p, q, files) == With(q, files[p], Without(p, files))

\* The input as the job names it.
InputOf(t) == <<set.dir[t], IF set.kind[t] = "convert" THEN "mkv" ELSE "mp4", 0>>

NoName == <<"none", "none", 0>>

Queued(t) ==
  [pc |-> "queued", src |-> InputOf(t), out |-> NoName, final |-> NoName,
   delete |-> FALSE, bin |-> NoName]

FileInit ==
  /\ set \in Setups
  /\ fs = [p \in {InputOf(t) : t \in {u \in Task : set.kind[u] # "none"}} |->
             Content(CHOOSE t \in Task : set.kind[t] # "none" /\ InputOf(t) = p, "original")]
  /\ task = [t \in Task |-> IF set.kind[t] = "none"
                            THEN [Queued(t) EXCEPT !.pc = "done"] ELSE Queued(t)]
  /\ fleft \in FileBudgets
  /\ harmed = {} /\ truncated = {} /\ unrecycled = {} /\ crashed = {} /\ arrived = FALSE

AtPc(t, pc) == task[t].pc = pc

\* Several fields of a task's record at once.
Go(t, pc) == task' = [task EXCEPT ![t].pc = pc]

FSpend(kind) == fleft[kind] > 0 /\ fleft' = [fleft EXCEPT ![kind] = @ - 1]

NoError == UNCHANGED fleft

\* A run that is over without an output, or has not begun one, does not need what an
\* earlier run of it left behind.
Unneeded(u) ==
  task[u].pc \in {"queued", "names", "copy", "failed"} /\ Exists(InputOf(u))

\* What the present step, taken by t, does to the other tasks: it removes, replaces or
\* moves a file one of them needs, or ruins for both a file one of them is writing.
Lost(p) == p \notin DOMAIN fs' \/ fs'[p] # fs[p]

OthersHarmedBy(t) ==
  {u \in Task \ {t} : \E p \in DOMAIN fs :
     /\ fs[p].of = u /\ fs[p].state # "cut" /\ Lost(p)
     /\ p[1] = "bin" \/ p = InputOf(u) \/ ~Unneeded(u)}

SharedBy(t) ==
  IF \E p \in DOMAIN fs \cap DOMAIN fs' :
       fs[p].of # t /\ fs[p].state = "writing" /\ fs'[p] = Content(fs[p].of, "cut")
  THEN {t} ELSE {}

Harm(t) == harmed' = harmed \cup OthersHarmedBy(t) \cup SharedBy(t)

-----------------------------------------------------------------------------
(* convert(): the names.                                                   *)

OutputDir(t) == IF set.outDir THEN "out" ELSE set.dir[t]

WorkName(t, n) == <<OutputDir(t), IF set.temp THEN "sma" ELSE "mp4", n>>

FinalName(t, n) == <<OutputDir(t), "mp4", n>>

\* The numbers under which none of the names exists, and the first of them.
Numbers(names, files) == {n \in Number : names[n] \cap DOMAIN files = {}}

FirstOf(numbers) == CHOOSE n \in numbers : \A k \in numbers : n <= k

\* The input has the name of the output: it steps aside under .original.
InTheWay(t) == InputOf(t) = FinalName(t, 0)

AsideName(t, n) == <<set.dir[t], "original", n>>

\* Leftover of the temporary extension, taken for our own and cleared.
Leftover(t) == IF set.temp /\ set.delete THEN {WorkName(t, 0)} ELSE {}

\* The first number is taken with which neither the working nor the final name exists.
Named(t, src, files) ==
  LET left    == [p \in DOMAIN files \ Leftover(t) |-> files[p]]
      numbers == Numbers([n \in Number |-> {WorkName(t, n), FinalName(t, n)}], left) IN
  /\ numbers # {} /\ fs' = left
  /\ task' = [task EXCEPT ![t] = [@ EXCEPT !.pc = "start", !.src = src,
                !.out = WorkName(t, FirstOf(numbers)),
                !.final = FinalName(t, FirstOf(numbers))]]

StepAside(t) ==
  LET aside == Numbers([n \in Number |-> {AsideName(t, n)}], fs)
      src   == AsideName(t, FirstOf(aside)) IN
  /\ Exists(InputOf(t)) /\ aside # {}
  /\ Named(t, src, Moved(InputOf(t), src, fs))

\* The input that cannot be renamed stays, and only the output is numbered.
ChooseNames(t) ==
  /\ AtPc(t, "names")
  /\ \/ ~InTheWay(t) /\ Named(t, InputOf(t), fs) /\ NoError
     \/ InTheWay(t) /\ StepAside(t) /\ NoError
     \/ InTheWay(t) /\ Named(t, InputOf(t), fs)
        /\ IF Exists(InputOf(t)) THEN FSpend("fileError") ELSE NoError
  /\ UNCHANGED <<set, history>>

-----------------------------------------------------------------------------
(* The subprocess, step by step.                                           *)

\* The job starts; a path that is gone fails it, and a file cut short may.
BeginTask(t) ==
  /\ AtPc(t, "queued")
  /\ \/ Exists(InputOf(t)) /\ Go(t, IF set.kind[t] = "bypass" THEN "copy" ELSE "names")
     \/ (Exists(InputOf(t)) => fs[InputOf(t)].state = "cut") /\ Go(t, "failed")
  /\ UNCHANGED <<set, fs, fleft, history>>

\* The file at p is opened to be written over: if another process writes there, the
\* file is ruined for both.
Opened(t, p) ==
  IF Exists(p) /\ fs[p].state = "writing"
  THEN fs' = [fs EXCEPT ![p].state = "cut"]
  ELSE fs' = With(p, Content(t, "writing"), fs)

\* ffmpeg -y
StartFfmpeg(t) ==
  /\ AtPc(t, "start") /\ Go(t, "encode") /\ Opened(t, task[t].out)
  /\ UNCHANGED <<set, fleft, history>>

\* What an encode of the file at p yields.
Result(t, p) ==
  IF Exists(p) /\ fs[p].of = t /\ fs[p].state \in {"original", "whole"} THEN "whole" ELSE "cut"

Settled(t, state) ==
  [p \in DOMAIN fs |-> IF fs[p] = Content(t, "writing") THEN Content(t, state) ELSE fs[p]]

FinishFfmpeg(t) ==
  /\ AtPc(t, "encode") /\ fs' = Settled(t, Result(t, task[t].src)) /\ Go(t, "rename")
  /\ UNCHANGED <<set, fleft, history>>

\* The partial output of a failed attempt is removed by its name.
PartialRemoved(t) == Without(task[t].out, Settled(t, "cut"))

\* The ladder has another tier.
NextAttempt(t) ==
  /\ AtPc(t, "encode") /\ FSpend("attempt")
  /\ fs' = PartialRemoved(t) /\ Go(t, "start")
  /\ UNCHANGED <<set, history>>

\* Slip: the input keeps the name it stepped aside to.
RestoredSlip(t, files) == files

\* The input is given its name back; what has come there meanwhile is overwritten.
Restored(t, files) ==
  IF task[t].src # InputOf(t) /\ task[t].src \in DOMAIN files
  THEN Moved(task[t].src, InputOf(t), files) ELSE files

\* The last tier failed: _restore_after_failure.
ConversionFails(t) ==
  /\ AtPc(t, "encode") /\ FSpend("attempt")
  /\ fs' = Restored(t, PartialRemoved(t))
  /\ Go(t, "failed")
  /\ UNCHANGED <<set, history>>

\* The final name, or the next free one if something appeared there.
FreeFinals(t) == Numbers([n \in Number |-> {FinalName(t, n)}], fs)

PlacedAt(t) ==
  IF task[t].out = task[t].final \/ ~Exists(task[t].final) THEN task[t].final
  ELSE FinalName(t, FirstOf(FreeFinals(t)))

\* The rename to the final extension; if the working file is gone, its name is kept.
RenameOutput(t) ==
  LET p == task[t].out  q == PlacedAt(t) IN
  /\ AtPc(t, "rename")
  /\ IF Exists(p)
     THEN /\ FreeFinals(t) # {}
          /\ fs' = Moved(p, q, fs)
          /\ task' = [task EXCEPT ![t] = [@ EXCEPT !.pc = "faststart", !.final = q,
                                                   !.delete = set.delete]]
     ELSE /\ UNCHANGED fs
          /\ task' = [task EXCEPT ![t] = [@ EXCEPT !.pc = "faststart", !.final = p,
                                                   !.delete = set.delete]]
  /\ UNCHANGED <<set, fleft, history>>

\* canBypassConvert: the input itself is the output, or is copied to the output
\* directory over whatever is there.
BypassCopy(t) ==
  LET p == FinalName(t, 0) IN
  /\ AtPc(t, "copy")
  /\ IF set.outDir
     THEN /\ Opened(t, p)
          /\ task' = [task EXCEPT ![t] = [@ EXCEPT !.pc = "copying", !.final = p]]
     ELSE /\ task' = [task EXCEPT ![t] = [@ EXCEPT !.pc = "faststart", !.final = InputOf(t)]]
          /\ UNCHANGED fs
  /\ UNCHANGED <<set, fleft, history>>

\* The copy ends, or is cut short and only keeps "delete" from being set.
EndCopy(t) ==
  /\ AtPc(t, "copying")
  /\ \/ /\ fs' = Settled(t, IF Exists(InputOf(t)) /\ fs[InputOf(t)].of = t
                            THEN fs[InputOf(t)].state ELSE "cut")
        /\ task' = [task EXCEPT ![t] = [@ EXCEPT !.pc = "faststart", !.delete = set.delete]]
        /\ NoError /\ UNCHANGED truncated
     \/ /\ FSpend("diskFull")
        /\ fs' = Settled(t, "cut") /\ truncated' = truncated \cup {t}
        /\ Go(t, "faststart")
  /\ UNCHANGED <<set, unrecycled, crashed, arrived>>

\* QTFS: the relocated copy is complete before the file makes room for it.
RelocatedName(t) == <<task[t].final[1], "QTFS", task[t].final[3]>>

FastStart(t) ==
  /\ AtPc(t, "faststart")
  /\ \/ /\ Exists(task[t].final) /\ Go(t, "swap")
        /\ fs' = LET c == fs[task[t].final] IN
                 With(RelocatedName(t),
                      IF c.state = "writing" THEN [c EXCEPT !.state = "cut"] ELSE c,
                      Without(task[t].final, fs))
     \/ Go(t, "placed") /\ UNCHANGED fs
  /\ UNCHANGED <<set, fleft, history>>

SwapIn(t) ==
  /\ AtPc(t, "swap") /\ Go(t, "placed")
  /\ IF Exists(RelocatedName(t))
     THEN /\ fs' = Moved(RelocatedName(t), task[t].final, fs)
     ELSE UNCHANGED fs
  /\ UNCHANGED <<set, fleft, history>>

\* The output goes back beside the input (_overwrite_input).
GoesBack == set.outDir /\ ~set.moveto

\* The original is recycled before it can be replaced.
RecyclesFirst(t) == GoesBack /\ task[t].delete

Place(t) ==
  /\ AtPc(t, "placed")
  /\ Go(t, IF RecyclesFirst(t) THEN "recycle" ELSE IF GoesBack THEN "restore" ELSE "replicate")
  /\ UNCHANGED <<set, fs, fleft, history>>

\* _recycle_to_bin: a free name, then the copy under it.
BinName(t, n) == <<"bin", task[t].src[2], n>>

NameInBin(t) ==
  LET numbers == Numbers([n \in Number |-> {BinName(t, n)}], fs) IN
  /\ AtPc(t, "recycle")
  /\ IF set.bin /\ Exists(task[t].src)
     THEN /\ numbers # {}
          /\ task' = [task EXCEPT ![t] = [@ EXCEPT !.pc = "binCopy",
                                                   !.bin = BinName(t, FirstOf(numbers))]]
     ELSE Go(t, IF GoesBack THEN "restore" ELSE "remove")
  /\ UNCHANGED <<set, fs, fleft, history>>

CopyToBin(t) ==
  /\ AtPc(t, "binCopy") /\ Go(t, IF GoesBack THEN "restore" ELSE "remove")
  /\ \/ /\ Exists(task[t].src) /\ NoError
        /\ fs' = With(task[t].bin, fs[task[t].src], fs)
        /\ UNCHANGED unrecycled
     \/ /\ ~Exists(task[t].src) /\ NoError
        /\ UNCHANGED <<fs, unrecycled>>
     \/ /\ FSpend("fileError")
        /\ unrecycled' = unrecycled \cup {t}
        /\ UNCHANGED fs
  /\ UNCHANGED <<set, truncated, crashed, arrived>>

\* _resolve_restore_collision: the input is replaced when originals are deleted; a
\* copy of the same bytes is dropped; anything else is kept and the output numbered.
BesideName(t, n) == <<set.dir[t], "mp4", n>>

FreeBeside(t) == Numbers([n \in Number |-> {BesideName(t, n)}], fs)

BackName(t) ==
  LET q == BesideName(t, task[t].final[3]) IN
  IF ~Exists(q) \/ (q = InputOf(t) /\ set.delete) THEN q
  ELSE BesideName(t, FirstOf(FreeBeside(t)))

SameBytes(p, q) == Exists(p) /\ Exists(q) /\ fs[p] = fs[q]

RestoreOutput(t) ==
  LET p == task[t].final  q == BackName(t)  beside == BesideName(t, p[3]) IN
  /\ AtPc(t, "restore")
  /\ \/ /\ SameBytes(p, beside) /\ ~(beside = InputOf(t) /\ set.delete)
        /\ fs' = Without(p, fs)
        /\ task' = [task EXCEPT ![t] = [@ EXCEPT !.pc = "cleanup", !.final = beside]]
        /\ NoError
     \/ /\ Exists(p) /\ FreeBeside(t) # {} /\ ~(SameBytes(p, beside) /\ q # beside)
        /\ fs' = Moved(p, q, fs)
        /\ task' = [task EXCEPT ![t] = [@ EXCEPT !.pc = "cleanup", !.final = q]]
        /\ NoError
     \/ /\ IF Exists(p) THEN FSpend("fileError") ELSE NoError
        /\ Go(t, "cleanup") /\ UNCHANGED fs
  /\ UNCHANGED <<set, history>>

\* replicate: the move-to directory takes the file whatever is there.
Replicate(t) ==
  LET p == task[t].final  q == <<"dest", "mp4", p[3]>> IN
  /\ AtPc(t, "replicate")
  /\ \/ /\ set.moveto /\ Exists(p) /\ NoError
        /\ fs' = Moved(p, q, fs)
        /\ task' = [task EXCEPT ![t] = [@ EXCEPT !.pc = "cleanup", !.final = q]]
     \/ /\ IF set.moveto /\ Exists(p) THEN FSpend("fileError") ELSE NoError
        /\ Go(t, "cleanup") /\ UNCHANGED fs
  /\ UNCHANGED <<set, history>>

\* Slip: the original is removed although the output has taken its name.
CleanUpNextSlip(t) ==
  IF ~task[t].delete THEN "done" ELSE IF GoesBack THEN "remove" ELSE "recycle"

\* An output that went back had its original recycled before, and may have its name.
CleanUpNext(t) ==
  IF ~task[t].delete \/ (GoesBack /\ task[t].final = task[t].src) THEN "done"
  ELSE IF GoesBack THEN "remove" ELSE "recycle"

CleanUp(t) ==
  /\ AtPc(t, "cleanup") /\ Go(t, CleanUpNext(t))
  /\ UNCHANGED <<set, fs, fleft, history>>

RemoveOriginal(t) ==
  LET p == task[t].src IN
  /\ AtPc(t, "remove") /\ Go(t, "done")
  /\ fs' = Without(p, fs)
  /\ UNCHANGED <<set, fleft, history>>

TaskStep(t) ==
  /\ \/ BeginTask(t) \/ ChooseNames(t) \/ StartFfmpeg(t) \/ FinishFfmpeg(t)
     \/ NextAttempt(t) \/ ConversionFails(t) \/ RenameOutput(t)
     \/ BypassCopy(t) \/ EndCopy(t) \/ FastStart(t) \/ SwapIn(t) \/ Place(t)
     \/ NameInBin(t) \/ CopyToBin(t) \/ RestoreOutput(t) \/ Replicate(t)
     \/ CleanUp(t) \/ RemoveOriginal(t)
  /\ Harm(t)

-----------------------------------------------------------------------------
(* What else happens to the files.                                         *)

\* The subprocess is killed, with its ffmpeg; the recovered job starts over.
KillTask(t) ==
  /\ task[t].pc \notin {"queued", "done", "failed"} /\ FSpend("crash")
  /\ fs' = Settled(t, "cut") /\ task' = [task EXCEPT ![t] = Queued(t)]
  /\ crashed' = crashed \cup {t}
  /\ UNCHANGED <<set, harmed, truncated, unrecycled, arrived>>

\* A daemon that starts empties the output directory, which it may share.
WipeOutput ==
  LET gone == {p \in DOMAIN fs : p[1] = "out"} IN
  /\ gone # {} /\ FSpend("wipe")
  /\ fs' = [p \in DOMAIN fs \ gone |-> fs[p]]
  /\ harmed' = harmed \cup {t \in Task : ~Unneeded(t)
                                /\ \E p \in gone : fs[p].of = t /\ fs[p].state # "cut"}
  /\ UNCHANGED <<set, task, truncated, unrecycled, crashed, arrived>>

\* The storage janitor removes working files that were not written for hours.
SweepOutput(p) ==
  /\ Exists(p) /\ p[1] = "out" /\ p[2] = "sma"
  /\ \A t \in Task : task[t].pc \in {"start", "encode", "rename"} => task[t].out # p
  /\ fs' = Without(p, fs)
  /\ UNCHANGED <<set, task, fleft, harmed, history>>

\* Some other program puts a finished file where an output is going to be.
Arrive(t) ==
  LET p == <<set.dir[t], "mp4", 0>> IN
  /\ AtPc(t, "encode") /\ ~Exists(p) /\ FSpend("arrival")
  /\ fs' = With(p, Content(Stranger, "whole"), fs) /\ arrived' = TRUE
  /\ UNCHANGED <<set, task, harmed, truncated, unrecycled, crashed>>

FileNext ==
  \/ \E t \in Task : TaskStep(t) \/ KillTask(t) \/ Arrive(t)
  \/ WipeOutput
  \/ \E p \in DOMAIN fs : SweepOutput(p)

FileSpec == FileInit /\ [][FileNext]_fileVars

-----------------------------------------------------------------------------
(* Properties.                                                             *)

Working == {t \in Task : set.kind[t] # "none"}

\* Whatever step a conversion is killed at and however often it starts over, whichever
\* attempt, move or copy fails: as long as no other process removed, overwrote or shared
\* its output and its bypass copy was not cut short, some file still holds all of its
\* media.  And a file some other program left beside an input is never lost when
\* neither an input has the name of its output nor the output is moved on.
MediaKept ==
  \A t \in Working \ (harmed \cup truncated) : Holds(fs, t, {"original", "whole"})

StrangerKept ==
  arrived /\ ~set.moveto /\ (\A t \in Task : set.kind[t] # "redo")
     => Holds(fs, Stranger, {"whole"})

NothingLost == MediaKept /\ StrangerKept

\* A conversion next to it: whose output may get the name of the other's input.
Adjoining(t) == \E u \in Working \ {t} : set.dir[u] = set.dir[t]

\* With originals not deleted, the original itself is never lost, also when a conversion
\* in another directory ruins the output; with a recycle bin, it is lost only if its copy
\* to the bin fails or another conversion takes its name there.
OriginalKept ==
  /\ ~set.delete =>
       \A t \in Working \ (truncated \cup {u \in harmed : Adjoining(u)}) :
         Holds(fs, t, {"original"})
  /\ set.bin => \A t \in Working \ (harmed \cup truncated \cup unrecycled) :
                   Holds(fs, t, {"original"})

\* Killed after its input stepped aside, a retry may take its own partial output, which
\* has the name of the input, for the input.
Misled(t) == t \in crashed /\ ~set.outDir /\ set.kind[t] = "redo"

\* A conversion reports what is true: after success its output is where it says, and
\* whole; after failure the input is under its name again, nothing else of it left.
ReportsAreTrue ==
  \A t \in {u \in Working \ (harmed \cup truncated) : ~Misled(u)} :
    /\ AtPc(t, "done") => /\ Exists(task[t].final) /\ fs[task[t].final].of = t
                         /\ fs[task[t].final].state \in {"original", "whole"}
    /\ AtPc(t, "failed") /\ t \notin crashed =>
         {p \in DOMAIN fs : fs[p].of = t} = {InputOf(t)}

\* What a conversion owes the owner of the original: to keep it unless told to delete
\* it, and to say what became of it (processFile of manual.py, process, restoreFromOutput).
OriginalAccounted == OriginalKept /\ ReportsAreTrue

\* docs/configuration.md on restoring an output of the same name: the source "is
\* replaced only when `delete-original` is `true` (after copying it to `recycle-bin`,
\* if set)".
ReplacedOnlyAfterRecycling ==
  set.bin => \A t \in Working \ (harmed \cup unrecycled) : Holds(fs, t, {"original"})

=============================================================================
