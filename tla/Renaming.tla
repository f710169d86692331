------------------------------ MODULE Renaming ------------------------------
(***************************************************************************)
(* Media renamed on disk, with their subtitle files and the .plexmatch of  *)
(* their show (rename.py, resources/rename_util.py, rename_file of         *)
(* resources/naming.py, update_plexmatch of resources/metadata.py).        *)
(* rename.py walks a library while find still lists it; a conversion       *)
(* renames its output in the output directory and moves it to the library  *)
(* afterwards.  Any of them run at once, and may be killed at any step.    *)
(*                                                                         *)
(* A file name is a directory, the words of its stem, and its extension.   *)
(* What a medium is to be called is given (NamePlan); an inode that two    *)
(* names share is one file.                                                *)
(***************************************************************************)
EXTENDS Naturals, FiniteSets, Sequences, SequencesExt, Functions

CONSTANTS
  Renamer,       \* the processes that rename
  RenameCases,   \* the library, what its media are, and who works on it
  NoPlex         \* no .plexmatch

VARIABLES
  ncase,     \* (never changes)
  dir,       \* the inode of each name in use
  plex,      \* .plexmatch
  rn,        \* what each process does
  mishap     \* history: was one killed, and what did restored outputs replace

renamingVars == <<ncase, dir, plex, rn, mishap>>

In(at, stem, ext) == [at |-> at, stem |-> stem, ext |-> ext]

Blank == 0   \* the inode of a placeholder
IsSubtitle(n) == n.ext = "srt"
MediaIn(files, at) == {n \in DOMAIN files : n.at = at /\ ~IsSubtitle(n)}
Removed(files, n) == Restrict(files, DOMAIN files \ {n})
Linked(files, n, i) == [m \in DOMAIN files \cup {n} |-> IF m = n THEN i ELSE files[m]]
Taken(n) == n \in DOMAIN dir

-----------------------------------------------------------------------------
(* .plexmatch.                                                             *)

Unwritten == [head |-> {}, other |-> {}, episodes |-> << >>]
Parsed == IF plex = NoPlex THEN Unwritten ELSE plex

\* _build_plexmatch_header: the title and the year stay, an id that is not known goes.
Header(old, new) == (old \cap {"title", "year"}) \cup new

\* _write_tv_plexmatch and _write_movie_plexmatch with _write_plexmatch: a show's episodes
\* accumulate, a movie has none, and of the other lines none are written.
Entered(old, medium, n) ==
  [head |-> Header(old.head, medium.head), other |-> {},
   episodes |-> IF medium.episodes = {} THEN << >>
                ELSE [e \in DOMAIN old.episodes \cup medium.episodes |->
                        IF e \in medium.episodes THEN n ELSE old.episodes[e]]]

-----------------------------------------------------------------------------
(* A process.                                                              *)

Pair(src, dst) == [src |-> src, dst |-> dst]
NoPair == Pair(In("none", <<>>, "none"), In("none", <<>>, "none"))

Works(r, pc) == rn[r].pc = pc
GoesTo(r, pc) == rn' = [rn EXCEPT ![r].pc = pc]
Job(r) == rn[r].job
OfFilm(r) == rn[r].job = rn[r].film
Converts(r) == r \in DOMAIN ncase.converts

RenameStart(cases) ==
  /\ ncase \in cases
  /\ dir = ncase.files
  /\ plex = ncase.plex
  /\ rn = [r \in Renamer |->
             [pc |-> IF Converts(r) THEN "convert" ELSE IF r \in ncase.tools THEN "walk" ELSE "done",
              seen |-> {}, film |-> NoPair, job |-> NoPair, todo |-> {}, results |-> <<>>,
              told |-> 0, read |-> Unwritten]]
  /\ mishap = [kill |-> FALSE, replaced |-> {}]

RenameInit == RenameStart(RenameCases)

\* A medium is done with: the next file of the walk, or the rest of the conversion.
AfterFilm(r) == IF Converts(r) THEN "restore" ELSE "walk"

\* rename_file: nothing to do, or a name that is taken, leaves the file as it is.
Begin(r, n, state) ==
  LET pair == Pair(n, [n EXCEPT !.stem = ncase.media[dir[n]].name]) IN
  rn' = [rn EXCEPT ![r] =
           IF Taken(pair.dst) THEN [state EXCEPT !.pc = AfterFilm(r)]
           ELSE [state EXCEPT !.pc = "link", !.film = pair, !.job = pair]]

\* A name that find lists: one that was there from the start, or that appeared since,
\* perhaps by the walk's own doing.  ffprobe tells a medium from something else.
Visit(r, n) ==
  /\ Works(r, "walk") /\ n \in MediaIn(dir, "lib") \ rn[r].seen
  /\ LET state == [rn[r] EXCEPT !.seen = @ \cup {n}] IN
       IF dir[n] \in DOMAIN ncase.media THEN Begin(r, n, state)
       ELSE rn' = [rn EXCEPT ![r] = state]
  /\ UNCHANGED <<ncase, dir, plex, mishap>>

\* find has listed at least what was there when it began and still is.
EndWalk(r) ==
  /\ Works(r, "walk") /\ MediaIn(ncase.files, "lib") \cap DOMAIN dir \subseteq rn[r].seen
  /\ GoesTo(r, "tell") /\ UNCHANGED <<ncase, dir, plex, mishap>>

\* A conversion renames its output.
NameOutput(r) ==
  /\ Works(r, "convert")
  /\ LET output == ncase.converts[r].output
         state == [rn[r] EXCEPT !.film = Pair(output, output)] IN
       IF ncase.converts[r].naming THEN Begin(r, output, state)
       ELSE rn' = [rn EXCEPT ![r] = [state EXCEPT !.pc = "restore"]]
  /\ UNCHANGED <<ncase, dir, plex, mishap>>

-----------------------------------------------------------------------------
(* _rename_no_clobber.                                                     *)

\* What listdir finds of the sidecars: at most two short words follow the medium's stem.
Suffix(n, stem) == SubSeq(n.stem, Len(stem) + 1, Len(n.stem))
Sidecars(medium, files) ==
  {n \in DOMAIN files :
     /\ n.at = medium.at /\ IsSubtitle(n) /\ IsPrefix(medium.stem, n.stem)
     /\ Len(n.stem) <= Len(medium.stem) + 2
     /\ ncase.long \cap ToSet(Suffix(n, medium.stem)) = {}}

\* It went well: on to the sidecars of the medium, or to the next of them.
Succeeds(r) ==
  LET new == [new |-> Job(r).dst, inode |-> dir'[Job(r).dst]] IN
  rn' = [rn EXCEPT ![r] =
           [@ EXCEPT !.pc = "sidecars",
                     !.todo = IF OfFilm(r) THEN Sidecars(Job(r).src, dir') ELSE @,
                     !.results = IF OfFilm(r) THEN Append(@, new) ELSE @]]

\* An OSError, or the name is taken after all: the file stays.
GivesUp(r) == GoesTo(r, IF OfFilm(r) THEN AfterFilm(r) ELSE "sidecars")

\* Slip: os.rename for every file.
RefusedSlip(n) == FALSE

\* EEXIST.
Refused(n) == Taken(n)

Link(r) ==
  /\ Works(r, "link")
  /\ \/ /\ Taken(Job(r).src) /\ ncase.links /\ ~Refused(Job(r).dst)
        /\ dir' = Linked(dir, Job(r).dst, dir[Job(r).src]) /\ GoesTo(r, "unlink")
     \/ /\ Taken(Job(r).src) /\ Refused(Job(r).dst)
        /\ UNCHANGED dir /\ GivesUp(r)
     \/ /\ ~Taken(Job(r).src) \/ ~(ncase.links \/ Refused(Job(r).dst))
        /\ UNCHANGED dir /\ GoesTo(r, "placeholder")
  /\ UNCHANGED <<ncase, plex, mishap>>

Unlink(r) ==
  /\ Works(r, "unlink")
  /\ \/ Taken(Job(r).src) /\ dir' = Removed(dir, Job(r).src) /\ Succeeds(r)
     \/ ~Taken(Job(r).src) /\ UNCHANGED dir /\ GivesUp(r)
  /\ UNCHANGED <<ncase, plex, mishap>>

\* There are no hard links here, or the file is gone: O_EXCL, then a rename over it.
Placeholder(r) ==
  /\ Works(r, "placeholder")
  /\ \/ Refused(Job(r).dst) /\ UNCHANGED dir /\ GivesUp(r)
     \/ ~Refused(Job(r).dst) /\ dir' = Linked(dir, Job(r).dst, Blank) /\ GoesTo(r, "over")
  /\ UNCHANGED <<ncase, plex, mishap>>

Replacing(pair) == Removed(Linked(dir, pair.dst, dir[pair.src]), pair.src)

RenameOver(r) ==
  /\ Works(r, "over")
  /\ \/ Taken(Job(r).src) /\ dir' = Replacing(Job(r)) /\ Succeeds(r)
     \/ ~Taken(Job(r).src) /\ UNCHANGED dir /\ GoesTo(r, "tidy")
  /\ UNCHANGED <<ncase, plex, mishap>>

Tidy(r) ==
  /\ Works(r, "tidy") /\ dir' = Removed(dir, Job(r).dst) /\ GivesUp(r)
  /\ UNCHANGED <<ncase, plex, mishap>>

\* _rename_sidecars: they take the medium's new stem and keep their own last words.
NextSidecar(r, n) ==
  /\ Works(r, "sidecars") /\ n \in rn[r].todo
  /\ LET film == rn[r].film IN
       rn' = [rn EXCEPT ![r].todo = @ \ {n}, ![r].pc = "link",
                        ![r].job = Pair(n, [n EXCEPT !.stem = film.dst.stem \o Suffix(n, film.src.stem)])]
  /\ UNCHANGED <<ncase, dir, plex, mishap>>

EndSidecars(r) ==
  /\ Works(r, "sidecars") /\ rn[r].todo = {}
  /\ GoesTo(r, AfterFilm(r)) /\ UNCHANGED <<ncase, dir, plex, mishap>>

-----------------------------------------------------------------------------
(* A conversion's output goes to the library (restoreFromOutput).          *)

\* The output as it is called by now.
Output(r) == IF Taken(rn[r].film.dst) THEN rn[r].film.dst ELSE rn[r].film.src

\* A name that is taken gets the first number that is free.
Numbered(n) ==
  LET Try(k) == [n EXCEPT !.stem = Append(@, k)] IN
  IF ~Taken(n) THEN n ELSE IF ~Taken(Try("2")) THEN Try("2") ELSE Try("3")

Resolve(r) ==
  /\ Works(r, "restore")
  /\ rn' = [rn EXCEPT ![r].pc = "move",
                      ![r].job = Pair(Output(r), Numbered([Output(r) EXCEPT !.at = "lib"]))]
  /\ UNCHANGED <<ncase, dir, plex, mishap>>

Displacing(n) ==
  IF Taken(n) THEN [mishap EXCEPT !.replaced = @ \cup {dir[n]}] ELSE mishap

\* _atomic_move, long after the name was looked at when it copies to another filesystem.
MoveOutput(r) ==
  /\ Works(r, "move")
  /\ dir' = Replacing(Job(r)) /\ mishap' = Displacing(Job(r).dst)
  /\ rn' = [rn EXCEPT ![r].pc = "subtitles", ![r].todo = ncase.converts[r].subtitles,
                      ![r].results = <<[new |-> Job(r).dst, inode |-> dir[Job(r).src]]>>]
  /\ UNCHANGED <<ncase, plex>>

\* The extracted subtitles by the names they were extracted to; older copies are replaced.
MoveSubtitle(r, n) ==
  /\ Works(r, "subtitles") /\ n \in rn[r].todo
  /\ LET lib == [n EXCEPT !.at = "lib"] IN
       \/ Taken(n) /\ dir' = Replacing(Pair(n, lib)) /\ mishap' = Displacing(lib)
       \/ ~Taken(n) /\ UNCHANGED <<dir, mishap>>
  /\ rn' = [rn EXCEPT ![r].todo = @ \ {n}]
  /\ UNCHANGED <<ncase, plex>>

EndSubtitles(r) ==
  /\ Works(r, "subtitles") /\ rn[r].todo = {}
  /\ GoesTo(r, "tell") /\ UNCHANGED <<ncase, dir, plex, mishap>>

-----------------------------------------------------------------------------
(* update_plexmatch, for each file that was renamed or converted.          *)

Untold(r) == rn[r].told < Len(rn[r].results)
NextTold(r) == rn[r].results[rn[r].told + 1]

\* Nothing is written of a file of which only the type is known, or if it is disabled.
Skip(r) ==
  /\ Works(r, "tell") /\ Untold(r) /\ ~ncase.media[NextTold(r).inode].known
  /\ rn' = [rn EXCEPT ![r].told = @ + 1] /\ UNCHANGED <<ncase, dir, plex, mishap>>

ReadPlex(r) ==
  /\ Works(r, "tell") /\ Untold(r) /\ ncase.media[NextTold(r).inode].known
  /\ rn' = [rn EXCEPT ![r].pc = "empty", ![r].read = Parsed]
  /\ UNCHANGED <<ncase, dir, plex, mishap>>

\* open(path, "w").
EmptyPlex(r) ==
  /\ Works(r, "empty") /\ GoesTo(r, "write")
  /\ plex' = Unwritten /\ UNCHANGED <<ncase, dir, mishap>>

WritePlex(r) ==
  /\ Works(r, "write")
  /\ plex' = Entered(rn[r].read, ncase.media[NextTold(r).inode], NextTold(r).new)
  /\ rn' = [rn EXCEPT ![r].pc = "tell", ![r].told = @ + 1, ![r].read = Unwritten]
  /\ UNCHANGED <<ncase, dir, mishap>>

EndTelling(r) ==
  /\ Works(r, "tell") /\ ~Untold(r)
  /\ GoesTo(r, "done") /\ UNCHANGED <<ncase, dir, plex, mishap>>

KillRenamer(r) ==
  /\ ncase.kill /\ ~mishap.kill /\ rn[r].pc # "done"
  /\ GoesTo(r, "done") /\ mishap' = [mishap EXCEPT !.kill = TRUE]
  /\ UNCHANGED <<ncase, dir, plex>>

RenamingNext ==
  \E r \in Renamer :
    \/ \E n \in DOMAIN dir : Visit(r, n)
    \/ \E n \in rn[r].todo : NextSidecar(r, n) \/ MoveSubtitle(r, n)
    \/ EndWalk(r) \/ NameOutput(r) \/ EndSidecars(r)
    \/ Link(r) \/ Unlink(r) \/ Placeholder(r) \/ RenameOver(r) \/ Tidy(r)
    \/ Resolve(r) \/ MoveOutput(r) \/ EndSubtitles(r)
    \/ Skip(r) \/ ReadPlex(r) \/ EmptyPlex(r) \/ WritePlex(r) \/ EndTelling(r)
    \/ KillRenamer(r)

-----------------------------------------------------------------------------
AtRest == \A r \in Renamer : rn[r].pc = "done"
NamesOf(i) == {n \in DOMAIN dir : dir[n] = i}
Library == Range(ncase.files)
Writers == ncase.tools \cup DOMAIN ncase.converts

\* The one medium that a subtitle file of the library belongs to by its name.
Owners(s) == {m \in MediaIn(ncase.files, s.at) : s \in Sidecars(m, ncase.files)}

\* Two media lay claim to a subtitle file, or one is to get the name that another has.
Tangled ==
  \/ \E s \in DOMAIN ncase.files : IsSubtitle(s) /\ Cardinality(Owners(s)) > 1
  \/ \E m, n \in MediaIn(ncase.files, "lib") :
       m # n /\ ncase.media[ncase.files[m]].name = n.stem

\* Then several processes may mix subtitles up, and one alone if two media share a stem.
Alone == Cardinality(Writers) = 1
Twins == \E m, n \in MediaIn(ncase.files, "lib") : m # n /\ m.stem = n.stem

\* It goes by the medium's name, unless something else is called that.
Beside(s, m) ==
  \A n \in NamesOf(ncase.files[m]) :
    LET due == IF n = m THEN s ELSE [s EXCEPT !.stem = n.stem \o Suffix(s, m.stem)] IN
    Taken(due)

\* Who works alone leaves every episode of a file it renamed under the file's new name,
\* unless there was a movie among them, whose .plexmatch has no episodes.
ToldOf(r, k) == {e \in ncase.media[rn[r].results[k].inode].episodes :
                  ncase.media[rn[r].results[k].inode].known /\ k <= rn[r].told}
Movie(r) == \E k \in DOMAIN rn[r].results : ncase.media[rn[r].results[k].inode].episodes = {}
Listed ==
  \A r \in Writers : ~Movie(r) => \A k \in DOMAIN rn[r].results : \A e \in ToldOf(r, k) :
    /\ e \in DOMAIN Parsed.episodes /\ Taken(Parsed.episodes[e])
    /\ \E l \in DOMAIN rn[r].results :
         e \in ToldOf(r, l) /\ Parsed.episodes[e] = rn[r].results[l].new

\* However many processes rename the files of a directory, each medium to the same name
\* by whoever asks, and wherever one is killed: no medium loses its last name, and none is
\* put in another's place but by a conversion's restore (which, where there are no hard
\* links, may replace a placeholder: nothing is promised then).  Nor do subtitles, unless
\* tangled.  Without a kill each file ends up with one name, no placeholder is left,
\* a subtitle file that belongs to one medium is called as it is, and .plexmatch is true.
RenamesSound ==
  Blank \notin mishap.replaced =>
  /\ \A i \in Library : \/ NamesOf(i) # {} \/ i \in mishap.replaced
                        \/ Tangled /\ ~Alone /\ i \notin DOMAIN ncase.media
  /\ AtRest /\ ~mishap.kill =>
       /\ \A i \in Library \ mishap.replaced : Cardinality(NamesOf(i)) = 1 \/ (Tangled /\ ~Alone)
       /\ NamesOf(Blank) = {}
       /\ ~Tangled \/ (Alone /\ ~Twins) =>
            \A s \in DOMAIN ncase.files : IsSubtitle(s) /\ s.at = "lib" =>
              \A m \in Owners(s) : Owners(s) = {m} => Beside(s, m)
       /\ Alone => Listed

\* metadata.py: .plexmatch accumulates the episodes.  What a process has told is there.
MappingsAccumulate ==
  AtRest /\ ~mishap.kill =>
    \A r \in Renamer : \A k \in 1 .. rn[r].told :
      ToldOf(r, k) \subseteq DOMAIN Parsed.episodes

\* _parse_plexmatch: all other hint lines survive a round trip.
HintsSurvive ==
  AtRest /\ ~mishap.kill /\ ncase.plex # NoPlex => ncase.plex.other \subseteq Parsed.other

\* The subtitles extracted for a conversion come to the library with it.
SidecarsArrive ==
  AtRest /\ ~mishap.kill =>
    \A r \in DOMAIN ncase.converts : \A s \in ncase.converts[r].subtitles :
      \A n \in NamesOf(ncase.files[s]) : n.at = "lib"

=============================================================================
