------------------------------ MODULE NamePlan ------------------------------
(***************************************************************************)
(* How a file gets its name: what kind of media it is taken for, which     *)
(* episode TMDB and Sonarr say it is, and which template names it.  Two    *)
(* programs do it: "rename" (rename.py, RenameProcessor) for files as they *)
(* are, and "convert" (manual.py, processFile) for what it has converted.  *)
(* The name is then given to the file, and may be worked out again later.  *)
(*                                                                         *)
(* Of a name the model keeps what identifies the episode: a number and     *)
(* where it came from, an air date, a title.  Quality, codecs and the      *)
(* replacement of template tokens one by one are left out, and so are      *)
(* files of several episodes.                                              *)
(***************************************************************************)
EXTENDS Naturals, Sequences, TLC

CONSTANTS
  NameSources,   \* the files looked at, with the command's arguments
  NameWorlds     \* what TMDB, Sonarr and Radarr know of them

VARIABLES
  nsrc,     \* the file's name and place
  nworld,   \* (never changes)
  nstage,   \* what runs next
  nmeta,    \* the metadata of TMDB: tagdata
  names     \* the names worked out so far, NoName for none

nameVars == <<nsrc, nworld, nstage, nmeta, names>>

NoName == [form |-> "none"]

\* An episode number is the one "asked" for by the arguments or the name the file came
\* with, the one TMDB has for the date ("bydate"), the one the "arr" says, or "zero".
Meta(kind, number, title, dated, substituted) ==
  [kind |-> kind, number |-> number, title |-> title, dated |-> dated, substituted |-> substituted]

NoMeta == Meta("none", "zero", "", FALSE, FALSE)

\* A stand-in that knows the kind only.
Stub(kind) == Meta(kind, "zero", "", FALSE, FALSE)

-----------------------------------------------------------------------------
(* Which kind of media.                                                    *)

\* rename.py: the nearest telling directory, a date, or a season and an episode.
Inferred ==
  IF nsrc.place # "plain" THEN nsrc.place
  ELSE IF nsrc.date \/ nsrc.number # "zero" THEN "tv" ELSE "movie"

RenamedKind ==
  IF nsrc.hint # "none" THEN nsrc.hint
  ELSE IF nsrc.args THEN "tv" ELSE Inferred

\* guessit, unless the hint forces its type.
GuessedKind ==
  IF nsrc.hint # "none" THEN nsrc.hint
  ELSE IF nsrc.date \/ nsrc.number # "zero" THEN "tv" ELSE "movie"

-----------------------------------------------------------------------------
(* What TMDB says.                                                         *)

Title(number) == IF nworld.titled THEN "real" ELSE IF number = "zero" THEN "" ELSE "placeholder"

\* TMDB has what it found itself, no episode 0, and what was asked for if it numbers
\* the show as the file does.
HasNumber(number) ==
  CASE number = "bydate" -> TRUE [] number = "zero" -> FALSE [] OTHER -> nworld.byNumber

\* Metadata.__init__ of an episode: by its number, else by the air date in the name of
\* the original, which may move it; else a placeholder.
Episode(number, original) ==
  IF HasNumber(number) THEN Meta("tv", number, Title(number), TRUE, FALSE)
  ELSE IF original /\ nsrc.date /\ nworld.byDate THEN
    Meta("tv", "bydate", Title("bydate"), TRUE, TRUE)
  ELSE Meta("tv", number, IF number = "zero" THEN "" ELSE "placeholder",
            original /\ nsrc.date, FALSE)

Movie == Meta("movie", "zero", "real", TRUE, FALSE)

\* _lookup_tmdb_tv: the number in the arguments, or the one that aired on the date; the
\* number in the file's name is not looked at.
LookedUp ==
  IF ~nworld.up \/ ~nworld.known THEN Stub("tv")
  ELSE IF nsrc.args THEN Episode("asked", TRUE)
  ELSE IF nsrc.date /\ nworld.byDate THEN
    [Episode("bydate", TRUE) EXCEPT !.substituted = TRUE]
  ELSE Stub("tv")

\* _resolve_metadata.
ForRename ==
  LET kind == RenamedKind IN
  IF nsrc.ids # "none" THEN
    IF (kind = "tv" /\ ~nsrc.args) \/ ~nworld.up THEN Stub(kind)
    ELSE IF kind = "tv" THEN Episode("asked", FALSE) ELSE Movie
  ELSE IF kind = "tv" THEN LookedUp ELSE Stub("movie")

\* guessInfo with tvInfo and movieInfo: nothing without a match.
ForConversion ==
  IF ~nworld.up \/ (nsrc.ids # "args" /\ ~nworld.known) THEN NoMeta
  ELSE IF GuessedKind = "movie" THEN Movie
  ELSE Episode(IF nsrc.args THEN "asked" ELSE nsrc.number, TRUE)

Identify ==
  /\ nstage = "identify"
  /\ nmeta' = (IF nsrc.program = "rename" THEN ForRename ELSE ForConversion)
  /\ nstage' = (IF nsrc.program = "rename" THEN "name" ELSE "convert")
  /\ UNCHANGED <<nsrc, nworld, names>>

\* processFile after the conversion: without a tagging language the metadata is fetched
\* again in the language of the default track, by the number found the first time and,
\* unless --original named the release, without the file's name.
Refetched(meta) == Episode(meta.number, FALSE)

Converted ==
  /\ nstage = "convert"
  /\ nmeta' = (IF nsrc.refetch /\ nmeta.kind = "tv" THEN Refetched(nmeta) ELSE nmeta)
  /\ nstage' = "name"
  /\ UNCHANGED <<nsrc, nworld, names>>

-----------------------------------------------------------------------------
(* generate_name.                                                          *)

\* NamingData.from_tagdata: nothing is known of the series' type yet.
FromTagdata(meta) == [type |-> ""] @@ meta

\* What the matching Sonarr or Radarr's parse call adds: one that answers but does not
\* know the file adds nothing, and is a success all the same.
Enriched(data) ==
  CASE data.kind = "tv" /\ nworld.listed ->
         [data EXCEPT !.type = nworld.series, !.number = "arr", !.title = "real",
                      !.dated = @ \/ nworld.airs]
    [] data.kind = "tv" /\ ~nworld.listed /\ nworld.series # "unknown" ->
         [data EXCEPT !.type = nworld.series]
    [] data.kind = "movie" /\ nworld.radarr -> [data EXCEPT !.title = "real"]
    [] OTHER -> data

\* Slip: an episode moved by its air date keeps the standard template.
IsAirdateSlip(data) ==
  /\ data.kind = "tv"
  /\ \/ data.number = "zero" \/ data.type = "daily"
     \/ data.type = "" /\ data.title = "placeholder" /\ nsrc.date

\* The numbering schemes disagree, or nobody can number the episode.
IsAirdate(data) ==
  /\ data.kind = "tv"
  /\ \/ data.number = "zero" \/ data.type = "daily" \/ data.substituted
     \/ data.type = "" /\ data.title = "placeholder" /\ nsrc.date

\* apply_template: a token without a value is left blank.
Rendered(form, number, title) == [form |-> form, number |-> number, title |-> title]

\* A placeholder title is not put into a name by date; without any date there is none.
NameOf(data) ==
  CASE data.kind = "none" -> NoName
    [] IsAirdate(data) /\ (data.dated \/ nsrc.date) ->
         Rendered("dated", "none", IF data.title = "real" THEN "real" ELSE "")
    [] IsAirdate(data) /\ ~data.dated /\ ~nsrc.date -> NoName
    [] data.kind = "movie" -> Rendered("movie", "none", data.title)
    [] OTHER -> Rendered("numbered", data.number, data.title)

\* rename_file: the file is now called so.
Called(name) ==
  IF name = NoName THEN nsrc
  ELSE [nsrc EXCEPT !.date = name.form = "dated",
                    !.number = IF name.form = "numbered" THEN name.number ELSE "zero",
                    !.ids = IF @ = "name" THEN "none" ELSE @]

Name ==
  /\ nstage = "name"
  /\ LET name == NameOf(Enriched(FromTagdata(nmeta))) IN names' = Append(names, name) /\ nsrc' = Called(name)
  /\ nstage' = "done"
  /\ UNCHANGED <<nworld, nmeta>>

\* rename.py over the library, later: again, or while its walk still lists the directory.
Again ==
  /\ nstage = "done" /\ Len(names) < 2
  /\ nsrc' = [nsrc EXCEPT !.program = "rename"]
  /\ nstage' = "identify"
  /\ UNCHANGED <<nworld, nmeta, names>>

NameStart(sources, worlds) ==
  /\ nsrc \in sources /\ nworld \in worlds
  /\ nstage = "identify" /\ nmeta = NoMeta /\ names = <<>>

NameInit == NameStart(NameSources, NameWorlds)
NameNext == Identify \/ Converted \/ Name \/ Again

-----------------------------------------------------------------------------
Named == {i \in DOMAIN names : names[i] # NoName}

\* An episode is only numbered by a number its library can find it by again: the one it
\* was asked under or the arr's, never TMDB's own, and never when the series is daily
\* (without the second fetch, which forgets how the number was found).  A name by air
\* date stays one when worked out again, unless the arr affirms a number.  And no file
\* loses its only number or title, but movies that rename.py cannot look up.
NamesSound ==
  /\ \A i \in Named :
       /\ names[i].form = "numbered" =>
            /\ names[i].number \in {"asked", "arr"} \/ nsrc.refetch
            /\ nworld.series # "daily"
       /\ names[i].form = "movie" /\ names[i].title = "" =>
            (i = 2 \/ nsrc.program = "rename") /\ ~nworld.radarr
  /\ Named = {1, 2} /\ names[1].form = "dated" /\ names[2].form = "numbered" =>
       nworld.series = "standard" \/ nworld.listed

\* docs/configuration.md on tv-airdate-template: it is used when "the episode number had
\* to be recovered by air-date matching".
RecoveredAreDated ==
  \A i \in Named : names[i].form = "numbered" => names[i].number # "bydate"

=============================================================================
