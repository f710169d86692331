---------------------------- MODULE SubtitlePlan ----------------------------
(***************************************************************************)
(* Which subtitles a conversion embeds, which it extracts, and which files *)
(* it removes afterwards (_build_subtitle_settings and what it calls in    *)
(* resources/mediaprocessor.py, resources/subtitles.py, and the ends of    *)
(* process and processFile).  The files of a directory are converted by    *)
(* one MediaProcessor, whose deletesubs outlives the file it was filled    *)
(* for.                                                                    *)
(*                                                                         *)
(* A subtitle has a language, a form (text, image, or corrupt when the     *)
(* test conversion breaks), a codec by its ffprobe name, and flags.  What  *)
(* titles and file names say about language and flags has been read.       *)
(* Custom hooks are absent, encodings and titles left out; sorting the     *)
(* outputs permutes them as in AudioPlan, the burn filter is in VideoPlan. *)
(***************************************************************************)
EXTENDS Sequences, Integers, FiniteSets, SequencesExt

CONSTANTS
  Batches,            \* what is converted: sequences of sources
  SubtitleSettings,   \* the settings to plan under
  UndefinedLang,      \* BaseCodec.UNDEFINED
  UnsetLang,          \* no language configured
  NoCodec,            \* the stream is skipped
  NoFile              \* the subtitle comes from the source itself

VARIABLES
  todo, sset,         \* the sources left to convert, the first being planned; the settings
  sstage,             \* the loop or step that is next
  snext,              \* the stream or file the loop is at
  blockedSubs, seenSubs,   \* blocked_subtitle_languages, blocked_subtitle_dispositions
  sout,               \* subtitle_settings: the streams to embed
  ripopts,            \* ripsubopts: the streams to extract
  external,           \* valid_external_subs
  spoiled,            \* history: streams extracted for cleaning into an unusable file
  deletesubs,         \* the subtitle files to remove
  carried, removed    \* history: subtitle files that are in a written output, and removed ones

planVars == <<sstage, snext, blockedSubs, seenSubs, sout, ripopts, external, spoiled>>
subtitleVars == <<todo, sset, planVars, deletesubs, carried, removed>>

src == todo[1]

Within(x, s) == \E i \in DOMAIN s : s[i] = x

-----------------------------------------------------------------------------
(* safeLanguage: the default language for untagged streams, and no language *)
(* filter when no embedded stream would pass it.                           *)

AddsOriginal == sset.original # UnsetLang /\ sset.langs # <<>> /\ ~Within(sset.original, sset.langs)

DefaultLang == IF AddsOriginal /\ sset.sdl = UnsetLang THEN sset.original ELSE sset.sdl

SubLang(s) == IF s.lang = UndefinedLang /\ DefaultLang # UnsetLang THEN DefaultLang ELSE s.lang

AllLangs == IF AddsOriginal THEN Append(sset.langs, sset.original) ELSE sset.langs

swl ==
  IF \E i \in DOMAIN src.streams : /\ Within(SubLang(src.streams[i]), AllLangs)
                                   /\ src.streams[i].flags \cap sset.ignored = {}
  THEN AllLangs ELSE <<>>

-----------------------------------------------------------------------------
(* _select_subtitle_codec and _subtitle_passes_filter                      *)

TextOnly  == {"mov_text", "subrip", "ass", "webvtt"}
Mp4Codecs == {"mov_text", "dvd_subtitle"}

NeedsOCR(s, codec) == s.form = "image" /\ codec # "copy" /\ codec \in TextOnly

\* The first candidate an MP4 can hold; text can always become mov_text.
Mp4Safe(s, chosen, pool) ==
  LET holds(codec) == /\ ~NeedsOCR(s, codec)
                      /\ (IF codec = "copy" THEN s.codec ELSE codec) \in Mp4Codecs
      some == SelectSeq(<<chosen>> \o SelectSeq(pool, LAMBDA c : c # chosen), holds) IN
  IF some # <<>> THEN some[1] ELSE IF s.form = "image" THEN NoCodec ELSE "mov_text"

\* For embedding, or for extraction of what is not embedded.
SelectCodec(s, embed) ==
  LET pool    == IF s.form = "image" THEN sset.imagePool ELSE sset.textPool
      enabled == (IF s.form = "image" THEN sset.embedImages ELSE sset.embed) = embed
      chosen  == IF Within(s.codec, pool) THEN "copy" ELSE pool[1] IN
  IF ~enabled \/ pool = <<>> THEN NoCodec
  ELSE IF embed /\ sset.mp4 THEN Mp4Safe(s, chosen, pool)
  ELSE IF NeedsOCR(s, chosen) THEN NoCodec ELSE chosen

HI == "hearing_impaired"

\* Subtitles for the hard of hearing are ignored only where there are others.
IgnoredFlags(count) == IF count > 1 THEN sset.ignored ELSE sset.ignored \ {HI}

ForcedIn(s) == sset.forceDefault /\ "default" \in s.flags

LangPasses(s) ==
  /\ swl # <<>> => Within(SubLang(s), swl)
  /\ "forced" \in s.flags \/ SubLang(s) \notin blockedSubs

FlagsPass(s, count) == s.flags \cap IgnoredFlags(count) = {}

SubProfile(s) == <<SubLang(s), s.flags>>

PassesFilter(s, count) ==
  \/ ForcedIn(s)
  \/ /\ LangPasses(s) /\ FlagsPass(s, count)
     /\ sset.unique => SubProfile(s) \notin seenSubs

Seen(s) == IF sset.unique /\ ~ForcedIn(s) THEN seenSubs \cup {SubProfile(s)} ELSE seenSubs

\* Slip: a forced stream uses its language up like any other.
BlockedBySlip(s) == IF sset.firstOfLang THEN {SubLang(s)} ELSE {}

BlockedBy(s) == IF sset.firstOfLang /\ "forced" \notin s.flags THEN {SubLang(s)} ELSE {}

Embedded(s, codec, file) ==
  [codec |-> codec, lang |-> SubLang(s), flags |-> s.flags, form |-> s.form, from |-> s.codec,
   file |-> file]

-----------------------------------------------------------------------------
(* The embedded streams (_process_subtitle_stream).                        *)

StreamAt == src.streams[snext]

AtStream == sstage = "streams" /\ snext <= Len(src.streams) /\ ~sset.ignoreEmbedded

TakenAt == AtStream /\ PassesFilter(StreamAt, Len(src.streams))

NextStream == snext' = snext + 1 /\ UNCHANGED <<todo, sset, sstage, deletesubs, carried, removed>>

PlanNothing == UNCHANGED <<blockedSubs, sout, ripopts, external, spoiled>>

RefuseStream ==
  /\ AtStream /\ ~PassesFilter(StreamAt, Len(src.streams))
  /\ PlanNothing /\ UNCHANGED seenSubs /\ NextStream

\* A corrupt stream, or one no codec may carry, still counts as seen.
SkipStream ==
  /\ TakenAt
  /\ \/ StreamAt.form = "corrupt"
     \/ SelectCodec(StreamAt, TRUE) = NoCodec /\ SelectCodec(StreamAt, FALSE) = NoCodec
  /\ seenSubs' = Seen(StreamAt)
  /\ PlanNothing /\ NextStream

Embeddable == TakenAt /\ StreamAt.form # "corrupt" /\ SelectCodec(StreamAt, TRUE) # NoCodec

Cleaned == StreamAt.form = "text" /\ sset.clean

\* Text is extracted first, to be cleaned or synchronised and taken up again as an
\* external file.  It does not use its language up yet.
RipToClean ==
  /\ Embeddable /\ Cleaned
  /\ seenSubs' = Seen(StreamAt)
  /\ \/ /\ external' = Append(external, [lang |-> SubLang(StreamAt), form |-> "text", name |-> NoFile,
                                         codec |-> "subrip", flags |-> StreamAt.flags])
        /\ UNCHANGED spoiled
     \/ spoiled' = spoiled \cup {snext} /\ UNCHANGED external
  /\ UNCHANGED <<blockedSubs, sout, ripopts>>
  /\ NextStream

\* Without cleaning, or when the extraction failed.
EmbedStream ==
  /\ Embeddable
  /\ sout' = Append(sout, Embedded(StreamAt, SelectCodec(StreamAt, TRUE), NoFile))
  /\ seenSubs' = Seen(StreamAt) /\ blockedSubs' = blockedSubs \cup BlockedBy(StreamAt)
  /\ UNCHANGED <<ripopts, external, spoiled>>
  /\ NextStream

ExtractStream ==
  /\ TakenAt /\ StreamAt.form # "corrupt"
  /\ SelectCodec(StreamAt, TRUE) = NoCodec /\ SelectCodec(StreamAt, FALSE) # NoCodec
  /\ ripopts' = Append(ripopts, Embedded(StreamAt, SelectCodec(StreamAt, FALSE), NoFile))
  /\ seenSubs' = Seen(StreamAt) /\ blockedSubs' = blockedSubs \cup BlockedBy(StreamAt)
  /\ UNCHANGED <<sout, external, spoiled>>
  /\ NextStream

-----------------------------------------------------------------------------
(* The files beside the source (downloadSubtitles, scanForExternalSubs,    *)
(* _process_external_sub).                                                 *)

\* In the order of the language list; a copy made for cleaning, whose name is
\* numbered, after the files of its language.
LangPlace(s) == IF Within(SubLang(s), swl) THEN CHOOSE i \in DOMAIN swl : swl[i] = SubLang(s) ELSE 999

InLangOrder(files) ==
  FlattenSeq([i \in 1 .. Len(swl) + 1 |->
    SelectSeq(files, LAMBDA f : LangPlace(f) = IF i <= Len(swl) THEN i ELSE 999)])

Candidate(f) == (swl # <<>> => Within(SubLang(f), swl)) \/ ForcedIn(f)

\* The languages a download looks for and the source does not have.
Missing ==
  (ToSet(swl) \cup ({DefaultLang} \ {UnsetLang})) \
    (IF sset.ignoreEmbedded THEN {} ELSE {SubLang(src.streams[i]) : i \in DOMAIN src.streams})

Downloaded(langs) ==
  SetToSeq({[lang |-> l, form |-> "text", name |-> <<src.name, l>>, codec |-> "subrip", flags |-> {}] :
              l \in langs})

ScanFiles ==
  /\ sstage = "streams" /\ (sset.ignoreEmbedded \/ snext > Len(src.streams))
  /\ sstage' = "files" /\ snext' = 1
  /\ \E langs \in IF sset.download THEN SUBSET Missing ELSE {{}} :
       external' = IF sset.internalOnly THEN external
                   ELSE InLangOrder(SelectSeq(src.files \o Downloaded(langs), Candidate) \o external)
  /\ UNCHANGED <<todo, sset, blockedSubs, seenSubs, sout, ripopts, spoiled, deletesubs, carried, removed>>

FileAt == external[snext]

AtFile == sstage = "files" /\ snext <= Len(external)

SubCount == Len(src.streams) + Len(external)

Importable == AtFile /\ FileAt.form # "corrupt" /\ SelectCodec(FileAt, TRUE) # NoCodec

SkipFile ==
  /\ AtFile
  /\ ~(Importable /\ PassesFilter(FileAt, SubCount))
  /\ snext' = snext + 1
  /\ UNCHANGED <<todo, sset, sstage, blockedSubs, seenSubs, sout, ripopts, external, spoiled,
                 deletesubs, carried, removed>>

ImportFile ==
  /\ Importable /\ PassesFilter(FileAt, SubCount)
  /\ sout' = Append(sout, Embedded(FileAt, SelectCodec(FileAt, TRUE), FileAt.name))
  /\ seenSubs' = Seen(FileAt) /\ blockedSubs' = blockedSubs \cup BlockedBy(FileAt)
  /\ deletesubs' = deletesubs \cup ({FileAt.name} \ {NoFile})
  /\ snext' = snext + 1
  /\ UNCHANGED <<todo, sset, sstage, ripopts, external, spoiled, carried, removed>>

\* setDefaultSubtitleStream: only where no default was inherited.
SetSubtitleDefault ==
  /\ sstage = "files" /\ snext > Len(external)
  /\ sstage' = "planned"
  /\ LET matches == {i \in DOMAIN sout : sout[i].lang = DefaultLang} IN
     sout' = IF /\ sset.forceDefault /\ DefaultLang # UnsetLang /\ matches # {}
                /\ \A i \in DOMAIN sout : "default" \notin sout[i].flags
             THEN [sout EXCEPT ![CHOOSE i \in matches : \A j \in matches : i <= j].flags = @ \cup {"default"}]
             ELSE sout
  /\ UNCHANGED <<todo, sset, snext, blockedSubs, seenSubs, ripopts, external, spoiled,
                 deletesubs, carried, removed>>

-----------------------------------------------------------------------------
(* The conversion and what follows it: process, processFile, _cleanup_input, *)
(* walkDir.                                                                *)

Start(sources) ==
  /\ todo = sources
  /\ sstage = "streams" /\ snext = 1 /\ blockedSubs = {} /\ seenSubs = {}
  /\ sout = <<>> /\ ripopts = <<>> /\ external = <<>> /\ spoiled = {}

ForgetPlan ==
  /\ todo' = Tail(todo)
  /\ sstage' = "streams" /\ snext' = 1 /\ blockedSubs' = {} /\ seenSubs' = {}
  /\ sout' = <<>> /\ ripopts' = <<>> /\ external' = <<>> /\ spoiled' = {}

\* Next to an output that went through output-directory and back the files are
\* removed whatever delete-original says.
Clean(delete) ==
  IF delete \/ (sset.outputDir /\ ~sset.moveTo)
  THEN removed' = removed \cup deletesubs /\ deletesubs' = {}
  ELSE UNCHANGED <<removed, deletesubs>>

\* canBypassConvert: the source is the output, or is copied into output-directory;
\* a copy that fails keeps the original.
Bypass ==
  /\ sstage = "planned" /\ src.asIs
  /\ \E copied \in BOOLEAN : Clean(sset.delete /\ sset.outputDir /\ copied)
  /\ ForgetPlan /\ UNCHANGED <<sset, carried>>

Convert ==
  /\ sstage = "planned" /\ ~src.asIs
  /\ carried' = carried \cup ({sout[i].file : i \in DOMAIN sout} \ {NoFile})
  /\ Clean(sset.delete)
  /\ ForgetPlan /\ UNCHANGED sset

\* Nothing is cleaned up; walkDir goes on with the next file.
FailConversion ==
  /\ sstage = "planned" /\ ~src.asIs
  /\ ForgetPlan /\ UNCHANGED <<sset, deletesubs, carried, removed>>

SubtitleStart(batches, settings) ==
  /\ \E batch \in batches : Start(batch)
  /\ sset \in settings
  /\ deletesubs = {} /\ carried = {} /\ removed = {}

SubtitleInit == SubtitleStart(Batches, SubtitleSettings)

SubtitleNext ==
  /\ todo # <<>>
  /\ \/ RefuseStream \/ SkipStream \/ RipToClean \/ EmbedStream \/ ExtractStream
     \/ ScanFiles \/ SkipFile \/ ImportFile \/ SetSubtitleDefault
     \/ Bypass \/ Convert \/ FailConversion

SubtitleSpec == SubtitleInit /\ [][SubtitleNext]_subtitleVars

-----------------------------------------------------------------------------
(* Properties.                                                             *)

SubtitlesPlanned == todo # <<>> /\ sstage = "planned"

PlannedSubs == ToSet(sout) \cup ToSet(ripopts)

\* first-stream-of-language: embedded streams, extracted ones and files share one
\* list of languages, and forced subtitles do not count.
OneSubtitlePerLanguage ==
  sset.firstOfLang /\ ~sset.forceDefault =>
    \A i, j \in DOMAIN (sout \o ripopts) :
      LET s == (sout \o ripopts)[i] t == (sout \o ripopts)[j] IN
      s.lang = t.lang /\ "forced" \notin s.flags \cup t.flags => i = j

\* The muxer takes every planned stream, and no picture is asked to become text.
Muxable ==
  \A s \in ToSet(sout) :
    /\ sset.mp4 => (IF s.codec = "copy" THEN s.from ELSE s.codec) \in Mp4Codecs
    /\ s.form = "image" => s.codec = "copy" \/ s.codec \notin TextOnly

\* A viewer finds subtitles in every language the settings allow, full ones and forced
\* ones: cleaning, blocking and containers take the one away only where another
\* of the language stays.  (unique-dispositions with cleaning is not so kind.)
LanguageServed ==
  ~sset.ignoreEmbedded /\ sset.textPool # <<>> /\ ~(sset.unique /\ sset.clean) =>
    \A i \in DOMAIN src.streams \ spoiled :
      LET s == src.streams[i] IN
      /\ s.form = "text" /\ s.flags \cap sset.ignored = {}
      /\ swl # <<>> => Within(SubLang(s), swl)
      => \E p \in PlannedSubs : /\ p.lang = SubLang(s)
                                /\ "forced" \in p.flags <=> "forced" \in s.flags

\* force-default leaves a default in the default language when nothing inherited one.
DefaultGiven ==
  sset.forceDefault /\ (\E s \in ToSet(sout) : s.lang = DefaultLang) =>
    \E s \in ToSet(sout) : "default" \in s.flags

\* No combination of rules plans subtitles that cannot be written or drops a language.
SubtitlesSound ==
  SubtitlesPlanned => OneSubtitlePerLanguage /\ Muxable /\ LanguageServed /\ DefaultGiven

\* "scheduling the external subtitle file for deletion after embedding"
\* (_process_external_sub): a removed file is in an output.
RemovedAfterEmbedding == removed \subseteq carried

\* "subtitles for non-whitelisted languages are ignored" (docs/getting-started.md,
\* External Subtitles): unless it is a default that is forced in.
WhitelistedOnly ==
  SubtitlesPlanned /\ AllLangs # <<>> =>
    \A s \in ToSet(sout) : s.file # NoFile => Within(s.lang, AllLangs) \/ ForcedIn(s)

=============================================================================
