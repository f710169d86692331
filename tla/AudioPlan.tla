----------------------------- MODULE AudioPlan -----------------------------
(***************************************************************************)
(* Which audio streams a conversion writes, in which order, and which of   *)
(* them is the default (safeLanguage, _build_audio_settings,               *)
(* _process_audio_stream and what it calls in                              *)
(* resources/mediaprocessor.py): the streams of a source are taken one by  *)
(* one, and what one of them leaves behind (a blocked language, a seen     *)
(* disposition, the universal stream already made) decides the next.       *)
(*                                                                         *)
(* A stream has a language, channels, a codec by its ffprobe name, the     *)
(* flags it carries, and a bitrate, 0 when the source does not tell it.    *)
(* Custom hooks are absent, sample rates and filters are the one question  *)
(* whether they forbid a copy, and titles are left out.                    *)
(***************************************************************************)
EXTENDS Integers, Sequences, FiniteSets, TLC, SequencesExt

CONSTANTS
  AudioSources,    \* source files: sequences of streams
  AudioSettings,   \* the settings to plan under
  Undefined,       \* BaseCodec.UNDEFINED, the language of an untagged stream
  Unset            \* no language configured

VARIABLES
  asrc, aset,      \* the source and the settings (never change)
  awl, combos,     \* allowed languages and combinations, computed before the loop (never change)
  astage,          \* which loop or step of _build_audio_settings is next
  anext,           \* the stream the loop is at
  allowUA,         \* allowua
  blockedLangs, seenFlags,   \* blocked_audio_languages, blocked_audio_dispositions
  aout,            \* audio_settings: the output streams so far
  accepted         \* history: the streams that passed the filters

audioPlanned == <<asrc, aset, awl, combos>>

audioVars == <<asrc, aset, awl, combos, astage, anext, allowUA, blockedLangs, seenFlags, aout, accepted>>

ToSetOf(s) == {s[i] : i \in DOMAIN s}

Least(a, b) == IF a <= b THEN a ELSE b

-----------------------------------------------------------------------------
(* safeLanguage: languages made safe, and the filter relaxed when nothing  *)
(* would pass it.                                                          *)

\* include-original-language
WithOriginal ==
  aset.original # Unset /\ aset.langs # <<>> /\ aset.original \notin ToSetOf(aset.langs)

Langs == IF WithOriginal THEN Append(aset.langs, aset.original) ELSE aset.langs

Preferred ==
  IF WithOriginal /\ aset.prefer = Unset THEN aset.original ELSE aset.prefer

\* Untagged streams take the preferred language.
LangOf(a) == IF a.lang = Undefined /\ Preferred # Unset THEN Preferred ELSE a.lang

ValidFlags(a) == a.flags \cap aset.ignored = {}

Allowed ==
  IF \E i \in DOMAIN asrc : LangOf(asrc[i]) \in ToSetOf(Langs) /\ ValidFlags(asrc[i])
  THEN Langs ELSE <<>>

-----------------------------------------------------------------------------
(* _process_audio_stream                                                   *)

\* A stream's place in "existing": language and dispositions.
Profiled(a) == <<LangOf(a), a.flags>>

Forced(a) == aset.forceDefault /\ "default" \in a.flags

\* The filters; the second loop passes an empty language list and empty blocklists.
Accepts(a) ==
  \/ Forced(a)
  \/ /\ astage = "strict" /\ awl # <<>> => LangOf(a) \in ToSetOf(awl)
     /\ LangOf(a) \notin blockedLangs
     /\ ValidFlags(a)
     /\ aset.unique => Profiled(a) \notin seenFlags

\* universal-audio makes the one stream of a stereo source itself.
AsUniversal(a) == allowUA /\ a.ch <= 2

PoolFor(a) == IF AsUniversal(a) THEN aset.uaPool ELSE aset.pool

TooManyChannels(a) == ~AsUniversal(a) /\ aset.maxCh > 0 /\ a.ch > aset.maxCh

ChannelsOf(a) == IF TooManyChannels(a) THEN aset.maxCh ELSE a.ch

\* Per-channel bitrate; a universal stream's is capped at the default one.
ConfiguredRate(a) ==
  IF AsUniversal(a) THEN a.ch * Least(aset.uaRate, aset.defaultRate)
  ELSE ChannelsOf(a) * aset.rate

WantedRate(a) ==
  IF aset.rate = 0 THEN (a.rate * ChannelsOf(a)) \div a.ch ELSE ConfiguredRate(a)

TooFast(a) == aset.maxRate > 0 /\ WantedRate(a) > aset.maxRate

\* The codec before Atmos is looked at: copied when the pool has it and nothing
\* forbids it, and a stream over the maximum bitrate takes the first of the main pool.
PlainCodec(a) ==
  IF TooFast(a) THEN aset.pool[1]
  ELSE IF a.codec \in ToSetOf(PoolFor(a)) /\ ~TooManyChannels(a) /\ ~aset.noCopy
       THEN "copy" ELSE PoolFor(a)[1]

\* A re-encode into the same codec never gets more than the source had.
RateOf(a) ==
  LET rate == IF TooFast(a) THEN aset.maxRate ELSE WantedRate(a) IN
  IF PlainCodec(a) = a.codec /\ a.rate > 0 THEN Least(rate, a.rate) ELSE rate

KeepsAtmos(a) == aset.atmos /\ a.atmos

\* TrueHD is not played from MP4: the conversion stays, the copy goes beside it.
Beside(a) == KeepsAtmos(a) /\ PlainCodec(a) # "copy" /\ aset.mp4 /\ a.codec = "truehd"

CodecOf(a) == IF KeepsAtmos(a) /\ ~Beside(a) THEN "copy" ELSE PlainCodec(a)

\* _cap_audio_channels: these encoders stop at 5.1.
Capped51 == {"ac3", "eac3", "dts"}

CappedChannels(a) ==
  IF CodecOf(a) \in Capped51 THEN Least(ChannelsOf(a), 6) ELSE ChannelsOf(a)

Output(i, kind, codec, ch, rate, default) ==
  [src |-> i, kind |-> kind, codec |-> codec, ch |-> ch, rate |-> rate,
   lang |-> LangOf(asrc[i]), default |-> default]

IsDefault(a) == "default" \in a.flags

MainOutput(i) ==
  LET a == asrc[i] IN
  Output(i, IF AsUniversal(a) THEN "universal" ELSE "main", CodecOf(a), CappedChannels(a),
         RateOf(a), IsDefault(a))

\* The extra stereo stream of a source with more channels.
UniversalOutput(i) ==
  LET a == asrc[i] IN
  IF allowUA /\ a.ch > 2
  THEN <<Output(i, "universal", aset.uaPool[1], 2, 2 * Least(aset.uaRate, aset.defaultRate),
                IsDefault(a))>>
  ELSE <<>>

\* The copied original, whose bitrate may be unknown; an Atmos copy beside its
\* conversion is never the default.
UnknownRate == -1

CopyOutput(i) ==
  LET a == asrc[i] IN
  IF (aset.copyOriginal \/ Beside(a)) /\ CodecOf(a) # "copy"
  THEN <<Output(i, IF Beside(a) THEN "atmos" ELSE "original", "copy", a.ch,
                IF a.rate = 0 THEN UnknownRate ELSE a.rate, IsDefault(a) /\ ~Beside(a))>>
  ELSE <<>>

OutputsOf(i) == <<MainOutput(i)>> \o UniversalOutput(i) \o CopyOutput(i)

UAAfter == allowUA /\ ~aset.uaFirst

Blocks(a) == IF aset.firstOfLang /\ LangOf(a) # Undefined THEN {LangOf(a)} ELSE {}

ProcessStream ==
  /\ astage \in {"strict", "relaxed"} /\ anext <= Len(asrc)
  /\ anext' = anext + 1
  /\ LET a == asrc[anext] IN
     IF Accepts(a)
     THEN /\ aout' = aout \o OutputsOf(anext)
          /\ accepted' = accepted \cup {anext}
          /\ allowUA' = UAAfter
          /\ blockedLangs' = blockedLangs \cup Blocks(a)
          /\ seenFlags' = IF aset.unique /\ ~Forced(a) THEN seenFlags \cup {Profiled(a)}
                          ELSE seenFlags
     ELSE UNCHANGED <<aout, accepted, allowUA, blockedLangs, seenFlags>>
  /\ UNCHANGED <<audioPlanned, astage>>

-----------------------------------------------------------------------------
(* _build_audio_settings                                                   *)

\* Everything was filtered out: the loop runs again without language filter and
\* blocklists.
RelaxFilters ==
  /\ astage = "strict" /\ anext > Len(asrc) /\ asrc # <<>> /\ aout = <<>>
  /\ astage' = "relaxed" /\ anext' = 1
  /\ UNCHANGED <<audioPlanned, allowUA, blockedLangs, seenFlags, aout, accepted>>

Chosen == \/ astage = "strict" /\ (aout # <<>> \/ asrc = <<>>)
          \/ astage = "relaxed"

\* mapStreamCombinations: neighbouring streams with the codecs of a combination, one
\* language, and the same flags but for the default one.
AlikeFrom(i, combo) ==
  LET group == i .. i + Len(combo) - 1 IN
  /\ group \subseteq DOMAIN asrc
  /\ \A k \in DOMAIN combo : asrc[i + k - 1].codec = combo[k]
  /\ \A j, k \in group : /\ LangOf(asrc[j]) = LangOf(asrc[k])
                         /\ asrc[j].flags \ {"default"} = asrc[k].flags \ {"default"}

Groups ==
  UNION {{i .. i + Len(combo) - 1 : i \in {k \in DOMAIN asrc : AlikeFrom(k, combo)}} :
           combo \in aset.combos}

AudioStart(sources, settings) ==
  /\ asrc \in sources /\ aset \in settings
  /\ awl = Allowed /\ combos = Groups
  /\ astage = "strict" /\ anext = 1
  /\ allowUA = (aset.ua /\ aset.uaPool # <<>>)
  /\ blockedLangs = {} /\ seenFlags = {} /\ aout = <<>> /\ accepted = {}

AudioInit == AudioStart(AudioSources, AudioSettings)

CodecIn(o) == IF o.codec = "copy" THEN asrc[o.src].codec ELSE o.codec

\* duplicateStreamSort: copies first, then source defaults, then by bitrate.
Better(i, j) ==
  LET o == aout[i] p == aout[j]
      copyO == o.codec = "copy" copyP == p.codec = "copy"
      defO == IsDefault(asrc[o.src]) defP == IsDefault(asrc[p.src])
      rate(x) == IF x.rate = UnknownRate THEN 0 ELSE x.rate IN
  IF copyO # copyP THEN copyO
  ELSE IF defO # defP THEN defO
  ELSE IF rate(o) # rate(p) THEN rate(o) > rate(p) ELSE i < j

AllButBest(S) == {j \in S : \E i \in S : Better(i, j)}

\* Slip: none of the duplicates is kept.
PurgedFromSlip(S) == S

\* The duplicates among outputs S of one group and channel count: if one is a copy of
\* an acceptable codec, all but the best; otherwise all but the best of each codec.
PurgedFrom(S) ==
  LET ch   == aout[CHOOSE i \in S : TRUE].ch
      pool == IF ch <= 2 /\ aset.uaPool # <<>> THEN aset.uaPool ELSE aset.pool IN
  IF \E i \in S : aout[i].codec = "copy" /\ CodecIn(aout[i]) \in ToSetOf(pool)
  THEN AllButBest(S)
  ELSE UNION {AllButBest({i \in S : CodecIn(aout[i]) = CodecIn(aout[k])}) : k \in S}

Purged ==
  UNION {UNION {PurgedFrom({j \in DOMAIN aout : aout[j].src \in g /\ aout[j].ch = aout[i].ch}) :
                  i \in {k \in DOMAIN aout : aout[k].src \in g}} : g \in combos}

KeptAt(S) == SelectSeq([i \in DOMAIN aout |-> i], LAMBDA i : i \notin S)

PurgeDuplicates ==
  /\ Chosen /\ anext > Len(asrc)
  /\ astage' = "purged"
  /\ \E gone \in {Purged} :
       aout' = [n \in DOMAIN KeptAt(gone) |-> aout[KeptAt(gone)[n]]]
  /\ UNCHANGED <<audioPlanned, anext, allowUA, blockedLangs, seenFlags, accepted>>

\* sortStreams: one stable sort per key, the last key deciding first.
IndexOr999(x, s) == IF x \in ToSetOf(s) THEN CHOOSE i \in DOMAIN s : s[i] = x ELSE 999

\* The first stream of a combination stands for all of it.
ResolvedMap(i) ==
  LET groups == {g \in combos : i \in g} IN
  IF groups = {} THEN i
  ELSE LET g == CHOOSE h \in groups : TRUE IN CHOOSE k \in g : \A l \in g : k <= l

KeyOf(key, o) ==
  CASE key = "language"   -> IndexOr999(o.lang, awl)
    [] key = "codec"      -> IndexOr999(CodecIn(o), aset.pool)
    [] key = "channels.d" -> 0 - o.ch
    [] key = "map"        -> ResolvedMap(o.src)
    [] key = "d.comment"  -> IF "comment" \in asrc[o.src].flags THEN 1 ELSE 0
    [] key = "bitrate.d"  -> 0 - o.rate

\* Streams compare by the last key, then by the one before, and at last by their place.
Ranks(s, keys) ==
  [i \in DOMAIN s |-> Append([k \in DOMAIN keys |-> KeyOf(keys[Len(keys) + 1 - k], s[i])], i)]

Precedes(x, y) == \E n \in DOMAIN x : x[n] < y[n] /\ \A m \in 1 .. n - 1 : x[m] = y[m]

SortedBy(s, keys) ==
  LET ranks == SortSeq(Ranks(s, keys), Precedes) IN [n \in DOMAIN s |-> s[Last(ranks[n])]]

\* An unknown bitrate cannot be compared: the sort raises, and its caller goes on
\* without it.
Sortable(s, keys) ==
  Len(s) > 1 /\ "bitrate.d" \in ToSetOf(keys) => \A i \in DOMAIN s : s[i].rate # UnknownRate

\* _place_atmos_extra_copies: directly after the streams of the same source.
Placed(s, extra) ==
  LET siblings == {i \in DOMAIN s : s[i].src = extra.src}
      last == IF siblings = {} THEN Len(s) ELSE CHOOSE i \in siblings : \A j \in siblings : j <= i IN
  SubSeq(s, 1, last) \o <<extra>> \o SubSeq(s, last + 1, Len(s))

IsAtmosCopy(o) == o.kind = "atmos"

AtmosPlaced(s) ==
  FoldLeft(Placed, SelectSeq(s, LAMBDA o : ~IsAtmosCopy(o)), SelectSeq(s, IsAtmosCopy))

SortStreams ==
  /\ astage = "purged"
  /\ astage' = "sorted"
  /\ aout' = AtmosPlaced(IF Sortable(aout, aset.sortBy) THEN SortedBy(aout, aset.sortBy)
                         ELSE aout)
  /\ UNCHANGED <<audioPlanned, anext, allowUA, blockedLangs, seenFlags, accepted>>

\* setDefaultAudioStream: the flags after the stream to flag has been found.
Defaults(s) == SelectSeq(s, LAMBDA o : o.default)

InPreferred(s) ==
  IF Preferred = Unset THEN s ELSE SelectSeq(s, LAMBDA o : o.lang = Preferred)

FirstOf(seqs) == LET some == SelectSeq(seqs, LAMBDA s : s # <<>>) IN some[1][1]

DefaultStream(s) == FirstOf(<<InPreferred(Defaults(s)), InPreferred(s), Defaults(s), s>>)

\* Every other default is cleared, whichever language it is in.
Flagged(s) ==
  \E chosen \in {DefaultStream(s)} :
    aout' = [i \in DOMAIN aout |-> [aout[i] EXCEPT !.default = aout[i] = chosen]]

SetDefault ==
  /\ astage = "sorted"
  /\ astage' = "done"
  /\ LET candidates == SelectSeq(aout, LAMBDA o : ~IsAtmosCopy(o)) IN
     IF candidates = <<>> \/ ~Sortable(candidates, aset.defaultBy) THEN UNCHANGED aout
     ELSE Flagged(SortedBy(candidates, aset.defaultBy))
  /\ UNCHANGED <<audioPlanned, anext, allowUA, blockedLangs, seenFlags, accepted>>

AudioNext == ProcessStream \/ RelaxFilters \/ PurgeDuplicates \/ SortStreams \/ SetDefault

AudioSpec == AudioInit /\ [][AudioNext]_audioVars

-----------------------------------------------------------------------------
(* Properties of the finished plan.                                        *)

Planned == astage = "done"

DefaultCandidates == {i \in DOMAIN aout : ~IsAtmosCopy(aout[i])}

\* A player opens exactly one track by itself, in the preferred language if there is
\* one and never the Atmos copy that players of MP4 cannot decode, whatever flags the
\* source carried and however the streams were purged and sorted.  Without a
\* bitrate to sort by, the code logs an error and leaves the flags as they are.
OneDefaultTrack ==
  Planned /\ DefaultCandidates # {} /\ "bitrate.d" \notin ToSetOf(aset.defaultBy) =>
    \E i \in DefaultCandidates :
      /\ \A j \in DOMAIN aout : aout[j].default <=> j = i
      /\ (\E j \in DefaultCandidates : aout[j].lang = Preferred) => aout[i].lang = Preferred

\* A combination is the same sound several times: purging leaves some of it.
CombinationSurvives ==
  \A i \in accepted : \E j \in DOMAIN aout :
    aout[j].src = i \/ \E g \in combos : {i, aout[j].src} \subseteq g

\* audio-atmos-force-copy: outside combinations, Atmos is copied, and in MP4 a TrueHD
\* copy follows directly on a stream of the same source that can be played.
AtmosKept ==
  \A i \in {k \in accepted : KeepsAtmos(asrc[k]) /\ \A g \in combos : k \notin g} :
    \E j \in DOMAIN aout :
      /\ aout[j].src = i /\ aout[j].codec = "copy"
      /\ IsAtmosCopy(aout[j]) => j > 1 /\ aout[j - 1].src = i /\ aout[j - 1].codec # "copy"
      /\ aset.mp4 /\ asrc[i].codec = "truehd" /\ "truehd" \notin ToSetOf(aset.pool)
           => IsAtmosCopy(aout[j])

\* A language the settings allow, in a stream without ignored flags, is heard.
LanguagesKept ==
  \A i \in DOMAIN asrc :
    ValidFlags(asrc[i]) /\ (awl # <<>> => LangOf(asrc[i]) \in ToSetOf(awl)) =>
      \E j \in DOMAIN aout : aout[j].lang = LangOf(asrc[i])

\* first-stream-of-language, unless a default track is forced in: one source stream
\* of each known language.
OnePerLanguage ==
  aset.firstOfLang /\ ~aset.forceDefault =>
    \A i, j \in accepted :
      LangOf(asrc[i]) = LangOf(asrc[j]) => i = j \/ LangOf(asrc[i]) = Undefined

\* No rule on the way to the plan loses sound the settings keep.
TracksKept == Planned => CombinationSurvives /\ AtmosKept /\ LanguagesKept /\ OnePerLanguage

\* What the audio rules owe together: the sound the settings keep, and one default
\* track (_build_audio_settings, purge_audio_streams, setDefaultAudioStream).
TracksSound == TracksKept /\ OneDefaultTrack

\* "The user gets at least one audio stream" (mediaprocessor.py, above the second
\* loop): a source with audio is never planned without any.
SomeAudio == Planned /\ asrc # <<>> => aout # <<>>

=============================================================================
