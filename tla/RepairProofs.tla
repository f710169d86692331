---------------------------- MODULE RepairProofs ----------------------------
(***************************************************************************)
(* RepairsSound for any repairers, damage, links and faults.  RepairInv    *)
(* says of every repairer what it holds at each of its steps, of every     *)
(* film that it is what it was or what its repair makes of it, and of      *)
(* linked films, which are rewritten in place, that a rewriting will end   *)
(* well or a verified copy is left.  After two copies clashed it only      *)
(* keeps the types.                                                        *)
(***************************************************************************)
EXTENDS Repair, NumberFacts

RepairPc ==
  {"idle", "choose", "open", "remux", "verify", "replace", "place", "rewrite", "rewriting", "dead"}

\* Who works on a file, who has a copy, and whose copy is verified.
Works(r) == rp[r].pc \in RepairPc \ {"idle", "dead"}
Owns(r) == rp[r].pc \in {"remux", "verify", "replace", "place", "rewrite", "rewriting"}
Checked(r) == rp[r].pc \in {"replace", "place", "rewrite", "rewriting"}

RepairRow ==
  [pc : RepairPc, t : Target, seen : Medium \cup {[whole |-> FALSE]}, tmp : Copies,
   from : 0 .. 8, to : 0 .. 8, torn : BOOLEAN]

RepairStatus == {"none", "failed", "normal", "skipped", "repaired", "kept"}

RepairTyped ==
  /\ rset \in RepairCase
  /\ inode \in [Names -> 0 .. 8]
  /\ data \in [Inodes -> Medium]
  /\ rp \in [Repairer -> RepairRow]
  /\ results \in [Repairer -> [Target -> RepairStatus]]
  /\ \A r \in Repairer : rp[r].pc \in {"remux", "place", "rewriting"} => rp[r].from # 0 /\ rp[r].to # 0

\* The file is a hard link that must see the repair.
Shared(t) == rset.linked /\ t \in {"film", "link"}

\* What a film is before and after its repair, but for being whole.
TitleOf(t) == IF t = "other" THEN "other" ELSE "film"
Source(t) == [rset.media EXCEPT !.title = TitleOf(t)]
Mended(t) == Remuxed(Source(t))
AsWhole(d) == [d EXCEPT !.whole = TRUE]

\* Only the links of a film are one file.
InodesApart ==
  /\ rset.linked => inode["film"] = 1 /\ inode["link"] = 1
  /\ ~ rset.linked => inode["link"] = 0
  /\ \A n, m \in Names : n # m /\ inode[n] = inode[m] /\ inode[n] # 0 => {n, m} = {"film", "link"}

\* What a repairer holds at each step.
Held(r) == LET p == rp[r] IN
  /\ Works(r) => /\ Present(p.t) /\ results[r][p.t] = "none"
                 /\ p.seen \in Medium /\ AsWhole(p.seen) = Source(p.t)
  /\ Owns(r) => Present(p.tmp)
  /\ p.pc = "remux" => p.to = inode[p.tmp]
  /\ p.pc \in {"verify", "replace"} => p.from = 0 /\ p.to = 0
  /\ p.pc \in {"verify", "replace", "place"} => ~ p.torn
  /\ p.pc = "place" => Present(Partial[p.t]) /\ p.to = inode[Partial[p.t]] /\ p.from = inode[p.tmp]
  /\ p.pc = "rewriting" => p.to = inode[p.t] /\ p.from = inode[p.tmp]
  /\ p.pc \in {"replace", "place"} => ~ Shared(p.t)
  /\ p.pc \in {"rewrite", "rewriting"} => Shared(p.t)
  /\ Checked(r) => At(p.tmp) = Mended(p.t)

CopiesHeld == \A r \in Repairer : Held(r)

\* No two have one copy.
CopiesApart ==
  \A r, q \in Repairer : r # q =>
    /\ Owns(r) /\ Owns(q) => rp[r].tmp # rp[q].tmp
    /\ rp[r].pc = "place" /\ rp[q].pc = "place" => rp[r].t # rp[q].t

\* A film is what it was or what its repair makes of it, and whole unless it is rewritten.
FilmsKept ==
  \A t \in Target : Present(t) =>
    /\ AsWhole(At(t)) \in {Source(t), Mended(t)}
    /\ ~ Shared(t) => At(t).whole

RepairsTold ==
  \A r \in Repairer, t \in Target :
    results[r][t] = "repaired" => Present(t) /\ AsWhole(At(t)) = Mended(t)

\* A rewriting that will end well.
Rewriting == \E r \in Repairer : rp[r].pc = "rewriting" /\ ~ rp[r].torn

\* A rewriting that stopped, and the copy that it left.
Stopped == \E r \in Repairer : rp[r].pc = "dead" \/ "kept" \in {results[r]["film"], results[r]["link"]}
CopyLeft ==
  \E c \in Copies : /\ Present(c) /\ At(c) = Mended("film")
                    /\ \A q \in Repairer : Owns(q) => rp[q].tmp # c

LinksSafe ==
  rset.linked =>
    /\ data[1].whole => \A r \in Repairer : rp[r].pc = "rewriting" => ~ rp[r].torn
    /\ data[1].whole \/ Rewriting \/ (Stopped /\ (CopyLeft \/ "sweep" \in rhurt))

RepairParts ==
  InodesApart /\ CopiesHeld /\ CopiesApart /\ FilmsKept /\ RepairsTold /\ LinksSafe

RepairInv == RepairTyped /\ ("clash" \notin rhurt => RepairParts)

RepairSpec == RepairInit /\ [][RepairNext]_repairVars

\* The names there are.
LEMMA NamesThere ==
  /\ Copies = {"copy", "copy.2", "copy.3"}
  /\ Names = Target \cup Copies \cup {"film.smatmp", "link.smatmp", "other.smatmp"}
  /\ Partial["film"] = "film.smatmp" /\ Partial["link"] = "link.smatmp"
  /\ Partial["other"] = "other.smatmp"
<1>1. DOMAIN Copy = {1, 2, 3} /\ Copy[1] = "copy" /\ Copy[2] = "copy.2" /\ Copy[3] = "copy.3"
  BY DEF Copy
<1>2. Copies = {"copy", "copy.2", "copy.3"}
  BY <1>1 DEF Copies
<1>3. /\ Partial["film"] = "film.smatmp" /\ Partial["link"] = "link.smatmp"
      /\ Partial["other"] = "other.smatmp"
  BY DEF Partial
<1>. QED BY <1>2, <1>3 DEF Names, Target

\* No name is of two sorts, and each target has a partial of its own.
LEMMA NamesDiffer ==
  /\ Target \subseteq Names /\ Copies \subseteq Names /\ Target \cap Copies = {}
  /\ \A t \in Target : Partial[t] \in Names \ (Target \cup Copies)
  /\ \A t, u \in Target : t # u => Partial[t] # Partial[u]
  /\ \A n \in Names \ Target : n \notin {"film", "link"}
BY NamesThere DEF Target

\* What a repair makes of a film.
LEMMA RemuxedFields ==
  ASSUME NEW d \in Medium
  PROVE  /\ Remuxed(d) \in Medium /\ Remuxed(d).title = d.title /\ Remuxed(d).whole = d.whole
         /\ Remuxed(d).mp4 = d.mp4
         /\ Remuxed(d).streams = Keep(d) \cup IF d.mp4 THEN d.streams \cap {"chapters"} ELSE {}
         /\ Remuxed(d).aspect = IF d.aspect = "stretched" THEN "corrected" ELSE d.aspect
<1>1. (Keep(d) \cup IF d.mp4 THEN d.streams \cap {"chapters"} ELSE {}) \subseteq StreamKinds
  BY DEF Keep, Medium, StreamKinds
<1>. QED BY <1>1 DEF Remuxed, Medium

LEMMA AsWholeFields ==
  ASSUME NEW d \in Medium
  PROVE  /\ AsWhole(d) \in Medium /\ AsWhole(d).whole
         /\ AsWhole(d).title = d.title /\ AsWhole(d).streams = d.streams
         /\ AsWhole(d).mp4 = d.mp4 /\ AsWhole(d).aspect = d.aspect
         /\ (d.whole => AsWhole(d) = d)
BY DEF AsWhole, Medium

\* It needs no other, and keeps what there is to keep.
LEMMA MendedOnce ==
  ASSUME NEW d \in Medium
  PROVE  ~ NeedsRepair(Remuxed(d)) /\ Keep(Remuxed(d)) = Keep(d)
<1>. DEFINE e == Remuxed(d)
<1>1. /\ e.mp4 = d.mp4 /\ e.aspect # "stretched"
      /\ e.streams = Keep(d) \cup IF d.mp4 THEN d.streams \cap {"chapters"} ELSE {}
  BY RemuxedFields
<1>. HIDE DEF e
<1>2. "picture" \in e.streams <=> "picture" \in d.streams
  BY <1>1 DEF Keep, CoverArt
<1>3. CoverArt(e) = {}
  BY <1>1, <1>2 DEF Keep, CoverArt
<1>4. Keep(e) = Keep(d)
  BY <1>1, <1>3 DEF Keep
<1>5. Dropped(e) = {}
  BY <1>1, <1>3 DEF Dropped, Keep
<1>. QED BY <1>1, <1>4, <1>5 DEF NeedsRepair, e

\* Neither depends on the file being whole.
LEMMA WholeApart ==
  ASSUME NEW d \in Medium
  PROVE  /\ NeedsRepair(AsWhole(d)) = NeedsRepair(d) /\ Keep(AsWhole(d)) = Keep(d)
         /\ AsWhole(Remuxed(d)) = Remuxed(AsWhole(d))
<1>1. CoverArt(AsWhole(d)) = CoverArt(d)
  BY AsWholeFields DEF CoverArt
<1>2. Keep(AsWhole(d)) = Keep(d)
  BY <1>1, AsWholeFields DEF Keep
<1>3. Dropped(AsWhole(d)) = Dropped(d)
  BY <1>1, AsWholeFields DEF Dropped
<1>4. NeedsRepair(AsWhole(d)) = NeedsRepair(d)
  BY <1>3, AsWholeFields DEF NeedsRepair
<1>5. AsWhole(Remuxed(d)) = Remuxed(AsWhole(d))
  <2>1. /\ Remuxed(d) \in Medium /\ AsWhole(d) \in Medium
        /\ AsWhole(Remuxed(d)) \in Medium /\ Remuxed(AsWhole(d)) \in Medium
    BY RemuxedFields, AsWholeFields
  <2>. DEFINE x == AsWhole(Remuxed(d))
              y == Remuxed(AsWhole(d))
  <2>2. x.title = y.title /\ x.whole = y.whole /\ x.mp4 = y.mp4 /\ x.aspect = y.aspect
    BY <2>1, RemuxedFields, AsWholeFields DEF Medium
  <2>3. x.streams = y.streams
    <3>1. x.streams = Keep(d) \cup IF d.mp4 THEN d.streams \cap {"chapters"} ELSE {}
      BY <2>1, RemuxedFields, AsWholeFields
    <3>2. y.streams = Keep(AsWhole(d))
                        \cup IF AsWhole(d).mp4 THEN AsWhole(d).streams \cap {"chapters"} ELSE {}
      BY <2>1, RemuxedFields
    <3>. QED BY <3>1, <3>2, <1>2, AsWholeFields
  <2>. QED BY <2>1, <2>2, <2>3 DEF Medium
<1>. QED BY <1>2, <1>4, <1>5

\* A film before and after.
LEMMA SourceFields ==
  ASSUME RepairTyped, NEW t \in Target
  PROVE  /\ Source(t) \in Medium /\ Mended(t) \in Medium /\ Source(t).whole /\ Mended(t).whole
         /\ Source(t).title = TitleOf(t) /\ Mended(t).title = TitleOf(t)
         /\ Keep(Source(t)) = Keep(rset.media) /\ Keep(Mended(t)) = Keep(rset.media)
         /\ ~ NeedsRepair(Mended(t))
<1>1. rset.media \in Medium /\ rset.media.whole
  BY DEF RepairTyped, RepairCase
<1>2. Source(t) \in Medium /\ Source(t).whole /\ Source(t).title = TitleOf(t)
      /\ Source(t).streams = rset.media.streams
  BY <1>1 DEF Source, Medium, TitleOf
<1>3. Keep(Source(t)) = Keep(rset.media)
  BY <1>2 DEF Keep, CoverArt
<1>. QED BY <1>2, <1>3, RemuxedFields, MendedOnce DEF Mended

LEMMA SameFilm ==
  \A t \in Target : Shared(t) => Source(t) = Source("film") /\ Mended(t) = Mended("film")
BY DEF Shared, Source, Mended, TitleOf

\* What RepairTyped says of a repairer.
LEMMA RowFacts ==
  ASSUME RepairTyped, NEW r \in Repairer
  PROVE  /\ rp[r] \in RepairRow /\ rp[r].t \in Target /\ rp[r].tmp \in Copies /\ rp[r].tmp \in Names
         /\ rp[r].t \in Names /\ Partial[rp[r].t] \in Names
         /\ rp[r].from \in 0 .. 8 /\ rp[r].to \in 0 .. 8 /\ rp[r].torn \in BOOLEAN
         /\ rp[r].pc \in RepairPc /\ DOMAIN rp = Repairer
         /\ (rp[r].pc \in {"remux", "place", "rewriting"} => rp[r].from \in Inodes /\ rp[r].to \in Inodes)
         /\ \A n \in Names : inode[n] \in 0 .. 8 /\ (Present(n) => inode[n] \in Inodes /\ At(n) \in Medium)
<1>1. rp[r] \in RepairRow
  BY DEF RepairTyped
<1>2. rp[r].t \in Target /\ rp[r].tmp \in Copies
  BY <1>1 DEF RepairRow
<1>3. \A n \in Names : inode[n] \in 0 .. 8 /\ (Present(n) => inode[n] \in Inodes)
  BY DEF RepairTyped, Present, Inodes
<1>4. \A n \in Names : Present(n) => At(n) \in Medium
  BY <1>3 DEF RepairTyped, At
<1>5. rp[r].from \in 0 .. 8 /\ rp[r].to \in 0 .. 8
  BY <1>1 DEF RepairRow
<1>6. rp[r].pc \in {"remux", "place", "rewriting"} => rp[r].from \in Inodes /\ rp[r].to \in Inodes
  BY <1>5 DEF RepairTyped, Inodes
<1>. QED BY <1>1, <1>2, <1>3, <1>4, <1>5, <1>6, NamesDiffer DEF RepairRow, RepairTyped

\* A fresh inode is nobody's.
LEMMA FreshFree ==
  ASSUME FreeInodes # {}
  PROVE  /\ Fresh \in Inodes /\ \A n \in Names : inode[n] # Fresh
         /\ \A q \in Repairer : rp[q].from # Fresh /\ rp[q].to # Fresh
<1>1. FreeInodes \in SUBSET Nat
  BY DEF FreeInodes, Inodes
<1>2. \E m \in FreeInodes : \A k \in FreeInodes : m <= k
  BY <1>1, LeastNumber
<1>3. Fresh \in FreeInodes
  BY <1>2 DEF Fresh, Min
<1>. QED BY <1>3 DEF FreeInodes

\* So nobody's reading or writing is torn by it.
LEMMA NobodyTorn ==
  ASSUME RepairTyped, NEW r \in Repairer, NEW i, \A q \in Repairer \ {r} : rp[q].from # i /\ rp[q].to # i
  PROVE  Torn(i, r) = rp
BY DEF Torn, RepairTyped

\* A target has another name exactly if it is shared.
LEMMA LinksOf ==
  ASSUME RepairTyped, InodesApart, NEW t \in Target, Present(t)
  PROVE  Links(t) = 1 <=> ~ Shared(t)
<1>. DEFINE S == {n \in Names : inode[n] = inode[t]}
<1>1. t \in S /\ IsFiniteSet(S)
  <2>1. IsFiniteSet(Names)
    <3>1. ASSUME NEW x, NEW y, NEW z PROVE IsFiniteSet({x, y, z})
      <4>1. IsFiniteSet({x} \cup {y})
        BY FS_Union, FS_Singleton
      <4>2. IsFiniteSet(({x} \cup {y}) \cup {z})
        BY <4>1, FS_Union, FS_Singleton
      <4>. QED BY <4>2
    <3>2. IsFiniteSet(Target) /\ IsFiniteSet(Copies)
      BY <3>1, NamesThere DEF Target
    <3>3. IsFiniteSet(Target \cup Copies)
      BY <3>2, FS_Union
    <3>. QED BY <3>1, <3>3, FS_Union, NamesThere
  <2>. QED BY <2>1, FS_Subset, NamesDiffer
<1>2. CASE Shared(t)
  <2>1. "film" \in S /\ "link" \in S
    BY <1>2, NamesDiffer DEF Shared, InodesApart, Target
  <2>2. \A x : S # {x}
    BY <2>1
  <2>. QED BY <1>1, <1>2, <2>2, FS_Singleton DEF Links
<1>3. CASE ~ Shared(t)
  <2>1. S = {t}
    <3>. SUFFICES ASSUME NEW n \in S, n # t PROVE FALSE
      BY <1>1
    <3>1. {n, t} = {"film", "link"}
      BY NamesDiffer DEF InodesApart, Present
    <3>2. t \in {"film", "link"} /\ ~ rset.linked /\ (n = "link" \/ t = "link")
      BY <1>3, <3>1 DEF Shared
    <3>3. inode["link"] = 0
      BY <3>2 DEF InodesApart
    <3>. QED BY <3>2, <3>3 DEF Present
  <2>. QED BY <1>3, <2>1, FS_Singleton DEF Links
<1>. QED BY <1>2, <1>3

\* The invariant at the start.
LEMMA RepairsBegin == RepairInit => RepairInv
<1>. SUFFICES ASSUME RepairInit PROVE RepairInv
  OBVIOUS
<1>1. /\ rset \in RepairCase /\ rp = [r \in Repairer |-> Resting]
      /\ data = [i \in Inodes |-> [rset.media EXCEPT !.title = IF i = 2 THEN "other" ELSE @]]
      /\ inode = [n \in Names |-> CASE n = "film" -> 1
                                    [] n = "link" -> IF rset.linked THEN 1 ELSE 0
                                    [] n = "other" -> IF rset.twin THEN 2 ELSE 0
                                    [] OTHER -> 0]
      /\ results = [r \in Repairer |-> [t \in Target |-> "none"]]
  BY RepairAssumption DEF RepairInit, RepairStart, RepairAssumption
<1>2. rset.media \in Medium /\ rset.media.whole /\ rset.media.title = "film"
  BY <1>1 DEF RepairCase
<1>3. /\ inode["film"] = 1 /\ inode["link"] = (IF rset.linked THEN 1 ELSE 0)
      /\ inode["other"] = (IF rset.twin THEN 2 ELSE 0)
      /\ \A n \in Names \ Target : inode[n] = 0
  BY <1>1, NamesDiffer DEF Target
<1>4. \A i \in Inodes : /\ data[i] \in Medium /\ data[i].whole
                        /\ data[i] = IF i = 2 THEN Source("other") ELSE Source("film")
  BY <1>1, <1>2 DEF Medium, Source, TitleOf
<1>5. RepairTyped
  <2>1. \A n \in Names : inode[n] \in 0 .. 8
    BY <1>3, NamesDiffer DEF Target
  <2>2. inode \in [Names -> 0 .. 8]
    BY <1>1, <2>1
  <2>3. data \in [Inodes -> Medium]
    BY <1>1, <1>4
  <2>4. Resting \in RepairRow
    BY NamesThere DEF Resting, RepairRow, RepairPc, Target
  <2>5. \A r \in Repairer : rp[r].pc = "idle"
    BY <1>1 DEF Resting
  <2>6. rp \in [Repairer -> RepairRow] /\ results \in [Repairer -> [Target -> RepairStatus]]
    BY <1>1, <2>4 DEF RepairStatus
  <2>. QED BY <1>1, <2>2, <2>3, <2>5, <2>6 DEF RepairTyped
<1>6. \A r \in Repairer : rp[r].pc = "idle"
  BY <1>1 DEF Resting
<1>7. InodesApart
  <2>. SUFFICES ASSUME NEW n \in Names, NEW m \in Names, n # m, inode[n] = inode[m], inode[n] # 0
                PROVE  {n, m} = {"film", "link"}
    BY <1>3 DEF InodesApart
  <2>1. n \in Target /\ m \in Target
    BY <1>3
  <2>. QED BY <1>3, <2>1 DEF Target
<1>8. FilmsKept
  <2>. SUFFICES ASSUME NEW t \in Target, Present(t) PROVE At(t).whole /\ AsWhole(At(t)) = Source(t)
    BY DEF FilmsKept
  <2>1. inode[t] = IF t = "other" THEN 2 ELSE 1
    BY <1>3 DEF Target, Present
  <2>2. At(t) = Source(t) /\ At(t) \in Medium /\ At(t).whole
    BY <1>4, <2>1 DEF At, Inodes, Source, TitleOf
  <2>. QED BY <2>2, AsWholeFields
<1>9. CopiesHeld /\ CopiesApart
  BY <1>6 DEF CopiesHeld, Held, Works, Owns, Checked, CopiesApart
<1>10. RepairsTold
  BY <1>1 DEF RepairsTold
<1>11. LinksSafe
  BY <1>4, <1>6 DEF LinksSafe, Inodes
<1>. QED BY <1>5, <1>7, <1>8, <1>9, <1>10, <1>11 DEF RepairInv, RepairParts

\* A step changes what it says, and keeps the types.
LEMMA TypesKept ==
  ASSUME RepairTyped, NEW r \in Repairer, rp' \in [Repairer -> RepairRow],
         \A q \in Repairer : rp'[q].pc \in {"remux", "place", "rewriting"} => rp'[q].from # 0 /\ rp'[q].to # 0,
         UNCHANGED rset, \A n \in Names : inode'[n] \in 0 .. 8, inode' = [n \in Names |-> inode'[n]],
         \A i \in Inodes : data'[i] \in Medium, data' = [i \in Inodes |-> data'[i]],
         \/ UNCHANGED results
         \/ \E t \in Target, s \in RepairStatus : results' = [results EXCEPT ![r][t] = s]
  PROVE  RepairTyped'
<1>1. inode' \in [Names -> 0 .. 8] /\ data' \in [Inodes -> Medium]
  OBVIOUS
<1>2. results' \in [Repairer -> [Target -> RepairStatus]]
  <2>1. results \in [Repairer -> [Target -> RepairStatus]]
    BY DEF RepairTyped
  <2>2. ASSUME NEW t \in Target, NEW s \in RepairStatus, results' = [results EXCEPT ![r][t] = s]
        PROVE  results' \in [Repairer -> [Target -> RepairStatus]]
    <3>1. [results[r] EXCEPT ![t] = s] \in [Target -> RepairStatus]
      BY <2>1, <2>2
    <3>. QED BY <2>1, <2>2, <3>1
  <2>. QED BY <2>1, <2>2
<1>. QED BY <1>1, <1>2 DEF RepairTyped

\* A row of a repairer that goes on.
LEMMA TornRows ==
  ASSUME RepairTyped, NEW r \in Repairer, NEW i
  PROVE  /\ Torn(i, r) \in [Repairer -> RepairRow] /\ Torn(i, r)[r] = rp[r]
         /\ \A q \in Repairer : /\ Torn(i, r)[q] \in {rp[q], [rp[q] EXCEPT !.torn = TRUE]}
                                /\ Torn(i, r)[q].pc = rp[q].pc /\ Torn(i, r)[q].from = rp[q].from
                                /\ Torn(i, r)[q].to = rp[q].to
<1>1. \A q \in Repairer : /\ rp[q] \in RepairRow /\ [rp[q] EXCEPT !.torn = TRUE] \in RepairRow
                          /\ Torn(i, r)[q] \in {rp[q], [rp[q] EXCEPT !.torn = TRUE]}
  BY DEF RepairTyped, RepairRow, Torn
<1>2. Torn(i, r)[r] = rp[r]
  BY DEF Torn
<1>3. \A q \in Repairer : /\ Torn(i, r)[q].pc = rp[q].pc /\ Torn(i, r)[q].from = rp[q].from
                          /\ Torn(i, r)[q].to = rp[q].to
  BY <1>1 DEF RepairRow
<1>4. Torn(i, r) = [q \in Repairer |-> Torn(i, r)[q]]
  BY DEF Torn
<1>. QED BY <1>1, <1>2, <1>3, <1>4

\* What a name is given, and what an inode that is cut holds.
LEMMA CutFiles ==
  ASSUME RepairTyped, NEW i \in Inodes
  PROVE  /\ Cut(i) \in [Inodes -> Medium] /\ Cut(i) = [k \in Inodes |-> Cut(i)[k]]
         /\ \A k \in Inodes : Cut(i)[k] \in Medium /\ (k # i => Cut(i)[k] = data[k])
         /\ Cut(i)[i] = [data[i] EXCEPT !.whole = FALSE]
         /\ AsWhole(Cut(i)[i]) = AsWhole(data[i])
<1>1. data \in [Inodes -> Medium]
  BY DEF RepairTyped
<1>2. [data[i] EXCEPT !.whole = FALSE] \in Medium
  BY <1>1 DEF Medium
<1>3. Cut(i) = [data EXCEPT ![i] = [data[i] EXCEPT !.whole = FALSE]]
  BY <1>1 DEF Cut
<1>. QED BY <1>1, <1>2, <1>3 DEF AsWhole, Medium

\* The rows after a step of r that goes on, or is done.
LEMMA RowsAfter ==
  ASSUME RepairTyped, NEW r \in Repairer, NEW rows, NEW row \in RepairRow,
         rows \in {rp} \cup {Torn(i, r) : i \in 0 .. 8}, rp' = [rows EXCEPT ![r] = row],
         row.pc \in {"remux", "place", "rewriting"} => row.from # 0 /\ row.to # 0
  PROVE  /\ rp' \in [Repairer -> RepairRow] /\ rp'[r] = row
         /\ \A q \in Repairer \ {r} : rp'[q] = rows[q]
         /\ \A q \in Repairer : rp'[q].pc \in {"remux", "place", "rewriting"} => rp'[q].from # 0 /\ rp'[q].to # 0
<1>1. /\ rows \in [Repairer -> RepairRow]
      /\ \A q \in Repairer : rows[q].pc = rp[q].pc /\ rows[q].from = rp[q].from /\ rows[q].to = rp[q].to
  BY TornRows DEF RepairTyped
<1>2. \A q \in Repairer : rows[q].pc \in {"remux", "place", "rewriting"} => rows[q].from # 0 /\ rows[q].to # 0
  BY <1>1 DEF RepairTyped
<1>. QED BY <1>1, <1>2

LEMMA RestingRow == Resting \in RepairRow /\ Resting.pc = "idle"
BY NamesThere DEF Resting, RepairRow, RepairPc, Target

\* Every step keeps the types, also after a clash.
LEMMA TypesStep ==
  ASSUME RepairTyped, NEW r \in Repairer,
         \/ \E t \in Target : Probe(r, t)
         \/ NoSpace(r) \/ Choose(r) \/ Open(r) \/ Finish(r) \/ Verify(r) \/ Replace(r)
         \/ CopyOver(r) \/ PlaceCopy(r) \/ Rewrite(r) \/ Rewritten(r)
         \/ Fails(r) \/ WriteFails(r) \/ Killed(r)
  PROVE  RepairTyped'
<1>. DEFINE p == rp[r]
            idle == {"remux", "place", "rewriting"}
<1>0. /\ p \in RepairRow /\ p.t \in Target /\ p.tmp \in Copies /\ p.tmp \in Names /\ p.t \in Names
      /\ Partial[p.t] \in Names /\ DOMAIN rp = Repairer /\ rp \in [Repairer -> RepairRow]
      /\ inode \in [Names -> 0 .. 8] /\ data \in [Inodes -> Medium]
      /\ \A n \in Names : inode[n] \in 0 .. 8 /\ (Present(n) => inode[n] \in Inodes /\ At(n) \in Medium)
  BY RowFacts DEF RepairTyped
<1>1. ASSUME UNCHANGED <<rset, inode, data>>, rp' = [rp EXCEPT ![r] = rp'[r]], rp'[r] \in RepairRow,
             rp'[r].pc \in idle => rp'[r].from # 0 /\ rp'[r].to # 0,
             \/ UNCHANGED results
             \/ \E t \in Target, s \in RepairStatus : results' = [results EXCEPT ![r][t] = s]
      PROVE  RepairTyped'
  <2>1. rp' \in [Repairer -> RepairRow]
        /\ \A q \in Repairer : rp'[q].pc \in idle => rp'[q].from # 0 /\ rp'[q].to # 0
    BY <1>0, <1>1, RowsAfter
  <2>2. UNCHANGED rset /\ inode' = [n \in Names |-> inode'[n]] /\ data' = [i \in Inodes |-> data'[i]]
        /\ (\A n \in Names : inode'[n] \in 0 .. 8) /\ \A i \in Inodes : data'[i] \in Medium
    BY <1>0, <1>1
  <2>. QED BY <1>1, <2>1, <2>2, TypesKept
<1>2. ASSUME NEW t \in Target, Probe(r, t) PROVE RepairTyped'
  <2>1. Present(t) /\ UNCHANGED <<rset, inode, data>> /\ p.pc = "idle"
    BY <1>2 DEF Probe
  <2>2. CASE UNCHANGED rp /\ \E s \in RepairStatus : Says(r, t, s)
    <3>1. rp' = [rp EXCEPT ![r] = rp'[r]] /\ rp'[r] \in RepairRow /\ rp'[r].pc \notin idle
      BY <1>0, <2>1, <2>2
    <3>2. \E s \in RepairStatus : results' = [results EXCEPT ![r][t] = s]
      BY <2>2 DEF Says
    <3>. QED BY <1>1, <2>1, <3>1, <3>2
  <2>3. CASE rp' = [rp EXCEPT ![r] = [Resting EXCEPT !.pc = "choose", !.t = t, !.seen = At(t)]]
             /\ UNCHANGED results
    <3>1. At(t) \in Medium
      BY <1>0, <2>1, NamesDiffer
    <3>2. [Resting EXCEPT !.pc = "choose", !.t = t, !.seen = At(t)] \in RepairRow
      BY <3>1, RestingRow DEF RepairRow, RepairPc
    <3>3. rp'[r] = [Resting EXCEPT !.pc = "choose", !.t = t, !.seen = At(t)]
      BY <1>0, <2>3
    <3>4. rp'[r].pc = "choose"
      BY <3>3, RestingRow DEF RepairRow
    <3>. QED BY <1>1, <2>1, <2>3, <3>2, <3>3, <3>4
  <2>. QED BY <1>2, <2>2, <2>3 DEF Probe, RepairStatus
<1>3. CASE NoSpace(r)
  <2>1. rp' = [rp EXCEPT ![r] = Resting] /\ results' = [results EXCEPT ![r][p.t] = "failed"]
        /\ UNCHANGED <<rset, inode, data>>
    BY <1>3 DEF NoSpace, Done, Says
  <2>2. rp'[r] = Resting
    BY <1>0, <2>1
  <2>. QED BY <1>0, <1>1, <2>1, <2>2, RestingRow DEF RepairStatus
<1>4. CASE Choose(r)
  <2>. DEFINE free == {n \in DOMAIN Copy : ~Present(Copy[n])}
  <2>1. free # {} /\ rp' = [rp EXCEPT ![r].pc = "open", ![r].tmp = Copy[Min(free)]]
        /\ UNCHANGED <<rset, inode, data, results>>
    BY <1>4 DEF Choose
  <2>2. Copy[Min(free)] \in Copies
    <3>1. free \in SUBSET Nat
      BY DEF Copy
    <3>2. Min(free) \in free
      BY <2>1, <3>1, LeastNumber DEF Min
    <3>. QED BY <3>2 DEF Copies
  <2>. HIDE DEF free
  <2>3. rp'[r] = [p EXCEPT !.pc = "open", !.tmp = Copy[Min(free)]]
    BY <1>0, <2>1 DEF RepairRow
  <2>4. rp'[r] \in RepairRow /\ rp'[r].pc = "open" /\ rp' = [rp EXCEPT ![r] = rp'[r]]
    BY <1>0, <2>1, <2>2, <2>3 DEF RepairRow, RepairPc
  <2>. QED BY <1>1, <2>1, <2>4
<1>5. CASE Verify(r)
  <2>1. /\ rp' \in {[rp EXCEPT ![r].pc = "replace"], [rp EXCEPT ![r].pc = "rewrite"]}
        /\ UNCHANGED <<rset, inode, data, results>>
    BY <1>5 DEF Verify, Step
  <2>2. rp'[r] \in {[p EXCEPT !.pc = "replace"], [p EXCEPT !.pc = "rewrite"]}
        /\ rp' = [rp EXCEPT ![r] = rp'[r]]
    BY <1>0, <2>1
  <2>3. rp'[r] \in RepairRow /\ rp'[r].pc \notin idle
    BY <1>0, <2>2 DEF RepairRow, RepairPc
  <2>. QED BY <1>1, <2>1, <2>2, <2>3
<1>6. CASE Killed(r)
  <2>1. rp' = [rp EXCEPT ![r].pc = "dead"] /\ UNCHANGED <<rset, inode, data, results>>
    BY <1>6 DEF Killed, Step
  <2>2. rp'[r] = [p EXCEPT !.pc = "dead"] /\ rp' = [rp EXCEPT ![r] = rp'[r]]
    BY <1>0, <2>1
  <2>3. rp'[r] \in RepairRow /\ rp'[r].pc \notin idle
    BY <1>0, <2>2 DEF RepairRow, RepairPc
  <2>. QED BY <1>1, <2>1, <2>2, <2>3
<1>7. ASSUME NEW rows, rows \in {rp} \cup {Torn(i, r) : i \in 0 .. 8}, NEW row \in RepairRow,
             rp' = [rows EXCEPT ![r] = row], row.pc \in idle => row.from # 0 /\ row.to # 0,
             UNCHANGED rset, inode' \in [Names -> 0 .. 8], data' \in [Inodes -> Medium],
             \/ UNCHANGED results
             \/ \E t \in Target, s \in RepairStatus : results' = [results EXCEPT ![r][t] = s]
      PROVE  RepairTyped'
  <2>1. rp' \in [Repairer -> RepairRow]
        /\ \A q \in Repairer : rp'[q].pc \in idle => rp'[q].from # 0 /\ rp'[q].to # 0
    BY <1>7, RowsAfter
  <2>2. inode' = [n \in Names |-> inode'[n]] /\ data' = [i \in Inodes |-> data'[i]]
        /\ (\A n \in Names : inode'[n] \in 0 .. 8) /\ \A i \in Inodes : data'[i] \in Medium
    BY <1>7
  <2>. QED BY <1>7, <2>1, <2>2, TypesKept
<1>8. ASSUME NEW status \in RepairStatus, Done(r, status), UNCHANGED rset,
             inode' \in [Names -> 0 .. 8], data' \in [Inodes -> Medium]
      PROVE  RepairTyped'
  <2>1. rp' = [rp EXCEPT ![r] = Resting] /\ results' = [results EXCEPT ![r][p.t] = status]
    BY <1>8 DEF Done, Says
  <2>. QED BY <1>0, <1>7, <1>8, <2>1, RestingRow
<1>9. CASE Open(r)
  <2>. DEFINE i == IF Present(p.tmp) THEN inode[p.tmp] ELSE Fresh
              torn == ~ At(p.t).whole
              row == [p EXCEPT !.pc = "remux", !.from = inode[p.t], !.to = i, !.torn = torn]
  <2>1. /\ Present(p.t) /\ FreeInodes # {} /\ UNCHANGED <<rset, results>>
        /\ inode' = [inode EXCEPT ![p.tmp] = i] /\ data' = Cut(i)
        /\ rp' = [Torn(i, r) EXCEPT ![r].pc = "remux", ![r].from = inode[p.t], ![r].to = i,
                                    ![r].torn = torn]
    BY <1>9 DEF Open
  <2>2. i \in Inodes /\ i \in 0 .. 8 /\ i # 0 /\ inode[p.t] \in 0 .. 8 /\ inode[p.t] # 0
    BY <1>0, <2>1, FreshFree DEF Inodes, Present
  <2>3. torn \in BOOLEAN
    <3>1. At(p.t) \in Medium
      BY <1>0, <2>1
    <3>. QED BY <3>1 DEF Medium
  <2>. HIDE DEF i, torn
  <2>4. row \in RepairRow /\ row.from # 0 /\ row.to # 0
    BY <1>0, <2>2, <2>3 DEF RepairRow, RepairPc
  <2>5. rp' = [Torn(i, r) EXCEPT ![r] = row]
    <3>. DEFINE rows == Torn(i, r)
    <3>1. rows[r] = p /\ rows \in [Repairer -> RepairRow]
      BY TornRows
    <3>. HIDE DEF rows
    <3>2. rp' = [rows EXCEPT ![r] = row]
      BY <2>1, <3>1 DEF rows
    <3>. QED BY <3>2 DEF rows
  <2>6. inode' \in [Names -> 0 .. 8] /\ data' \in [Inodes -> Medium]
    BY <1>0, <2>1, <2>2, CutFiles
  <2>. HIDE DEF row
  <2>. QED BY <1>7, <2>1, <2>2, <2>4, <2>5, <2>6
<1>10. CASE Finish(r)
  <2>. DEFINE row == [p EXCEPT !.pc = "verify", !.from = 0, !.to = 0, !.torn = FALSE]
              new == [Remuxed(data[p.from]) EXCEPT !.whole = ~ p.torn]
  <2>1. /\ p.pc = "remux" /\ UNCHANGED <<rset, inode, results>> /\ data' = [data EXCEPT ![p.to] = new]
        /\ rp' = [rp EXCEPT ![r].pc = "verify", ![r].from = 0, ![r].to = 0, ![r].torn = FALSE]
    BY <1>10 DEF Finish
  <2>2. row \in RepairRow /\ row.pc = "verify" /\ rp' = [rp EXCEPT ![r] = row]
    <3>0. 0 \in 0 .. 8 /\ "verify" \in RepairPc
      BY DEF RepairPc
    <3>1. row \in RepairRow /\ row.pc = "verify"
      BY <1>0, <3>0 DEF RepairRow
    <3>2. rp' = [rp EXCEPT ![r] = row]
      BY <1>0, <2>1
    <3>. QED BY <3>1, <3>2
  <2>3. new \in Medium
    <3>1. data[p.from] \in Medium
      BY <1>0, <2>1, RowFacts
    <3>2. Remuxed(data[p.from]) \in Medium
      BY <3>1, RemuxedFields
    <3>. QED BY <3>2 DEF Medium
  <2>. HIDE DEF row, new
  <2>4. data' \in [Inodes -> Medium]
    BY <1>0, <2>1, <2>3
  <2>. QED BY <1>0, <1>7, <2>1, <2>2, <2>4
<1>11. CASE Replace(r)
  <2>1. inode' = [inode EXCEPT ![p.t] = inode[p.tmp], ![p.tmp] = 0] /\ UNCHANGED <<rset, data>>
        /\ Done(r, "repaired")
    BY <1>11 DEF Replace
  <2>2. inode' \in [Names -> 0 .. 8]
    BY <1>0, <2>1
  <2>. QED BY <1>0, <1>8, <2>1, <2>2 DEF RepairStatus
<1>12. CASE CopyOver(r)
  <2>. DEFINE n == Partial[p.t]
              i == IF Present(n) THEN inode[n] ELSE Fresh
              row == [p EXCEPT !.pc = "place", !.from = inode[p.tmp], !.to = i]
  <2>1. /\ Present(p.tmp) /\ FreeInodes # {} /\ UNCHANGED <<rset, results>>
        /\ inode' = [inode EXCEPT ![n] = i] /\ data' = Cut(i)
        /\ rp' = [Torn(i, r) EXCEPT ![r].pc = "place", ![r].from = inode[p.tmp], ![r].to = i]
    BY <1>12 DEF CopyOver
  <2>2. i \in Inodes /\ i \in 0 .. 8 /\ i # 0 /\ inode[p.tmp] \in 0 .. 8 /\ inode[p.tmp] # 0 /\ n \in Names
    <3>1. n \in Names /\ inode[p.tmp] \in 0 .. 8 /\ inode[p.tmp] # 0
      BY <1>0, <2>1 DEF Present
    <3>2. i \in Inodes
      BY <1>0, <2>1, <3>1, FreshFree
    <3>. QED BY <3>1, <3>2 DEF Inodes
  <2>. HIDE DEF i, n
  <2>4. row \in RepairRow /\ row.from # 0 /\ row.to # 0
    BY <1>0, <2>2 DEF RepairRow, RepairPc
  <2>5. rp' = [Torn(i, r) EXCEPT ![r] = row]
    <3>. DEFINE rows == Torn(i, r)
    <3>1. rows[r] = p /\ rows \in [Repairer -> RepairRow]
      BY TornRows
    <3>. HIDE DEF rows
    <3>2. rp' = [rows EXCEPT ![r] = row]
      BY <2>1, <3>1 DEF rows
    <3>. QED BY <3>2 DEF rows
  <2>6. inode' \in [Names -> 0 .. 8] /\ data' \in [Inodes -> Medium]
    BY <1>0, <2>1, <2>2, CutFiles
  <2>. HIDE DEF row
  <2>. QED BY <1>7, <2>1, <2>2, <2>4, <2>5, <2>6
<1>13. ASSUME p.pc \in {"place", "rewriting"},
              data' = [data EXCEPT ![p.to] = [data[p.from] EXCEPT !.whole = @ /\ ~ p.torn]]
       PROVE  data' \in [Inodes -> Medium]
  <2>1. data[p.from] \in Medium
    BY <1>0, <1>13, RowFacts
  <2>2. [data[p.from] EXCEPT !.whole = @ /\ ~ p.torn] \in Medium
    BY <2>1 DEF Medium
  <2>. QED BY <1>0, <1>13, <2>2
<1>14. CASE PlaceCopy(r)
  <2>1. /\ data' = [data EXCEPT ![p.to] = [data[p.from] EXCEPT !.whole = @ /\ ~ p.torn]]
        /\ inode' = [inode EXCEPT ![p.t] = inode[Partial[p.t]], ![Partial[p.t]] = 0, ![p.tmp] = 0]
        /\ Done(r, "repaired") /\ UNCHANGED rset /\ p.pc = "place"
    BY <1>14 DEF PlaceCopy
  <2>2. inode' \in [Names -> 0 .. 8]
    BY <1>0, <2>1
  <2>. QED BY <1>8, <1>13, <2>1, <2>2 DEF RepairStatus
<1>15. CASE Rewrite(r)
  <2>. DEFINE i == inode[p.t]
              row == [p EXCEPT !.pc = "rewriting", !.torn = FALSE, !.from = inode[p.tmp], !.to = i]
  <2>1. /\ Present(p.tmp) /\ Present(p.t) /\ UNCHANGED <<rset, inode, results>> /\ data' = Cut(i)
        /\ rp' = [Torn(i, r) EXCEPT ![r].pc = "rewriting", ![r].torn = FALSE,
                                    ![r].from = inode[p.tmp], ![r].to = i]
    BY <1>15 DEF Rewrite
  <2>2. i \in Inodes /\ i \in 0 .. 8 /\ i # 0 /\ inode[p.tmp] \in 0 .. 8 /\ inode[p.tmp] # 0
    BY <1>0, <2>1 DEF Present
  <2>. HIDE DEF i
  <2>4. row \in RepairRow /\ row.from # 0 /\ row.to # 0
    BY <1>0, <2>2 DEF RepairRow, RepairPc
  <2>5. rp' = [Torn(i, r) EXCEPT ![r] = row]
    <3>. DEFINE rows == Torn(i, r)
    <3>1. rows[r] = p /\ rows \in [Repairer -> RepairRow]
      BY TornRows
    <3>. HIDE DEF rows
    <3>2. rp' = [rows EXCEPT ![r] = row]
      BY <2>1, <3>1 DEF rows
    <3>. QED BY <3>2 DEF rows
  <2>6. data' \in [Inodes -> Medium]
    BY <1>0, <2>1, <2>2, CutFiles
  <2>. HIDE DEF row
  <2>. QED BY <1>0, <1>7, <2>1, <2>2, <2>4, <2>5, <2>6
<1>16. CASE Rewritten(r)
  <2>1. /\ data' = [data EXCEPT ![p.to] = [data[p.from] EXCEPT !.whole = @ /\ ~ p.torn]]
        /\ inode' = [inode EXCEPT ![p.tmp] = 0] /\ UNCHANGED rset /\ p.pc = "rewriting"
        /\ results' = [results EXCEPT ![r][p.t] = "repaired"]
        /\ rp' = [q \in Repairer |->
                   IF q = r THEN Resting
                   ELSE IF rp[q].pc = "rewriting" /\ rp[q].to = p.to /\ data[rp[q].from] = data[p.from]
                     THEN [rp[q] EXCEPT !.torn = FALSE] ELSE rp[q]]
    BY <1>16 DEF Rewritten, Says
  <2>2. inode' \in [Names -> 0 .. 8] /\ data' \in [Inodes -> Medium]
    BY <1>0, <1>13, <2>1
  <2>3. ASSUME NEW q \in Repairer
        PROVE  /\ rp'[q] \in RepairRow
               /\ rp'[q].pc \in idle => rp'[q].from # 0 /\ rp'[q].to # 0
    <3>1. CASE q = r
      BY <2>1, <3>1, RestingRow
    <3>2. CASE q # r
      <4>1. rp'[q] \in {rp[q], [rp[q] EXCEPT !.torn = FALSE]} /\ rp[q] \in RepairRow
        BY <1>0, <2>1, <3>2
      <4>2. rp'[q] \in RepairRow /\ rp'[q].pc = rp[q].pc /\ rp'[q].from = rp[q].from /\ rp'[q].to = rp[q].to
        BY <4>1 DEF RepairRow
      <4>. QED BY <4>2 DEF RepairTyped
    <3>. QED BY <3>1, <3>2
  <2>4. rp' \in [Repairer -> RepairRow]
    BY <2>1, <2>3
  <2>5. results' \in [Repairer -> [Target -> RepairStatus]]
    <3>1. results \in [Repairer -> [Target -> RepairStatus]]
      BY DEF RepairTyped
    <3>2. [results[r] EXCEPT ![p.t] = "repaired"] \in [Target -> RepairStatus]
      BY <3>1, <1>0 DEF RepairStatus
    <3>. QED BY <2>1, <3>1, <3>2
  <2>. QED BY <2>1, <2>2, <2>3, <2>4, <2>5 DEF RepairTyped
<1>17. ASSUME Abandon(r), UNCHANGED <<rset, data>> PROVE RepairTyped'
  <2>1. inode' \in [Names -> 0 .. 8] /\ data' \in [Inodes -> Medium]
    BY <1>0, <1>17 DEF Abandon
  <2>2. Done(r, "kept") \/ Done(r, "failed")
    BY <1>17 DEF Abandon
  <2>. QED BY <1>8, <1>17, <2>1, <2>2 DEF RepairStatus
<1>18. CASE Fails(r) \/ WriteFails(r)
  BY <1>17, <1>18 DEF Fails, WriteFails
<1>. QED
  BY <1>2, <1>3, <1>4, <1>5, <1>6, <1>9, <1>10, <1>11, <1>12, <1>14, <1>15, <1>16, <1>18

\* What a step of r leaves to the others: their rows but for torn, what they said, and the
\* files that are not films, but for r's own copies.
SameRow(q) == rp'[q] = [rp[q] EXCEPT !.torn = rp'[q].torn]

Mine(r, n) == (Owns(r) /\ n = rp[r].tmp) \/ (rp[r].pc = "place" /\ n = Partial[rp[r].t])

StepOf(r) ==
  /\ UNCHANGED rset
  /\ \A q \in Repairer \ {r} :
       /\ SameRow(q) /\ results'[q] = results[q]
       /\ rp[q].pc \in {"verify", "replace", "place"} => rp'[q].torn = rp[q].torn
  /\ \A t \in Target : results[r][t] # "none" => results'[r][t] = results[r][t]
  /\ \A n \in Names \ Target : Present(n) => Mine(r, n) \/ (inode'[n] = inode[n] /\ At(n)' = At(n))
  /\ \A t \in Target : /\ Present(t) => Present(t)'
                       /\ Shared(t) => inode'[t] = inode[t]
  /\ Owns(r)' => rp'[r].tmp = rp[r].tmp /\ (Owns(r) \/ ~ Present(rp[r].tmp))
  /\ rp'[r].pc = "place" => rp'[r].t = rp[r].t /\ ~ Present(Partial[rp[r].t])

\* The row of another.
LEMMA SameFields ==
  ASSUME RepairTyped, RepairTyped', NEW q \in Repairer, SameRow(q)
  PROVE  /\ rp'[q].pc = rp[q].pc /\ rp'[q].t = rp[q].t /\ rp'[q].seen = rp[q].seen
         /\ rp'[q].tmp = rp[q].tmp /\ rp'[q].from = rp[q].from /\ rp'[q].to = rp[q].to
         /\ Owns(q)' = Owns(q) /\ Works(q)' = Works(q) /\ Checked(q)' = Checked(q)
<1>1. rp[q] \in RepairRow
  BY RowFacts
<1>2. /\ rp'[q].pc = rp[q].pc /\ rp'[q].t = rp[q].t /\ rp'[q].seen = rp[q].seen
      /\ rp'[q].tmp = rp[q].tmp /\ rp'[q].from = rp[q].from /\ rp'[q].to = rp[q].to
  BY <1>1 DEF SameRow, RepairRow
<1>. QED BY <1>2 DEF Owns, Works, Checked

\* The sources and their repairs stay what they are.
LEMMA SourcesStay ==
  ASSUME UNCHANGED rset
  PROVE  \A t \in Target : Source(t)' = Source(t) /\ Mended(t)' = Mended(t) /\ Shared(t)' = Shared(t)
<1>1. \A t \in Target : Source(t)' = Source(t)
  BY DEF Source
<1>2. \A t \in Target : Mended(t)' = Mended(t)
  BY <1>1 DEF Mended, Remuxed
<1>. QED BY <1>1, <1>2 DEF Shared

\* What a name of another, present and not a film, is afterwards.
LEMMA OthersNames ==
  ASSUME RepairTyped, CopiesHeld, CopiesApart, NEW r \in Repairer, StepOf(r), NEW q \in Repairer \ {r}
  PROVE  /\ \A c : Owns(q) /\ c = rp[q].tmp => inode'[c] = inode[c] /\ At(c)' = At(c)
         /\ rp[q].pc = "place" => inode'[Partial[rp[q].t]] = inode[Partial[rp[q].t]]
<1>1. /\ rp[q].tmp \in Copies /\ rp[q].tmp \in Names \ Target /\ rp[r].tmp \in Copies
      /\ Partial[rp[q].t] \in Names \ (Target \cup Copies) /\ rp[q].t \in Target /\ rp[r].t \in Target
      /\ Partial[rp[r].t] \notin Copies
  BY RowFacts, NamesDiffer
<1>2. ASSUME Owns(q), NEW c, c = rp[q].tmp PROVE inode'[c] = inode[c] /\ At(c)' = At(c)
  <2>1. Present(c)
    BY <1>2 DEF CopiesHeld, Held
  <2>2. ~ Mine(r, c)
    BY <1>1, <1>2 DEF Mine, CopiesApart
  <2>3. c \in Names \ Target
    BY <1>1, <1>2
  <2>4. \A n \in Names \ Target : Present(n) => Mine(r, n) \/ (inode'[n] = inode[n] /\ At(n)' = At(n))
    BY DEF StepOf
  <2>. QED BY <2>1, <2>2, <2>3, <2>4
<1>3. ASSUME rp[q].pc = "place" PROVE inode'[Partial[rp[q].t]] = inode[Partial[rp[q].t]]
  <2>1. Present(Partial[rp[q].t])
    BY <1>3 DEF CopiesHeld, Held
  <2>2. ~ Mine(r, Partial[rp[q].t])
    BY <1>1, <1>3, NamesDiffer DEF Mine, CopiesApart
  <2>. QED BY <1>1, <2>1, <2>2 DEF StepOf
<1>. QED BY <1>2, <1>3

LEMMA OthersHeld ==
  ASSUME RepairTyped, RepairTyped', CopiesHeld, CopiesApart, NEW r \in Repairer, StepOf(r),
         NEW q \in Repairer \ {r}
  PROVE  Held(q)'
<1>1. /\ rp'[q].pc = rp[q].pc /\ rp'[q].t = rp[q].t /\ rp'[q].seen = rp[q].seen
      /\ rp'[q].tmp = rp[q].tmp /\ rp'[q].from = rp[q].from /\ rp'[q].to = rp[q].to
      /\ Owns(q)' = Owns(q) /\ Works(q)' = Works(q) /\ Checked(q)' = Checked(q)
      /\ results'[q] = results[q] /\ rp[q].t \in Target /\ rp[q].tmp \in Copies
      /\ rp[q].pc \in {"verify", "replace", "place"} => rp'[q].torn = rp[q].torn
  BY SameFields, RowFacts DEF StepOf
<1>0. PICK t \in Target, c \in Copies : t = rp[q].t /\ c = rp[q].tmp
  BY <1>1
<1>2. Source(t)' = Source(t) /\ Mended(t)' = Mended(t) /\ Shared(t)' = Shared(t)
  BY SourcesStay DEF StepOf
<1>3. Present(t) => Present(t)'
  BY DEF StepOf
<1>4. Owns(q) => /\ inode'[c] = inode[c] /\ (Present(c) => Present(c)') /\ At(c)' = At(c)
  BY <1>0, OthersNames DEF Present
<1>5. rp[q].pc = "place" => /\ inode'[Partial[t]] = inode[Partial[t]]
                            /\ Present(Partial[t]) => Present(Partial[t])'
  BY <1>0, OthersNames DEF Present
<1>6. rp[q].pc = "rewriting" => inode'[t] = inode[t]
  BY <1>0 DEF CopiesHeld, Held, StepOf
<1>7. rp'[q].t = t /\ rp'[q].tmp = c
  BY <1>0, <1>1
<1>. QED BY <1>0, <1>1, <1>2, <1>3, <1>4, <1>5, <1>6, <1>7 DEF CopiesHeld, Held, Owns, Checked, Works


\* What a step of r leaves of the invariant.
LEMMA CopiesStayApart ==
  ASSUME RepairTyped, RepairTyped', CopiesHeld, CopiesApart, NEW r \in Repairer, StepOf(r)
  PROVE  CopiesApart'
<1>1. ASSUME NEW q \in Repairer \ {r}
      PROVE  /\ Owns(r)' /\ Owns(q)' => rp'[r].tmp # rp'[q].tmp
             /\ rp'[r].pc = "place" /\ rp'[q].pc = "place" => rp'[r].t # rp'[q].t
  <2>1. /\ rp'[q].pc = rp[q].pc /\ rp'[q].t = rp[q].t /\ rp'[q].tmp = rp[q].tmp /\ Owns(q)' = Owns(q)
    BY SameFields DEF StepOf
  <2>2. (Owns(q) => Present(rp[q].tmp)) /\ (rp[q].pc = "place" => Present(Partial[rp[q].t]))
    BY DEF CopiesHeld, Held
  <2>3. ASSUME Owns(r)', Owns(q) PROVE rp'[r].tmp # rp[q].tmp
    <3>1. rp'[r].tmp = rp[r].tmp /\ (Owns(r) \/ ~ Present(rp[r].tmp))
      BY <2>3 DEF StepOf
    <3>. QED BY <2>2, <2>3, <3>1 DEF CopiesApart
  <2>4. ASSUME rp'[r].pc = "place", rp[q].pc = "place" PROVE rp'[r].t # rp[q].t
    <3>1. rp'[r].t = rp[r].t /\ ~ Present(Partial[rp[r].t])
      BY <2>4 DEF StepOf
    <3>. QED BY <2>2, <2>4, <3>1
  <2>. QED BY <2>1, <2>3, <2>4
<1>2. ASSUME NEW p \in Repairer \ {r}, NEW q \in Repairer \ {r}, p # q
      PROVE  /\ Owns(p)' /\ Owns(q)' => rp'[p].tmp # rp'[q].tmp
             /\ rp'[p].pc = "place" /\ rp'[q].pc = "place" => rp'[p].t # rp'[q].t
  <2>1. SameRow(p) /\ SameRow(q)
    BY DEF StepOf
  <2>2. /\ rp'[q].pc = rp[q].pc /\ rp'[q].t = rp[q].t /\ rp'[q].tmp = rp[q].tmp /\ Owns(q)' = Owns(q)
        /\ rp'[p].pc = rp[p].pc /\ rp'[p].t = rp[p].t /\ rp'[p].tmp = rp[p].tmp /\ Owns(p)' = Owns(p)
    BY <2>1, SameFields
  <2>3. /\ Owns(p) /\ Owns(q) => rp[p].tmp # rp[q].tmp
        /\ rp[p].pc = "place" /\ rp[q].pc = "place" => rp[p].t # rp[q].t
    BY <1>2 DEF CopiesApart
  <2>. QED BY <2>2, <2>3
<1>. QED BY <1>1, <1>2 DEF CopiesApart

\* A copy that a rewriting left is nobody else's.
LEMMA CopyStays ==
  ASSUME RepairTyped, RepairTyped', CopiesHeld, CopiesApart, NEW r \in Repairer, StepOf(r),
         NEW c \in Copies, Present(c), At(c) = Mended("film"),
         \A q \in Repairer : Owns(q) => rp[q].tmp # c
  PROVE  CopyLeft'
<1>1. c \in Names \ Target /\ rp[r].t \in Target
  BY NamesDiffer, RowFacts
<1>2. ~ Mine(r, c)
  BY <1>1, NamesDiffer DEF Mine
<1>3. inode'[c] = inode[c] /\ At(c)' = At(c)
  <2>1. \A n \in Names \ Target : Present(n) => Mine(r, n) \/ (inode'[n] = inode[n] /\ At(n)' = At(n))
    BY DEF StepOf
  <2>. QED BY <1>1, <1>2, <2>1
<1>4. Mended("film")' = Mended("film")
  BY SourcesStay DEF StepOf, Target
<1>5. ASSUME NEW q \in Repairer, Owns(q)' PROVE rp'[q].tmp # c
  <2>1. CASE q = r
    <3>1. rp'[r].tmp = rp[r].tmp /\ (Owns(r) \/ ~ Present(rp[r].tmp))
      BY <1>5, <2>1 DEF StepOf
    <3>. QED BY <2>1, <3>1
  <2>2. CASE q # r
    <3>1. SameRow(q)
      BY <2>2 DEF StepOf
    <3>. QED BY <1>5, <3>1, SameFields
  <2>. QED BY <2>1, <2>2
<1>6. Present(c)' /\ At(c)' = Mended("film")'
  BY <1>3, <1>4 DEF Present
<1>. QED BY <1>5, <1>6 DEF CopyLeft

\* Nor is one that a rewriting leaves now.
LEMMA CopyIsLeft ==
  ASSUME RepairTyped, RepairTyped', CopiesHeld, CopiesApart, NEW r \in Repairer, StepOf(r),
         rp[r].pc = "rewriting", ~ Owns(r)', UNCHANGED <<inode, data>>
  PROVE  CopyLeft'
<1>1. PICK c \in Copies : c = rp[r].tmp
  BY RowFacts
<1>2. Owns(r) /\ Checked(r)
  BY DEF Owns, Checked
<1>3. Present(c) /\ At(c) = Mended(rp[r].t) /\ Shared(rp[r].t)
  BY <1>1, <1>2 DEF CopiesHeld, Held
<1>4. At(c) = Mended("film")
  BY <1>3, RowFacts, SameFilm
<1>5. Mended("film")' = Mended("film")
  BY SourcesStay DEF StepOf, Target
<1>6. Present(c)' /\ At(c)' = At(c)
  BY <1>3 DEF Present, At
<1>7. ASSUME NEW q \in Repairer, Owns(q)' PROVE rp'[q].tmp # c
  <2>1. q # r
    BY <1>7
  <2>2. Owns(q) /\ rp'[q].tmp = rp[q].tmp
    BY <1>7, <2>1, SameFields DEF StepOf
  <2>. QED BY <1>1, <1>2, <2>1, <2>2 DEF CopiesApart
<1>. QED BY <1>4, <1>5, <1>6, <1>7 DEF CopyLeft

LEMMA StoppedStays ==
  ASSUME RepairTyped, RepairTyped', NEW r \in Repairer, StepOf(r), Stopped, rp[r].pc # "dead"
  PROVE  Stopped'
<1>1. PICK q \in Repairer :
        rp[q].pc = "dead" \/ \E t \in {"film", "link"} : results[q][t] = "kept"
  BY DEF Stopped
<1>2. CASE q = r
  <2>1. PICK t \in {"film", "link"} : results[r][t] = "kept"
    BY <1>1, <1>2
  <2>2. results'[r][t] = "kept"
    BY <2>1 DEF StepOf, Target
  <2>. QED BY <2>2 DEF Stopped
<1>3. CASE q # r
  <2>1. results'[q] = results[q] /\ rp'[q].pc = rp[q].pc
    BY <1>3, SameFields DEF StepOf
  <2>. QED BY <1>1, <2>1 DEF Stopped
<1>. QED BY <1>2, <1>3

\* What a step that does not touch the links leaves of them.
LEMMA LinksKept ==
  ASSUME RepairTyped, RepairTyped', CopiesHeld, CopiesApart, LinksSafe, NEW r \in Repairer, StepOf(r),
         rp[r].pc \notin {"dead", "rewriting"}, rp'[r].pc # "rewriting", rset.linked => data'[1] = data[1],
         rhurt \subseteq rhurt',
         \A q \in Repairer \ {r} : rp[q].pc = "rewriting" => rp'[q].torn = rp[q].torn
  PROVE  LinksSafe'
<1>. SUFFICES ASSUME rset'.linked
     PROVE /\ data'[1].whole => \A q \in Repairer : rp'[q].pc = "rewriting" => ~ rp'[q].torn
           /\ data'[1].whole \/ Rewriting' \/ (Stopped' /\ (CopyLeft' \/ "sweep" \in rhurt'))
  BY DEF LinksSafe
<1>1. rset.linked /\ data'[1] = data[1]
  BY DEF StepOf
<1>2. \A q \in Repairer \ {r} : rp'[q].pc = rp[q].pc
  BY SameFields DEF StepOf
<1>3. Rewriting => Rewriting'
  BY <1>2 DEF Rewriting
<1>4. Stopped => Stopped'
  BY StoppedStays
<1>5. CopyLeft => CopyLeft'
  BY CopyStays DEF CopyLeft
<1>. QED BY <1>1, <1>2, <1>3, <1>4, <1>5 DEF LinksSafe

\* A rewriting that stops leaves the copy.
LEMMA LinksLeft ==
  ASSUME RepairTyped, RepairTyped', CopiesHeld, CopiesApart, LinksSafe, NEW r \in Repairer, StepOf(r),
         rp[r].pc = "rewriting", ~ Owns(r)', UNCHANGED <<inode, data>>, Stopped',
         \A q \in Repairer \ {r} : rp'[q].torn = rp[q].torn
  PROVE  LinksSafe'
<1>1. rset' = rset /\ CopyLeft'
  BY CopyIsLeft DEF StepOf
<1>2. \A q \in Repairer \ {r} : rp'[q].pc = rp[q].pc
  BY SameFields DEF StepOf
<1>3. rp'[r].pc # "rewriting"
  BY DEF Owns
<1>. QED BY <1>1, <1>2, <1>3 DEF LinksSafe

\* A step that does not touch the films.
LEMMA FilmsStay ==
  ASSUME RepairTyped, UNCHANGED rset, FilmsKept, RepairsTold,
         \A t \in Target : inode'[t] = inode[t] /\ (Present(t) => At(t)' = At(t)),
         \A r \in Repairer, t \in Target : results'[r][t] = "repaired" => results[r][t] = "repaired"
  PROVE  FilmsKept' /\ RepairsTold'
<1>1. \A t \in Target : Source(t)' = Source(t) /\ Mended(t)' = Mended(t) /\ Shared(t)' = Shared(t)
  BY SourcesStay
<1>2. \A t \in Target : Present(t)' = Present(t) /\ (Present(t) => AsWhole(At(t))' = AsWhole(At(t)))
  BY DEF Present, AsWhole
<1>3. FilmsKept'
  BY <1>1, <1>2 DEF FilmsKept
<1>4. RepairsTold'
  BY <1>1, <1>2 DEF RepairsTold
<1>. QED BY <1>3, <1>4

\* A step of r keeps what it keeps of the films, if r holds what it should.
LEMMA PartsAfter ==
  ASSUME RepairTyped, RepairTyped', RepairParts, NEW r \in Repairer, StepOf(r),
         InodesApart', Held(r)', FilmsKept', RepairsTold', LinksSafe'
  PROVE  RepairParts'
<1>1. CopiesHeld /\ CopiesApart
  BY DEF RepairParts
<1>2. CopiesApart'
  BY <1>1, CopiesStayApart
<1>3. \A q \in Repairer \ {r} : Held(q)'
  BY <1>1, OthersHeld
<1>4. CopiesHeld'
  BY <1>3 DEF CopiesHeld
<1>. QED BY <1>2, <1>4 DEF RepairParts

\* The others, if only the row of r changes, and only r says something.
LEMMA OthersRows ==
  ASSUME RepairTyped, NEW r \in Repairer, rp' = [rp EXCEPT ![r] = rp'[r]],
         UNCHANGED results \/ \E t \in Target : \E s : results' = [results EXCEPT ![r][t] = s]
  PROVE  \A q \in Repairer \ {r} :
           SameRow(q) /\ rp'[q] = rp[q] /\ results'[q] = results[q]
<1>. SUFFICES ASSUME NEW q \in Repairer \ {r}
              PROVE  SameRow(q) /\ rp'[q] = rp[q] /\ results'[q] = results[q]
  OBVIOUS
<1>1. rp'[q] = rp[q] /\ rp[q] \in RepairRow
  BY DEF RepairTyped
<1>2. SameRow(q)
  BY <1>1 DEF SameRow, RepairRow
<1>3. results'[q] = results[q]
  BY DEF RepairTyped
<1>. QED BY <1>1, <1>2, <1>3

\* What r said.
LEMMA OwnWords ==
  ASSUME RepairTyped, NEW r \in Repairer, NEW u \in Target, NEW s,
         results[r][u] = "none", results' = [results EXCEPT ![r][u] = s]
  PROVE  /\ results'[r][u] = s
         /\ \A t \in Target : (results[r][t] # "none" \/ t # u) => results'[r][t] = results[r][t]
         /\ \A q \in Repairer, t \in Target : (q # r \/ t # u) => results'[q][t] = results[q][t]
BY DEF RepairTyped

\* A step that writes nothing, and removes at most copies of its own.
LEMMA QuietStep ==
  ASSUME RepairTyped, RepairTyped', RepairParts, NEW r \in Repairer, UNCHANGED <<rset, data>>,
         rp' = [rp EXCEPT ![r] = rp'[r]], rhurt \subseteq rhurt',
         \A t \in Target : inode'[t] = inode[t],
         \A n \in Names \ Target : inode'[n] = inode[n] \/ (Mine(r, n) /\ inode'[n] = 0),
         \/ UNCHANGED results
         \/ \E t \in Target, s \in RepairStatus \ {"repaired"} :
              results[r][t] = "none" /\ results' = [results EXCEPT ![r][t] = s],
         rp[r].pc # "dead", rp'[r].pc \notin {"place", "rewriting"},
         Owns(r)' => Owns(r) /\ rp'[r].tmp = rp[r].tmp, Held(r)',
         rp[r].pc = "rewriting" => Stopped' /\ UNCHANGED inode /\ ~ Owns(r)'
  PROVE  RepairParts'
<1>1. /\ RepairTyped /\ InodesApart /\ CopiesHeld /\ CopiesApart /\ FilmsKept /\ RepairsTold /\ LinksSafe
  BY DEF RepairParts
<1>2. \A q \in Repairer \ {r} : SameRow(q) /\ rp'[q] = rp[q] /\ results'[q] = results[q]
  <2>1. UNCHANGED results \/ \E t \in Target : \E s : results' = [results EXCEPT ![r][t] = s]
    OBVIOUS
  <2>. QED BY <2>1, OthersRows
<1>3. /\ \A t \in Target : results[r][t] # "none" => results'[r][t] = results[r][t]
      /\ \A q \in Repairer, t \in Target : results'[q][t] = "repaired" => results[q][t] = "repaired"
  <2>1. CASE UNCHANGED results
    BY <2>1
  <2>2. CASE \E t \in Target, s \in RepairStatus \ {"repaired"} :
               results[r][t] = "none" /\ results' = [results EXCEPT ![r][t] = s]
    <3>1. PICK u \in Target, s \in RepairStatus \ {"repaired"} :
            results[r][u] = "none" /\ results' = [results EXCEPT ![r][u] = s]
      BY <2>2
    <3>2. /\ results'[r][u] = s
          /\ \A t \in Target : (results[r][t] # "none" \/ t # u) => results'[r][t] = results[r][t]
          /\ \A q \in Repairer, t \in Target : (q # r \/ t # u) => results'[q][t] = results[q][t]
      BY <3>1, OwnWords
    <3>3. s # "repaired"
      OBVIOUS
    <3>. QED BY <3>2, <3>3
  <2>. QED BY <2>1, <2>2
<1>4. StepOf(r)
  <2>1. \A n \in Names \ Target :
          Present(n) => Mine(r, n) \/ (inode'[n] = inode[n] /\ At(n)' = At(n))
    BY DEF At
  <2>2. \A t \in Target : (Present(t) => Present(t)') /\ (Shared(t) => inode'[t] = inode[t])
    BY DEF Present
  <2>. QED BY <1>2, <1>3, <2>1, <2>2 DEF StepOf
<1>5. InodesApart'
  <2>1. "film" \in Target /\ "link" \in Target /\ \A n \in Names : inode'[n] = inode[n] \/ inode'[n] = 0
    BY DEF Target
  <2>. QED BY <1>1, <2>1 DEF InodesApart
<1>6. FilmsKept' /\ RepairsTold'
  <2>1. \A t \in Target : inode'[t] = inode[t] /\ (Present(t) => At(t)' = At(t))
    BY DEF At
  <2>. QED BY <1>1, <1>3, <2>1, FilmsStay
<1>7. LinksSafe'
  <2>1. CASE rp[r].pc = "rewriting"
    BY <1>1, <1>2, <1>4, <2>1, LinksLeft
  <2>2. CASE rp[r].pc # "rewriting"
    BY <1>1, <1>2, <1>4, <2>2, LinksKept
  <2>. QED BY <2>1, <2>2
<1>. QED BY <1>4, <1>5, <1>6, <1>7, PartsAfter

\* A step that starts a file.
LEMMA NewFile ==
  ASSUME RepairTyped, RepairTyped', RepairParts, NEW r \in Repairer, UNCHANGED <<rset, results>>,
         rp' = [rp EXCEPT ![r] = rp'[r]], rhurt \subseteq rhurt', FreeInodes # {},
         NEW n \in Names \ Target, ~ Present(n), inode' = [inode EXCEPT ![n] = Fresh], data' = Cut(Fresh),
         rp[r].pc \notin {"dead", "rewriting"}, rp'[r].pc # "rewriting",
         Owns(r)' => rp'[r].tmp = rp[r].tmp /\ (Owns(r) \/ n = rp[r].tmp),
         rp'[r].pc = "place" => rp'[r].t = rp[r].t /\ n = Partial[rp[r].t], Held(r)'
  PROVE  RepairParts'
<1>1. /\ InodesApart /\ CopiesHeld /\ CopiesApart /\ FilmsKept /\ RepairsTold /\ LinksSafe
  BY DEF RepairParts
<1>2. \A q \in Repairer \ {r} : SameRow(q) /\ rp'[q] = rp[q] /\ results'[q] = results[q]
  BY OthersRows
<1>3. /\ Fresh \in Inodes /\ Fresh # 0 /\ \A m \in Names : inode[m] # Fresh
  BY FreshFree DEF Inodes
<1>4. \A m \in Names : m # n => inode'[m] = inode[m] /\ (Present(m) => At(m)' = At(m))
  <2>1. inode \in [Names -> 0 .. 8]
    BY DEF RepairTyped
  <2>2. \A i \in Inodes \ {Fresh} : data'[i] = data[i]
    BY <1>3, CutFiles
  <2>3. \A m \in Names : Present(m) => inode[m] \in Inodes \ {Fresh}
    BY <1>3, RowFacts
  <2>4. \A m \in Names : m # n => inode'[m] = inode[m]
    BY <2>1
  <2>. QED BY <2>2, <2>3, <2>4 DEF At
<1>5. inode'[n] = Fresh
  BY DEF RepairTyped
<1>6. \A t \in Target : t # n /\ t \in Names
  BY NamesDiffer
<1>7. StepOf(r)
  <2>1. \A m \in Names \ Target : Present(m) => (inode'[m] = inode[m] /\ At(m)' = At(m))
    BY <1>4
  <2>2. \A t \in Target : (Present(t) => Present(t)') /\ (Shared(t) => inode'[t] = inode[t])
    BY <1>4, <1>6 DEF Present
  <2>. QED BY <1>2, <2>1, <2>2 DEF StepOf
<1>8. InodesApart'
  <2>1. inode'["film"] = inode["film"] /\ inode'["link"] = inode["link"]
    BY <1>4, <1>6 DEF Target
  <2>. QED BY <1>1, <1>3, <1>4, <1>5, <2>1 DEF InodesApart
<1>9. FilmsKept' /\ RepairsTold'
  BY <1>1, <1>4, <1>6, FilmsStay
<1>10. LinksSafe'
  <2>1. rset.linked => data'[1] = data[1]
    <3>1. rset.linked => Fresh # 1
      BY <1>1, <1>3, <1>6 DEF InodesApart, Target
    <3>. QED BY <1>3, <3>1, CutFiles DEF Inodes
  <2>. QED BY <1>1, <1>2, <1>7, <2>1, LinksKept
<1>. QED BY <1>7, <1>8, <1>9, <1>10, PartsAfter

\* Nobody who is idle or dead holds anything.
LEMMA IdleHolds ==
  ASSUME NEW r \in Repairer, rp'[r].pc \in {"idle", "dead"}
  PROVE  Held(r)' /\ ~ Owns(r)'
BY DEF Held, Works, Owns, Checked

\* What r's row is after a step that sets it.
LEMMA RowOfStep ==
  ASSUME RepairTyped, NEW r \in Repairer, NEW row, rp' = [rp EXCEPT ![r] = row]
  PROVE  rp'[r] = row /\ rp' = [rp EXCEPT ![r] = rp'[r]]
BY DEF RepairTyped

\* A step that ends in giving up.
LEMMA GivesUp ==
  ASSUME RepairTyped, RepairTyped', RepairParts, NEW r \in Repairer, UNCHANGED <<rset, data>>,
         rhurt \subseteq rhurt', Works(r), NEW status \in {"failed", "kept"}, Done(r, status),
         \A t \in Target : inode'[t] = inode[t],
         \A n \in Names \ Target : inode'[n] = inode[n] \/ (Mine(r, n) /\ inode'[n] = 0),
         rp[r].pc = "rewriting" => status = "kept" /\ UNCHANGED inode
  PROVE  RepairParts'
<1>1. rp'[r] = Resting /\ rp' = [rp EXCEPT ![r] = rp'[r]]
  BY RowOfStep DEF Done
<1>2. rp'[r].pc = "idle" /\ Held(r)' /\ ~ Owns(r)'
  BY <1>1, RestingRow, IdleHolds
<1>3. PICK t \in Target : t = rp[r].t
  BY RowFacts
<1>4. results[r][t] = "none" /\ results' = [results EXCEPT ![r][t] = status]
  BY <1>3 DEF RepairParts, CopiesHeld, Held, Done, Says
<1>5. rp[r].pc \notin {"idle", "dead"}
  BY DEF Works
<1>6. rp[r].pc = "rewriting" => Stopped' /\ UNCHANGED inode /\ ~ Owns(r)'
  <2>. SUFFICES ASSUME rp[r].pc = "rewriting" PROVE Stopped'
    BY <1>2
  <2>1. rset.linked /\ t \in {"film", "link"}
    BY <1>3 DEF RepairParts, CopiesHeld, Held, Shared
  <2>2. results'[r][t] = "kept"
    BY <1>4, OwnWords
  <2>. QED BY <2>1, <2>2 DEF Stopped
<1>7. status \in RepairStatus \ {"repaired"}
  BY DEF RepairStatus
<1>8. \E u \in Target, s \in RepairStatus \ {"repaired"} :
        results[r][u] = "none" /\ results' = [results EXCEPT ![r][u] = s]
  BY <1>4, <1>7
<1>. QED BY <1>1, <1>2, <1>5, <1>6, <1>8, QuietStep

\* What a repair drops of a film it finds is of its source.
LEMMA ProbedIsSource ==
  ASSUME RepairTyped, FilmsKept, NEW t \in Target, Present(t), NeedsRepair(At(t))
  PROVE  At(t) \in Medium /\ AsWhole(At(t)) = Source(t)
<1>1. At(t) \in Medium
  BY RowFacts, NamesDiffer DEF RepairTyped, Present, At, Inodes
<1>2. NeedsRepair(AsWhole(At(t)))
  BY <1>1, WholeApart
<1>3. AsWhole(At(t)) # Mended(t)
  BY <1>2, SourceFields
<1>. QED BY <1>1, <1>3 DEF FilmsKept

LEMMA ProbeKeeps ==
  ASSUME RepairTyped, RepairTyped', RepairParts, NEW r \in Repairer, NEW t \in Target, Probe(r, t)
  PROVE  RepairParts'
<1>1. /\ rp[r].pc = "idle" /\ results[r][t] = "none" /\ Present(t)
      /\ UNCHANGED <<rset, inode, data, rhurt>>
  BY DEF Probe
<1>2. CASE UNCHANGED rp /\ \E s \in {"failed", "normal", "skipped"} : Says(r, t, s)
  <2>1. rp'[r].pc = "idle" /\ Held(r)' /\ ~ Owns(r)' /\ rp' = [rp EXCEPT ![r] = rp'[r]]
    BY <1>1, <1>2, IdleHolds DEF RepairTyped
  <2>2. \E u \in Target, s \in RepairStatus \ {"repaired"} :
          results[r][u] = "none" /\ results' = [results EXCEPT ![r][u] = s]
    BY <1>1, <1>2 DEF Says, RepairStatus
  <2>. QED BY <1>1, <2>1, <2>2, QuietStep
<1>3. CASE Wanted(r, At(t)) /\ UNCHANGED results
           /\ rp' = [rp EXCEPT ![r] = [Resting EXCEPT !.pc = "choose", !.t = t, !.seen = At(t)]]
  <2>. DEFINE row == [Resting EXCEPT !.pc = "choose", !.t = t, !.seen = At(t)]
  <2>1. rp'[r] = row /\ rp' = [rp EXCEPT ![r] = rp'[r]]
    BY <1>3, RowOfStep
  <2>2. row.pc = "choose" /\ row.t = t /\ row.seen = At(t)
    BY DEF Resting
  <2>3. At(t) \in Medium /\ AsWhole(At(t)) = Source(t)
    BY <1>1, <1>3, ProbedIsSource DEF Wanted, RepairParts
  <2>4. Source(t)' = Source(t) /\ Present(t)' /\ results'[r][t] = "none"
    BY <1>1, <1>3, SourcesStay DEF Present
  <2>. HIDE DEF row
  <2>5. Held(r)'
    BY <2>1, <2>2, <2>3, <2>4 DEF Held, Owns, Checked
  <2>6. ~ Owns(r)' /\ rp'[r].pc = "choose"
    BY <2>1, <2>2 DEF Owns
  <2>. QED BY <1>1, <1>3, <2>1, <2>5, <2>6, QuietStep
<1>. QED BY <1>2, <1>3 DEF Probe

LEMMA ChooseKeeps ==
  ASSUME RepairTyped, RepairTyped', RepairParts, NEW r \in Repairer, Choose(r)
  PROVE  RepairParts'
<1>1. PICK c : /\ rp[r].pc = "choose" /\ UNCHANGED <<rset, inode, data, results, rhurt>>
               /\ rp' = [rp EXCEPT ![r].pc = "open", ![r].tmp = c]
  BY DEF Choose
<1>2. rp'[r] = [rp[r] EXCEPT !.pc = "open", !.tmp = c] /\ rp' = [rp EXCEPT ![r] = rp'[r]]
  BY <1>1 DEF RepairTyped
<1>3. rp'[r].pc = "open" /\ rp'[r].t = rp[r].t /\ rp'[r].seen = rp[r].seen
  BY <1>2, RowFacts DEF RepairRow
<1>4. PICK t \in Target : t = rp[r].t
  BY RowFacts
<1>5. Source(t)' = Source(t) /\ Present(t)' = Present(t)
  BY <1>1, SourcesStay DEF Present
<1>6. Held(r)' /\ ~ Owns(r)'
  BY <1>1, <1>3, <1>4, <1>5 DEF RepairParts, CopiesHeld, Held, Works, Owns, Checked, RepairPc
<1>. QED BY <1>1, <1>2, <1>3, <1>6, QuietStep

\* A copy that is verified is what the repair makes of the film.
LEMMA VerifiedIsMended ==
  ASSUME RepairTyped, NEW r \in Repairer, Held(r), Works(r), NEW d, Verified(rp[r].seen, d)
  PROVE  d = Mended(rp[r].t)
<1>1. rp[r].seen \in Medium /\ AsWhole(rp[r].seen) = Source(rp[r].t)
  BY DEF Held
<1>2. d = AsWhole(Remuxed(rp[r].seen))
  BY DEF Verified, AsWhole
<1>. QED BY <1>1, <1>2, WholeApart DEF Mended

LEMMA VerifyKeeps ==
  ASSUME RepairTyped, RepairTyped', RepairParts, NEW r \in Repairer, Verify(r)
  PROVE  RepairParts'
<1>1. /\ rp[r].pc = "verify" /\ UNCHANGED <<rset, inode, data, results, rhurt>>
      /\ Verified(rp[r].seen, At(rp[r].tmp)) /\ Present(rp[r].tmp) /\ Present(rp[r].t)
      /\ rp' = [rp EXCEPT ![r].pc = IF Links(rp[r].t) = 1 THEN "replace" ELSE "rewrite"]
  BY DEF Verify, Step, Replaces
<1>2. PICK t \in Target, c \in Copies : t = rp[r].t /\ c = rp[r].tmp
  BY RowFacts
<1>3. /\ Works(r) /\ Owns(r) /\ Held(r)
  BY <1>1 DEF Works, Owns, RepairParts, CopiesHeld, RepairPc
<1>4. Links(t) = 1 <=> ~ Shared(t)
  BY <1>1, <1>2, LinksOf DEF RepairParts
<1>5. PICK pc \in {"replace", "rewrite"} :
        /\ rp' = [rp EXCEPT ![r].pc = pc] /\ (pc = "replace" => ~ Shared(t)) /\ (pc = "rewrite" => Shared(t))
  BY <1>1, <1>2, <1>4
<1>6. rp'[r] = [rp[r] EXCEPT !.pc = pc] /\ rp' = [rp EXCEPT ![r] = rp'[r]]
  BY <1>5 DEF RepairTyped
<1>7. /\ rp'[r].pc = pc /\ rp'[r].t = t /\ rp'[r].tmp = c /\ rp'[r].seen = rp[r].seen
      /\ rp'[r].from = rp[r].from /\ rp'[r].to = rp[r].to /\ rp'[r].torn = rp[r].torn
  BY <1>2, <1>6, RowFacts DEF RepairRow
<1>8. At(c) = Mended(t)
  BY <1>1, <1>2, <1>3, VerifiedIsMended
<1>9. /\ Source(t)' = Source(t) /\ Mended(t)' = Mended(t) /\ Shared(t)' = Shared(t)
      /\ Present(t)' = Present(t) /\ Present(c)' = Present(c) /\ At(c)' = At(c)
  BY <1>1, SourcesStay DEF Present, At
<1>10. Held(r)'
  BY <1>1, <1>2, <1>3, <1>5, <1>7, <1>8, <1>9 DEF Held
<1>. QED BY <1>1, <1>2, <1>3, <1>5, <1>6, <1>7, <1>10, QuietStep

LEMMA KilledKeeps ==
  ASSUME RepairTyped, RepairTyped', RepairParts, NEW r \in Repairer, Killed(r)
  PROVE  RepairParts'
<1>1. /\ rp[r].pc \notin {"idle", "dead"} /\ UNCHANGED <<rset, inode, data, results>>
      /\ rp' = [rp EXCEPT ![r].pc = "dead"] /\ rhurt \subseteq rhurt'
  BY DEF Killed, Step, Hurt
<1>2. rp'[r] = [rp[r] EXCEPT !.pc = "dead"] /\ rp' = [rp EXCEPT ![r] = rp'[r]]
  BY <1>1 DEF RepairTyped
<1>3. rp'[r].pc = "dead"
  BY <1>2, RowFacts DEF RepairRow
<1>4. Held(r)' /\ ~ Owns(r)' /\ Stopped'
  BY <1>3, IdleHolds DEF Stopped
<1>. QED BY <1>1, <1>2, <1>3, <1>4, QuietStep

\* A repair that fails removes its copies, or keeps the one it rewrote from.
LEMMA AbandonKeeps ==
  ASSUME RepairTyped, RepairTyped', RepairParts, NEW r \in Repairer, Abandon(r),
         UNCHANGED <<rset, data>>, rhurt \subseteq rhurt', Owns(r)
  PROVE  RepairParts'
<1>1. Works(r)
  BY DEF Works, Owns, RepairPc
<1>2. CASE rp[r].pc = "rewriting"
  BY <1>1, <1>2, GivesUp DEF Abandon
<1>3. CASE rp[r].pc # "rewriting"
  <2>. DEFINE n == Partial[rp[r].t]
  <2>1. /\ inode' = [inode EXCEPT ![rp[r].tmp] = 0, ![n] = IF rp[r].pc = "place" THEN 0 ELSE @]
        /\ Done(r, "failed")
    BY <1>3 DEF Abandon
  <2>2. rp[r].tmp \in Names \ Target /\ n \in Names \ Target /\ rp[r].tmp # n
    BY RowFacts, NamesDiffer
  <2>3. \A m \in Names : inode'[m] = IF m = rp[r].tmp \/ (m = n /\ rp[r].pc = "place") THEN 0 ELSE inode[m]
    BY <2>1, <2>2 DEF RepairTyped
  <2>4. \A t \in Target : inode'[t] = inode[t]
    BY <2>2, <2>3, NamesDiffer
  <2>5. \A m \in Names \ Target : inode'[m] = inode[m] \/ (Mine(r, m) /\ inode'[m] = 0)
    BY <2>3 DEF Mine
  <2>. QED BY <1>1, <1>3, <2>1, <2>4, <2>5, GivesUp
<1>. QED BY <1>2, <1>3

LEMMA FailsKeeps ==
  ASSUME RepairTyped, RepairTyped', RepairParts, NEW r \in Repairer, Fails(r) \/ WriteFails(r)
  PROVE  RepairParts'
<1>1. Abandon(r) /\ UNCHANGED <<rset, data>> /\ rhurt \subseteq rhurt'
  BY DEF Fails, WriteFails, Hurt
<1>2. Owns(r)
  <2>1. CASE WriteFails(r)
    BY <2>1 DEF WriteFails, Owns
  <2>2. CASE Amiss(r)
    BY <2>2 DEF Amiss, RepairParts, CopiesHeld, Held, Works, Owns, RepairPc
  <2>. QED BY <2>1, <2>2 DEF Fails
<1>. QED BY <1>1, <1>2, AbandonKeeps

LEMMA NoSpaceKeeps ==
  ASSUME RepairTyped, RepairTyped', RepairParts, NEW r \in Repairer, NoSpace(r)
  PROVE  RepairParts'
<1>1. rp[r].pc = "choose" /\ Works(r) /\ Done(r, "failed") /\ UNCHANGED <<rset, inode, data, rhurt>>
  BY DEF NoSpace, Works, RepairPc
<1>. QED BY <1>1, GivesUp

\* A step that opens a copy, if the name is still free.
LEMMA OpenKeeps ==
  ASSUME RepairTyped, RepairTyped', RepairParts, NEW r \in Repairer, Open(r), "clash" \notin rhurt'
  PROVE  RepairParts'
<1>. DEFINE p == rp[r]
            torn == ~ At(p.t).whole
<1>1. PICK t \in Target, c \in Copies : t = p.t /\ c = p.tmp /\ t \in Names /\ c \in Names \ Target
  BY RowFacts, NamesDiffer
<1>2. /\ p.pc = "open" /\ Present(t) /\ FreeInodes # {} /\ UNCHANGED <<rset, results>> /\ ~ Present(c)
      /\ inode' = [inode EXCEPT ![c] = Fresh] /\ data' = Cut(Fresh) /\ rhurt' = rhurt
      /\ rp' = [Torn(Fresh, r) EXCEPT ![r].pc = "remux", ![r].from = inode[t], ![r].to = Fresh,
                                      ![r].torn = torn]
  BY <1>1 DEF Open
<1>3. Torn(Fresh, r) = rp
  BY <1>2, FreshFree, NobodyTorn
<1>4. rp'[r] = [p EXCEPT !.pc = "remux", !.from = inode[t], !.to = Fresh, !.torn = torn]
      /\ rp' = [rp EXCEPT ![r] = rp'[r]]
  BY <1>2, <1>3 DEF RepairTyped
<1>. HIDE DEF torn
<1>5. /\ rp'[r].pc = "remux" /\ rp'[r].t = t /\ rp'[r].tmp = c /\ rp'[r].seen = p.seen /\ rp'[r].to = Fresh
  BY <1>1, <1>4, RowFacts DEF RepairRow
<1>6. inode'[c] = Fresh /\ inode'[t] = inode[t] /\ Fresh # 0
  BY <1>1, <1>2, FreshFree DEF RepairTyped, Inodes
<1>7. Source(t)' = Source(t) /\ Present(t)' /\ Present(c)'
  BY <1>2, <1>6, SourcesStay DEF Present
<1>8. results[r][t] = "none" /\ p.seen \in Medium /\ AsWhole(p.seen) = Source(t)
  BY <1>1, <1>2 DEF RepairParts, CopiesHeld, Held, Works, RepairPc
<1>9. Held(r)'
  BY <1>2, <1>5, <1>6, <1>7, <1>8 DEF Held, Checked
<1>. QED BY <1>1, <1>2, <1>4, <1>5, <1>9, NewFile

LEMMA CopyOverKeeps ==
  ASSUME RepairTyped, RepairTyped', RepairParts, NEW r \in Repairer, CopyOver(r), "clash" \notin rhurt'
  PROVE  RepairParts'
<1>. DEFINE p == rp[r]
<1>1. PICK t \in Target, c \in Copies, n \in Names \ Target :
        t = p.t /\ c = p.tmp /\ n = Partial[p.t] /\ t \in Names /\ c \in Names /\ n # c /\ n # t
  BY RowFacts, NamesDiffer
<1>2. /\ p.pc = "replace" /\ Present(c) /\ FreeInodes # {} /\ UNCHANGED <<rset, results>> /\ ~ Present(n)
      /\ inode' = [inode EXCEPT ![n] = Fresh] /\ data' = Cut(Fresh) /\ rhurt' = rhurt
      /\ rp' = [Torn(Fresh, r) EXCEPT ![r].pc = "place", ![r].from = inode[c], ![r].to = Fresh]
  BY <1>1 DEF CopyOver
<1>3. Torn(Fresh, r) = rp
  BY <1>2, FreshFree, NobodyTorn
<1>4. rp'[r] = [p EXCEPT !.pc = "place", !.from = inode[c], !.to = Fresh] /\ rp' = [rp EXCEPT ![r] = rp'[r]]
  BY <1>2, <1>3 DEF RepairTyped
<1>5. /\ rp'[r].pc = "place" /\ rp'[r].t = t /\ rp'[r].tmp = c /\ rp'[r].seen = p.seen /\ rp'[r].to = Fresh
      /\ rp'[r].from = inode[c] /\ rp'[r].torn = p.torn
  BY <1>1, <1>4, RowFacts DEF RepairRow
<1>6. inode'[n] = Fresh /\ inode'[t] = inode[t] /\ inode'[c] = inode[c] /\ Fresh # 0
  BY <1>1, <1>2, FreshFree DEF RepairTyped, Inodes
<1>7. At(c)' = At(c)
  <2>1. inode[c] \in Inodes /\ inode[c] # Fresh
    BY <1>1, <1>2, RowFacts, FreshFree
  <2>. QED BY <1>2, <1>6, <2>1, FreshFree, CutFiles DEF At
<1>8. /\ results[r][t] = "none" /\ p.seen \in Medium /\ AsWhole(p.seen) = Source(t) /\ Present(t)
      /\ ~ Shared(t) /\ At(c) = Mended(t) /\ ~ p.torn
  BY <1>1, <1>2 DEF RepairParts, CopiesHeld, Held, Works, Checked, RepairPc
<1>9. /\ Source(t)' = Source(t) /\ Mended(t)' = Mended(t) /\ Shared(t)' = Shared(t) /\ Present(t)'
      /\ Present(c)' /\ Present(n)'
  BY <1>2, <1>6, <1>8, SourcesStay DEF Present
<1>10. Held(r)'
  BY <1>1, <1>2, <1>5, <1>6, <1>7, <1>8, <1>9 DEF Held
<1>11. Owns(r)
  BY <1>2 DEF Owns
<1>. QED BY <1>1, <1>2, <1>4, <1>5, <1>10, <1>11, NewFile

\* A copy that is written to is nobody else's inode.
LEMMA OwnInode ==
  ASSUME RepairTyped, InodesApart, NEW c \in Names \ Target, Present(c)
  PROVE  /\ \A n \in Names : n # c => inode[n] # inode[c]
         /\ rset.linked => inode[c] # 1
BY NamesDiffer DEF InodesApart, Present, Target

LEMMA FinishKeeps ==
  ASSUME RepairTyped, RepairTyped', RepairParts, NEW r \in Repairer, Finish(r)
  PROVE  RepairParts'
<1>. DEFINE p == rp[r]
            new == [Remuxed(data[p.from]) EXCEPT !.whole = ~ p.torn]
<1>1. PICK t \in Target, c \in Copies : t = p.t /\ c = p.tmp /\ t \in Names /\ c \in Names \ Target
  BY RowFacts, NamesDiffer
<1>2. /\ p.pc = "remux" /\ UNCHANGED <<rset, inode, results, rhurt>> /\ data' = [data EXCEPT ![p.to] = new]
      /\ rp' = [rp EXCEPT ![r].pc = "verify", ![r].from = 0, ![r].to = 0, ![r].torn = FALSE]
  BY DEF Finish
<1>. HIDE DEF new
<1>3. /\ results[r][t] = "none" /\ p.seen \in Medium /\ AsWhole(p.seen) = Source(t) /\ Present(t)
      /\ Present(c) /\ p.to = inode[c] /\ Owns(r)
  BY <1>1, <1>2 DEF RepairParts, CopiesHeld, Held, Works, Owns, RepairPc
<1>4. /\ InodesApart /\ CopiesHeld /\ CopiesApart /\ FilmsKept /\ RepairsTold /\ LinksSafe
  BY DEF RepairParts
<1>5. rp'[r] = [p EXCEPT !.pc = "verify", !.from = 0, !.to = 0, !.torn = FALSE]
      /\ rp' = [rp EXCEPT ![r] = rp'[r]]
  BY <1>2 DEF RepairTyped
<1>6. /\ rp'[r].pc = "verify" /\ rp'[r].t = t /\ rp'[r].tmp = c /\ rp'[r].seen = p.seen
      /\ rp'[r].from = 0 /\ rp'[r].to = 0 /\ ~ rp'[r].torn
  BY <1>1, <1>5, RowFacts DEF RepairRow
<1>7. \A q \in Repairer \ {r} : SameRow(q) /\ rp'[q] = rp[q] /\ results'[q] = results[q]
  BY <1>2, <1>5, OthersRows
<1>8. /\ \A n \in Names : n # c => inode[n] # inode[c]
      /\ rset.linked => inode[c] # 1
  BY <1>1, <1>3, <1>4, OwnInode
<1>9. \A n \in Names : n # c => At(n)' = At(n)
  BY <1>2, <1>3, <1>8 DEF At, RepairTyped
<1>10. StepOf(r)
  <2>1. \A n \in Names \ Target :
          Present(n) => Mine(r, n) \/ (inode'[n] = inode[n] /\ At(n)' = At(n))
    BY <1>1, <1>2, <1>3, <1>9 DEF Mine
  <2>2. \A u \in Target : (Present(u) => Present(u)') /\ (Shared(u) => inode'[u] = inode[u])
    BY <1>2 DEF Present
  <2>. QED BY <1>1, <1>2, <1>3, <1>6, <1>7, <2>1, <2>2 DEF StepOf
<1>11. FilmsKept' /\ RepairsTold'
  <2>1. \A u \in Target : u # c /\ u \in Names
    BY <1>1, NamesDiffer
  <2>. QED BY <1>2, <1>4, <1>9, <2>1, FilmsStay
<1>12. InodesApart'
  BY <1>2, <1>4 DEF InodesApart
<1>13. LinksSafe'
  <2>1. rset.linked => data'[1] = data[1]
    BY <1>2, <1>3, <1>8 DEF RepairTyped
  <2>. QED BY <1>2, <1>4, <1>6, <1>7, <1>10, <2>1, LinksKept
<1>14. Held(r)'
  <2>1. Source(t)' = Source(t) /\ Present(t)' /\ Present(c)'
    BY <1>2, <1>3, SourcesStay DEF Present
  <2>. QED BY <1>2, <1>3, <1>6, <2>1 DEF Held, Checked
<1>. QED BY <1>10, <1>11, <1>12, <1>13, <1>14, PartsAfter

\* A step that says that a file is repaired.
LEMMA SaysRepaired ==
  ASSUME RepairTyped, NEW r \in Repairer, NEW t \in Target, t = rp[r].t, results[r][t] = "none",
         Says(r, rp[r].t, "repaired")
  PROVE  /\ \A u \in Target : results[r][u] # "none" => results'[r][u] = results[r][u]
         /\ \A q \in Repairer \ {r} : results'[q] = results[q]
         /\ \A q \in Repairer, u \in Target :
              u # t /\ results'[q][u] = "repaired" => results[q][u] = "repaired"
<1>1. results' = [results EXCEPT ![r][t] = "repaired"]
  BY DEF Says
<1>2. \A u \in Target : u # t => results'[r][u] = results[r][u]
  BY <1>1, OwnWords
<1>3. \A q \in Repairer \ {r} : results'[q] = results[q]
  BY <1>1 DEF RepairTyped
<1>. QED BY <1>2, <1>3

\* A verified copy takes the place of a file that has no links.
LEMMA PlacedKeeps ==
  ASSUME RepairTyped, RepairTyped', RepairParts, NEW r \in Repairer, UNCHANGED <<rset, rhurt>>,
         rp[r].pc \in {"replace", "place"}, Done(r, "repaired"), NEW t \in Target, t = rp[r].t,
         NEW s \in Names \ Target, Present(s), Mine(r, s), inode'[t] = inode[s], inode'[s] = 0,
         \A n \in Names \ {t, s} : inode'[n] = inode[n] \/ (n \notin Target /\ Mine(r, n) /\ inode'[n] = 0),
         data'[inode[s]] = Mended(t), \A i \in Inodes : i # inode[s] => data'[i] = data[i]
  PROVE  RepairParts'
<1>1. /\ InodesApart /\ CopiesHeld /\ CopiesApart /\ FilmsKept /\ RepairsTold /\ LinksSafe
  BY DEF RepairParts
<1>2. /\ results[r][t] = "none" /\ Present(t) /\ ~ Shared(t) /\ t \in Names /\ s # t
  BY <1>1, NamesDiffer DEF CopiesHeld, Held, Works, RepairPc
<1>3. rp'[r] = Resting /\ rp' = [rp EXCEPT ![r] = rp'[r]]
  BY RowOfStep DEF Done
<1>4. rp'[r].pc = "idle" /\ Held(r)' /\ ~ Owns(r)'
  BY <1>3, RestingRow, IdleHolds
<1>5. /\ \A u \in Target : results[r][u] # "none" => results'[r][u] = results[r][u]
      /\ \A q \in Repairer \ {r} : results'[q] = results[q]
      /\ \A q \in Repairer, u \in Target :
           u # t /\ results'[q][u] = "repaired" => results[q][u] = "repaired"
  BY <1>2, SaysRepaired DEF Done
<1>6. \A q \in Repairer \ {r} : SameRow(q) /\ rp'[q] = rp[q]
  <2>1. UNCHANGED results \/ \E u \in Target : \E w : results' = [results EXCEPT ![r][u] = w]
    BY DEF Done, Says
  <2>. QED BY <1>3, <2>1, OthersRows
<1>7. /\ \A n \in Names : n # s => inode[n] # inode[s]
      /\ rset.linked => inode[s] # 1
  BY <1>1, OwnInode
<1>8. \A n \in Names : n # s /\ Present(n) => data'[inode[n]] = At(n)
  BY <1>7, RowFacts DEF At
<1>9. \A u \in Target : u # t => inode'[u] = inode[u] /\ u # s
  BY NamesDiffer
<1>10. StepOf(r)
  <2>1. \A n \in Names \ Target :
          Present(n) => Mine(r, n) \/ (inode'[n] = inode[n] /\ At(n)' = At(n))
    BY <1>8 DEF At
  <2>2. \A u \in Target : (Present(u) => Present(u)') /\ (Shared(u) => inode'[u] = inode[u])
    BY <1>2, <1>9 DEF Present
  <2>. QED BY <1>4, <1>5, <1>6, <2>1, <2>2 DEF StepOf
<1>11. InodesApart'
  <2>1. rset.linked => inode'["film"] = 1 /\ inode'["link"] = 1
    BY <1>1, <1>2, <1>9 DEF InodesApart, Shared, Target
  <2>2. ~ rset.linked => t # "link" /\ inode'["link"] = 0
    <3>. SUFFICES ASSUME ~ rset.linked PROVE t # "link" /\ inode'["link"] = 0
      OBVIOUS
    <3>1. inode["link"] = 0 /\ "link" \in Target
      BY <1>1 DEF InodesApart, Target
    <3>. QED BY <1>2, <1>9, <3>1 DEF Present
  <2>3. ASSUME NEW n \in Names, NEW m \in Names, n # m, inode'[n] = inode'[m], inode'[n] # 0
        PROVE  {n, m} = {"film", "link"}
    <3>1. n # s /\ m # s
      BY <2>3
    <3>2. CASE n # t /\ m # t
      BY <1>1, <2>3, <3>1, <3>2 DEF InodesApart
    <3>3. CASE n = t
      BY <1>7, <2>3, <3>1, <3>3
    <3>4. CASE m = t
      BY <1>7, <2>3, <3>1, <3>4
    <3>. QED BY <3>2, <3>3, <3>4
  <2>. QED BY <2>1, <2>2, <2>3 DEF InodesApart
<1>12. \A u \in Target : /\ Source(u)' = Source(u) /\ Mended(u)' = Mended(u) /\ Shared(u)' = Shared(u)
                         /\ u # t => Present(u)' = Present(u) /\ (Present(u) => At(u)' = At(u))
  BY <1>8, <1>9, SourcesStay, NamesDiffer DEF Present, At
<1>13. Present(t)' /\ At(t)' = Mended(t) /\ At(t)' \in Medium /\ At(t)'.whole /\ AsWhole(At(t))' = Mended(t)
  <2>1. Mended(t) \in Medium /\ Mended(t).whole
    BY SourceFields
  <2>2. AsWhole(Mended(t)) = Mended(t)
    BY <2>1, AsWholeFields
  <2>3. At(t)' = Mended(t)
    BY DEF At
  <2>. QED BY <2>1, <2>2, <2>3 DEF Present, AsWhole
<1>14. FilmsKept'
  <2>1. \A u \in Target \ {t} : Present(u) => AsWhole(At(u))' = AsWhole(At(u))
    BY <1>12 DEF AsWhole
  <2>2. ASSUME NEW u \in Target, Present(u)'
        PROVE  AsWhole(At(u))' \in {Source(u)', Mended(u)'} /\ (~ Shared(u)' => At(u)'.whole)
    <3>1. CASE u = t
      BY <1>12, <1>13, <3>1
    <3>2. CASE u # t
      BY <1>1, <1>12, <2>1, <2>2, <3>2 DEF FilmsKept
    <3>. QED BY <3>1, <3>2
  <2>. QED BY <2>2 DEF FilmsKept
<1>15. RepairsTold'
  <2>1. \A u \in Target \ {t} : Present(u) => AsWhole(At(u))' = AsWhole(At(u))
    BY <1>12 DEF AsWhole
  <2>2. ASSUME NEW q \in Repairer, NEW u \in Target, results'[q][u] = "repaired"
        PROVE  Present(u)' /\ AsWhole(At(u))' = Mended(u)'
    <3>1. CASE u = t
      BY <1>12, <1>13, <3>1
    <3>2. CASE u # t
      <4>1. results[q][u] = "repaired"
        BY <1>5, <2>2, <3>2
      <4>. QED BY <1>1, <1>12, <2>1, <3>2, <4>1 DEF RepairsTold
    <3>. QED BY <3>1, <3>2
  <2>. QED BY <2>2 DEF RepairsTold
<1>16. LinksSafe'
  <2>1. rset.linked => data'[1] = data[1]
    BY <1>7 DEF Inodes
  <2>. QED BY <1>1, <1>4, <1>6, <1>10, <2>1, LinksKept
<1>. QED BY <1>4, <1>10, <1>11, <1>14, <1>15, <1>16, PartsAfter

LEMMA ReplaceKeeps ==
  ASSUME RepairTyped, RepairTyped', RepairParts, NEW r \in Repairer, Replace(r)
  PROVE  RepairParts'
<1>1. PICK t \in Target, c \in Copies : t = rp[r].t /\ c = rp[r].tmp /\ t \in Names /\ c \in Names \ Target
  BY RowFacts, NamesDiffer
<1>2. /\ rp[r].pc = "replace" /\ Present(c) /\ UNCHANGED <<rset, data, rhurt>> /\ Done(r, "repaired")
      /\ inode' = [inode EXCEPT ![t] = inode[c], ![c] = 0]
  BY <1>1 DEF Replace
<1>3. Mine(r, c) /\ At(c) = Mended(t)
  BY <1>1, <1>2 DEF Mine, Owns, Checked, RepairParts, CopiesHeld, Held
<1>4. inode'[t] = inode[c] /\ inode'[c] = 0 /\ \A n \in Names \ {t, c} : inode'[n] = inode[n]
  BY <1>1, <1>2 DEF RepairTyped
<1>5. data'[inode[c]] = Mended(t)
  BY <1>2, <1>3 DEF At
<1>. QED BY <1>1, <1>2, <1>3, <1>4, <1>5, PlacedKeeps

LEMMA PlaceCopyKeeps ==
  ASSUME RepairTyped, RepairTyped', RepairParts, NEW r \in Repairer, PlaceCopy(r)
  PROVE  RepairParts'
<1>. DEFINE p == rp[r]
<1>1. PICK t \in Target, c \in Copies, s \in Names \ Target :
        /\ t = p.t /\ c = p.tmp /\ s = Partial[p.t] /\ t \in Names /\ c \in Names \ Target /\ s # c
  BY RowFacts, NamesDiffer
<1>2. /\ p.pc = "place" /\ Present(s) /\ UNCHANGED <<rset, rhurt>> /\ Done(r, "repaired")
      /\ data' = [data EXCEPT ![p.to] = [data[p.from] EXCEPT !.whole = @ /\ ~ p.torn]]
      /\ inode' = [inode EXCEPT ![t] = inode[s], ![s] = 0, ![c] = 0]
  BY <1>1 DEF PlaceCopy
<1>3. /\ Mine(r, c) /\ Mine(r, s) /\ At(c) = Mended(t) /\ p.from = inode[c] /\ p.to = inode[s] /\ ~ p.torn
  BY <1>1, <1>2 DEF Mine, Owns, Checked, RepairParts, CopiesHeld, Held
<1>4. inode'[t] = inode[s] /\ inode'[s] = 0 /\ inode'[c] = 0 /\ \A n \in Names \ {t, s, c} : inode'[n] = inode[n]
  BY <1>1, <1>2 DEF RepairTyped
<1>5. data[p.from] = Mended(t)
  BY <1>3 DEF At
<1>6. [Mended(t) EXCEPT !.whole = @ /\ ~ p.torn] = Mended(t)
  <2>1. Mended(t) \in Medium /\ Mended(t).whole
    BY SourceFields
  <2>. QED BY <1>3, <2>1 DEF Medium
<1>7. inode[s] \in Inodes
  BY <1>1, <1>2, RowFacts
<1>8. data' = [data EXCEPT ![inode[s]] = Mended(t)]
  BY <1>2, <1>3, <1>5, <1>6
<1>9. data'[inode[s]] = Mended(t) /\ \A i \in Inodes : i # inode[s] => data'[i] = data[i]
  BY <1>7, <1>8 DEF RepairTyped
<1>10. \A n \in Names \ {t, s} : inode'[n] = inode[n] \/ (n \notin Target /\ Mine(r, n) /\ inode'[n] = 0)
  BY <1>1, <1>3, <1>4
<1>11. /\ UNCHANGED <<rset, rhurt>> /\ rp[r].pc \in {"replace", "place"} /\ Done(r, "repaired")
       /\ t = rp[r].t /\ Present(s) /\ Mine(r, s) /\ inode'[t] = inode[s] /\ inode'[s] = 0
  BY <1>1, <1>2, <1>3, <1>4
<1>. QED BY <1>9, <1>10, <1>11, PlacedKeeps

\* A linked film is inode 1, and nothing else is.
LEMMA LinkedInode ==
  ASSUME RepairTyped, InodesApart, rset.linked
  PROVE  /\ inode["film"] = 1 /\ inode["link"] = 1 /\ 1 \in Inodes
         /\ \A t \in Target : Shared(t) <=> t # "other"
         /\ \A n \in Names \ {"film", "link"} : inode[n] # 1
<1>1. inode["film"] = 1 /\ inode["link"] = 1 /\ "film" \in Names
  BY NamesDiffer DEF InodesApart, Target
<1>2. \A n \in Names \ {"film", "link"} : inode[n] # 1
  BY <1>1 DEF InodesApart
<1>. QED BY <1>1, <1>2 DEF Shared, Target, Inodes

\* What a step that writes the linked film leaves.
LEMMA LinkedStep ==
  ASSUME RepairTyped, RepairTyped', RepairParts, NEW r \in Repairer, UNCHANGED rset, rset.linked,
         StepOf(r), Held(r)', LinksSafe',
         \A t \in Target : inode'[t] = inode[t], \A n \in Names \ Target : inode'[n] \in {inode[n], 0},
         \A i \in Inodes : i # 1 => data'[i] = data[i],
         AsWhole(data'[1]) \in {AsWhole(data[1]), Mended("film")},
         \A q \in Repairer, t \in Target :
           results'[q][t] = "repaired" =>
             results[q][t] = "repaired" \/ (Shared(t) /\ AsWhole(data'[1]) = Mended("film"))
  PROVE  RepairParts'
<1>1. /\ InodesApart /\ CopiesHeld /\ CopiesApart /\ FilmsKept /\ RepairsTold /\ LinksSafe
  BY DEF RepairParts
<1>2. /\ inode["film"] = 1 /\ inode["link"] = 1 /\ 1 \in Inodes
      /\ \A t \in Target : Shared(t) <=> t # "other"
      /\ \A n \in Names \ {"film", "link"} : inode[n] # 1
  BY <1>1, LinkedInode
<1>3. InodesApart'
  <2>1. \A n \in Names : inode'[n] = inode[n] \/ inode'[n] = 0
    OBVIOUS
  <2>2. inode'["film"] = 1 /\ inode'["link"] = 1
    BY <1>2 DEF Target
  <2>. QED BY <1>1, <2>1, <2>2 DEF InodesApart
<1>4. \A t \in Target : /\ Source(t)' = Source(t) /\ Mended(t)' = Mended(t) /\ Shared(t)' = Shared(t)
                        /\ Present(t)' = Present(t) /\ At(t)' = data'[inode[t]]
                        /\ t # "other" => t \in {"film", "link"} /\ inode[t] = 1 /\ Mended(t) = Mended("film")
  BY <1>2, SourcesStay, SameFilm DEF Present, At, Target
<1>5. Present("other") => At("other")' = At("other")
  <2>1. "other" \in Names \ {"film", "link"} /\ "other" \in Target
    BY NamesDiffer DEF Target
  <2>2. Present("other") => inode["other"] \in Inodes
    BY <2>1 DEF RepairTyped, Present, Inodes
  <2>. QED BY <1>2, <1>4, <2>1, <2>2 DEF At
<1>6. ASSUME NEW t \in Target, t # "other"
      PROVE  AsWhole(At(t))' \in {AsWhole(At(t)), Mended(t)} /\ AsWhole(At(t))' = AsWhole(data'[1])
  <2>1. At(t)' = data'[1] /\ At(t) = data[1] /\ Mended(t) = Mended("film")
    BY <1>4, <1>6 DEF At
  <2>. QED BY <2>1 DEF AsWhole
<1>7. FilmsKept'
  <2>1. ASSUME NEW t \in Target, Present(t)'
        PROVE  AsWhole(At(t))' \in {Source(t)', Mended(t)'} /\ (~ Shared(t)' => At(t)'.whole)
    <3>1. AsWhole(At(t)) \in {Source(t), Mended(t)} /\ (~ Shared(t) => At(t).whole)
      BY <1>1, <1>4, <2>1 DEF FilmsKept
    <3>2. CASE t = "other"
      <4>1. At(t)' = At(t) /\ AsWhole(At(t))' = AsWhole(At(t))
        BY <1>4, <1>5, <2>1, <3>2 DEF AsWhole
      <4>. QED BY <1>4, <3>1, <4>1
    <3>3. CASE t # "other"
      BY <1>2, <1>4, <1>6, <3>1, <3>3
    <3>. QED BY <3>2, <3>3
  <2>. QED BY <2>1 DEF FilmsKept
<1>8. RepairsTold'
  <2>1. ASSUME NEW q \in Repairer, NEW t \in Target, results'[q][t] = "repaired"
        PROVE  Present(t)' /\ AsWhole(At(t))' = Mended(t)'
    <3>1. CASE results[q][t] = "repaired"
      <4>1. Present(t) /\ AsWhole(At(t)) = Mended(t)
        BY <1>1, <3>1 DEF RepairsTold
      <4>2. CASE t = "other"
        BY <1>4, <1>5, <4>1, <4>2 DEF AsWhole
      <4>3. CASE t # "other"
        BY <1>4, <1>6, <4>1, <4>3
      <4>. QED BY <4>2, <4>3
    <3>2. CASE Shared(t) /\ AsWhole(data'[1]) = Mended("film")
      <4>1. t # "other"
        BY <1>2, <3>2
      <4>. QED BY <1>2, <1>4, <1>6, <3>2, <4>1 DEF Present
    <3>. QED BY <2>1, <3>1, <3>2
  <2>. QED BY <2>1 DEF RepairsTold
<1>. QED BY <1>3, <1>7, <1>8, PartsAfter

LEMMA RewriteKeeps ==
  ASSUME RepairTyped, RepairTyped', RepairParts, NEW r \in Repairer, Rewrite(r)
  PROVE  RepairParts'
<1>. DEFINE p == rp[r]
            rows == Torn(1, r)
<1>0. /\ InodesApart /\ CopiesHeld /\ CopiesApart /\ FilmsKept /\ RepairsTold /\ LinksSafe
  BY DEF RepairParts
<1>1. PICK t \in Target, c \in Copies : t = p.t /\ c = p.tmp /\ t \in Names /\ c \in Names \ Target
  BY RowFacts, NamesDiffer
<1>2. p.pc = "rewrite" /\ Present(c) /\ Present(t) /\ UNCHANGED <<rset, inode, results, rhurt>>
  BY <1>1 DEF Rewrite
<1>3. /\ Shared(t) /\ At(c) = Mended(t) /\ results[r][t] = "none" /\ p.seen \in Medium
      /\ AsWhole(p.seen) = Source(t) /\ Owns(r)
  BY <1>0, <1>1, <1>2 DEF CopiesHeld, Held, Works, Owns, Checked, RepairPc
<1>4. /\ rset.linked /\ inode[t] = 1 /\ 1 \in Inodes /\ \A n \in Names \ {"film", "link"} : inode[n] # 1
  BY <1>0, <1>3, LinkedInode DEF Shared
<1>5. /\ data' = Cut(1)
      /\ rp' = [rows EXCEPT ![r].pc = "rewriting", ![r].torn = FALSE, ![r].from = inode[c], ![r].to = 1]
  BY <1>1, <1>4 DEF Rewrite
<1>6. /\ rows \in [Repairer -> RepairRow] /\ rows[r] = p
      /\ \A q \in Repairer : rows[q] \in {rp[q], [rp[q] EXCEPT !.torn = TRUE]}
  BY TornRows
<1>7. rp'[r] = [p EXCEPT !.pc = "rewriting", !.torn = FALSE, !.from = inode[c], !.to = 1]
      /\ \A q \in Repairer \ {r} : rp'[q] = rows[q]
  <2>. HIDE DEF rows
  <2>. QED BY <1>5, <1>6
<1>8. /\ rp'[r].pc = "rewriting" /\ rp'[r].t = t /\ rp'[r].tmp = c /\ rp'[r].seen = p.seen
      /\ rp'[r].from = inode[c] /\ rp'[r].to = 1 /\ ~ rp'[r].torn
  BY <1>1, <1>7, RowFacts DEF RepairRow
<1>9. \A n \in Names \ Target : inode[n] # 1 /\ (Present(n) => inode'[n] = inode[n] /\ At(n)' = At(n))
  <2>1. \A i \in Inodes : i # 1 => data'[i] = data[i]
    BY <1>4, <1>5, CutFiles
  <2>2. \A n \in Names : Present(n) => inode[n] \in Inodes
    BY RowFacts
  <2>3. \A n \in Names \ Target : inode[n] # 1
    BY <1>4, NamesDiffer
  <2>. QED BY <1>2, <2>1, <2>2, <2>3 DEF At
<1>10. ASSUME NEW q \in Repairer \ {r}
       PROVE  /\ SameRow(q) /\ results'[q] = results[q]
              /\ rp[q].pc \in {"verify", "replace", "place"} => rp'[q].torn = rp[q].torn
  <2>1. rp[q] \in RepairRow /\ rp'[q] \in {rp[q], [rp[q] EXCEPT !.torn = TRUE]}
    BY <1>6, <1>7, RowFacts
  <2>2. SameRow(q)
    BY <2>1 DEF SameRow, RepairRow
  <2>3. ASSUME rp[q].pc \in {"verify", "replace", "place"} PROVE rp[q].from # 1 /\ rp[q].to # 1
    <3>1. rp[q].pc = "place" => inode[rp[q].tmp] # 1 /\ inode[Partial[rp[q].t]] # 1
      <4>1. rp[q].tmp \in Names \ Target /\ Partial[rp[q].t] \in Names \ Target
        BY RowFacts, NamesDiffer
      <4>. QED BY <1>9, <4>1
    <3>. QED BY <1>0, <2>3, <3>1 DEF CopiesHeld, Held
  <2>4. ASSUME rp[q].pc \in {"verify", "replace", "place"} PROVE rp'[q] = rp[q]
    BY <1>7, <2>3, <2>4 DEF Torn
  <2>. QED BY <1>2, <2>2, <2>4
<1>11. StepOf(r)
  <2>1. \A u \in Target : (Present(u) => Present(u)') /\ (Shared(u) => inode'[u] = inode[u])
    BY <1>2 DEF Present
  <2>. QED BY <1>1, <1>2, <1>3, <1>8, <1>9, <1>10, <2>1 DEF StepOf
<1>12. Held(r)'
  <2>1. /\ Source(t)' = Source(t) /\ Mended(t)' = Mended(t) /\ Shared(t)' = Shared(t)
        /\ Present(t)' /\ Present(c)' /\ At(c)' = Mended(t)
    BY <1>1, <1>2, <1>3, <1>9, SourcesStay DEF Present
  <2>. QED BY <1>2, <1>3, <1>4, <1>8, <2>1 DEF Held
<1>13. /\ ~ data'[1].whole /\ AsWhole(data'[1]) = AsWhole(data[1])
       /\ \A i \in Inodes : i # 1 => data'[i] = data[i]
  <2>1. data[1] \in Medium
    BY <1>4 DEF RepairTyped
  <2>2. [data[1] EXCEPT !.whole = FALSE].whole = FALSE
    BY <2>1 DEF Medium
  <2>3. /\ Cut(1)[1] = [data[1] EXCEPT !.whole = FALSE] /\ AsWhole(Cut(1)[1]) = AsWhole(data[1])
        /\ \A i \in Inodes : i # 1 => Cut(1)[i] = data[i]
    BY <1>4, CutFiles
  <2>. QED BY <1>5, <2>2, <2>3
<1>14. LinksSafe'
  BY <1>8, <1>13 DEF LinksSafe, Rewriting
<1>. QED BY <1>2, <1>4, <1>11, <1>12, <1>13, <1>14, LinkedStep

LEMMA RewrittenKeeps ==
  ASSUME RepairTyped, RepairTyped', RepairParts, NEW r \in Repairer, Rewritten(r)
  PROVE  RepairParts'
<1>. DEFINE p == rp[r]
<1>0. /\ InodesApart /\ CopiesHeld /\ CopiesApart /\ FilmsKept /\ RepairsTold /\ LinksSafe
  BY DEF RepairParts
<1>1. PICK t \in Target, c \in Copies : t = p.t /\ c = p.tmp /\ t \in Names /\ c \in Names \ Target
  BY RowFacts, NamesDiffer
<1>2. /\ p.pc = "rewriting" /\ UNCHANGED <<rset, rhurt>> /\ Says(r, p.t, "repaired")
      /\ data' = [data EXCEPT ![p.to] = [data[p.from] EXCEPT !.whole = @ /\ ~ p.torn]]
      /\ inode' = [inode EXCEPT ![c] = 0]
      /\ rp' = [q \in Repairer |->
                  IF q = r THEN Resting
                  ELSE IF rp[q].pc = "rewriting" /\ rp[q].to = p.to /\ data[rp[q].from] = data[p.from]
                    THEN [rp[q] EXCEPT !.torn = FALSE] ELSE rp[q]]
  BY <1>1 DEF Rewritten
<1>3. ASSUME NEW q \in Repairer, rp[q].pc = "rewriting"
      PROVE  rp[q].to = 1 /\ rset.linked /\ data[rp[q].from] = Mended("film")
  <2>1. Held(q) /\ rp[q].t \in Target /\ Checked(q)
    BY <1>0, <1>3, RowFacts DEF CopiesHeld, Checked
  <2>2. /\ rp[q].to = inode[rp[q].t] /\ rp[q].from = inode[rp[q].tmp] /\ Shared(rp[q].t)
        /\ At(rp[q].tmp) = Mended(rp[q].t)
    BY <1>3, <2>1 DEF Held
  <2>3. rset.linked /\ inode[rp[q].t] = 1
    BY <1>0, <2>2, LinkedInode DEF Shared
  <2>4. data[rp[q].from] = Mended("film")
    BY <2>1, <2>2, SameFilm DEF At
  <2>. QED BY <2>2, <2>3, <2>4
<1>4. /\ rset.linked /\ p.to = 1 /\ data[p.from] = Mended("film")
  BY <1>2, <1>3
<1>5. /\ inode["film"] = 1 /\ 1 \in Inodes /\ \A n \in Names \ {"film", "link"} : inode[n] # 1
  BY <1>0, <1>4, LinkedInode
<1>6. Shared(t) /\ results[r][t] = "none" /\ Owns(r)
  BY <1>0, <1>1, <1>2 DEF CopiesHeld, Held, Works, Owns, RepairPc
<1>7. /\ \A u \in Target : results[r][u] # "none" => results'[r][u] = results[r][u]
      /\ \A q \in Repairer \ {r} : results'[q] = results[q]
      /\ \A q \in Repairer, u \in Target :
           u # t /\ results'[q][u] = "repaired" => results[q][u] = "repaired"
  BY <1>1, <1>2, <1>6, SaysRepaired
<1>8. /\ Mended("film") \in Medium /\ Mended("film").whole
  BY SourceFields DEF Target
<1>9. /\ data'[1] = [Mended("film") EXCEPT !.whole = @ /\ ~ p.torn]
      /\ \A i \in Inodes : i # 1 => data'[i] = data[i]
  BY <1>2, <1>4, <1>5 DEF RepairTyped
<1>10. AsWhole(data'[1]) = Mended("film") /\ data'[1].whole = ~ p.torn
  <2>1. p.torn \in BOOLEAN
    BY RowFacts
  <2>. QED BY <1>8, <1>9, <2>1 DEF AsWhole, Medium
<1>11. rp'[r].pc = "idle"
  BY <1>2, RestingRow
<1>12. Held(r)' /\ ~ Owns(r)'
  BY <1>11, IdleHolds
<1>13. \A n \in Names : n # c => inode'[n] = inode[n]
  BY <1>2 DEF RepairTyped
<1>14. inode'[c] = 0
  BY <1>1, <1>2 DEF RepairTyped
<1>15. \A q \in Repairer \ {r} :
         /\ rp[q].pc = "rewriting" => rp'[q] = [rp[q] EXCEPT !.torn = FALSE]
         /\ rp[q].pc # "rewriting" => rp'[q] = rp[q]
  BY <1>2, <1>3, <1>4
<1>16. ASSUME NEW q \in Repairer \ {r}
       PROVE  /\ SameRow(q) /\ rp'[q].pc = rp[q].pc
              /\ rp[q].pc # "rewriting" => rp'[q].torn = rp[q].torn
              /\ rp[q].pc = "rewriting" => ~ rp'[q].torn
  <2>1. rp[q] \in RepairRow
    BY RowFacts
  <2>. QED BY <1>15, <2>1 DEF SameRow, RepairRow
<1>17. StepOf(r)
  <2>1. \A n \in Names \ Target :
          Present(n) => Mine(r, n) \/ (inode'[n] = inode[n] /\ At(n)' = At(n))
    <3>. SUFFICES ASSUME NEW n \in Names \ Target, Present(n), n # c
                  PROVE  inode'[n] = inode[n] /\ At(n)' = At(n)
      BY <1>1, <1>6 DEF Mine
    <3>1. inode'[n] = inode[n] /\ inode[n] \in Inodes
      BY <1>13, RowFacts
    <3>2. inode[n] # 1
      BY <1>5, NamesDiffer
    <3>. QED BY <1>9, <3>1, <3>2 DEF At
  <2>2. \A u \in Target : inode'[u] = inode[u]
    BY <1>1, <1>13, NamesDiffer
  <2>3. \A u \in Target : (Present(u) => Present(u)') /\ (Shared(u) => inode'[u] = inode[u])
    BY <2>2 DEF Present
  <2>4. \A q \in Repairer \ {r} :
          rp[q].pc \in {"verify", "replace", "place"} => rp'[q].torn = rp[q].torn
    BY <1>16
  <2>. QED BY <1>2, <1>7, <1>11, <1>12, <1>16, <2>1, <2>3, <2>4 DEF StepOf
<1>18. LinksSafe'
  <2>1. \A q \in Repairer : rp'[q].pc = "rewriting" => ~ rp'[q].torn
    BY <1>11, <1>16
  <2>2. ASSUME p.torn PROVE Rewriting' \/ (Stopped' /\ (CopyLeft' \/ "sweep" \in rhurt'))
    <3>1. Rewriting \/ (Stopped /\ (CopyLeft \/ "sweep" \in rhurt))
      BY <1>0, <1>2, <1>4, <2>2 DEF LinksSafe
    <3>2. Rewriting => Rewriting'
      <4>. SUFFICES ASSUME Rewriting PROVE Rewriting'
        OBVIOUS
      <4>1. PICK q \in Repairer : rp[q].pc = "rewriting" /\ ~ rp[q].torn
        BY DEF Rewriting
      <4>2. q # r
        BY <2>2, <4>1
      <4>. QED BY <1>16, <4>1, <4>2 DEF Rewriting
    <3>3. Stopped => Stopped'
      BY <1>2, <1>17, StoppedStays
    <3>4. CopyLeft => CopyLeft'
      BY <1>0, <1>17, CopyStays DEF CopyLeft
    <3>. QED BY <1>2, <3>1, <3>2, <3>3, <3>4
  <2>3. data'[1].whole \/ p.torn
    BY <1>10
  <2>. QED BY <2>1, <2>2, <2>3 DEF LinksSafe
<1>19. \A u \in Target : inode'[u] = inode[u]
  BY <1>1, <1>13, NamesDiffer
<1>20. \A n \in Names \ Target : inode'[n] \in {inode[n], 0}
  BY <1>13, <1>14
<1>21. \A q \in Repairer, u \in Target :
         results'[q][u] = "repaired" =>
           results[q][u] = "repaired" \/ (Shared(u) /\ AsWhole(data'[1]) = Mended("film"))
  BY <1>6, <1>7, <1>10
<1>. QED BY <1>2, <1>4, <1>9, <1>10, <1>12, <1>17, <1>18, <1>19, <1>20, <1>21, LinkedStep

\* The storage janitor removes a copy that nobody works on.
LEMMA SweepKeeps ==
  ASSUME RepairTyped, RepairParts, Sweep
  PROVE  RepairTyped' /\ RepairParts'
<1>0. /\ InodesApart /\ CopiesHeld /\ CopiesApart /\ FilmsKept /\ RepairsTold /\ LinksSafe
  BY DEF RepairParts
<1>1. PICK c \in Copies :
        /\ \A r \in Repairer : rp[r].pc \in {"idle", "dead"} \/ rp[r].tmp # c
        /\ inode' = [inode EXCEPT ![c] = 0]
  BY DEF Sweep
<1>2. UNCHANGED <<rset, data, rp, results>> /\ "sweep" \in rhurt'
  BY DEF Sweep, Hurt
<1>3. c \in Names \ Target
  BY NamesDiffer
<1>4. inode'[c] = 0 /\ \A n \in Names : n # c => inode'[n] = inode[n]
  BY <1>1, <1>3 DEF RepairTyped
<1>5. RepairTyped'
  <2>1. inode' \in [Names -> 0 .. 8]
    <3>1. inode \in [Names -> 0 .. 8] /\ 0 \in 0 .. 8
      BY DEF RepairTyped
    <3>. QED BY <1>1, <3>1
  <2>. QED BY <1>2, <2>1 DEF RepairTyped
<1>6. \A t \in Target : t \in Names /\ t # c /\ inode'[t] = inode[t]
  BY <1>3, <1>4, NamesDiffer
<1>7. InodesApart'
  <2>1. inode'["film"] = inode["film"] /\ inode'["link"] = inode["link"]
    BY <1>6 DEF Target
  <2>. QED BY <1>0, <1>2, <1>4, <2>1 DEF InodesApart
<1>8. FilmsKept' /\ RepairsTold'
  <2>1. \A t \in Target : inode'[t] = inode[t] /\ (Present(t) => At(t)' = At(t))
    BY <1>2, <1>6 DEF At
  <2>. QED BY <1>0, <1>2, <2>1, FilmsStay
<1>9. CopiesApart'
  BY <1>0, <1>2 DEF CopiesApart, Owns
<1>10. ASSUME NEW r \in Repairer PROVE Held(r)'
  <2>1. PICK t \in Target, d \in Copies, n \in Names :
          t = rp[r].t /\ d = rp[r].tmp /\ n = Partial[rp[r].t] /\ d \in Names /\ n # c
    BY RowFacts, NamesDiffer
  <2>2. /\ Source(t)' = Source(t) /\ Mended(t)' = Mended(t) /\ Shared(t)' = Shared(t)
        /\ Present(t)' = Present(t) /\ inode'[t] = inode[t]
        /\ inode'[n] = inode[n] /\ Present(n)' = Present(n)
    BY <1>2, <1>4, <1>6, <2>1, SourcesStay DEF Present
  <2>3. Works(r) => inode'[d] = inode[d] /\ Present(d)' = Present(d) /\ At(d)' = At(d)
    BY <1>1, <1>2, <1>4, <2>1 DEF Works, Present, At
  <2>4. /\ rp'[r] = rp[r] /\ results'[r] = results[r] /\ Works(r)' = Works(r) /\ Owns(r)' = Owns(r)
        /\ Checked(r)' = Checked(r) /\ (Owns(r) => Works(r)) /\ (Checked(r) => Works(r))
        /\ (rp[r].pc \in {"remux", "place", "rewriting"} => Works(r))
    BY <1>2 DEF Works, Owns, Checked, RepairPc
  <2>. QED BY <1>0, <2>1, <2>2, <2>3, <2>4 DEF CopiesHeld, Held
<1>11. LinksSafe'
  BY <1>0, <1>2 DEF LinksSafe, Rewriting, Stopped
<1>. QED BY <1>5, <1>7, <1>8, <1>9, <1>10, <1>11 DEF RepairParts, CopiesHeld

\* The invariant of the repairs.
LEMMA RepairsKeepInv == RepairInv /\ [RepairNext]_repairVars => RepairInv'
<1>. SUFFICES ASSUME RepairInv, [RepairNext]_repairVars PROVE RepairInv'
  OBVIOUS
<1>1. RepairTyped
  BY DEF RepairInv
<1>2. CASE UNCHANGED repairVars
  <2>1. UNCHANGED <<rset, inode, data, rp, results, rhurt>>
    BY <1>2 DEF repairVars
  <2>2. RepairTyped'
    BY <1>1, <2>1 DEF RepairTyped
  <2>3. ASSUME RepairParts PROVE RepairParts'
    <3>0. /\ InodesApart /\ CopiesHeld /\ CopiesApart /\ FilmsKept /\ RepairsTold /\ LinksSafe
      BY <2>3 DEF RepairParts
    <3>1. InodesApart' /\ CopiesApart'
      BY <2>1, <3>0 DEF InodesApart, CopiesApart, Owns
    <3>2. FilmsKept' /\ RepairsTold'
      <4>1. \A t \in Target : inode'[t] = inode[t] /\ (Present(t) => At(t)' = At(t))
        BY <2>1 DEF At
      <4>. QED BY <1>1, <2>1, <3>0, <4>1, FilmsStay
    <3>3. CopiesHeld'
      <4>. SUFFICES ASSUME NEW r \in Repairer PROVE Held(r)'
        BY DEF CopiesHeld
      <4>1. PICK t \in Target, c \in Copies : t = rp[r].t /\ c = rp[r].tmp
        BY <1>1, RowFacts
      <4>2. /\ Source(t)' = Source(t) /\ Mended(t)' = Mended(t) /\ Shared(t)' = Shared(t)
        BY <2>1, SourcesStay
      <4>. QED BY <2>1, <3>0, <4>1, <4>2 DEF CopiesHeld, Held, Works, Owns, Checked, Present, At
    <3>4. LinksSafe'
      BY <2>1, <2>3 DEF RepairParts, LinksSafe, Rewriting, Stopped, CopyLeft, Present, At, Owns, Mended,
           Source, Remuxed
    <3>. QED BY <3>1, <3>2, <3>3, <3>4 DEF RepairParts
  <2>. QED BY <2>1, <2>2, <2>3 DEF RepairInv
<1>3. CASE Sweep
  <2>1. RepairTyped'
    <3>1. PICK c \in Copies : inode' = [inode EXCEPT ![c] = 0]
      BY <1>3 DEF Sweep
    <3>2. inode \in [Names -> 0 .. 8] /\ 0 \in 0 .. 8
      BY <1>1 DEF RepairTyped
    <3>3. inode' \in [Names -> 0 .. 8]
      BY <3>1, <3>2
    <3>. QED BY <1>1, <1>3, <3>3 DEF Sweep, RepairTyped
  <2>2. "clash" \notin rhurt' => "clash" \notin rhurt
    BY <1>3 DEF Sweep, Hurt
  <2>. QED BY <1>1, <1>3, <2>1, <2>2, SweepKeeps DEF RepairInv
<1>4. ASSUME NEW r \in Repairer,
             \/ \E t \in Target : Probe(r, t)
             \/ NoSpace(r) \/ Choose(r) \/ Open(r) \/ Finish(r) \/ Verify(r) \/ Replace(r)
             \/ CopyOver(r) \/ PlaceCopy(r) \/ Rewrite(r) \/ Rewritten(r)
             \/ Fails(r) \/ WriteFails(r) \/ Killed(r)
      PROVE  RepairInv'
  <2>1. RepairTyped'
    BY <1>1, <1>4, TypesStep
  <2>2. "clash" \in rhurt => "clash" \in rhurt'
    BY <1>4 DEF Probe, NoSpace, Choose, Open, Finish, Verify, Replace, CopyOver, PlaceCopy, Rewrite,
         Rewritten, Fails, WriteFails, Killed, Hurt
  <2>3. ASSUME "clash" \notin rhurt' PROVE RepairParts'
    <3>1. RepairParts
      BY <2>2, <2>3 DEF RepairInv
    <3>2. CASE \E t \in Target : Probe(r, t)
      BY <1>1, <2>1, <3>1, <3>2, ProbeKeeps
    <3>3. CASE NoSpace(r) \/ Choose(r) \/ Verify(r) \/ Killed(r)
      BY <1>1, <2>1, <3>1, <3>3, NoSpaceKeeps, ChooseKeeps, VerifyKeeps, KilledKeeps
    <3>4. CASE Open(r) \/ CopyOver(r)
      BY <1>1, <2>1, <2>3, <3>1, <3>4, OpenKeeps, CopyOverKeeps
    <3>5. CASE Finish(r) \/ Replace(r) \/ PlaceCopy(r)
      BY <1>1, <2>1, <3>1, <3>5, FinishKeeps, ReplaceKeeps, PlaceCopyKeeps
    <3>6. CASE Rewrite(r) \/ Rewritten(r)
      BY <1>1, <2>1, <3>1, <3>6, RewriteKeeps, RewrittenKeeps
    <3>7. CASE Fails(r) \/ WriteFails(r)
      BY <1>1, <2>1, <3>1, <3>7, FailsKeeps
    <3>. QED BY <1>4, <3>2, <3>3, <3>4, <3>5, <3>6, <3>7
  <2>. QED BY <2>1, <2>3 DEF RepairInv
<1>. QED BY <1>2, <1>3, <1>4 DEF RepairNext

\* What is of a film under a name of it.
LEMMA HasWhole ==
  ASSUME RepairTyped, NEW t \in Target, NEW n \in Names, Present(n), At(n).whole,
         AsWhole(At(n)) \in {Source(t), Mended(t)}
  PROVE  Has(n, t)
<1>1. At(n) \in Medium
  BY RowFacts DEF RepairTyped, Present, At, Inodes
<1>2. At(n) \in {Source(t), Mended(t)}
  BY <1>1, AsWholeFields
<1>. QED BY <1>2, SourceFields DEF Has, TitleOf

\* The invariant says what the repairs promise.
LEMMA RepairInvIsSound == RepairInv => RepairsSound
<1>. SUFFICES ASSUME RepairInv, "clash" \notin rhurt
     PROVE /\ \A t \in Target : Present(t) =>
                \/ Has(t, t)
                \/ Rewriter(t) # {} /\ ((\E c \in Copies : Has(c, t)) \/ "sweep" \in rhurt)
           /\ rset.linked => inode["film"] = inode["link"]
           /\ rhurt = {} => \A r \in Repairer, t \in Target :
                results[r][t] = "repaired" =>
                  ~ NeedsRepair(At(t)) \/ \E q \in Repairer : rp[q].pc = "rewriting"
  BY DEF RepairsSound
<1>1. /\ RepairTyped /\ InodesApart /\ CopiesHeld /\ CopiesApart /\ FilmsKept /\ RepairsTold /\ LinksSafe
  BY DEF RepairInv, RepairParts
<1>2. \A t \in Target : Present(t) => At(t) \in Medium /\ t \in Names
  BY <1>1, NamesDiffer DEF RepairTyped, Present, At, Inodes
<1>3. ASSUME NEW t \in Target, Present(t), ~ Has(t, t)
      PROVE  Rewriter(t) # {} /\ ((\E c \in Copies : Has(c, t)) \/ "sweep" \in rhurt)
  <2>1. ~ At(t).whole /\ Shared(t)
    BY <1>1, <1>2, <1>3, HasWhole DEF FilmsKept
  <2>2. rset.linked /\ inode[t] = 1 /\ inode["film"] = 1 /\ inode["link"] = 1 /\ ~ data[1].whole
    BY <1>1, <2>1, LinkedInode DEF Shared, At
  <2>3. Mended(t) = Mended("film") /\ Mended(t).whole /\ Mended(t) \in Medium
    BY <1>1, <2>1, SameFilm, SourceFields
  <2>4. ASSUME NEW c \in Copies, Present(c), At(c) = Mended(t) PROVE Has(c, t)
    <3>1. c \in Names /\ AsWhole(At(c)) = Mended(t)
      BY <2>3, <2>4, NamesDiffer, AsWholeFields
    <3>. QED BY <1>1, <2>3, <2>4, <3>1, HasWhole
  <2>5. CASE Rewriting
    <3>1. PICK r \in Repairer : rp[r].pc = "rewriting"
      BY <2>5 DEF Rewriting
    <3>2. PICK c \in Copies : c = rp[r].tmp
      BY <1>1, RowFacts
    <3>3. Present(c) /\ At(c) = Mended(rp[r].t) /\ Shared(rp[r].t) /\ rp[r].t \in Target
      BY <1>1, <3>1, <3>2, RowFacts DEF CopiesHeld, Held, Owns, Checked
    <3>4. At(c) = Mended(t)
      BY <2>3, <3>3, SameFilm
    <3>5. r \in Rewriter(t)
      BY <3>1 DEF Rewriter
    <3>. QED BY <2>4, <3>3, <3>4, <3>5
  <2>6. CASE Stopped /\ (CopyLeft \/ "sweep" \in rhurt)
    <3>1. PICK r \in Repairer : rp[r].pc = "dead" \/ \E u \in {"film", "link"} : results[r][u] = "kept"
      BY <2>6 DEF Stopped
    <3>2. r \in Rewriter(t)
      BY <2>2, <3>1 DEF Rewriter, Target
    <3>3. CopyLeft => \E c \in Copies : Has(c, t)
      BY <2>3, <2>4 DEF CopyLeft
    <3>. QED BY <2>6, <3>2, <3>3
  <2>. QED BY <1>1, <2>2, <2>5, <2>6 DEF LinksSafe
<1>4. rset.linked => inode["film"] = inode["link"]
  BY <1>1 DEF InodesApart
<1>5. ASSUME NEW r \in Repairer, NEW t \in Target, results[r][t] = "repaired"
      PROVE  ~ NeedsRepair(At(t))
  <2>1. Present(t) /\ AsWhole(At(t)) = Mended(t)
    BY <1>1, <1>5 DEF RepairsTold
  <2>2. ~ NeedsRepair(AsWhole(At(t)))
    BY <1>1, <2>1, SourceFields
  <2>. QED BY <1>2, <2>1, <2>2, WholeApart
<1>. QED BY <1>3, <1>4, <1>5

\* However the repairers of a library meet, and wherever one is killed, a write fails or a copy
\* is swept: every film is whole under its name, or under that of a verified copy that a
\* rewriting left there and nobody swept; links stay links; and without a mishap what was
\* found damaged ends up normal (media_repair.repair_file).
THEOREM RepairsAreSafe == RepairSpec => []RepairsSound
<1>1. RepairInit => RepairInv
  BY RepairsBegin
<1>2. RepairInv /\ [RepairNext]_repairVars => RepairInv'
  BY RepairsKeepInv
<1>3. RepairInv => RepairsSound
  BY RepairInvIsSound
<1>. QED BY <1>1, <1>2, <1>3, PTL DEF RepairSpec

=============================================================================
