----------------------------- MODULE Submission -----------------------------
(***************************************************************************)
(* What a request to the daemon becomes (resources/daemon/handler.py,      *)
(* webhook_parsing.py, config.py; config_loader.py for the routing): the   *)
(* body is read, a Sonarr or Radarr tag may name a profile, a directory is *)
(* walked, and each file is rewritten, routed, skipped or offered to the   *)
(* queue.  Each request has a thread of its own, and the workers go on     *)
(* claiming and finishing jobs between its transactions; a second node of  *)
(* an older version may come and go.  JobQueue takes an accepted           *)
(* submission as one step.                                                 *)
(*                                                                         *)
(* An argument is a token: a flag (without its dashes), a value, or both   *)
(* ("--profile=lq").  A path is the sequence of its names.                 *)
(***************************************************************************)
EXTENDS Integers, FiniteSets, SequencesExt

CONSTANTS
  Asker,         \* the requests, each with a thread of its own
  SubmitCases,   \* the daemons and requests to consider
  Unnamed        \* None

VARIABLES
  scase,   \* the daemon's configuration and library, and the requests
  ask,     \* Asker -> where its thread is, and what it will answer
  table,   \* the rows of jobs, in order of insertion
  peer     \* an older node's row of cluster_nodes: absent, seen or silent
submissionVars == <<scase, ask, table, peer>>

-----------------------------------------------------------------------------
(* Arguments.                                                              *)

Flag(n) == [flag |-> n, value |-> Unnamed]
Word(v) == [flag |-> Unnamed, value |-> v]
Joined(n, v) == [flag |-> n, value |-> v]

\* _merge_args: defaults first, without the flags (but with their values) the caller gives.
Merged(defaults, args) ==
  SelectSeq(defaults, LAMBDA t : t.flag = Unnamed \/ t \notin ToSet(args)) \o args

NamesProfile(args) == {Flag("profile"), Flag("p")} \cap ToSet(args) # {}

\* _merge_profile_arg
WithProfile(args, p) ==
  IF p = Unnamed \/ NamesProfile(args) THEN args ELSE args \o <<Flag("profile"), Word(p)>>

\* manual.py's options that take a value, by the name each flag is stored under; of them
\* only the profile and the ids are read below (-e collects its values).
Stored ==
  [f \in {"profile", "p", "tvdb", "tmdb", "imdb", "s", "e"} |-> IF f = "p" THEN "profile" ELSE f]

ValueAt(args, i) == IF args[i].value # Unnamed THEN args[i].value ELSE args[i + 1].value

\* Where args give option o a value.
Giving(args, o) ==
  {i \in DOMAIN args : args[i].flag \in DOMAIN Stored /\ Stored[args[i].flag] = o}

\* argparse: the last value of an option wins.
Reads(args, o) ==
  LET g == Giving(args, o) IN
  IF g = {} THEN Unnamed ELSE ValueAt(args, CHOOSE i \in g : \A k \in g : k <= i)

TakesNext(t) == t.flag \in DOMAIN Stored /\ t.value = Unnamed

\* argparse: a stray or a missing value, or two exclusive flags, and the tool exits with 2.
Misread(args) ==
  \/ \E i \in DOMAIN args :
       \/ args[i].flag = Unnamed /\ ~(i > 1 /\ TakesNext(args[i - 1]))
       \/ TakesNext(args[i]) /\ ~(i < Len(args) /\ args[i + 1].flag = Unnamed)
  \/ {Flag("tv"), Flag("movie")} \subseteq ToSet(args)

-----------------------------------------------------------------------------
(* Reading a request.                                                      *)

Req(a) == scase.requests[a]
FromArr(r) == r.route \in {"sonarr", "radarr"}

\* forbidden_arg: what the daemon sets on the tool's command line; "-c=x" passes.
Forbidden(t) ==
  \/ t.flag \in {"config", "input", "job-id"}
  \/ t.flag \in {"c", "i"} /\ t.value = Unnamed

Malformed(r) ==
  \/ r.form = "bad"
  \/ FromArr(r) /\ r.event = "Download" /\ r.target = Unnamed
  \/ /\ r.route = "jobs"
     /\ \/ r.kind \notin {"convert", "preview", "audit", "repair", "rename"}
        \/ \E t \in ToSet(r.args) : Forbidden(t)

\* An arr's body that is not an object, or shell quotes of POST /jobs that do not close.
Unreadable(r) == r.form = "odd" /\ r.route # "generic"

\* The arguments an arr's payload stands for: its own id, or else IMDb's.
ArrArgs(r) ==
  LET own == IF r.route = "sonarr" THEN "tvdb" ELSE "tmdb"
      id == CASE own \in r.ids -> <<Flag(own), Word("7")>>
              [] own \notin r.ids /\ "imdb" \in r.ids -> <<Flag("imdb"), Word("tt7")>>
              [] OTHER -> <<>>
      numbers == IF r.route = "sonarr" /\ own \in r.ids
                 THEN <<Flag("s"), Word("1"), Flag("e"), Word("1"), Flag("e"), Word("2")>>
                 ELSE <<>>
  IN <<Flag(IF r.route = "sonarr" THEN "tv" ELSE "movie")>> \o id \o numbers

-----------------------------------------------------------------------------
(* Paths and rules.                                                        *)

Below(p, d) == IsPrefix(d, p)

\* rewrite_path and _normalise: the longest prefix is replaced, once.
JobPath(p) ==
  LET fits == {w \in scase.rewrites : Below(p, w.from)}
      w == CHOOSE w \in fits : \A v \in fits : Len(v.from) <= Len(w.from)
  IN IF fits = {} THEN p ELSE w.to \o SubSeq(p, Len(w.from) + 1, Len(p))

\* _rule_matches: at a directory boundary, after a rewrite.
RulesFor(p) == {k \in DOMAIN scase.rules : Below(JobPath(p), scase.rules[k].match)}

NoRule == [profile |-> Unnamed, services |-> <<>>]

\* resolve_routing: the longest pattern as it is written, stars included, wins, the first of
\* equally long ones; no match is the bare base and no services.
RuleAt(p) ==
  IF RulesFor(p) = {} THEN NoRule
  ELSE LET size(k) == scase.rules[k].size
           best == CHOOSE k \in RulesFor(p) : \A i \in RulesFor(p) :
                     size(i) < size(k) \/ (size(i) = size(k) /\ k <= i)
       IN scase.rules[best]

\* has_routing_match, and strict-routing: it refuses a path without a rule, unless the
\* request names a config.
Routed(p) == RulesFor(p) # {}
Unroutable(r, p) == scase.strict /\ r.config = Unnamed /\ ~Routed(p)

\* _resolve_profile: a request that names a config has no rule's profile.
RuleOf(p, config) == IF config # Unnamed THEN Unnamed ELSE RuleAt(p).profile

\* is_recycle_bin_path
Binned(p) == scase.recycle # Unnamed /\ Below(p, scase.recycle)

\* should_skip_same_extension, by the converter settings of the rule's profile.
SameExtension(p) ==
  LET out == scase.output[RuleAt(p).profile]
  IN ~out.again /\ p[Len(p)] \in DOMAIN scase.ext /\ scase.ext[p[Len(p)]] = out.ext

\* The profile a tag names: a label in the payload; or else the labels of the tag ids, asked
\* of the instances of this kind in the order of the path's rule.  One that has no url or
\* key, is down or knows no such label is passed over.
TagProfile(r, up) ==
  LET refs == RuleAt(r.target).services
      named(i) == {t \in DOMAIN r.tags : r.tags[t] \in DOMAIN scase.labels[refs[i]]}
      telling == {i \in DOMAIN refs :
                    refs[i].type = r.route /\ refs[i] \in scase.usable \cap up /\ named(i) # {}}
      first(S) == CHOOSE i \in S : \A k \in S : i <= k
  IN CASE r.label # Unnamed -> r.label
       [] r.label = Unnamed /\ telling = {} -> Unnamed
       [] OTHER -> scase.labels[refs[first(telling)]][r.tags[first(named(first(telling)))]]

\* _autoscan_targets_for_paths, and the check of each: where another event of an arr goes.
Forwards(r) ==
  {i \in scase.usable :
     /\ i.type = "autoscan"
     /\ r.paths = {} \/ \E p \in r.paths : i \in ToSet(RuleAt(JobPath(p)).services)}

-----------------------------------------------------------------------------
(* Files.                                                                  *)

OnDisk(p) == p \in DOMAIN scase.disk
IsDir(p) == OnDisk(p) /\ scase.disk[p] = "dir"

\* _walk_media_files: hidden entries and other extensions are passed over.
Walked(d) ==
  {f \in DOMAIN scase.disk :
     /\ ~IsDir(f) /\ Below(f, d)
     /\ \A i \in Len(d) + 1 .. Len(f) : f[i] \notin scase.hidden
     /\ f[Len(f)] \in DOMAIN scase.ext}

Expands(r) == r.kind = "convert" /\ IsDir(r.target)
FilesOf(r) == IF Expands(r) THEN Walked(r.target) ELSE {r.target}

\* _resolve_config: an override that does not exist falls back to the daemon's own.
ConfigOf(r) == IF r.config = "exists" THEN "override" ELSE "daemon"

\* Slip: a job of another kind counts, too.
SameActiveSlip(p, kind) ==
  {j \in DOMAIN table : table[j].path = p /\ table[j].status \in {"pending", "running"}}

\* The active jobs of the same path and kind.
SameActive(p, kind) ==
  {j \in DOMAIN table : /\ table[j].path = p /\ table[j].kind = kind
                        /\ table[j].status \in {"pending", "running"}}

-----------------------------------------------------------------------------
(* A request's thread.                                                     *)

NoAnswer == [code |-> 0, queued |-> {}, same |-> {}, skipped |-> {}, sent |-> {}]

Unread == [at |-> "new", todo |-> {}, path |-> Unnamed, args |-> <<>>, asked |-> Unnamed,
         gate |-> "absent", answer |-> NoAnswer]

SubmitStart(c) ==
  /\ scase = c /\ table = <<>>
  /\ peer \in {"absent"} \cup (IF c.mixed THEN {"seen", "silent"} ELSE {})
  /\ ask = [a \in Asker |-> Unread]

SubmitInit == \E c \in SubmitCases : SubmitStart(c)

Stage(a, step) == ask[a].at = step
Becomes(a, s) == ask' = [ask EXCEPT ![a] = s]
Answers(a, code) == Becomes(a, [ask[a] EXCEPT !.at = "done", !.answer.code = code])

\* A transaction that fails, or a body the parser raises on: 500, but POST /jobs has no
\* handler for it, and its caller gets no answer.
Raised(a) == Answers(a, IF Req(a).route = "jobs" THEN 0 ELSE 500)

\* The body is refused, or is an arr's test.
Decline(a) ==
  /\ Stage(a, "new")
  /\ \/ Unreadable(Req(a)) /\ Raised(a)
     \/ ~Unreadable(Req(a)) /\ Malformed(Req(a)) /\ Answers(a, 400)
     \/ /\ ~Unreadable(Req(a)) /\ ~Malformed(Req(a))
        /\ FromArr(Req(a)) /\ Req(a).event = "Test"
        /\ Answers(a, 200)
  /\ UNCHANGED <<scase, table, peer>>

\* The body is read.
Accepted(a) == Stage(a, "new") /\ ~Unreadable(Req(a)) /\ ~Malformed(Req(a))

\* _forward_arr_event: one instance after the other; 502 when every one failed.
Forward(a) ==
  /\ Accepted(a)
  /\ FromArr(Req(a)) /\ Req(a).event \notin {"Test", "Download"}
  /\ \E ok \in SUBSET Forwards(Req(a)) :
       Becomes(a, [ask[a] EXCEPT !.at = "done", !.answer.sent = ok,
                     !.answer.code = IF ok = {} /\ Forwards(Req(a)) # {} THEN 502 ELSE 200])
  /\ UNCHANGED <<scase, table, peer>>

\* A webhook, or a conversion posted to /jobs.
TakeConvert(a) ==
  /\ Accepted(a)
  /\ FromArr(Req(a)) => Req(a).event = "Download"
  /\ Req(a).route = "jobs" => Req(a).kind = "convert"
  /\ \E up \in SUBSET scase.usable :
       LET r == Req(a)
           own == IF FromArr(r) THEN ArrArgs(r) ELSE r.args
           asked == IF FromArr(r) THEN TagProfile(r, up) ELSE r.profile
       IN Becomes(a, [ask[a] EXCEPT !.at = "enter", !.asked = asked,
                        !.args = WithProfile(own, asked)])
  /\ UNCHANGED <<scase, table, peer>>

\* nodes_missing_capability: seen in the last two minutes, without the capability.
LacksCapability == peer = "seen"

\* Another kind of job: every node must know job kinds.
TakeKind(a) ==
  /\ Accepted(a)
  /\ Req(a).route = "jobs" /\ Req(a).kind # "convert"
  /\ \/ scase.fails /\ Raised(a)
     \/ LacksCapability /\ Answers(a, 409)
     \/ /\ ~LacksCapability
        /\ Becomes(a, [ask[a] EXCEPT !.at = "enter", !.args = Req(a).args,
                         !.asked = Req(a).profile, !.gate = peer])
  /\ UNCHANGED <<scase, table, peer>>

\* _dispatch_path, and the same checks of _post_jobs.
Enter(a) ==
  /\ Stage(a, "enter")
  /\ LET r == Req(a) IN
     IF ~OnDisk(r.target) \/ Binned(JobPath(r.target)) \/ (IsDir(r.target) /\ r.kind = "preview")
     THEN Answers(a, 400)
     ELSE Becomes(a, [ask[a] EXCEPT !.at = "offer", !.todo = FilesOf(r)])
  /\ UNCHANGED <<scase, table, peer>>

Skipped(a, f, why) ==
  Becomes(a, [ask[a] EXCEPT !.todo = @ \ {f},
                            !.answer.skipped = @ \cup {<<JobPath(f), why>>}])

\* A conversion that would be a no-op, or that no rule covers.
SkipFile(a) ==
  /\ Stage(a, "offer") /\ Req(a).kind = "convert"
  /\ \E f \in ask[a].todo :
       LET p == JobPath(f) IN
       \/ SameExtension(p) /\ Skipped(a, f, "extension")
       \/ /\ ~SameExtension(p) /\ Unroutable(Req(a), p)
          /\ IF Expands(Req(a)) THEN Skipped(a, f, "routing") ELSE Answers(a, 400)
  /\ UNCHANGED <<scase, table, peer>>

\* The profile column and the arguments of a row.
Column(a, p) ==
  LET routed == RuleOf(p, Req(a).config) IN
  IF Req(a).kind = "convert" \/ ask[a].asked = Unnamed THEN routed ELSE ask[a].asked

Arguments(a, p) ==
  CASE Req(a).kind = "convert" -> WithProfile(Merged(scase.defaults, ask[a].args), Column(a, p))
    [] Req(a).kind = "preview" -> WithProfile(ask[a].args, Column(a, p))
    [] OTHER -> ask[a].args

\* A file that is not skipped; the other kinds of job check neither.
Offered(a, f) ==
  LET p == JobPath(f) IN
  Req(a).kind = "convert" => ~SameExtension(p) /\ ~Unroutable(Req(a), p)

\* add_job: a row, unless the same work is active.
Offer(a) ==
  /\ Stage(a, "offer")
  /\ \E f \in ask[a].todo :
       LET p == JobPath(f) IN
       /\ Offered(a, f)
       /\ IF SameActive(p, Req(a).kind) = {}
          THEN /\ table' = Append(table,
                    [path |-> p, kind |-> Req(a).kind, args |-> Arguments(a, p),
                     column |-> Column(a, p), config |-> ConfigOf(Req(a)), by |-> a,
                     asked |-> ask[a].asked, gate |-> ask[a].gate, status |-> "pending",
                     ran |-> Unnamed])
               /\ Becomes(a, [ask[a] EXCEPT !.todo = @ \ {f},
                                !.answer.queued = @ \cup {Len(table) + 1}])
          ELSE /\ Becomes(a, [ask[a] EXCEPT !.todo = @ \ {f}, !.at = "find", !.path = p])
               /\ UNCHANGED table
  /\ UNCHANGED <<scase, peer>>

\* find_active_job, in a transaction of its own: the other job may have ended meanwhile.
Find(a) ==
  /\ Stage(a, "find")
  /\ LET p == ask[a].path
         known == SameActive(p, Req(a).kind)
     IN \E j \in IF known = {} THEN {0} ELSE known :
          Becomes(a, [ask[a] EXCEPT !.at = "offer", !.path = Unnamed,
                        !.answer.same = @ \cup {<<p, j>>}])
  /\ UNCHANGED <<scase, table, peer>>

\* The answer: 202 for a directory and for a new job, 200 otherwise.
Reply(a) ==
  /\ Stage(a, "offer") /\ ask[a].todo = {}
  /\ LET told == ask[a].answer
         nothing == told.queued = {} /\ told.same = {} /\ told.skipped = {}
     IN Answers(a, IF told.queued # {} \/ (Expands(Req(a)) /\ ~nothing) THEN 202 ELSE 200)
  /\ UNCHANGED <<scase, table, peer>>

\* A transaction fails: what was queued before stays queued, and the caller learns none of
\* it.  A single conversion asks how many jobs wait for its config once its own is queued.
Raise(a) ==
  /\ \/ Stage(a, "find")
     \/ Stage(a, "offer") /\ \E f \in ask[a].todo : Offered(a, f)
     \/ /\ Stage(a, "offer") /\ Req(a).kind = "convert" /\ ~Expands(Req(a))
        /\ ask[a].answer.queued # {}
  /\ scase.fails
  /\ Raised(a)
  /\ UNCHANGED <<scase, table, peer>>

-----------------------------------------------------------------------------
(* Around it.                                                              *)

\* A node runs a job as what it takes it for: an older one knows conversions only.
Claim(j) ==
  /\ table[j].status = "pending"
  /\ \E as \in {table[j].kind} \cup (IF peer = "absent" THEN {} ELSE {"convert"}) :
       table' = [table EXCEPT ![j].status = "running", ![j].ran = as]
  /\ UNCHANGED <<scase, ask, peer>>

Settle(j) ==
  /\ table[j].status = "running"
  /\ table' = [table EXCEPT ![j].status = "completed"]
  /\ UNCHANGED <<scase, ask, peer>>

\* The older node starts, stops, or is not seen for two minutes while it goes on.
PeerChanges ==
  /\ scase.mixed /\ peer' \in {"absent", "seen", "silent"} \ {peer}
  /\ peer = "absent" => peer' = "seen"
  /\ UNCHANGED <<scase, ask, table>>

SubmitStep(a) ==
  \/ Decline(a) \/ Forward(a) \/ TakeConvert(a) \/ TakeKind(a) \/ Enter(a)
  \/ SkipFile(a) \/ Offer(a) \/ Find(a) \/ Reply(a) \/ Raise(a)

SubmitNext ==
  \/ \E a \in Asker : SubmitStep(a)
  \/ \E j \in DOMAIN table : Claim(j) \/ Settle(j)
  \/ PeerChanges

-----------------------------------------------------------------------------
(* Properties.                                                             *)

Row(j) == table[j]

\* Who named a profile for row j, other than its rule: the caller, a tag or the defaults.
Override(j) ==
  LET a == Row(j).by
      args == IF FromArr(Req(a)) THEN ArrArgs(Req(a)) ELSE Req(a).args
      given == Reads(args, "profile")
      common == IF Row(j).kind = "convert" THEN Reads(scase.defaults, "profile") ELSE Unnamed
  IN IF given # Unnamed THEN given ELSE IF Row(j).asked # Unnamed THEN Row(j).asked ELSE common

\* Every file of a request is answered for once, and truly: queued under its rewritten
\* path, or the same work was under way, or it is skipped for its extension or its rule.
Answered ==
  \A a \in Asker :
    LET told == ask[a].answer
        queued == {Row(j).path : j \in told.queued}
        same == {x[1] : x \in told.same}
        skipped == {x[1] : x \in told.skipped}
    IN (Stage(a, "done") /\ told.code \in {200, 202} /\ Req(a).event = "Download") =>
         /\ queued \cup same \cup skipped = {JobPath(f) : f \in FilesOf(Req(a))}
         /\ skipped \cap (queued \cup same) = {}
         /\ \A x \in told.same :
              x[2] # 0 => Row(x[2]).path = x[1] /\ Row(x[2]).kind = Req(a).kind

\* A config named by the request routes with its own rules (here, none names a profile).
OwnRule(j) ==
  IF Row(j).config = "override" THEN Unnamed ELSE RuleAt(Row(j).path).profile

\* The profile a job runs with: that of its arguments, or the rule of its path (manual.py).
RunsWith(j) ==
  LET given == Reads(Row(j).args, "profile") IN
  IF given # Unnamed THEN given ELSE OwnRule(j)

\* The profile a claim counts a job under (JobQueue's Effective).
ChargedTo(j) ==
  IF Row(j).column # Unnamed THEN Row(j).column
  ELSE LET named == {i \in 1 .. Len(Row(j).args) - 1 :
                       Row(j).args[i] \in {Flag("profile"), Flag("p")}}
       IN IF named = {} THEN Unnamed
          ELSE Row(j).args[(CHOOSE i \in named : \A k \in named : i <= k) + 1].value

\* The handler knows "--profile lq", not "--profile=lq".
Separate(args) == \A t \in ToSet(args) : t.value = Unnamed \/ t.flag = Unnamed

TakesProfile(j) == Row(j).kind \in {"convert", "preview"}

\* The request wins over the defaults and both over the rule; what only the rule names is
\* what the job is charged to.  Only a default overridden by the request confuses the tool.
RunAsAsked ==
  \A j \in DOMAIN table :
    LET args == Row(j).args
        own == IF FromArr(Req(Row(j).by)) THEN ArrArgs(Req(Row(j).by)) ELSE Req(Row(j).by).args
    IN /\ (TakesProfile(j) /\ ~Misread(args) /\ Separate(own)) =>
            /\ RunsWith(j) = IF Override(j) # Unnamed THEN Override(j)
                             ELSE OwnRule(j)
            /\ (Override(j) = Unnamed /\ Req(Row(j).by).config = Unnamed) =>
                 ChargedTo(j) = RunsWith(j)
       /\ Misread(args) => Misread(own) \/ scase.defaults # <<>>
       /\ (~Misread(args) /\ Reads(own, "tmdb") # Unnamed) =>
            Reads(args, "tmdb") = Reads(own, "tmdb")

\* Under strict routing a job has a rule, unless its request names a config; no job is for
\* a path the request gives in the recycle bin; an event is forwarded only to instances
\* its paths' rules name, and fails only when every one of them failed.
Routable ==
  /\ \A j \in DOMAIN table :
       LET r == Req(Row(j).by) IN
       /\ (scase.strict /\ r.kind = "convert") => Routed(Row(j).path) \/ r.config # Unnamed
       /\ ~Binned(JobPath(r.target))
  /\ \A a \in Asker :
       LET told == ask[a].answer IN
       /\ \A i \in told.sent : Req(a).paths = {} \/ \E p \in Req(a).paths :
                                                      i \in ToSet(RuleAt(JobPath(p)).services)
       /\ (Stage(a, "done") /\ Req(a).event = "Other") =>
            (told.code = 502 <=> told.sent = {} /\ Forwards(Req(a)) # {})

\* A repair or rename is run as a conversion only by an older node that was not seen when
\* the job was submitted.
KindsKept ==
  \A j \in DOMAIN table :
    Row(j).ran \notin {Unnamed, Row(j).kind} => Row(j).gate # "seen"

\* One request is one truthful answer and jobs that do what it asks.
SubmissionsSound == Answered /\ RunAsAsked /\ Routable /\ KindsKept

\* What does not hold: that the cap a job is counted under is that of the profile it runs
\* with (docs/configuration.md:672), which a tag or a posted profile changes in the
\* arguments only; and that a default the caller overrides is dropped (_merge_args): its
\* value stays behind.
ChargedAsRun == \A j \in DOMAIN table : TakesProfile(j) => ChargedTo(j) = RunsWith(j)

DefaultsYield ==
  \A j \in DOMAIN table :
    Misread(table[j].args) => Misread(scase.defaults) \/ Misread(Req(table[j].by).args)

=============================================================================
