------------------------------ MODULE Cluster ------------------------------
(***************************************************************************)
(* The daemons that share the job queue: per node a worker pool with its   *)
(* job watchdogs (resources/daemon/worker.py), the heartbeat thread        *)
(* (threads.py), the config slots (config.py) and the start, stop and      *)
(* cancel paths of the server (server.py), over the jobs table of          *)
(* JobQueue.                                                               *)
(*                                                                         *)
(* A step is one database transaction or one change of shared memory; two  *)
(* reads with no state change between them, or a read that repeats the     *)
(* guard of the update that follows it, are one step.  A database that a   *)
(* node cannot reach is a state (cut), not an event: every call the node   *)
(* makes meanwhile raises.                                                 *)
(***************************************************************************)
EXTENDS JobQueue

CONSTANTS
  Slots,       \* max_per_config: the worker count of the daemon
  Allowances,  \* bounds: how often each kind of disturbance may happen
  NoConfig

Disturbance ==
  {"crash", "stop", "cut", "stall", "cancel", "defer", "missing", "requeue",
   "delete", "command", "hang"}

ASSUME ClusterAssumption ==
  /\ Slots \in Nat \ {0}
  /\ Allowances \subseteq [Disturbance -> Nat]
  /\ NoConfig \notin Config

VARIABLES
  proc,     \* node -> state of the daemon process
  row,      \* node -> cluster_nodes.status
  silent,   \* node -> last_seen is older than stale_seconds
  cut,      \* node -> its database calls raise
  gate,     \* node -> the flags set on its worker pool
  command,  \* node -> a command whose flag is set and whose status is not yet written
  wk,       \* <<node, worker_id>> -> the worker thread; its turn (which claim of the
            \* job it holds) and ousted (the row was taken from it) are history
  free,     \* node -> config -> free slots of the semaphore
  active,   \* node -> config -> _active_configs, the jobs holding a slot
  handoff,  \* <<node, job>>: cancelled by this node, its watchdog not yet told
  turn,     \* history: job -> how often it was claimed
  left      \* disturbances still allowed; "hang": there is no job timeout

pool == <<wk, free, active>>
node == <<proc, row, silent, cut, gate, command>>
vars == <<queue, pool, node, handoff, turn, left>>

Worker == Node \X WorkerId
Abort  == {"none", "timeout", "cancelled", "reassigned", "shutdown"}

Thread ==
  [pc : {"idle", "polled", "claimed", "rejecting", "locking", "locked",
         "preflight", "running", "won", "lost", "raised"},
   job : JobId \cup {0}, config : Config \cup {NoConfig}, turn : Nat,
   abort : Abort, excl : SUBSET Config, ousted : BOOLEAN]

Idle ==
  [pc |-> "idle", job |-> 0, config |-> NoConfig, turn |-> 0, abort |-> "none",
   excl |-> {}, ousted |-> FALSE]

-----------------------------------------------------------------------------
(* Reading the state.                                                      *)

Alive(n) == proc[n] # "down"

Busy(w) == wk[w].job # 0

WorkersOf(n) == {n} \X WorkerId

Converting(j) == {w \in Worker : wk[w].pc = "running" /\ wk[w].job = j}

\* Peers that load balancing counts: rows with status 'online'.
Online == {n \in Node : row[n] = "online"}

\* The threads of the nodes S are marked if a recovery takes their row from them.
Ousted(S) ==
  [w \in Worker |->
     IF w[1] \in S /\ wk[w].job \in RunningOn(w[1])
     THEN [wk[w] EXCEPT !.ousted = TRUE] ELSE wk[w]]

\* What recover_stale_nodes selects: only rows that still say 'online'.
Stale == {n \in Node : row[n] = "online" /\ silent[n]}

\* get_locked_configs: configs with every slot taken.
LockedConfigs(n) == {c \in Config : Cardinality(active[n][c]) >= Slots}

Cancelled(w) == wk[w].job \in WithStatus({"cancelled"})

\* Slip: a row that went back to pending is not noticed.
OwnershipSlip(w) ==
  LET j == wk[w].job IN
  IF j \notin DOMAIN jobs \/ Cancelled(w) THEN "cancelled"
  ELSE IF j \in WithStatus({"pending"}) \/ jobs[j].node = w[1] THEN "none"
  ELSE "reassigned"

\* A worker's job row, as _check_job_ownership reads it; "none" keeps converting.
Ownership(w) ==
  LET j == wk[w].job IN
  IF j \notin DOMAIN jobs \/ Cancelled(w) THEN "cancelled"
  ELSE IF j \in WithStatus({"running"}) /\ jobs[j].node = w[1] THEN "none"
  ELSE "reassigned"

Spend(kind) ==
  /\ left[kind] > 0
  /\ left' = [left EXCEPT ![kind] = @ - 1]

\* job-timeout-seconds is positive: a conversion may not hang for good.
Timed == left["hang"] = 0

At(w, pc) == Alive(w[1]) /\ wk[w].pc = pc

Goto(w, pc) == wk' = [wk EXCEPT ![w].pc = pc]

\* Whose row w changes if w has lost its claim: the thread with the latest one, on
\* w's own node (all that the owner guard compares) or, by a deferral, on any.
Usurped(w) ==
  {v \in Worker \ {w} : /\ wk[v].job = wk[w].job /\ wk[v].turn = turn[wk[w].job]
                        /\ v[1] = w[1] \/ wk[w].pc = "preflight"}

\* Thread w is done with its job; history: whose row it changed has lost it.
Dismiss(w) ==
  wk' = [v \in Worker |->
           IF v = w THEN Idle
           ELSE IF jobs' # jobs /\ v \in Usurped(w) THEN [wk[v] EXCEPT !.ousted = TRUE]
           ELSE wk[v]]

\* Slip: the slot is given back without leaving _active_configs.
FinishSlip(w) ==
  /\ Dismiss(w)
  /\ free' = [free EXCEPT ![w[1]][wk[w].config] = @ + 1]
  /\ UNCHANGED active

\* process_job returns and its finally clause gives the slot back.
Finish(w) ==
  /\ Dismiss(w)
  /\ free' = [free EXCEPT ![w[1]][wk[w].config] = @ + 1]
  /\ active' = [active EXCEPT ![w[1]][wk[w].config] = @ \ {wk[w].job}]

\* process_job leaves before it holds a slot, or without giving it back.
Leave(w) ==
  /\ Dismiss(w)
  /\ UNCHANGED <<free, active>>

-----------------------------------------------------------------------------
(* The worker loop: one worker w = <<n, i>>.                               *)

\* Approval, pause and drain gates pass; the full configs are read.
Poll(w) ==
  /\ proc[w[1]] = "up" /\ wk[w].pc = "idle"
  /\ gate[w[1]] = {} /\ ~cut[w[1]]
  /\ wk' = [wk EXCEPT ![w].pc = "polled", ![w].excl = LockedConfigs(w[1])]
  /\ UNCHANGED <<queue, node, free, active, handoff, turn, left>>

\* claim_next_job: the transaction; the claimed row is fetched by Fetch.
ClaimJob(w) ==
  /\ At(w, "polled") /\ ~cut[w[1]]
  /\ \E j \in DOMAIN jobs :
       /\ ClaimNextJob(j, w[1], w[2], wk[w].excl, Online)
       /\ turn' = [turn EXCEPT ![j] = @ + 1]
       /\ wk' = [wk EXCEPT ![w] =
                   [Idle EXCEPT !.pc = "claimed", !.job = j, !.turn = turn'[j],
                                !.config = jobs[j].req.config]]
  /\ UNCHANGED <<node, free, active, handoff, left>>

\* Nothing to claim, an idle peer goes first, or the database is away.
ClaimNothing(w) ==
  /\ At(w, "polled")
  /\ cut[w[1]] \/ Yields(w[1], Online) \/ Claimable(wk[w].excl) = {}
  /\ UNCHANGED <<queue, node, handoff, turn, left>>
  /\ Leave(w)

\* The row is fetched, the path looked at, the status read again.  A row deleted
\* meanwhile ends the claim or, if it was fetched before, goes unnoticed.
Fetch(w) ==
  /\ At(w, "claimed")
  /\ UNCHANGED <<queue, node, handoff, turn, left>>
  /\ \/ /\ cut[w[1]] \/ Cancelled(w) \/ wk[w].job \notin DOMAIN jobs
        /\ Leave(w)
     \/ /\ ~cut[w[1]] /\ ~Cancelled(w)
        /\ Goto(w, "locking") /\ UNCHANGED <<free, active>>

\* The path is gone: straight to fail_job, outside process_job's try.
PathMissing(w) ==
  /\ At(w, "claimed") /\ ~cut[w[1]]
  /\ Spend("missing")
  /\ Goto(w, "rejecting")
  /\ UNCHANGED <<queue, node, free, active, handoff, turn>>

\* fail_job, or its result discarded: the owner guard decides.
FailOrDiscard(w) ==
  \/ FailJob(wk[w].job, w[1])
  \/ ~Owns(wk[w].job, w[1]) /\ UNCHANGED queue

Reject(w) ==
  /\ At(w, "rejecting")
  /\ IF cut[w[1]] THEN UNCHANGED queue ELSE FailOrDiscard(w)
  /\ Leave(w)
  /\ UNCHANGED <<node, handoff, turn, left>>

AcquireSlot(w) ==
  LET n == w[1]  c == wk[w].config IN
  /\ At(w, "locking") /\ free[n][c] > 0
  /\ free' = [free EXCEPT ![n][c] = @ - 1]
  /\ active' = [active EXCEPT ![n][c] = @ \cup {wk[w].job}]
  /\ Goto(w, "locked")
  /\ UNCHANGED <<queue, node, handoff, turn, left>>

\* The second look for a cancel.  A call that raises here is before the try:
\* nothing gives the slot back.
Recheck(w) ==
  /\ At(w, "locked")
  /\ UNCHANGED <<queue, node, handoff, turn, left>>
  /\ \/ cut[w[1]] /\ Leave(w)
     \/ ~cut[w[1]] /\ Cancelled(w) /\ Finish(w)
     \/ ~cut[w[1]] /\ ~Cancelled(w) /\ Goto(w, "preflight") /\ UNCHANGED <<free, active>>

\* _preflight_disk_pressure: too little space, the row goes back with a delay.
Defer(w) ==
  /\ At(w, "preflight") /\ ~cut[w[1]]
  /\ Spend("defer")
  /\ \/ DeferJob(wk[w].job)
     \/ wk[w].job \notin DOMAIN jobs /\ UNCHANGED queue
  /\ Finish(w)
  /\ UNCHANGED <<node, handoff, turn>>

StartConversion(w) ==
  /\ At(w, "preflight")
  /\ Goto(w, "running")
  /\ UNCHANGED <<queue, node, free, active, handoff, turn, left>>

\* The process ends by itself.
Exit(w) ==
  /\ At(w, "running")
  /\ \E pc \in {"won", "lost"} : Goto(w, pc)
  /\ UNCHANGED <<queue, node, free, active, handoff, turn, left>>

\* The watchdog saw an abort reason and killed the process tree.
Killed(w) ==
  /\ At(w, "running") /\ wk[w].abort # "none"
  /\ Goto(w, "lost")
  /\ UNCHANGED <<queue, node, free, active, handoff, turn, left>>

WatchdogPoll(w) ==
  /\ At(w, "running") /\ wk[w].abort = "none" /\ ~cut[w[1]]
  /\ Ownership(w) # "none"
  /\ wk' = [wk EXCEPT ![w].abort = Ownership(w)]
  /\ UNCHANGED <<queue, node, free, active, handoff, turn, left>>

Timeout(w) ==
  /\ At(w, "running") /\ wk[w].abort = "none" /\ Timed
  /\ wk' = [wk EXCEPT ![w].abort = "timeout"]
  /\ UNCHANGED <<queue, node, free, active, handoff, turn, left>>

\* Exit code 0: complete_job, or the completion discarded.
Complete(w) ==
  /\ At(w, "won")
  /\ IF cut[w[1]]
     THEN UNCHANGED <<queue, free, active>> /\ Goto(w, "raised")
     ELSE /\ \/ CompleteJob(wk[w].job, w[1])
             \/ ~Owns(wk[w].job, w[1]) /\ UNCHANGED queue
          /\ Finish(w)
  /\ UNCHANGED <<node, handoff, turn, left>>

\* Any other exit: fail_job unless the abort reason says the row is not ours.
Fail(w) ==
  /\ At(w, "lost")
  /\ \/ /\ wk[w].abort \in {"cancelled", "reassigned", "shutdown"}
        /\ UNCHANGED queue /\ Finish(w)
     \/ /\ wk[w].abort \in {"none", "timeout"} /\ ~cut[w[1]]
        /\ FailOrDiscard(w) /\ Finish(w)
     \/ /\ wk[w].abort \in {"none", "timeout"} /\ cut[w[1]]
        /\ Goto(w, "raised") /\ UNCHANGED <<queue, free, active>>
  /\ UNCHANGED <<node, handoff, turn, left>>

\* The exception handler's own fail_job; a second failure only releases the slot.
FailAfterError(w) ==
  /\ At(w, "raised")
  /\ IF cut[w[1]] THEN UNCHANGED queue ELSE FailOrDiscard(w)
  /\ Finish(w)
  /\ UNCHANGED <<node, handoff, turn, left>>

WorkerLoop(w) ==
  \/ Poll(w) \/ ClaimJob(w) \/ ClaimNothing(w) \/ Fetch(w) \/ Reject(w)
  \/ AcquireSlot(w) \/ Recheck(w) \/ StartConversion(w)
  \/ Complete(w) \/ Fail(w) \/ FailAfterError(w)

Watchdog(w) == WatchdogPoll(w) \/ Timeout(w) \/ Killed(w)

-----------------------------------------------------------------------------
(* The heartbeat thread of node n.                                         *)

\* The status the heartbeat's upsert leaves: draining and paused are kept.
Beaten(status) == IF status \in {"draining", "paused"} THEN status ELSE "online"

Beats(n) == proc[n] = "up" /\ ~cut[n] /\ command[n] = "none"

Heartbeat(n) ==
  /\ Beats(n)
  /\ silent[n] \/ row[n] # Beaten(row[n])
  /\ silent' = [silent EXCEPT ![n] = FALSE]
  /\ row' = [row EXCEPT ![n] = Beaten(@)]
  /\ UNCHANGED <<queue, pool, proc, cut, gate, command, handoff, turn, left>>

\* stale_seconds pass without a heartbeat: the process or the connection is
\* gone, or the thread is held up.
GoSilent(n) ==
  /\ ~silent[n]
  /\ IF proc[n] = "up" /\ ~cut[n] THEN Spend("stall") ELSE UNCHANGED left
  /\ silent' = [silent EXCEPT ![n] = TRUE]
  /\ UNCHANGED <<queue, pool, proc, row, cut, gate, command, handoff, turn>>

\* recover_stale_nodes, right after node n's own heartbeat: one transaction.
RecoverStale(n) ==
  /\ Beats(n) /\ ~silent[n]
  /\ Stale # {}
  /\ RequeueStaleJobs(Stale)
  /\ row' = [m \in Node |-> IF m \in Stale THEN "offline" ELSE row[m]]
  /\ wk' = Ousted(Stale)
  /\ UNCHANGED <<free, active, proc, silent, cut, gate, command, handoff, turn, left>>

\* _execute_command: first the flag of the pool, then the status of the row.
TakeCommand(n, c) ==
  /\ Beats(n)
  /\ Spend("command")
  /\ gate' = [gate EXCEPT ![n] = IF c = "resume" THEN {} ELSE @ \cup {c}]
  /\ command' = [command EXCEPT ![n] = c]
  /\ UNCHANGED <<queue, pool, proc, row, silent, cut, handoff, turn>>

StatusOf(c) ==
  CASE c = "drain" -> "draining" [] c = "pause" -> "paused" [] OTHER -> "online"

\* set_node_status may raise: the command is acknowledged as failed.
WriteStatus(n) ==
  /\ proc[n] = "up" /\ command[n] # "none"
  /\ row' = IF cut[n] THEN row ELSE [row EXCEPT ![n] = StatusOf(command[n])]
  /\ command' = [command EXCEPT ![n] = "none"]
  /\ UNCHANGED <<queue, pool, proc, silent, cut, gate, handoff, turn, left>>

-----------------------------------------------------------------------------
(* Stopping, crashing and starting a daemon.                               *)

\* _stop_and_drain: the pool and the heartbeat stop, running conversions go on.
\* A signal leaves the row alone; a command wrote its status before.
Stop(n, status) ==
  /\ proc[n] = "up" /\ command[n] = "none"
  /\ status # row[n] => ~cut[n]
  /\ Spend("stop")
  /\ proc' = [proc EXCEPT ![n] = "stopping"]
  /\ row' = [row EXCEPT ![n] = status]
  /\ UNCHANGED <<queue, pool, silent, cut, gate, command, handoff, turn>>

\* abort_all at the drain deadline.
DrainDeadline(n) ==
  /\ proc[n] = "stopping"
  /\ proc' = [proc EXCEPT ![n] = "leaving"]
  /\ wk' = [w \in Worker |->
              IF w[1] = n /\ Busy(w) /\ wk[w].abort = "none"
              THEN [wk[w] EXCEPT !.abort = "shutdown"] ELSE wk[w]]
  /\ UNCHANGED <<queue, free, active, row, silent, cut, gate, command, handoff, turn, left>>

\* Every worker thread has left its loop.
Drained(n) ==
  /\ proc[n] = "stopping"
  /\ \A w \in WorkersOf(n) : wk[w].pc = "idle"
  /\ proc' = [proc EXCEPT ![n] = "leaving"]
  /\ UNCHANGED <<queue, pool, row, silent, cut, gate, command, handoff, turn, left>>

\* mark_node_offline, first transaction: its running rows go back.
HandBack(n) ==
  /\ proc[n] = "leaving" /\ ~cut[n]
  /\ RequeueNodeJobs(n)
  /\ wk' = Ousted({n})
  /\ proc' = [proc EXCEPT ![n] = "left"]
  /\ UNCHANGED <<free, active, row, silent, cut, gate, command, handoff, turn, left>>

\* The process is gone, and with it every thread and flag.
Vanish(n) ==
  /\ proc' = [proc EXCEPT ![n] = "down"]
  /\ wk' = [w \in Worker |-> IF w[1] = n THEN Idle ELSE wk[w]]
  /\ free' = [free EXCEPT ![n] = [c \in Config |-> Slots]]
  /\ active' = [active EXCEPT ![n] = [c \in Config |-> {}]]
  /\ gate' = [gate EXCEPT ![n] = {}]
  /\ command' = [command EXCEPT ![n] = "none"]
  /\ handoff' = {h \in handoff : h[1] # n}
  /\ UNCHANGED <<silent, cut, turn>>

\* Second transaction and exit; a call that raises skips what is left of it.
GoOffline(n) ==
  /\ proc[n] = "left" \/ (proc[n] = "leaving" /\ cut[n])
  /\ row' = IF cut[n] THEN row ELSE [row EXCEPT ![n] = "offline"]
  /\ Vanish(n)
  /\ UNCHANGED <<queue, left>>

Crash(n) ==
  /\ Alive(n)
  /\ Spend("crash")
  /\ Vanish(n)
  /\ UNCHANGED <<queue, row>>

\* _init_db of the new process takes back what its predecessor was running.
Start(n) ==
  /\ proc[n] = "down" /\ ~cut[n]
  /\ RequeueNodeJobs(n)
  /\ proc' = [proc EXCEPT ![n] = "up"]
  /\ UNCHANGED <<pool, row, silent, cut, gate, command, handoff, turn, left>>

Cut(n) ==
  /\ ~cut[n]
  /\ Spend("cut")
  /\ cut' = [cut EXCEPT ![n] = TRUE]
  /\ UNCHANGED <<queue, pool, proc, row, silent, gate, command, handoff, turn>>

Heal(n) ==
  /\ cut[n]
  /\ cut' = [cut EXCEPT ![n] = FALSE]
  /\ UNCHANGED <<queue, pool, proc, row, silent, gate, command, handoff, turn, left>>

-----------------------------------------------------------------------------
(* Requests served by node n.                                              *)

Serves(n) == Alive(n) /\ ~cut[n]

Submit(r) ==
  /\ AddJob(r)
  /\ UNCHANGED <<pool, node, handoff, turn, left>>

\* server.cancel_job: the row first; then, if this node converted the job when
\* the request came in, the watchdog is told, whatever the row said.
Cancel(n, j) ==
  /\ Serves(n)
  /\ Spend("cancel")
  /\ CancelJob(j) \/ (j \notin WithStatus(Active) /\ UNCHANGED queue)
  /\ handoff' = IF Converting(j) \cap WorkersOf(n) = {} THEN handoff
                ELSE handoff \cup {<<n, j>>}
  /\ UNCHANGED <<pool, node, turn>>

\* abort_job: the first abort reason stands.
HandOff(n, j) ==
  /\ <<n, j>> \in handoff
  /\ handoff' = handoff \ {<<n, j>>}
  /\ wk' = [w \in Worker |->
              IF w[1] = n /\ wk[w].job = j /\ wk[w].abort = "none"
              THEN [wk[w] EXCEPT !.abort = "cancelled"] ELSE wk[w]]
  /\ UNCHANGED <<queue, free, active, node, turn, left>>

Requeue(j) ==
  /\ Spend("requeue")
  /\ RequeueJob(j)
  /\ UNCHANGED <<pool, node, handoff, turn>>

Delete(j) ==
  /\ Spend("delete")
  /\ DeleteJobs({j})
  /\ UNCHANGED <<pool, node, handoff, turn>>

Elapse(j) ==
  /\ BackoffElapses(j)
  /\ UNCHANGED <<pool, node, handoff, turn, left>>

-----------------------------------------------------------------------------
Init ==
  /\ QInit
  /\ proc = [n \in Node |-> "up"]
  /\ row = [n \in Node |-> "online"]
  /\ silent = [n \in Node |-> FALSE]
  /\ cut = [n \in Node |-> FALSE]
  /\ gate = [n \in Node |-> {}]
  /\ command = [n \in Node |-> "none"]
  /\ wk = [w \in Worker |-> Idle]
  /\ free = [n \in Node |-> [c \in Config |-> Slots]]
  /\ active = [n \in Node |-> [c \in Config |-> {}]]
  /\ handoff = {}
  /\ turn = [j \in JobId |-> 0]
  /\ left \in Allowances

WorkerNext ==
  \E w \in Worker : WorkerLoop(w) \/ PathMissing(w) \/ Defer(w) \/ Exit(w) \/ Watchdog(w)

NodeNext ==
  \E n \in Node :
    \/ Heartbeat(n) \/ GoSilent(n) \/ RecoverStale(n)
    \/ \E c \in {"drain", "pause", "resume"} : TakeCommand(n, c)
    \/ WriteStatus(n)
    \/ \E status \in {row[n], "restarting", "offline"} : Stop(n, status)
    \/ DrainDeadline(n) \/ Drained(n) \/ HandBack(n) \/ GoOffline(n)
    \/ Crash(n) \/ Start(n) \/ Cut(n) \/ Heal(n)

RequestNext ==
  \/ \E r \in Request : Submit(r)
  \/ \E n \in Node, j \in DOMAIN jobs : Cancel(n, j)
  \/ \E h \in handoff : HandOff(h[1], h[2])
  \/ \E j \in DOMAIN jobs : Requeue(j) \/ Delete(j) \/ Elapse(j)

Next == WorkerNext \/ NodeNext \/ RequestNext

Spec == Init /\ [][Next]_vars

-----------------------------------------------------------------------------
(* Fairness.  Threads are scheduled, the heartbeat keeps its interval, a   *)
(* timer that is due fires, a killed process dies.  A conversion need      *)
(* never end by itself, no outage need end, and nobody must restart a node.*)

WorkerFairness == \A w \in Worker : WF_vars(WorkerLoop(w)) /\ WF_vars(Killed(w))

NodeFairness ==
  \A n \in Node : WF_vars(Heartbeat(n)) /\ WF_vars(RecoverStale(n)) /\ WF_vars(WriteStatus(n))

ClockFairness ==
  /\ \A j \in JobId : WF_vars(j \in DOMAIN jobs /\ Elapse(j))
  /\ \A n \in Node : WF_vars(~Alive(n) /\ GoSilent(n))

TimeoutFairness == \A w \in Worker : WF_vars(Timeout(w))

\* The watchdog polls the row, and an outage ends.
PollFairness ==
  /\ \A w \in Worker : WF_vars(WatchdogPoll(w))
  /\ \A n \in Node : WF_vars(Heal(n))

LiveSpec ==
  /\ Spec
  /\ WorkerFairness /\ NodeFairness /\ ClockFairness /\ TimeoutFairness /\ PollFairness

-----------------------------------------------------------------------------
(* Properties.                                                             *)

\* Types, and what the slot bookkeeping keeps of a thread: only a thread that
\* works on a job carries its number, its turn and an abort reason.
ClusterTypeOK ==
  /\ QTypeOK
  /\ proc \in [Node -> {"up", "stopping", "leaving", "left", "down"}]
  /\ row \in [Node -> {"online", "draining", "paused", "restarting", "offline"}]
  /\ silent \in [Node -> BOOLEAN] /\ cut \in [Node -> BOOLEAN]
  /\ gate \in [Node -> SUBSET {"drain", "pause"}]
  /\ command \in [Node -> {"none", "drain", "pause", "resume"}]
  /\ wk \in [Worker -> Thread]
  /\ free \in [Node -> [Config -> 0..Slots]]
  /\ active \in [Node -> [Config -> SUBSET JobId]]
  /\ handoff \subseteq Node \X JobId
  /\ turn \in [JobId -> Nat] /\ left \in [Disturbance -> Nat]
  /\ \A w \in Worker : Busy(w) <=> wk[w].pc \notin {"idle", "polled"}

\* Two workers convert the same job, on one node or on two, only while all but
\* one of them had their row taken: by a recovery (of a peer that thought them
\* dead, or of their own node at its drain deadline), or by a worker that a
\* recovery ousted and that settled or deferred the row all the same.  No crash,
\* restart, cancel, retry or operator's requeue starts a second conversion.
NoDoubleConversion ==
  \A j \in JobId : Cardinality({w \in Converting(j) : ~wk[w].ousted}) <= 1

\* Docs, cluster mode: two nodes never process the same file at the same time.
OneNodePerJob == \A j \in JobId : \A v, w \in Converting(j) : v[1] = w[1]

\* A running row of a daemon that is up is in the hands of one of its workers:
\* no claim is orphaned on a node that nobody will recover.  (But by an outage in
\* the claim, and by a cancel whose watchdog is told so late that it stops the
\* next run of the job: that takes a stall, a cancel and a requeue.)
ClaimHasHolder ==
  \A n \in Node : proc[n] = "up" =>
    \A j \in RunningOn(n) : \E w \in WorkersOf(n) : wk[w].job = j

\* Whenever the owner guard would let a worker settle the row, that worker holds
\* the latest claim of it; save on the very node that runs the row, whose ousted
\* worker the guard, which compares nodes, cannot tell from its neighbour.
OwnerIsLatestClaim ==
  \A w \in Worker : Busy(w) /\ Owns(wk[w].job, w[1]) =>
    \/ wk[w].turn = turn[wk[w].job]
    \/ wk[w].ousted /\ jobs[wk[w].job].node = w[1]

\* Docs, troubleshooting: a result whose row was requeued by recovery is dropped
\* instead of overwriting the newer state.  With two workers per node it is not.
ResultsAreOwn ==
  \A w \in Worker : Busy(w) /\ Owns(wk[w].job, w[1]) => wk[w].turn = turn[wk[w].job]

\* The slots of a config are exactly accounted for: each is free or with a worker
\* between acquire and release.  And no job is listed that none of those workers
\* has, or the config would count as full for good.  (Two workers that share a job
\* share its entry, so a job may be missing from the list.)
Holding(n, c) ==
  {w \in WorkersOf(n) :
     wk[w].config = c /\ wk[w].pc \in {"locked", "preflight", "running", "won", "lost", "raised"}}

SlotsAccounted ==
  \A n \in Node, c \in Config :
    /\ free[n][c] + Cardinality(Holding(n, c)) = Slots
    /\ active[n][c] \subseteq {wk[w].job : w \in Holding(n, c)}

\* Docs, shutdown and restart: no running job is reset to pending.  While a
\* stopping daemon still converts a job, nobody else takes the row from it.
RestartResetsNothing ==
  [][\A w \in Worker :
       /\ wk[w].pc = "running" /\ wk'[w].pc = "running"
       /\ proc[w[1]] = "stopping" /\ proc'[w[1]] = "stopping"
       /\ wk[w].job \in RunningOn(w[1])
       => wk[w].job \in DOMAIN jobs' /\ jobs'[wk[w].job].status # "pending"]_vars

\* With a job timeout every job that is submitted reaches a verdict, or is
\* deleted: through node crashes, retries and hung conversions, no job waits
\* forever.
EveryJobSettles ==
  Timed => \A j \in JobId : [](j \in WithStatus(Active) => <>(j \notin WithStatus(Active)))

\* A conversion whose row was cancelled, deleted, requeued or claimed elsewhere
\* is killed even without a job timeout and if it would never end by itself.
LostConversionStops ==
  ~Timed => \A w \in Worker :
    [](wk[w].pc = "running" /\ wk[w].job \notin RunningOn(w[1])
       => <>(wk[w].pc # "running" \/ wk[w].job \in RunningOn(w[1])))

\* Work on a job comes to an end, with a job timeout and without.
WorkEnds == EveryJobSettles /\ LostConversionStops

\* Docs, crash runbook: the jobs of a crashed node are put back in the queue.
CrashedNodesRecovered ==
  \A n \in Node :
    [](~Alive(n) /\ RunningOn(n) # {} => <>(Alive(n) \/ RunningOn(n) = {}))

=============================================================================
