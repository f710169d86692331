----------------------------- MODULE WorkerWake -----------------------------
(***************************************************************************)
(* How the worker threads of one node learn that there is work: the event  *)
(* of each worker, WorkerPool.notify_one with its round robin, the chain   *)
(* wake, the drain and pause gates, the polling timeout and the respawn of *)
(* dead threads (resources/daemon/worker.py).  Cluster assumes that a free *)
(* worker looks at the queue; this module is about when it does.           *)
(***************************************************************************)
EXTENDS Integers, FiniteSets

CONSTANTS
  PoolSize,     \* worker_count
  MaxBacklog,   \* bound: jobs that wait at a time
  Arrivals,     \* bound: jobs that ever arrive
  WakeBudgets   \* bounds: how often each disturbance may happen

WakeDisturbance == {"raise", "die", "drain", "pause", "resume", "elsewhere"}

ASSUME WakeAssumption ==
  /\ PoolSize \in Nat \ {0} /\ MaxBacklog \in Nat /\ Arrivals \in Nat
  /\ WakeBudgets \subseteq [WakeDisturbance -> Nat]

VARIABLES
  wpc,      \* worker -> where its thread is
  event,    \* worker -> job_event is set
  cursor,   \* _notify_cursor
  backlog,  \* jobs a claim of this node would find
  posted,   \* jobs added whose notification has not been made yet
  gates,    \* the drain and pause events of the pool
  resuming, \* a resume has cleared the pause and not yet the drain
  arrived, wleft,
  lateClaims, \* history: jobs each worker has claimed since a gate was closed
  missed    \* history: a gate, an error or a death has cost a look at the queue

wakeVars == <<wpc, event, cursor, backlog, posted, gates, resuming, arrived, wleft,
              lateClaims, missed>>

Pool == 0 .. PoolSize - 1

\* current_job_id is None: also between the claim and the start of process_job.
LooksIdle(w) == wpc[w] # "busy"

WSpend(kind) == wleft[kind] > 0 /\ wleft' = [wleft EXCEPT ![kind] = @ - 1]

WakeInit ==
  /\ wpc = [w \in Pool |-> "waiting"] /\ event = [w \in Pool |-> FALSE]
  /\ cursor = 0 /\ backlog = 0 /\ posted = 0 /\ arrived = 0
  /\ gates = {} /\ resuming = FALSE /\ missed = FALSE
  /\ lateClaims = [w \in Pool |-> 0]
  /\ wleft \in WakeBudgets

Step(w, from, to) == wpc[w] = from /\ wpc' = [wpc EXCEPT ![w] = to]

-----------------------------------------------------------------------------
\* The worker notify_one wakes: the first that looks idle from the cursor on, or
\* the cursor's own if none does.
Offset(w) == (w - cursor) % PoolSize

Woken ==
  LET idle == {w \in Pool : LooksIdle(w)} IN
  IF idle = {} THEN cursor
  ELSE CHOOSE w \in idle : \A v \in idle : Offset(w) <= Offset(v)

NotifyOne ==
  /\ event' = [event EXCEPT ![Woken] = TRUE]
  /\ cursor' = (Woken + 1) % PoolSize

\* A job is added (a submission, a requeue, a recovery); then notify_workers.
Arrive ==
  /\ arrived < Arrivals /\ backlog < MaxBacklog
  /\ arrived' = arrived + 1 /\ backlog' = backlog + 1 /\ posted' = posted + 1
  /\ UNCHANGED <<wpc, event, cursor, gates, resuming, wleft, missed, lateClaims>>

Notify ==
  /\ posted > 0 /\ posted' = posted - 1
  /\ NotifyOne
  /\ UNCHANGED <<wpc, backlog, gates, resuming, arrived, wleft, missed, lateClaims>>

\* A peer of the cluster takes a job.
TakenElsewhere ==
  /\ backlog > 0 /\ WSpend("elsewhere") /\ backlog' = backlog - 1
  /\ UNCHANGED <<wpc, event, cursor, posted, gates, resuming, arrived, missed,
                 lateClaims>>

-----------------------------------------------------------------------------
(* The worker loop, _run_once.                                             *)

\* job_event.wait returns: the event is set, or the poll interval is over.
Signalled(w) == event[w] /\ Step(w, "waiting", "woken")

\* Slip: wait without a timeout.
TimedOutSlip(w) == FALSE /\ Step(w, "waiting", "woken")

TimedOut(w) == Step(w, "waiting", "woken")

WakeUp(w) ==
  /\ Signalled(w) \/ TimedOut(w)
  /\ UNCHANGED <<event, cursor, backlog, posted, gates, resuming, arrived, wleft,
                 missed, lateClaims>>

\* job_event.clear, before the queue is looked at.
ClearEvent(w) ==
  /\ Step(w, "woken", "gate") /\ event' = [event EXCEPT ![w] = FALSE]
  /\ UNCHANGED <<cursor, backlog, posted, gates, resuming, arrived, wleft, missed,
                 lateClaims>>

\* Slip: the gates are looked at on waking only, not between two jobs.
GateSlip(w) ==
  Step(w, "gate", IF gates = {} \/ backlog > 0 THEN "claiming" ELSE "waiting")

\* The pause gate and the drain gate; a closed one sends the worker back to wait.
Gate(w) == Step(w, "gate", IF gates = {} THEN "claiming" ELSE "waiting")

PassGate(w) ==
  /\ Gate(w)
  /\ missed' = (missed \/ gates # {})
  /\ UNCHANGED <<event, cursor, backlog, posted, gates, resuming, arrived, wleft,
                 lateClaims>>

\* claim_next_job finds a job or nothing.
ClaimOne(w) ==
  /\ \/ /\ backlog > 0 /\ Step(w, "claiming", "claimed")
        /\ backlog' = backlog - 1
        /\ lateClaims' = [lateClaims EXCEPT ![w] = IF gates = {} THEN 0 ELSE @ + 1]
     \/ /\ backlog = 0 /\ Step(w, "claiming", "empty")
        /\ UNCHANGED <<backlog, lateClaims>>
  /\ UNCHANGED <<event, cursor, posted, gates, resuming, arrived, wleft, missed>>

\* Slip: the event is cleared once the queue was found empty.
EventOnMissSlip(w) == [event EXCEPT ![w] = FALSE]

\* What a look at an empty queue leaves of the events: a notification that came after
\* the look is kept.
EventOnMiss(w) == event

WaitAgain(w) ==
  /\ Step(w, "empty", "waiting")
  /\ event' = EventOnMiss(w)
  /\ UNCHANGED <<cursor, backlog, posted, gates, resuming, arrived, wleft, missed,
                 lateClaims>>

\* claim_next_job raises: the loop backs off and waits again.
ClaimRaises(w) ==
  /\ WSpend("raise") /\ Step(w, "claiming", "waiting")
  /\ missed' = TRUE
  /\ UNCHANGED <<event, cursor, backlog, posted, gates, resuming, arrived, lateClaims>>

\* Chain wake: the next idle worker is told before this one is seen to be busy.
ChainWake(w) ==
  /\ Step(w, "claimed", "told")
  /\ NotifyOne
  /\ UNCHANGED <<backlog, posted, gates, resuming, arrived, wleft, missed, lateClaims>>

\* process_job sets current_job_id, converts, and clears it.
Process(w) ==
  /\ Step(w, "told", "busy") \/ Step(w, "busy", "gate")
  /\ UNCHANGED <<event, cursor, backlog, posted, gates, resuming, arrived, wleft,
                 missed, lateClaims>>

\* The thread ends unexpectedly.
Die(w) ==
  /\ wpc[w] # "dead" /\ WSpend("die")
  /\ wpc' = [wpc EXCEPT ![w] = "dead"] /\ missed' = TRUE
  /\ UNCHANGED <<event, cursor, backlog, posted, gates, resuming, arrived, lateClaims>>

\* ensure_workers_alive
Respawn(w) ==
  /\ Step(w, "dead", "waiting")
  /\ event' = [event EXCEPT ![w] = FALSE]
  /\ UNCHANGED <<cursor, backlog, posted, gates, resuming, arrived, wleft, missed,
                 lateClaims>>

-----------------------------------------------------------------------------
(* Drain, pause and resume.                                                *)

CloseGate(g) ==
  /\ g \notin gates /\ WSpend(g) /\ gates' = gates \cup {g}
  /\ lateClaims' = IF gates = {} THEN [w \in Pool |-> 0] ELSE lateClaims
  /\ UNCHANGED <<wpc, event, cursor, backlog, posted, resuming, arrived, missed>>

\* clear_paused wakes everyone; the drain is cleared only after that.
ClearPaused ==
  /\ ~ resuming /\ WSpend("resume")
  /\ gates' = gates \ {"pause"} /\ resuming' = TRUE
  /\ event' = [w \in Pool |-> TRUE]
  /\ UNCHANGED <<wpc, cursor, backlog, posted, arrived, missed, lateClaims>>

ClearDrain ==
  /\ resuming /\ resuming' = FALSE /\ gates' = gates \ {"drain"}
  /\ UNCHANGED <<wpc, event, cursor, backlog, posted, arrived, wleft, missed,
                 lateClaims>>

-----------------------------------------------------------------------------
Thread(w) ==
  \/ WakeUp(w)
  \/ ClearEvent(w)
  \/ PassGate(w)
  \/ ClaimOne(w)
  \/ WaitAgain(w)
  \/ ChainWake(w)
  \/ Process(w)

WakeNext ==
  \/ Arrive
  \/ Notify
  \/ TakenElsewhere
  \/ \E w \in Pool : Thread(w) \/ ClaimRaises(w) \/ Die(w) \/ Respawn(w)
  \/ \E g \in {"drain", "pause"} : CloseGate(g)
  \/ ClearPaused
  \/ ClearDrain

\* Threads run, conversions end, notifications and resumes complete, and the
\* server respawns dead threads.
WakeFairness ==
  /\ WF_wakeVars(Notify) /\ WF_wakeVars(ClearDrain)
  /\ \A w \in Pool : WF_wakeVars(Thread(w)) /\ WF_wakeVars(Respawn(w))

WakeSpec == WakeInit /\ [][WakeNext]_wakeVars /\ WakeFairness

-----------------------------------------------------------------------------
(* Properties.                                                             *)

WakeTypeOK ==
  /\ wpc \in [Pool -> {"waiting", "woken", "gate", "claiming", "empty", "claimed",
                       "told", "busy", "dead"}]
  /\ event \in [Pool -> BOOLEAN] /\ cursor \in Pool
  /\ backlog \in 0 .. MaxBacklog /\ posted \in 0 .. Arrivals
  /\ gates \subseteq {"drain", "pause"} /\ resuming \in BOOLEAN
  /\ missed \in BOOLEAN
  /\ lateClaims \in [Pool -> 0 .. Arrivals]

\* Nobody is on the way to the queue: no thread between waking and the end of its
\* claim, no event set, no notification outstanding.
Quiet ==
  /\ posted = 0 /\ gates = {} /\ ~ resuming
  /\ \A w \in Pool : wpc[w] \in {"waiting", "busy", "dead"}
  /\ \A w \in Pool : wpc[w] = "waiting" => ~ event[w]

\* A wake-up is never lost: when every worker sleeps without an event, no job waits,
\* unless a gate, an error or a death made one turn away (the event is cleared before
\* the queue is looked at, and a notification follows every arrival).
NoWakeUpLost ==
  Quiet /\ ~ missed /\ (\A w \in Pool : wpc[w] = "waiting") => backlog = 0

\* worker.py: a worker that claims a job wakes the next idle worker, so that no one
\* sleeps while a job waits.
ChainReachesIdle ==
  Quiet /\ ~ missed /\ backlog > 0 => \A w \in Pool : wpc[w] # "waiting"

\* Whatever wake-ups are lost to gates, errors, dead threads or the chain waking its
\* own worker, the poll finds the job.
BacklogClears == backlog > 0 ~> backlog = 0 \/ gates # {}

\* A drain or a pause takes effect between two jobs: once a gate is closed a worker
\* claims at most the one job it had passed the gate for.
OneMoreAtMost == gates # {} => \A w \in Pool : lateClaims[w] <= 1

=============================================================================
