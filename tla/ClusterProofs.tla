---------------------------- MODULE ClusterProofs ----------------------------
(***************************************************************************)
(* What holds of the cluster for any nodes, workers, slots, submissions    *)
(* and disturbances: it uses the table as JobQueue says, a job is not      *)
(* converted twice unless its row was taken, and the owner guard is exact  *)
(* between nodes; while no node is cut off from the database, no slot is   *)
(* lost and no running row of a daemon that is up is without its worker;   *)
(* and with one worker per node it keeps the promise of JobLifecycle.      *)
(***************************************************************************)
EXTENDS ClusterLifecycle, JobQueueProofs

\* Types of what the threads and the cancel requests hold.
ThreadsOK ==
  /\ wk \in [Worker -> Thread]
  /\ turn \in [JobId -> Nat]
  /\ handoff \subseteq Node \X JobId
  /\ \A w \in Worker : Busy(w) <=> wk[w].pc \notin {"idle", "polled"}
  /\ \A w \in Worker : ~Alive(w[1]) => wk[w] = Idle

\* The row of a claim that was not taken from its thread w: deleted, cancelled, or
\* still running on w's node.
Keeps(w) ==
  LET j == wk[w].job IN
  j \in DOMAIN jobs =>
    \/ jobs[j].status = "cancelled"
    \/ jobs[j].status = "running" /\ jobs[j].node = w[1]

\* Every thread at work holds a claim of its own of a job that was inserted, and
\* as long as its row was not taken, that claim is the latest.
HolderInv ==
  /\ \A w \in Worker : Busy(w) =>
       /\ wk[w].job \in 1 .. (nextId - 1)
       /\ wk[w].turn \in 1 .. turn[wk[w].job]
       /\ ~wk[w].ousted => wk[w].turn = turn[wk[w].job] /\ Keeps(w)
  /\ \A v, w \in Worker :
       Busy(v) /\ wk[v].job = wk[w].job /\ wk[v].turn = wk[w].turn => v = w

CLInv == IInv /\ ThreadsOK /\ HolderInv

\* What any step but a claim does to the threads.
Follows(w) ==
  /\ wk'[w].job # 0 <=> wk'[w].pc \notin {"idle", "polled"}
  /\ ~Alive(w[1])' => wk'[w] = Idle
  /\ wk'[w].job # 0 => /\ wk'[w].job = wk[w].job /\ wk'[w].turn = wk[w].turn
                       /\ wk[w].ousted => wk'[w].ousted

ThreadsFollow ==
  /\ wk' \in [Worker -> Thread]
  /\ turn' = turn
  /\ handoff' \subseteq Node \X JobId
  /\ \A w \in Worker : Follows(w)

-----------------------------------------------------------------------------
(* Steps of threads.                                                       *)

\* Ids of rows and of held jobs are ids of jobs.
LEMMA HeldIds ==
  ASSUME CLInv
  PROVE  /\ DOMAIN jobs \subseteq JobId
         /\ \A w \in Worker : Busy(w) => wk[w].job \in JobId
  BY QueueAssumption DEF CLInv, IInv, HolderInv, JobId, QueueAssumption

\* A step that follows keeps the types.
LEMMA TypesFollow ==
  ASSUME CLInv, ThreadsFollow
  PROVE  ThreadsOK'
  BY DEF CLInv, ThreadsOK, ThreadsFollow, Follows, Busy

\* A claim that stays with its thread, over whatever happens to the rows.
LEMMA Carry ==
  ASSUME CLInv, ThreadsFollow, nextId' \in {nextId, nextId + 1},
         \A w \in Worker :
           wk'[w].job # 0 /\ ~wk'[w].ousted /\ Keeps(w) => Keeps(w)'
  PROVE  HolderInv'
<1>1. nextId \in Nat
  BY QueueAssumption DEF CLInv, IInv, QueueAssumption
<1>2. \A w \in Worker : wk'[w].job # 0 =>
        /\ Busy(w) /\ wk'[w].job = wk[w].job /\ wk'[w].turn = wk[w].turn
        /\ wk[w].ousted => wk'[w].ousted
  BY DEF ThreadsFollow, Follows, Busy
<1>3. ASSUME NEW w \in Worker, wk'[w].job # 0
      PROVE  /\ wk'[w].job \in 1 .. (nextId' - 1)
             /\ wk'[w].turn \in 1 .. turn'[wk'[w].job]
             /\ ~wk'[w].ousted =>
                  wk'[w].turn = turn'[wk'[w].job] /\ Keeps(w)'
  <2>1. /\ wk[w].job \in 1 .. (nextId - 1) /\ wk[w].turn \in 1 .. turn[wk[w].job]
        /\ ~wk[w].ousted => wk[w].turn = turn[wk[w].job] /\ Keeps(w)
    BY <1>2, <1>3 DEF CLInv, HolderInv
  <2>2. turn' = turn
    BY DEF ThreadsFollow
  <2>3. wk'[w].job \in 1 .. (nextId' - 1)
    BY <1>1, <1>2, <1>3, <2>1
  <2>4. ~wk'[w].ousted => wk'[w].turn = turn'[wk'[w].job] /\ Keeps(w)'
    <3> SUFFICES ASSUME ~wk'[w].ousted
                 PROVE  wk'[w].turn = turn'[wk'[w].job] /\ Keeps(w)'
      OBVIOUS
    <3>1. ~wk[w].ousted
      BY <1>2, <1>3
    <3>2. Keeps(w)'
      BY <1>3, <2>1, <3>1
    <3> QED
      BY <1>2, <1>3, <2>1, <2>2, <3>1, <3>2
  <2> QED
    BY <1>2, <1>3, <2>1, <2>2, <2>3, <2>4
<1>4. ASSUME NEW v \in Worker, NEW w \in Worker, wk'[v].job # 0,
             wk'[v].job = wk'[w].job, wk'[v].turn = wk'[w].turn
      PROVE  v = w
  BY <1>2, <1>4 DEF CLInv, HolderInv
<1> QED
  BY <1>3, <1>4 DEF HolderInv, Busy

\* A step that leaves the table alone.
LEMMA Still ==
  ASSUME CLInv, ThreadsFollow, UNCHANGED queue
  PROVE  HolderInv'
<1>1. ASSUME NEW w \in Worker, wk'[w].job # 0, Keeps(w)
      PROVE  Keeps(w)'
  BY <1>1 DEF ThreadsFollow, Follows, Keeps, queue
<1> QED
  BY <1>1, Carry DEF queue

AtWork == {"claimed", "rejecting", "locking", "locked", "preflight", "running",
           "won", "lost", "raised"}

\* One thread moves on; its job, its turn and its mark stay.
LEMMA OneMoves ==
  ASSUME CLInv, NEW w \in Worker, NEW t \in Thread, Alive(w[1]),
         wk' = [wk EXCEPT ![w] = t],
         t.job = wk[w].job, t.turn = wk[w].turn, t.ousted = wk[w].ousted,
         t.job # 0 <=> t.pc \notin {"idle", "polled"},
         UNCHANGED <<proc, turn, handoff>>
  PROVE  ThreadsFollow
<1>1. wk' \in [Worker -> Thread]
  BY DEF CLInv, ThreadsOK
<1>2. ASSUME NEW v \in Worker
      PROVE  Follows(v)
  <2>1. CASE v = w
    BY <2>1 DEF CLInv, ThreadsOK, Follows, Alive
  <2>2. CASE v # w
    BY <2>2 DEF CLInv, ThreadsOK, Follows, Alive, Busy
  <2> QED
    BY <2>1, <2>2
<1> QED
  BY <1>1, <1>2 DEF ThreadsFollow, CLInv, ThreadsOK

\* A thread that moves on within its job keeps its claim.
LEMMA GotoFollows ==
  ASSUME CLInv, NEW w \in Worker, NEW pc \in AtWork, Busy(w), Goto(w, pc),
         Alive(w[1]), UNCHANGED <<proc, turn, handoff>>
  PROVE  ThreadsFollow
<1> DEFINE t == [wk[w] EXCEPT !.pc = pc]
<1>1. wk[w] \in Thread
  BY DEF CLInv, ThreadsOK
<1>2. /\ t \in Thread /\ t.job = wk[w].job /\ t.turn = wk[w].turn
      /\ t.ousted = wk[w].ousted /\ t.pc = pc
  BY <1>1 DEF Thread, AtWork
<1>3. wk' = [wk EXCEPT ![w] = t]
  BY DEF Goto
<1> HIDE DEF t
<1> QED
  BY <1>2, <1>3, OneMoves DEF Busy, AtWork

\* Thread w is done; the others keep their claims, but for whom it marks.
LEMMA DismissFollows ==
  ASSUME CLInv, NEW w \in Worker, Dismiss(w), Busy(w) \/ jobs' = jobs,
         UNCHANGED <<proc, turn, handoff>>
  PROVE  /\ ThreadsFollow
         /\ wk'[w] = Idle
         /\ \A v \in Worker \ {w} :
              ~wk'[v].ousted => jobs' = jobs \/ v \notin Usurped(w)
<1>1. Idle \in Thread /\ Idle.job = 0 /\ Idle.pc = "idle"
  BY DEF Idle, Thread, Abort
<1>2. ASSUME NEW v \in Worker
      PROVE  /\ wk'[v] \in Thread
             /\ Follows(v)
             /\ v = w => wk'[v] = Idle
             /\ v # w /\ ~wk'[v].ousted => jobs' = jobs \/ v \notin Usurped(w)
  <2>1. wk[v] \in Thread /\ (Busy(v) <=> wk[v].pc \notin {"idle", "polled"})
        /\ (~Alive(v[1]) => wk[v] = Idle)
    BY DEF CLInv, ThreadsOK
  <2>2. CASE v = w
    BY <1>1, <2>2 DEF Dismiss, Follows
  <2>3. CASE v # w /\ jobs' # jobs /\ v \in Usurped(w)
    <3>1. wk'[v] = [wk[v] EXCEPT !.ousted = TRUE]
      BY <2>3 DEF Dismiss
    <3>2. wk[v].job # 0
      BY <2>3 DEF Usurped, Busy
    <3>3. wk[v] # Idle
      BY <3>2 DEF Idle
    <3>4. Alive(v[1]) /\ Alive(v[1])'
      BY <2>1, <3>3 DEF Alive
    <3>5. /\ wk'[v] \in Thread /\ wk'[v].job = wk[v].job /\ wk'[v].turn = wk[v].turn
          /\ wk'[v].pc = wk[v].pc /\ wk'[v].ousted
      BY <2>1, <3>1 DEF Thread
    <3> QED
      BY <2>1, <2>3, <3>2, <3>4, <3>5 DEF Follows, Busy
  <2>4. CASE v # w /\ ~(jobs' # jobs /\ v \in Usurped(w))
    BY <2>1, <2>4 DEF Dismiss, Follows, Alive, Busy
  <2> QED
    BY <2>2, <2>3, <2>4
<1>3. wk' \in [Worker -> Thread]
  BY <1>2 DEF Dismiss
<1> QED
  BY <1>2, <1>3 DEF ThreadsFollow, CLInv, ThreadsOK

-----------------------------------------------------------------------------
(* The worker loop and the watchdog.                                       *)

\* Who is at work has a job.
LEMMA AtWorkIsBusy ==
  ASSUME CLInv, NEW w \in Worker
  PROVE  /\ wk[w].pc \in AtWork => Busy(w)
         /\ \A pc \in AtWork : At(w, pc) => Busy(w) /\ Alive(w[1])
  BY DEF CLInv, ThreadsOK, AtWork, At

QuietLoop(w) ==
  \/ Poll(w) \/ ClaimNothing(w) \/ Fetch(w) \/ PathMissing(w)
  \/ AcquireSlot(w) \/ Recheck(w) \/ StartConversion(w) \/ Exit(w) \/ Watchdog(w)

\* Most steps of a thread leave the table alone.
LEMMA QuietLoopFollows ==
  ASSUME CLInv, NEW w \in Worker, QuietLoop(w)
  PROVE  ThreadsFollow /\ UNCHANGED queue
<1>0. wk[w] \in Thread /\ (Busy(w) <=> wk[w].pc \notin {"idle", "polled"})
      /\ (~Alive(w[1]) => wk[w] = Idle)
  BY DEF CLInv, ThreadsOK
<1>1. CASE Poll(w)
  <2> DEFINE t == [wk[w] EXCEPT !.pc = "polled", !.excl = LockedConfigs(w[1])]
  <2>1. t \in Thread /\ t.job = wk[w].job /\ t.turn = wk[w].turn
        /\ t.ousted = wk[w].ousted /\ t.pc = "polled"
    BY <1>0 DEF Thread, LockedConfigs
  <2>2. wk' = [wk EXCEPT ![w] = t] /\ wk[w].job = 0 /\ Alive(w[1])
    BY <1>0, <1>1 DEF Poll, Busy, Alive
  <2>3. UNCHANGED <<proc, turn, handoff>> /\ UNCHANGED queue
    BY <1>1 DEF Poll, node
  <2> HIDE DEF t
  <2> QED
    BY <2>1, <2>2, <2>3, OneMoves
<1>2. CASE ClaimNothing(w)
  BY <1>2, DismissFollows DEF ClaimNothing, Leave, queue, node
<1>3. CASE Fetch(w)
  BY <1>3, DismissFollows, GotoFollows, AtWorkIsBusy
  DEF Fetch, Leave, queue, node, AtWork
<1>4. CASE PathMissing(w)
  BY <1>4, GotoFollows, AtWorkIsBusy DEF PathMissing, node, AtWork
<1>5. CASE AcquireSlot(w)
  BY <1>5, GotoFollows, AtWorkIsBusy DEF AcquireSlot, node, AtWork
<1>6. CASE Recheck(w)
  BY <1>6, DismissFollows, GotoFollows, AtWorkIsBusy
  DEF Recheck, Leave, Finish, queue, node, AtWork
<1>7. CASE StartConversion(w)
  BY <1>7, GotoFollows, AtWorkIsBusy DEF StartConversion, node, AtWork
<1>8. CASE Exit(w)
  BY <1>8, GotoFollows, AtWorkIsBusy DEF Exit, node, AtWork
<1>9. CASE Killed(w)
  BY <1>9, GotoFollows, AtWorkIsBusy DEF Killed, node, AtWork
<1>10. ASSUME NEW a \in Abort, wk' = [wk EXCEPT ![w].abort = a], Alive(w[1]),
              UNCHANGED <<proc, turn, handoff>>
       PROVE  ThreadsFollow
  <2> DEFINE t == [wk[w] EXCEPT !.abort = a]
  <2>1. t \in Thread /\ t.job = wk[w].job /\ t.turn = wk[w].turn
        /\ t.ousted = wk[w].ousted /\ t.pc = wk[w].pc
    BY <1>0 DEF Thread
  <2>2. wk' = [wk EXCEPT ![w] = t]
    BY <1>10
  <2> HIDE DEF t
  <2> QED
    BY <1>0, <1>10, <2>1, <2>2, OneMoves DEF Busy
<1>11. CASE WatchdogPoll(w)
  <2>1. Ownership(w) \in Abort
    BY DEF Ownership, Abort
  <2> QED
    BY <1>10, <1>11, <2>1 DEF WatchdogPoll, At, node
<1>12. CASE Timeout(w)
  BY <1>10, <1>12 DEF Timeout, At, node, Abort
<1> QED
  BY <1>1, <1>2, <1>3, <1>4, <1>5, <1>6, <1>7, <1>8, <1>9, <1>11, <1>12
  DEF QuietLoop, Watchdog

\* A verdict on a row, or its deferral: whoever else held the row is marked.
LEMMA SettledUnder ==
  ASSUME CLInv, NEW w \in Worker, Busy(w), Dismiss(w), UNCHANGED <<proc, turn, handoff>>,
         nextId' = nextId, DOMAIN jobs' = DOMAIN jobs,
         \A j \in DOMAIN jobs \ {wk[w].job} : jobs'[j] = jobs[j],
         \/ jobs' = jobs
         \/ Owns(wk[w].job, w[1])
         \/ wk[w].pc = "preflight"
  PROVE  ThreadsFollow /\ HolderInv'
<1>1. /\ ThreadsFollow
      /\ wk'[w] = Idle
      /\ \A v \in Worker \ {w} : ~wk'[v].ousted => jobs' = jobs \/ v \notin Usurped(w)
  BY DismissFollows
<1>2. ASSUME NEW v \in Worker, wk'[v].job # 0, ~wk'[v].ousted, Keeps(v)
      PROVE  Keeps(v)'
  <2>1. v # w /\ Busy(v) /\ wk'[v].job = wk[v].job /\ ~wk[v].ousted
    BY <1>1, <1>2 DEF Idle, ThreadsFollow, Follows, Busy
  <2>2. wk[v].turn = turn[wk[v].job]
    BY <2>1 DEF CLInv, HolderInv
  <2>3. CASE jobs' = jobs \/ wk[v].job # wk[w].job
    BY <1>2, <2>1, <2>3 DEF Keeps
  <2>4. CASE jobs' # jobs /\ wk[v].job = wk[w].job
    <3>1. ~(v[1] = w[1] \/ wk[w].pc = "preflight")
      BY <1>1, <1>2, <2>1, <2>2, <2>4 DEF Usurped
    <3>2. Owns(wk[w].job, w[1])
      BY <2>4, <3>1
    <3>3. jobs[wk[w].job].node \in Node
      BY <3>2 DEF CLInv, IInv, RowOK, Owns, WithStatus
    <3>4. jobs[wk[w].job].node = w[1] /\ jobs[wk[w].job].status = "running"
          /\ wk[w].job \in DOMAIN jobs
      BY <3>2, <3>3, QueueAssumption DEF Owns, WithStatus, QueueAssumption
    <3>5. jobs[wk[v].job].node = v[1]
      BY <1>2, <2>4, <3>4 DEF Keeps
    <3> QED
      BY <2>4, <3>1, <3>4, <3>5
  <2> QED
    BY <2>3, <2>4
<1> QED
  BY <1>1, <1>2, Carry

VerdictLoop(w) ==
  Reject(w) \/ Complete(w) \/ Fail(w) \/ FailAfterError(w) \/ Defer(w)

\* fail_job changes one row, if its guard lets it.
LEMMA FailOrDiscardRow ==
  ASSUME NEW w \in Worker, FailOrDiscard(w)
  PROVE  /\ nextId' = nextId /\ DOMAIN jobs' = DOMAIN jobs
         /\ \A j \in DOMAIN jobs \ {wk[w].job} : jobs'[j] = jobs[j]
         /\ jobs' = jobs \/ Owns(wk[w].job, w[1])
  BY DEF FailOrDiscard, FailJob, queue

\* Every step in which a thread writes a verdict, defers its job or leaves it.
LEMMA VerdictLoopFollows ==
  ASSUME CLInv, NEW w \in Worker, VerdictLoop(w)
  PROVE  ThreadsFollow /\ HolderInv'
<1>1. CASE Reject(w)
  <2>1. Busy(w) /\ Dismiss(w) /\ UNCHANGED <<proc, turn, handoff>>
    BY <1>1, AtWorkIsBusy DEF Reject, Leave, AtWork, node
  <2>2. UNCHANGED queue \/ FailOrDiscard(w)
    BY <1>1 DEF Reject
  <2> QED
    BY <2>1, <2>2, FailOrDiscardRow, SettledUnder DEF queue
<1>2. CASE Complete(w)
  <2>1. Busy(w) /\ Alive(w[1]) /\ UNCHANGED <<proc, turn, handoff>>
    BY <1>2, AtWorkIsBusy DEF Complete, AtWork, node
  <2>2. CASE cut[w[1]]
    BY <1>2, <2>1, <2>2, GotoFollows, Still DEF Complete, AtWork
  <2>3. CASE ~cut[w[1]]
    <3>1. Dismiss(w) /\ (CompleteJob(wk[w].job, w[1]) \/ UNCHANGED queue)
      BY <1>2, <2>3 DEF Complete, Finish
    <3>2. /\ nextId' = nextId /\ DOMAIN jobs' = DOMAIN jobs
          /\ \A j \in DOMAIN jobs \ {wk[w].job} : jobs'[j] = jobs[j]
          /\ jobs' = jobs \/ Owns(wk[w].job, w[1])
      BY <3>1 DEF CompleteJob, queue
    <3> QED
      BY <2>1, <3>1, <3>2, SettledUnder
  <2> QED
    BY <2>2, <2>3
<1>3. CASE Fail(w)
  <2>1. Busy(w) /\ Alive(w[1]) /\ UNCHANGED <<proc, turn, handoff>>
    BY <1>3, AtWorkIsBusy DEF Fail, AtWork, node
  <2>2. CASE UNCHANGED queue /\ Finish(w)
    BY <2>1, <2>2, SettledUnder DEF Finish, queue
  <2>3. CASE FailOrDiscard(w) /\ Finish(w)
    BY <2>1, <2>3, FailOrDiscardRow, SettledUnder DEF Finish
  <2>4. CASE Goto(w, "raised") /\ UNCHANGED queue
    BY <2>1, <2>4, GotoFollows, Still DEF AtWork
  <2> QED
    BY <1>3, <2>2, <2>3, <2>4 DEF Fail
<1>4. CASE FailAfterError(w)
  <2>1. Busy(w) /\ Dismiss(w) /\ UNCHANGED <<proc, turn, handoff>>
    BY <1>4, AtWorkIsBusy DEF FailAfterError, Finish, AtWork, node
  <2>2. UNCHANGED queue \/ FailOrDiscard(w)
    BY <1>4 DEF FailAfterError
  <2> QED
    BY <2>1, <2>2, FailOrDiscardRow, SettledUnder DEF queue
<1>5. CASE Defer(w)
  <2>1. /\ Busy(w) /\ Dismiss(w) /\ UNCHANGED <<proc, turn, handoff>>
        /\ wk[w].pc = "preflight"
    BY <1>5, AtWorkIsBusy DEF Defer, Finish, At, AtWork, node
  <2>2. /\ nextId' = nextId /\ DOMAIN jobs' = DOMAIN jobs
        /\ \A j \in DOMAIN jobs \ {wk[w].job} : jobs'[j] = jobs[j]
    BY <1>5 DEF Defer, DeferJob, queue
  <2> QED
    BY <2>1, <2>2, SettledUnder
<1> QED
  BY <1>1, <1>2, <1>3, <1>4, <1>5 DEF VerdictLoop

\* A claim takes a row that nobody holds but by a claim that was taken from him.
LEMMA ClaimFollows ==
  ASSUME CLInv, NEW w \in Worker, ClaimJob(w)
  PROVE  ThreadsOK' /\ HolderInv'
<1>1. PICK j \in DOMAIN jobs :
        /\ ClaimNextJob(j, w[1], w[2], wk[w].excl, Online)
        /\ turn' = [turn EXCEPT ![j] = @ + 1]
        /\ wk' = [wk EXCEPT ![w] =
                    [Idle EXCEPT !.pc = "claimed", !.job = j, !.turn = turn'[j],
                                 !.config = jobs[j].req.config]]
  BY DEF ClaimJob
<1> DEFINE t == [Idle EXCEPT !.pc = "claimed", !.job = j, !.turn = turn'[j],
                             !.config = jobs[j].req.config]
<1>2. /\ j \in JobId /\ j \in 1 .. (nextId - 1) /\ j # 0
      /\ turn \in [JobId -> Nat] /\ turn'[j] = turn[j] + 1 /\ turn' \in [JobId -> Nat]
      /\ \A k \in JobId \ {j} : turn'[k] = turn[k]
  <2>1. j \in JobId /\ turn \in [JobId -> Nat] /\ j \in 1 .. (nextId - 1)
    BY HeldIds DEF CLInv, ThreadsOK, IInv
  <2> QED
    BY <1>1, <2>1 DEF JobId
<1>3. jobs[j].req.config \in Config
  BY QueueAssumption DEF CLInv, IInv, RowOK, Row, QueueAssumption, RequestType
<1>4. /\ t \in Thread /\ t.job = j /\ t.turn = turn[j] + 1 /\ ~t.ousted /\ t.pc = "claimed"
  BY <1>2, <1>3 DEF Thread, Idle, Abort
<1>5. wk' = [wk EXCEPT ![w] = t] /\ UNCHANGED <<proc, handoff>> /\ Alive(w[1]) /\ nextId' = nextId
  BY <1>1 DEF ClaimJob, At, node, ClaimNextJob
<1>6. /\ jobs[j].status = "pending"
      /\ jobs'[j].status = "running" /\ jobs'[j].node = w[1]
      /\ DOMAIN jobs' = DOMAIN jobs
      /\ \A k \in DOMAIN jobs \ {j} : jobs'[k] = jobs[k]
  <2>1. jobs[j] \in Row
    BY DEF CLInv, IInv, RowOK
  <2> QED
    BY <1>1, <2>1 DEF ClaimNextJob, Claimable, WithStatus, Row
<1> HIDE DEF t
<1>7. ThreadsOK'
  <2>1. wk \in [Worker -> Thread] /\ wk' \in [Worker -> Thread]
    BY <1>4, <1>5 DEF CLInv, ThreadsOK
  <2>2. ASSUME NEW v \in Worker
        PROVE  /\ wk'[v].job # 0 <=> wk'[v].pc \notin {"idle", "polled"}
               /\ ~Alive(v[1])' => wk'[v] = Idle
    BY <1>2, <1>4, <1>5, <2>1 DEF CLInv, ThreadsOK, Busy, Alive
  <2> QED
    BY <1>2, <1>5, <2>1, <2>2 DEF CLInv, ThreadsOK, Busy
<1>8. \A v \in Worker : v # w => wk'[v] = wk[v]
  BY <1>5 DEF CLInv, ThreadsOK
<1>9. wk'[w] = t
  BY <1>5 DEF CLInv, ThreadsOK
<1>10. ASSUME NEW v \in Worker, v # w, Busy(v)
       PROVE  /\ wk[v].job \in JobId /\ wk[v].job \in 1 .. (nextId - 1)
              /\ wk[v].turn \in 1 .. turn[wk[v].job]
              /\ ~wk[v].ousted => /\ wk[v].job # j /\ wk[v].turn = turn[wk[v].job]
                                  /\ Keeps(v)
  BY <1>6, <1>10, HeldIds DEF CLInv, HolderInv, Keeps
<1>11. ASSUME NEW v \in Worker, wk'[v].job # 0
       PROVE  /\ wk'[v].job \in 1 .. (nextId' - 1)
              /\ wk'[v].turn \in 1 .. turn'[wk'[v].job]
              /\ ~wk'[v].ousted => wk'[v].turn = turn'[wk'[v].job] /\ Keeps(v)'
  <2>1. CASE v = w
    <3>1. Keeps(v)'
      BY <1>4, <1>6, <1>9, <2>1 DEF Keeps
    <3> QED
      BY <1>2, <1>4, <1>5, <1>9, <2>1, <3>1
  <2>2. CASE v # w
    <3>1. wk'[v] = wk[v] /\ Busy(v)
      BY <1>8, <1>11, <2>2 DEF Busy
    <3>2. ~wk[v].ousted => Keeps(v)'
      BY <1>6, <1>10, <2>2, <3>1 DEF Keeps
    <3>3. wk[v].turn \in 1 .. turn'[wk[v].job]
      BY <1>2, <1>10, <2>2, <3>1
    <3> QED
      BY <1>2, <1>5, <1>10, <2>2, <3>1, <3>2, <3>3
  <2> QED
    BY <2>1, <2>2
<1>12. ASSUME NEW u \in Worker, NEW v \in Worker, wk'[u].job # 0,
              wk'[u].job = wk'[v].job, wk'[u].turn = wk'[v].turn
       PROVE  u = v
  <2>1. CASE u # w /\ v # w
    BY <1>8, <1>12, <2>1 DEF CLInv, HolderInv, Busy
  <2>2. ASSUME NEW x \in Worker, x # w, Busy(x), wk[x].job = j
        PROVE  wk[x].turn # turn[j] + 1
    BY <1>2, <1>10, <2>2
  <2>3. CASE u = w /\ v # w
    BY <1>2, <1>4, <1>8, <1>9, <1>12, <2>2, <2>3 DEF Busy
  <2>4. CASE u # w /\ v = w
    BY <1>2, <1>4, <1>8, <1>9, <1>12, <2>2, <2>4 DEF Busy
  <2> QED
    BY <2>1, <2>3, <2>4
<1> QED
  BY <1>7, <1>11, <1>12 DEF HolderInv, Busy

-----------------------------------------------------------------------------
(* Nodes.                                                                  *)

\* The threads of a node vanish, or none do; the others go on as they are.
LEMMA VanishFollows ==
  ASSUME CLInv, NEW n \in Node, Vanish(n)
  PROVE  ThreadsFollow
<1>1. Idle \in Thread /\ Idle.job = 0 /\ Idle.pc = "idle"
  BY DEF Idle, Thread, Abort
<1>2. ASSUME NEW w \in Worker
      PROVE  wk'[w] \in Thread /\ Follows(w)
  <2>1. CASE w[1] = n
    BY <1>1, <2>1 DEF Vanish, Follows
  <2>2. CASE w[1] # n
    <3>1. wk'[w] = wk[w] /\ (Alive(w[1])' <=> Alive(w[1]))
      BY <2>2 DEF Vanish, Alive, Worker
    <3> QED
      BY <3>1 DEF CLInv, ThreadsOK, Follows, Busy
  <2> QED
    BY <2>1, <2>2
<1>3. wk' \in [Worker -> Thread]
  BY <1>2 DEF Vanish
<1> QED
  BY <1>2, <1>3 DEF ThreadsFollow, Vanish, CLInv, ThreadsOK

\* The threads stay as they are, on nodes that are up as long as they were.
LEMMA NobodyMoves ==
  ASSUME CLInv, UNCHANGED <<wk, turn>>, handoff' \subseteq Node \X JobId,
         \A n \in Node : Alive(n) => Alive(n)'
  PROVE  ThreadsFollow
<1>1. ASSUME NEW w \in Worker
      PROVE  Follows(w)
  <2>1. w[1] \in Node
    BY DEF Worker
  <2> QED
    BY <2>1 DEF CLInv, ThreadsOK, Follows, Busy
<1> QED
  BY <1>1 DEF ThreadsFollow, CLInv, ThreadsOK

\* An abort reason, or a mark, for threads that have a job.
LEMMA ManyMarked ==
  ASSUME CLInv, UNCHANGED turn, handoff' \subseteq Node \X JobId,
         \A n \in Node : Alive(n) => Alive(n)',
         NEW S \in SUBSET Worker, \A w \in S : Busy(w), NEW a \in Abort,
         \/ wk' = [w \in Worker |-> IF w \in S THEN [wk[w] EXCEPT !.abort = a] ELSE wk[w]]
         \/ wk' = [w \in Worker |-> IF w \in S THEN [wk[w] EXCEPT !.ousted = TRUE] ELSE wk[w]]
  PROVE  ThreadsFollow
<1>1. ASSUME NEW w \in Worker
      PROVE  wk'[w] \in Thread /\ Follows(w)
  <2>0. w[1] \in Node /\ wk[w] \in Thread /\ (Busy(w) <=> wk[w].pc \notin {"idle", "polled"})
        /\ (~Alive(w[1]) => wk[w] = Idle)
    BY DEF Worker, CLInv, ThreadsOK
  <2>1. CASE w \in S
    <3>1. /\ wk'[w] \in Thread /\ wk'[w].job = wk[w].job /\ wk'[w].turn = wk[w].turn
          /\ wk'[w].pc = wk[w].pc /\ (wk[w].ousted => wk'[w].ousted)
      <4>1. CASE wk'[w] = [wk[w] EXCEPT !.abort = a]
        BY <2>0, <4>1 DEF Thread
      <4>2. CASE wk'[w] = [wk[w] EXCEPT !.ousted = TRUE]
        BY <2>0, <4>2 DEF Thread
      <4> QED
        BY <2>1, <4>1, <4>2
    <3>2. Alive(w[1])
      BY <2>0, <2>1 DEF Idle, Busy
    <3> QED
      BY <2>0, <2>1, <3>1, <3>2 DEF Follows, Busy
  <2>2. CASE w \notin S
    BY <2>0, <2>2 DEF Follows, Busy
  <2> QED
    BY <2>1, <2>2
<1>2. wk' \in [Worker -> Thread]
  BY <1>1
<1> QED
  BY <1>1, <1>2 DEF ThreadsFollow

QuietNode(n) ==
  \/ Heartbeat(n) \/ GoSilent(n) \/ WriteStatus(n)
  \/ \E c \in {"drain", "pause", "resume"} : TakeCommand(n, c)
  \/ \E status \in {row[n], "restarting", "offline"} : Stop(n, status)
  \/ DrainDeadline(n) \/ Drained(n) \/ GoOffline(n) \/ Crash(n) \/ Cut(n) \/ Heal(n)

\* Most steps of a node leave the table alone.
LEMMA QuietNodeFollows ==
  ASSUME CLInv, NEW n \in Node, QuietNode(n)
  PROVE  ThreadsFollow /\ UNCHANGED queue
<1>0. handoff \subseteq Node \X JobId
  BY DEF CLInv, ThreadsOK
<1>1. CASE Heartbeat(n) \/ GoSilent(n) \/ WriteStatus(n) \/ Cut(n) \/ Heal(n)
  BY <1>0, <1>1, NobodyMoves
  DEF Heartbeat, GoSilent, WriteStatus, Cut, Heal, pool, Alive
<1>2. CASE \E c \in {"drain", "pause", "resume"} : TakeCommand(n, c)
  BY <1>0, <1>2, NobodyMoves DEF TakeCommand, pool, Alive
<1>3. CASE \E status \in {row[n], "restarting", "offline"} : Stop(n, status)
  <2>1. UNCHANGED <<queue, pool, handoff, turn>> /\ proc' = [proc EXCEPT ![n] = "stopping"]
    BY <1>3 DEF Stop
  <2>2. \A m \in Node : Alive(m) => Alive(m)'
    BY <2>1 DEF Alive
  <2> QED
    BY <1>0, <2>1, <2>2, NobodyMoves DEF pool
<1>4. CASE DrainDeadline(n)
  <2> DEFINE S == {w \in Worker : w[1] = n /\ Busy(w) /\ wk[w].abort = "none"}
  <2>1. wk' = [w \in Worker |-> IF w \in S THEN [wk[w] EXCEPT !.abort = "shutdown"] ELSE wk[w]]
    BY <1>4 DEF DrainDeadline
  <2>2. \A m \in Node : Alive(m) => Alive(m)'
    BY <1>4 DEF DrainDeadline, Alive
  <2>3. UNCHANGED <<queue, turn, handoff>>
    BY <1>4 DEF DrainDeadline
  <2>4. \A w \in S : Busy(w)
    OBVIOUS
  <2> HIDE DEF S
  <2>5. S \in SUBSET Worker /\ "shutdown" \in Abort
    BY DEF S, Abort
  <2> QED
    BY <1>0, <2>1, <2>2, <2>3, <2>4, <2>5, ManyMarked
<1>5. CASE Drained(n)
  BY <1>0, <1>5, NobodyMoves DEF Drained, pool, Alive
<1>6. CASE GoOffline(n) \/ Crash(n)
  BY <1>6, VanishFollows DEF GoOffline, Crash
<1> QED
  BY <1>1, <1>2, <1>3, <1>4, <1>5, <1>6 DEF QuietNode

\* The rows of the nodes S go back, and the threads that had them are marked.
LEMMA RecoveryHolds ==
  ASSUME CLInv, NEW S \in SUBSET Node, wk' = Ousted(S), UNCHANGED <<turn, handoff>>,
         \A n \in Node : Alive(n) => Alive(n)',
         nextId' = nextId, DOMAIN jobs' = DOMAIN jobs,
         \A j \in DOMAIN jobs :
           \/ jobs'[j].status = jobs[j].status /\ jobs'[j].node = jobs[j].node
           \/ \E n \in S : j \in RunningOn(n)
  PROVE  ThreadsFollow /\ HolderInv'
<1> DEFINE T == {w \in Worker : w[1] \in S /\ wk[w].job \in RunningOn(w[1])}
<1>1. wk' = [w \in Worker |-> IF w \in T THEN [wk[w] EXCEPT !.ousted = TRUE] ELSE wk[w]]
  BY DEF Ousted
<1>2. \A w \in T : Busy(w)
  BY DEF CLInv, IInv, RunningOn, WithStatus, Busy
<1>3. ThreadsFollow
  <2>1. T \in SUBSET Worker /\ "none" \in Abort /\ handoff' \subseteq Node \X JobId
    BY DEF Abort, CLInv, ThreadsOK
  <2> HIDE DEF T
  <2> QED
    BY <1>1, <1>2, <2>1, ManyMarked
<1>4. ASSUME NEW w \in Worker, wk'[w].job # 0, ~wk'[w].ousted, Keeps(w)
      PROVE  Keeps(w)'
  <2>0. wk[w] \in Thread
    BY DEF CLInv, ThreadsOK
  <2>1. w \notin T
    BY <1>1, <1>4, <2>0 DEF Thread
  <2>2. wk'[w] = wk[w]
    BY <1>1, <2>1
  <2>3. ASSUME wk[w].job \in DOMAIN jobs, NEW n \in S, wk[w].job \in RunningOn(n)
        PROVE  FALSE
    BY <1>4, <2>1, <2>3 DEF Keeps, RunningOn, WithStatus
  <2> QED
    BY <1>4, <2>2, <2>3 DEF Keeps
<1> QED
  BY <1>3, <1>4, Carry

\* A release puts a row back, the backfill writes its profile, and no more.
LEMMA ResetRows ==
  ASSUME CLInv, NEW S \in SUBSET DOMAIN jobs, jobs' = ReleasedAndBackfilled(S)
  PROVE  /\ DOMAIN jobs' = DOMAIN jobs
         /\ \A j \in DOMAIN jobs \ S :
              jobs'[j].status = jobs[j].status /\ jobs'[j].node = jobs[j].node
<1>1. \A j \in DOMAIN jobs : jobs[j] \in Row
  BY DEF CLInv, IInv, RowOK
<1> QED
  BY <1>1 DEF ReleasedAndBackfilled, Backfilled, Row

LoudNode(n) == RecoverStale(n) \/ HandBack(n) \/ Start(n)

\* A recovery of peers, the hand-back of a daemon that leaves, the reset at a start.
LEMMA LoudNodeFollows ==
  ASSUME CLInv, NEW n \in Node, LoudNode(n)
  PROVE  ThreadsFollow /\ HolderInv'
<1>1. CASE RecoverStale(n)
  <2> DEFINE held == UNION {RunningOn(m) : m \in Stale}
  <2>1. /\ wk' = Ousted(Stale) /\ UNCHANGED <<turn, handoff, proc>> /\ nextId' = nextId
        /\ jobs' = IF held = {} THEN jobs ELSE ReleasedAndBackfilled(held)
    BY <1>1 DEF RecoverStale, RequeueStaleJobs
  <2>2. Stale \in SUBSET Node /\ held \in SUBSET DOMAIN jobs
    BY DEF Stale, RunningOn, WithStatus
  <2>3. \A j \in held : \E m \in Stale : j \in RunningOn(m)
    OBVIOUS
  <2> HIDE DEF held
  <2>4. /\ DOMAIN jobs' = DOMAIN jobs
        /\ \A j \in DOMAIN jobs \ held :
              jobs'[j].status = jobs[j].status /\ jobs'[j].node = jobs[j].node
    BY <2>1, <2>2, ResetRows
  <2>5. \A m \in Node : Alive(m) => Alive(m)'
    BY <2>1 DEF Alive
  <2> QED
    BY <2>1, <2>2, <2>3, <2>4, <2>5, RecoveryHolds
<1>2. CASE HandBack(n)
  <2>1. /\ wk' = Ousted({n}) /\ UNCHANGED <<turn, handoff>> /\ nextId' = nextId
        /\ jobs' = ReleasedAndBackfilled(RunningOn(n))
        /\ proc' = [proc EXCEPT ![n] = "left"]
    BY <1>2 DEF HandBack, RequeueNodeJobs
  <2>2. RunningOn(n) \in SUBSET DOMAIN jobs
    BY DEF RunningOn, WithStatus
  <2>3. /\ DOMAIN jobs' = DOMAIN jobs
        /\ \A j \in DOMAIN jobs \ RunningOn(n) :
              jobs'[j].status = jobs[j].status /\ jobs'[j].node = jobs[j].node
    BY <2>1, <2>2, ResetRows
  <2>4. \A m \in Node : Alive(m) => Alive(m)'
    BY <2>1 DEF Alive
  <2> QED
    BY <2>1, <2>3, <2>4, RecoveryHolds
<1>3. CASE Start(n)
  <2>1. /\ UNCHANGED <<wk, turn, handoff>> /\ nextId' = nextId
        /\ jobs' = ReleasedAndBackfilled(RunningOn(n)) /\ ~Alive(n)
        /\ proc' = [proc EXCEPT ![n] = "up"]
    BY <1>3 DEF Start, RequeueNodeJobs, Alive, pool
  <2>2. ThreadsFollow
    <3>1. \A m \in Node : Alive(m) => Alive(m)'
      BY <2>1 DEF Alive
    <3>2. handoff' \subseteq Node \X JobId
      BY <2>1 DEF CLInv, ThreadsOK
    <3> QED
      BY <2>1, <3>1, <3>2, NobodyMoves
  <2>3. RunningOn(n) \in SUBSET DOMAIN jobs
    BY DEF RunningOn, WithStatus
  <2>4. /\ DOMAIN jobs' = DOMAIN jobs
        /\ \A j \in DOMAIN jobs \ RunningOn(n) :
              jobs'[j].status = jobs[j].status /\ jobs'[j].node = jobs[j].node
    BY <2>1, <2>3, ResetRows
  <2>5. ASSUME NEW w \in Worker, wk'[w].job # 0, Keeps(w)
        PROVE  Keeps(w)'
    <3>1. wk'[w] = wk[w] /\ wk[w] # Idle
      BY <2>1, <2>5 DEF Idle
    <3>2. w[1] # n
      BY <2>1, <3>1 DEF CLInv, ThreadsOK
    <3>3. wk[w].job \notin RunningOn(n)
      BY <2>5, <3>2 DEF Keeps, RunningOn, WithStatus
    <3> QED
      BY <2>4, <2>5, <3>1, <3>3 DEF Keeps
  <2> QED
    BY <2>1, <2>2, <2>5, Carry
<1> QED
  BY <1>1, <1>2, <1>3 DEF LoudNode

-----------------------------------------------------------------------------
(* Requests.                                                               *)

\* A row that nobody keeps may change at will; a row that is cancelled or
\* deleted stays with its thread.
LEMMA RequestHolds ==
  ASSUME CLInv, UNCHANGED <<wk, proc, turn>>, handoff' \subseteq Node \X JobId,
         nextId' \in {nextId, nextId + 1},
         DOMAIN jobs' \subseteq DOMAIN jobs \cup {nextId},
         \A j \in DOMAIN jobs \cap DOMAIN jobs' :
           \/ jobs'[j].status = jobs[j].status /\ jobs'[j].node = jobs[j].node
           \/ jobs[j].status \notin {"running", "cancelled"}
           \/ jobs'[j].status = "cancelled"
  PROVE  ThreadsFollow /\ HolderInv'
<1>1. ThreadsFollow
  BY NobodyMoves DEF Alive
<1>2. ASSUME NEW w \in Worker, wk'[w].job # 0, Keeps(w)
      PROVE  Keeps(w)'
  <2>1. wk[w].job \in 1 .. (nextId - 1) /\ wk'[w] = wk[w]
    BY <1>2 DEF CLInv, HolderInv, Busy
  <2>2. wk[w].job # nextId
    BY <2>1 DEF CLInv, IInv
  <2> QED
    BY <1>2, <2>1, <2>2 DEF Keeps
<1> QED
  BY <1>1, <1>2, Carry

\* Requests of the API: submission, cancel, requeue, deletion, cleaning up.
LEMMA RequestFollows ==
  ASSUME CLInv, RequestNext
  PROVE  ThreadsFollow /\ HolderInv'
<1>0. /\ handoff \subseteq Node \X JobId /\ DOMAIN jobs \subseteq JobId
      /\ \A j \in DOMAIN jobs : jobs[j] \in Row
  BY HeldIds DEF CLInv, ThreadsOK, IInv, RowOK
<1>1. ASSUME NEW r \in Request, Submit(r)
      PROVE  ThreadsFollow /\ HolderInv'
  <2>1. /\ DOMAIN jobs' = DOMAIN jobs \cup {nextId} /\ nextId' = nextId + 1
        /\ \A j \in DOMAIN jobs : j # nextId => jobs'[j] = jobs[j]
        /\ UNCHANGED <<wk, proc, turn, handoff>>
    BY <1>1 DEF Submit, AddJob, pool, node
  <2>2. nextId \notin DOMAIN jobs
    BY QueueAssumption DEF CLInv, IInv, QueueAssumption
  <2> QED
    BY <1>0, <2>1, <2>2, RequestHolds
<1>2. ASSUME NEW n \in Node, NEW j \in DOMAIN jobs, Cancel(n, j)
      PROVE  ThreadsFollow /\ HolderInv'
  <2>1. /\ UNCHANGED <<wk, proc, turn, nextId>>
        /\ handoff' \subseteq Node \X JobId
    BY <1>0, <1>2 DEF Cancel, CancelJob, queue, pool, node
  <2>2. /\ DOMAIN jobs' = DOMAIN jobs
        /\ \A k \in DOMAIN jobs : jobs'[k] = jobs[k] \/ jobs'[k].status = "cancelled"
    BY <1>0, <1>2 DEF Cancel, CancelJob, queue, Row
  <2> QED
    BY <2>1, <2>2, RequestHolds
<1>3. ASSUME NEW h \in handoff, HandOff(h[1], h[2])
      PROVE  ThreadsFollow /\ HolderInv'
  <2> DEFINE T == {w \in Worker : w[1] = h[1] /\ wk[w].job = h[2] /\ wk[w].abort = "none"}
  <2>1. wk' = [w \in Worker |-> IF w \in T THEN [wk[w] EXCEPT !.abort = "cancelled"] ELSE wk[w]]
    BY <1>3 DEF HandOff
  <2>2. UNCHANGED <<queue, proc, turn>> /\ handoff' \subseteq Node \X JobId
    BY <1>0, <1>3 DEF HandOff, node
  <2>3. \A w \in T : Busy(w)
    BY <1>0 DEF Busy, JobId
  <2> HIDE DEF T
  <2>4. T \in SUBSET Worker /\ "cancelled" \in Abort
    BY DEF T, Abort
  <2>5. \A n \in Node : Alive(n) => Alive(n)'
    BY <2>2 DEF Alive
  <2>6. ThreadsFollow
    BY <2>1, <2>2, <2>3, <2>4, <2>5, ManyMarked
  <2> QED
    BY <2>2, <2>6, Still
<1>4. ASSUME NEW j \in DOMAIN jobs, Requeue(j)
      PROVE  ThreadsFollow /\ HolderInv'
  <2>1. /\ UNCHANGED <<wk, proc, turn, nextId, handoff>> /\ DOMAIN jobs' = DOMAIN jobs
        /\ \A k \in DOMAIN jobs : jobs'[k] = jobs[k] \/ jobs[k].status = "failed"
    BY <1>4 DEF Requeue, RequeueJob, WithStatus, pool, node
  <2> QED
    BY <1>0, <2>1, RequestHolds
<1>5. ASSUME NEW j \in DOMAIN jobs, Delete(j)
      PROVE  ThreadsFollow /\ HolderInv'
  <2>1. /\ UNCHANGED <<wk, proc, turn, nextId, handoff>> /\ DOMAIN jobs' \subseteq DOMAIN jobs
        /\ \A k \in DOMAIN jobs' : jobs'[k] = jobs[k]
    BY <1>5 DEF Delete, DeleteJobs, Keep, pool, node
  <2> QED
    BY <1>0, <2>1, RequestHolds
<1>6. ASSUME NEW j \in DOMAIN jobs, Elapse(j)
      PROVE  ThreadsFollow /\ HolderInv'
  <2>1. /\ UNCHANGED <<wk, proc, turn, nextId, handoff>> /\ DOMAIN jobs' = DOMAIN jobs
        /\ \A k \in DOMAIN jobs : jobs'[k] = jobs[k] \/ jobs[k].status = "pending"
    BY <1>6 DEF Elapse, BackoffElapses, WithStatus, pool, node
  <2> QED
    BY <1>0, <2>1, RequestHolds
<1> QED
  BY <1>1, <1>2, <1>3, <1>4, <1>5, <1>6 DEF RequestNext

-----------------------------------------------------------------------------
(* Every step.                                                             *)

\* What a worker does is a claim, a quiet step or a verdict.
LEMMA WorkerCases ==
  ASSUME WorkerNext
  PROVE  \E w \in Worker : QuietLoop(w) \/ VerdictLoop(w) \/ ClaimJob(w)
  BY DEF WorkerNext, WorkerLoop, QuietLoop, VerdictLoop

\* What a node does leaves the table alone, or recovers, hands back or resets rows.
LEMMA NodeCases ==
  ASSUME NodeNext
  PROVE  \E n \in Node : QuietNode(n) \/ LoudNode(n)
  BY DEF NodeNext, QuietNode, LoudNode

\* The invariant is inductive: every step of the cluster keeps it.
LEMMA StepHolds ==
  ASSUME CLInv, [Next]_vars
  PROVE  ThreadsOK' /\ HolderInv'
<1>1. ASSUME NEW w \in Worker, QuietLoop(w) \/ VerdictLoop(w) \/ ClaimJob(w)
      PROVE  ThreadsOK' /\ HolderInv'
  BY <1>1, QuietLoopFollows, VerdictLoopFollows, ClaimFollows, Still, TypesFollow
<1>2. ASSUME NEW n \in Node, QuietNode(n) \/ LoudNode(n)
      PROVE  ThreadsOK' /\ HolderInv'
  BY <1>2, QuietNodeFollows, LoudNodeFollows, Still, TypesFollow
<1>3. CASE RequestNext
  BY <1>3, RequestFollows, TypesFollow
<1>4. CASE UNCHANGED vars
  <2>1. UNCHANGED <<wk, turn, handoff, proc>> /\ UNCHANGED queue
    BY <1>4 DEF vars, pool, node
  <2>2. ThreadsFollow
    BY <2>1, NobodyMoves DEF Alive, CLInv, ThreadsOK
  <2> QED
    BY <2>1, <2>2, Still, TypesFollow
<1> QED
  BY <1>1, <1>2, <1>3, <1>4, WorkerCases, NodeCases DEF Next

\* Every operation of the queue but a claim.
Unclaiming ==
  \/ UserStep
  \/ \E j \in DOMAIN jobs, n \in Node : CompleteJob(j, n) \/ FailJob(j, n)
  \/ \E j \in DOMAIN jobs : DeferJob(j) \/ BackoffElapses(j)
  \/ \E n \in Node : RequeueNodeJobs(n)
  \/ \E S \in SUBSET Node : RequeueStaleJobs(S)

\* What a thread does to the table, but for a claim.
LEMMA LoopUnclaiming ==
  ASSUME CLInv, NEW w \in Worker, QuietLoop(w) \/ VerdictLoop(w)
  PROVE  Unclaiming \/ UNCHANGED queue
<1>1. CASE QuietLoop(w)
  BY <1>1, QuietLoopFollows
<1>2. CASE VerdictLoop(w)
  <2>1. w[1] \in Node
    BY DEF Worker
  <2>2. CASE CompleteJob(wk[w].job, w[1]) \/ FailJob(wk[w].job, w[1])
    <3>1. wk[w].job \in DOMAIN jobs
      BY <2>2 DEF CompleteJob, FailJob, Owns, WithStatus
    <3> QED
      BY <2>1, <2>2, <3>1 DEF Unclaiming
  <2>3. CASE DeferJob(wk[w].job)
    BY <2>3 DEF DeferJob, Unclaiming
  <2>4. CASE Reject(w) \/ FailAfterError(w)
    BY <2>2, <2>4 DEF Reject, FailAfterError, FailOrDiscard
  <2>5. CASE Complete(w)
    BY <2>2, <2>5 DEF Complete
  <2>6. CASE Fail(w)
    BY <2>2, <2>6 DEF Fail, FailOrDiscard
  <2>7. CASE Defer(w)
    BY <2>3, <2>7 DEF Defer
  <2> QED
    BY <1>2, <2>4, <2>5, <2>6, <2>7 DEF VerdictLoop
<1>. QED BY <1>1, <1>2

\* What a node does to it.
LEMMA NodeUnclaiming ==
  ASSUME CLInv, NEW n \in Node, QuietNode(n) \/ LoudNode(n)
  PROVE  Unclaiming \/ UNCHANGED queue
<1>1. CASE QuietNode(n)
  BY <1>1, QuietNodeFollows
<1>2. CASE LoudNode(n)
  <2>1. Stale \in SUBSET Node
    BY DEF Stale
  <2> QED
    BY <1>2, <2>1 DEF LoudNode, RecoverStale, HandBack, Start, Unclaiming
<1>. QED BY <1>1, <1>2

\* What a request does to it.
LEMMA RequestUnclaiming ==
  ASSUME CLInv, RequestNext
  PROVE  Unclaiming \/ UNCHANGED queue
<1>1. ASSUME NEW r \in Request, Submit(r)
      PROVE  Unclaiming
  BY <1>1 DEF Submit, Unclaiming, UserStep
<1>2. ASSUME NEW n \in Node, NEW j \in DOMAIN jobs, Cancel(n, j)
      PROVE  Unclaiming \/ UNCHANGED queue
  BY <1>2 DEF Cancel, Unclaiming, UserStep
<1>3. ASSUME NEW h \in handoff, HandOff(h[1], h[2])
      PROVE  UNCHANGED queue
  BY <1>3 DEF HandOff
<1>4. ASSUME NEW j \in DOMAIN jobs, Requeue(j) \/ Delete(j) \/ Elapse(j)
      PROVE  Unclaiming
  <2>1. {j} \in SUBSET JobId
    BY HeldIds
  <2>2. CASE Delete(j)
    BY <2>1, <2>2 DEF Delete, Unclaiming, UserStep
  <2>3. CASE Requeue(j)
    BY <2>3 DEF Requeue, Unclaiming, UserStep
  <2>4. CASE Elapse(j)
    BY <2>4 DEF Elapse, Unclaiming
  <2> QED
    BY <1>4, <2>2, <2>3, <2>4
<1>. QED BY <1>1, <1>2, <1>3, <1>4 DEF RequestNext

\* The cluster uses the table through the operations of the queue only.
LEMMA QueueStep ==
  ASSUME CLInv, [Next]_vars
  PROVE  [QNext]_queue
<1>1. ASSUME Unclaiming
      PROVE  QNext
  BY <1>1 DEF Unclaiming, QNext, WorkerStep
<1>2. ASSUME NEW w \in Worker, ClaimJob(w)
      PROVE  QNext
  <2>1. w[1] \in Node /\ w[2] \in WorkerId /\ wk[w].excl \in SUBSET Config
        /\ Online \in SUBSET Node
    BY DEF Worker, CLInv, ThreadsOK, Thread, Online
  <2>2. Claim
    BY <1>2, <2>1 DEF ClaimJob, Claim
  <2> QED
    BY <2>2 DEF QNext, WorkerStep
<1>3. CASE UNCHANGED vars
  BY <1>3 DEF vars
<1> QED
  BY <1>1, <1>2, <1>3, WorkerCases, NodeCases, LoopUnclaiming, NodeUnclaiming, RequestUnclaiming DEF Next

\* It holds initially: nobody works.
LEMMA InitHolds == Init => CLInv
<1> SUFFICES ASSUME Init
             PROVE  CLInv
  OBVIOUS
<1>1. IInv
  BY InitInv DEF Init
<1>2. Idle \in Thread /\ Idle.job = 0 /\ Idle.pc = "idle"
  BY DEF Idle, Thread, Abort
<1>3. ThreadsOK
  BY <1>2 DEF Init, ThreadsOK, Busy
<1>4. HolderInv
  BY <1>2 DEF Init, HolderInv, Busy
<1> QED
  BY <1>1, <1>3, <1>4 DEF CLInv

\* The invariant holds of every reachable state of every cluster.
THEOREM ClusterInvariance == Spec => []CLInv
<1>1. CLInv /\ [Next]_vars => CLInv'
  BY StepHolds, QueueStep, StepInv DEF CLInv
<1> QED
  BY <1>1, InitHolds, PTL DEF Spec

\* The cluster implements the queue: whatever its daemons do, and whatever befalls
\* them, the table changes as JobQueue says.
THEOREM ImplementsQueue == Spec => QSpec
<1>1. Init => QInit
  BY DEF Init
<1>2. CLInv /\ [Next]_vars => [QNext]_queue
  BY QueueStep
<1> QED
  BY <1>1, <1>2, ClusterInvariance, PTL DEF Spec, QSpec

\* So the columns of the table agree in every reachable state of the cluster, and
\* retries are accounted for, and verdicts stay.
THEOREM QueuePromisesKept == Spec => []QTypeOK /\ []RetriesSpent /\ SettledStays
  BY ImplementsQueue, TypeCorrect, RetriesAccounted, VerdictsStay

\* Of the threads that convert a job, at most one still has its claim: for any
\* number of nodes, workers and disturbances.
THEOREM OneConversion == Spec => []NoDoubleConversion
<1>1. CLInv => NoDoubleConversion
  <2> SUFFICES ASSUME CLInv, NEW j \in JobId
               PROVE  Cardinality({w \in Converting(j) : ~wk[w].ousted}) <= 1
    BY DEF NoDoubleConversion
  <2> DEFINE C == {w \in Converting(j) : ~wk[w].ousted}
  <2>1. ASSUME NEW v \in C, NEW w \in C
        PROVE  v = w
    <3>1. /\ v \in Worker /\ w \in Worker /\ Busy(v) /\ Busy(w)
          /\ wk[v].job = j /\ wk[w].job = j /\ ~wk[v].ousted /\ ~wk[w].ousted
      BY DEF Converting, CLInv, ThreadsOK
    <3> QED
      BY <3>1 DEF CLInv, HolderInv
  <2> HIDE DEF C
  <2>2. CASE C = {}
    BY <2>2, FS_EmptySet DEF C
  <2>3. CASE C # {}
    <3>1. PICK w : C = {w}
      BY <2>1, <2>3
    <3>2. Cardinality(C) = 1
      BY <3>1, FS_Singleton
    <3> QED
      BY <3>2 DEF C
  <2> QED
    BY <2>2, <2>3
<1> QED
  BY <1>1, ClusterInvariance, PTL

\* No worker of one node settles a row under another node's claim.
THEOREM GuardExactBetweenNodes == Spec => []OwnerIsLatestClaim
<1>1. CLInv => OwnerIsLatestClaim
  <2> SUFFICES ASSUME CLInv, NEW w \in Worker, Busy(w), Owns(wk[w].job, w[1]),
                      wk[w].turn # turn[wk[w].job]
               PROVE  wk[w].ousted /\ jobs[wk[w].job].node = w[1]
    BY DEF OwnerIsLatestClaim
  <2>1. wk[w].ousted
    BY DEF CLInv, HolderInv
  <2>2. jobs[wk[w].job].node \in Node
    BY DEF CLInv, IInv, RowOK, Owns, WithStatus
  <2> QED
    BY <2>1, <2>2, QueueAssumption DEF Owns, QueueAssumption
<1> QED
  BY <1>1, ClusterInvariance, PTL

-----------------------------------------------------------------------------
(* Slots and holders, while the database is within reach.                  *)

\* No disturbance of the instance cuts a node off from the database.
NoOutage == \A a \in Allowances : a["cut"] = 0

Reached == left \in [Disturbance -> Nat] /\ left["cut"] = 0 /\ cut = [n \in Node |-> FALSE]

HoldPc == {"locked", "preflight", "running", "won", "lost", "raised"}

\* What another thread's step may change of thread v is its mark.
Bystander(v) ==
  /\ wk'[v].pc = wk[v].pc /\ wk'[v].job = wk[v].job /\ wk'[v].turn = wk[v].turn
  /\ wk'[v].config = wk[v].config /\ wk'[v].abort = wk[v].abort

\* The slots are accounted for, and whoever is at work knows the config of its job.
SlotsInv ==
  /\ free \in [Node -> [Config -> Int]]
  /\ active \in [Node -> [Config -> SUBSET JobId]]
  /\ \A w \in Worker : wk[w].pc \in AtWork => wk[w].config \in Config
  /\ \A n \in Node, c \in Config : IsFiniteSet(Holding(n, c))
  /\ SlotsAccounted

-----------------------------------------------------------------------------
\* Who spends what: at most one disturbance a step.
LEMMA Spends ==
  ASSUME [Next]_vars
  PROVE  UNCHANGED left \/ \E k \in Disturbance : Spend(k)
<1>1. ASSUME NEW w \in Worker, QuietLoop(w) \/ VerdictLoop(w) \/ ClaimJob(w)
      PROVE  UNCHANGED left \/ Spend("missing") \/ Spend("defer")
  BY <1>1 DEF QuietLoop, VerdictLoop, Watchdog, Poll, ClaimJob, ClaimNothing, Fetch, PathMissing, Reject, AcquireSlot,
     Recheck, Defer, StartConversion, Exit, Killed, WatchdogPoll, Timeout, Complete, Fail, FailAfterError
<1>2. ASSUME NEW n \in Node, QuietNode(n) \/ LoudNode(n)
      PROVE  UNCHANGED left \/ Spend("stall") \/ Spend("command") \/ Spend("stop") \/ Spend("crash") \/ Spend("cut")
  BY <1>2 DEF QuietNode, LoudNode, Heartbeat, GoSilent, WriteStatus, TakeCommand, Stop, DrainDeadline,
     Drained, GoOffline, Crash, RecoverStale, HandBack, Start, Cut, Heal
<1>3. CASE RequestNext
  BY <1>3 DEF RequestNext, Submit, Cancel, HandOff, Requeue, Delete, Elapse, Disturbance
<1>4. CASE UNCHANGED vars
  BY <1>4 DEF vars
<1>. QED BY <1>1, <1>2, <1>3, <1>4, WorkerCases, NodeCases DEF Next, Disturbance

\* What is spent is spent.
LEMMA LeftShrinks ==
  ASSUME [Next]_vars, NEW k \in Disturbance, left \in [Disturbance -> Nat], left[k] = 0
  PROVE  left'[k] = 0 /\ ~Spend(k)
<1>1. ASSUME NEW d \in Disturbance, Spend(d) PROVE d # k /\ left'[k] = left[k]
  BY <1>1 DEF Spend
<1>. QED BY <1>1, Spends

\* Within reach of the database it stays.
LEMMA StaysReached ==
  ASSUME Reached, [Next]_vars
  PROVE  Reached'
<1>1. left'["cut"] = 0 /\ ~Spend("cut")
  BY LeftShrinks DEF Reached, Disturbance
<1>2. left' \in [Disturbance -> Nat]
  <2>1. ASSUME NEW k \in Disturbance, Spend(k) PROVE left' \in [Disturbance -> Nat]
    <3>1. left' = [left EXCEPT ![k] = left[k] - 1] /\ left[k] - 1 \in Nat
      BY <2>1 DEF Spend, Reached
    <3>. QED BY <3>1 DEF Reached
  <2>. QED BY <2>1, Spends DEF Reached
<1>3. ASSUME NEW w \in Worker, QuietLoop(w) \/ VerdictLoop(w) \/ ClaimJob(w) PROVE UNCHANGED cut
  BY <1>3 DEF QuietLoop, VerdictLoop, Watchdog, Poll, ClaimJob, ClaimNothing, Fetch, PathMissing, Reject, AcquireSlot,
     Recheck, Defer, StartConversion, Exit, Killed, WatchdogPoll, Timeout, Complete, Fail, FailAfterError, node
<1>4. ASSUME NEW n \in Node, QuietNode(n) \/ LoudNode(n) PROVE UNCHANGED cut
  <2>1. ~Cut(n) /\ ~Heal(n)
    BY <1>1 DEF Cut, Heal, Reached
  <2>. QED BY <1>4, <2>1 DEF QuietNode, LoudNode, Heartbeat, GoSilent, WriteStatus, TakeCommand, Stop, DrainDeadline,
              Drained, GoOffline, Crash, Vanish, RecoverStale, HandBack, Start
<1>5. CASE RequestNext
  BY <1>1, <1>2, <1>5 DEF RequestNext, Submit, Cancel, HandOff, Requeue, Delete, Elapse, node, Reached
<1>6. CASE UNCHANGED vars
  BY <1>6 DEF vars, node, Reached
<1>. QED BY <1>1, <1>2, <1>3, <1>4, <1>5, <1>6, WorkerCases, NodeCases DEF Next, Reached

\* Who changes what: a thread its own row, and of the others' no more than the mark.
LEMMA OthersStandBy ==
  ASSUME CLInv, NEW w \in Worker, QuietLoop(w) \/ VerdictLoop(w) \/ ClaimJob(w)
  PROVE  \A v \in Worker \ {w} : Bystander(v)
<1>0. wk \in [Worker -> Thread]
  BY DEF CLInv, ThreadsOK
<1>1. ASSUME Dismiss(w), NEW v \in Worker \ {w} PROVE Bystander(v)
  <2>1. wk'[v] = wk[v] \/ wk'[v] = [wk[v] EXCEPT !.ousted = TRUE]
    BY <1>1 DEF Dismiss
  <2>2. wk[v] \in Thread
    BY <1>0
  <2>. QED BY <2>1, <2>2 DEF Bystander, Thread
<1>2. ASSUME NEW t, wk' = [wk EXCEPT ![w] = t], NEW v \in Worker \ {w} PROVE Bystander(v)
  BY <1>0, <1>2 DEF Bystander
<1>3. CASE QuietLoop(w)
  BY <1>1, <1>2, <1>3 DEF QuietLoop, Watchdog, Poll, ClaimNothing, Fetch, PathMissing, AcquireSlot,
     Recheck, StartConversion, Exit, Killed, WatchdogPoll, Timeout, Goto, Leave, Finish
<1>4. CASE VerdictLoop(w)
  BY <1>1, <1>2, <1>4 DEF VerdictLoop, Reject, Complete, Fail, FailAfterError, Defer, Goto, Leave, Finish
<1>5. CASE ClaimJob(w)
  BY <1>2, <1>5 DEF ClaimJob
<1>. QED BY <1>3, <1>4, <1>5

\* Nobody takes or gives back a slot.
LEMMA SlotsSame ==
  ASSUME SlotsInv, UNCHANGED <<free, active>>,
         \A v \in Worker :
           /\ wk'[v].pc \in HoldPc <=> wk[v].pc \in HoldPc
           /\ wk'[v].pc \in HoldPc => wk'[v].job = wk[v].job /\ wk'[v].config = wk[v].config
           /\ wk'[v].pc \in AtWork => wk'[v].config \in Config
  PROVE  SlotsInv'
<1>1. ASSUME NEW n \in Node, NEW c \in Config
      PROVE  /\ Holding(n, c)' = Holding(n, c)
             /\ \A w \in Holding(n, c) : wk'[w].job = wk[w].job
  <2>1. WorkersOf(n) \subseteq Worker
    BY DEF WorkersOf, Worker
  <2>2. \A w \in WorkersOf(n) : w \in Holding(n, c)' <=> w \in Holding(n, c)
    BY <2>1 DEF Holding, HoldPc
  <2>3. Holding(n, c)' \subseteq WorkersOf(n) /\ Holding(n, c) \subseteq WorkersOf(n)
    BY DEF Holding, WorkersOf
  <2>4. \A w \in Holding(n, c) : wk'[w].job = wk[w].job
    BY <2>1 DEF Holding, HoldPc
  <2>. QED BY <2>2, <2>3, <2>4
<1>2. ASSUME NEW n \in Node, NEW c \in Config
      PROVE  /\ IsFiniteSet(Holding(n, c)')
             /\ free'[n][c] + Cardinality(Holding(n, c)') = Slots
             /\ active'[n][c] \subseteq {wk'[w].job : w \in Holding(n, c)'}
  <2>1. /\ IsFiniteSet(Holding(n, c))
        /\ free[n][c] + Cardinality(Holding(n, c)) = Slots
        /\ active[n][c] \subseteq {wk[w].job : w \in Holding(n, c)}
    BY DEF SlotsInv, SlotsAccounted
  <2>2. {wk[w].job : w \in Holding(n, c)} \subseteq {wk'[w].job : w \in Holding(n, c)'}
    BY <1>1
  <2>. QED BY <1>1, <2>1, <2>2
<1>3. SlotsAccounted' /\ \A n \in Node, c \in Config : IsFiniteSet(Holding(n, c)')
  BY <1>2 DEF SlotsAccounted
<1>. QED BY <1>3 DEF SlotsInv

\* Thread w takes a slot of its config.
LEMMA SlotTaken ==
  ASSUME CLInv, SlotsInv, NEW w \in Worker, AcquireSlot(w)
  PROVE  SlotsInv'
<1>. DEFINE m == w[1]  d == wk[w].config
<1>1. wk[w] \in Thread /\ wk[w].pc = "locking" /\ wk' = [wk EXCEPT ![w].pc = "locked"]
  BY DEF AcquireSlot, At, Goto, CLInv, ThreadsOK
<1>2. m \in Node /\ d \in Config /\ w \in WorkersOf(m)
  BY <1>1 DEF SlotsInv, AtWork, Worker, WorkersOf
<1>3. /\ free' = [free EXCEPT ![m][d] = free[m][d] - 1]
      /\ active' = [active EXCEPT ![m][d] = active[m][d] \cup {wk[w].job}]
  BY DEF AcquireSlot
<1>4. /\ wk'[w].pc = "locked" /\ wk'[w].config = d /\ wk'[w].job = wk[w].job
      /\ \A v \in Worker \ {w} : wk'[v] = wk[v]
      /\ wk[w].job \in JobId
  <2>1. wk[w].job \in JobId
    BY <1>1, HeldIds, AtWorkIsBusy DEF AtWork
  <2>2. wk \in [Worker -> Thread]
    BY DEF CLInv, ThreadsOK
  <2>. QED BY <1>1, <2>1, <2>2 DEF Thread
<1>5. ASSUME NEW n \in Node, NEW c \in Config
      PROVE  /\ IsFiniteSet(Holding(n, c)')
             /\ free'[n][c] + Cardinality(Holding(n, c)') = Slots
             /\ active'[n][c] \subseteq {wk'[v].job : v \in Holding(n, c)'}
  <2>1. /\ IsFiniteSet(Holding(n, c))
        /\ free[n][c] + Cardinality(Holding(n, c)) = Slots
        /\ active[n][c] \subseteq {wk[v].job : v \in Holding(n, c)}
        /\ Cardinality(Holding(n, c)) \in Nat /\ free[n][c] \in Int
    BY FS_CardinalityType DEF SlotsInv, SlotsAccounted
  <2>2. Holding(n, c) \subseteq Worker /\ Holding(n, c)' \subseteq Worker /\ w \notin Holding(n, c)
    BY <1>1 DEF Holding, Worker, WorkersOf
  <2>3. \A v \in Worker \ {w} : v \in Holding(n, c)' <=> v \in Holding(n, c)
    BY <1>4 DEF Holding, WorkersOf
  <2>4. CASE n = m /\ c = d
    <3>1. Holding(n, c)' = Holding(n, c) \cup {w}
      <4>1. w \in Holding(n, c)'
        BY <1>2, <1>4, <2>4 DEF Holding, WorkersOf
      <4>. QED BY <2>2, <2>3, <4>1
    <3>2. /\ IsFiniteSet(Holding(n, c)')
          /\ Cardinality(Holding(n, c)') = Cardinality(Holding(n, c)) + 1
      BY <2>1, <2>2, <3>1, FS_AddElement
    <3>3. free'[n][c] = free[n][c] - 1 /\ active'[n][c] = active[n][c] \cup {wk[w].job}
      BY <1>2, <1>3, <2>4 DEF SlotsInv
    <3>4. {wk[v].job : v \in Holding(n, c)} \cup {wk[w].job} \subseteq {wk'[v].job : v \in Holding(n, c)'}
      BY <1>4, <2>2, <3>1
    <3>. QED BY <2>1, <3>2, <3>3, <3>4
  <2>5. CASE ~(n = m /\ c = d)
    <3>1. w \notin Holding(n, c)'
      BY <1>2, <1>4, <2>5 DEF Holding, WorkersOf
    <3>2. Holding(n, c)' = Holding(n, c)
      BY <2>2, <2>3, <3>1
    <3>3. free'[n][c] = free[n][c] /\ active'[n][c] = active[n][c]
      BY <1>2, <1>3, <2>5 DEF SlotsInv
    <3>4. {wk[v].job : v \in Holding(n, c)} \subseteq {wk'[v].job : v \in Holding(n, c)'}
      BY <1>4, <2>2, <3>2
    <3>. QED BY <2>1, <3>2, <3>3, <3>4
  <2>. QED BY <2>4, <2>5
<1>6. free' \in [Node -> [Config -> Int]] /\ active' \in [Node -> [Config -> SUBSET JobId]]
  BY <1>2, <1>3, <1>4 DEF SlotsInv
<1>7. \A v \in Worker : wk'[v].pc \in AtWork => wk'[v].config \in Config
  BY <1>2, <1>4 DEF SlotsInv
<1>8. SlotsAccounted' /\ \A n \in Node, c \in Config : IsFiniteSet(Holding(n, c)')
  BY <1>5 DEF SlotsAccounted
<1>. QED BY <1>6, <1>7, <1>8 DEF SlotsInv

\* Thread w gives its slot back.
LEMMA SlotGiven ==
  ASSUME CLInv, SlotsInv, NEW w \in Worker, Finish(w), wk[w].pc \in HoldPc,
         \A v \in Worker \ {w} : Bystander(v)
  PROVE  SlotsInv'
<1>. DEFINE m == w[1]  d == wk[w].config
<1>1. wk'[w] = Idle /\ Idle.pc = "idle"
  BY DEF Finish, Dismiss, Idle
<1>2. m \in Node /\ d \in Config /\ w \in WorkersOf(m)
  BY DEF SlotsInv, AtWork, HoldPc, Worker, WorkersOf
<1>3. /\ free' = [free EXCEPT ![m][d] = free[m][d] + 1]
      /\ active' = [active EXCEPT ![m][d] = active[m][d] \ {wk[w].job}]
  BY DEF Finish
<1>4. \A v \in Worker \ {w} : wk'[v].pc = wk[v].pc /\ wk'[v].job = wk[v].job /\ wk'[v].config = wk[v].config
  BY DEF Bystander
<1>5. ASSUME NEW n \in Node, NEW c \in Config
      PROVE  /\ IsFiniteSet(Holding(n, c)')
             /\ free'[n][c] + Cardinality(Holding(n, c)') = Slots
             /\ active'[n][c] \subseteq {wk'[v].job : v \in Holding(n, c)'}
  <2>1. /\ IsFiniteSet(Holding(n, c))
        /\ free[n][c] + Cardinality(Holding(n, c)) = Slots
        /\ active[n][c] \subseteq {wk[v].job : v \in Holding(n, c)}
        /\ Cardinality(Holding(n, c)) \in Nat /\ free[n][c] \in Int
    BY FS_CardinalityType DEF SlotsInv, SlotsAccounted
  <2>2. Holding(n, c) \subseteq Worker /\ Holding(n, c)' \subseteq Worker /\ w \notin Holding(n, c)'
    BY <1>1 DEF Holding, Worker, WorkersOf
  <2>3. \A v \in Worker \ {w} : v \in Holding(n, c)' <=> v \in Holding(n, c)
    BY <1>4 DEF Holding, WorkersOf
  <2>4. CASE n = m /\ c = d
    <3>1. w \in Holding(n, c) /\ Holding(n, c)' = Holding(n, c) \ {w}
      <4>1. w \in Holding(n, c)
        BY <1>2, <2>4 DEF Holding, WorkersOf, HoldPc
      <4>. QED BY <2>2, <2>3, <4>1
    <3>2. /\ IsFiniteSet(Holding(n, c)')
          /\ Cardinality(Holding(n, c)') = Cardinality(Holding(n, c)) - 1
      BY <2>1, <3>1, FS_RemoveElement
    <3>3. free'[n][c] = free[n][c] + 1 /\ active'[n][c] = active[n][c] \ {wk[w].job}
      BY <1>2, <1>3, <2>4 DEF SlotsInv
    <3>4. {wk[v].job : v \in Holding(n, c)} \ {wk[w].job} \subseteq {wk'[v].job : v \in Holding(n, c)'}
      BY <1>4, <2>2, <3>1
    <3>5. free[n][c] + 1 + (Cardinality(Holding(n, c)) - 1) = Slots
      BY <2>1
    <3>6. active'[n][c] \subseteq {wk'[v].job : v \in Holding(n, c)'}
      BY <2>1, <3>3, <3>4
    <3>. QED BY <3>2, <3>3, <3>5, <3>6
  <2>5. CASE ~(n = m /\ c = d)
    <3>1. w \notin Holding(n, c)
      BY <1>2, <2>5 DEF Holding, WorkersOf
    <3>2. Holding(n, c)' = Holding(n, c)
      BY <2>2, <2>3, <3>1
    <3>3. free'[n][c] = free[n][c] /\ active'[n][c] = active[n][c]
      BY <1>2, <1>3, <2>5 DEF SlotsInv
    <3>4. {wk[v].job : v \in Holding(n, c)} \subseteq {wk'[v].job : v \in Holding(n, c)'}
      BY <1>4, <2>2, <3>1, <3>2
    <3>. QED BY <2>1, <3>2, <3>3, <3>4
  <2>. QED BY <2>4, <2>5
<1>6. free' \in [Node -> [Config -> Int]] /\ active' \in [Node -> [Config -> SUBSET JobId]]
  BY <1>2, <1>3 DEF SlotsInv
<1>7. \A v \in Worker : wk'[v].pc \in AtWork => wk'[v].config \in Config
  BY <1>1, <1>4 DEF SlotsInv, AtWork
<1>8. SlotsAccounted' /\ \A n \in Node, c \in Config : IsFiniteSet(Holding(n, c)')
  BY <1>5 DEF SlotsAccounted
<1>. QED BY <1>6, <1>7, <1>8 DEF SlotsInv

\* The process of a node is gone: its slots are those of the next one.
LEMMA SlotsReset ==
  ASSUME CLInv, SlotsInv, NEW m \in Node, Vanish(m)
  PROVE  SlotsInv'
<1>1. /\ wk' = [w \in Worker |-> IF w[1] = m THEN Idle ELSE wk[w]]
      /\ free' = [free EXCEPT ![m] = [c \in Config |-> Slots]]
      /\ active' = [active EXCEPT ![m] = [c \in Config |-> {}]]
  BY DEF Vanish
<1>2. Idle.pc = "idle"
  BY DEF Idle
<1>3. ASSUME NEW n \in Node, NEW c \in Config
      PROVE  /\ IsFiniteSet(Holding(n, c)')
             /\ free'[n][c] + Cardinality(Holding(n, c)') = Slots
             /\ active'[n][c] \subseteq {wk'[v].job : v \in Holding(n, c)'}
  <2>0. \A v \in WorkersOf(n) : v \in Worker /\ v[1] = n
    BY DEF WorkersOf, Worker
  <2>1. CASE n = m
    <3>1. Holding(n, c)' = {}
      BY <1>1, <1>2, <2>0, <2>1 DEF Holding, WorkersOf
    <3>2. IsFiniteSet(Holding(n, c)') /\ Cardinality(Holding(n, c)') = 0
      BY <3>1, FS_EmptySet
    <3>3. free'[n][c] = Slots /\ active'[n][c] = {} /\ Slots \in Nat
      BY <1>1, <2>1, ClusterAssumption DEF SlotsInv
    <3>. QED BY <3>2, <3>3
  <2>2. CASE n # m
    <3>1. \A v \in WorkersOf(n) : wk'[v] = wk[v]
      BY <1>1, <2>0, <2>2
    <3>2. Holding(n, c)' = Holding(n, c) /\ Holding(n, c) \subseteq WorkersOf(n)
      BY <3>1 DEF Holding, WorkersOf
    <3>3. free'[n][c] = free[n][c] /\ active'[n][c] = active[n][c]
      BY <1>1, <2>2 DEF SlotsInv
    <3>4. {wk[v].job : v \in Holding(n, c)} \subseteq {wk'[v].job : v \in Holding(n, c)'}
      BY <3>1, <3>2
    <3>. QED BY <3>2, <3>3, <3>4 DEF SlotsInv, SlotsAccounted
  <2>. QED BY <2>1, <2>2
<1>4. free' \in [Node -> [Config -> Int]] /\ active' \in [Node -> [Config -> SUBSET JobId]]
  BY <1>1, ClusterAssumption DEF SlotsInv
<1>5. \A v \in Worker : wk'[v].pc \in AtWork => wk'[v].config \in Config
  BY <1>1, <1>2 DEF SlotsInv, AtWork
<1>6. SlotsAccounted' /\ \A n \in Node, c \in Config : IsFiniteSet(Holding(n, c)')
  BY <1>3 DEF SlotsAccounted
<1>. QED BY <1>4, <1>5, <1>6 DEF SlotsInv

\* One thread moves on with its slot, or without one.
LEMMA SlotStays ==
  ASSUME CLInv, SlotsInv, NEW w \in Worker, UNCHANGED <<free, active>>,
         \A v \in Worker \ {w} : Bystander(v),
         wk'[w].pc \in HoldPc <=> wk[w].pc \in HoldPc,
         wk'[w].pc \in AtWork => wk'[w].config \in Config,
         wk'[w].pc \in HoldPc => wk'[w].job = wk[w].job /\ wk'[w].config = wk[w].config
  PROVE  SlotsInv'
<1>1. \A v \in Worker \ {w} : wk[v].pc \in AtWork => wk[v].config \in Config
  BY DEF SlotsInv
<1>. QED BY <1>1, SlotsSame DEF Bystander

\* Some threads get an abort reason.
LEMMA AbortSlots ==
  ASSUME CLInv, SlotsInv, UNCHANGED <<free, active>>, NEW a,
         \A v \in Worker : wk'[v] = wk[v] \/ wk'[v] = [wk[v] EXCEPT !.abort = a]
  PROVE  SlotsInv'
<1>1. ASSUME NEW v \in Worker
      PROVE  wk'[v].pc = wk[v].pc /\ wk'[v].job = wk[v].job /\ wk'[v].config = wk[v].config
  <2>1. wk[v] \in Thread
    BY DEF CLInv, ThreadsOK
  <2>. QED BY <2>1 DEF Thread
<1>2. \A v \in Worker : wk[v].pc \in AtWork => wk[v].config \in Config
  BY DEF SlotsInv
<1>. QED BY <1>1, <1>2, SlotsSame

\* A thread that moves on within its job.
LEMMA GotoSlots ==
  ASSUME CLInv, SlotsInv, NEW w \in Worker, NEW pc \in AtWork, Goto(w, pc),
         wk[w].pc \in AtWork, UNCHANGED <<free, active>>,
         \A v \in Worker \ {w} : Bystander(v),
         pc \in HoldPc <=> wk[w].pc \in HoldPc
  PROVE  SlotsInv'
<1>1. wk[w] \in Thread /\ wk[w].config \in Config
  BY DEF CLInv, ThreadsOK, SlotsInv
<1>2. wk'[w] = [wk[w] EXCEPT !.pc = pc]
  BY DEF Goto, CLInv, ThreadsOK
<1>3. wk'[w].pc = pc /\ wk'[w].job = wk[w].job /\ wk'[w].config = wk[w].config
  BY <1>1, <1>2 DEF Thread
<1>. QED BY <1>1, <1>3, SlotStays

\* A thread that had no slot is done.
LEMMA LeaveSlots ==
  ASSUME CLInv, SlotsInv, NEW w \in Worker, Leave(w), wk[w].pc \notin HoldPc,
         \A v \in Worker \ {w} : Bystander(v)
  PROVE  SlotsInv'
<1>1. wk'[w] = Idle /\ Idle.pc = "idle"
  BY DEF Leave, Dismiss, Idle
<1>. QED BY <1>1, SlotStays DEF Leave, HoldPc, AtWork

\* Within reach of the database, every step of a thread accounts for its slot.
LEMMA LoopSlots ==
  ASSUME CLInv, Reached, SlotsInv, NEW w \in Worker,
         QuietLoop(w) \/ VerdictLoop(w) \/ ClaimJob(w)
  PROVE  SlotsInv'
<1>0. \A v \in Worker \ {w} : Bystander(v)
  BY OthersStandBy
<1>1. /\ wk \in [Worker -> Thread] /\ wk[w] \in Thread
      /\ wk[w].pc \in AtWork => wk[w].config \in Config
      /\ ~cut[w[1]]
  BY DEF CLInv, ThreadsOK, SlotsInv, Reached, Worker
<1>2. CASE Poll(w)
  <2>1. wk'[w] = [wk[w] EXCEPT !.pc = "polled", !.excl = LockedConfigs(w[1])] /\ wk[w].pc = "idle"
    BY <1>1, <1>2 DEF Poll
  <2>2. wk'[w].pc = "polled"
    BY <1>1, <2>1 DEF Thread
  <2>. QED BY <1>0, <1>2, <2>1, <2>2, SlotStays DEF Poll, HoldPc, AtWork
<1>3. CASE ClaimNothing(w)
  BY <1>0, <1>3, LeaveSlots DEF ClaimNothing, At, HoldPc
<1>4. CASE Fetch(w)
  BY <1>0, <1>4, LeaveSlots, GotoSlots DEF Fetch, At, HoldPc, AtWork
<1>5. CASE PathMissing(w)
  BY <1>0, <1>5, GotoSlots DEF PathMissing, At, HoldPc, AtWork
<1>6. CASE AcquireSlot(w)
  BY <1>6, SlotTaken
<1>7. CASE Recheck(w)
  BY <1>0, <1>1, <1>7, SlotGiven, GotoSlots DEF Recheck, At, HoldPc, AtWork
<1>8. CASE StartConversion(w) \/ Exit(w) \/ Killed(w)
  BY <1>0, <1>8, GotoSlots DEF StartConversion, Exit, Killed, At, HoldPc, AtWork
<1>9. ASSUME NEW a, wk' = [wk EXCEPT ![w].abort = a], UNCHANGED <<free, active>> PROVE SlotsInv'
  <2>1. wk'[w] = [wk[w] EXCEPT !.abort = a]
    BY <1>1, <1>9
  <2>2. wk'[w].pc = wk[w].pc /\ wk'[w].job = wk[w].job /\ wk'[w].config = wk[w].config
    BY <1>1, <2>1 DEF Thread
  <2>. QED BY <1>0, <1>1, <1>9, <2>2, SlotStays
<1>10. CASE WatchdogPoll(w) \/ Timeout(w)
  BY <1>9, <1>10 DEF WatchdogPoll, Timeout
<1>11. CASE Reject(w)
  BY <1>0, <1>11, LeaveSlots DEF Reject, At, HoldPc
<1>12. CASE Complete(w) \/ Fail(w) \/ FailAfterError(w) \/ Defer(w)
  BY <1>0, <1>1, <1>12, SlotGiven DEF Complete, Fail, FailAfterError, Defer, At, HoldPc
<1>13. CASE ClaimJob(w)
  <2>1. PICK j \in DOMAIN jobs :
          wk' = [wk EXCEPT ![w] = [Idle EXCEPT !.pc = "claimed", !.job = j, !.turn = turn'[j],
                                               !.config = jobs[j].req.config]]
    BY <1>13 DEF ClaimJob
  <2>2. wk'[w].pc = "claimed" /\ wk'[w].config = jobs[j].req.config
    BY <1>1, <2>1 DEF Idle
  <2>3. jobs[j].req.config \in Config
    <3>1. jobs[j].req \in Request
      BY DEF CLInv, IInv, RowOK, Row
    <3>. QED BY <3>1, QueueAssumption DEF QueueAssumption, RequestType
  <2>4. UNCHANGED <<free, active>> /\ wk[w].pc = "polled"
    BY <1>13 DEF ClaimJob, At
  <2>. QED BY <1>0, <2>2, <2>3, <2>4, SlotStays DEF HoldPc, AtWork
<1>. QED BY <1>2, <1>3, <1>4, <1>5, <1>6, <1>7, <1>8, <1>10, <1>11, <1>12, <1>13
         DEF QuietLoop, VerdictLoop, Watchdog

\* What a node does marks threads, or takes all of them with it.
LEMMA NodeSlots ==
  ASSUME CLInv, Reached, SlotsInv, NEW n \in Node, QuietNode(n) \/ LoudNode(n)
  PROVE  SlotsInv'
<1>1. wk \in [Worker -> Thread] /\ \A v \in Worker : wk[v].pc \in AtWork => wk[v].config \in Config
  BY DEF CLInv, ThreadsOK, SlotsInv
<1>2. CASE GoOffline(n) \/ Crash(n)
  BY <1>2, SlotsReset DEF GoOffline, Crash
<1>3. CASE RecoverStale(n) \/ HandBack(n)
  <2>1. \A v \in Worker : wk'[v] = wk[v] \/ wk'[v] = [wk[v] EXCEPT !.ousted = TRUE]
    BY <1>3 DEF RecoverStale, HandBack, Ousted
  <2>2. \A v \in Worker : wk'[v].pc = wk[v].pc /\ wk'[v].job = wk[v].job /\ wk'[v].config = wk[v].config
    BY <1>1, <2>1 DEF Thread
  <2>3. UNCHANGED <<free, active>>
    BY <1>3 DEF RecoverStale, HandBack
  <2>. QED BY <1>1, <2>2, <2>3, SlotsSame
<1>4. CASE DrainDeadline(n)
  <2>1. \A v \in Worker : wk'[v] = wk[v] \/ wk'[v] = [wk[v] EXCEPT !.abort = "shutdown"]
    BY <1>4 DEF DrainDeadline
  <2>2. UNCHANGED <<free, active>>
    BY <1>4 DEF DrainDeadline
  <2>. QED BY <2>1, <2>2, AbortSlots
<1>5. CASE UNCHANGED pool
  BY <1>1, <1>5, SlotsSame DEF pool
<1>. QED BY <1>2, <1>3, <1>4, <1>5 DEF QuietNode, LoudNode, Heartbeat, GoSilent, TakeCommand, WriteStatus,
            Stop, Drained, Start, Cut, Heal

\* So does every step.
LEMMA SlotsStep ==
  ASSUME CLInv, Reached, SlotsInv, [Next]_vars
  PROVE  SlotsInv'
<1>1. wk \in [Worker -> Thread] /\ \A v \in Worker : wk[v].pc \in AtWork => wk[v].config \in Config
  BY DEF CLInv, ThreadsOK, SlotsInv
<1>2. CASE RequestNext
  <2>1. ASSUME NEW h \in handoff, HandOff(h[1], h[2]) PROVE SlotsInv'
    <3>1. \A v \in Worker : wk'[v] = wk[v] \/ wk'[v] = [wk[v] EXCEPT !.abort = "cancelled"]
      BY <2>1 DEF HandOff
    <3>2. UNCHANGED <<free, active>>
      BY <2>1 DEF HandOff
    <3>. QED BY <3>1, <3>2, AbortSlots
  <2>2. CASE UNCHANGED pool
    BY <1>1, <2>2, SlotsSame DEF pool
  <2>. QED BY <1>2, <2>1, <2>2 DEF RequestNext, Submit, Cancel, Requeue, Delete, Elapse
<1>3. CASE UNCHANGED vars
  BY <1>1, <1>3, SlotsSame DEF vars, pool
<1>. QED BY <1>2, <1>3, LoopSlots, NodeSlots, WorkerCases, NodeCases DEF Next

\* Nobody has a slot at the start.
LEMMA SlotsInit == Init => SlotsInv
<1>. SUFFICES ASSUME Init PROVE SlotsInv
  OBVIOUS
<1>1. \A w \in Worker : wk[w].pc = "idle"
  BY DEF Init, Idle
<1>2. ASSUME NEW n \in Node, NEW c \in Config
      PROVE  /\ IsFiniteSet(Holding(n, c))
             /\ free[n][c] + Cardinality(Holding(n, c)) = Slots
             /\ active[n][c] \subseteq {wk[w].job : w \in Holding(n, c)}
  <2>1. Holding(n, c) = {}
    BY <1>1 DEF Holding, WorkersOf, Worker
  <2>2. free[n][c] = Slots /\ active[n][c] = {} /\ Slots \in Nat
    BY ClusterAssumption DEF Init
  <2>. QED BY <2>1, <2>2, FS_EmptySet
<1>3. /\ free \in [Node -> [Config -> Int]] /\ active \in [Node -> [Config -> SUBSET JobId]]
      /\ \A w \in Worker : wk[w].pc \in AtWork => wk[w].config \in Config
  BY <1>1, ClusterAssumption DEF Init, AtWork
<1>. QED BY <1>2, <1>3 DEF SlotsInv, SlotsAccounted

\* As long as no node is cut off from the database, every slot is free or with a
\* thread that has acquired and not yet released it, and no job is listed that none
\* of those threads has: whatever crashes, cancels, recoveries and restarts do.
THEOREM SlotsAreAccounted ==
  ASSUME NoOutage
  PROVE  Spec => []SlotsAccounted
<1>1. Init => Reached
  BY ClusterAssumption, NoOutage DEF Init, Reached, NoOutage
<1>2. CLInv /\ Reached /\ SlotsInv /\ [Next]_vars => Reached' /\ SlotsInv'
  BY StaysReached, SlotsStep
<1>3. SlotsInv => SlotsAccounted
  BY DEF SlotsInv
<1>. QED BY <1>1, <1>2, <1>3, SlotsInit, ClusterInvariance, PTL DEF Spec

-----------------------------------------------------------------------------
(* Rows and their holders.                                                 *)

\* No disturbance lets a cancelled job run again before its watchdog is told: a
\* requeue or a deferral revives it only where nothing is cancelled.
NoLateCancel ==
  \A a \in Allowances : a["cancel"] = 0 \/ (a["requeue"] = 0 /\ a["defer"] = 0)

CancelsStand ==
  \/ left["cancel"] = 0 /\ handoff = {}
  \/ left["requeue"] = 0 /\ left["defer"] = 0

HandoffsSettled ==
  \A h \in handoff : h[2] \in 1 .. (nextId - 1) /\ h[2] \notin WithStatus(Active)

HoldsLatest(w, j) ==
  wk[w].job = j /\ wk[w].turn = turn[j] /\ wk[w].abort \in {"none", "timeout"}

\* The holder of a running row has its latest claim, and no reason to drop it unsaid.
RowsHeld ==
  \A n \in Node : proc[n] = "up" =>
    \A j \in RunningOn(n) : \E w \in WorkersOf(n) : HoldsLatest(w, j)

ProcTyped == proc \in [Node -> {"up", "stopping", "leaving", "left", "down"}]

HeldInv == ProcTyped /\ CancelsStand /\ HandoffsSettled /\ RowsHeld

\* No operation but a claim sets a row running, or moves one.
LEMMA RunningShrinks ==
  ASSUME CLInv, Unclaiming \/ UNCHANGED queue, NEW n \in Node
  PROVE  RunningOn(n)' \subseteq RunningOn(n)
<1>0. /\ \A j \in DOMAIN jobs : jobs[j] \in Row /\ RowOK(jobs[j])
      /\ nextId \notin DOMAIN jobs
  BY QueueAssumption DEF CLInv, IInv, RowOK, QueueAssumption
<1>1. ASSUME NEW j \in DOMAIN jobs', j \in DOMAIN jobs => jobs'[j].status # "running" \/ (jobs'[j].status = jobs[j].status /\ jobs'[j].node = jobs[j].node),
             j \notin DOMAIN jobs => jobs'[j].status # "running"
      PROVE  j \in RunningOn(n)' => j \in RunningOn(n)
  BY <1>1 DEF RunningOn, WithStatus
<1>2. ASSUME NEW S \in SUBSET DOMAIN jobs, jobs' = ReleasedAndBackfilled(S), NEW j \in DOMAIN jobs'
      PROVE  j \in RunningOn(n)' => j \in RunningOn(n)
  <2>1. j \in DOMAIN jobs
    BY <1>2 DEF ReleasedAndBackfilled
  <2>2. jobs'[j].status # "running" \/ (jobs'[j].status = jobs[j].status /\ jobs'[j].node = jobs[j].node)
    <3>1. CASE j \in S
      <4>1. jobs'[j] = Backfilled(Released(jobs[j]))
        BY <1>2, <2>1, <3>1 DEF ReleasedAndBackfilled
      <4>. QED BY <1>0, <2>1, <4>1, ReleasedRow, BackfilledRow
    <3>2. CASE j \notin S
      BY <1>2, <2>1, <3>2, ResetRows
    <3>. QED BY <3>1, <3>2
  <2>. QED BY <1>1, <2>1, <2>2
<1>3. ASSUME NEW j \in DOMAIN jobs', UserStep PROVE j \in RunningOn(n)' => j \in RunningOn(n)
  <2>1. ASSUME NEW r \in Request, AddJob(r) PROVE j \in RunningOn(n)' => j \in RunningOn(n)
    <3>1. jobs' = [k \in DOMAIN jobs \cup {nextId} |-> IF k = nextId THEN NewRow(r) ELSE jobs[k]]
      BY <2>1 DEF AddJob
    <3>2. NewRow(r).status = "pending"
      BY DEF NewRow
    <3>. QED BY <1>0, <1>1, <3>1, <3>2
  <2>2. ASSUME NEW k \in DOMAIN jobs, CancelJob(k) PROVE j \in RunningOn(n)' => j \in RunningOn(n)
    BY <1>0, <1>1, <2>2 DEF CancelJob, Row
  <2>3. ASSUME NEW k \in DOMAIN jobs, RequeueJob(k) PROVE j \in RunningOn(n)' => j \in RunningOn(n)
    <3>1. jobs' = [jobs EXCEPT ![k] = Backfilled(Released(jobs[k]))]
      BY <2>3 DEF RequeueJob
    <3>2. Backfilled(Released(jobs[k])).status = "pending"
      BY <1>0, ReleasedRow, BackfilledRow
    <3>. QED BY <1>1, <3>1, <3>2
  <2>4. ASSUME NEW C \in SUBSET Config, RequeueFailedJobs(C) PROVE j \in RunningOn(n)' => j \in RunningOn(n)
    <3>. DEFINE S == {k \in WithStatus({"failed"}) : jobs[k].req.config \in C}
    <3>1. S \in SUBSET DOMAIN jobs /\ jobs' = ReleasedAndBackfilled(S)
      BY <2>4 DEF RequeueFailedJobs, WithStatus
    <3>. HIDE DEF S
    <3>. QED BY <1>2, <3>1
  <2>5. ASSUME NEW k \in DOMAIN jobs, NEW p \in Priority, SetJobPriority(k, p)
        PROVE  j \in RunningOn(n)' => j \in RunningOn(n)
    BY <1>0, <1>1, <2>5 DEF SetJobPriority, Row
  <2>6. ASSUME NEW S, DeleteJobs(S) PROVE j \in RunningOn(n)' => j \in RunningOn(n)
    BY <1>1, <2>6 DEF DeleteJobs, Keep
  <2>. QED BY <1>3, <2>1, <2>2, <2>3, <2>4, <2>5, <2>6 DEF UserStep, DeleteFailedJobs, DeleteAllJobs, CleanupOldJobs
<1>4. ASSUME NEW j \in DOMAIN jobs', NEW k \in DOMAIN jobs, NEW m \in Node,
             CompleteJob(k, m) \/ FailJob(k, m) \/ DeferJob(k) \/ BackoffElapses(k)
      PROVE  j \in RunningOn(n)' => j \in RunningOn(n)
  <2>1. CASE CompleteJob(k, m)
    BY <1>0, <1>1, <2>1 DEF CompleteJob, Row
  <2>2. CASE FailJob(k, m)
    <3>1. AfterFailure(jobs[k]).status # "running"
      <4>1. Backfilled(Released(jobs[k])).status = "pending" /\ Backfilled(Released(jobs[k])) \in Row
        BY <1>0, ReleasedRow, BackfilledRow DEF RowOK
      <4>. QED BY <1>0, <4>1 DEF AfterFailure, Charged, Row
    <3>. QED BY <1>1, <2>2, <3>1 DEF FailJob
  <2>3. CASE DeferJob(k)
    <3>1. jobs' = [jobs EXCEPT ![k] = [Released(jobs[k]) EXCEPT !.due = FALSE]]
      BY <2>3 DEF DeferJob
    <3>2. [Released(jobs[k]) EXCEPT !.due = FALSE].status = "pending"
      BY <1>0, ReleasedRow DEF RowOK, Row
    <3>. QED BY <1>1, <3>1, <3>2
  <2>4. CASE BackoffElapses(k)
    BY <1>0, <1>1, <2>4 DEF BackoffElapses, Row
  <2>. QED BY <1>4, <2>1, <2>2, <2>3, <2>4
<1>5. ASSUME NEW j \in DOMAIN jobs', NEW m \in Node, RequeueNodeJobs(m)
      PROVE  j \in RunningOn(n)' => j \in RunningOn(n)
  BY <1>2, <1>5 DEF RequeueNodeJobs, RunningOn, WithStatus
<1>6. ASSUME NEW j \in DOMAIN jobs', NEW S \in SUBSET Node, RequeueStaleJobs(S)
      PROVE  j \in RunningOn(n)' => j \in RunningOn(n)
  <2>. DEFINE held == UNION {RunningOn(m) : m \in S}
  <2>1. held \in SUBSET DOMAIN jobs /\ (jobs' = jobs \/ jobs' = ReleasedAndBackfilled(held))
    BY <1>6 DEF RequeueStaleJobs, RunningOn, WithStatus
  <2>. HIDE DEF held
  <2>. QED BY <1>1, <1>2, <2>1
<1>7. CASE UNCHANGED queue
  BY <1>7 DEF queue, RunningOn, WithStatus
<1>8. CASE Unclaiming
  <2>1. \A j \in DOMAIN jobs' : j \in RunningOn(n)' => j \in RunningOn(n)
    BY <1>3, <1>4, <1>5, <1>6, <1>8 DEF Unclaiming
  <2>. QED BY <2>1 DEF RunningOn, WithStatus
<1>. QED BY <1>7, <1>8

\* Who has the latest claim of a row that runs on its node leaves it only with the row.
LEMMA HolderStays ==
  ASSUME CLInv, Reached, NEW w \in Worker, QuietLoop(w) \/ VerdictLoop(w),
         wk[w].job \in RunningOn(w[1]), wk[w].job \in RunningOn(w[1])',
         wk[w].abort \in {"none", "timeout"}
  PROVE  wk'[w].job = wk[w].job /\ wk'[w].turn = wk[w].turn /\ wk'[w].abort \in {"none", "timeout"}
<1>0. /\ wk \in [Worker -> Thread] /\ wk[w] \in Thread /\ Busy(w) /\ wk[w].pc \notin {"idle", "polled"}
      /\ ~cut[w[1]] /\ w[1] \in Node
  <2>1. wk[w].job \in JobId
    BY HeldIds DEF RunningOn, WithStatus
  <2>. QED BY <2>1 DEF CLInv, ThreadsOK, Reached, Worker, Busy, JobId
<1>1. /\ wk[w].job \in DOMAIN jobs /\ jobs[wk[w].job].status = "running" /\ jobs[wk[w].job].node = w[1]
      /\ Owns(wk[w].job, w[1]) /\ ~Cancelled(w) /\ Ownership(w) = "none"
  BY DEF RunningOn, WithStatus, Owns, Cancelled, Ownership
<1>2. jobs[wk[w].job] \in Row /\ RowOK(jobs[wk[w].job])
  BY <1>1 DEF CLInv, IInv, RowOK
<1>3. wk[w].job \in DOMAIN jobs' /\ jobs'[wk[w].job].status = "running"
  BY DEF RunningOn, WithStatus
<1>4. ASSUME NEW pc, Goto(w, pc)
      PROVE  wk'[w].job = wk[w].job /\ wk'[w].turn = wk[w].turn /\ wk'[w].abort = wk[w].abort
  BY <1>0, <1>4 DEF Goto, Thread
<1>5. CASE Poll(w) \/ ClaimNothing(w)
  BY <1>0, <1>5 DEF Poll, ClaimNothing, At
<1>6. CASE Fetch(w)
  BY <1>0, <1>1, <1>4, <1>6 DEF Fetch
<1>7. CASE PathMissing(w) \/ AcquireSlot(w) \/ StartConversion(w) \/ Exit(w) \/ Killed(w)
  BY <1>4, <1>7 DEF PathMissing, AcquireSlot, StartConversion, Exit, Killed
<1>8. CASE Recheck(w)
  BY <1>0, <1>1, <1>4, <1>8 DEF Recheck
<1>9. CASE WatchdogPoll(w)
  BY <1>1, <1>9 DEF WatchdogPoll
<1>10. CASE Timeout(w)
  <2>1. wk'[w] = [wk[w] EXCEPT !.abort = "timeout"]
    BY <1>0, <1>10 DEF Timeout
  <2>. QED BY <1>0, <2>1 DEF Thread
<1>11. ~FailOrDiscard(w)
  <2>. SUFFICES ASSUME FailJob(wk[w].job, w[1]) PROVE FALSE
    BY <1>1 DEF FailOrDiscard
  <2>1. AfterFailure(jobs[wk[w].job]).status # "running"
    <3>1. Backfilled(Released(jobs[wk[w].job])).status = "pending" /\ Backfilled(Released(jobs[wk[w].job])) \in Row
      BY <1>2, ReleasedRow, BackfilledRow DEF RowOK
    <3>. QED BY <1>2, <3>1 DEF AfterFailure, Charged, Row
  <2>. QED BY <1>1, <1>3, <2>1 DEF FailJob
<1>12. ~CompleteJob(wk[w].job, w[1]) /\ ~DeferJob(wk[w].job)
  <2>1. ASSUME CompleteJob(wk[w].job, w[1]) PROVE FALSE
    BY <1>1, <1>2, <1>3, <2>1 DEF CompleteJob, Row
  <2>2. ASSUME DeferJob(wk[w].job) PROVE FALSE
    <3>1. jobs' = [jobs EXCEPT ![wk[w].job] = [Released(jobs[wk[w].job]) EXCEPT !.due = FALSE]]
      BY <2>2 DEF DeferJob
    <3>2. [Released(jobs[wk[w].job]) EXCEPT !.due = FALSE].status = "pending"
      BY <1>2, ReleasedRow DEF RowOK, Row
    <3>. QED BY <1>1, <1>3, <3>1, <3>2
  <2>. QED BY <2>1, <2>2
<1>13. ~VerdictLoop(w)
  BY <1>0, <1>1, <1>11, <1>12 DEF VerdictLoop, Reject, Complete, Fail, FailAfterError, Defer
<1>. QED BY <1>5, <1>6, <1>7, <1>8, <1>9, <1>10, <1>13 DEF QuietLoop, Watchdog

\* What stays with its holder, on every node that is up.
LEMMA RowsStay ==
  ASSUME CLInv, RowsHeld, turn' = turn,
         \A n \in Node : proc'[n] = "up" =>
           \/ RunningOn(n)' = {}
           \/ /\ proc[n] = "up" /\ RunningOn(n)' \subseteq RunningOn(n)
              /\ \A w \in WorkersOf(n) :
                   wk[w].job \in RunningOn(n)' /\ wk[w].abort \in {"none", "timeout"} =>
                     /\ wk'[w].job = wk[w].job /\ wk'[w].turn = wk[w].turn
                     /\ wk'[w].abort \in {"none", "timeout"}
  PROVE  RowsHeld'
<1>. SUFFICES ASSUME NEW n \in Node, proc'[n] = "up", NEW j \in RunningOn(n)'
              PROVE  \E w \in WorkersOf(n) : HoldsLatest(w, j)'
  BY DEF RowsHeld, WorkersOf
<1>1. proc[n] = "up" /\ j \in RunningOn(n)
  OBVIOUS
<1>2. PICK w \in WorkersOf(n) : HoldsLatest(w, j)
  BY <1>1 DEF RowsHeld
<1>3. HoldsLatest(w, j)'
  BY <1>2 DEF HoldsLatest
<1>. QED BY <1>3

\* A thread's step leaves no running row without its holder.
LEMMA LoopRows ==
  ASSUME CLInv, Reached, RowsHeld, NEW w \in Worker, QuietLoop(w) \/ VerdictLoop(w)
  PROVE  RowsHeld'
<1>1. UNCHANGED <<turn, proc>>
  BY DEF QuietLoop, VerdictLoop, Watchdog, Poll, ClaimNothing, Fetch, PathMissing, Reject, AcquireSlot,
     Recheck, Defer, StartConversion, Exit, Killed, WatchdogPoll, Timeout, Complete, Fail, FailAfterError, node
<1>2. \A n \in Node : RunningOn(n)' \subseteq RunningOn(n)
  BY LoopUnclaiming, RunningShrinks
<1>3. ASSUME NEW n \in Node, NEW v \in WorkersOf(n),
             wk[v].job \in RunningOn(n)', wk[v].abort \in {"none", "timeout"}
      PROVE  wk'[v].job = wk[v].job /\ wk'[v].turn = wk[v].turn /\ wk'[v].abort \in {"none", "timeout"}
  <2>1. v \in Worker /\ v[1] = n
    BY DEF WorkersOf, Worker
  <2>2. CASE v = w
    BY <1>2, <1>3, <2>1, <2>2, HolderStays
  <2>3. CASE v # w
    BY <1>3, <2>1, <2>3, OthersStandBy DEF Bystander
  <2>. QED BY <2>2, <2>3
<1>. QED BY <1>1, <1>2, <1>3, RowsStay

\* A claim gives the row to the thread that made it.
LEMMA ClaimRows ==
  ASSUME CLInv, RowsHeld, NEW w \in Worker, ClaimJob(w)
  PROVE  RowsHeld'
<1>1. PICK j \in DOMAIN jobs :
        /\ ClaimNextJob(j, w[1], w[2], wk[w].excl, Online)
        /\ turn' = [turn EXCEPT ![j] = @ + 1]
        /\ wk' = [wk EXCEPT ![w] =
                    [Idle EXCEPT !.pc = "claimed", !.job = j, !.turn = turn'[j],
                                 !.config = jobs[j].req.config]]
  BY DEF ClaimJob
<1>2. /\ wk \in [Worker -> Thread] /\ wk[w].pc = "polled" /\ wk[w].job = 0 /\ UNCHANGED proc
      /\ j \in JobId /\ turn \in [JobId -> Nat]
  BY HeldIds DEF CLInv, ThreadsOK, ClaimJob, At, node, Busy
<1>3. wk'[w].job = j /\ wk'[w].turn = turn'[j] /\ wk'[w].abort = "none"
  BY <1>1, <1>2 DEF Idle
<1>4. \A v \in Worker \ {w} : Bystander(v)
  BY OthersStandBy
<1>5. /\ jobs'[j].node = w[1] /\ DOMAIN jobs' = DOMAIN jobs
      /\ \A k \in DOMAIN jobs \ {j} : jobs'[k] = jobs[k]
  <2>1. jobs[j] \in Row
    BY DEF CLInv, IInv, RowOK
  <2>. QED BY <1>1, <2>1 DEF ClaimNextJob, Row
<1>. SUFFICES ASSUME NEW n \in Node, proc'[n] = "up", NEW k \in RunningOn(n)'
              PROVE  \E v \in WorkersOf(n) : HoldsLatest(v, k)'
  BY DEF RowsHeld, WorkersOf
<1>6. CASE k = j
  <2>1. w[1] = n /\ w \in WorkersOf(n)
    BY <1>5, <1>6 DEF RunningOn, WithStatus, Worker, WorkersOf
  <2>. QED BY <1>3, <1>6, <2>1 DEF HoldsLatest
<1>7. CASE k # j
  <2>1. k \in RunningOn(n) /\ proc[n] = "up" /\ k \in JobId
    BY <1>2, <1>5, <1>7, HeldIds DEF RunningOn, WithStatus
  <2>2. PICK v \in WorkersOf(n) : HoldsLatest(v, k)
    BY <2>1 DEF RowsHeld
  <2>3. v \in Worker \ {w}
    BY <1>2, <2>1, <2>2 DEF HoldsLatest, WorkersOf, Worker, JobId
  <2>4. HoldsLatest(v, k)'
    BY <1>1, <1>2, <1>4, <1>7, <2>1, <2>2, <2>3 DEF HoldsLatest, Bystander
  <2>. QED BY <2>4
<1>. QED BY <1>6, <1>7

\* A node's step: its threads are gone with it, its rows are back when it starts.
LEMMA NodeRows ==
  ASSUME CLInv, ProcTyped, RowsHeld, NEW m \in Node, QuietNode(m) \/ LoudNode(m)
  PROVE  RowsHeld'
<1>0. \A n \in Node : RunningOn(n)' \subseteq RunningOn(n)
  BY NodeUnclaiming, RunningShrinks
<1>1. wk \in [Worker -> Thread]
  BY DEF CLInv, ThreadsOK
<1>2. ASSUME NEW n \in Node, NEW v \in WorkersOf(n) PROVE v \in Worker /\ v[1] = n
  BY DEF WorkersOf, Worker
<1>3. ASSUME UNCHANGED <<wk, turn>>, \A n \in Node : proc'[n] = "up" => proc[n] = "up" PROVE RowsHeld'
  BY <1>0, <1>3, RowsStay
<1>4. CASE Heartbeat(m) \/ GoSilent(m) \/ WriteStatus(m) \/ Cut(m) \/ Heal(m)
           \/ \E c \in {"drain", "pause", "resume"} : TakeCommand(m, c)
  BY <1>3, <1>4 DEF Heartbeat, GoSilent, WriteStatus, Cut, Heal, TakeCommand, pool
<1>5. ASSUME NEW s \in {"stopping", "leaving", "left", "down"}, proc' = [proc EXCEPT ![m] = s]
      PROVE  \A n \in Node : proc'[n] = "up" => proc[n] = "up" /\ n # m
  BY <1>5 DEF ProcTyped
<1>6. CASE (\E status \in {row[m], "restarting", "offline"} : Stop(m, status)) \/ Drained(m)
  BY <1>3, <1>5, <1>6 DEF Stop, Drained, pool
<1>7. ASSUME turn' = turn, \A n \in Node : proc'[n] = "up" => proc[n] = "up",
             \A w \in Worker : proc'[w[1]] = "up" => wk'[w] = wk[w] \/ wk'[w] = [wk[w] EXCEPT !.ousted = TRUE]
      PROVE  RowsHeld'
  <2>1. ASSUME NEW n \in Node, proc'[n] = "up", NEW v \in WorkersOf(n)
        PROVE  wk'[v].job = wk[v].job /\ wk'[v].turn = wk[v].turn /\ wk'[v].abort = wk[v].abort
    <3>1. wk[v] \in Thread /\ v \in Worker /\ v[1] = n
      BY <1>1, <1>2
    <3>2. wk'[v] = wk[v] \/ wk'[v] = [wk[v] EXCEPT !.ousted = TRUE]
      BY <1>7, <2>1, <3>1
    <3>. QED BY <3>1, <3>2 DEF Thread
  <2>. QED BY <1>0, <1>7, <2>1, RowsStay
<1>8. CASE DrainDeadline(m)
  <2>1. \A n \in Node : proc'[n] = "up" => proc[n] = "up" /\ n # m
    BY <1>5, <1>8 DEF DrainDeadline
  <2>2. \A w \in Worker : proc'[w[1]] = "up" => wk'[w] = wk[w]
    BY <1>8, <2>1 DEF DrainDeadline, Worker
  <2>. QED BY <1>7, <1>8, <2>1, <2>2 DEF DrainDeadline
<1>9. CASE GoOffline(m) \/ Crash(m)
  <2>1. \A n \in Node : proc'[n] = "up" => proc[n] = "up" /\ n # m
    BY <1>5, <1>9 DEF GoOffline, Crash, Vanish
  <2>2. \A w \in Worker : proc'[w[1]] = "up" => wk'[w] = wk[w]
    BY <1>9, <2>1 DEF GoOffline, Crash, Vanish, Worker
  <2>. QED BY <1>7, <1>9, <2>1, <2>2 DEF GoOffline, Crash, Vanish
<1>10. CASE RecoverStale(m)
  <2>1. UNCHANGED <<turn, proc>> /\ wk' = Ousted(Stale)
    BY <1>10 DEF RecoverStale
  <2>. QED BY <1>7, <2>1 DEF Ousted
<1>11. CASE HandBack(m)
  <2>1. UNCHANGED turn /\ proc' = [proc EXCEPT ![m] = "left"] /\ wk' = Ousted({m})
    BY <1>11 DEF HandBack
  <2>2. \A n \in Node : proc'[n] = "up" => proc[n] = "up" /\ n # m
    BY <1>5, <2>1
  <2>. QED BY <1>7, <2>1, <2>2 DEF Ousted
<1>12. CASE Start(m)
  <2>1. /\ UNCHANGED <<wk, turn>> /\ proc' = [proc EXCEPT ![m] = "up"]
        /\ jobs' = ReleasedAndBackfilled(RunningOn(m))
    BY <1>12 DEF Start, RequeueNodeJobs, pool
  <2>2. \A n \in Node : proc'[n] = "up" => proc[n] = "up" \/ n = m
    BY <2>1 DEF ProcTyped
  <2>3. RunningOn(m)' = {}
    <3>1. ASSUME NEW j \in RunningOn(m)' PROVE FALSE
      <4>1. j \in RunningOn(m)
        BY <1>0
      <4>2. jobs'[j] = Backfilled(Released(jobs[j])) /\ RowOK(jobs[j])
        BY <2>1, <4>1 DEF ReleasedAndBackfilled, RunningOn, WithStatus, CLInv, IInv
      <4>3. jobs'[j].status = "pending"
        BY <4>2, ReleasedRow, BackfilledRow
      <4>. QED BY <4>3 DEF RunningOn, WithStatus
    <3>. QED BY <3>1
  <2>. QED BY <1>0, <2>1, <2>2, <2>3, RowsStay
<1>. QED BY <1>4, <1>6, <1>8, <1>9, <1>10, <1>11, <1>12 DEF QuietNode, LoudNode

\* A request: the watchdog is told only of rows that are settled.
LEMMA RequestRows ==
  ASSUME CLInv, HandoffsSettled, RowsHeld, RequestNext
  PROVE  RowsHeld'
<1>0. \A n \in Node : RunningOn(n)' \subseteq RunningOn(n)
  BY RequestUnclaiming, RunningShrinks
<1>1. UNCHANGED <<turn, proc>>
  BY DEF RequestNext, Submit, Cancel, HandOff, Requeue, Delete, Elapse, node
<1>2. CASE UNCHANGED wk
  BY <1>0, <1>1, <1>2, RowsStay
<1>3. ASSUME NEW h \in handoff, HandOff(h[1], h[2]) PROVE RowsHeld'
  <2>1. \A n \in Node : h[2] \notin RunningOn(n)
    BY DEF HandoffsSettled, RunningOn, WithStatus, Active
  <2>2. ASSUME NEW n \in Node, NEW v \in WorkersOf(n), wk[v].job \in RunningOn(n)'
        PROVE  wk'[v] = wk[v]
    <3>1. v \in Worker /\ wk[v].job # h[2]
      BY <1>0, <2>1, <2>2 DEF WorkersOf, Worker
    <3>. QED BY <1>3, <3>1 DEF HandOff
  <2>. QED BY <1>0, <1>1, <2>2, RowsStay
<1>. QED BY <1>2, <1>3 DEF RequestNext, Submit, Cancel, Requeue, Delete, Elapse, pool

\* Only a cancel adds to what the watchdogs are still to be told.
LEMMA HandoffsCome ==
  ASSUME [Next]_vars
  PROVE  handoff' \subseteq handoff \/ \E n \in Node, j \in DOMAIN jobs : Cancel(n, j)
<1>1. ASSUME NEW w \in Worker, QuietLoop(w) \/ VerdictLoop(w) \/ ClaimJob(w)
      PROVE  UNCHANGED handoff
  BY <1>1 DEF QuietLoop, VerdictLoop, Watchdog, Poll, ClaimJob, ClaimNothing, Fetch, PathMissing, Reject, AcquireSlot,
     Recheck, Defer, StartConversion, Exit, Killed, WatchdogPoll, Timeout, Complete, Fail, FailAfterError
<1>2. ASSUME NEW n \in Node, QuietNode(n) \/ LoudNode(n)
      PROVE  handoff' \subseteq handoff
  BY <1>2 DEF QuietNode, LoudNode, Heartbeat, GoSilent, WriteStatus, TakeCommand, Stop, DrainDeadline,
     Drained, GoOffline, Crash, Vanish, RecoverStale, HandBack, Start, Cut, Heal
<1>3. CASE RequestNext
  BY <1>3 DEF RequestNext, Submit, HandOff, Requeue, Delete, Elapse
<1>4. CASE UNCHANGED vars
  BY <1>4 DEF vars
<1>. QED BY <1>1, <1>2, <1>3, <1>4, WorkerCases, NodeCases DEF Next

\* Where cancels are told late, nothing revives a row.
LEMMA CancelsStandOn ==
  ASSUME [Next]_vars, Reached, CancelsStand
  PROVE  CancelsStand'
<1>1. left \in [Disturbance -> Nat] /\ {"cancel", "requeue", "defer"} \subseteq Disturbance
  BY DEF Reached, Disturbance
<1>2. CASE left["cancel"] = 0 /\ handoff = {}
  <2>1. left'["cancel"] = 0 /\ ~Spend("cancel")
    BY <1>1, <1>2, LeftShrinks
  <2>. QED BY <1>2, <2>1, HandoffsCome DEF CancelsStand, Cancel
<1>3. CASE left["requeue"] = 0 /\ left["defer"] = 0
  BY <1>1, <1>3, LeftShrinks DEF CancelsStand
<1>. QED BY <1>2, <1>3 DEF CancelsStand

\* No operation but a requeue and a deferral wakes a settled row.
LEMMA SettledSleeps ==
  ASSUME CLInv, [Next]_vars, ~Spend("requeue"), ~Spend("defer"), NEW j \in DOMAIN jobs,
         j \notin WithStatus(Active)
  PROVE  j \notin WithStatus(Active)'
<1>. SUFFICES ASSUME j \in DOMAIN jobs', jobs'[j].status \in Active PROVE FALSE
  BY DEF WithStatus
<1>0. jobs[j] \in Row /\ jobs[j].status \notin Active /\ RowOK(jobs[j]) /\ j # nextId
      /\ \A n \in Node : j \notin RunningOn(n)
  BY DEF WithStatus, CLInv, IInv, RowOK, RunningOn, Active
<1>1. jobs'[j] # jobs[j]
  BY <1>0
<1>2. ASSUME NEW S \in SUBSET DOMAIN jobs, jobs' = ReleasedAndBackfilled(S), j \notin S PROVE FALSE
  BY <1>0, <1>2, ResetRows
<1>3. ASSUME NEW w \in Worker, QuietLoop(w) \/ VerdictLoop(w) PROVE FALSE
  <2>1. CASE QuietLoop(w)
    BY <1>1, <2>1, QuietLoopFollows DEF queue
  <2>2. CASE VerdictLoop(w)
    <3>1. ~CompleteJob(wk[w].job, w[1]) /\ ~FailJob(wk[w].job, w[1])
      <4>1. \/ wk[w].job # j
            \/ ~Owns(wk[w].job, w[1])
        BY <1>0 DEF Owns, WithStatus, Active
      <4>. QED BY <1>1, <4>1 DEF CompleteJob, FailJob
    <3>2. ~Defer(w)
      BY DEF Defer
    <3>. QED BY <1>1, <2>2, <3>1, <3>2
             DEF VerdictLoop, Reject, Complete, Fail, FailAfterError, FailOrDiscard, queue
  <2>. QED BY <1>3, <2>1, <2>2
<1>4. ASSUME NEW w \in Worker, ClaimJob(w) PROVE FALSE
  <2>1. PICK k \in DOMAIN jobs : ClaimNextJob(k, w[1], w[2], wk[w].excl, Online)
    BY <1>4 DEF ClaimJob
  <2>2. k # j
    BY <1>0, <2>1 DEF ClaimNextJob, Claimable, WithStatus, Active
  <2>. QED BY <1>1, <2>1, <2>2 DEF ClaimNextJob
<1>5. ASSUME NEW n \in Node, QuietNode(n) \/ LoudNode(n) PROVE FALSE
  <2>1. CASE QuietNode(n)
    BY <1>1, <2>1, QuietNodeFollows DEF queue
  <2>2. CASE HandBack(n) \/ Start(n)
    <3>1. RunningOn(n) \in SUBSET DOMAIN jobs /\ jobs' = ReleasedAndBackfilled(RunningOn(n))
      BY <2>2 DEF HandBack, Start, RequeueNodeJobs, RunningOn, WithStatus
    <3>. QED BY <1>0, <1>2, <3>1
  <2>3. CASE RecoverStale(n)
    <3>. DEFINE held == UNION {RunningOn(m) : m \in Stale}
    <3>1. held \in SUBSET DOMAIN jobs /\ (jobs' = jobs \/ jobs' = ReleasedAndBackfilled(held))
      BY <2>3 DEF RecoverStale, RequeueStaleJobs, RunningOn, WithStatus
    <3>2. j \notin held
      BY <1>0 DEF Stale
    <3>. HIDE DEF held
    <3>. QED BY <1>1, <1>2, <3>1, <3>2
  <2>. QED BY <1>5, <2>1, <2>2, <2>3 DEF LoudNode
<1>6. CASE RequestNext
  <2>1. ASSUME NEW r \in Request, Submit(r) PROVE FALSE
    BY <1>0, <1>1, <2>1 DEF Submit, AddJob
  <2>2. ASSUME NEW n \in Node, NEW k \in DOMAIN jobs, Cancel(n, k) PROVE FALSE
    BY <1>0, <1>1, <2>2 DEF Cancel, CancelJob, WithStatus, queue
  <2>3. ASSUME NEW h \in handoff, HandOff(h[1], h[2]) PROVE FALSE
    BY <1>1, <2>3 DEF HandOff, queue
  <2>4. ASSUME NEW k \in DOMAIN jobs, Requeue(k) \/ Delete(k) \/ Elapse(k) PROVE FALSE
    BY <1>0, <1>1, <2>4 DEF Requeue, Delete, DeleteJobs, Keep, Elapse, BackoffElapses, WithStatus, Active
  <2>. QED BY <1>6, <2>1, <2>2, <2>3, <2>4 DEF RequestNext
<1>7. CASE UNCHANGED vars
  BY <1>1, <1>7 DEF vars, queue
<1>. QED BY <1>3, <1>4, <1>5, <1>6, <1>7, WorkerCases, NodeCases DEF Next

\* What a watchdog is still to be told of stays settled.
LEMMA HandoffsStaySettled ==
  ASSUME CLInv, [Next]_vars, Reached, CancelsStand, HandoffsSettled, CLInv'
  PROVE  HandoffsSettled'
<1>. SUFFICES ASSUME NEW h \in handoff'
              PROVE  h[2] \in 1 .. (nextId' - 1) /\ h[2] \notin WithStatus(Active)'
  BY DEF HandoffsSettled
<1>1. nextId \in Nat /\ nextId' \in {nextId, nextId + 1} /\ DOMAIN jobs' \subseteq DOMAIN jobs \cup {nextId}
  <2>1. CASE \E r \in Request : AddJob(r)
    BY <2>1, QueueAssumption DEF AddJob, CLInv, IInv, QueueAssumption
  <2>2. CASE \E C : TableKept(C)
    BY <2>2, QueueAssumption DEF TableKept, RowKept, CLInv, IInv, QueueAssumption
  <2>3. CASE UNCHANGED queue
    BY <2>3, QueueAssumption DEF queue, CLInv, IInv, QueueAssumption
  <2>. QED BY <2>1, <2>2, <2>3, QueueStep, StepShape DEF CLInv
<1>2. CASE h \in handoff
  <2>1. h[2] \in 1 .. (nextId - 1) /\ h[2] \notin WithStatus(Active)
    BY <1>2 DEF HandoffsSettled
  <2>2. left \in [Disturbance -> Nat] /\ left["requeue"] = 0 /\ left["defer"] = 0
    BY <1>2 DEF CancelsStand, Reached
  <2>3. ~Spend("requeue") /\ ~Spend("defer")
    BY <2>2 DEF Spend
  <2>4. h[2] \in 1 .. (nextId' - 1)
    BY <1>1, <2>1
  <2>5. CASE h[2] \in DOMAIN jobs
    BY <2>1, <2>3, <2>4, <2>5, SettledSleeps
  <2>6. CASE h[2] \notin DOMAIN jobs
    <3>1. h[2] \notin DOMAIN jobs'
      BY <1>1, <2>1, <2>6
    <3>. QED BY <2>4, <3>1 DEF WithStatus
  <2>. QED BY <2>5, <2>6
<1>3. ASSUME NEW n \in Node, NEW j \in DOMAIN jobs, Cancel(n, j), h = <<n, j>>
      PROVE  h[2] \in 1 .. (nextId' - 1) /\ h[2] \notin WithStatus(Active)'
  <2>1. j \in 1 .. (nextId - 1) /\ jobs[j] \in Row
    BY DEF CLInv, IInv, RowOK
  <2>2. nextId' = nextId
    BY <1>3 DEF Cancel, CancelJob, queue
  <2>3. jobs'[j].status \notin Active
    <3>1. CASE CancelJob(j)
      BY <2>1, <3>1 DEF CancelJob, Row, Active
    <3>2. CASE j \notin WithStatus(Active) /\ UNCHANGED queue
      BY <3>2 DEF WithStatus, queue
    <3>. QED BY <1>3, <3>1, <3>2 DEF Cancel
  <2>. QED BY <1>3, <2>1, <2>2, <2>3 DEF WithStatus
<1>4. ASSUME NEW n \in Node, NEW j \in DOMAIN jobs, Cancel(n, j), h \notin handoff PROVE h = <<n, j>>
  BY <1>4 DEF Cancel
<1>. QED BY <1>2, <1>3, <1>4, HandoffsCome

\* The daemon's states.
LEMMA ProcStays ==
  ASSUME ProcTyped, [Next]_vars
  PROVE  ProcTyped'
<1>1. ASSUME NEW w \in Worker, QuietLoop(w) \/ VerdictLoop(w) \/ ClaimJob(w)
      PROVE  UNCHANGED proc
  BY <1>1 DEF QuietLoop, VerdictLoop, Watchdog, Poll, ClaimJob, ClaimNothing, Fetch, PathMissing, Reject, AcquireSlot,
     Recheck, Defer, StartConversion, Exit, Killed, WatchdogPoll, Timeout, Complete, Fail, FailAfterError, node
<1>2. ASSUME NEW n \in Node, QuietNode(n) \/ LoudNode(n)
      PROVE  UNCHANGED proc \/ \E s \in {"up", "stopping", "leaving", "left", "down"} : proc' = [proc EXCEPT ![n] = s]
  BY <1>2 DEF QuietNode, LoudNode, Heartbeat, GoSilent, WriteStatus, TakeCommand, Stop, DrainDeadline,
     Drained, GoOffline, Crash, Vanish, RecoverStale, HandBack, Start, Cut, Heal
<1>3. CASE RequestNext
  BY <1>3 DEF RequestNext, Submit, Cancel, HandOff, Requeue, Delete, Elapse, node, ProcTyped
<1>4. CASE UNCHANGED vars
  BY <1>4 DEF vars, node, ProcTyped
<1>. QED BY <1>1, <1>2, <1>3, <1>4, WorkerCases, NodeCases DEF Next, ProcTyped

\* Every step leaves a running row with its holder.
LEMMA HeldStep ==
  ASSUME CLInv, Reached, HeldInv, [Next]_vars, CLInv'
  PROVE  HeldInv'
<1>1. ProcTyped' /\ CancelsStand' /\ HandoffsSettled'
  BY ProcStays, CancelsStandOn, HandoffsStaySettled DEF HeldInv
<1>2. ASSUME UNCHANGED vars PROVE RowsHeld'
  <2>1. UNCHANGED <<wk, turn, proc, jobs>>
    BY <1>2 DEF vars, queue, pool, node
  <2>2. \A n \in Node : RunningOn(n)' = RunningOn(n)
    BY <2>1 DEF RunningOn, WithStatus
  <2>. QED BY <2>1, <2>2, RowsStay DEF HeldInv
<1>3. RowsHeld'
  BY <1>2, LoopRows, ClaimRows, NodeRows, RequestRows, WorkerCases, NodeCases DEF Next, HeldInv
<1>. QED BY <1>1, <1>3 DEF HeldInv

\* As long as no node is cut off from the database, and no watchdog is told of a
\* cancel so late that the job runs again, every running row of a daemon that is up
\* is in the hands of one of its workers: no claim is orphaned where no recovery
\* would find it.
THEOREM ClaimsAreHeld ==
  ASSUME NoOutage, NoLateCancel
  PROVE  Spec => []ClaimHasHolder
<1>1. Init => Reached
  BY ClusterAssumption, NoOutage DEF Init, Reached, NoOutage
<1>2. Init => HeldInv
  <2>. SUFFICES ASSUME Init PROVE HeldInv
    OBVIOUS
  <2>1. CancelsStand
    BY NoLateCancel DEF Init, NoLateCancel, CancelsStand
  <2>2. ProcTyped /\ HandoffsSettled
    BY DEF Init, ProcTyped, HandoffsSettled
  <2>3. RowsHeld
    BY DEF Init, QInit, RowsHeld, RunningOn, WithStatus
  <2>. QED BY <2>1, <2>2, <2>3 DEF HeldInv
<1>3. CLInv /\ CLInv' /\ Reached /\ HeldInv /\ [Next]_vars => Reached' /\ HeldInv'
  BY StaysReached, HeldStep
<1>4. HeldInv => ClaimHasHolder
  BY DEF HeldInv, RowsHeld, ClaimHasHolder, HoldsLatest
<1>. QED BY <1>1, <1>2, <1>3, <1>4, ClusterInvariance, PTL DEF Spec

-----------------------------------------------------------------------------
(* The promise of JobLifecycle, with one worker per node.                  *)

\* Every node has one worker: a lease names the thread that has it.
OneWorker == \A i, k \in WorkerId : i = k

\* No disturbance defers a job: defer_job has no guard, and a thread that lost its
\* row could put off the job of whoever has it now.
NoDeferral == \A a \in Allowances : a["defer"] = 0

NeverDeferred == left \in [Disturbance -> Nat] /\ left["defer"] = 0

\* The one worker of the node a job runs on has, if it has the job, its latest claim.
LatestOnNode ==
  \A w \in Worker :
    Busy(w) /\ wk[w].job \in RunningOn(w[1]) => wk[w].turn = turn[wk[w].job]

LeaseInv == CLInv /\ NeverDeferred /\ LatestOnNode

\* Thread w makes the attempt under the lease of job j.
Attempts(w, j) == wk[w].job = j /\ wk[w].turn = turn[j] /\ LeaseOf(j) = w[1]

\* What a thread has come to.
Come(pc) ==
  IF pc = "won" THEN "ok" ELSE IF pc \in {"lost", "rejecting", "raised"} THEN "bad" ELSE "none"

SameJob(j) ==
  /\ StageOf(j)' = StageOf(j) /\ LeaseOf(j)' = LeaseOf(j) /\ AttemptOf(j)' = AttemptOf(j)
  /\ SpentOf(j)' = SpentOf(j) /\ LimitOf(j)' = LimitOf(j)

LifeStep == [Lifecycle!LNext]_(Lifecycle!life)

\* The thread that makes the attempt says what it has come to.
Told ==
  /\ \A j \in JobId, w \in Worker : Attempts(w, j) => AttemptOf(j) = Come(wk[w].pc)
  /\ \A j \in JobId : (\A w \in Worker : ~Attempts(w, j)) => AttemptOf(j) = "none"

\* For it is one thread at most.
LEMMA AttemptTells == OneWorker => Told
<1>. SUFFICES ASSUME OneWorker PROVE Told
  OBVIOUS
<1>1. ASSUME NEW j \in JobId, NEW w \in Worker, Attempts(w, j)
      PROVE  AttemptOf(j) = Come(wk[w].pc)
  <2>1. {v \in Worker : wk[v].job = j /\ wk[v].turn = turn[j] /\ v[1] = LeaseOf(j)} = {w}
    BY <1>1 DEF OneWorker, Attempts, Worker
  <2>2. HolderPc(j) = {wk[w].pc}
    BY <2>1 DEF HolderPc
  <2>. QED BY <2>2 DEF AttemptOf, Come
<1>2. ASSUME NEW j \in JobId, \A w \in Worker : ~Attempts(w, j)
      PROVE  AttemptOf(j) = "none"
  <2>1. HolderPc(j) = {}
    BY <1>2 DEF HolderPc, Attempts
  <2>. QED BY <2>1 DEF AttemptOf
<1>. QED BY <1>1, <1>2 DEF Told

\* A job that nobody runs has no lease and no attempt.
LEMMA NoLease ==
  ASSUME OneWorker
  PROVE  \A j \in JobId : ~(j \in DOMAIN jobs /\ jobs[j].status = "running") =>
           LeaseOf(j) = NoNode /\ AttemptOf(j) = "none"
<1>1. ASSUME NEW j \in JobId, ~(j \in DOMAIN jobs /\ jobs[j].status = "running")
      PROVE  LeaseOf(j) = NoNode /\ AttemptOf(j) = "none"
  <2>1. LeaseOf(j) = NoNode
    BY <1>1 DEF LeaseOf, WithStatus
  <2>2. \A w \in Worker : ~Attempts(w, j)
    BY <2>1, QueueAssumption DEF QueueAssumption, Attempts, Worker
  <2>. QED BY <2>1, <2>2, AttemptTells DEF Told
<1>. QED BY <1>1

\* The lease of a row is the node it runs on.
LEMMA Leased ==
  ASSUME CLInv, NEW j \in DOMAIN jobs
  PROVE  /\ jobs[j].status = "running" => LeaseOf(j) = jobs[j].node /\ LeaseOf(j) \in Node
         /\ jobs[j].status # "running" => LeaseOf(j) = NoNode
         /\ LeaseOf(j) \in Node <=> jobs[j].status = "running"
<1>1. jobs[j].status = "running" => jobs[j].node \in Node
  BY DEF CLInv, IInv, RowOK
<1>. QED BY <1>1, QueueAssumption DEF QueueAssumption, LeaseOf, WithStatus

\* A thread's attempt is the same after a step as before.
SameAttempt(v) ==
  /\ wk'[v].job = wk[v].job /\ wk'[v].turn = wk[v].turn
  /\ Come(wk'[v].pc) = Come(wk[v].pc)

\* What the promise sees of a row has not changed.
SameRow(j) ==
  /\ j \in DOMAIN jobs' <=> j \in DOMAIN jobs
  /\ j \in DOMAIN jobs =>
       /\ jobs'[j].status = jobs[j].status /\ jobs'[j].node = jobs[j].node
       /\ jobs'[j].retries = jobs[j].retries /\ jobs'[j].req = jobs[j].req

\* So nothing but the attempt has.
LEMMA RowSeen ==
  ASSUME CLInv, NEW j, SameRow(j)
  PROVE  /\ StageOf(j)' = StageOf(j) /\ LeaseOf(j)' = LeaseOf(j)
         /\ SpentOf(j)' = SpentOf(j) /\ LimitOf(j)' = LimitOf(j)
<1>1. StageOf(j)' = StageOf(j)
  <2>1. j \in DOMAIN jobs => jobs[j].status \in {"pending", "running", "completed", "failed", "cancelled"}
    BY DEF CLInv, IInv, RowOK, Row, Active, Settled
  <2>. QED BY <2>1 DEF StageOf, SameRow
<1>2. LeaseOf(j)' = LeaseOf(j)
  BY DEF LeaseOf, WithStatus, SameRow
<1>3. SpentOf(j)' = SpentOf(j) /\ LimitOf(j)' = LimitOf(j)
  BY DEF SpentOf, LimitOf, SameRow
<1>. QED BY <1>1, <1>2, <1>3

\* A row that is not touched, and whose attempt goes on, is the same job.
LEMMA Untouched ==
  ASSUME CLInv, OneWorker, NEW j \in JobId, turn'[j] = turn[j], SameRow(j),
         \A w \in Worker : Attempts(w, j) \/ wk'[w].job = j => SameAttempt(w)
  PROVE  SameJob(j)
<1>1. /\ StageOf(j)' = StageOf(j) /\ LeaseOf(j)' = LeaseOf(j)
      /\ SpentOf(j)' = SpentOf(j) /\ LimitOf(j)' = LimitOf(j)
  BY RowSeen
<1>2. \A w \in Worker : Attempts(w, j)' <=> Attempts(w, j)
  BY <1>1 DEF Attempts, SameAttempt
<1>3. Told /\ Told'
  BY AttemptTells, PTL
<1>4. CASE \E w \in Worker : Attempts(w, j)
  <2>1. PICK w \in Worker : Attempts(w, j)
    BY <1>4
  <2>2. AttemptOf(j)' = Come(wk'[w].pc)
    BY <1>2, <1>3, <2>1 DEF Told
  <2>. QED BY <1>1, <2>1, <2>2, <1>3 DEF SameJob, Told, SameAttempt
<1>5. CASE \A w \in Worker : ~Attempts(w, j)
  <2>1. AttemptOf(j)' = "none"
    BY <1>2, <1>3, <1>5 DEF Told
  <2>. QED BY <1>1, <1>5, <2>1, <1>3 DEF SameJob, Told
<1>. QED BY <1>4, <1>5

\* If no job changes, the promise sees nothing.
LEMMA NothingSeen ==
  ASSUME \A j \in JobId : SameJob(j)
  PROVE  LifeStep
<1>1. UNCHANGED Lifecycle!life
  BY DEF SameJob, Lifecycle!life
<1>. QED BY <1>1 DEF LifeStep

\* Only job j changes, and what becomes of it is an action of JobLifecycle.
LEMMA OneSeen ==
  ASSUME NEW j \in JobId, \A k \in JobId \ {j} : SameJob(k),
         \/ /\ StageOf(j) = "leased" /\ AttemptOf(j)' \in {"none", "ok", "bad"}
            /\ StageOf(j)' = StageOf(j) /\ LeaseOf(j)' = LeaseOf(j)
            /\ SpentOf(j)' = SpentOf(j) /\ LimitOf(j)' = LimitOf(j)
         \/ /\ StageOf(j) = "queued" /\ StageOf(j)' = "leased" /\ LeaseOf(j)' \in Node
            /\ AttemptOf(j)' = AttemptOf(j) /\ SpentOf(j)' = SpentOf(j) /\ LimitOf(j)' = LimitOf(j)
         \/ /\ StageOf(j) = "absent" /\ StageOf(j)' = "queued" /\ LeaseOf(j)' = LeaseOf(j)
            /\ AttemptOf(j)' = AttemptOf(j) /\ SpentOf(j)' = SpentOf(j)
            /\ LimitOf(j)' \in {r.maxRetries : r \in Request}
         \/ /\ LeaseOf(j)' = NoNode /\ AttemptOf(j)' = "none"
            /\ \/ /\ SpentOf(j)' = SpentOf(j) /\ LimitOf(j)' = LimitOf(j)
                  /\ \/ StageOf(j) = "leased" /\ AttemptOf(j) = "ok" /\ StageOf(j)' = "done"
                     \/ /\ StageOf(j) = "leased" /\ AttemptOf(j) = "bad" /\ StageOf(j)' = "failed"
                        /\ SpentOf(j) = LimitOf(j)
                     \/ StageOf(j) \in {"queued", "leased"} /\ StageOf(j)' = "withdrawn"
                     \/ StageOf(j) = "failed" /\ StageOf(j)' = "queued"
               \/ /\ StageOf(j) = "leased" /\ AttemptOf(j) = "bad" /\ StageOf(j)' = "queued"
                  /\ SpentOf(j) < LimitOf(j) /\ SpentOf(j)' = SpentOf(j) + 1 /\ LimitOf(j)' = LimitOf(j)
               \/ StageOf(j) # "absent" /\ StageOf(j)' = "absent" /\ SpentOf(j)' = 0 /\ LimitOf(j)' = 0
  PROVE  LifeStep
<1>. DEFINE stg == [k \in JobId |-> StageOf(k)]
            lea == [k \in JobId |-> LeaseOf(k)]
            att == [k \in JobId |-> AttemptOf(k)]
            spe == [k \in JobId |-> SpentOf(k)]
            lim == [k \in JobId |-> LimitOf(k)]
<1>1. /\ stg' = [stg EXCEPT ![j] = StageOf(j)'] /\ lea' = [lea EXCEPT ![j] = LeaseOf(j)']
      /\ att' = [att EXCEPT ![j] = AttemptOf(j)'] /\ spe' = [spe EXCEPT ![j] = SpentOf(j)']
      /\ lim' = [lim EXCEPT ![j] = LimitOf(j)']
  BY DEF SameJob
<1>2. /\ stg[j] = StageOf(j) /\ lea[j] = LeaseOf(j) /\ att[j] = AttemptOf(j)
      /\ spe[j] = SpentOf(j) /\ lim[j] = LimitOf(j)
  OBVIOUS
<1>3. /\ StageOf(j)' = StageOf(j) => UNCHANGED stg
      /\ LeaseOf(j)' = LeaseOf(j) => UNCHANGED lea
      /\ AttemptOf(j)' = AttemptOf(j) => UNCHANGED att
      /\ SpentOf(j)' = SpentOf(j) => UNCHANGED spe
      /\ LimitOf(j)' = LimitOf(j) => UNCHANGED lim
  BY <1>1
<1>4. ASSUME Lifecycle!LNext PROVE LifeStep
  BY <1>4 DEF LifeStep
<1>5. CASE /\ StageOf(j) = "leased" /\ AttemptOf(j)' \in {"none", "ok", "bad"}
           /\ StageOf(j)' = StageOf(j) /\ LeaseOf(j)' = LeaseOf(j)
           /\ SpentOf(j)' = SpentOf(j) /\ LimitOf(j)' = LimitOf(j)
  <2>1. Lifecycle!Report(j, AttemptOf(j)')
    BY <1>1, <1>2, <1>3, <1>5 DEF Lifecycle!Report
  <2>. QED BY <1>4, <1>5, <2>1 DEF Lifecycle!LNext, Lifecycle!Outcome
<1>6. CASE /\ StageOf(j) = "queued" /\ StageOf(j)' = "leased" /\ LeaseOf(j)' \in Node
           /\ AttemptOf(j)' = AttemptOf(j) /\ SpentOf(j)' = SpentOf(j) /\ LimitOf(j)' = LimitOf(j)
  <2>1. Lifecycle!Grant(j, LeaseOf(j)')
    BY <1>1, <1>2, <1>3, <1>6 DEF Lifecycle!Grant
  <2>. QED BY <1>4, <1>6, <2>1 DEF Lifecycle!LNext
<1>7. CASE /\ StageOf(j) = "absent" /\ StageOf(j)' = "queued" /\ LeaseOf(j)' = LeaseOf(j)
           /\ AttemptOf(j)' = AttemptOf(j) /\ SpentOf(j)' = SpentOf(j)
           /\ LimitOf(j)' \in {r.maxRetries : r \in Request}
  <2>1. Lifecycle!Submit(j, LimitOf(j)')
    BY <1>1, <1>2, <1>3, <1>7 DEF Lifecycle!Submit
  <2>. QED BY <1>4, <1>7, <2>1 DEF Lifecycle!LNext
<1>8. CASE LeaseOf(j)' = NoNode /\ AttemptOf(j)' = "none"
  <2>1. Lifecycle!Release(j, StageOf(j)')
    BY <1>1, <1>8 DEF Lifecycle!Release
  <2>2. CASE /\ SpentOf(j)' = SpentOf(j) /\ LimitOf(j)' = LimitOf(j)
             /\ \/ StageOf(j) = "leased" /\ AttemptOf(j) = "ok" /\ StageOf(j)' = "done"
                \/ /\ StageOf(j) = "leased" /\ AttemptOf(j) = "bad" /\ StageOf(j)' = "failed"
                   /\ SpentOf(j) = LimitOf(j)
                \/ StageOf(j) \in {"queued", "leased"} /\ StageOf(j)' = "withdrawn"
                \/ StageOf(j) = "failed" /\ StageOf(j)' = "queued"
    <3>1. Lifecycle!Settle(j) \/ Lifecycle!GiveUp(j) \/ Lifecycle!Withdraw(j) \/ Lifecycle!Reopen(j)
      BY <1>2, <1>3, <2>1, <2>2 DEF Lifecycle!Settle, Lifecycle!GiveUp, Lifecycle!Withdraw, Lifecycle!Reopen
    <3>. QED BY <1>4, <3>1 DEF Lifecycle!LNext
  <2>3. CASE /\ StageOf(j) = "leased" /\ AttemptOf(j) = "bad" /\ StageOf(j)' = "queued"
             /\ SpentOf(j) < LimitOf(j) /\ SpentOf(j)' = SpentOf(j) + 1 /\ LimitOf(j)' = LimitOf(j)
    <3>1. Lifecycle!Retry(j)
      BY <1>1, <1>2, <1>3, <2>1, <2>3 DEF Lifecycle!Retry
    <3>. QED BY <1>4, <3>1 DEF Lifecycle!LNext
  <2>4. CASE StageOf(j) # "absent" /\ StageOf(j)' = "absent" /\ SpentOf(j)' = 0 /\ LimitOf(j)' = 0
    <3>1. Lifecycle!Forget(j)
      BY <1>1, <1>2, <2>1, <2>4 DEF Lifecycle!Forget
    <3>. QED BY <1>4, <3>1 DEF Lifecycle!LNext
  <2>5. CASE StageOf(j) = "leased" /\ StageOf(j)' = StageOf(j) /\ LeaseOf(j)' = LeaseOf(j)
             /\ SpentOf(j)' = SpentOf(j) /\ LimitOf(j)' = LimitOf(j)
    BY <1>5, <1>8, <2>5
  <2>. QED BY <1>5, <1>6, <1>7, <2>2, <2>3, <2>4
<1>. QED BY <1>5, <1>6, <1>7, <1>8

\* The rows alone say that nobody attempts a job that nobody runs.
Unleased ==
  \A j \in JobId : ~(j \in DOMAIN jobs /\ jobs[j].status = "running") =>
    LeaseOf(j) = NoNode /\ AttemptOf(j) = "none"

\* It is so in every state.
LEMMA NobodyLeased == OneWorker => Unleased
  BY NoLease DEF Unleased

\* Other jobs than the one of thread w, when only their thread w moves.
LEMMA OthersSame ==
  ASSUME CLInv, OneWorker, turn' = turn, NEW w \in Worker,
         wk'[w].job # 0 => wk'[w].job = wk[w].job,
         \A v \in Worker \ {w} : SameAttempt(v),
         NEW j \in JobId, j # wk[w].job, SameRow(j)
  PROVE  SameJob(j)
<1>1. ASSUME NEW v \in Worker, Attempts(v, j) \/ wk'[v].job = j PROVE SameAttempt(v)
  BY <1>1 DEF Attempts, JobId
<1>2. turn'[j] = turn[j]
  OBVIOUS
<1>. QED BY <1>1, <1>2, Untouched

\* A thread goes on, or leaves its job, and the table is as it was: to the promise
\* that is a report, if the thread's attempt is the one that counts.
LEMMA QuietThread ==
  ASSUME CLInv, OneWorker, UNCHANGED queue, turn' = turn, NEW w \in Worker,
         wk'[w].job # 0 => wk'[w].job = wk[w].job,
         \A v \in Worker \ {w} : SameAttempt(v)
  PROVE  LifeStep
<1>1. \A j \in JobId : SameRow(j)
  BY DEF queue, SameRow
<1>2. \A j \in JobId \ {wk[w].job} : SameJob(j)
  BY <1>1, OthersSame
<1>3. CASE wk[w].job \notin JobId
  BY <1>2, <1>3, NothingSeen
<1>4. ASSUME NEW j \in JobId, wk[w].job = j PROVE LifeStep
  <2>1. /\ StageOf(j)' = StageOf(j) /\ LeaseOf(j)' = LeaseOf(j)
        /\ SpentOf(j)' = SpentOf(j) /\ LimitOf(j)' = LimitOf(j)
    BY <1>1, RowSeen
  <2>2. AttemptOf(j)' \in {"none", "ok", "bad"}
    BY DEF AttemptOf
  <2>3. \A k \in JobId \ {j} : SameJob(k)
    BY <1>2, <1>4
  <2>4. CASE StageOf(j) = "leased"
    BY <2>1, <2>2, <2>3, <2>4, OneSeen
  <2>5. CASE StageOf(j) # "leased"
    <3>1. ~(j \in DOMAIN jobs /\ jobs[j].status = "running")
      BY <2>5 DEF StageOf
    <3>2. ~(j \in DOMAIN jobs' /\ jobs'[j].status = "running")
      BY <3>1 DEF queue
    <3>3. Unleased /\ Unleased'
      BY NobodyLeased, PTL
    <3>4. AttemptOf(j) = "none" /\ AttemptOf(j)' = "none"
      BY <3>1, <3>2, <3>3 DEF Unleased
    <3>5. SameJob(j)
      BY <2>1, <3>4 DEF SameJob
    <3>. QED BY <2>3, <3>5, NothingSeen
  <2>. QED BY <2>4, <2>5
<1>. QED BY <1>3, <1>4

-----------------------------------------------------------------------------
\* Only a claim makes a thread the holder of a row, and only a lease's holder has it.
LEMMA LatestStays ==
  ASSUME CLInv, OneWorker, LatestOnNode, [Next]_vars
  PROVE  LatestOnNode'
<1>1. ASSUME ThreadsFollow, Unclaiming \/ UNCHANGED queue PROVE LatestOnNode'
  <2>. SUFFICES ASSUME NEW w \in Worker, wk'[w].job # 0, wk'[w].job \in RunningOn(w[1])'
                PROVE  wk'[w].turn = turn'[wk'[w].job]
    BY DEF LatestOnNode, Busy
  <2>1. wk'[w].job = wk[w].job /\ wk'[w].turn = wk[w].turn /\ turn' = turn
    BY <1>1 DEF ThreadsFollow, Follows
  <2>2. w[1] \in Node
    BY DEF Worker
  <2>3. wk[w].job \in RunningOn(w[1])
    BY <1>1, <2>1, <2>2, RunningShrinks
  <2>. QED BY <2>1, <2>3 DEF LatestOnNode, Busy
<1>2. ASSUME NEW w \in Worker, ClaimJob(w) PROVE LatestOnNode'
  <2>1. PICK j \in DOMAIN jobs :
          /\ ClaimNextJob(j, w[1], w[2], wk[w].excl, Online)
          /\ turn' = [turn EXCEPT ![j] = @ + 1]
          /\ wk' = [wk EXCEPT ![w] =
                      [Idle EXCEPT !.pc = "claimed", !.job = j, !.turn = turn'[j],
                                   !.config = jobs[j].req.config]]
    BY <1>2 DEF ClaimJob
  <2>2. /\ wk \in [Worker -> Thread] /\ j \in JobId /\ turn \in [JobId -> Nat]
        /\ \A v \in Worker : Busy(v) => wk[v].job \in JobId
    BY HeldIds DEF CLInv, ThreadsOK
  <2>3. wk'[w].job = j /\ wk'[w].turn = turn'[j]
    BY <2>1, <2>2 DEF Idle
  <2>4. /\ jobs'[j].node = w[1] /\ DOMAIN jobs' = DOMAIN jobs
        /\ \A k \in DOMAIN jobs \ {j} : jobs'[k] = jobs[k]
    <3>1. jobs[j] \in Row
      BY DEF CLInv, IInv, RowOK
    <3>. QED BY <2>1, <3>1 DEF ClaimNextJob, Row
  <2>. SUFFICES ASSUME NEW v \in Worker, wk'[v].job # 0, wk'[v].job \in RunningOn(v[1])'
                PROVE  wk'[v].turn = turn'[wk'[v].job]
    BY DEF LatestOnNode, Busy
  <2>5. CASE v = w
    BY <2>3, <2>5
  <2>6. CASE v # w
    <3>1. wk'[v] = wk[v] /\ v[1] # w[1]
      BY <2>1, <2>2, <2>6 DEF OneWorker, Worker
    <3>2. wk[v].job # j
      BY <2>4, <3>1 DEF RunningOn, WithStatus
    <3>3. wk[v].job \in RunningOn(v[1]) /\ Busy(v)
      BY <2>4, <3>1, <3>2 DEF RunningOn, WithStatus, Busy
    <3>. QED BY <2>1, <2>2, <3>1, <3>2, <3>3 DEF LatestOnNode
  <2>. QED BY <2>5, <2>6
<1>3. ASSUME NEW w \in Worker, QuietLoop(w) \/ VerdictLoop(w) PROVE LatestOnNode'
  BY <1>1, <1>3, LoopUnclaiming, QuietLoopFollows, VerdictLoopFollows
<1>4. ASSUME NEW n \in Node, QuietNode(n) \/ LoudNode(n) PROVE LatestOnNode'
  BY <1>1, <1>4, NodeUnclaiming, QuietNodeFollows, LoudNodeFollows
<1>5. CASE RequestNext
  BY <1>1, <1>5, RequestUnclaiming, RequestFollows
<1>6. CASE UNCHANGED vars
  BY <1>6 DEF vars, pool, queue, LatestOnNode, Busy, RunningOn, WithStatus
<1>. QED BY <1>2, <1>3, <1>4, <1>5, <1>6, WorkerCases, NodeCases DEF Next

\* What no disturbance was allowed at first is never allowed.
LEMMA DeferralsStayAway ==
  ASSUME NeverDeferred, [Next]_vars
  PROVE  NeverDeferred' /\ ~Spend("defer")
<1>1. left'["defer"] = 0 /\ ~Spend("defer")
  BY LeftShrinks DEF NeverDeferred, Disturbance
<1>2. left' \in [Disturbance -> Nat]
  <2>1. ASSUME NEW k \in Disturbance, Spend(k) PROVE left' \in [Disturbance -> Nat]
    <3>1. left' = [left EXCEPT ![k] = left[k] - 1] /\ left[k] - 1 \in Nat
      BY <2>1 DEF Spend, NeverDeferred
    <3>. QED BY <3>1 DEF NeverDeferred
  <2>. QED BY <2>1, Spends DEF NeverDeferred
<1>. QED BY <1>1, <1>2 DEF NeverDeferred

-----------------------------------------------------------------------------
(* What the promise sees of each step.                                     *)

\* Threads go on with their attempts, and the rows with their leases.
LEMMA NobodyGoes ==
  ASSUME CLInv, OneWorker, turn' = turn, \A j \in JobId : SameRow(j),
         \A v \in Worker : SameAttempt(v)
  PROVE  LifeStep
<1>1. \A j \in JobId : SameJob(j)
  BY Untouched
<1>. QED BY <1>1, NothingSeen

\* A row that nobody runs has no lease, and no attempt counts.
LEMMA Ended ==
  ASSUME OneWorker, NEW j \in JobId, ~(j \in DOMAIN jobs' /\ jobs'[j].status = "running")
  PROVE  LeaseOf(j)' = NoNode /\ AttemptOf(j)' = "none"
<1>1. Unleased'
  BY NobodyLeased, PTL
<1>. QED BY <1>1 DEF Unleased

\* A thread's step that leaves the table alone.
LEMMA QuietLoopSeen ==
  ASSUME CLInv, OneWorker, NEW w \in Worker, QuietLoop(w)
  PROVE  LifeStep
<1>1. ThreadsFollow /\ UNCHANGED queue /\ \A v \in Worker \ {w} : Bystander(v)
  BY QuietLoopFollows, OthersStandBy
<1>. QED BY <1>1, QuietThread DEF ThreadsFollow, Follows, Bystander, SameAttempt

\* The owner guard lets one thread write a verdict: the one whose attempt counts.
LEMMA VerdictSeen ==
  ASSUME LeaseInv, OneWorker, ~Spend("defer"), NEW w \in Worker, VerdictLoop(w)
  PROVE  LifeStep
<1>0. CLInv
  BY DEF LeaseInv
<1>1. ThreadsFollow /\ \A v \in Worker \ {w} : SameAttempt(v)
  BY <1>0, VerdictLoopFollows, OthersStandBy DEF Bystander, SameAttempt
<1>2. CASE UNCHANGED queue
  BY <1>0, <1>1, <1>2, QuietThread DEF ThreadsFollow, Follows
<1>3. ASSUME ~UNCHANGED queue
      PROVE  \/ wk[w].pc = "won" /\ CompleteJob(wk[w].job, w[1])
             \/ wk[w].pc \in {"lost", "rejecting", "raised"} /\ FailJob(wk[w].job, w[1])
  BY <1>3 DEF VerdictLoop, Reject, Complete, Fail, FailAfterError, Defer, FailOrDiscard, At, queue
<1>4. ASSUME NEW j \in JobId, wk[w].job = j, Owns(j, w[1]), wk[w].pc \in AtWork,
             NEW r, jobs' = [jobs EXCEPT ![j] = r], r.status # "running"
      PROVE  /\ \A k \in JobId \ {j} : SameJob(k)
             /\ AttemptOf(j) = Come(wk[w].pc) /\ StageOf(j) = "leased"
             /\ j \in DOMAIN jobs /\ jobs[j] \in Row /\ RowOK(jobs[j]) /\ jobs'[j] = r
             /\ LeaseOf(j)' = NoNode /\ AttemptOf(j)' = "none"
  <2>1. j \in DOMAIN jobs /\ jobs[j].status = "running" /\ RowOK(jobs[j]) /\ jobs[j] \in Row
    BY <1>0, <1>4 DEF Owns, WithStatus, CLInv, IInv, RowOK
  <2>2. jobs[j].node = w[1]
    BY <1>4, <2>1, QueueAssumption DEF Owns, RowOK, QueueAssumption
  <2>3. Attempts(w, j)
    BY <1>0, <1>4, <2>1, <2>2, AtWorkIsBusy
    DEF LeaseInv, LatestOnNode, Attempts, LeaseOf, RunningOn, WithStatus
  <2>4. AttemptOf(j) = Come(wk[w].pc)
    BY <2>3, AttemptTells DEF Told
  <2>5. StageOf(j) = "leased"
    BY <2>1 DEF StageOf
  <2>6. jobs'[j] = r /\ \A k \in JobId \ {j} : SameRow(k)
    BY <1>4, <2>1 DEF SameRow
  <2>7. \A k \in JobId \ {j} : SameJob(k)
    BY <1>0, <1>1, <1>4, <2>6, OthersSame DEF ThreadsFollow, Follows
  <2>. QED BY <1>4, <2>1, <2>4, <2>5, <2>6, <2>7, Ended
<1>5. ASSUME NEW j \in JobId, wk[w].job = j, wk[w].pc = "won", CompleteJob(j, w[1])
      PROVE  LifeStep
  <2>. DEFINE r == [jobs[j] EXCEPT !.status = "completed"]
  <2>1. Owns(j, w[1]) /\ jobs' = [jobs EXCEPT ![j] = r] /\ wk[w].pc \in AtWork
    BY <1>5 DEF CompleteJob, AtWork
  <2>2. r.status = "completed" /\ r.retries = jobs[j].retries /\ r.req = jobs[j].req
    <3>1. jobs[j] \in Row
      BY <1>0, <2>1 DEF Owns, WithStatus, CLInv, IInv, RowOK
    <3>. QED BY <3>1 DEF Row
  <2>. HIDE DEF r
  <2>3. /\ \A k \in JobId \ {j} : SameJob(k)
        /\ AttemptOf(j) = Come(wk[w].pc) /\ StageOf(j) = "leased"
        /\ j \in DOMAIN jobs /\ jobs'[j] = r
        /\ LeaseOf(j)' = NoNode /\ AttemptOf(j)' = "none"
    BY <1>4, <1>5, <2>1, <2>2
  <2>4. j \in DOMAIN jobs'
    BY <2>1, <2>3
  <2>5. StageOf(j)' = "done" /\ AttemptOf(j) = "ok"
    BY <1>5, <2>2, <2>3, <2>4 DEF StageOf, Come
  <2>6. SpentOf(j)' = SpentOf(j) /\ LimitOf(j)' = LimitOf(j)
    BY <2>2, <2>3, <2>4 DEF SpentOf, LimitOf
  <2>. QED BY <2>3, <2>5, <2>6, OneSeen
<1>6. ASSUME NEW j \in JobId, wk[w].job = j, wk[w].pc \in {"lost", "rejecting", "raised"},
             FailJob(j, w[1])
      PROVE  LifeStep
  <2>. DEFINE r == AfterFailure(jobs[j])
  <2>1. Owns(j, w[1]) /\ jobs' = [jobs EXCEPT ![j] = r] /\ wk[w].pc \in AtWork
    BY <1>6 DEF FailJob, AtWork
  <2>2. /\ r.req = jobs[j].req
        /\ \/ /\ r.status = "pending" /\ r.retries = jobs[j].retries + 1
              /\ jobs[j].retries < jobs[j].req.maxRetries
           \/ /\ r.status = "failed" /\ r.retries = jobs[j].retries
              /\ jobs[j].retries = jobs[j].req.maxRetries
    <3>1. jobs[j] \in Row /\ RowOK(jobs[j])
      BY <1>0, <2>1 DEF Owns, WithStatus, CLInv, IInv, RowOK
    <3>2. /\ jobs[j].retries \in Nat /\ jobs[j].req.maxRetries \in Nat
          /\ jobs[j].retries <= jobs[j].req.maxRetries
      BY <3>1, RequestFields DEF RowOK, Row
    <3>3. CASE MayRetry(jobs[j])
      <4>. DEFINE b == Backfilled(Released(jobs[j]))
      <4>1. b \in Row /\ b.status = "pending" /\ b.retries = jobs[j].retries /\ b.req = jobs[j].req
        BY <3>1, ReleasedRow, BackfilledRow DEF RowOK
      <4>2. r = Charged(b)
        BY <3>3 DEF AfterFailure
      <4>. HIDE DEF b
      <4>. QED BY <3>3, <4>1, <4>2 DEF Charged, Row, MayRetry
    <3>4. CASE ~MayRetry(jobs[j])
      BY <3>1, <3>2, <3>4 DEF AfterFailure, Row, MayRetry
    <3>. QED BY <3>3, <3>4
  <2>. HIDE DEF r
  <2>3. /\ \A k \in JobId \ {j} : SameJob(k)
        /\ AttemptOf(j) = Come(wk[w].pc) /\ StageOf(j) = "leased"
        /\ j \in DOMAIN jobs /\ jobs'[j] = r
        /\ LeaseOf(j)' = NoNode /\ AttemptOf(j)' = "none"
    BY <1>4, <1>6, <2>1, <2>2
  <2>4. j \in DOMAIN jobs'
    BY <2>1, <2>3
  <2>5. AttemptOf(j) = "bad" /\ LimitOf(j)' = LimitOf(j)
    BY <1>6, <2>2, <2>3, <2>4 DEF LimitOf, Come
  <2>6. \/ StageOf(j)' = "queued" /\ SpentOf(j) < LimitOf(j) /\ SpentOf(j)' = SpentOf(j) + 1
        \/ StageOf(j)' = "failed" /\ SpentOf(j) = LimitOf(j) /\ SpentOf(j)' = SpentOf(j)
    BY <2>2, <2>3, <2>4 DEF StageOf, SpentOf, LimitOf
  <2>. QED BY <2>3, <2>5, <2>6, OneSeen
<1>7. wk[w].pc \in AtWork => wk[w].job \in JobId
  BY <1>0, AtWorkIsBusy, HeldIds
<1>. QED BY <1>2, <1>3, <1>5, <1>6, <1>7 DEF AtWork

\* A claim is the grant of a lease to the thread's node.
LEMMA ClaimSeen ==
  ASSUME CLInv, OneWorker, NEW w \in Worker, ClaimJob(w)
  PROVE  LifeStep
<1>1. PICK j \in DOMAIN jobs :
        /\ ClaimNextJob(j, w[1], w[2], wk[w].excl, Online)
        /\ turn' = [turn EXCEPT ![j] = @ + 1]
        /\ wk' = [wk EXCEPT ![w] =
                    [Idle EXCEPT !.pc = "claimed", !.job = j, !.turn = turn'[j],
                                 !.config = jobs[j].req.config]]
  BY DEF ClaimJob
<1>2. /\ wk \in [Worker -> Thread] /\ wk[w].job = 0 /\ w[1] \in Node
      /\ j \in JobId /\ turn \in [JobId -> Nat] /\ jobs[j] \in Row
  BY HeldIds DEF CLInv, ThreadsOK, IInv, RowOK, ClaimJob, At, Busy, Worker
<1>3. wk'[w].job = j /\ wk'[w].turn = turn'[j] /\ wk'[w].pc = "claimed"
  BY <1>1, <1>2 DEF Idle
<1>4. \A v \in Worker \ {w} : SameAttempt(v)
  BY OthersStandBy DEF Bystander, SameAttempt
<1>5. /\ jobs[j].status = "pending" /\ jobs'[j].status = "running" /\ jobs'[j].node = w[1]
      /\ jobs'[j].retries = jobs[j].retries /\ jobs'[j].req = jobs[j].req
      /\ DOMAIN jobs' = DOMAIN jobs /\ \A k \in DOMAIN jobs \ {j} : jobs'[k] = jobs[k]
  BY <1>1, <1>2 DEF ClaimNextJob, Claimable, WithStatus, Row
<1>6. ASSUME NEW k \in JobId \ {j} PROVE SameJob(k)
  <2>1. turn'[k] = turn[k] /\ SameRow(k)
    BY <1>1, <1>2, <1>5 DEF SameRow
  <2>2. ASSUME NEW v \in Worker, Attempts(v, k) \/ wk'[v].job = k PROVE SameAttempt(v)
    <3>1. v # w
      BY <1>2, <1>3, <2>2 DEF Attempts, JobId
    <3>. QED BY <1>4, <3>1
  <2>. QED BY <2>1, <2>2, Untouched
<1>7. StageOf(j) = "queued" /\ StageOf(j)' = "leased" /\ LeaseOf(j)' = w[1]
  BY <1>5 DEF StageOf, LeaseOf, WithStatus
<1>8. SpentOf(j)' = SpentOf(j) /\ LimitOf(j)' = LimitOf(j)
  BY <1>5 DEF SpentOf, LimitOf
<1>9. AttemptOf(j) = "none" /\ AttemptOf(j)' = "none"
  <2>1. AttemptOf(j) = "none"
    BY <1>2, <1>5, NobodyLeased DEF Unleased
  <2>2. Told'
    BY AttemptTells, PTL
  <2>3. Attempts(w, j)'
    BY <1>3, <1>7 DEF Attempts
  <2>4. AttemptOf(j)' = Come(wk'[w].pc)
    BY <1>2, <2>2, <2>3 DEF Told
  <2>. QED BY <1>3, <2>1, <2>4 DEF Come
<1>. QED BY <1>2, <1>6, <1>7, <1>8, <1>9, OneSeen

\* A recovery, and the reset of a node's own rows, revoke the leases of the nodes S.
LEMMA RecoverySeen ==
  ASSUME CLInv, OneWorker, NEW S \in SUBSET Node, turn' = turn,
         \A v \in Worker : SameAttempt(v), DOMAIN jobs' = DOMAIN jobs,
         NEW held \in SUBSET DOMAIN jobs, held = UNION {RunningOn(n) : n \in S},
         \A j \in DOMAIN jobs \ held : SameRow(j),
         \A j \in held : /\ jobs'[j].status = "pending"
                         /\ jobs'[j].retries = jobs[j].retries /\ jobs'[j].req = jobs[j].req
  PROVE  LifeStep
<1>1. ASSUME NEW j \in JobId PROVE LeaseOf(j) \in S <=> j \in held
  <2>1. NoNode \notin S
    BY QueueAssumption DEF QueueAssumption
  <2>. QED BY <2>1 DEF LeaseOf, RunningOn, WithStatus
<1>2. ASSUME NEW j \in JobId, j \notin held PROVE SameJob(j)
  <2>1. SameRow(j)
    BY <1>2 DEF SameRow
  <2>. QED BY <2>1, Untouched
<1>3. ASSUME NEW j \in JobId, j \in held
      PROVE  /\ StageOf(j)' = "queued" /\ LeaseOf(j)' = NoNode /\ AttemptOf(j)' = "none"
             /\ SpentOf(j)' = SpentOf(j) /\ LimitOf(j)' = LimitOf(j)
  <2>1. j \in DOMAIN jobs'
    BY <1>3
  <2>2. StageOf(j)' = "queued"
    BY <1>3, <2>1 DEF StageOf
  <2>3. SpentOf(j)' = SpentOf(j) /\ LimitOf(j)' = LimitOf(j)
    BY <1>3, <2>1 DEF SpentOf, LimitOf
  <2>. QED BY <1>3, <2>1, <2>2, <2>3, Ended
<1>4. Lifecycle!Revoke(S)
  BY <1>1, <1>2, <1>3 DEF Lifecycle!Revoke, SameJob
<1>. QED BY <1>4 DEF LifeStep, Lifecycle!LNext

\* A release puts rows back with the retries they have used.
LEMMA ReleasedRows ==
  ASSUME CLInv, NEW held \in SUBSET DOMAIN jobs, jobs' = ReleasedAndBackfilled(held)
  PROVE  /\ DOMAIN jobs' = DOMAIN jobs
         /\ \A j \in DOMAIN jobs \ held : SameRow(j)
         /\ \A j \in held : /\ jobs'[j].status = "pending"
                            /\ jobs'[j].retries = jobs[j].retries /\ jobs'[j].req = jobs[j].req
<1>1. \A j \in DOMAIN jobs : RowOK(jobs[j])
  BY DEF CLInv, IInv
<1>2. DOMAIN jobs' = DOMAIN jobs
  BY DEF ReleasedAndBackfilled
<1>3. ASSUME NEW j \in DOMAIN jobs \ held PROVE SameRow(j)
  <2>1. jobs'[j] = Backfilled(jobs[j])
    BY DEF ReleasedAndBackfilled
  <2>. QED BY <1>1, <1>2, <2>1, BackfilledRow DEF SameRow
<1>4. ASSUME NEW j \in held
      PROVE  /\ jobs'[j].status = "pending"
             /\ jobs'[j].retries = jobs[j].retries /\ jobs'[j].req = jobs[j].req
  <2>1. jobs'[j] = Backfilled(Released(jobs[j]))
    BY DEF ReleasedAndBackfilled
  <2>. QED BY <1>1, <2>1, ReleasedRow, BackfilledRow
<1>. QED BY <1>2, <1>3, <1>4

\* A recovery of peers, a hand-back and a start.
LEMMA LoudNodeSeen ==
  ASSUME CLInv, OneWorker, NEW n \in Node, LoudNode(n)
  PROVE  LifeStep
<1>1. ASSUME NEW S, wk' = Ousted(S) PROVE \A v \in Worker : SameAttempt(v)
  <2>1. ASSUME NEW v \in Worker PROVE SameAttempt(v)
    <3>1. wk[v] \in Thread
      BY DEF CLInv, ThreadsOK
    <3>2. wk'[v] = wk[v] \/ wk'[v] = [wk[v] EXCEPT !.ousted = TRUE]
      BY <1>1 DEF Ousted
    <3>. QED BY <3>1, <3>2 DEF SameAttempt, Thread
  <2>. QED BY <2>1
<1>2. CASE RecoverStale(n)
  <2>. DEFINE held == UNION {RunningOn(m) : m \in Stale}
  <2>1. /\ wk' = Ousted(Stale) /\ turn' = turn
        /\ jobs' = IF held = {} THEN jobs ELSE ReleasedAndBackfilled(held)
    BY <1>2 DEF RecoverStale, RequeueStaleJobs
  <2>2. Stale \in SUBSET Node /\ held \in SUBSET DOMAIN jobs /\ held = UNION {RunningOn(m) : m \in Stale}
    BY DEF Stale, RunningOn, WithStatus
  <2>. HIDE DEF held
  <2>3. CASE held = {}
    <3>1. \A j \in JobId : SameRow(j)
      BY <2>1, <2>3 DEF SameRow
    <3>. QED BY <1>1, <2>1, <3>1, NobodyGoes
  <2>4. CASE held # {}
    BY <1>1, <2>1, <2>2, <2>4, ReleasedRows, RecoverySeen
  <2>. QED BY <2>3, <2>4
<1>3. ASSUME jobs' = ReleasedAndBackfilled(RunningOn(n)), turn' = turn,
             \A v \in Worker : SameAttempt(v)
      PROVE  LifeStep
  <2>1. RunningOn(n) \in SUBSET DOMAIN jobs /\ {n} \in SUBSET Node
        /\ RunningOn(n) = UNION {RunningOn(m) : m \in {n}}
    BY DEF RunningOn, WithStatus
  <2>. QED BY <1>3, <2>1, ReleasedRows, RecoverySeen
<1>4. CASE HandBack(n)
  BY <1>1, <1>3, <1>4 DEF HandBack, RequeueNodeJobs
<1>5. CASE Start(n)
  BY <1>3, <1>5 DEF Start, RequeueNodeJobs, pool, SameAttempt
<1>. QED BY <1>2, <1>4, <1>5 DEF LoudNode

\* The other steps of a node leave the table alone; a crash takes its thread.
LEMMA QuietNodeSeen ==
  ASSUME CLInv, OneWorker, NEW n \in Node, QuietNode(n)
  PROVE  LifeStep
<1>0. /\ wk \in [Worker -> Thread] /\ turn' = turn /\ UNCHANGED queue
      /\ \A j \in JobId : SameRow(j)
  BY QuietNodeFollows DEF CLInv, ThreadsOK, ThreadsFollow, queue, SameRow
<1>1. ASSUME UNCHANGED wk PROVE LifeStep
  BY <1>0, <1>1, NobodyGoes DEF SameAttempt
<1>2. CASE Heartbeat(n) \/ GoSilent(n) \/ WriteStatus(n) \/ Cut(n) \/ Heal(n) \/ Drained(n)
           \/ (\E c \in {"drain", "pause", "resume"} : TakeCommand(n, c))
           \/ (\E status \in {row[n], "restarting", "offline"} : Stop(n, status))
  BY <1>1, <1>2 DEF Heartbeat, GoSilent, WriteStatus, Cut, Heal, Drained, TakeCommand, Stop, pool
<1>3. CASE DrainDeadline(n)
  <2>1. ASSUME NEW v \in Worker PROVE SameAttempt(v)
    <3>1. wk'[v] = wk[v] \/ wk'[v] = [wk[v] EXCEPT !.abort = "shutdown"]
      BY <1>3 DEF DrainDeadline
    <3>2. wk[v] \in Thread
      BY <1>0
    <3>. QED BY <3>1, <3>2 DEF SameAttempt, Thread
  <2>. QED BY <1>0, <2>1, NobodyGoes
<1>4. CASE Crash(n) \/ GoOffline(n)
  <2>1. wk' = [w \in Worker |-> IF w[1] = n THEN Idle ELSE wk[w]]
    BY <1>4 DEF Crash, GoOffline, Vanish
  <2>2. CASE \A w \in Worker : w[1] # n
    <3>1. \A v \in Worker : SameAttempt(v)
      BY <2>1, <2>2 DEF SameAttempt
    <3>. QED BY <1>0, <3>1, NobodyGoes
  <2>3. ASSUME NEW w \in Worker, w[1] = n PROVE LifeStep
    <3>1. \A v \in Worker \ {w} : v[1] # n
      BY <2>3 DEF OneWorker, Worker
    <3>2. \A v \in Worker \ {w} : SameAttempt(v)
      BY <2>1, <3>1 DEF SameAttempt
    <3>3. wk'[w].job = 0
      BY <2>1, <2>3 DEF Idle
    <3>. QED BY <1>0, <3>2, <3>3, QuietThread
  <2>. QED BY <2>2, <2>3
<1>. QED BY <1>2, <1>3, <1>4 DEF QuietNode

\* A request of the API changes one row, or tells a watchdog.
LEMMA RequestSeen ==
  ASSUME CLInv, OneWorker, RequestNext
  PROVE  LifeStep
<1>0. /\ wk \in [Worker -> Thread] /\ DOMAIN jobs \subseteq JobId /\ nextId \notin DOMAIN jobs
      /\ \A j \in DOMAIN jobs : jobs[j] \in Row /\ RowOK(jobs[j])
  BY HeldIds, QueueAssumption DEF CLInv, ThreadsOK, IInv, RowOK, QueueAssumption
<1>1. Unleased
  BY NobodyLeased
<1>2. ASSUME UNCHANGED <<wk, turn>>, NEW j \in JobId, \A k \in JobId \ {j} : SameRow(k)
      PROVE  \A k \in JobId \ {j} : SameJob(k)
  BY <1>2, Untouched DEF SameAttempt
<1>3. ASSUME UNCHANGED <<wk, turn>>, \A k \in JobId : SameRow(k) PROVE LifeStep
  BY <1>3, NobodyGoes DEF SameAttempt
<1>4. ASSUME NEW r \in Request, Submit(r), NEW j \in JobId, j = nextId PROVE LifeStep
  <2>1. /\ UNCHANGED <<wk, turn>> /\ j \notin DOMAIN jobs
        /\ jobs' = [k \in DOMAIN jobs \cup {j} |-> IF k = j THEN NewRow(r) ELSE jobs[k]]
    BY <1>0, <1>4 DEF Submit, AddJob, pool
  <2>2. \A k \in JobId \ {j} : SameJob(k)
    <3>1. \A k \in JobId \ {j} : SameRow(k)
      BY <2>1 DEF SameRow
    <3>. QED BY <1>2, <2>1, <3>1
  <2>3. j \in DOMAIN jobs' /\ jobs'[j] = NewRow(r)
    BY <2>1
  <2>4. /\ jobs'[j].status = "pending" /\ jobs'[j].retries = 0
        /\ jobs'[j].req.maxRetries = r.maxRetries
    BY <2>3 DEF NewRow
  <2>5. StageOf(j) = "absent" /\ StageOf(j)' = "queued"
    BY <2>1, <2>3, <2>4 DEF StageOf
  <2>6. SpentOf(j)' = SpentOf(j) /\ LimitOf(j)' \in {q.maxRetries : q \in Request}
    BY <2>1, <2>3, <2>4 DEF SpentOf, LimitOf
  <2>7. LeaseOf(j) = NoNode /\ AttemptOf(j) = "none"
    BY <1>0, <1>1, <2>1 DEF Unleased
  <2>8. LeaseOf(j)' = NoNode /\ AttemptOf(j)' = "none"
    BY <2>1, <2>4, Ended
  <2>. QED BY <2>1, <2>2, <2>5, <2>6, <2>7, <2>8, OneSeen
<1>5. ASSUME NEW j \in DOMAIN jobs, UNCHANGED <<wk, turn>>,
             NEW s, jobs' = [jobs EXCEPT ![j] = s], s.status # "running",
             s.retries = jobs[j].retries, s.req = jobs[j].req
      PROVE  /\ j \in JobId /\ \A k \in JobId \ {j} : SameJob(k)
             /\ LeaseOf(j)' = NoNode /\ AttemptOf(j)' = "none"
             /\ SpentOf(j)' = SpentOf(j) /\ LimitOf(j)' = LimitOf(j)
             /\ j \in DOMAIN jobs' /\ jobs'[j] = s
  <2>1. j \in JobId /\ j \in DOMAIN jobs' /\ jobs'[j] = s
    BY <1>0, <1>5
  <2>2. \A k \in JobId \ {j} : SameRow(k)
    BY <1>5 DEF SameRow
  <2>3. SpentOf(j)' = SpentOf(j) /\ LimitOf(j)' = LimitOf(j)
    BY <1>5, <2>1 DEF SpentOf, LimitOf
  <2>. QED BY <1>2, <1>5, <2>1, <2>2, <2>3, Ended
<1>6. ASSUME NEW n \in Node, NEW j \in DOMAIN jobs, Cancel(n, j) PROVE LifeStep
  <2>1. UNCHANGED <<wk, turn>> /\ (CancelJob(j) \/ UNCHANGED queue)
    BY <1>6 DEF Cancel, pool
  <2>2. CASE UNCHANGED queue
    <3>1. \A k \in JobId : SameRow(k)
      BY <2>2 DEF queue, SameRow
    <3>. QED BY <1>3, <2>1, <3>1
  <2>3. CASE CancelJob(j)
    <3>. DEFINE s == [jobs[j] EXCEPT !.status = "cancelled"]
    <3>1. /\ jobs' = [jobs EXCEPT ![j] = s] /\ s.status = "cancelled"
          /\ s.retries = jobs[j].retries /\ s.req = jobs[j].req
          /\ jobs[j].status \in {"pending", "running"}
      BY <1>0, <2>3 DEF CancelJob, Row, WithStatus, Active
    <3>. HIDE DEF s
    <3>2. /\ j \in JobId /\ \A k \in JobId \ {j} : SameJob(k)
          /\ LeaseOf(j)' = NoNode /\ AttemptOf(j)' = "none"
          /\ SpentOf(j)' = SpentOf(j) /\ LimitOf(j)' = LimitOf(j)
          /\ j \in DOMAIN jobs' /\ jobs'[j] = s
      BY <1>5, <2>1, <3>1
    <3>3. StageOf(j) \in {"queued", "leased"} /\ StageOf(j)' = "withdrawn"
      BY <3>1, <3>2 DEF StageOf
    <3>. QED BY <3>2, <3>3, OneSeen
  <2>. QED BY <2>1, <2>2, <2>3
<1>7. ASSUME NEW h \in handoff, HandOff(h[1], h[2]) PROVE LifeStep
  <2>1. UNCHANGED turn /\ \A k \in JobId : SameRow(k)
    BY <1>7 DEF HandOff, queue, SameRow
  <2>2. ASSUME NEW v \in Worker PROVE SameAttempt(v)
    <3>1. wk'[v] = wk[v] \/ wk'[v] = [wk[v] EXCEPT !.abort = "cancelled"]
      BY <1>7 DEF HandOff
    <3>2. wk[v] \in Thread
      BY <1>0
    <3>. QED BY <3>1, <3>2 DEF SameAttempt, Thread
  <2>. QED BY <2>1, <2>2, NobodyGoes
<1>8. ASSUME NEW j \in DOMAIN jobs, Requeue(j) PROVE LifeStep
  <2>. DEFINE s == Backfilled(Released(jobs[j]))
  <2>1. /\ UNCHANGED <<wk, turn>> /\ jobs' = [jobs EXCEPT ![j] = s] /\ jobs[j].status = "failed"
    BY <1>8 DEF Requeue, RequeueJob, WithStatus, pool
  <2>2. s.status = "pending" /\ s.retries = jobs[j].retries /\ s.req = jobs[j].req
    BY <1>0, ReleasedRow, BackfilledRow
  <2>. HIDE DEF s
  <2>3. /\ j \in JobId /\ \A k \in JobId \ {j} : SameJob(k)
        /\ LeaseOf(j)' = NoNode /\ AttemptOf(j)' = "none"
        /\ SpentOf(j)' = SpentOf(j) /\ LimitOf(j)' = LimitOf(j)
        /\ j \in DOMAIN jobs' /\ jobs'[j] = s
    BY <1>5, <2>1, <2>2
  <2>4. StageOf(j) = "failed" /\ StageOf(j)' = "queued"
    BY <2>1, <2>2, <2>3 DEF StageOf
  <2>. QED BY <2>3, <2>4, OneSeen
<1>9. ASSUME NEW j \in DOMAIN jobs, Delete(j) PROVE LifeStep
  <2>1. UNCHANGED <<wk, turn>> /\ jobs' = [k \in DOMAIN jobs \ {j} |-> jobs[k]] /\ j \in JobId
    BY <1>0, <1>9 DEF Delete, DeleteJobs, Keep, pool
  <2>2. \A k \in JobId \ {j} : SameJob(k)
    <3>1. \A k \in JobId \ {j} : SameRow(k)
      BY <2>1 DEF SameRow
    <3>. QED BY <1>2, <2>1, <3>1
  <2>3. j \notin DOMAIN jobs'
    BY <2>1
  <2>4. StageOf(j)' = "absent" /\ SpentOf(j)' = 0 /\ LimitOf(j)' = 0
    BY <2>3 DEF StageOf, SpentOf, LimitOf
  <2>5. StageOf(j) # "absent"
    <3>1. jobs[j].status \in {"pending", "running", "completed", "failed", "cancelled"}
      BY <1>0 DEF Row, Active, Settled
    <3>. QED BY <3>1 DEF StageOf
  <2>6. LeaseOf(j)' = NoNode /\ AttemptOf(j)' = "none"
    BY <2>1, <2>3, Ended
  <2>. QED BY <2>1, <2>2, <2>4, <2>5, <2>6, OneSeen
<1>10. ASSUME NEW j \in DOMAIN jobs, Elapse(j) PROVE LifeStep
  <2>1. UNCHANGED <<wk, turn>> /\ jobs' = [jobs EXCEPT ![j].due = TRUE]
    BY <1>10 DEF Elapse, BackoffElapses, pool
  <2>2. \A k \in JobId : SameRow(k)
    BY <1>0, <2>1 DEF SameRow, Row
  <2>. QED BY <1>3, <2>1, <2>2
<1>11. \A r \in Request : Submit(r) => nextId \in JobId
  BY DEF Submit, AddJob
<1>. QED BY <1>4, <1>6, <1>7, <1>8, <1>9, <1>10, <1>11 DEF RequestNext

\* Every step of the cluster is one of the promise, or none.
LEMMA StepSeen ==
  ASSUME LeaseInv, OneWorker, [Next]_vars
  PROVE  LifeStep
<1>0. CLInv /\ ~Spend("defer")
  BY DeferralsStayAway DEF LeaseInv
<1>1. ASSUME NEW w \in Worker, QuietLoop(w) \/ VerdictLoop(w) \/ ClaimJob(w) PROVE LifeStep
  BY <1>0, <1>1, QuietLoopSeen, VerdictSeen, ClaimSeen
<1>2. ASSUME NEW n \in Node, QuietNode(n) \/ LoudNode(n) PROVE LifeStep
  BY <1>0, <1>2, QuietNodeSeen, LoudNodeSeen
<1>3. CASE RequestNext
  BY <1>0, <1>3, RequestSeen
<1>4. CASE UNCHANGED vars
  BY <1>0, <1>4, NobodyGoes DEF vars, pool, queue, SameRow, SameAttempt
<1>. QED BY <1>1, <1>2, <1>3, <1>4, WorkerCases, NodeCases DEF Next

\* At first no job is there.
LEMMA NothingLeased == OneWorker => (Init => Lifecycle!LInit)
<1>. SUFFICES ASSUME OneWorker, Init PROVE Lifecycle!LInit
  OBVIOUS
<1>1. \A j \in JobId : j \notin DOMAIN jobs
  BY DEF Init, QInit
<1>2. Unleased
  BY NobodyLeased
<1>3. \A j \in JobId : /\ StageOf(j) = "absent" /\ LeaseOf(j) = NoNode /\ AttemptOf(j) = "none"
                       /\ SpentOf(j) = 0 /\ LimitOf(j) = 0
  BY <1>1, <1>2 DEF StageOf, SpentOf, LimitOf, Unleased
<1>. QED BY <1>3 DEF Lifecycle!LInit

\* The cluster keeps the promise of JobLifecycle, whatever the number of nodes, jobs,
\* retries and disturbances: with one worker per node and no deferral, only the attempt
\* made under the current lease settles a job, each failed attempt costs one retry, a
\* recovery costs none, and no verdict is undone but by an operator.
THEOREM PromiseIsKept ==
  ASSUME OneWorker, NoDeferral
  PROVE  Spec => KeepsPromise
<1>1. Init => LeaseInv
  <2>. SUFFICES ASSUME Init PROVE LeaseInv
    OBVIOUS
  <2>1. CLInv
    BY InitHolds
  <2>2. NeverDeferred
    BY ClusterAssumption DEF Init, ClusterAssumption, NeverDeferred, NoDeferral, Disturbance
  <2>3. LatestOnNode
    BY DEF Init, LatestOnNode, Busy, Idle
  <2>. QED BY <2>1, <2>2, <2>3 DEF LeaseInv
<1>2. LeaseInv /\ [Next]_vars => LeaseInv'
  BY StepHolds, QueueStep, StepInv, LatestStays, DeferralsStayAway DEF LeaseInv, CLInv
<1>3. LeaseInv /\ [Next]_vars => [Lifecycle!LNext]_(Lifecycle!life)
  BY StepSeen DEF LifeStep
<1>4. Init => Lifecycle!LInit
  BY NothingLeased
<1>. QED BY <1>1, <1>2, <1>3, <1>4, PTL DEF Spec, KeepsPromise, Lifecycle!LSpec

=============================================================================
