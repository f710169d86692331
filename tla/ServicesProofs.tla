--------------------------- MODULE ServicesProofs ---------------------------
(***************************************************************************)
(* NoWakeUpLost and OneMoreAtMost for any number of workers.  The argument *)
(* for the first: a job that waits is on somebody's mind.  Its insertion   *)
(* owes a notification, the notification sets an event, the event wakes a  *)
(* worker, which clears it before it looks, and a worker that claims goes  *)
(* back to the queue after its conversion.  For the second: a worker that  *)
(* is past a closed gate has claimed nothing since it was closed.          *)
(*                                                                         *)
(* CommandsTakeEffect for any number of nodes and commands: a command that *)
(* is being executed is in exactly one thread's hands or was cut short, and *)
(* a node follows the command in its hands, its events first and then its  *)
(* row.  ScannedOnce for any tree, configuration and number of reloads: a  *)
(* file for which a job was added is recorded, or the one scan under way   *)
(* will record it.                                                         *)
(*                                                                         *)
(* The readers of sma-ng.yml, for any files, threads, reloads and edits:   *)
(* what a thread may still store in the converter cache is what the        *)
(* configuration in force gives, or a load has taken the cache from it;    *)
(* what a thread that no load overlapped and a run that no edit overtook   *)
(* have in hand are of the same layers; what is on disk while a load works *)
(* is what it read.  Of the layers, what each validator leaves of each     *)
(* option, and so what a profile over the base gives.                      *)
(***************************************************************************)
EXTENDS Membership, WorkerWake, Background, ConfigReaders, NumberFacts

\* Arrivals are bounded, and nothing waits or is notified that did not arrive.
Counted == arrived \in 0 .. Arrivals /\ posted <= arrived /\ backlog <= arrived

\* A worker that has yet to look at the queue.
Bound(w) == wpc[w] \in {"woken", "gate", "claiming", "claimed", "told", "busy"}

\* Unless a look was missed, no thread has died, and while a job waits a notification
\* is owed, an event is set, or a worker is on its way.
OnSomeonesMind ==
  ~ missed =>
    /\ \A w \in Pool : wpc[w] # "dead"
    /\ backlog > 0 => posted > 0 \/ \E w \in Pool : event[w] \/ Bound(w)

\* While a gate is closed, a worker that has passed it has claimed nothing since.
PastTheGate ==
  gates # {} =>
    \A w \in Pool : lateClaims[w] <= 1 /\ (wpc[w] = "claiming" => lateClaims[w] = 0)

WakeInv == WakeTypeOK /\ Counted /\ OnSomeonesMind /\ PastTheGate

-----------------------------------------------------------------------------
\* Some idle worker is the first from the cursor on: notify_one wakes a worker.
LEMMA WokenInPool ==
  ASSUME WakeTypeOK
  PROVE  Woken \in Pool /\ (Woken + 1) % PoolSize \in Pool
<1>. DEFINE idle == {w \in Pool : LooksIdle(w)}
<1>1. PoolSize \in Nat \ {0} /\ cursor \in Pool
  BY WakeAssumption DEF WakeTypeOK
<1>2. \A w \in Pool : Offset(w) \in Nat
  BY <1>1 DEF Pool, Offset
<1>3. ASSUME idle # {} PROVE \E w \in idle : \A v \in idle : Offset(w) <= Offset(v)
  <2>. DEFINE S == {Offset(w) : w \in idle}
  <2>1. S \in SUBSET Nat /\ S # {}
    BY <1>2, <1>3
  <2>. HIDE DEF S
  <2>2. PICK m \in S : \A k \in S : m <= k
    BY <2>1, LeastNumber
  <2>. QED BY <2>2 DEF S
<1>4. Woken \in Pool
  BY <1>1, <1>3 DEF Woken
<1>5. \A w \in Pool : (w + 1) % PoolSize \in Pool
  BY <1>1 DEF Pool
<1>. QED BY <1>4, <1>5

-----------------------------------------------------------------------------
LEMMA InitWakeInv == WakeInit => WakeInv
<1>. SUFFICES ASSUME WakeInit PROVE WakeInv
  OBVIOUS
<1>. USE WakeAssumption DEF WakeInit
<1>0. 0 \in Pool
  BY DEF Pool
<1>1. WakeTypeOK
  <2>1. event \in [Pool -> BOOLEAN] /\ resuming \in BOOLEAN /\ missed \in BOOLEAN
    OBVIOUS
  <2>2. /\ lateClaims \in [Pool -> 0 .. Arrivals] /\ backlog \in 0 .. MaxBacklog
        /\ posted \in 0 .. Arrivals
    OBVIOUS
  <2>. QED BY <1>0, <2>1, <2>2 DEF WakeTypeOK
<1>2. Counted
  BY DEF Counted
<1>3. OnSomeonesMind /\ PastTheGate
  BY DEF OnSomeonesMind, PastTheGate
<1>. QED BY <1>1, <1>2, <1>3 DEF WakeInv

LEMMA ThreadKeepsInv ==
  ASSUME WakeInv, NEW w \in Pool, Thread(w)
  PROVE  WakeInv'
<1>. USE WakeAssumption DEF WakeInv, WakeTypeOK, Counted, OnSomeonesMind, PastTheGate, Bound, Step
<1>1. CASE WakeUp(w)
  BY <1>1 DEF WakeUp, Signalled, TimedOut
<1>2. CASE ClearEvent(w)
  BY <1>2 DEF ClearEvent
<1>3. CASE PassGate(w)
  BY <1>3 DEF PassGate, Gate
<1>4. CASE ClaimOne(w)
  BY <1>4 DEF ClaimOne
<1>5. CASE WaitAgain(w)
  BY <1>5 DEF WaitAgain, EventOnMiss
<1>6. CASE ChainWake(w)
  BY <1>6, WokenInPool DEF ChainWake, NotifyOne
<1>7. CASE Process(w)
  BY <1>7 DEF Process
<1>. QED BY <1>1, <1>2, <1>3, <1>4, <1>5, <1>6, <1>7 DEF Thread

LEMMA StepKeepsInv ==
  ASSUME WakeInv, [WakeNext]_wakeVars
  PROVE  WakeInv'
<1>. USE WakeAssumption DEF WakeInv, WakeTypeOK, Counted, OnSomeonesMind, PastTheGate, Bound, Step
<1>1. CASE Arrive
  BY <1>1 DEF Arrive
<1>2. CASE Notify
  BY <1>2, WokenInPool DEF Notify, NotifyOne
<1>3. CASE TakenElsewhere
  BY <1>3 DEF TakenElsewhere
<1>4. CASE \E w \in Pool : Thread(w)
  BY <1>4, ThreadKeepsInv
<1>5. ASSUME NEW w \in Pool, ClaimRaises(w) PROVE WakeInv'
  BY <1>5 DEF ClaimRaises
<1>6. ASSUME NEW w \in Pool, Die(w) PROVE WakeInv'
  BY <1>6 DEF Die
<1>7. ASSUME NEW w \in Pool, Respawn(w) PROVE WakeInv'
  BY <1>7 DEF Respawn
<1>8. ASSUME NEW g \in {"drain", "pause"}, CloseGate(g) PROVE WakeInv'
  BY <1>8 DEF CloseGate
<1>9. CASE ClearPaused
  <2>1. Pool # {}
    BY DEF Pool
  <2>. QED BY <1>9, <2>1 DEF ClearPaused
<1>10. CASE ClearDrain
  BY <1>10 DEF ClearDrain
<1>11. CASE UNCHANGED wakeVars
  BY <1>11 DEF wakeVars
<1>. QED
  BY <1>1, <1>2, <1>3, <1>4, <1>5, <1>6, <1>7, <1>8, <1>9, <1>10, <1>11 DEF WakeNext

-----------------------------------------------------------------------------
\* The inductive invariant of the wake-ups of one node's workers: whose mind a waiting
\* job is on, and who is past a gate that is closed (WorkerPool, Worker._run_once).
THEOREM WakeInvariance == WakeSpec => []WakeInv
<1>1. WakeInit => WakeInv
  BY InitWakeInv
<1>2. WakeInv /\ [WakeNext]_wakeVars => WakeInv'
  BY StepKeepsInv
<1>. QED BY <1>1, <1>2, PTL DEF WakeSpec

\* A wake-up is never lost, however many workers a node has: when all of them sleep and
\* no event is set no job waits, unless a look was missed (notify_one, job_event).
THEOREM WakeUpsArrive == WakeSpec => []NoWakeUpLost
<1>1. WakeInv => NoWakeUpLost
  <2>. SUFFICES ASSUME WakeInv, Quiet, ~ missed, \A w \in Pool : wpc[w] = "waiting"
                PROVE  backlog = 0
    BY DEF NoWakeUpLost
  <2>1. \A w \in Pool : ~ event[w] /\ ~ Bound(w)
    BY DEF Quiet, Bound
  <2>. QED BY <2>1 DEF WakeInv, WakeTypeOK, OnSomeonesMind, Quiet
<1>. QED BY <1>1, WakeInvariance, PTL

\* After a drain or a pause no worker claims more than one job (the gates of _run_once
\* are looked at between two jobs).
THEOREM GatesHold == WakeSpec => []OneMoreAtMost
<1>1. WakeInv => OneMoreAtMost
  BY DEF WakeInv, PastTheGate, OneMoreAtMost
<1>. QED BY <1>1, WakeInvariance, PTL

-----------------------------------------------------------------------------
(* Membership: what was commanded last is what memory and the row both say.   *)

\* The thread of node m and its command: the command in hand was polled, and it is being
\* executed unless the expiry dropped it.
CommandInHand ==
  \A m \in Member : beat[m].cmd # 0 => cmds[beat[m].cmd].status \in {"executing", "deleted"}

\* The commands that are being executed are in hand or were cut short.
ExecutedByOne ==
  \A c \in CmdId :
    cmds[c].status = "executing" =>
      c \in lostCmds \/ \E m \in Member : cmds[c].to = m /\ beat[m].cmd = c

\* Commands are numbered in the order they are sent.
SentInOrder ==
  /\ \A c, d \in CmdId : c < d /\ cmds[d].status # "none" => cmds[c].status # "none"
  /\ \A c \in CmdId : cmds[c].status # "none" => cmds[c].order \in Order
  /\ \A c \in CmdId : cmds[c].status = "none" => cmds[c].to = NoMember

Held(m) == entry[m].status \in {"draining", "paused"}

\* What the events of node m are when its thread is done with the command.
FlagsSet(m) ==
  /\ OrderOf(m) \in {"drain", "pause"} => flags[m] # {}
  /\ OrderOf(m) = "resume" => flags[m] = {}

\* A daemon that did not stray has a row from its first beat on, and between two
\* commands its events are those of the row's status.
NotStrayed(m) ==
  /\ running[m] = "down" => ~ Held(m)
  /\ Up(m) /\ beat[m].pc # "beat" => Listed(m)
  /\ Between(m) => (Held(m) <=> flags[m] # {})
  /\ Up(m) /\ beat[m].pc = "ack" =>
       /\ OrderOf(m) \in {"drain", "pause"} => Held(m)
       /\ OrderOf(m) = "resume" => ~ Held(m)

\* During a command the events come first and the row follows.
NodeFollows(m) ==
  /\ running[m] = "down" => flags[m] = {}
  /\ ~ Up(m) => beat[m].pc = "beat"
  /\ beat[m].pc \in {"write", "ack"} => FlagsSet(m)
  /\ m \notin strayed => NotStrayed(m)

FlagsFollow == \A m \in Member : NodeFollows(m)

MemberInv ==
  /\ MemberTypeOK /\ CommandInHand /\ ExecutedByOne /\ SentInOrder /\ FlagsFollow
  /\ CommandsInOrder

-----------------------------------------------------------------------------
EntryRow == [status : {"absent", "online", "offline", "draining", "paused", "restarting"},
             approval : {"none", "pending", "approved", "rejected"},
             age : {"fresh", "stale", "aged"}]

CmdRow == [to : Member \cup {NoMember}, order : Order \cup {"none"},
           status : {"none", "pending", "executing", "done", "failed", "deleted"}]

BeatRow == [pc : {"beat", "poll", "flag", "write", "ack", "recover", "expire", "orphans",
                  "delete"},
            cmd : CmdId \cup {0}, expired : SUBSET Member]

\* What a step may do to the table of commands: a free one is sent, one that was sent
\* keeps its node and its order.
CommandKept(c) ==
  /\ cmds'[c] \in CmdRow
  /\ cmds[c].status # "none" => /\ cmds'[c].to = cmds[c].to /\ cmds'[c].order = cmds[c].order
                                /\ cmds'[c].status # "none"
  /\ cmds[c].status = "none" => \/ cmds'[c] = cmds[c]
                                \/ cmds'[c].status = "pending" /\ cmds'[c].order \in Order

\* Commands are numbered from 1; 0 stands for none.
LEMMA CmdNumbers == CmdId \subseteq Nat /\ 0 \notin CmdId
  BY MemberAssumption DEF CmdId

\* The table of commands keeps its type, and each row its node and its order.
LEMMA CommandsKept ==
  ASSUME MemberInv, [MemberNext]_memberVars
  PROVE  cmds' \in [CmdId -> CmdRow] /\ \A c \in CmdId : CommandKept(c)
<1>. USE DEF MemberInv, MemberTypeOK
<1>0. cmds \in [CmdId -> CmdRow] /\ beat \in [Member -> BeatRow]
  BY DEF CmdRow, BeatRow
<1>1. CASE UNCHANGED cmds
  BY <1>0, <1>1 DEF CommandKept
<1>2. ASSUME NEW c \in CmdId, NEW s \in {"executing", "done", "failed"},
             cmds[c].status # "none",
             \/ cmds' = [cmds EXCEPT ![c].status = s]
             \/ cmds' = [cmds EXCEPT ![c].status = IF @ = "deleted" THEN @ ELSE s]
      PROVE  cmds' \in [CmdId -> CmdRow] /\ \A d \in CmdId : CommandKept(d)
  <2>1. PICK u \in {"executing", "done", "failed", "deleted"} :
          cmds' = [cmds EXCEPT ![c].status = u]
    BY <1>0, <1>2
  <2>2. [cmds[c] EXCEPT !.status = u] \in CmdRow
    <3>1. cmds[c] \in CmdRow
      BY <1>0
    <3>. QED BY <3>1 DEF CmdRow
  <2>3. cmds' \in [CmdId -> CmdRow] /\ cmds'[c] = [cmds[c] EXCEPT !.status = u]
        /\ \A d \in CmdId : d # c => cmds'[d] = cmds[d]
    BY <1>0, <2>1, <2>2
  <2>4. CommandKept(c)
    BY <1>0, <1>2, <2>2, <2>3 DEF CommandKept, CmdRow
  <2>. QED BY <1>0, <2>3, <2>4 DEF CommandKept
<1>3. ASSUME NEW m \in Member, PollCommand(m)
      PROVE  cmds' \in [CmdId -> CmdRow] /\ \A d \in CmdId : CommandKept(d)
  <2>1. CASE NextCommand(m) = {}
    BY <1>1, <1>3, <2>1 DEF PollCommand
  <2>2. CASE NextCommand(m) # {}
    <3>. DEFINE c == CHOOSE x \in NextCommand(m) : TRUE
    <3>1. c \in CmdId /\ cmds[c].status = "pending"
      BY <2>2 DEF NextCommand
    <3>2. cmds' = [cmds EXCEPT ![c].status = "executing"]
      BY <1>3, <2>2 DEF PollCommand
    <3>. HIDE DEF c
    <3>. QED BY <1>2, <3>1, <3>2
  <2>. QED BY <2>1, <2>2
<1>4. ASSUME NEW m \in Member, Acknowledge(m) \/ CommandFails(m)
      PROVE  cmds' \in [CmdId -> CmdRow] /\ \A d \in CmdId : CommandKept(d)
  <2>1. beat[m].cmd \in CmdId /\ cmds[beat[m].cmd].status # "none"
    BY <1>0, <1>4 DEF Acknowledge, CommandFails, BeatAt, BeatRow, CommandInHand
  <2>2. \/ cmds' = [cmds EXCEPT ![beat[m].cmd].status = IF @ = "deleted" THEN @ ELSE "done"]
        \/ cmds' = [cmds EXCEPT ![beat[m].cmd].status = IF @ = "deleted" THEN @ ELSE "failed"]
        \/ cmds' = cmds
    BY <1>4 DEF Acknowledge, CommandFails, Answer
  <2>. QED BY <1>1, <1>2, <2>1, <2>2
<1>5. ASSUME NEW m \in Member, DropCommands(m)
      PROVE  cmds' \in [CmdId -> CmdRow] /\ \A d \in CmdId : CommandKept(d)
  <2>1. ASSUME NEW d \in CmdId PROVE CommandKept(d)
    <3>1. cmds'[d] = IF cmds[d].to \in beat[m].expired
                     THEN [cmds[d] EXCEPT !.status = "deleted"] ELSE cmds[d]
      BY <1>5 DEF DropCommands
    <3>2. cmds[d].status = "none" => cmds[d].to \notin beat[m].expired
      BY <1>0, MemberAssumption DEF SentInOrder, BeatRow
    <3>3. cmds[d] \in CmdRow
      BY <1>0
    <3>6. [cmds[d] EXCEPT !.status = "deleted"] \in CmdRow
      BY <3>3 DEF CmdRow
    <3>4. CASE cmds[d].to \in beat[m].expired
      BY <3>1, <3>2, <3>3, <3>4, <3>6 DEF CommandKept, CmdRow
    <3>5. CASE cmds[d].to \notin beat[m].expired
      BY <3>1, <3>3, <3>5 DEF CommandKept
    <3>. QED BY <3>4, <3>5
  <2>. QED BY <1>5, <2>1 DEF DropCommands, CommandKept
<1>6. ASSUME NEW m \in Member, NEW o \in Issued, SendCommand(m, o)
      PROVE  cmds' \in [CmdId -> CmdRow] /\ \A d \in CmdId : CommandKept(d)
  <2>. DEFINE c == CHOOSE x \in Free : \A y \in Free : x <= y
  <2>1. \E x \in Free : \A y \in Free : x <= y
    BY <1>6, CmdNumbers, LeastNumber DEF SendCommand, Free
  <2>2. c \in CmdId /\ cmds[c].status = "none"
    BY <2>1 DEF Free
  <2>3. cmds' = [cmds EXCEPT ![c] = [to |-> m, order |-> o, status |-> "pending"]]
    BY <1>6 DEF SendCommand
  <2>. HIDE DEF c
  <2>4. [to |-> m, order |-> o, status |-> "pending"] \in CmdRow
    BY MemberAssumption DEF CmdRow, Order
  <2>. QED BY <1>0, <2>2, <2>3, <2>4, MemberAssumption DEF CommandKept, Order
<1>7. ASSUME NEW o \in Issued, Broadcast(o)
      PROVE  cmds' \in [CmdId -> CmdRow] /\ \A d \in CmdId : CommandKept(d)
  <2>. DEFINE to == {m \in Member : entry[m].status = "online"}
  <2>1. PICK give \in [to -> Free] :
          cmds' = [c \in CmdId |->
            IF \E m \in to : give[m] = c
            THEN [to |-> CHOOSE m \in to : give[m] = c, order |-> o, status |-> "pending"]
            ELSE cmds[c]]
    BY <1>7 DEF Broadcast
  <2>2. ASSUME NEW d \in CmdId PROVE CommandKept(d)
    <3>1. CASE \E m \in to : give[m] = d
      <4>1. cmds[d].status = "none"
        BY <2>1, <3>1 DEF Free
      <4>2. (CHOOSE m \in to : give[m] = d) \in Member
        BY <3>1
      <4>3. cmds'[d] = [to |-> CHOOSE m \in to : give[m] = d, order |-> o, status |-> "pending"]
        BY <2>1, <3>1
      <4>. QED BY <4>1, <4>2, <4>3, MemberAssumption DEF CommandKept, CmdRow, Order
    <3>2. CASE ~ \E m \in to : give[m] = d
      BY <1>0, <2>1, <3>2 DEF CommandKept
    <3>. QED BY <3>1, <3>2
  <2>. QED BY <2>1, <2>2 DEF CommandKept
<1>. QED
  BY <1>1, <1>3, <1>4, <1>5, <1>6, <1>7, MemberAssumption
     DEF MemberNext, Loop, Admin, Beat, SetFlags, MarkNode, Recover, SkipMaintenance, SelectExpired,
         DeleteExpired, Stopped, StopDaemon, CrashDaemon, StartDaemon, GrowOld, SetApproval,
         DeleteNode, DeleteOfflineNodes, RemoveRows, memberVars

\* The rows of the registry, the events and the processes keep their types.
LEMMA RegistryTyped ==
  ASSUME MemberInv, [MemberNext]_memberVars
  PROVE  /\ entry' \in [Member -> EntryRow]
         /\ flags' \in [Member -> SUBSET {"drain", "pause"}]
         /\ running' \in [Member -> {"up", "restart", "shutdown", "down"}]
<1>. USE DEF MemberInv
<1>0. /\ entry \in [Member -> EntryRow]
      /\ flags \in [Member -> SUBSET {"drain", "pause"}]
      /\ running \in [Member -> {"up", "restart", "shutdown", "down"}]
      /\ Gone \in EntryRow
  BY DEF MemberTypeOK, EntryRow, Gone
<1>1. ASSUME NEW m \in Member,
             \/ Beat(m) \/ PollCommand(m) \/ SetFlags(m) \/ Recover(m) \/ SkipMaintenance(m)
             \/ SelectExpired(m) \/ DropCommands(m) \/ DeleteExpired(m) \/ CommandFails(m)
             \/ StopDaemon(m) \/ CrashDaemon(m) \/ StartDaemon(m)
      PROVE  /\ running' \in [Member -> {"up", "restart", "shutdown", "down"}]
             /\ flags' \in [Member -> SUBSET {"drain", "pause"}]
  BY <1>0, <1>1 DEF Beat, PollCommand, SetFlags, Recover, SkipMaintenance, SelectExpired, DropCommands,
                    DeleteExpired, CommandFails, StopDaemon, CrashDaemon, StartDaemon
<1>2. ASSUME NEW m \in Member, MarkNode(m) \/ Acknowledge(m) \/ Stopped(m) \/ GrowOld(m)
      PROVE  /\ running' \in [Member -> {"up", "restart", "shutdown", "down"}]
             /\ flags' \in [Member -> SUBSET {"drain", "pause"}]
  BY <1>0, <1>2 DEF MarkNode, Acknowledge, Stopped, GrowOld
<1>3. ASSUME Admin
      PROVE  /\ running' \in [Member -> {"up", "restart", "shutdown", "down"}]
             /\ flags' \in [Member -> SUBSET {"drain", "pause"}]
  BY <1>0, <1>3 DEF Admin, SendCommand, Broadcast, SetApproval, DeleteNode, DeleteOfflineNodes, RemoveRows
<1>4. ASSUME NEW m \in Member, Beat(m) PROVE entry' \in [Member -> EntryRow]
  <2>1. Beaten(entry[m]) \in EntryRow
    BY <1>0 DEF Beaten, EntryRow
  <2>. QED BY <1>0, <1>4, <2>1 DEF Beat
<1>5. ASSUME NEW m \in Member, MarkNode(m) PROVE entry' \in [Member -> EntryRow]
  <2>1. OrderOf(m) \in Order
    BY <1>5 DEF MarkNode, BeatAt, MemberTypeOK, CommandInHand, SentInOrder, OrderOf
  <2>2. StatusFor[OrderOf(m)] \in {"online", "offline", "draining", "paused", "restarting"}
    BY <2>1 DEF Order, StatusFor
  <2>3. [entry[m] EXCEPT !.status = StatusFor[OrderOf(m)]] \in EntryRow
        /\ [entry[m] EXCEPT !.status = @] \in EntryRow
    BY <1>0, <2>2 DEF EntryRow
  <2>. QED BY <1>0, <1>5, <2>3 DEF MarkNode
<1>6. ASSUME NEW m \in Member, Recover(m) PROVE entry' \in [Member -> EntryRow]
  <2>1. \A n \in Member : [entry[n] EXCEPT !.status = "offline"] \in EntryRow
    BY <1>0 DEF EntryRow
  <2>. QED BY <1>0, <1>6, <2>1 DEF Recover
<1>7. ASSUME NEW m \in Member, DeleteExpired(m) PROVE entry' \in [Member -> EntryRow]
  BY <1>0, <1>7 DEF DeleteExpired
<1>8. ASSUME NEW m \in Member, Stopped(m) PROVE entry' \in [Member -> EntryRow]
  <2>1. [entry[m] EXCEPT !.status = "offline"] \in EntryRow
        /\ [entry[m] EXCEPT !.status = @] \in EntryRow
    BY <1>0 DEF EntryRow
  <2>. QED BY <1>0, <1>8, <2>1 DEF Stopped
<1>9. ASSUME NEW m \in Member, GrowOld(m) PROVE entry' \in [Member -> EntryRow]
  <2>1. [entry[m] EXCEPT !.age = "stale"] \in EntryRow /\ [entry[m] EXCEPT !.age = "aged"] \in EntryRow
    BY <1>0 DEF EntryRow
  <2>. QED BY <1>0, <1>9, <2>1 DEF GrowOld
<1>10. ASSUME NEW m \in Member, NEW v \in {"approved", "rejected"}, SetApproval(m, v)
       PROVE  entry' \in [Member -> EntryRow]
  <2>1. [entry[m] EXCEPT !.approval = v] \in EntryRow
    BY <1>0 DEF EntryRow
  <2>. QED BY <1>0, <1>10, <2>1 DEF SetApproval
<1>11. CASE (\E m \in Member : DeleteNode(m)) \/ DeleteOfflineNodes
  BY <1>0, <1>11 DEF DeleteNode, DeleteOfflineNodes, RemoveRows
<1>12. CASE UNCHANGED memberVars
  BY <1>0, <1>12 DEF memberVars
<1>13. ASSUME UNCHANGED entry PROVE entry' \in [Member -> EntryRow]
  BY <1>0, <1>13
<1>14. /\ running' \in [Member -> {"up", "restart", "shutdown", "down"}]
       /\ flags' \in [Member -> SUBSET {"drain", "pause"}]
  BY <1>1, <1>2, <1>3, <1>12, <1>0 DEF MemberNext, Loop, memberVars
<1>15. entry' \in [Member -> EntryRow]
  BY <1>4, <1>5, <1>6, <1>7, <1>8, <1>9, <1>10, <1>11, <1>12, <1>13
     DEF MemberNext, Loop, Admin, PollCommand, SetFlags, Acknowledge, SkipMaintenance, SelectExpired,
         DropCommands, CommandFails, StopDaemon, CrashDaemon, StartDaemon, SendCommand, Broadcast
<1>. QED BY <1>14, <1>15

\* A thread's row for the commands: of its type, and holding a command of this node exactly
\* between the poll and the acknowledgement.
ThreadRow(m) ==
  /\ beat[m] \in BeatRow
  /\ beat[m].cmd # 0 <=> beat[m].pc \in {"flag", "write", "ack"}
  /\ beat[m].cmd # 0 => /\ cmds[beat[m].cmd].to = m
                        /\ cmds[beat[m].cmd].status \in {"executing", "deleted"}

\* The command in the hands of a node is not touched by what the others do.
LEMMA InHandKept ==
  ASSUME MemberInv, [MemberNext]_memberVars, NEW n \in Member, beat'[n] = beat[n], beat[n].cmd # 0
  PROVE  cmds'[beat[n].cmd].status \in {"executing", "deleted"}
<1>. USE DEF MemberInv, MemberTypeOK
<1>. DEFINE c == beat[n].cmd
<1>0. /\ cmds \in [CmdId -> CmdRow] /\ beat \in [Member -> BeatRow]
      /\ c \in CmdId /\ cmds[c].to = n /\ cmds[c].status \in {"executing", "deleted"}
      /\ beat[n].pc \in {"flag", "write", "ack"}
  BY DEF CmdRow, BeatRow, CommandInHand
<1>1. CASE cmds'[c] = cmds[c]
  BY <1>0, <1>1
<1>. HIDE DEF c
<1>2. ASSUME NEW m \in Member, PollCommand(m) PROVE cmds'[c] = cmds[c]
  <2>. DEFINE d == CHOOSE x \in NextCommand(m) : TRUE
  <2>1. CASE NextCommand(m) = {}
    BY <1>2, <2>1 DEF PollCommand
  <2>2. CASE NextCommand(m) # {}
    <3>1. d \in CmdId /\ cmds[d].status = "pending"
      BY <2>2 DEF NextCommand
    <3>2. cmds' = [cmds EXCEPT ![d].status = "executing"]
      BY <1>2, <2>2 DEF PollCommand
    <3>. HIDE DEF d
    <3>. QED BY <1>0, <3>1, <3>2
  <2>. QED BY <2>1, <2>2
<1>3. ASSUME NEW m \in Member, Acknowledge(m) \/ CommandFails(m) PROVE cmds'[c] = cmds[c]
  <2>1. m # n
    <3>1. beat'[m].cmd = 0
      BY <1>3 DEF Acknowledge, CommandFails, Resting, BeatAt, BeatRow
    <3>. QED BY <1>0, <3>1, CmdNumbers
  <2>2. beat[m].cmd \in CmdId /\ cmds[beat[m].cmd].to = m
    BY <1>0, <1>3 DEF Acknowledge, CommandFails, BeatAt, BeatRow
  <2>3. beat[m].cmd # c
    BY <1>0, <2>1, <2>2
  <2>. QED BY <1>0, <1>3, <2>2, <2>3 DEF Acknowledge, CommandFails, Answer
<1>4. ASSUME NEW m \in Member, DropCommands(m)
      PROVE  cmds'[c].status \in {"executing", "deleted"}
  <2>1. cmds'[c] = IF cmds[c].to \in beat[m].expired
                   THEN [cmds[c] EXCEPT !.status = "deleted"] ELSE cmds[c]
    BY <1>0, <1>4 DEF DropCommands
  <2>. QED BY <1>0, <2>1 DEF CmdRow
<1>5. ASSUME NEW m \in Member, NEW o \in Issued, SendCommand(m, o) PROVE cmds'[c] = cmds[c]
  <2>. DEFINE d == CHOOSE x \in Free : \A y \in Free : x <= y
  <2>1. \E x \in Free : \A y \in Free : x <= y
    BY <1>5, CmdNumbers, LeastNumber DEF SendCommand, Free
  <2>2. d \in CmdId /\ cmds[d].status = "none"
    BY <2>1 DEF Free
  <2>3. cmds' = [cmds EXCEPT ![d] = [to |-> m, order |-> o, status |-> "pending"]]
    BY <1>5 DEF SendCommand
  <2>. HIDE DEF d
  <2>. QED BY <1>0, <2>2, <2>3
<1>6. ASSUME NEW o \in Issued, Broadcast(o) PROVE cmds'[c] = cmds[c]
  <2>1. c \notin Free
    BY <1>0 DEF Free
  <2>. QED BY <1>0, <1>6, <2>1 DEF Broadcast
<1>7. CASE UNCHANGED cmds
  BY <1>0, <1>7 DEF c
<1>. QED
  BY <1>1, <1>2, <1>3, <1>4, <1>5, <1>6, <1>7, MemberAssumption
     DEF c, MemberNext, Loop, Admin, Beat, SetFlags, MarkNode, Recover, SkipMaintenance, SelectExpired,
         DeleteExpired, Stopped, StopDaemon, CrashDaemon, StartDaemon, GrowOld, SetApproval,
         DeleteNode, DeleteOfflineNodes, RemoveRows, memberVars

\* Every heartbeat thread keeps its row.
LEMMA ThreadsTyped ==
  ASSUME MemberInv, [MemberNext]_memberVars
  PROVE  beat' \in [Member -> BeatRow] /\ \A n \in Member : ThreadRow(n)'
<1>. USE DEF MemberInv, MemberTypeOK
<1>0. /\ cmds \in [CmdId -> CmdRow] /\ beat \in [Member -> BeatRow]
      /\ \A n \in Member : ThreadRow(n)
  BY DEF CmdRow, BeatRow, CommandInHand, ThreadRow
\* A thread that did not move still has its row.
<1>1. ASSUME NEW n \in Member, beat'[n] = beat[n] PROVE ThreadRow(n)'
  <2>1. CASE beat[n].cmd = 0
    BY <1>0, <1>1, <2>1 DEF ThreadRow
  <2>2. CASE beat[n].cmd # 0
    <3>1. beat[n].cmd \in CmdId /\ cmds[beat[n].cmd].status # "none"
      BY <1>0, <2>2 DEF ThreadRow, BeatRow
    <3>2. cmds'[beat[n].cmd].to = cmds[beat[n].cmd].to
      BY <3>1, CommandsKept DEF CommandKept
    <3>3. cmds'[beat[n].cmd].status \in {"executing", "deleted"}
      BY <1>1, <2>2, InHandKept
    <3>. QED BY <1>0, <1>1, <2>2, <3>2, <3>3 DEF ThreadRow
  <2>. QED BY <2>1, <2>2
\* One that moved without taking a command.
<1>2. ASSUME NEW m \in Member, NEW r, r \in BeatRow, beat' = [beat EXCEPT ![m] = r],
             \/ r.cmd = 0 /\ r.pc \notin {"flag", "write", "ack"}
             \/ /\ r.cmd = beat[m].cmd /\ cmds' = cmds
                /\ beat[m].pc \in {"flag", "write", "ack"} /\ r.pc \in {"flag", "write", "ack"}
      PROVE  beat' \in [Member -> BeatRow] /\ \A n \in Member : ThreadRow(n)'
  <2>1. beat' \in [Member -> BeatRow] /\ beat'[m] = r /\ \A n \in Member : n # m => beat'[n] = beat[n]
    BY <1>0, <1>2
  <2>2. ThreadRow(m)'
    BY <1>0, <1>2, <2>1 DEF ThreadRow
  <2>. QED BY <1>1, <2>1, <2>2
<1>3. ASSUME NEW m \in Member, Beat(m) \/ Recover(m) \/ SkipMaintenance(m) \/ DropCommands(m)
      PROVE  beat' \in [Member -> BeatRow] /\ \A n \in Member : ThreadRow(n)'
  <2>1. PICK pc \in {"poll", "expire", "beat", "delete"} : beat' = [beat EXCEPT ![m].pc = pc]
    BY <1>3 DEF Beat, Recover, SkipMaintenance, DropCommands, BeatGoto
  <2>2. beat[m].cmd = 0 /\ beat[m] \in BeatRow
    BY <1>0, <1>3 DEF Beat, Recover, SkipMaintenance, DropCommands, BeatAt, ThreadRow
  <2>. DEFINE r == [beat[m] EXCEPT !.pc = pc]
  <2>3. r \in BeatRow /\ r.cmd = 0 /\ r.pc = pc
    BY <2>2 DEF BeatRow
  <2>4. beat' = [beat EXCEPT ![m] = r]
    BY <2>1
  <2>. HIDE DEF r
  <2>. QED BY <1>2, <2>3, <2>4
<1>4. ASSUME NEW m \in Member, SetFlags(m) \/ MarkNode(m)
      PROVE  beat' \in [Member -> BeatRow] /\ \A n \in Member : ThreadRow(n)'
  <2>1. PICK pc \in {"write", "ack"} : beat' = [beat EXCEPT ![m].pc = pc]
    BY <1>4 DEF SetFlags, MarkNode, BeatGoto
  <2>2. beat[m].pc \in {"flag", "write"} /\ beat[m] \in BeatRow /\ cmds' = cmds
    BY <1>0, <1>4 DEF SetFlags, MarkNode, BeatAt, ThreadRow
  <2>. DEFINE r == [beat[m] EXCEPT !.pc = pc]
  <2>3. r \in BeatRow /\ r.cmd = beat[m].cmd /\ r.pc = pc
    BY <2>2 DEF BeatRow
  <2>4. beat' = [beat EXCEPT ![m] = r]
    BY <2>1
  <2>. HIDE DEF r
  <2>. QED BY <1>2, <2>2, <2>3, <2>4
<1>5. ASSUME NEW m \in Member, PollCommand(m)
      PROVE  beat' \in [Member -> BeatRow] /\ \A n \in Member : ThreadRow(n)'
  <2>1. beat[m].cmd = 0 /\ beat[m] \in BeatRow
    BY <1>0, <1>5 DEF PollCommand, BeatAt, ThreadRow
  <2>2. CASE NextCommand(m) = {}
    <3>. DEFINE r == [beat[m] EXCEPT !.pc = "recover"]
    <3>1. r \in BeatRow /\ r.cmd = 0 /\ r.pc = "recover"
      BY <2>1 DEF BeatRow
    <3>2. beat' = [beat EXCEPT ![m] = r]
      BY <1>5, <2>2 DEF PollCommand, BeatGoto
    <3>. HIDE DEF r
    <3>. QED BY <1>2, <3>1, <3>2
  <2>3. CASE NextCommand(m) # {}
    <3>. DEFINE c == CHOOSE x \in NextCommand(m) : TRUE
    <3>1. c \in CmdId /\ cmds[c].status = "pending" /\ cmds[c].to = m
      BY <2>3 DEF NextCommand
    <3>2. /\ cmds' = [cmds EXCEPT ![c].status = "executing"]
          /\ beat' = [beat EXCEPT ![m].pc = "flag", ![m].cmd = c]
      BY <1>5, <2>3 DEF PollCommand
    <3>. HIDE DEF c
    <3>3. /\ [beat[m] EXCEPT !.pc = "flag", !.cmd = c] \in BeatRow
          /\ [beat[m] EXCEPT !.pc = "flag", !.cmd = c].pc = "flag"
          /\ [beat[m] EXCEPT !.pc = "flag", !.cmd = c].cmd = c
      BY <2>1, <3>1 DEF BeatRow
    <3>4. /\ beat' \in [Member -> BeatRow]
          /\ beat'[m] = [beat[m] EXCEPT !.pc = "flag", !.cmd = c]
          /\ \A n \in Member : n # m => beat'[n] = beat[n]
      BY <1>0, <3>2, <3>3
    <3>5. cmds'[c].to = m /\ cmds'[c].status = "executing"
      BY <1>0, <3>1, <3>2 DEF CmdRow
    <3>6. ThreadRow(m)'
      BY <3>1, <3>3, <3>4, <3>5, CmdNumbers DEF ThreadRow
    <3>. QED BY <1>1, <3>4, <3>6
  <2>. QED BY <2>2, <2>3
<1>6. ASSUME NEW m \in Member, Acknowledge(m) \/ CommandFails(m)
      PROVE  beat' \in [Member -> BeatRow] /\ \A n \in Member : ThreadRow(n)'
  <2>1. beat[m] \in BeatRow /\ Resting \in BeatRow /\ Resting.cmd = 0 /\ Resting.pc = "beat"
    BY <1>0 DEF BeatRow, Resting
  <2>. DEFINE r == [beat[m] EXCEPT !.pc = "recover", !.cmd = 0]
  <2>2. r \in BeatRow /\ r.cmd = 0 /\ r.pc = "recover"
    BY <2>1 DEF BeatRow
  <2>3. \/ beat' = [beat EXCEPT ![m] = Resting]
        \/ beat' = [beat EXCEPT ![m].pc = "recover", ![m].cmd = 0]
    BY <1>6 DEF Acknowledge, CommandFails
  <2>4. CASE beat' = [beat EXCEPT ![m] = r]
    <3>. HIDE DEF r
    <3>. QED BY <1>2, <2>2, <2>4
  <2>. QED BY <1>2, <2>1, <2>3, <2>4
<1>7. ASSUME NEW m \in Member, SelectExpired(m) \/ DeleteExpired(m) \/ CrashDaemon(m)
      PROVE  beat' \in [Member -> BeatRow] /\ \A n \in Member : ThreadRow(n)'
  <2>1. beat[m] \in BeatRow /\ Resting \in BeatRow /\ Resting.cmd = 0 /\ Resting.pc = "beat"
    BY <1>0 DEF BeatRow, Resting
  <2>2. CASE SelectExpired(m)
    <3>. DEFINE old == {n \in Member : entry[n].status = "offline" /\ entry[n].age = "aged"}
    <3>1. beat[m].cmd = 0 /\ beat' = [beat EXCEPT ![m].pc = "orphans", ![m].expired = old]
      BY <1>0, <2>2 DEF SelectExpired, BeatAt, ThreadRow
    <3>2. old \in SUBSET Member
      OBVIOUS
    <3>. HIDE DEF old
    <3>. DEFINE r == [beat[m] EXCEPT !.pc = "orphans", !.expired = old]
    <3>3. r \in BeatRow /\ r.cmd = 0 /\ r.pc = "orphans"
      BY <2>1, <3>1, <3>2 DEF BeatRow
    <3>4. beat' = [beat EXCEPT ![m] = r]
      BY <3>1
    <3>. HIDE DEF r
    <3>. QED BY <1>2, <3>3, <3>4
  <2>. QED BY <1>2, <1>7, <2>1, <2>2 DEF DeleteExpired, CrashDaemon
<1>8. CASE UNCHANGED beat
  BY <1>0, <1>1, <1>8
<1>. QED
  BY <1>3, <1>4, <1>5, <1>6, <1>7, <1>8
     DEF MemberNext, Loop, Admin, Stopped, StopDaemon, StartDaemon, GrowOld, SendCommand, Broadcast,
         SetApproval, DeleteNode, DeleteOfflineNodes, RemoveRows, memberVars

Started(c) == cmds[c].status \in {"executing", "done", "failed"}

\* Only the poll starts a command, and only the API puts one in the queue.
StatusMoved(c) ==
  /\ Started(c)' => Started(c)
  /\ cmds'[c].status = "executing" => cmds[c].status = "executing"
  /\ cmds'[c].status = "pending" => cmds[c].status \in {"none", "pending"}

\* Apart from a poll, no step starts a command.
LEMMA StatusesMove ==
  ASSUME MemberInv, [MemberNext]_memberVars, ~ \E m \in Member : PollCommand(m)
  PROVE  \A c \in CmdId : StatusMoved(c)
<1>. USE DEF MemberInv, MemberTypeOK
<1>0. cmds \in [CmdId -> CmdRow] /\ beat \in [Member -> BeatRow]
  BY DEF CmdRow, BeatRow
<1>1. CASE UNCHANGED cmds
  BY <1>1 DEF StatusMoved, Started
<1>2. ASSUME NEW m \in Member, Acknowledge(m) \/ CommandFails(m), NEW c \in CmdId
      PROVE  StatusMoved(c)
  <2>. DEFINE b == beat[m].cmd
  <2>1. b \in CmdId /\ cmds[b].status \in {"executing", "deleted"}
    BY <1>0, <1>2 DEF Acknowledge, CommandFails, BeatAt, BeatRow, CommandInHand
  <2>2. \/ cmds' = [cmds EXCEPT ![b].status = IF @ = "deleted" THEN @ ELSE "done"]
        \/ cmds' = [cmds EXCEPT ![b].status = IF @ = "deleted" THEN @ ELSE "failed"]
        \/ cmds' = cmds
    BY <1>2 DEF Acknowledge, CommandFails, Answer
  <2>. HIDE DEF b
  <2>3. cmds'[c] = cmds[c]
        \/ (c = b /\ cmds[c].status = "executing" /\ cmds'[c].status \in {"done", "failed"})
    <3>1. cmds[b] \in CmdRow
      BY <1>0, <2>1
    <3>. QED BY <1>0, <2>1, <2>2, <3>1 DEF CmdRow
  <2>. QED BY <2>3 DEF StatusMoved, Started
<1>3. ASSUME NEW m \in Member, DropCommands(m), NEW c \in CmdId PROVE StatusMoved(c)
  <2>1. cmds'[c] = IF cmds[c].to \in beat[m].expired
                   THEN [cmds[c] EXCEPT !.status = "deleted"] ELSE cmds[c]
    BY <1>3 DEF DropCommands
  <2>2. cmds[c] \in CmdRow
    BY <1>0
  <2>3. cmds'[c] = cmds[c] \/ cmds'[c].status = "deleted"
    BY <2>1, <2>2 DEF CmdRow
  <2>. QED BY <2>3 DEF StatusMoved, Started
<1>4. ASSUME NEW m \in Member, NEW o \in Issued, SendCommand(m, o), NEW c \in CmdId
      PROVE  StatusMoved(c)
  <2>. DEFINE d == CHOOSE x \in Free : \A y \in Free : x <= y
  <2>1. \E x \in Free : \A y \in Free : x <= y
    BY <1>4, CmdNumbers, LeastNumber DEF SendCommand, Free
  <2>2. d \in CmdId /\ cmds[d].status = "none"
    BY <2>1 DEF Free
  <2>3. cmds' = [cmds EXCEPT ![d] = [to |-> m, order |-> o, status |-> "pending"]]
    BY <1>4 DEF SendCommand
  <2>. HIDE DEF d
  <2>4. cmds'[c] = cmds[c] \/ (cmds[c].status = "none" /\ cmds'[c].status = "pending")
    BY <1>0, <2>2, <2>3
  <2>. QED BY <2>4 DEF StatusMoved, Started
<1>5. ASSUME NEW o \in Issued, Broadcast(o), NEW c \in CmdId PROVE StatusMoved(c)
  <2>1. cmds'[c] = cmds[c] \/ (cmds[c].status = "none" /\ cmds'[c].status = "pending")
    BY <1>5 DEF Broadcast, Free
  <2>. QED BY <2>1 DEF StatusMoved, Started
<1>. QED
  BY <1>1, <1>2, <1>3, <1>4, <1>5, MemberAssumption
     DEF MemberNext, Loop, Admin, Beat, SetFlags, MarkNode, Recover, SkipMaintenance, SelectExpired,
         DeleteExpired, Stopped, StopDaemon, CrashDaemon, StartDaemon, GrowOld, SetApproval,
         DeleteNode, DeleteOfflineNodes, RemoveRows, memberVars

\* What a poll does to the table and to the thread.
LEMMA Polled ==
  ASSUME MemberInv, NEW m \in Member, PollCommand(m), cmds' # cmds
  PROVE  \E c \in CmdId :
           /\ cmds[c].status = "pending" /\ cmds[c].to = m
           /\ \A d \in CmdId : cmds[d].to = m /\ cmds[d].status = "pending" => c <= d
           /\ cmds'[c].status = "executing"
           /\ \A d \in CmdId : d # c => cmds'[d] = cmds[d]
           /\ beat'[m].cmd = c
<1>. USE DEF MemberInv, MemberTypeOK
<1>. DEFINE c == CHOOSE x \in NextCommand(m) : TRUE
<1>1. NextCommand(m) # {}
  BY DEF PollCommand
<1>2. /\ c \in CmdId /\ cmds[c].status = "pending" /\ cmds[c].to = m
      /\ \A d \in CmdId : cmds[d].to = m /\ cmds[d].status = "pending" => c <= d
  BY <1>1 DEF NextCommand
<1>3. /\ cmds' = [cmds EXCEPT ![c].status = "executing"]
      /\ beat' = [beat EXCEPT ![m].pc = "flag", ![m].cmd = c]
  BY <1>1 DEF PollCommand
<1>. HIDE DEF c
<1>. QED BY <1>2, <1>3

\* A command that was cut short stays so.
LEMMA LostGrow ==
  ASSUME [MemberNext]_memberVars
  PROVE  lostCmds \subseteq lostCmds'
  BY DEF MemberNext, Loop, Admin, Beat, PollCommand, SetFlags, MarkNode, Acknowledge, CommandFails,
         Recover, SkipMaintenance, SelectExpired, DropCommands, DeleteExpired, Stopped, StopDaemon,
         CrashDaemon, StartDaemon, GrowOld, SendCommand, Broadcast, SetApproval, DeleteNode,
         DeleteOfflineNodes, RemoveRows, memberVars

\* No step breaks the order: a poll takes the oldest pending command, at a time when the
\* thread holds none, so that another one still executing was cut short.
LEMMA OrderKept ==
  ASSUME MemberInv, [MemberNext]_memberVars
  PROVE  CommandsInOrder'
<1>. USE DEF MemberInv, MemberTypeOK
<1>0. CmdId \subseteq Nat
  BY CmdNumbers
<1>1. SUFFICES ASSUME NEW c \in CmdId, NEW d \in CmdId, c < d, cmds'[c].to = cmds'[d].to,
                      Started(d)'
               PROVE  /\ cmds'[c].status # "pending"
                      /\ cmds'[c].status = "executing" => c \in lostCmds'
  BY DEF CommandsInOrder, Started
<1>2. ASSUME Started(d), cmds'[c].status = "executing" => cmds[c].status = "executing",
             cmds'[c].status = "pending" => cmds[c].status \in {"none", "pending"}
      PROVE  /\ cmds'[c].status # "pending"
             /\ cmds'[c].status = "executing" => c \in lostCmds'
  <2>1. cmds[c].status # "none" /\ cmds[d].status # "none"
    BY <1>1, <1>2 DEF SentInOrder, Started
  <2>2. cmds[c].to = cmds[d].to
    BY <1>1, <2>1, CommandsKept DEF CommandKept
  <2>3. cmds[c].status # "pending" /\ (cmds[c].status = "executing" => c \in lostCmds)
    BY <1>1, <1>2, <2>2 DEF CommandsInOrder, Started
  <2>. QED BY <1>2, <2>1, <2>3, LostGrow
<1>3. CASE ~ \E m \in Member : PollCommand(m)
  BY <1>1, <1>2, <1>3, StatusesMove DEF StatusMoved
<1>4. ASSUME NEW m \in Member, PollCommand(m), cmds' = cmds
      PROVE  /\ cmds'[c].status # "pending"
             /\ cmds'[c].status = "executing" => c \in lostCmds'
  BY <1>1, <1>2, <1>4 DEF Started
<1>5. ASSUME NEW m \in Member, PollCommand(m), cmds' # cmds
      PROVE  /\ cmds'[c].status # "pending"
             /\ cmds'[c].status = "executing" => c \in lostCmds'
  <2>1. PICK x \in CmdId :
           /\ cmds[x].status = "pending" /\ cmds[x].to = m
           /\ \A y \in CmdId : cmds[y].to = m /\ cmds[y].status = "pending" => x <= y
           /\ cmds'[x].status = "executing"
           /\ \A y \in CmdId : y # x => cmds'[y] = cmds[y]
           /\ beat'[m].cmd = x
    BY <1>5, Polled
  <2>2. cmds'[x].to = m
    BY <2>1, CommandsKept DEF CommandKept
  <2>3. CASE d # x /\ c # x
    BY <1>1, <1>2, <2>1, <2>3 DEF Started
  <2>4. CASE d # x /\ c = x
    <3>1. Started(d) /\ cmds[c].to = cmds[d].to
      BY <1>1, <2>1, <2>2, <2>4 DEF Started
    <3>2. cmds[c].status # "pending"
      BY <1>1, <3>1 DEF CommandsInOrder, Started
    <3>. QED BY <2>1, <2>4, <3>2
  <2>5. CASE d = x
    <3>1. c # x /\ cmds'[c] = cmds[c] /\ cmds[c].to = m
      BY <1>0, <1>1, <2>1, <2>2, <2>5
    <3>2. cmds[c].status # "pending"
      BY <1>0, <1>1, <2>1, <2>5, <3>1
    <3>3. ASSUME cmds[c].status = "executing", c \notin lostCmds PROVE FALSE
      <4>1. beat[m].cmd = c
        BY <3>1, <3>3 DEF ExecutedByOne
      <4>2. beat[m].cmd = 0
        BY <1>5 DEF PollCommand, BeatAt
      <4>. QED BY <4>1, <4>2, CmdNumbers
    <3>. QED BY <3>1, <3>2, <3>3, LostGrow
  <2>. QED BY <2>3, <2>4, <2>5
<1>. QED BY <1>3, <1>4, <1>5

\* A new command takes the least free number, a broadcast the first ones.
LEMMA SentKept ==
  ASSUME MemberInv, [MemberNext]_memberVars
  PROVE  SentInOrder'
<1>. USE DEF MemberInv, MemberTypeOK
<1>0. /\ CmdId \subseteq Nat /\ \A c \in CmdId : CommandKept(c)
      /\ cmds \in [CmdId -> CmdRow] /\ beat \in [Member -> BeatRow]
  BY CmdNumbers, CommandsKept DEF CmdRow, BeatRow
<1>1. \A c \in CmdId : /\ cmds'[c].status # "none" => cmds'[c].order \in Order
                       /\ cmds'[c].status = "none" => cmds'[c].to = NoMember
  <2>. TAKE c \in CmdId
  <2>1. CASE cmds[c].status = "none"
    BY <1>0, <2>1 DEF CommandKept, SentInOrder
  <2>2. CASE cmds[c].status # "none"
    BY <1>0, <2>2 DEF CommandKept, SentInOrder
  <2>. QED BY <2>1, <2>2
<1>2. SUFFICES ASSUME NEW c \in CmdId, NEW d \in CmdId, c < d, cmds'[d].status # "none",
                      cmds[d].status = "none", cmds[c].status = "none"
               PROVE  cmds'[c].status # "none"
  <2>1. \A c \in CmdId : cmds[c].status # "none" => cmds'[c].status # "none"
    BY <1>0 DEF CommandKept
  <2>2. \A c, d \in CmdId : c < d /\ cmds[d].status # "none" => cmds[c].status # "none"
    BY DEF SentInOrder
  <2>. QED BY <1>1, <2>1, <2>2 DEF SentInOrder
<1>3. cmds'[d].status = "pending"
  BY <1>0, <1>2 DEF CommandKept
<1>4. ASSUME NEW m \in Member, NEW o \in Issued, SendCommand(m, o) PROVE FALSE
  <2>. DEFINE x == CHOOSE x \in Free : \A y \in Free : x <= y
  <2>1. \E y \in Free : \A z \in Free : y <= z
    BY <1>4, CmdNumbers, LeastNumber DEF SendCommand, Free
  <2>2. x \in Free /\ \A y \in Free : x <= y
    BY <2>1
  <2>3. cmds' = [cmds EXCEPT ![x] = [to |-> m, order |-> o, status |-> "pending"]]
    BY <1>4 DEF SendCommand
  <2>. HIDE DEF x
  <2>4. d = x /\ c \in Free
    BY <1>0, <1>2, <2>3 DEF Free
  <2>. QED BY <1>0, <1>2, <2>2, <2>4
<1>5. ASSUME NEW o \in Issued, Broadcast(o) PROVE cmds'[c].status # "none"
  <2>. DEFINE to == {m \in Member : entry[m].status = "online"}
  <2>1. PICK give \in [to -> Free] :
          /\ \A m \in to, x \in Free : x < give[m] => \E n \in to : give[n] = x
          /\ cmds' = [x \in CmdId |->
            IF \E m \in to : give[m] = x
            THEN [to |-> CHOOSE m \in to : give[m] = x, order |-> o, status |-> "pending"]
            ELSE cmds[x]]
    BY <1>5 DEF Broadcast
  <2>2. PICK m \in to : give[m] = d
    BY <1>2, <2>1
  <2>3. c \in Free
    BY <1>2 DEF Free
  <2>4. PICK n \in to : give[n] = c
    BY <1>2, <2>1, <2>2, <2>3
  <2>. QED BY <1>2, <2>1, <2>4
<1>6. ASSUME NEW m \in Member, DropCommands(m) PROVE FALSE
  <2>1. cmds[d].to \notin beat[m].expired
    BY <1>0, <1>2, MemberAssumption DEF SentInOrder, BeatRow
  <2>. QED BY <1>2, <1>6, <2>1 DEF DropCommands
<1>7. ASSUME NEW m \in Member, Acknowledge(m) \/ CommandFails(m) \/ PollCommand(m) PROVE FALSE
  <2>1. CASE PollCommand(m)
    BY <1>2, <2>1, Polled
  <2>2. CASE Acknowledge(m) \/ CommandFails(m)
    <3>1. beat[m].cmd # d
      BY <1>2, <2>2, <1>0, CmdNumbers DEF Acknowledge, CommandFails, BeatAt, CommandInHand
    <3>. QED BY <1>0, <1>2, <2>2, <3>1 DEF Acknowledge, CommandFails, Answer
  <2>. QED BY <1>7, <2>1, <2>2
<1>8. CASE UNCHANGED cmds
  BY <1>2, <1>8
<1>. QED
  BY <1>4, <1>5, <1>6, <1>7, <1>8, MemberAssumption
     DEF MemberNext, Loop, Admin, Beat, SetFlags, MarkNode, Recover, SkipMaintenance, SelectExpired,
         DeleteExpired, Stopped, StopDaemon, CrashDaemon, StartDaemon, GrowOld, SetApproval,
         DeleteNode, DeleteOfflineNodes, RemoveRows, memberVars

\* A command leaves a thread's hands answered or cut short.
LEMMA ExecutedKept ==
  ASSUME MemberInv, [MemberNext]_memberVars
  PROVE  ExecutedByOne'
<1>. USE DEF MemberInv, MemberTypeOK
<1>0. /\ cmds \in [CmdId -> CmdRow] /\ beat \in [Member -> BeatRow]
      /\ \A n \in Member : beat[n].cmd # 0 <=> beat[n].pc \in {"flag", "write", "ack"}
      /\ \A c \in CmdId : c # 0
  BY CmdNumbers DEF CmdRow, BeatRow
<1>1. SUFFICES ASSUME NEW c \in CmdId, cmds'[c].status = "executing", c \notin lostCmds'
               PROVE  \E m \in Member : cmds'[c].to = m /\ beat'[m].cmd = c
  BY DEF ExecutedByOne
\* Who holds the command goes on holding it.
<1>2. ASSUME NEW m \in Member, cmds[c].status = "executing",
             beat[m].cmd = c => beat'[m].cmd = c,
             \A n \in Member : n # m => beat'[n] = beat[n]
      PROVE  \E n \in Member : cmds'[c].to = n /\ beat'[n].cmd = c
  <2>1. c \notin lostCmds
    BY <1>1, LostGrow
  <2>2. PICK n \in Member : cmds[c].to = n /\ beat[n].cmd = c
    BY <1>2, <2>1 DEF ExecutedByOne
  <2>3. cmds'[c].to = cmds[c].to
    BY <1>2, CommandsKept DEF CommandKept
  <2>. QED BY <1>2, <2>2, <2>3
<1>3. ASSUME NEW m \in Member, PollCommand(m)
      PROVE  \E n \in Member : cmds'[c].to = n /\ beat'[n].cmd = c
  <2>1. \A n \in Member : n # m => beat'[n] = beat[n]
    BY <1>0, <1>3 DEF PollCommand, BeatGoto
  <2>2. beat[m].cmd = 0
    BY <1>0, <1>3 DEF PollCommand, BeatAt
  <2>3. CASE cmds[c].status = "executing"
    BY <1>0, <1>2, <2>1, <2>2, <2>3
  <2>4. CASE cmds[c].status # "executing"
    <3>1. cmds' # cmds
      BY <1>1, <2>4
    <3>2. PICK x \in CmdId :
            /\ cmds[x].status = "pending" /\ cmds[x].to = m
            /\ \A y \in CmdId : y # x => cmds'[y] = cmds[y]
            /\ beat'[m].cmd = x
      BY <1>3, <3>1, Polled
    <3>3. c = x
      BY <1>1, <2>4, <3>2
    <3>4. cmds'[c].to = m
      BY <3>2, <3>3, CommandsKept DEF CommandKept
    <3>. QED BY <3>2, <3>3, <3>4
  <2>. QED BY <2>3, <2>4
<1>4. ASSUME ~ \E m \in Member : PollCommand(m)
      PROVE  cmds[c].status = "executing"
  BY <1>1, <1>4, StatusesMove DEF StatusMoved
<1>5. ASSUME NEW m \in Member, Acknowledge(m), cmds[c].status = "executing"
      PROVE  \E n \in Member : cmds'[c].to = n /\ beat'[n].cmd = c
  <2>1. beat[m].cmd # c
    BY <1>0, <1>1, <1>5 DEF Acknowledge, Answer
  <2>2. \A n \in Member : n # m => beat'[n] = beat[n]
    BY <1>0, <1>5 DEF Acknowledge
  <2>. QED BY <1>2, <1>5, <2>1, <2>2
<1>6. ASSUME NEW m \in Member, CommandFails(m), cmds[c].status = "executing"
      PROVE  \E n \in Member : cmds'[c].to = n /\ beat'[n].cmd = c
  <2>1. beat[m].cmd # c
    BY <1>0, <1>1, <1>6 DEF CommandFails, Answer
  <2>2. \A n \in Member : n # m => beat'[n] = beat[n]
    BY <1>0, <1>6 DEF CommandFails
  <2>. QED BY <1>2, <1>6, <2>1, <2>2
<1>7. ASSUME NEW m \in Member, CrashDaemon(m), cmds[c].status = "executing"
      PROVE  \E n \in Member : cmds'[c].to = n /\ beat'[n].cmd = c
  <2>1. beat[m].cmd # c
    BY <1>0, <1>1, <1>7 DEF CrashDaemon
  <2>2. \A n \in Member : n # m => beat'[n] = beat[n]
    BY <1>0, <1>7 DEF CrashDaemon
  <2>. QED BY <1>2, <1>7, <2>1, <2>2
<1>8. ASSUME NEW m \in Member, cmds[c].status = "executing",
             \/ Beat(m) \/ SetFlags(m) \/ MarkNode(m) \/ Recover(m) \/ SkipMaintenance(m)
             \/ SelectExpired(m) \/ DropCommands(m)
      PROVE  \E n \in Member : cmds'[c].to = n /\ beat'[n].cmd = c
  <2>1. /\ beat'[m].cmd = beat[m].cmd
        /\ \A n \in Member : n # m => beat'[n] = beat[n]
    BY <1>0, <1>8 DEF Beat, SetFlags, MarkNode, Recover, SkipMaintenance, SelectExpired, DropCommands,
                      BeatGoto, BeatRow
  <2>. QED BY <1>2, <1>8, <2>1
<1>9. ASSUME NEW m \in Member, DeleteExpired(m), cmds[c].status = "executing"
      PROVE  \E n \in Member : cmds'[c].to = n /\ beat'[n].cmd = c
  <2>1. beat[m].cmd = 0 /\ \A n \in Member : n # m => beat'[n] = beat[n]
    BY <1>0, <1>9 DEF DeleteExpired, BeatAt
  <2>. QED BY <1>0, <1>2, <1>9, <2>1
<1>10. ASSUME UNCHANGED beat, cmds[c].status = "executing"
       PROVE  \E n \in Member : cmds'[c].to = n /\ beat'[n].cmd = c
  <2>1. c \notin lostCmds
    BY <1>1, LostGrow
  <2>2. PICK n \in Member : cmds[c].to = n /\ beat[n].cmd = c
    BY <1>10, <2>1 DEF ExecutedByOne
  <2>. QED BY <1>2, <1>10, <2>2
<1>. QED
  BY <1>3, <1>4, <1>5, <1>6, <1>7, <1>8, <1>9, <1>10
     DEF MemberNext, Loop, Admin, Stopped, StopDaemon, StartDaemon, GrowOld, SendCommand, Broadcast,
         SetApproval, DeleteNode, DeleteOfflineNodes, RemoveRows, memberVars

\* A node whose row, events, thread and process stay as they are goes on following.
LEMMA Unmoved ==
  ASSUME MemberInv, [MemberNext]_memberVars, NEW n \in Member,
         Held(n)' <=> Held(n), Listed(n)' <=> Listed(n), flags'[n] = flags[n],
         beat'[n] = beat[n], running'[n] = running[n], n \notin strayed' => n \notin strayed
  PROVE  NodeFollows(n)'
<1>1. NodeFollows(n)
  BY DEF MemberInv, FlagsFollow
<1>2. ASSUME beat[n].pc \in {"write", "ack"} PROVE OrderOf(n)' = OrderOf(n)
  <2>1. beat[n].cmd \in CmdId /\ cmds[beat[n].cmd].status # "none"
    BY <1>2 DEF MemberInv, MemberTypeOK, CommandInHand
  <2>. QED BY <2>1, CommandsKept DEF CommandKept, OrderOf
<1>3. FlagsSet(n) /\ beat[n].pc \in {"write", "ack"} => FlagsSet(n)'
  BY <1>2 DEF FlagsSet
<1>4. NotStrayed(n) => NotStrayed(n)'
  BY <1>2 DEF NotStrayed, Up, Between
<1>. QED BY <1>1, <1>3, <1>4 DEF NodeFollows, Up

\* The thread's own steps between two commands.
LEMMA LoopFollows ==
  ASSUME MemberInv, [MemberNext]_memberVars, NEW m \in Member, Loop(m)
  PROVE  NodeFollows(m)'
<1>. USE DEF MemberInv
<1>0. /\ entry \in [Member -> EntryRow] /\ beat \in [Member -> BeatRow]
      /\ flags \in [Member -> SUBSET {"drain", "pause"}]
      /\ beat[m].cmd # 0 <=> beat[m].pc \in {"flag", "write", "ack"}
      /\ NodeFollows(m)
  BY DEF MemberTypeOK, EntryRow, BeatRow, FlagsFollow
<1>1. ThreadRow(m)' /\ Up(m)
  BY ThreadsTyped DEF Loop, Beat, PollCommand, SetFlags, MarkNode, Acknowledge, Recover,
                      SkipMaintenance, SelectExpired, DropCommands, DeleteExpired, BeatAt
\* Between two commands, on the way round the loop.
<1>2. ASSUME beat[m].cmd = 0, beat'[m].pc \notin {"write", "ack"}, UNCHANGED <<flags, running>>,
             m \notin strayed' => m \notin strayed,
             m \notin strayed' => (Held(m)' <=> Held(m)),
             m \notin strayed' => (beat'[m].pc # "beat" => Listed(m)')
      PROVE  NodeFollows(m)'
  <2>1. m \notin strayed' => (Held(m) <=> flags[m] # {})
    BY <1>0, <1>1, <1>2 DEF NodeFollows, NotStrayed, Between
  <2>. QED BY <1>1, <1>2, <2>1 DEF NodeFollows, NotStrayed, Between, Up
<1>3. CASE Beat(m)
  <2>1. entry'[m] = Beaten(entry[m]) /\ beat'[m].pc = "poll" /\ beat[m].cmd = 0
    BY <1>0, <1>3 DEF Beat, BeatGoto, BeatAt
  <2>2. Listed(m)' /\ (Held(m)' <=> Held(m))
    BY <2>1 DEF Beaten, Listed, Held
  <2>. QED BY <1>2, <1>3, <2>1, <2>2 DEF Beat
<1>4. CASE PollCommand(m)
  <2>1. beat[m].pc = "poll" /\ beat[m].cmd = 0 /\ beat'[m].pc \in {"recover", "flag"}
    <3>1. beat[m].pc = "poll" /\ beat[m].cmd = 0
      BY <1>0, <1>4 DEF PollCommand, BeatAt
    <3>2. CASE NextCommand(m) = {}
      BY <1>0, <1>4, <3>1, <3>2 DEF PollCommand, BeatGoto, BeatRow
    <3>3. CASE NextCommand(m) # {}
      BY <1>0, <1>4, <3>1, <3>3 DEF PollCommand, BeatRow
    <3>. QED BY <3>1, <3>2, <3>3
  <2>2. m \notin strayed => Listed(m)
    BY <1>0, <1>1, <2>1 DEF NodeFollows, NotStrayed
  <2>. QED BY <1>2, <1>4, <2>1, <2>2 DEF PollCommand, Held, Listed
<1>5. CASE SetFlags(m)
  <2>1. /\ beat[m].pc = "flag" /\ beat'[m].pc = "write" /\ beat'[m].cmd = beat[m].cmd
        /\ OrderOf(m)' = OrderOf(m)
    BY <1>0, <1>5 DEF SetFlags, BeatGoto, BeatAt, OrderOf
  <2>2. FlagsSet(m)'
    BY <1>0, <1>5, <2>1 DEF SetFlags, FlagsSet
  <2>3. m \notin strayed => Listed(m)
    BY <1>0, <1>1, <2>1 DEF NodeFollows, NotStrayed
  <2>4. beat'[m].cmd # 0
    BY <1>0, <2>1
  <2>. QED BY <1>1, <1>5, <2>1, <2>2, <2>3, <2>4 DEF SetFlags, NodeFollows, NotStrayed, Up, Between, Listed
<1>6. CASE MarkNode(m)
  <2>1. /\ beat[m].pc = "write" /\ beat'[m].pc = "ack" /\ beat'[m].cmd = beat[m].cmd
        /\ OrderOf(m)' = OrderOf(m)
    BY <1>0, <1>6 DEF MarkNode, BeatGoto, BeatAt, OrderOf
  <2>2. FlagsSet(m)'
    BY <1>0, <1>6, <2>1 DEF MarkNode, FlagsSet, NodeFollows
  <2>3. m \notin strayed' => Listed(m)
    BY <1>0, <1>1, <1>6, <2>1 DEF MarkNode, NodeFollows, NotStrayed
  <2>4. Listed(m) => entry'[m].status = StatusFor[OrderOf(m)]
    BY <1>0, <1>6 DEF MarkNode, EntryRow
  <2>5. OrderOf(m) \in Order
    BY <2>1 DEF MemberTypeOK, CommandInHand, SentInOrder, OrderOf
  <2>6. m \notin strayed' => /\ Listed(m)'
                             /\ OrderOf(m) \in {"drain", "pause"} => Held(m)'
                             /\ OrderOf(m) = "resume" => ~ Held(m)'
    BY <2>3, <2>4, <2>5 DEF StatusFor, Order, Held, Listed
  <2>7. beat'[m].cmd # 0
    BY <1>0, <2>1
  <2>. QED BY <1>1, <1>6, <2>1, <2>2, <2>6, <2>7 DEF MarkNode, NodeFollows, NotStrayed, Up, Between
<1>7. CASE Acknowledge(m)
  <2>1. beat[m].pc = "ack" /\ FlagsSet(m)
    BY <1>0, <1>7 DEF Acknowledge, BeatAt, NodeFollows
  <2>2. OrderOf(m) \in Order
    BY <2>1 DEF MemberTypeOK, CommandInHand, SentInOrder, OrderOf
  <2>3. CASE OrderOf(m) \in {"restart", "shutdown"}
    <3>1. beat'[m] = Resting /\ running'[m] = OrderOf(m)
      BY <1>0, <1>7, <2>3 DEF Acknowledge, MemberTypeOK
    <3>. QED BY <2>3, <3>1 DEF NodeFollows, NotStrayed, Up, Between, Resting
  <2>4. CASE OrderOf(m) \in {"drain", "pause", "resume"}
    <3>1. beat'[m].pc = "recover" /\ UNCHANGED <<entry, flags, running, strayed>>
      BY <1>0, <1>7, <2>4 DEF Acknowledge, BeatRow
    <3>2. m \notin strayed => Listed(m) /\ (Held(m) <=> flags[m] # {})
      BY <1>0, <1>1, <2>1, <2>4 DEF NodeFollows, NotStrayed, FlagsSet
    <3>. QED BY <1>1, <3>1, <3>2 DEF NodeFollows, NotStrayed, Up, Between, Held, Listed
  <2>. QED BY <2>2, <2>3, <2>4 DEF Order
<1>8. CASE Recover(m)
  <2>1. beat[m].pc = "recover" /\ beat[m].cmd = 0 /\ beat'[m].pc = "expire"
    BY <1>0, <1>8 DEF Recover, BeatGoto, BeatAt
  <2>2. (Held(m)' <=> Held(m)) /\ (Listed(m)' <=> Listed(m))
    BY <1>0, <1>8 DEF Recover, Held, Listed, EntryRow
  <2>3. m \notin strayed => Listed(m)
    BY <1>0, <1>1, <2>1 DEF NodeFollows, NotStrayed
  <2>. QED BY <1>2, <1>8, <2>1, <2>2, <2>3 DEF Recover
<1>9. CASE SkipMaintenance(m) \/ SelectExpired(m) \/ DropCommands(m)
  <2>1. /\ beat[m].pc \in {"expire", "orphans"} /\ beat[m].cmd = 0
        /\ beat'[m].pc \in {"beat", "orphans", "delete"}
    <3>1. beat[m].pc \in {"expire", "orphans"} /\ beat[m] \in BeatRow
      BY <1>0, <1>9 DEF SkipMaintenance, SelectExpired, DropCommands, BeatAt
    <3>2. CASE SkipMaintenance(m) \/ DropCommands(m)
      <4>1. \E pc \in {"beat", "delete"} : beat' = [beat EXCEPT ![m].pc = pc]
        BY <3>2 DEF SkipMaintenance, DropCommands, BeatGoto
      <4>. QED BY <1>0, <3>1, <4>1 DEF BeatRow
    <3>3. CASE SelectExpired(m)
      BY <1>0, <3>1, <3>3 DEF SelectExpired, BeatRow
    <3>. QED BY <1>0, <1>9, <3>1, <3>2, <3>3
  <2>2. m \notin strayed => Listed(m)
    BY <1>0, <1>1, <2>1 DEF NodeFollows, NotStrayed
  <2>. QED BY <1>2, <1>9, <2>1, <2>2 DEF SkipMaintenance, SelectExpired, DropCommands, Held, Listed
<1>10. CASE DeleteExpired(m)
  <2>1. beat[m].cmd = 0 /\ beat'[m].pc = "beat"
    BY <1>0, <1>10 DEF DeleteExpired, BeatAt, Resting
  <2>2. m \notin strayed' => m \notin beat[m].expired /\ m \notin strayed
    BY <1>10 DEF DeleteExpired
  <2>3. m \notin strayed' => entry'[m] = entry[m]
    BY <1>10, <2>2 DEF DeleteExpired
  <2>. QED BY <1>2, <1>10, <2>1, <2>2, <2>3 DEF DeleteExpired, Held
<1>. QED
  BY <1>3, <1>4, <1>5, <1>6, <1>7, <1>8, <1>9, <1>10 DEF Loop

\* Its failures, its stop and its start.
LEMMA ProcessFollows ==
  ASSUME MemberInv, [MemberNext]_memberVars, NEW m \in Member,
         CommandFails(m) \/ Stopped(m) \/ StopDaemon(m) \/ CrashDaemon(m) \/ StartDaemon(m) \/ GrowOld(m)
  PROVE  NodeFollows(m)'
<1>. USE DEF MemberInv
<1>0. /\ entry \in [Member -> EntryRow] /\ beat \in [Member -> BeatRow]
      /\ flags \in [Member -> SUBSET {"drain", "pause"}]
      /\ running \in [Member -> {"up", "restart", "shutdown", "down"}]
      /\ beat[m].cmd # 0 <=> beat[m].pc \in {"flag", "write", "ack"}
      /\ NodeFollows(m)
  BY DEF MemberTypeOK, EntryRow, BeatRow, FlagsFollow
<1>1. CASE CommandFails(m)
  <2>1. beat'[m].pc = "recover" /\ m \in strayed' /\ UNCHANGED running /\ Up(m)
    BY <1>0, <1>1 DEF CommandFails, BeatRow
  <2>. QED BY <2>1 DEF NodeFollows, Up
<1>2. CASE Stopped(m)
  <2>1. /\ beat'[m] = beat[m] /\ flags'[m] = {} /\ running'[m] \in {"up", "down"}
        /\ ~ Up(m) /\ running[m] # "down"
    BY <1>0, <1>2 DEF Stopped, Up
  <2>2. ~ Held(m)'
    BY <1>0, <1>2 DEF Stopped, Held, Listed, EntryRow
  <2>3. beat[m].pc = "beat"
    BY <1>0, <2>1 DEF NodeFollows
  <2>. QED BY <2>1, <2>2, <2>3 DEF NodeFollows, NotStrayed, Between
<1>3. CASE StopDaemon(m)
  <2>1. beat[m].pc = "beat" /\ running'[m] = "shutdown"
    BY <1>0, <1>3 DEF StopDaemon, BeatAt
  <2>. QED BY <1>0, <1>3, <2>1 DEF StopDaemon, NodeFollows, NotStrayed, Up, Between
<1>4. CASE CrashDaemon(m)
  <2>1. beat'[m].pc = "beat" /\ running'[m] = "down" /\ m \in strayed' /\ flags'[m] = {}
    BY <1>0, <1>4 DEF CrashDaemon, Resting
  <2>. QED BY <2>1 DEF NodeFollows
<1>5. CASE StartDaemon(m)
  <2>1. running[m] = "down" /\ running'[m] = "up" /\ UNCHANGED <<entry, flags, beat, strayed>>
    BY <1>0, <1>5 DEF StartDaemon
  <2>2. beat[m].pc = "beat" /\ flags[m] = {} /\ (m \notin strayed => ~ Held(m))
    BY <1>0, <2>1 DEF NodeFollows, NotStrayed, Up
  <2>. QED BY <2>1, <2>2 DEF NodeFollows, NotStrayed, Between, Held
<1>6. CASE GrowOld(m)
  <2>1. entry'[m].status = entry[m].status
    BY <1>0, <1>6 DEF GrowOld, EntryRow
  <2>. QED BY <1>6, <2>1, Unmoved DEF GrowOld, Held, Listed
<1>. QED BY <1>1, <1>2, <1>3, <1>4, <1>5, <1>6

\* A node's step does not disturb what the others follow.
LEMMA OthersFollow ==
  ASSUME MemberInv, [MemberNext]_memberVars, NEW m \in Member, NEW n \in Member, n # m,
         \/ Loop(m) \/ CommandFails(m) \/ Stopped(m) \/ StopDaemon(m) \/ CrashDaemon(m)
         \/ StartDaemon(m) \/ GrowOld(m)
  PROVE  NodeFollows(n)'
<1>. USE DEF MemberInv
<1>0. /\ entry \in [Member -> EntryRow] /\ beat \in [Member -> BeatRow]
      /\ flags \in [Member -> SUBSET {"drain", "pause"}]
      /\ running \in [Member -> {"up", "restart", "shutdown", "down"}]
  BY DEF MemberTypeOK, EntryRow, BeatRow
<1>1. CASE Recover(m)
  <2>1. (Held(n)' <=> Held(n)) /\ (Listed(n)' <=> Listed(n))
    BY <1>0, <1>1 DEF Recover, Held, Listed, EntryRow
  <2>2. beat'[n] = beat[n]
    BY <1>0, <1>1 DEF Recover, BeatGoto
  <2>. QED BY <1>1, <2>1, <2>2, Unmoved DEF Recover
<1>2. CASE DeleteExpired(m)
  <2>1. beat'[n] = beat[n] /\ UNCHANGED <<flags, running>>
    BY <1>0, <1>2 DEF DeleteExpired
  <2>2. CASE n \notin beat[m].expired
    <3>1. entry'[n] = entry[n] /\ (n \notin strayed' => n \notin strayed)
      BY <1>2, <2>2 DEF DeleteExpired
    <3>. QED BY <2>1, <3>1, Unmoved DEF Held, Listed
  <2>3. CASE n \in beat[m].expired
    <3>1. n \in strayed'
      BY <1>2, <2>3 DEF DeleteExpired
    <3>2. NodeFollows(n) /\ (beat[n].pc \in {"write", "ack"} => OrderOf(n)' = OrderOf(n))
      BY <1>2 DEF FlagsFollow, DeleteExpired, OrderOf
    <3>. QED BY <2>1, <3>1, <3>2 DEF NodeFollows, Up, FlagsSet
  <2>. QED BY <2>2, <2>3
<1>3. CASE Beat(m) \/ PollCommand(m) \/ SetFlags(m) \/ MarkNode(m) \/ Acknowledge(m)
  <2>1. /\ beat'[n] = beat[n] /\ flags'[n] = flags[n] /\ running'[n] = running[n]
        /\ entry'[n] = entry[n] /\ (n \notin strayed' => n \notin strayed)
    BY <1>0, <1>3 DEF Beat, PollCommand, SetFlags, MarkNode, Acknowledge, BeatGoto
  <2>. QED BY <2>1, Unmoved DEF Held, Listed
<1>4. CASE SkipMaintenance(m) \/ SelectExpired(m) \/ DropCommands(m) \/ CommandFails(m)
  <2>1. /\ beat'[n] = beat[n] /\ flags'[n] = flags[n] /\ running'[n] = running[n]
        /\ entry'[n] = entry[n] /\ (n \notin strayed' => n \notin strayed)
    BY <1>0, <1>4 DEF SkipMaintenance, SelectExpired, DropCommands, CommandFails, BeatGoto
  <2>. QED BY <2>1, Unmoved DEF Held, Listed
<1>5. CASE Stopped(m) \/ StopDaemon(m) \/ CrashDaemon(m) \/ StartDaemon(m) \/ GrowOld(m)
  <2>1. /\ beat'[n] = beat[n] /\ flags'[n] = flags[n] /\ running'[n] = running[n]
        /\ entry'[n] = entry[n] /\ (n \notin strayed' => n \notin strayed)
    BY <1>0, <1>5 DEF Stopped, StopDaemon, CrashDaemon, StartDaemon, GrowOld
  <2>. QED BY <2>1, Unmoved DEF Held, Listed
<1>. QED BY <1>1, <1>2, <1>3, <1>4, <1>5 DEF Loop

\* Every node goes on following its commands.
LEMMA FollowKept ==
  ASSUME MemberInv, [MemberNext]_memberVars
  PROVE  FlagsFollow'
<1>. SUFFICES ASSUME NEW n \in Member PROVE NodeFollows(n)'
  BY DEF FlagsFollow
<1>1. ASSUME NEW m \in Member,
             \/ Loop(m) \/ CommandFails(m) \/ Stopped(m) \/ StopDaemon(m) \/ CrashDaemon(m)
             \/ StartDaemon(m) \/ GrowOld(m)
      PROVE  NodeFollows(n)'
  BY <1>1, LoopFollows, ProcessFollows, OthersFollow
<1>2. ASSUME UNCHANGED <<entry, flags, beat, running, strayed>> PROVE NodeFollows(n)'
  BY <1>2, Unmoved DEF Held, Listed
<1>3. ASSUME NEW m \in Member, NEW v \in {"approved", "rejected"}, SetApproval(m, v)
      PROVE  NodeFollows(n)'
  <2>1. entry'[n].status = entry[n].status
    BY <1>3 DEF SetApproval, MemberInv, MemberTypeOK
  <2>. QED BY <1>3, <2>1, Unmoved DEF SetApproval, Held, Listed
<1>4. ASSUME NEW ms \in SUBSET Member, RemoveRows(ms) PROVE NodeFollows(n)'
  <2>1. CASE n \notin ms
    <3>1. entry'[n] = entry[n]
      BY <1>4, <2>1 DEF RemoveRows
    <3>. QED BY <1>4, <3>1, Unmoved DEF RemoveRows, Held, Listed
  <2>2. CASE n \in ms
    <3>1. NodeFollows(n) /\ OrderOf(n)' = OrderOf(n) /\ n \in strayed'
          /\ UNCHANGED <<flags, beat, running>>
      BY <1>4, <2>2 DEF RemoveRows, MemberInv, FlagsFollow, OrderOf
    <3>. QED BY <3>1 DEF NodeFollows, Up, FlagsSet
  <2>. QED BY <2>1, <2>2
<1>5. CASE Admin
  <2>1. CASE (\E m \in Target, o \in Issued : SendCommand(m, o)) \/ (\E o \in Issued : Broadcast(o))
    BY <1>2, <2>1 DEF SendCommand, Broadcast
  <2>2. CASE (\E m \in Member : DeleteNode(m)) \/ DeleteOfflineNodes
    <3>1. \E ms \in SUBSET Member : RemoveRows(ms)
      BY <2>2 DEF DeleteNode, DeleteOfflineNodes
    <3>. QED BY <1>4, <3>1
  <2>. QED BY <1>3, <1>5, <2>1, <2>2 DEF Admin
<1>6. CASE UNCHANGED memberVars
  BY <1>2, <1>6 DEF memberVars
<1>. QED BY <1>1, <1>5, <1>6 DEF MemberNext

\* The invariant holds when the cluster starts.
LEMMA MembersStart == MemberInit => MemberInv
<1>. SUFFICES ASSUME MemberInit PROVE MemberInv
  OBVIOUS
<1>1. MemberTypeOK /\ CommandInHand
  BY DEF MemberInit, MemberTypeOK, CommandInHand, Gone, NoCmd, Resting
<1>2. ExecutedByOne /\ SentInOrder /\ CommandsInOrder
  BY DEF MemberInit, ExecutedByOne, SentInOrder, CommandsInOrder, NoCmd
<1>3. FlagsFollow
  BY DEF MemberInit, FlagsFollow, NodeFollows, NotStrayed, Up, Between, Held, Gone, Resting
<1>. QED BY <1>1, <1>2, <1>3 DEF MemberInv

\* Every step keeps it.
LEMMA MembersStep == MemberInv /\ [MemberNext]_memberVars => MemberInv'
<1>. SUFFICES ASSUME MemberInv, [MemberNext]_memberVars PROVE MemberInv'
  OBVIOUS
<1>1. MemberTypeOK' /\ CommandInHand'
  BY RegistryTyped, ThreadsTyped, CommandsKept
     DEF ThreadRow, MemberTypeOK, CommandInHand, EntryRow, CmdRow, BeatRow
<1>. QED BY <1>1, ExecutedKept, SentKept, OrderKept, FollowKept DEF MemberInv

\* What was commanded last is what a node's memory and its row both say, unless the node
\* strayed, and a node's commands are carried out one at a time and in the order they were
\* sent: for any number of nodes and commands.
THEOREM OrdersTakeEffect == MemberSpec => []CommandsTakeEffect
<1>1. MemberInv => CommandsTakeEffect
  BY DEF MemberInv, FlagsFollow, NodeFollows, NotStrayed, Held, CommandsTakeEffect, FlagsMatchRow
<1>. QED BY <1>1, MembersStart, MembersStep, PTL DEF MemberSpec

-----------------------------------------------------------------------------
(* Background: a file is queued once, however often the scanner is replaced.   *)

\* The threads and the tables of the scan have their types.
ScanRow == [pc : {"unborn", "rest", "scan", "ended"}, go : BOOLEAN,
            todo : SUBSET ScanFile, handled : SUBSET ScanFile]

ScanTyped ==
  /\ scanner \in [Scanner -> ScanRow]
  /\ latest \in Scanner
  /\ scanned \in SUBSET ScanFile /\ working \in SUBSET ScanFile
  /\ submits \in [ScanFile -> 0 .. MaxSubmits]

\* The threads are started in the order of their numbers.
BornInOrder == \A s \in Scanner : s > latest => scanner[s].pc = "unborn"

\* The watcher, the reload and the configuration have theirs.
ConfTyped ==
  /\ disk \in [version : 0 .. MaxVersion, loads : BOOLEAN]
  /\ loaded \in 0 .. MaxVersion
  /\ watcher \in [pc : {"sleep", "settle", "reload"}, last : 0 .. MaxVersion,
                  stable : 0 .. MaxVersion]
  /\ reload \in [by : {"nobody", "watcher", "api"},
                 pc : {"none", "load", "stop", "join", "done"}]

\* A file for which jobs were added is recorded, or the one scan under way will
\* record it, and a scan has before it only files that it and the table do not know.
ScansApart ==
  ~ overlap /\ ~ aborted =>
    /\ \A s, t \in Scanner : Scanning(s) /\ Scanning(t) => s = t
    /\ \A s \in Scanner : Scanning(s) => scanner[s].todo \cap (scanned \cup scanner[s].handled) = {}
    /\ \A f \in ScanFile :
         submits[f] > 0 => f \in scanned \/ \E s \in Scanner : Scanning(s) /\ f \in scanner[s].handled

BackInv == ScanTyped /\ BornInOrder /\ ConfTyped /\ ScansApart /\ ScannedOnce

-----------------------------------------------------------------------------
\* What becomes of a scanner's row.
LEMMA ScanRows ==
  /\ NotBorn \in ScanRow /\ Newborn \in ScanRow /\ [NotBorn EXCEPT !.pc = "ended"] \in ScanRow
  /\ NotBorn.pc = "unborn" /\ Newborn.pc = "rest" /\ [NotBorn EXCEPT !.pc = "ended"].pc = "ended"
  /\ \A r \in ScanRow :
       /\ [r EXCEPT !.pc = "ended"] \in ScanRow
       /\ [r EXCEPT !.go = FALSE] \in ScanRow /\ [r EXCEPT !.go = FALSE].pc = r.pc
       /\ [r EXCEPT !.pc = "rest", !.handled = {}] \in ScanRow
       /\ [Newborn EXCEPT !.go = r.go] \in ScanRow
       /\ \A T \in SUBSET ScanFile : [r EXCEPT !.pc = "scan", !.todo = T, !.handled = {}] \in ScanRow
       /\ \A T, H \in SUBSET ScanFile : [r EXCEPT !.todo = T, !.handled = H] \in ScanRow
<1>1. ASSUME NEW r \in ScanRow
      PROVE  /\ [r EXCEPT !.pc = "ended"] \in ScanRow /\ [r EXCEPT !.pc = "ended"].pc = "ended"
             /\ [r EXCEPT !.pc = "rest", !.go = TRUE] \in ScanRow
             /\ [r EXCEPT !.pc = "rest", !.go = TRUE].pc = "rest"
             /\ [r EXCEPT !.pc = "rest", !.handled = {}] \in ScanRow
             /\ \A g \in BOOLEAN : [r EXCEPT !.go = g] \in ScanRow /\ [r EXCEPT !.go = g].pc = r.pc
             /\ \A T \in SUBSET ScanFile :
                  [r EXCEPT !.pc = "scan", !.todo = T, !.handled = {}] \in ScanRow
             /\ \A T, H \in SUBSET ScanFile : [r EXCEPT !.todo = T, !.handled = H] \in ScanRow
  BY DEF ScanRow
<1>2. NotBorn \in ScanRow /\ NotBorn.pc = "unborn"
  BY DEF NotBorn, ScanRow
<1>3. Newborn \in ScanRow /\ Newborn.pc = "rest"
  BY <1>1, <1>2 DEF Newborn
<1>4. \A r \in ScanRow : r.go \in BOOLEAN
  BY DEF ScanRow
<1>. QED BY <1>1, <1>2, <1>3, <1>4

\* The invariant of the scans holds when the daemon starts.
LEMMA InitBack == BackInit => BackInv
<1>. SUFFICES ASSUME BackInit PROVE BackInv
  OBVIOUS
<1>0. 1 \in Scanner /\ 0 \in 0 .. MaxSubmits
  BY BackAssumption DEF Scanner
<1>1. ScanTyped
  BY <1>0, ScanRows DEF BackInit, ScanTyped
<1>2. ConfTyped
  BY BackAssumption DEF BackInit, ConfTyped, Asleep, NoReload
<1>3. \A s \in Scanner : ~ Scanning(s)
  BY ScanRows DEF BackInit, Scanning
<1>4. ScansApart /\ ScannedOnce
  BY <1>3 DEF BackInit, ScansApart, ScannedOnce
<1>5. BornInOrder
  <2>1. \A s \in Scanner : s > 1 => scanner[s] = NotBorn
    BY BackAssumption DEF BackInit, Scanner
  <2>. QED BY <2>1, ScanRows DEF BackInit, BornInOrder
<1>. QED BY <1>1, <1>2, <1>4, <1>5 DEF BackInv

\* The scanner threads and their tables keep their types.
LEMMA ScanTypesKept ==
  ASSUME ScanTyped, ConfTyped, [BackNext]_backVars
  PROVE  ScanTyped'
<1>. USE DEF ScanTyped
<1>1. ASSUME NEW s \in Scanner, Walk(s) PROVE ScanTyped'
  BY <1>1, ScanRows DEF Walk, Unscanned
<1>2. ASSUME NEW s \in Scanner, HandleFile(s) PROVE ScanTyped'
  <2>1. PICK f \in scanner[s].todo :
          /\ scanner' = [scanner EXCEPT ![s].todo = @ \ {f}, ![s].handled = Handled(s, f)]
          /\ IF f \in Routed[loaded] \ working
             THEN /\ submits[f] < MaxSubmits
                  /\ submits' = [submits EXCEPT ![f] = @ + 1]
                  /\ working' = working \cup {f}
             ELSE UNCHANGED <<working, submits>>
    BY <1>2 DEF HandleFile
  <2>2. f \in ScanFile /\ scanner[s].todo \ {f} \in SUBSET ScanFile
        /\ Handled(s, f) \in SUBSET ScanFile
    BY DEF Handled, ScanRow
  <2>3. [scanner[s] EXCEPT !.todo = @ \ {f}, !.handled = Handled(s, f)] \in ScanRow
    BY <2>2, ScanRows
  <2>4. submits' \in [ScanFile -> 0 .. MaxSubmits] /\ working' \in SUBSET ScanFile
    <3>1. CASE f \in Routed[loaded] \ working
      <4>1. submits[f] + 1 \in 0 .. MaxSubmits
        BY <2>1, <2>2, <3>1, BackAssumption
      <4>2. submits' = [submits EXCEPT ![f] = @ + 1] /\ working' = working \cup {f}
        BY <2>1, <3>1
      <4>. QED BY <2>2, <4>1, <4>2
    <3>2. CASE ~ (f \in Routed[loaded] \ working)
      BY <2>1, <3>2
    <3>. QED BY <3>1, <3>2
  <2>. QED BY <1>2, <2>1, <2>3, <2>4 DEF HandleFile
<1>3. ASSUME NEW s \in Scanner, Record(s) PROVE ScanTyped'
  <2>1. scanner[s].handled \in SUBSET ScanFile
    BY DEF ScanRow
  <2>. QED BY <1>3, <2>1, ScanRows DEF Record
<1>4. ASSUME NEW s \in Scanner, ScannerEnds(s) PROVE ScanTyped'
  BY <1>4, ScanRows DEF ScannerEnds
<1>5. ASSUME NEW s \in Scanner, ScanRaises(s) PROVE ScanTyped'
  BY <1>5, ScanRows DEF ScanRaises
<1>6. ASSUME NEW f \in ScanFile, JobEnds(f) PROVE ScanTyped'
  BY <1>6 DEF JobEnds
<1>7. CASE EditConfig \/ NoticeEdit \/ Debounce \/ LoadConfig \/ EndReload
  BY <1>7 DEF EditConfig, NoticeEdit, Debounce, LoadConfig, EndReload, scanVars
<1>8. ASSUME NEW by \in {"watcher", "api"}, BeginReload(by) PROVE ScanTyped'
  BY <1>8 DEF BeginReload, scanVars
<1>9. CASE StopScanner
  <2>1. scanner' = [scanner EXCEPT ![latest] = [@ EXCEPT !.go = FALSE]]
    BY <1>9 DEF StopScanner
  <2>2. [scanner[latest] EXCEPT !.go = FALSE] \in ScanRow
    BY ScanRows
  <2>. QED BY <1>9, <2>1, <2>2 DEF StopScanner
<1>10. CASE StartScanner
  <2>1. latest + 1 \in Scanner /\ Scanner \subseteq Nat
    BY <1>10, BackAssumption DEF StartScanner, Scanner, BackAssumption
  <2>. QED BY <1>10, <2>1, ScanRows DEF StartScanner
<1>11. CASE BackCrash
  <2>1. latest + 1 \in Scanner /\ Scanner \subseteq Nat
    BY <1>11, BackAssumption DEF BackCrash, Scanner, BackAssumption
  <2>. QED BY <1>11, <2>1, ScanRows DEF BackCrash
<1>12. CASE UNCHANGED backVars
  BY <1>12 DEF backVars, scanVars
<1>. QED
  BY <1>1, <1>2, <1>3, <1>4, <1>5, <1>6, <1>7, <1>8, <1>9, <1>10, <1>11, <1>12
     DEF BackNext, ScannerStep, ReloadStep

\* The next scanner thread to start is one that never ran.
LEMMA BirthsKept ==
  ASSUME ScanTyped, BornInOrder, [BackNext]_backVars
  PROVE  BornInOrder'
<1>. USE DEF BornInOrder
<1>0. Scanner \subseteq Nat /\ latest \in Nat
  BY BackAssumption DEF Scanner, ScanTyped
<1>1. ASSUME latest' = latest,
             \A s \in Scanner : scanner[s].pc = "unborn" => scanner'[s].pc = "unborn"
      PROVE  BornInOrder'
  BY <1>1
<1>2. ASSUME NEW s \in Scanner,
             Walk(s) \/ HandleFile(s) \/ Record(s) \/ ScannerEnds(s) \/ ScanRaises(s)
      PROVE  BornInOrder'
  <2>1. /\ scanner[s].pc # "unborn" /\ latest' = latest
        /\ \A t \in Scanner : t # s => scanner'[t] = scanner[t]
    BY <1>2 DEF Walk, HandleFile, Record, ScannerEnds, ScanRaises, Scanning, ScanTyped
  <2>. QED BY <1>1, <2>1
<1>3. CASE StopScanner
  <2>1. scanner' = [scanner EXCEPT ![latest] = [@ EXCEPT !.go = FALSE]]
    BY <1>3 DEF StopScanner
  <2>2. \A s \in Scanner : scanner'[s].pc = scanner[s].pc
    BY <2>1, ScanRows DEF ScanTyped
  <2>. QED BY <1>1, <1>3, <2>2 DEF StopScanner
<1>4. CASE StartScanner
  BY <1>0, <1>4 DEF StartScanner, ScanTyped
<1>5. CASE BackCrash
  <2>1. latest' = latest + 1 /\ \A s \in Scanner : s > latest + 1 => scanner'[s] = NotBorn
    BY <1>0, <1>5 DEF BackCrash
  <2>. QED BY <2>1, ScanRows
<1>6. CASE \/ \E f \in ScanFile : JobEnds(f)
           \/ EditConfig \/ NoticeEdit \/ Debounce \/ LoadConfig \/ EndReload
           \/ \E by \in {"watcher", "api"} : BeginReload(by)
           \/ UNCHANGED backVars
  BY <1>1, <1>6 DEF JobEnds, EditConfig, NoticeEdit, Debounce, LoadConfig, EndReload, BeginReload,
                    backVars, scanVars
<1>. QED
  BY <1>2, <1>3, <1>4, <1>5, <1>6 DEF BackNext, ScannerStep, ReloadStep

\* The watcher, the reload and the configuration keep theirs.
LEMMA ConfTypesKept ==
  ASSUME ConfTyped, [BackNext]_backVars
  PROVE  ConfTyped'
<1>. USE BackAssumption DEF ConfTyped
<1>1. CASE UNCHANGED confVars
  BY <1>1 DEF confVars
<1>2. CASE EditConfig
  BY <1>2 DEF EditConfig
<1>3. CASE NoticeEdit \/ Debounce
  BY <1>3 DEF NoticeEdit, Debounce
<1>4. CASE LoadConfig
  BY <1>4 DEF LoadConfig, InForce
<1>5. CASE EndReload
  BY <1>5 DEF EndReload, NoReload
<1>6. ASSUME NEW by \in {"watcher", "api"}, BeginReload(by) PROVE ConfTyped'
  BY <1>6 DEF BeginReload
<1>7. CASE StopScanner \/ StartScanner
  BY <1>7 DEF StopScanner, StartScanner
<1>8. CASE BackCrash
  <2>1. /\ watcher' = [Asleep EXCEPT !.last = disk.version] /\ disk' = disk
        /\ loaded' = disk.version /\ reload' = NoReload
    BY <1>8 DEF BackCrash
  <2>. QED BY <2>1 DEF Asleep, NoReload
<1>. QED
  BY <1>1, <1>2, <1>3, <1>4, <1>5, <1>6, <1>7, <1>8
     DEF BackNext, ScannerStep, ReloadStep, Walk, HandleFile, Record, ScanRaises, ScannerEnds,
         JobEnds, backVars

\* One scan at a time that records what it added jobs for adds them once.
LEMMA ScansKept ==
  ASSUME ScanTyped, BornInOrder, ScansApart, ScannedOnce, [BackNext]_backVars
  PROVE  ScansApart' /\ ScannedOnce'
<1>. SUFFICES ASSUME ~ overlap', ~ aborted' PROVE ScansApart' /\ ScannedOnce'
  BY DEF ScansApart, ScannedOnce
<1>. DEFINE Apart == \A s, t \in Scanner : Scanning(s) /\ Scanning(t) => s = t
            Ahead == \A s \in Scanner :
                       Scanning(s) => scanner[s].todo \cap (scanned \cup scanner[s].handled) = {}
            Known == \A f \in ScanFile :
                       submits[f] > 0 =>
                         f \in scanned \/ \E s \in Scanner : Scanning(s) /\ f \in scanner[s].handled
            Once  == \A f \in ScanFile : submits[f] <= 1
            Good  == Apart /\ Ahead /\ Known /\ Once
<1>. SUFFICES ASSUME ~ overlap /\ ~ aborted => Good PROVE Good'
  BY DEF ScansApart, ScannedOnce
<1>1. ASSUME NEW s \in Scanner, Walk(s) PROVE Good'
  <2>1. ~ overlap /\ ~ aborted /\ \A t \in Scanner : t # s => ~ Scanning(t)
    BY <1>1 DEF Walk
  <2>2. Good /\ ~ Scanning(s)
    BY <1>1, <2>1 DEF Walk, Scanning
  <2>3. /\ \A t \in Scanner : Scanning(t)' => t = s
        /\ scanner'[s].todo = Unscanned /\ scanner'[s].handled = {}
        /\ scanned' = scanned /\ submits' = submits
    BY <1>1, <2>1 DEF Walk, Scanning, ScanTyped, ScanRow
  <2>. QED BY <2>1, <2>2, <2>3 DEF Unscanned
<1>2. ASSUME NEW s \in Scanner, HandleFile(s) PROVE Good'
  <2>1. PICK f \in scanner[s].todo :
          /\ scanner' = [scanner EXCEPT ![s].todo = @ \ {f}, ![s].handled = Handled(s, f)]
          /\ IF f \in Routed[loaded] \ working
             THEN /\ submits[f] < MaxSubmits
                  /\ submits' = [submits EXCEPT ![f] = @ + 1]
                  /\ working' = working \cup {f}
             ELSE UNCHANGED <<working, submits>>
    BY <1>2 DEF HandleFile
  <2>2. /\ Good /\ Scanning(s) /\ scanned' = scanned
        /\ \A t \in Scanner : Scanning(t) => t = s
    BY <1>2 DEF HandleFile
  <2>3. f \in ScanFile /\ f \notin scanned /\ f \notin scanner[s].handled
    BY <2>1, <2>2 DEF ScanTyped, ScanRow
  <2>4. submits[f] = 0 /\ submits[f] \in Nat
    BY <2>2, <2>3 DEF ScanTyped
  <2>5. /\ scanner'[s].todo = scanner[s].todo \ {f} /\ scanner'[s].handled = Handled(s, f)
        /\ \A t \in Scanner : Scanning(t)' <=> Scanning(t)
        /\ \A t \in Scanner : t # s => scanner'[t] = scanner[t]
    <3>1. scanner[s] \in ScanRow /\ scanner \in [Scanner -> ScanRow]
      BY DEF ScanTyped
    <3>2. scanner'[s] = [scanner[s] EXCEPT !.todo = @ \ {f}, !.handled = Handled(s, f)]
          /\ \A t \in Scanner : t # s => scanner'[t] = scanner[t]
      BY <2>1, <3>1
    <3>3. /\ scanner'[s].todo = scanner[s].todo \ {f} /\ scanner'[s].handled = Handled(s, f)
          /\ scanner'[s].pc = scanner[s].pc
      BY <3>1, <3>2 DEF ScanRow
    <3>. QED BY <3>2, <3>3 DEF Scanning
  <2>6. /\ Handled(s, f) \subseteq scanner[s].handled \cup {f}
        /\ scanner[s].handled \subseteq Handled(s, f)
        /\ f \in Routed[loaded] => f \in Handled(s, f)
    BY DEF Handled
  <2>7. Apart' /\ Ahead'
    BY <2>2, <2>5, <2>6
  <2>8. \A g \in ScanFile : g # f => submits'[g] = submits[g]
    BY <2>1 DEF ScanTyped
  <2>9. submits'[f] <= 1 /\ (submits'[f] > 0 => f \in Routed[loaded])
    BY <2>1, <2>3, <2>4 DEF ScanTyped
  <2>10. Known'
    BY <2>2, <2>5, <2>6, <2>8, <2>9
  <2>11. Once'
    BY <2>2, <2>8, <2>9
  <2>. QED BY <2>7, <2>10, <2>11
<1>3. ASSUME NEW s \in Scanner, Record(s) PROVE Good'
  <2>1. /\ Good /\ Scanning(s) /\ scanned' = scanned \cup scanner[s].handled
        /\ submits' = submits
    BY <1>3 DEF Record
  <2>2. \A t \in Scanner : ~ Scanning(t)'
    BY <1>3, <2>1 DEF Record, Scanning, ScanTyped, ScanRow
  <2>3. \A f \in ScanFile : submits[f] > 0 => f \in scanned'
    BY <2>1
  <2>. QED BY <2>1, <2>2, <2>3
<1>4. ASSUME NEW s \in Scanner, ScanRaises(s) PROVE FALSE
  BY <1>4 DEF ScanRaises
<1>5. CASE BackCrash
  <2>1. Good /\ \A t \in Scanner : ~ Scanning(t)
    BY <1>5 DEF BackCrash
  <2>2. \A t \in Scanner : ~ Scanning(t)'
    BY <1>5, ScanRows DEF BackCrash, Scanning
  <2>. QED BY <1>5, <2>1, <2>2 DEF BackCrash
\* The others leave the scans under way, the table and the jobs added alone.
<1>6. ASSUME ~ overlap, ~ aborted, scanned' = scanned, submits' = submits,
             \A t \in Scanner :
               /\ scanner'[t].pc = "scan" <=> scanner[t].pc = "scan"
               /\ scanner[t].pc = "scan" => /\ scanner'[t].todo = scanner[t].todo
                                            /\ scanner'[t].handled = scanner[t].handled
      PROVE  Good'
  <2>1. Apart /\ Ahead /\ Known /\ Once
    BY <1>6
  <2>2. ASSUME NEW s \in Scanner, NEW t \in Scanner, Scanning(s)', Scanning(t)' PROVE s = t
    <3>1. scanner[s].pc = "scan" /\ scanner[t].pc = "scan"
      BY <1>6, <2>2 DEF Scanning
    <3>. QED BY <2>1, <3>1 DEF Scanning
  <2>3. ASSUME NEW s \in Scanner, Scanning(s)'
        PROVE  (scanner[s].todo \cap (scanned \cup scanner[s].handled) = {})'
    <3>1. scanner[s].pc = "scan"
      BY <1>6, <2>3 DEF Scanning
    <3>2. scanner[s].todo \cap (scanned \cup scanner[s].handled) = {}
      BY <2>1, <3>1 DEF Scanning
    <3>3. scanner'[s].todo = scanner[s].todo /\ scanner'[s].handled = scanner[s].handled
      BY <1>6, <3>1
    <3>. QED BY <1>6, <3>2, <3>3
  <2>4. ASSUME NEW f \in ScanFile, submits'[f] > 0, f \notin scanned'
        PROVE  \E s \in Scanner : Scanning(s)' /\ f \in scanner'[s].handled
    <3>1. PICK s \in Scanner : scanner[s].pc = "scan" /\ f \in scanner[s].handled
      BY <1>6, <2>1, <2>4 DEF Scanning
    <3>2. scanner'[s].pc = "scan" /\ scanner'[s].handled = scanner[s].handled
      BY <1>6, <3>1
    <3>. QED BY <3>1, <3>2 DEF Scanning
  <2>5. Once'
    BY <1>6, <2>1
  <2>. QED BY <2>2, <2>3, <2>4, <2>5
<1>7. ASSUME NEW s \in Scanner, ScannerEnds(s) PROVE Good'
  BY <1>6, <1>7 DEF ScannerEnds, Scanning, ScanTyped, ScanRow
<1>8. CASE StopScanner
  BY <1>6, <1>8 DEF StopScanner, Scanning, ScanTyped, ScanRow
<1>9. CASE StartScanner
  <2>1. latest + 1 \in Scanner /\ latest + 1 > latest
    BY <1>9, BackAssumption DEF StartScanner, Scanner, BackAssumption, ScanTyped
  <2>2. /\ ~ Scanning(latest + 1) /\ scanner'[latest + 1] = Newborn
        /\ \A t \in Scanner : t # latest + 1 => scanner'[t] = scanner[t]
    BY <1>9, <2>1 DEF StartScanner, Scanning, ScanTyped, BornInOrder
  <2>. QED BY <1>6, <1>9, <2>2, ScanRows DEF StartScanner, Scanning
<1>10. CASE \/ \E f \in ScanFile : JobEnds(f)
            \/ EditConfig \/ NoticeEdit \/ Debounce \/ LoadConfig \/ EndReload
            \/ \E by \in {"watcher", "api"} : BeginReload(by)
            \/ UNCHANGED backVars
  <2>1. UNCHANGED <<scanner, scanned, submits, overlap, aborted>>
    BY <1>10 DEF JobEnds, EditConfig, NoticeEdit, Debounce, LoadConfig, EndReload, BeginReload,
                 backVars, scanVars
  <2>. QED BY <1>6, <2>1 DEF Scanning
<1>. QED
  BY <1>1, <1>2, <1>3, <1>4, <1>5, <1>7, <1>8, <1>9, <1>10 DEF BackNext, ScannerStep, ReloadStep

\* A scanner adds a job for a file at most once, unless two scanners scanned at a time
\* or a scan was cut short: for every tree, every configuration and any number of reloads.
THEOREM ScansOnce == BackSpec => []ScannedOnce
<1>. USE DEF BackInv
<1>1. BackInv /\ [BackNext]_backVars => BackInv'
  BY ScanTypesKept, BirthsKept, ConfTypesKept, ScansKept
<1>. QED BY InitBack, <1>1, PTL DEF BackSpec

-----------------------------------------------------------------------------
(* The readers of sma-ng.yml.                                              *)

\* A file that the program reads: one of the operator's, with an id written into it or not.
LEMMA FilesRead == \A f \in Files : FileForm(f) /\ f # NotRead
BY FilesForm DEF NotRead, FileForm

\* An id written into a file changes its daemon's block alone.
LEMMA StampedForm ==
  ASSUME NEW f, NEW n, FileForm(f)
  PROVE  /\ FileForm(Stamped(f, n)) /\ Stamped(f, n).form = f.form
         /\ Stamped(f, n).writable = f.writable
         /\ Stamped(f, n).daemon = Over(Set("node_id", n), f.daemon)
<1>1. Stamped(f, n) = [f EXCEPT !.daemon = Over(Set("node_id", n), f.daemon)]
  BY DEF Stamped
<1>2. DOMAIN Stamped(f, n) = DOMAIN f
  BY <1>1
<1>3. \A x \in DOMAIN f \ {"daemon"} : Stamped(f, n)[x] = f[x]
  BY <1>1
<1>. HIDE DEF Stamped
<1>. QED BY <1>1, <1>2, <1>3 DEF FileForm

\* No file is the absence of one.
LEMMA FormNotNone == ASSUME NEW f, FileForm(f) PROVE f # NotRead
BY DEF FileForm, NotRead

\* What each variable holds, as far as the steps need it.
Shapes ==
  /\ FileForm(doc)
  /\ DOMAIN asked = Askers
  /\ \A r \in Askers : DOMAIN asked[r] = {"pc", "media", "profile", "mine", "conv", "settled"}
  /\ DOMAIN tool = {"pc", "media", "args", "profile", "file", "steady", "settings"}
  /\ DOMAIN loader = {"pc", "file", "copy", "fresh", "ok", "clean", "pool"}
  /\ DOMAIN id = {"cached", "server", "made"}
  /\ DOMAIN attrs = {"early", "late"}
  /\ loader.pc \in {"swap", "reset", "apply", "identify", "copy", "write"} =>
       FileForm(loader.file) /\ Loads(loader.file)
  /\ loader.pc = "write" => FileForm(loader.copy)
  /\ cfg # NotRead => FileForm(cfg) /\ Loads(cfg)
  /\ loader.pc \in {"reset", "apply", "identify", "copy", "write", "idle"} => cfg # NotRead

ReadersInv == TypeOK /\ Shapes

\* At the start nothing is loaded.
LEMMA ReadersStart == Init => ReadersInv
<1> SUFFICES ASSUME Init PROVE ReadersInv
  OBVIOUS
<1>1. /\ DOMAIN asked = Askers
      /\ \A r \in Askers : /\ DOMAIN asked[r] = {"pc", "media", "profile", "mine", "conv", "settled"}
                           /\ asked[r].pc = "idle"
                           /\ asked[r].mine = FALSE /\ asked[r].settled = FALSE
  BY DEF Init, NoRequest
<1>2. FileForm(doc)
  BY FilesRead DEF Init
<1>3. DOMAIN tool = {"pc", "media", "args", "profile", "file", "steady", "settings"} /\ tool.pc = "idle"
  BY DEF Init, NoRun
<1>4. DOMAIN loader = {"pc", "file", "copy", "fresh", "ok", "clean", "pool"} /\ loader.pc = "read"
  BY DEF Init, Reading
<1>5. DOMAIN id = {"cached", "server", "made"} /\ id.made = {}
  BY DEF Init, Starting
<1>6. edits \in 0..MaxEdits /\ up = FALSE /\ cfg = NotRead /\ DOMAIN attrs = {"early", "late"}
  BY SomeEdits DEF Init
<1>7. TypeOK
  BY <1>1, <1>3, <1>4, <1>5, <1>6 DEF TypeOK
<1>8. Shapes
  BY <1>1, <1>2, <1>3, <1>4, <1>5, <1>6 DEF Shapes
<1>. QED BY <1>7, <1>8 DEF ReadersInv

\* What a thread of the daemon has in hand, whatever becomes of it.
LEMMA RequestShapes ==
  ASSUME ReadersInv, NEW r \in Askers, RequestStep(r)
  PROVE  ReadersInv'
<1> USE DEF ReadersInv
<1>1. /\ UNCHANGED <<doc, edits, up, cfg, attrs, loader, tool, id>>
      /\ DOMAIN asked' = Askers
      /\ \A q \in Askers \ {r} : asked'[q] = asked[q]
  BY DEF RequestStep, Ask, Fetch, Merge, MergeBase, Store, TypeOK
<1>2. /\ DOMAIN asked'[r] = {"pc", "media", "profile", "mine", "conv", "settled"}
      /\ asked'[r].pc \in {"idle", "routed", "fetched", "unknown", "merged", "answered"}
      /\ asked'[r].mine \in BOOLEAN /\ asked'[r].settled \in BOOLEAN
  <2>1. CASE Ask(r)
    BY <2>1 DEF Ask, TypeOK, Shapes, NoRequest
  <2>2. CASE Fetch(r)
    BY <2>2 DEF Fetch, TypeOK, Shapes
  <2>3. CASE Merge(r)
    BY <2>3 DEF Merge, TypeOK, Shapes
  <2>4. CASE MergeBase(r)
    BY <2>4 DEF MergeBase, TypeOK, Shapes
  <2>5. CASE Store(r)
    BY <2>5 DEF Store, TypeOK, Shapes
  <2>. QED BY <2>1, <2>2, <2>3, <2>4, <2>5 DEF RequestStep
<1>3. TypeOK'
  BY <1>1, <1>2 DEF TypeOK
<1>4. Shapes'
  BY <1>1, <1>2 DEF Shapes
<1>. QED BY <1>3, <1>4

\* A load changes its own state, what is in force, the id and the file.
LEMMA LoadShapes == ASSUME ReadersInv, Load PROVE ReadersInv'
<1> USE DEF ReadersInv
<1>1. CASE Read
  <2>1. loader'.file = doc /\ DOMAIN loader' = DOMAIN loader
        /\ \/ loader'.pc = "swap" /\ Loads(doc)
           \/ loader'.pc = IF up THEN "idle" ELSE "stopped"
    BY <1>1 DEF Read, Ended, Shapes
  <2>. QED BY <1>1, <2>1 DEF Read, TypeOK, Shapes
<1>2. CASE Swap
  <2>1. /\ DOMAIN asked' = Askers
        /\ \A r \in Askers : /\ DOMAIN asked'[r] = DOMAIN asked[r]
                             /\ asked'[r].pc = asked[r].pc /\ asked'[r].mine = asked[r].mine
                             /\ asked'[r].settled = FALSE
    BY <1>2 DEF Swap, Unsettled, TypeOK, Shapes
  <2>2. DOMAIN loader' = DOMAIN loader /\ loader'.pc = "reset" /\ loader'.file = loader.file
    BY <1>2 DEF Swap, Shapes
  <2>3. FileForm(loader.file) /\ Loads(loader.file) /\ loader.file # NotRead
    BY <1>2, FormNotNone DEF Swap, Shapes
  <2>. QED BY <1>2, <2>1, <2>2, <2>3 DEF Swap, TypeOK, Shapes
<1>3. CASE Reset
  <2>1. /\ DOMAIN asked' = Askers
        /\ \A r \in Askers : /\ DOMAIN asked'[r] = DOMAIN asked[r]
                             /\ asked'[r].pc = asked[r].pc /\ asked'[r].mine = FALSE
                             /\ asked'[r].settled = FALSE
    BY <1>3 DEF Reset, TypeOK, Shapes
  <2>2. DOMAIN loader' = DOMAIN loader /\ loader'.pc = "apply" /\ loader'.file = loader.file
    BY <1>3 DEF Reset, Shapes
  <2>. QED BY <1>3, <2>1, <2>2 DEF Reset, TypeOK, Shapes
<1>4. CASE Apply
  <2>1. /\ DOMAIN loader' = DOMAIN loader /\ loader'.file = loader.file
        /\ loader'.pc \in {IF up THEN "idle" ELSE "stopped", "identify"}
        /\ DOMAIN attrs' = {"early", "late"}
    BY <1>4 DEF Apply, Ended, Shapes
  <2>. QED BY <1>4, <2>1 DEF Apply, TypeOK, Shapes
<1>5. CASE ResolveId
  <2>1. /\ DOMAIN loader' = DOMAIN loader /\ loader'.file = loader.file
        /\ loader'.pc \in {"idle", "copy"}
        /\ DOMAIN id' = DOMAIN id /\ id'.made \subseteq Ids
    <3>1. CASE id' = [id EXCEPT !.cached = GivenId(loader.file)] /\ loader' = Loaded
      BY <3>1 DEF Loaded, TypeOK, Shapes
    <3>2. ASSUME NEW n \in Ids, id' = [id EXCEPT !.made = id.made \cup {n}],
                 loader' = [loader EXCEPT !.pc = "copy", !.fresh = n]
          PROVE  <2>1
      BY <3>2 DEF TypeOK, Shapes
    <3>. QED BY <1>5, <3>1, <3>2 DEF ResolveId
  <2>. QED BY <1>5, <2>1 DEF ResolveId, TypeOK, Shapes
<1>6. CASE Copy
  <2>1. /\ DOMAIN loader' = DOMAIN loader /\ loader'.file = loader.file
        /\ loader'.pc \in {"idle", "write"}
        /\ loader'.pc = "write" => loader'.copy = doc
        /\ DOMAIN id' = DOMAIN id /\ id'.made = id.made
    BY <1>6 DEF Copy, Loaded, TypeOK, Shapes
  <2>. QED BY <1>6, <2>1 DEF Copy, TypeOK, Shapes
<1>7. CASE Write
  <2>1. /\ DOMAIN loader' = DOMAIN loader /\ loader'.pc = "idle"
        /\ DOMAIN id' = DOMAIN id /\ id'.made = id.made
        /\ DOMAIN tool' = DOMAIN tool /\ tool'.pc = tool.pc
    BY <1>7 DEF Write, Loaded, Overtaken, TypeOK, Shapes
  <2>2. FileForm(doc')
    BY <1>7, StampedForm DEF Write, Shapes
  <2>. QED BY <1>7, <2>1, <2>2 DEF Write, TypeOK, Shapes
<1>. QED BY <1>1, <1>2, <1>3, <1>4, <1>5, <1>6, <1>7 DEF Load

\* Every step keeps the shapes.
LEMMA ReadersStep == ReadersInv /\ [Next]_vars => ReadersInv'
<1> SUFFICES ASSUME ReadersInv, [Next]_vars PROVE ReadersInv'
  OBVIOUS
<1>1. CASE Load
  BY <1>1, LoadShapes
<1>2. CASE \E r \in Askers : RequestStep(r)
  BY <1>2, RequestShapes
<1>3. CASE Serve
  BY <1>3 DEF Serve, ReadersInv, TypeOK, Shapes
<1>4. CASE Reload
  BY <1>4 DEF Reload, Reading, ReadersInv, TypeOK, Shapes
<1>5. CASE Restart
  BY <1>5 DEF Restart, Reading, Starting, NoRequest, ReadersInv, TypeOK, Shapes
<1>6. CASE Route
  <2>1. DOMAIN tool' = DOMAIN tool /\ tool'.pc = "routed"
    BY <1>6 DEF Route, NoRun, ReadersInv, Shapes
  <2>. QED BY <1>6, <2>1 DEF Route, ReadersInv, TypeOK, Shapes
<1>7. CASE Construct
  <2>1. DOMAIN tool' = DOMAIN tool /\ tool'.pc \in {"ready", "failed"}
    BY <1>7 DEF Construct, ReadersInv, Shapes
  <2>. QED BY <1>7, <2>1 DEF Construct, ReadersInv, TypeOK, Shapes
<1>8. CASE Edit
  <2>1. /\ DOMAIN tool' = DOMAIN tool /\ tool'.pc = tool.pc
        /\ DOMAIN loader' = DOMAIN loader /\ loader'.pc = loader.pc
        /\ loader'.file = loader.file /\ loader'.copy = loader.copy
        /\ edits' \in 0..MaxEdits /\ FileForm(doc')
    BY <1>8, FilesRead, SomeEdits DEF Edit, Overtaken, ReadersInv, TypeOK, Shapes
  <2>. QED BY <1>8, <2>1 DEF Edit, ReadersInv, TypeOK, Shapes
<1>9. CASE PushConfig
  BY <1>9 DEF PushConfig, ReadersInv, TypeOK, Shapes
<1>10. CASE UNCHANGED vars
  BY <1>10 DEF vars, ReadersInv, TypeOK, Shapes
<1>. QED BY <1>1, <1>2, <1>3, <1>4, <1>5, <1>6, <1>7, <1>8, <1>9, <1>10 DEF Next

\* The shapes hold in every behaviour.
LEMMA ReadersInvariant == Spec => []ReadersInv
BY ReadersStart, ReadersStep, PTL DEF Spec

\* PathConfigManager, DaemonServer, manual.py: whatever is edited, loaded, restarted and asked
\* for, every variable keeps its shape, and no daemon serves without a configuration.
THEOREM ReadersTyped == Spec => []TypeOK
<1>1. ReadersInv => TypeOK
  BY DEF ReadersInv
<1>. QED BY <1>1, ReadersInvariant, PTL

-----------------------------------------------------------------------------
(* The cache of converter settings.                                        *)

Gave(p) == ConverterOf(Resolved(cfg, IF HasProfile(cfg, p) THEN p ELSE Bare))

\* CacheCurrent, and of a thread that may still store: what it has in hand is what the
\* configuration in force gives, unless a load is about to take the cache from it.
CacheInv ==
  loader.pc # "reset" =>
    /\ \A p \in DOMAIN cache : cache[p] = Gave(p)
    /\ \A r \in Askers :
         asked[r].mine =>
           /\ asked[r].pc = "merged" => asked[r].conv = Gave(asked[r].profile)
           /\ asked[r].pc = "unknown" => ~HasProfile(cfg, asked[r].profile)

\* At the start the cache is empty.
LEMMA CacheStart == Init => CacheInv
BY DEF Init, CacheInv, NoLayer, NoRequest, Reading

\* No profile is the base alone.
LEMMA BaseGiven == Resolved(cfg, Bare) = BaseOf(cfg)
BY DEF Resolved

\* Every step keeps the cache current, one step of the proof per action that touches it.
LEMMA CacheStep == ReadersInv /\ CacheInv /\ [Next]_vars => CacheInv'
<1> SUFFICES ASSUME ReadersInv, CacheInv, [Next]_vars, loader'.pc # "reset" PROVE CacheInv'
  BY DEF CacheInv
<1> USE DEF ReadersInv
<1>1. CASE Reset
  <2>1. DOMAIN cache' = {} /\ \A r \in Askers : asked'[r].mine = FALSE
    BY <1>1 DEF Reset, NoLayer, Shapes
  <2>. QED BY <2>1 DEF CacheInv
<1>2. CASE Restart
  <2>1. DOMAIN cache' = {} /\ \A r \in Askers : asked'[r].mine = FALSE
    BY <1>2 DEF Restart, NoLayer, NoRequest
  <2>. QED BY <2>1 DEF CacheInv
<1>3. CASE Swap
  BY <1>3 DEF Swap, Shapes
<1>4. CASE UNCHANGED <<cfg, cache, asked>> /\ loader.pc # "reset"
  BY <1>4 DEF CacheInv, Gave
<1>5. CASE \/ Read \/ Apply \/ ResolveId \/ Copy \/ Write \/ Serve \/ Reload \/ Route \/ Construct
           \/ Edit \/ PushConfig \/ UNCHANGED vars
  <2>1. UNCHANGED <<cfg, cache, asked>>
    BY <1>5 DEF Read, Apply, ResolveId, Copy, Write, Serve, Reload, Route, Construct, Edit,
                PushConfig, vars
  <2>2. loader.pc # "reset"
    BY <1>5 DEF Read, Apply, ResolveId, Copy, Write, Serve, Reload, Route, Construct, Edit,
                PushConfig, vars, Shapes
  <2>. QED BY <2>1, <2>2, <1>4
<1>6. ASSUME NEW r \in Askers, RequestStep(r) PROVE CacheInv'
  <2>1. /\ UNCHANGED <<cfg, loader>> /\ loader.pc # "reset"
        /\ \A q \in Askers \ {r} : asked'[q] = asked[q]
    BY <1>6 DEF RequestStep, Ask, Fetch, Merge, MergeBase, Store, TypeOK
  <2>2. ASSUME cache' = cache,
               asked'[r].mine => /\ asked'[r].pc = "merged" => asked'[r].conv = Gave(asked'[r].profile)
                                 /\ asked'[r].pc = "unknown" => ~HasProfile(cfg, asked'[r].profile)
        PROVE  CacheInv'
    BY <2>1, <2>2 DEF CacheInv, Gave
  <2>3. CASE Ask(r)
    BY <2>2, <2>3 DEF Ask, NoRequest, TypeOK
  <2>4. CASE Fetch(r)
    BY <2>2, <2>4 DEF Fetch, TypeOK, Shapes
  <2>5. CASE Merge(r)
    <3>1. /\ asked'[r].profile = asked[r].profile
          /\ IF HasProfile(cfg, asked[r].profile)
             THEN asked'[r].pc = "merged" /\ asked'[r].conv = ConverterOf(Resolved(cfg, asked[r].profile))
             ELSE asked'[r].pc = "unknown"
      BY <2>5 DEF Merge, TypeOK, Shapes
    <3>2. cache' = cache
      BY <2>5 DEF Merge
    <3>. QED BY <2>2, <3>1, <3>2 DEF Gave
  <2>6. CASE MergeBase(r)
    <3>1. /\ asked'[r].profile = asked[r].profile /\ asked'[r].mine = asked[r].mine
          /\ asked'[r].pc = "merged" /\ asked'[r].conv = ConverterOf(BaseOf(cfg))
          /\ asked[r].pc = "unknown" /\ cache' = cache
      BY <2>6 DEF MergeBase, TypeOK, Shapes
    <3>2. asked[r].mine => ~HasProfile(cfg, asked[r].profile)
      BY <2>1, <3>1 DEF CacheInv
    <3>. QED BY <2>2, <3>1, <3>2, BaseGiven DEF Gave
  <2>7. CASE Store(r)
    <3>1. asked[r].pc = "merged" /\ asked'[r].pc = "answered"
      BY <2>7 DEF Store, TypeOK, Shapes
    <3>2. CASE ~asked[r].mine
      BY <2>2, <2>7, <3>1, <3>2 DEF Store
    <3>3. CASE asked[r].mine
      <4>1. cache' = Over(Set(asked[r].profile, asked[r].conv), cache)
        BY <2>7, <3>3 DEF Store
      <4>2. \A p \in DOMAIN cache' :
              cache'[p] = IF p = asked[r].profile THEN asked[r].conv ELSE cache[p]
        BY <4>1 DEF Over, Set, Gives
      <4>3. \A p \in DOMAIN cache' \ {asked[r].profile} : p \in DOMAIN cache
        BY <4>1 DEF Over, Set, Gives
      <4>4. asked[r].conv = Gave(asked[r].profile)
        BY <2>1, <3>1, <3>3 DEF CacheInv
      <4>5. \A p \in DOMAIN cache' : cache'[p] = Gave(p)
        BY <2>1, <4>2, <4>3, <4>4 DEF CacheInv
      <4>. QED BY <2>1, <3>1, <4>5 DEF CacheInv, Gave
    <3>. QED BY <3>2, <3>3
  <2>. QED BY <1>6, <2>3, <2>4, <2>5, <2>6, <2>7 DEF RequestStep
<1>. QED BY <1>1, <1>2, <1>3, <1>5, <1>6 DEF Next, Load

\* _converter_for_path, load_config: outside the two assignments of a load, the cache of
\* converter settings holds what the configuration in force gives, for any files, any number
\* of threads and any number of reloads and edits.
THEOREM CacheIsCurrent == Spec => []CacheCurrent
<1>1. CacheInv => CacheCurrent
  BY DEF CacheInv, CacheCurrent, Gave
<1>2. Spec => [](ReadersInv /\ CacheInv)
  BY ReadersStart, ReadersStep, CacheStart, CacheStep, PTL DEF Spec
<1>. QED BY <1>1, <1>2, PTL

-----------------------------------------------------------------------------
(* Layers.                                                                 *)

\* Two layers say the same of an option.
Same(k, l, o) == (Gives(k, o) <=> Gives(l, o)) /\ (Gives(l, o) => k[o] = l[o])

\* _migrate_software_fallback, option by option.
LEMMA PolicyIs ==
  ASSUME NEW l
  PROVE  LET k == PolicyRead(l) IN
         /\ \A o : o \notin {"fallback-policy", "software-fallback"} => Same(k, l, o)
         /\ Gives(l, "fallback-policy") => Same(k, l, "fallback-policy")
         /\ ~Gives(l, "fallback-policy") =>
              /\ Gives(k, "fallback-policy") <=>
                   Gives(l, "software-fallback") /\ l["software-fallback"] # "null"
              /\ Gives(k, "fallback-policy") =>
                   k["fallback-policy"] = IF l["software-fallback"] = "true" THEN "aggressive"
                                          ELSE "hw_only"
<1> DEFINE rest == LeaveOut(l, {"software-fallback"})
           v == IF l["software-fallback"] = "true" THEN "aggressive" ELSE "hw_only"
<1>1. CASE Gives(l, "fallback-policy") \/ ~Gives(l, "software-fallback") \/ l["software-fallback"] = "null"
  <2>1. PolicyRead(l) = rest
    BY <1>1 DEF PolicyRead
  <2>. QED BY <1>1, <2>1 DEF LeaveOut, Same, Gives
<1>2. CASE ~Gives(l, "fallback-policy") /\ Gives(l, "software-fallback") /\ l["software-fallback"] # "null"
  <2>1. PolicyRead(l) = Over(Set("fallback-policy", v), rest)
    BY <1>2 DEF PolicyRead
  <2>2. DOMAIN PolicyRead(l) = {"fallback-policy"} \cup (DOMAIN l \ {"software-fallback"})
    BY <2>1 DEF Over, Set, LeaveOut, Gives
  <2>3. PolicyRead(l)["fallback-policy"] = v
    BY <2>1 DEF Over, Set, Gives
  <2>4. \A o \in DOMAIN l \ {"software-fallback", "fallback-policy"} : PolicyRead(l)[o] = l[o]
    BY <2>1 DEF Over, Set, LeaveOut, Gives
  <2>. QED BY <1>2, <2>2, <2>3, <2>4 DEF Same, Gives
<1>. QED BY <1>1, <1>2

\* _stringify_chmod, option by option.
LEMMA ModeIs ==
  ASSUME NEW l
  PROVE  LET k == ModeRead(l) IN
         /\ \A o : o \notin {"chmod", "mode"} => Same(k, l, o)
         /\ Gives(k, "chmod") <=> Gives(l, "chmod") \/ Gives(l, "mode")
         /\ Gives(k, "chmod") =>
              k["chmod"] = IF ModeGiven(l) = "text" THEN "0664" ELSE ModeGiven(l)
<1>1. CASE ~Gives(l, "chmod") /\ ~Gives(l, "mode")
  BY <1>1 DEF ModeRead, Same
<1>2. CASE Gives(l, "chmod") \/ Gives(l, "mode")
  <2> DEFINE v == IF ModeGiven(l) = "text" THEN "0664" ELSE ModeGiven(l)
  <2>1. ModeRead(l) = Over(Set("chmod", v), LeaveOut(l, {"mode"}))
    BY <1>2 DEF ModeRead
  <2>2. DOMAIN ModeRead(l) = {"chmod"} \cup (DOMAIN l \ {"mode"})
    BY <2>1 DEF Over, Set, LeaveOut, Gives
  <2>3. ModeRead(l)["chmod"] = v
    BY <2>1 DEF Over, Set, Gives
  <2>4. \A o \in DOMAIN l \ {"chmod", "mode"} : ModeRead(l)[o] = l[o]
    BY <2>1 DEF Over, Set, LeaveOut, Gives
  <2>. QED BY <1>2, <2>2, <2>3, <2>4 DEF Same, Gives
<1>. QED BY <1>1, <1>2

\* What one encoder's block gains and nothing else loses.
LEMMA LiftedIs ==
  ASSUME NEW l, NEW block, NEW only
  PROVE  LET k == Lifted(l, block, only) IN
         /\ \A o : o # block => Same(k, l, o)
         /\ DOMAIN l \subseteq DOMAIN k
         /\ FlagsIn(k, block) = FlagsIn(l, block) \cup (FlagsIn(l, "codec-parameters") \cap only)
<1> DEFINE taken == FlagsIn(l, "codec-parameters") \cap only
           v == FlagsIn(l, block) \cup taken
<1>1. CASE taken = {}
  BY <1>1 DEF Lifted, Same, FlagsIn
<1>2. CASE taken # {}
  <2>1. Lifted(l, block, only) = Over(Set(block, v), l)
    BY <1>2 DEF Lifted
  <2>2. DOMAIN Lifted(l, block, only) = {block} \cup DOMAIN l
    BY <2>1 DEF Over, Set, Gives
  <2>3. Lifted(l, block, only)[block] = v
    BY <2>1 DEF Over, Set, Gives
  <2>4. \A o \in DOMAIN l \ {block} : Lifted(l, block, only)[o] = l[o]
    BY <2>1 DEF Over, Set, Gives
  <2>. QED BY <2>2, <2>3, <2>4 DEF Same, Gives, FlagsIn
<1>. QED BY <1>1, <1>2

Shared == "codec-parameters"
Qsv == "qsv.codec-parameters"
Vaapi == "vaapi.codec-parameters"

\* _migrate_encoder_flags, option by option.
LEMMA FlagsReadIs ==
  ASSUME NEW l
  PROVE  LET k == FlagsRead(l) IN
         /\ \A o : o \notin {Shared, Qsv, Vaapi} => Same(k, l, o)
         /\ DOMAIN l \subseteq DOMAIN k
         /\ FlagsIn(k, Shared) = FlagsIn(l, Shared) \ (QsvOnly \cup VaapiOnly)
         /\ FlagsIn(k, Qsv) = FlagsIn(l, Qsv) \cup (FlagsIn(l, Shared) \cap QsvOnly)
         /\ FlagsIn(k, Vaapi) = FlagsIn(l, Vaapi) \cup (FlagsIn(l, Shared) \cap VaapiOnly)
<1> USE DEF Shared, Qsv, Vaapi
<1>1. CASE FlagsIn(l, Shared) \cap (QsvOnly \cup VaapiOnly) = {}
  <2>1. FlagsRead(l) = l
    BY <1>1 DEF FlagsRead
  <2>2. \A o : Same(l, l, o)
    BY DEF Same
  <2>. QED BY <1>1, <2>1, <2>2
<1>2. CASE FlagsIn(l, Shared) \cap (QsvOnly \cup VaapiOnly) # {}
  <2> DEFINE q == Lifted(l, Qsv, QsvOnly)
             w == Lifted(q, Vaapi, VaapiOnly)
             v == l[Shared] \ (QsvOnly \cup VaapiOnly)
  <2>1. FlagsRead(l) = Over(Set(Shared, v), w)
    BY <1>2 DEF FlagsRead
  <2>2. Gives(l, Shared)
    BY <1>2 DEF FlagsIn
  <2>3. /\ \A o : o # Qsv => Same(q, l, o)
        /\ DOMAIN l \subseteq DOMAIN q
        /\ FlagsIn(q, Qsv) = FlagsIn(l, Qsv) \cup (FlagsIn(l, Shared) \cap QsvOnly)
    BY LiftedIs
  <2>4. FlagsIn(q, Shared) = FlagsIn(l, Shared)
    BY <2>3 DEF Same, FlagsIn
  <2>5. /\ \A o : o # Vaapi => Same(w, q, o)
        /\ DOMAIN q \subseteq DOMAIN w
        /\ FlagsIn(w, Vaapi) = FlagsIn(q, Vaapi) \cup (FlagsIn(q, Shared) \cap VaapiOnly)
    BY LiftedIs
  <2> HIDE DEF q, w
  <2>6. FlagsIn(w, Qsv) = FlagsIn(q, Qsv) /\ FlagsIn(q, Vaapi) = FlagsIn(l, Vaapi)
    BY <2>3, <2>5 DEF Same, FlagsIn
  <2> DEFINE k == FlagsRead(l)
  <2>7. /\ DOMAIN k = {Shared} \cup DOMAIN w /\ k[Shared] = v
        /\ \A o \in DOMAIN w \ {Shared} : k[o] = w[o]
    BY <2>1 DEF Over, Set, Gives
  <2> HIDE DEF k
  <2>8. \A o : o # Shared => Same(k, w, o)
    BY <2>7 DEF Same, Gives
  <2>9. FlagsIn(k, Shared) = FlagsIn(l, Shared) \ (QsvOnly \cup VaapiOnly)
    BY <2>2, <2>7 DEF FlagsIn, Gives
  <2>10. FlagsIn(k, Qsv) = FlagsIn(w, Qsv) /\ FlagsIn(k, Vaapi) = FlagsIn(w, Vaapi)
    BY <2>8 DEF Same, FlagsIn
  <2>11. \A o : o \notin {Shared, Qsv, Vaapi} => Same(k, l, o)
    BY <2>3, <2>5, <2>8 DEF Same
  <2>12. DOMAIN l \subseteq DOMAIN k
    BY <2>3, <2>5, <2>7
  <2>. QED BY <2>3, <2>4, <2>5, <2>6, <2>9, <2>10, <2>11, <2>12 DEF k
<1>. QED BY <1>1, <1>2

Moved == {"fallback-policy", "software-fallback", "chmod", "mode", Shared, Qsv, Vaapi}

\* What the validators leave of a layer, option by option.
LEMMA SectionsAre ==
  ASSUME NEW l
  PROVE  LET k == SectionsRead(l) IN
         /\ \A o : o \notin Moved => Same(k, l, o)
         /\ DOMAIN l \ {"software-fallback", "mode"} \subseteq DOMAIN k
         /\ Gives(l, "fallback-policy") => Same(k, l, "fallback-policy")
         /\ ~Gives(l, "fallback-policy") =>
              /\ Gives(k, "fallback-policy") <=>
                   Gives(l, "software-fallback") /\ l["software-fallback"] # "null"
              /\ Gives(k, "fallback-policy") =>
                   k["fallback-policy"] = IF l["software-fallback"] = "true" THEN "aggressive"
                                          ELSE "hw_only"
         /\ Gives(k, "chmod") <=> Gives(l, "chmod") \/ Gives(l, "mode")
         /\ Gives(k, "chmod") =>
              k["chmod"] = IF ModeGiven(l) = "text" THEN "0664" ELSE ModeGiven(l)
         /\ FlagsIn(k, Shared) = FlagsIn(l, Shared) \ (QsvOnly \cup VaapiOnly)
         /\ FlagsIn(k, Qsv) = FlagsIn(l, Qsv) \cup (FlagsIn(l, Shared) \cap QsvOnly)
         /\ FlagsIn(k, Vaapi) = FlagsIn(l, Vaapi) \cup (FlagsIn(l, Shared) \cap VaapiOnly)
<1> DEFINE a == PolicyRead(l)  b == ModeRead(a)  k == FlagsRead(b)
<1>1. SectionsRead(l) = k
  BY DEF SectionsRead
<1>2. /\ \A o : o \notin {"fallback-policy", "software-fallback"} => Same(a, l, o)
      /\ Gives(l, "fallback-policy") => Same(a, l, "fallback-policy")
      /\ ~Gives(l, "fallback-policy") =>
           /\ Gives(a, "fallback-policy") <=>
                Gives(l, "software-fallback") /\ l["software-fallback"] # "null"
           /\ Gives(a, "fallback-policy") =>
                a["fallback-policy"] = IF l["software-fallback"] = "true" THEN "aggressive"
                                       ELSE "hw_only"
  BY PolicyIs
<1> HIDE DEF a
<1>3. /\ \A o : o \notin {"chmod", "mode"} => Same(b, a, o)
      /\ Gives(b, "chmod") <=> Gives(a, "chmod") \/ Gives(a, "mode")
      /\ Gives(b, "chmod") => b["chmod"] = IF ModeGiven(a) = "text" THEN "0664" ELSE ModeGiven(a)
  BY ModeIs
<1> HIDE DEF b
<1>4. /\ \A o : o \notin {Shared, Qsv, Vaapi} => Same(k, b, o)
      /\ DOMAIN b \subseteq DOMAIN k
      /\ FlagsIn(k, Shared) = FlagsIn(b, Shared) \ (QsvOnly \cup VaapiOnly)
      /\ FlagsIn(k, Qsv) = FlagsIn(b, Qsv) \cup (FlagsIn(b, Shared) \cap QsvOnly)
      /\ FlagsIn(k, Vaapi) = FlagsIn(b, Vaapi) \cup (FlagsIn(b, Shared) \cap VaapiOnly)
  BY FlagsReadIs
<1> HIDE DEF k
<1>5. Same(a, l, "chmod") /\ Same(a, l, "mode") /\ ModeGiven(a) = IF Gives(l, "chmod") THEN l["chmod"] ELSE a["mode"]
  BY <1>2 DEF Same, ModeGiven
<1>6. Gives(l, "chmod") \/ Gives(l, "mode") => ModeGiven(a) = ModeGiven(l)
  BY <1>5 DEF Same, ModeGiven
<1>7. \A o : o \notin Moved => Same(k, l, o)
  BY <1>2, <1>3, <1>4 DEF Moved, Same
<1>8. Same(k, a, "fallback-policy")
  BY <1>3, <1>4 DEF Same, Shared, Qsv, Vaapi
<1>9. Same(k, b, "chmod")
  BY <1>4 DEF Shared, Qsv, Vaapi
<1>10. \A o \in {Shared, Qsv, Vaapi} : FlagsIn(b, o) = FlagsIn(l, o)
  BY <1>2, <1>3 DEF Same, FlagsIn, Shared, Qsv, Vaapi
<1>11. DOMAIN l \ {"software-fallback", "mode"} \subseteq DOMAIN k
  BY <1>2, <1>3, <1>4, <1>5 DEF Same, Gives
<1>12. /\ Gives(l, "fallback-policy") => Same(k, l, "fallback-policy")
       /\ ~Gives(l, "fallback-policy") =>
            /\ Gives(k, "fallback-policy") <=>
                 Gives(l, "software-fallback") /\ l["software-fallback"] # "null"
            /\ Gives(k, "fallback-policy") =>
                 k["fallback-policy"] = IF l["software-fallback"] = "true" THEN "aggressive"
                                        ELSE "hw_only"
  BY <1>2, <1>8 DEF Same
<1>13. /\ Gives(k, "chmod") <=> Gives(l, "chmod") \/ Gives(l, "mode")
       /\ Gives(k, "chmod") =>
            k["chmod"] = IF ModeGiven(l) = "text" THEN "0664" ELSE ModeGiven(l)
  BY <1>3, <1>5, <1>6, <1>9 DEF Same
<1>. QED BY <1>1, <1>4, <1>7, <1>10, <1>11, <1>12, <1>13 DEF k

\* _propagate_universal_audio_shortcut, option by option.
LEMMA ShortcutIs ==
  ASSUME NEW l
  PROVE  LET k == ShortcutRead(l) IN
         /\ \A o : o # "universal.enabled" => Same(k, l, o)
         /\ DOMAIN l \subseteq DOMAIN k
         /\ IF Gives(l, "universal-audio") /\ l["universal-audio"] # "null"
            THEN Gives(k, "universal.enabled") /\ k["universal.enabled"] = l["universal-audio"]
            ELSE k = l
<1>1. CASE Gives(l, "universal-audio") /\ l["universal-audio"] # "null"
  <2>1. ShortcutRead(l) = Over(Set("universal.enabled", l["universal-audio"]), l)
    BY <1>1 DEF ShortcutRead
  <2>. QED BY <1>1, <2>1 DEF Over, Set, Gives, Same
<1>2. CASE ~(Gives(l, "universal-audio") /\ l["universal-audio"] # "null")
  <2>1. ShortcutRead(l) = l
    BY <1>2 DEF ShortcutRead
  <2>. QED BY <1>2, <2>1 DEF Same
<1>. QED BY <1>1, <1>2

\* A merge says of an option what the upper layer says, or else the lower.
LEMMA OverSays ==
  ASSUME NEW u, NEW l
  PROVE  /\ DOMAIN Over(u, l) = DOMAIN u \cup DOMAIN l
         /\ \A o : Gives(u, o) => Same(Over(u, l), u, o)
         /\ \A o : ~Gives(u, o) => Same(Over(u, l), l, o)
         /\ \A o : Gives(u, o) \/ Gives(l, o) => Gives(Over(u, l), o)
BY DEF Over, Gives, Same

\* The schema's defaults that the proofs look at.
LEMMA DefaultsAre ==
  /\ {"fallback-policy", "chmod", "universal.enabled", "universal-audio", "gpu", "hwaccels",
      "codec", "output-extension", "force-convert", "force-reencode", "qsv.low-power",
      "process-same-extensions", Shared, Qsv, Vaapi} \subseteq DOMAIN Default
  /\ Default["chmod"] = "0664" /\ Default["universal-audio"] = "null"
  /\ Default[Shared] = {} /\ Default[Qsv] = {} /\ Default[Vaapi] = {}
  /\ "software-fallback" \notin DOMAIN Default /\ "mode" \notin DOMAIN Default
<1> DEFINE d0 == Over(Set("codec", <<"h265">>), Set("subtitle.codec", <<"mov_text">>))
           d1 == Over(Others, d0)
           d2 == Over(Flags, d1)
           d3 == Over(Switches, d2)
<1>1. Default = Over(Text, d3)
  BY DEF Default
<1>2. DOMAIN d0 = {"codec", "subtitle.codec"}
  BY DEF Over, Set
<1>3. /\ DOMAIN Others = {"fallback-policy", "chmod", "output-format", "output-extension",
                          "delete-original", "tag", "minimum-size", "qsv.low-power",
                          "universal-audio"}
      /\ Others["chmod"] = "0664" /\ Others["universal-audio"] = "null"
  BY DEF Others
<1>4. /\ DOMAIN Flags = {Shared, Qsv, Vaapi, "hwaccels"}
      /\ \A o \in DOMAIN Flags : Flags[o] = {}
  BY DEF Flags, Shared, Qsv, Vaapi
<1>5. DOMAIN Switches = {"force-convert", "force-reencode", "process-same-extensions",
                         "post-process", "universal.enabled"}
  BY DEF Switches
<1>6. DOMAIN Text = {"output-directory", "move-to", "copy-to", "gpu"}
  BY DEF Text
<1> HIDE DEF d0
<1>7. /\ DOMAIN d1 = DOMAIN Others \cup DOMAIN d0 /\ \A o \in DOMAIN Others : d1[o] = Others[o]
  BY DEF Over, Gives
<1> HIDE DEF d1
<1>8. /\ DOMAIN d2 = DOMAIN Flags \cup DOMAIN d1 /\ \A o \in DOMAIN Flags : d2[o] = Flags[o]
      /\ \A o \in DOMAIN d1 \ DOMAIN Flags : d2[o] = d1[o]
  BY DEF Over, Gives
<1> HIDE DEF d2
<1>9. /\ DOMAIN d3 = DOMAIN Switches \cup DOMAIN d2
      /\ \A o \in DOMAIN d2 \ DOMAIN Switches : d3[o] = d2[o]
  BY DEF Over, Gives
<1> HIDE DEF d3
<1>10. /\ DOMAIN Default = DOMAIN Text \cup DOMAIN d3
       /\ \A o \in DOMAIN d3 \ DOMAIN Text : Default[o] = d3[o]
  BY <1>1 DEF Over, Gives
<1>11. DOMAIN Default = DOMAIN Text \cup DOMAIN Switches \cup DOMAIN Flags \cup DOMAIN Others
                          \cup {"codec", "subtitle.codec"}
  BY <1>2, <1>7, <1>8, <1>9, <1>10
<1>12. /\ {"fallback-policy", "chmod", "universal.enabled", "universal-audio", "gpu", "hwaccels",
           "codec", "output-extension", "force-convert", "force-reencode", "qsv.low-power",
           "process-same-extensions", Shared, Qsv, Vaapi} \subseteq DOMAIN Default
       /\ "software-fallback" \notin DOMAIN Default /\ "mode" \notin DOMAIN Default
  BY <1>3, <1>4, <1>5, <1>6, <1>11 DEF Shared, Qsv, Vaapi
<1>13. Default["chmod"] = "0664" /\ Default["universal-audio"] = "null"
  BY <1>3, <1>4, <1>5, <1>6, <1>7, <1>8, <1>9, <1>10 DEF Shared, Qsv, Vaapi
<1>14. Default[Shared] = {} /\ Default[Qsv] = {} /\ Default[Vaapi] = {}
  BY <1>4, <1>5, <1>6, <1>8, <1>9, <1>10 DEF Shared, Qsv, Vaapi
<1>. QED BY <1>12, <1>13, <1>14

\* What one validated layer says of an option, under whichever of its names.
LEMMA SaysIs ==
  ASSUME NEW l, LayerForm(l), NEW o \in PlainOptions
  PROVE  Says(l, o) = IF Gives(Validated(l), o) THEN {Validated(l)[o]} ELSE {}
<1> DEFINE k == SectionsRead(l)  v == ShortcutRead(k)
<1>1. Validated(l) = v
  BY DEF Validated
<1>2. /\ o \notin {Shared, Qsv, Vaapi} /\ o \notin {"software-fallback", "mode"}
  BY DefaultsAre DEF PlainOptions, Shared, Qsv, Vaapi
<1>3. /\ \A x : x \notin Moved => Same(k, l, x)
      /\ Gives(l, "fallback-policy") => Same(k, l, "fallback-policy")
      /\ ~Gives(l, "fallback-policy") =>
           /\ Gives(k, "fallback-policy") <=>
                Gives(l, "software-fallback") /\ l["software-fallback"] # "null"
           /\ Gives(k, "fallback-policy") =>
                k["fallback-policy"] = IF l["software-fallback"] = "true" THEN "aggressive"
                                       ELSE "hw_only"
      /\ Gives(k, "chmod") <=> Gives(l, "chmod") \/ Gives(l, "mode")
      /\ Gives(k, "chmod") =>
           k["chmod"] = IF ModeGiven(l) = "text" THEN "0664" ELSE ModeGiven(l)
  BY SectionsAre
<1> HIDE DEF k
<1>4. /\ \A x : x # "universal.enabled" => Same(v, k, x)
      /\ IF Gives(k, "universal-audio") /\ k["universal-audio"] # "null"
         THEN Gives(v, "universal.enabled") /\ v["universal.enabled"] = k["universal-audio"]
         ELSE v = k
  BY ShortcutIs
<1> HIDE DEF v
<1>5. Same(k, l, "universal-audio") /\ Same(k, l, "universal.enabled")
  BY <1>3 DEF Moved, Shared, Qsv, Vaapi
<1>6. CASE o = "universal.enabled"
  <2>1. Says(l, o) = IF Gives(l, "universal-audio") /\ l["universal-audio"] # "null"
                     THEN {l["universal-audio"]} ELSE IF Gives(l, o) THEN {l[o]} ELSE {}
    BY <1>6 DEF Says
  <2>. QED BY <1>1, <1>4, <1>5, <1>6, <2>1 DEF Same
<1>7. CASE o = "chmod"
  <2>1. Says(l, o) = IF Gives(l, "chmod") \/ Gives(l, "mode")
                     THEN {IF ModeGiven(l) = "text" THEN "0664" ELSE ModeGiven(l)} ELSE {}
    BY <1>7 DEF Says
  <2>2. Same(v, k, "chmod")
    BY <1>4
  <2>. QED BY <1>1, <1>3, <1>7, <2>1, <2>2 DEF Same
<1>8. CASE o = "fallback-policy"
  <2>1. Same(v, k, "fallback-policy")
    BY <1>4
  <2>2. CASE Gives(l, "fallback-policy")
    <3>1. Says(l, o) = {l[o]}
      BY <1>8, <2>2 DEF Says
    <3>. QED BY <1>1, <1>3, <1>8, <2>1, <2>2, <3>1 DEF Same
  <2>3. CASE ~Gives(l, "fallback-policy") /\ Gives(l, "software-fallback")
    <3>1. Says(l, o) = {p \in {"aggressive", "hw_only"} :
            l["software-fallback"] = IF p = "aggressive" THEN "true" ELSE "false"}
      BY <1>8, <2>3 DEF Says
    <3>2. l["software-fallback"] \in {"true", "false", "null"}
      BY <2>3 DEF LayerForm
    <3>3. Says(l, o) = IF l["software-fallback"] = "null" THEN {}
                       ELSE {IF l["software-fallback"] = "true" THEN "aggressive" ELSE "hw_only"}
      BY <3>1, <3>2
    <3>. QED BY <1>1, <1>3, <1>8, <2>1, <2>3, <3>3 DEF Same
  <2>4. CASE ~Gives(l, "fallback-policy") /\ ~Gives(l, "software-fallback")
    <3>1. Says(l, o) = {}
      BY <1>8, <2>4 DEF Says
    <3>. QED BY <1>1, <1>3, <1>8, <2>1, <2>4, <3>1 DEF Same
  <2>. QED BY <2>2, <2>3, <2>4
<1>9. CASE o \notin {"fallback-policy", "chmod", "universal.enabled"}
  <2>1. Says(l, o) = IF Gives(l, o) THEN {l[o]} ELSE {}
    BY <1>9 DEF Says
  <2>2. Same(k, l, o) /\ Same(v, k, o)
    BY <1>2, <1>3, <1>4, <1>9 DEF Moved
  <2>. QED BY <1>1, <2>1, <2>2 DEF Same
<1>. QED BY <1>6, <1>7, <1>8, <1>9

\* The base alone: what its layer gives, over the defaults.
LEMMA BaseIs ==
  ASSUME NEW f
  PROVE  LET b == BaseOf(f)  v == Validated(f.base) IN
         /\ DOMAIN Default \subseteq DOMAIN b
         /\ \A o \in DOMAIN Default \ {"subtitle.codec"} :
              b[o] = IF Gives(v, o) THEN v[o] ELSE Default[o]
<1> DEFINE s == SectionsRead(f.base)
           v == ShortcutRead(s)
           d == Over(s, Default)
           t == ShortcutRead(d)
<1>1. Validated(f.base) = v /\ BaseOf(f) = Fitted(t)
  BY DEF Validated, BaseOf
<1> HIDE DEF s
<1>2. /\ DOMAIN d = DOMAIN s \cup DOMAIN Default
      /\ \A o : Gives(s, o) => Same(d, s, o)
      /\ \A o : ~Gives(s, o) => Same(d, Default, o)
  BY OverSays
<1> HIDE DEF d
<1>3. /\ \A o : o # "universal.enabled" => Same(v, s, o)
      /\ IF Gives(s, "universal-audio") /\ s["universal-audio"] # "null"
         THEN Gives(v, "universal.enabled") /\ v["universal.enabled"] = s["universal-audio"]
         ELSE v = s
  BY ShortcutIs
<1>4. /\ \A o : o # "universal.enabled" => Same(t, d, o)
      /\ DOMAIN d \subseteq DOMAIN t
      /\ IF Gives(d, "universal-audio") /\ d["universal-audio"] # "null"
         THEN Gives(t, "universal.enabled") /\ t["universal.enabled"] = d["universal-audio"]
         ELSE t = d
  BY ShortcutIs
<1> HIDE DEF v, t
<1>5. DOMAIN Fitted(t) = DOMAIN t /\ \A o \in DOMAIN t \ {"subtitle.codec"} : Fitted(t)[o] = t[o]
  BY DEF Fitted
<1>6. ASSUME NEW o \in DOMAIN Default
      PROVE  t[o] = IF Gives(v, o) THEN v[o] ELSE Default[o]
  <2>1. Gives(Default, o) /\ Default["universal-audio"] = "null" /\ Gives(Default, "universal-audio")
    BY DefaultsAre DEF Gives
  <2>2. CASE o # "universal.enabled"
    BY <1>2, <1>3, <1>4, <2>1, <2>2 DEF Same
  <2>3. CASE o = "universal.enabled" /\ Gives(s, "universal-audio") /\ s["universal-audio"] # "null"
    BY <1>2, <1>3, <1>4, <2>3 DEF Same
  <2>4. CASE o = "universal.enabled" /\ ~(Gives(s, "universal-audio") /\ s["universal-audio"] # "null")
    <3>1. v = s /\ t = d
      BY <1>2, <1>3, <1>4, <2>1, <2>4 DEF Same
    <3>. QED BY <1>2, <2>1, <3>1 DEF Same
  <2>. QED BY <2>2, <2>3, <2>4
<1>7. DOMAIN Default \subseteq DOMAIN t
  BY <1>2, <1>4
<1>. QED BY <1>1, <1>5, <1>6, <1>7

\* No layer's validated mode is a text that is none.
LEMMA ModesRead ==
  ASSUME NEW l PROVE Gives(Validated(l), "chmod") => Validated(l)["chmod"] # "text"
<1>1. Same(Validated(l), SectionsRead(l), "chmod")
  BY ShortcutIs DEF Validated
<1>2. Gives(SectionsRead(l), "chmod") => SectionsRead(l)["chmod"] # "text"
  BY SectionsAre
<1>. QED BY <1>1, <1>2 DEF Same

\* A profile: what its layer gives, over the base.
LEMMA ResolvedIs ==
  ASSUME NEW f, NEW p, p # Bare
  PROVE  LET b == BaseOf(f)  v == Validated(f.profiles[p].options)  m == Over(v, b)
             k == Resolved(f, p) IN
         /\ DOMAIN Default \subseteq DOMAIN k
         /\ \A o \in DOMAIN Default \ {Shared, Qsv, Vaapi} :
              k[o] = IF Gives(v, o) THEN v[o] ELSE b[o]
         /\ \A o \in {Shared, Qsv, Vaapi} :
              FlagsIn(m, o) = IF Gives(v, o) THEN v[o] ELSE b[o]
         /\ k[Shared] = FlagsIn(m, Shared) \ (QsvOnly \cup VaapiOnly)
         /\ k[Qsv] = FlagsIn(m, Qsv) \cup (FlagsIn(m, Shared) \cap QsvOnly)
         /\ k[Vaapi] = FlagsIn(m, Vaapi) \cup (FlagsIn(m, Shared) \cap VaapiOnly)
<1> DEFINE b == BaseOf(f)  v == Validated(f.profiles[p].options)  m == Over(v, b)  k == SectionsRead(m)
<1>1. Resolved(f, p) = k
  BY DEF Resolved
<1>2. /\ DOMAIN Default \subseteq DOMAIN b
      /\ Gives(b, "chmod") /\ b["chmod"] # "text"
  <2>1. "chmod" \in DOMAIN Default /\ Default["chmod"] = "0664"
    BY DefaultsAre
  <2>2. b["chmod"] = IF Gives(Validated(f.base), "chmod") THEN Validated(f.base)["chmod"] ELSE Default["chmod"]
    BY <2>1, BaseIs
  <2>. QED BY <2>1, <2>2, BaseIs, ModesRead DEF Gives
<1>3. Gives(v, "chmod") => v["chmod"] # "text"
  BY ModesRead
<1> HIDE DEF b, v
<1>4. /\ DOMAIN m = DOMAIN v \cup DOMAIN b
      /\ \A o : Gives(v, o) => Same(m, v, o)
      /\ \A o : ~Gives(v, o) => Same(m, b, o)
  BY OverSays
<1> HIDE DEF m
<1>5. \A o \in DOMAIN Default : Gives(m, o) /\ m[o] = IF Gives(v, o) THEN v[o] ELSE b[o]
  BY <1>2, <1>4 DEF Same, Gives
<1>6. /\ \A o : o \notin Moved => Same(k, m, o)
      /\ DOMAIN m \ {"software-fallback", "mode"} \subseteq DOMAIN k
      /\ Gives(m, "fallback-policy") => Same(k, m, "fallback-policy")
      /\ Gives(k, "chmod") =>
           k["chmod"] = IF ModeGiven(m) = "text" THEN "0664" ELSE ModeGiven(m)
      /\ FlagsIn(k, Shared) = FlagsIn(m, Shared) \ (QsvOnly \cup VaapiOnly)
      /\ FlagsIn(k, Qsv) = FlagsIn(m, Qsv) \cup (FlagsIn(m, Shared) \cap QsvOnly)
      /\ FlagsIn(k, Vaapi) = FlagsIn(m, Vaapi) \cup (FlagsIn(m, Shared) \cap VaapiOnly)
  BY SectionsAre
<1> HIDE DEF k
<1>7. /\ {"fallback-policy", "chmod", Shared, Qsv, Vaapi} \subseteq DOMAIN Default
      /\ "software-fallback" \notin DOMAIN Default /\ "mode" \notin DOMAIN Default
  BY DefaultsAre
<1>8. DOMAIN Default \subseteq DOMAIN k
  BY <1>5, <1>6, <1>7 DEF Gives
<1>9. k["chmod"] = m["chmod"]
  <2>1. Gives(m, "chmod") /\ Gives(k, "chmod") /\ m["chmod"] # "text"
    BY <1>2, <1>3, <1>5, <1>7, <1>8 DEF Gives
  <2>2. ModeGiven(m) = m["chmod"]
    BY <2>1 DEF ModeGiven
  <2>. QED BY <1>6, <2>1, <2>2
<1>10. k["fallback-policy"] = m["fallback-policy"]
  BY <1>5, <1>6, <1>7 DEF Same
<1>11. \A o \in DOMAIN Default \ {Shared, Qsv, Vaapi} : k[o] = m[o]
  <2> TAKE o \in DOMAIN Default \ {Shared, Qsv, Vaapi}
  <2>1. CASE o \notin Moved
    BY <1>5, <1>6, <2>1 DEF Same
  <2>2. CASE o \in Moved
    BY <1>7, <1>9, <1>10, <2>2 DEF Moved
  <2>. QED BY <2>1, <2>2
<1>12. \A o \in {Shared, Qsv, Vaapi} : FlagsIn(m, o) = m[o] /\ FlagsIn(k, o) = k[o]
  BY <1>5, <1>7, <1>8 DEF FlagsIn, Gives
<1>. QED BY <1>1, <1>5, <1>6, <1>7, <1>8, <1>11, <1>12 DEF b, v, m

\* Every option that has a default is in what a profile resolves to.
LEMMA OptionsThere == ASSUME NEW f, NEW p PROVE DOMAIN Default \subseteq DOMAIN Resolved(f, p)
BY BaseIs, ResolvedIs DEF Resolved

-----------------------------------------------------------------------------
(* What a daemon skips and a run of manual.py passes back.                 *)

\* A thread that no load has overlapped holds the profile and the settings of the
\* configuration in force.
Settled ==
  \A r \in Askers :
    asked[r].settled =>
      /\ loader.pc # "reset"
      /\ asked[r].profile = RuleFor(cfg, asked[r].media.path).profile
      /\ asked[r].pc \in {"merged", "answered"} => asked[r].conv = Gave(asked[r].profile)
      /\ asked[r].pc = "unknown" => ~HasProfile(cfg, asked[r].profile)

\* A run's settings are those of the file it read last, and its profile the one that file's
\* rules give where the file has not changed and the command line names none.
ToolReads ==
  /\ tool.pc = "routed" /\ tool.steady /\ tool.args = NoLayer /\ Loads(doc) =>
       tool.profile = RuleFor(doc, tool.media.path).profile
  /\ tool.pc = "ready" =>
       /\ HasProfile(tool.file, tool.profile)
       /\ tool.settings = Overridden(Projected(Resolved(tool.file, tool.profile)), tool.args)
       /\ tool.steady /\ tool.args = NoLayer =>
            tool.profile = RuleFor(tool.file, tool.media.path).profile

\* At the start nothing is asked.
LEMMA SettledStart == Init => Settled
BY DEF Init, Settled, NoRequest

\* Every step keeps what a settled thread has in hand.
LEMMA SettledStep == ReadersInv /\ CacheInv /\ Settled /\ [Next]_vars => Settled'
<1> SUFFICES ASSUME ReadersInv, CacheInv, Settled, [Next]_vars PROVE Settled'
  OBVIOUS
<1> USE DEF ReadersInv
<1>1. CASE Reset
  BY <1>1 DEF Reset, Settled, TypeOK, Shapes
<1>2. CASE Restart
  BY <1>2 DEF Restart, NoRequest, Settled
<1>3. CASE Swap
  BY <1>3 DEF Swap, Unsettled, Settled, TypeOK, Shapes
<1>4. CASE \/ Read \/ Apply \/ ResolveId \/ Copy \/ Write \/ Serve \/ Reload \/ Route \/ Construct
           \/ Edit \/ PushConfig \/ UNCHANGED vars
  <2>1. UNCHANGED <<cfg, asked>>
    BY <1>4 DEF Read, Apply, ResolveId, Copy, Write, Serve, Reload, Route, Construct, Edit,
                PushConfig, vars
  <2>2. loader.pc # "reset" => loader'.pc # "reset"
    <3>1. CASE Read \/ Apply
      BY <3>1 DEF Read, Apply, Shapes, Ended
    <3>2. CASE ResolveId
      BY <3>2 DEF ResolveId, Shapes, Loaded
    <3>3. CASE Copy \/ Write
      BY <3>3 DEF Copy, Write, Shapes, Loaded
    <3>4. CASE Serve \/ Route \/ Construct \/ PushConfig \/ UNCHANGED vars
      BY <3>4 DEF Serve, Route, Construct, PushConfig, vars
    <3>5. CASE Reload \/ Edit
      BY <3>5 DEF Reload, Edit, Shapes, Reading
    <3>. QED BY <1>4, <3>1, <3>2, <3>3, <3>4, <3>5
  <2>. QED BY <2>1, <2>2 DEF Settled, Gave
<1>5. ASSUME NEW r \in Askers, RequestStep(r) PROVE Settled'
  <2>1. /\ UNCHANGED <<cfg, loader>>
        /\ \A q \in Askers \ {r} : asked'[q] = asked[q]
    BY <1>5 DEF RequestStep, Ask, Fetch, Merge, MergeBase, Store, TypeOK
  <2>2. ASSUME asked'[r].settled =>
                 /\ loader.pc # "reset"
                 /\ asked'[r].profile = RuleFor(cfg, asked'[r].media.path).profile
                 /\ asked'[r].pc \in {"merged", "answered"} => asked'[r].conv = Gave(asked'[r].profile)
                 /\ asked'[r].pc = "unknown" => ~HasProfile(cfg, asked'[r].profile)
        PROVE  Settled'
    BY <2>1, <2>2 DEF Settled, Gave
  <2>3. CASE Ask(r)
    <3>1. PICK m \in Media : asked' = [asked EXCEPT ![r] =
                   [NoRequest EXCEPT !.pc = "routed", !.media = m,
                                     !.profile = RuleFor(cfg, m.path).profile,
                                     !.settled = loader.pc # "reset"]]
      BY <2>3 DEF Ask
    <3>2. /\ asked'[r].pc = "routed" /\ asked'[r].media = m
          /\ asked'[r].profile = RuleFor(cfg, m.path).profile
          /\ asked'[r].settled = (loader.pc # "reset")
      BY <3>1 DEF NoRequest, TypeOK
    <3>. QED BY <2>2, <3>2
  <2>4. ASSUME asked'[r].profile = asked[r].profile, asked'[r].media = asked[r].media,
               asked'[r].settled = asked[r].settled,
               asked[r].settled =>
                 /\ asked'[r].pc \in {"merged", "answered"} => asked'[r].conv = Gave(asked[r].profile)
                 /\ asked'[r].pc = "unknown" => ~HasProfile(cfg, asked[r].profile)
        PROVE  Settled'
    BY <2>2, <2>4 DEF Settled
  <2>5. CASE Fetch(r)
    <3>1. /\ asked'[r].profile = asked[r].profile /\ asked'[r].media = asked[r].media
          /\ asked'[r].settled = asked[r].settled
          /\ IF Gives(cache, asked[r].profile)
             THEN asked'[r].pc = "answered" /\ asked'[r].conv = cache[asked[r].profile]
             ELSE asked'[r].pc = "fetched"
      BY <2>5 DEF Fetch, TypeOK, Shapes
    <3>2. asked[r].settled /\ Gives(cache, asked[r].profile) =>
            cache[asked[r].profile] = Gave(asked[r].profile)
      BY DEF Settled, CacheInv, Gives
    <3>. QED BY <2>4, <3>1, <3>2
  <2>6. CASE Merge(r)
    <3>1. /\ asked'[r].profile = asked[r].profile /\ asked'[r].media = asked[r].media
          /\ asked'[r].settled = asked[r].settled
          /\ IF HasProfile(cfg, asked[r].profile)
             THEN asked'[r].pc = "merged" /\ asked'[r].conv = ConverterOf(Resolved(cfg, asked[r].profile))
             ELSE asked'[r].pc = "unknown"
      BY <2>6 DEF Merge, TypeOK, Shapes
    <3>. QED BY <2>4, <3>1 DEF Gave
  <2>7. CASE MergeBase(r)
    <3>1. /\ asked'[r].profile = asked[r].profile /\ asked'[r].media = asked[r].media
          /\ asked'[r].settled = asked[r].settled
          /\ asked'[r].pc = "merged" /\ asked'[r].conv = ConverterOf(BaseOf(cfg))
          /\ asked[r].pc = "unknown"
      BY <2>7 DEF MergeBase, TypeOK, Shapes
    <3>2. asked[r].settled => ~HasProfile(cfg, asked[r].profile)
      BY <3>1 DEF Settled
    <3>. QED BY <2>4, <3>1, <3>2, BaseGiven DEF Gave
  <2>8. CASE Store(r)
    <3>1. /\ asked'[r].profile = asked[r].profile /\ asked'[r].media = asked[r].media
          /\ asked'[r].settled = asked[r].settled /\ asked'[r].conv = asked[r].conv
          /\ asked'[r].pc = "answered" /\ asked[r].pc = "merged"
      BY <2>8 DEF Store, TypeOK, Shapes
    <3>. QED BY <2>4, <3>1 DEF Settled
  <2>. QED BY <1>5, <2>3, <2>5, <2>6, <2>7, <2>8 DEF RequestStep
<1>. QED BY <1>1, <1>2, <1>3, <1>4, <1>5 DEF Next, Load

\* At the start nothing runs.
LEMMA ToolStart == Init => ToolReads
BY DEF Init, ToolReads, NoRun

\* Every step keeps what a run of manual.py has read.
LEMMA ToolStep == ReadersInv /\ ToolReads /\ [Next]_vars => ToolReads'
<1> SUFFICES ASSUME ReadersInv, ToolReads, [Next]_vars PROVE ToolReads'
  OBVIOUS
<1> USE DEF ReadersInv
<1>1. ASSUME UNCHANGED <<doc, tool>> PROVE ToolReads'
  BY <1>1 DEF ToolReads
<1>2. CASE tool' = Overtaken
  <2>1. /\ tool'.pc = tool.pc /\ tool'.media = tool.media /\ tool'.args = tool.args
        /\ tool'.profile = tool.profile /\ tool'.file = tool.file
        /\ tool'.settings = tool.settings
        /\ tool'.steady = (tool.steady /\ tool.pc # "routed")
    BY <1>2 DEF Overtaken, Shapes
  <2>. QED BY <2>1 DEF ToolReads
<1>3. CASE Route
  <2>1. PICK m \in Media, args \in ArgSets :
          tool' = [NoRun EXCEPT !.pc = "routed", !.media = m, !.args = args, !.steady = TRUE,
                             !.profile = IF Gives(args, "profile") THEN args["profile"]
                                         ELSE IF Loads(doc) THEN RuleFor(doc, m.path).profile
                                         ELSE Bare]
    BY <1>3 DEF Route
  <2>2. /\ tool'.pc = "routed" /\ tool'.media = m /\ tool'.args = args
        /\ tool'.profile = IF Gives(args, "profile") THEN args["profile"]
                           ELSE IF Loads(doc) THEN RuleFor(doc, m.path).profile
                           ELSE Bare
    BY <2>1 DEF NoRun
  <2>3. doc' = doc /\ ~Gives(NoLayer, "profile")
    BY <1>3 DEF Route, Gives, NoLayer
  <2>. QED BY <2>2, <2>3 DEF ToolReads
<1>4. CASE Construct
  <2>1. CASE doc.form = "buckets" /\ Loads(doc) /\ HasProfile(doc, tool.profile)
    <3>1. tool' = [tool EXCEPT !.pc = "ready", !.file = doc,
                     !.settings = Overridden(Projected(Resolved(doc, tool.profile)), tool.args)]
      BY <1>4, <2>1 DEF Construct
    <3>2. /\ tool'.pc = "ready" /\ tool'.file = doc /\ tool'.args = tool.args
          /\ tool'.media = tool.media /\ tool'.profile = tool.profile
          /\ tool'.steady = tool.steady
          /\ tool'.settings = Overridden(Projected(Resolved(doc, tool.profile)), tool.args)
      BY <3>1 DEF Shapes
    <3>3. tool.pc = "routed"
      BY <1>4 DEF Construct
    <3>. QED BY <2>1, <3>2, <3>3 DEF ToolReads
  <2>2. CASE ~(doc.form = "buckets" /\ Loads(doc) /\ HasProfile(doc, tool.profile))
    BY <1>4, <2>2 DEF Construct, ToolReads, Shapes
  <2>. QED BY <2>1, <2>2
<1>5. CASE Load
  BY <1>1, <1>2, <1>5 DEF Load, Read, Swap, Reset, Apply, ResolveId, Copy, Write
<1>6. CASE \E r \in Askers : RequestStep(r)
  BY <1>1, <1>6 DEF RequestStep, Ask, Fetch, Merge, MergeBase, Store
<1>7. CASE Serve \/ Reload \/ Restart \/ PushConfig \/ UNCHANGED vars
  BY <1>1, <1>7 DEF Serve, Reload, Restart, PushConfig, vars
<1>8. CASE Edit
  BY <1>2, <1>8 DEF Edit
<1>. QED BY <1>3, <1>4, <1>5, <1>6, <1>7, <1>8 DEF Next

\* Two texts alike give the same profile for a file and the same settings for a profile.
LEMMA AlikeGive ==
  ASSUME NEW f, NEW g, Alike(f, g)
  PROVE  /\ \A path : RuleFor(f, path) = RuleFor(g, path)
         /\ \A p : Resolved(f, p) = Resolved(g, p)
BY DEF Alike, RuleFor, RulesMatching, Before, Resolved, BaseOf

\* Of the options that decide whether a file is passed back, what the command line leaves.
LEMMA Untouched ==
  ASSUME NEW b, {"output-extension", "force-convert", "force-reencode",
                 "process-same-extensions", "hwaccels", "codec", "codec-parameters"} \subseteq DOMAIN b
  PROVE  LET s == Overridden(Projected(b), NoLayer) IN
         /\ s["output-extension"] = b["output-extension"]
         /\ s["force-convert"] = b["force-convert"]
         /\ s["force-reencode"] = b["force-reencode"]
         /\ s["process-same-extensions"] =
              IF "true" \in {b["force-convert"], b["force-reencode"]} THEN "true"
              ELSE b["process-same-extensions"]
<1> DEFINE q == Projected(b)  s == Overridden(q, NoLayer)
<1>1. /\ DOMAIN q = DOMAIN b
      /\ q["output-extension"] = b["output-extension"]
      /\ q["force-convert"] = b["force-convert"] /\ q["force-reencode"] = b["force-reencode"]
      /\ q["process-same-extensions"] =
           IF "true" \in {b["force-convert"], b["force-reencode"]} THEN "true"
           ELSE b["process-same-extensions"]
  BY DEF Projected
<1> HIDE DEF q
<1>2. \A a : ~Gives(NoLayer, a)
  BY DEF Gives, NoLayer
<1>3. /\ s["output-extension"] = q["output-extension"]
      /\ s["force-convert"] = q["force-convert"] /\ s["force-reencode"] = q["force-reencode"]
      /\ s["process-same-extensions"] = q["process-same-extensions"]
  BY <1>1, <1>2 DEF Overridden
<1>. QED BY <1>1, <1>3 DEF q

\* A settled answer and a steady run's settings come from the same layers.
LEMMA SameLayers ==
  ASSUME ReadersInv, Settled, ToolReads, NEW r \in Askers, SkippedAndRun(r)
  PROVE  \E b : /\ {"output-extension", "force-convert", "force-reencode",
                    "process-same-extensions", "hwaccels", "codec", "codec-parameters"} \subseteq DOMAIN b
                /\ asked[r].conv = ConverterOf(b)
                /\ tool.settings = Overridden(Projected(b), NoLayer)
<1> DEFINE p == tool.profile  b == Resolved(cfg, p)
<1>1. /\ asked[r].settled /\ asked[r].pc = "answered" /\ tool.pc = "ready" /\ tool.steady
      /\ tool.args = NoLayer /\ tool.media = asked[r].media /\ Alike(tool.file, cfg)
  BY DEF SkippedAndRun
<1>2. p = RuleFor(tool.file, tool.media.path).profile /\ HasProfile(tool.file, p)
      /\ tool.settings = Overridden(Projected(Resolved(tool.file, p)), NoLayer)
  BY <1>1 DEF ToolReads
<1>3. /\ RuleFor(tool.file, tool.media.path) = RuleFor(cfg, tool.media.path)
      /\ Resolved(tool.file, p) = Resolved(cfg, p)
      /\ HasProfile(cfg, p)
  BY <1>1, <1>2, AlikeGive DEF Alike, HasProfile, Profiles
<1>4. asked[r].conv = Gave(asked[r].profile) /\ asked[r].profile = p
  BY <1>1, <1>2, <1>3 DEF Settled
<1>5. asked[r].conv = ConverterOf(b)
  BY <1>3, <1>4 DEF Gave
<1>6. {"output-extension", "force-convert", "force-reencode", "process-same-extensions",
       "hwaccels", "codec", "codec-parameters"} \subseteq DOMAIN b
  BY OptionsThere, DefaultsAre DEF Shared
<1> HIDE DEF b
<1>. QED BY <1>2, <1>3, <1>5, <1>6 DEF b

\* should_skip_same_extension against canBypassConvert: a file that the daemon skips is one
\* that a run of the same text passes back, for any layers, profiles and rules, unless
\* force-reencode is set or the extension is left empty.
THEOREM SkippedArePassedBack == Spec => []SkipMeansPassedBack
<1>1. ReadersInv /\ Settled /\ ToolReads => SkipMeansPassedBack
  <2> SUFFICES ASSUME ReadersInv, Settled, ToolReads, NEW r \in Askers, SkippedAndRun(r),
                      tool.settings["force-reencode"] = "false",
                      tool.settings["output-extension"] # ""
               PROVE  PassedBack(tool.settings, asked[r].media.ext)
    BY DEF SkipMeansPassedBack
  <2>1. PICK b : /\ {"output-extension", "force-convert", "force-reencode",
                     "process-same-extensions", "hwaccels", "codec", "codec-parameters"}
                       \subseteq DOMAIN b
                 /\ asked[r].conv = ConverterOf(b)
                 /\ tool.settings = Overridden(Projected(b), NoLayer)
    BY SameLayers
  <2>2. /\ tool.settings["output-extension"] = b["output-extension"]
        /\ tool.settings["force-convert"] = b["force-convert"]
        /\ tool.settings["force-reencode"] = b["force-reencode"]
        /\ tool.settings["process-same-extensions"] =
             IF "true" \in {b["force-convert"], b["force-reencode"]} THEN "true"
             ELSE b["process-same-extensions"]
    BY <2>1, Untouched
  <2>3. /\ asked[r].conv["output-extension"] = b["output-extension"]
        /\ asked[r].conv["force-convert"] = b["force-convert"]
        /\ asked[r].conv["process-same-extensions"] = b["process-same-extensions"]
    BY <2>1 DEF ConverterOf
  <2>4. Skipped(asked[r].conv, asked[r].media.ext)
    BY DEF SkippedAndRun
  <2>. QED BY <2>2, <2>3, <2>4 DEF Skipped, PassedBack
<1>2. Spec => [](ReadersInv /\ Settled /\ ToolReads)
  BY ReadersStart, ReadersStep, CacheStart, CacheStep, SettledStart, SettledStep, ToolStart,
     ToolStep, PTL DEF Spec
<1>. QED BY <1>1, <1>2, PTL

\* _read_converter, apply_cli_overrides: whichever layer or switch forces a conversion, the
\* run never passes its file back for its extension.
THEOREM ForcedAreConverted == Spec => []ForcedIsConverted
<1>1. ReadersInv /\ ToolReads => ForcedIsConverted
  <2> SUFFICES ASSUME ReadersInv, ToolReads, tool.pc = "ready",
                      "true" \in {tool.settings["force-convert"], tool.settings["force-reencode"]}
               PROVE  tool.settings["process-same-extensions"] # "false"
    BY DEF ForcedIsConverted, PassedBack
  <2> DEFINE b == Resolved(tool.file, tool.profile)  q == Projected(b)
  <2>1. tool.settings = Overridden(q, tool.args)
    BY DEF ToolReads
  <2>2. {"force-convert", "force-reencode", "process-same-extensions", "hwaccels", "codec",
         Shared} \subseteq DOMAIN b
    BY OptionsThere, DefaultsAre
  <2> HIDE DEF b
  <2>3. /\ DOMAIN q = DOMAIN b
        /\ q["force-convert"] = b["force-convert"] /\ q["force-reencode"] = b["force-reencode"]
        /\ q["process-same-extensions"] =
             IF "true" \in {b["force-convert"], b["force-reencode"]} THEN "true"
             ELSE b["process-same-extensions"]
    BY <2>2 DEF Projected
  <2> HIDE DEF q
  <2>4. LET s == tool.settings  args == tool.args IN
        /\ s["force-convert"] = IF Gives(args, "forceconvert") THEN "true" ELSE q["force-convert"]
        /\ s["force-reencode"] = IF Gives(args, "forcereencode") THEN "true" ELSE q["force-reencode"]
        /\ Gives(args, "forceconvert") \/ Gives(args, "forcereencode") =>
             s["process-same-extensions"] = "true"
        /\ s["process-same-extensions"] \in {"true", q["process-same-extensions"]}
    BY <2>1, <2>2, <2>3 DEF Overridden
  <2>. QED BY <2>3, <2>4
<1>2. Spec => [](ReadersInv /\ ToolReads)
  BY ReadersStart, ReadersStep, ToolStart, ToolStep, PTL DEF Spec
<1>. QED BY <1>1, <1>2, PTL

-----------------------------------------------------------------------------
(* Routing.                                                                *)

Best(S, L, i) == i \in S /\ \A k \in S : L[i] > L[k] \/ (L[i] = L[k] /\ i <= k)

\* Among the numbers to n there is a first of those with the largest measure.
LEMMA SomeBest ==
  ASSUME NEW n \in Nat, NEW S \in SUBSET (1..n), S # {}, NEW L \in [S -> Nat]
  PROVE  \E i \in S : Best(S, L, i)
<1> DEFINE Upto(m) == S \cap (1..m)
           None == {m \in Nat : m <= n /\ Upto(m) # {} /\ ~\E i \in S : Best(Upto(m), L, i)}
<1>1. None = {}
  <2> SUFFICES ASSUME None # {} PROVE FALSE
    OBVIOUS
  <2>1. PICK m \in None : \A k \in None : m <= k
    BY LeastNumber
  <2>2. m \in Nat /\ m <= n /\ Upto(m) # {} /\ m > 0
    BY <2>1
  <2>3. m - 1 \in Nat /\ m - 1 <= n /\ m - 1 \notin None
    <3> HIDE DEF None
    <3>. QED BY <2>1, <2>2
  <2>4. Upto(m) = Upto(m - 1) \cup (S \cap {m})
    BY <2>2
  <2>5. CASE Upto(m - 1) = {}
    <3>1. Upto(m) = {m} /\ m \in S
      BY <2>2, <2>4, <2>5
    <3>2. Best(Upto(m), L, m)
      BY <3>1 DEF Best
    <3>. QED BY <2>1, <3>1, <3>2
  <2>6. CASE Upto(m - 1) # {}
    <3>1. PICK i \in S : Best(Upto(m - 1), L, i)
      BY <2>3, <2>6
    <3>2. i \in Upto(m - 1) /\ i < m /\ i \in Nat /\ L[i] \in Nat
      BY <2>2, <3>1 DEF Best
    <3>3. CASE m \in S /\ L[m] > L[i]
      <4>1. \A k \in Upto(m - 1) : L[m] > L[k]
        BY <3>1, <3>2, <3>3 DEF Best
      <4>2. m \in Upto(m) /\ \A k \in Upto(m) : k = m \/ L[m] > L[k]
        <5> HIDE DEF Upto
        <5>1. m \in S \cap {m}
          BY <3>3
        <5>. QED BY <2>4, <4>1, <5>1
      <4>3. Best(Upto(m), L, m)
        <5> HIDE DEF Upto
        <5>1. m <= m
          BY <2>2
        <5>2. ASSUME NEW k \in Upto(m) PROVE L[m] > L[k] \/ (L[m] = L[k] /\ m <= k)
          <6>1. CASE k = m
            BY <5>1, <6>1, Zenon
          <6>2. CASE k # m
            BY <4>2, <6>2, Zenon
          <6>. QED BY <6>1, <6>2
        <5>. QED BY <4>2, <5>2 DEF Best
      <4>. QED BY <2>1, <3>3, <4>3
    <3>4. CASE ~(m \in S /\ L[m] > L[i])
      <4>1. \A k \in S \cap {m} : L[i] > L[k] \/ (L[i] = L[k] /\ i <= k)
        BY <2>2, <3>2, <3>4
      <4>2. Best(Upto(m), L, i)
        BY <2>4, <3>1, <3>2, <4>1 DEF Best
      <4>. QED BY <2>1, <4>2
    <3>. QED BY <3>3, <3>4
  <2>. QED BY <2>5, <2>6
<1>2. Upto(n) = S
  OBVIOUS
<1>. QED BY <1>1, <1>2

\* A path that some rule matches is given one of the file's rules.
LEMMA RuleOfFile ==
  ASSUME NEW f, FileForm(f), NEW path, RulesMatching(f, path) # {}
  PROVE  \E i \in DOMAIN f.rules : RuleFor(f, path) = f.rules[i]
<1> DEFINE S == RulesMatching(f, path)  L == [i \in S |-> Len(f.rules[i].match)]
<1>1. S \in SUBSET (1..Len(f.rules)) /\ Len(f.rules) \in Nat /\ L \in [S -> Nat]
  BY DEF FileForm, RulesMatching
<1>2. PICK i \in S : Best(S, L, i)
  BY <1>1, SomeBest
<1>3. \A k \in S : Before(f, i, k)
  BY <1>2 DEF Best, Before
<1>4. \E j \in S : RuleFor(f, path) = f.rules[j]
  BY <1>3 DEF RuleFor
<1>. QED BY <1>4 DEF RulesMatching

\* What a path is routed by is nothing, or an accepted rule of the file.
LEMMA RuleGiven ==
  ASSUME NEW f, FileForm(f), Valid(f), NEW path
  PROVE  \/ RuleFor(f, path) = [match |-> <<>>, profile |-> Bare, services |-> {}]
         \/ \E i \in DOMAIN f.rules : RuleFor(f, path) = f.rules[i] /\ RuleAccepted(f, f.rules[i])
BY RuleOfFile DEF RuleFor, Valid

\* _validate_routing_references and _validate_concurrency_budget against resolve_routing: in
\* any file in force the profile a path is routed to is there and affordable.
THEOREM RoutedAreClaimable == Spec => []RoutedClaimable
<1>1. ReadersInv => RoutedClaimable
  <2> SUFFICES ASSUME ReadersInv, cfg # NotRead, NEW m \in Media,
                      RuleFor(cfg, m.path).profile # Bare
               PROVE  LET p == RuleFor(cfg, m.path).profile IN
                      p \in Profiles(cfg) /\ JobCost(cfg, p) <= NodeBudget(cfg)
    BY DEF RoutedClaimable
  <2>1. FileForm(cfg) /\ Valid(cfg)
    BY DEF ReadersInv, Shapes, Loads
  <2>2. RuleAccepted(cfg, RuleFor(cfg, m.path))
    BY <2>1, RuleGiven
  <2>3. RuleFor(cfg, m.path).profile \in Profiles(cfg)
    BY <2>2 DEF RuleAccepted, HasProfile
  <2>. QED BY <2>1, <2>3 DEF Valid, Affordable
<1>. QED BY <1>1, ReadersInvariant, PTL

\* _read_services: a media server named by the rule of a file, a plain directory, is told.
THEOREM RoutedAreTold == Spec => []RoutedServersTold
<1>1. ReadersInv => RoutedServersTold
  <2> SUFFICES ASSUME ReadersInv, cfg # NotRead, NEW m \in Media,
                      RuleFor(cfg, m.path).match # <<>>,
                      Beneath(Dir(m.path), RuleFor(cfg, m.path).match),
                      NEW s \in RuleFor(cfg, m.path).services,
                      s[1] \in Servers, SwitchedOn(cfg, s), Answers(cfg, s)
               PROVE  s \in ServersFor(cfg, m.path)
    BY DEF RoutedServersTold
  <2>1. FileForm(cfg) /\ Valid(cfg)
    BY DEF ReadersInv, Shapes, Loads
  <2>2. PICK i \in DOMAIN cfg.rules : /\ RuleFor(cfg, m.path) = cfg.rules[i]
                                      /\ RuleAccepted(cfg, cfg.rules[i])
    BY <2>1, RuleGiven
  <2>3. s \in DOMAIN cfg.services
    BY <2>2 DEF RuleAccepted
  <2> DEFINE e == [service |-> s, path |-> cfg.rules[i].match]
  <2>4. e \in Entries(cfg)
    BY <2>2, <2>3 DEF Entries
  <2>. QED BY <2>2, <2>4 DEF ServersFor
<1>. QED BY <1>1, ReadersInvariant, PTL

-----------------------------------------------------------------------------
(* Profiles and the base.                                                  *)

\* apply_profile and the validators: for any layers, an option counts for a profile as that
\* profile says, or else as the base does, or else by default, under any of its names.
THEOREM ClosestLayersWin == Spec => []ClosestLayerWins
<1>1. ReadersInv => ClosestLayerWins
  <2> SUFFICES ASSUME ReadersInv, NEW p \in Applicable, NEW o \in PlainOptions
               PROVE  {Resolved(cfg, p)[o]} = Meant(cfg, p, o)
    BY DEF ClosestLayerWins
  <2>1. cfg # NotRead /\ (p # Bare => p \in Profiles(cfg))
    BY DEF Applicable
  <2>2. FileForm(cfg)
    BY <2>1 DEF ReadersInv, Shapes
  <2>3. LayerForm(cfg.base) /\ (p # Bare => LayerForm(cfg.profiles[p].options))
    BY <2>1, <2>2 DEF FileForm, Profiles
  <2>4. o \in DOMAIN Default \ {"subtitle.codec", Shared, Qsv, Vaapi}
    BY DEF PlainOptions, Shared, Qsv, Vaapi
  <2> DEFINE w == Validated(cfg.base)
  <2>5. BaseOf(cfg)[o] = IF Gives(w, o) THEN w[o] ELSE Default[o]
    BY <2>4, BaseIs
  <2>6. Says(cfg.base, o) = IF Gives(w, o) THEN {w[o]} ELSE {}
    BY <2>3, SaysIs
  <2>7. CASE p = Bare
    <3>1. Resolved(cfg, p) = BaseOf(cfg)
      BY <2>7, BaseGiven
    <3>. QED BY <2>5, <2>6, <2>7, <3>1 DEF Meant
  <2>8. CASE p # Bare
    <3> DEFINE v == Validated(cfg.profiles[p].options)
    <3>1. Resolved(cfg, p)[o] = IF Gives(v, o) THEN v[o] ELSE BaseOf(cfg)[o]
      BY <2>4, <2>8, ResolvedIs
    <3>2. Says(cfg.profiles[p].options, o) = IF Gives(v, o) THEN {v[o]} ELSE {}
      BY <2>3, <2>8, SaysIs
    <3> HIDE DEF v, w
    <3>. QED BY <2>5, <2>6, <2>8, <3>1, <3>2 DEF Meant
  <2>. QED BY <2>7, <2>8
<1>. QED BY <1>1, ReadersInvariant, PTL

\* Where the validated layer has the flags it was given.
LEMMA ValidatedFlags ==
  ASSUME NEW l
  PROVE  LET v == Validated(l) IN
         /\ FlagsIn(v, Shared) = FlagsIn(l, Shared) \ (QsvOnly \cup VaapiOnly)
         /\ FlagsIn(l, Shared) \cap QsvOnly \subseteq FlagsIn(v, Qsv)
         /\ FlagsIn(l, Shared) \cap VaapiOnly \subseteq FlagsIn(v, Vaapi)
<1> DEFINE s == SectionsRead(l)  v == ShortcutRead(s)
<1>1. Validated(l) = v
  BY DEF Validated
<1>2. /\ FlagsIn(s, Shared) = FlagsIn(l, Shared) \ (QsvOnly \cup VaapiOnly)
      /\ FlagsIn(s, Qsv) = FlagsIn(l, Qsv) \cup (FlagsIn(l, Shared) \cap QsvOnly)
      /\ FlagsIn(s, Vaapi) = FlagsIn(l, Vaapi) \cup (FlagsIn(l, Shared) \cap VaapiOnly)
  BY SectionsAre
<1> HIDE DEF s
<1>3. \A o \in {Shared, Qsv, Vaapi} : Same(v, s, o)
  BY ShortcutIs DEF Shared, Qsv, Vaapi
<1> HIDE DEF v
<1>4. \A o \in {Shared, Qsv, Vaapi} : FlagsIn(v, o) = FlagsIn(s, o)
  BY <1>3 DEF Same, FlagsIn
<1>. QED BY <1>1, <1>2, <1>4

\* Where a layer's shared flags end: in the shared ones, or in their encoder's block.
LEMMA FlagsLand ==
  ASSUME NEW f, NEW p
  PROVE  LET b == Resolved(f, p)
             layer == IF p = Bare THEN f.base ELSE f.profiles[p].options IN
         /\ b[Shared] \cap (QsvOnly \cup VaapiOnly) = {}
         /\ FlagsIn(layer, Shared) \ (QsvOnly \cup VaapiOnly) \subseteq b[Shared]
         /\ FlagsIn(layer, Shared) \cap QsvOnly \subseteq b[Qsv]
         /\ FlagsIn(layer, Shared) \cap VaapiOnly \subseteq b[Vaapi]
<1>1. CASE p = Bare
  <2> DEFINE v == Validated(f.base)
  <2>1. \A o \in {Shared, Qsv, Vaapi} : Resolved(f, p)[o] = IF Gives(v, o) THEN v[o] ELSE {}
    <3>1. Resolved(f, p) = BaseOf(f)
      BY <1>1 DEF Resolved
    <3>2. \A o \in {Shared, Qsv, Vaapi} :
            o \in DOMAIN Default \ {"subtitle.codec"} /\ Default[o] = {}
      BY DefaultsAre DEF Shared, Qsv, Vaapi
    <3>. QED BY <3>1, <3>2, BaseIs
  <2>2. \A o \in {Shared, Qsv, Vaapi} : Resolved(f, p)[o] = FlagsIn(v, o)
    BY <2>1 DEF FlagsIn
  <2>3. /\ FlagsIn(v, Shared) = FlagsIn(f.base, Shared) \ (QsvOnly \cup VaapiOnly)
        /\ FlagsIn(f.base, Shared) \cap QsvOnly \subseteq FlagsIn(v, Qsv)
        /\ FlagsIn(f.base, Shared) \cap VaapiOnly \subseteq FlagsIn(v, Vaapi)
    BY ValidatedFlags
  <2> HIDE DEF v
  <2>. QED BY <1>1, <2>2, <2>3
<1>2. CASE p # Bare
  <2> DEFINE l == f.profiles[p].options  v == Validated(l)  b == BaseOf(f)  m == Over(v, b)
             k == Resolved(f, p)
  <2>1. /\ \A o \in {Shared, Qsv, Vaapi} : FlagsIn(m, o) = IF Gives(v, o) THEN v[o] ELSE b[o]
        /\ k[Shared] = FlagsIn(m, Shared) \ (QsvOnly \cup VaapiOnly)
        /\ k[Qsv] = FlagsIn(m, Qsv) \cup (FlagsIn(m, Shared) \cap QsvOnly)
        /\ k[Vaapi] = FlagsIn(m, Vaapi) \cup (FlagsIn(m, Shared) \cap VaapiOnly)
    BY <1>2, ResolvedIs
  <2>2. /\ FlagsIn(v, Shared) = FlagsIn(l, Shared) \ (QsvOnly \cup VaapiOnly)
        /\ FlagsIn(l, Shared) \cap QsvOnly \subseteq FlagsIn(v, Qsv)
        /\ FlagsIn(l, Shared) \cap VaapiOnly \subseteq FlagsIn(v, Vaapi)
    BY ValidatedFlags
  <2> HIDE DEF v, b, m, k
  <2>3. \A o \in {Shared, Qsv, Vaapi} : FlagsIn(v, o) \subseteq FlagsIn(m, o)
    BY <2>1 DEF FlagsIn
  <2>4. /\ k[Shared] \cap (QsvOnly \cup VaapiOnly) = {}
        /\ FlagsIn(l, Shared) \ (QsvOnly \cup VaapiOnly) \subseteq k[Shared]
        /\ FlagsIn(l, Shared) \cap QsvOnly \subseteq k[Qsv]
        /\ FlagsIn(l, Shared) \cap VaapiOnly \subseteq k[Vaapi]
    BY <2>1, <2>2, <2>3
  <2>. QED BY <1>2, <2>4 DEF k
<1>. QED BY <1>1, <1>2

\* _migrate_encoder_flags, _project_qsv, _project_vaapi: for any layers, a flag of one encoder
\* is not on another's command line, and none that a layer gave is lost.
THEOREM FlagsReach == Spec => []FlagsReachTheirEncoder
<1>1. FlagsReachTheirEncoder
  <2> SUFFICES ASSUME NEW p \in Applicable
               PROVE  LET b == Resolved(cfg, p)
                          reached == Projected(b)[Shared]
                          layer == IF p = Bare THEN cfg.base ELSE cfg.profiles[p].options
                      IN /\ reached \cap Foreign(b["gpu"]) \subseteq OwnBlock(b)
                         /\ FlagsIn(layer, Shared) \ Foreign(b["gpu"]) \subseteq reached
    BY DEF FlagsReachTheirEncoder, Shared
  <2> DEFINE b == Resolved(cfg, p)
             layer == IF p = Bare THEN cfg.base ELSE cfg.profiles[p].options
             reached == Projected(b)[Shared]
  <2>1. /\ b[Shared] \cap (QsvOnly \cup VaapiOnly) = {}
        /\ FlagsIn(layer, Shared) \ (QsvOnly \cup VaapiOnly) \subseteq b[Shared]
        /\ FlagsIn(layer, Shared) \cap QsvOnly \subseteq b[Qsv]
        /\ FlagsIn(layer, Shared) \cap VaapiOnly \subseteq b[Vaapi]
    BY FlagsLand
  <2>2. Shared \in DOMAIN b
    BY OptionsThere, DefaultsAre
  <2> HIDE DEF b, layer
  <2>3. reached = b[Shared] \cup ActiveFlags(b)
    BY <2>2 DEF Projected, Shared
  <2> HIDE DEF reached
  <2>4. CASE b["gpu"] = "qsv"
    <3>1. ActiveFlags(b) \subseteq b[Qsv] \cup {"-low_power"} /\ b[Qsv] \subseteq ActiveFlags(b)
      BY <2>4 DEF ActiveFlags, Qsv
    <3>2. Foreign(b["gpu"]) = VaapiOnly /\ OwnBlock(b) = b[Qsv] /\ "-low_power" \notin VaapiOnly
      BY <2>4, FlagsDiffer DEF Foreign, OwnBlock, Qsv
    <3>. QED BY <2>1, <2>3, <3>1, <3>2 DEF b, layer, reached
  <2>5. CASE b["gpu"] = "vaapi"
    <3>1. ActiveFlags(b) = b[Vaapi]
      BY <2>5 DEF ActiveFlags, Vaapi
    <3>2. Foreign(b["gpu"]) = QsvOnly /\ OwnBlock(b) = b[Vaapi]
      BY <2>5 DEF Foreign, OwnBlock, Vaapi
    <3>. QED BY <2>1, <2>3, <3>1, <3>2 DEF b, layer, reached
  <2>6. CASE b["gpu"] \notin {"qsv", "vaapi"}
    <3>1. ActiveFlags(b) = {} /\ Foreign(b["gpu"]) = QsvOnly \cup VaapiOnly
      BY <2>6 DEF ActiveFlags, Foreign
    <3>. QED BY <2>1, <2>3, <3>1 DEF b, layer, reached
  <2>. QED BY <2>4, <2>5, <2>6
<1>. QED BY <1>1, PTL

-----------------------------------------------------------------------------
(* The node's identity.                                                    *)

\* While no one has saved the file since a load read it, what is on disk is what the load
\* works with, until it has written the id there.
IdentityInv ==
  loader.clean =>
    /\ loader.pc \in {"swap", "reset", "apply", "identify", "copy"} => doc = loader.file
    /\ loader.pc = "copy" => GivenId(loader.file) = NoId
    /\ loader.pc = "write" => doc = loader.copy
    /\ IdentityOnDisk

\* At the start nothing is read.
LEMMA IdentityStart == Init => IdentityInv
BY DEF Init, Reading, IdentityInv

\* Every step keeps it, one step of the proof per action.
LEMMA IdentityStep == ReadersInv /\ IdentityInv /\ [Next]_vars => IdentityInv'
<1> SUFFICES ASSUME ReadersInv, IdentityInv, [Next]_vars, loader'.clean PROVE IdentityInv'
  BY DEF IdentityInv
<1> USE DEF ReadersInv
<1>1. CASE Read
  <2>1. CASE Loads(doc)
    <3>1. loader'.file = doc /\ loader'.pc = "swap" /\ doc' = doc
      BY <1>1, <2>1 DEF Read, Shapes
    <3>. QED BY <3>1 DEF IdentityInv, IdentityOnDisk
  <2>2. CASE ~Loads(doc)
    <3>1. loader'.pc \in {"idle", "stopped"} /\ loader'.ok = FALSE
      BY <1>1, <2>2 DEF Read, Ended, Shapes
    <3>. QED BY <3>1 DEF IdentityInv, IdentityOnDisk
  <2>. QED BY <2>1, <2>2
<1>2. CASE Swap \/ Reset
  <2>1. /\ loader'.pc \in {"reset", "apply"} /\ loader'.file = loader.file /\ doc' = doc
        /\ loader'.clean = loader.clean /\ loader.pc \in {"swap", "reset"}
    BY <1>2 DEF Swap, Reset, Shapes
  <2>. QED BY <2>1 DEF IdentityInv, IdentityOnDisk
<1>3. CASE Apply
  <2>1. /\ loader'.file = loader.file /\ doc' = doc
        /\ loader'.clean = loader.clean /\ loader.pc = "apply"
        /\ loader'.pc = "identify" \/ (loader'.pc \in {"idle", "stopped"} /\ loader'.ok = FALSE)
    BY <1>3 DEF Apply, Ended, Shapes
  <2>. QED BY <2>1 DEF IdentityInv, IdentityOnDisk
<1>4. CASE ResolveId
  <2>1. loader.pc = "identify" /\ doc' = doc
    BY <1>4 DEF ResolveId
  <2>2. CASE GivenId(loader.file) # NoId /\ id' = [id EXCEPT !.cached = GivenId(loader.file)]
             /\ loader' = Loaded
    <3>1. id'.cached = GivenId(loader.file) /\ loader'.pc = "idle" /\ loader'.clean = loader.clean
      BY <2>2 DEF Loaded, Shapes
    <3>2. doc = loader.file
      BY <2>1, <3>1 DEF IdentityInv
    <3>. QED BY <2>1, <3>1, <3>2 DEF IdentityInv, IdentityOnDisk
  <2>3. ASSUME GivenId(loader.file) = NoId, NEW n \in Ids,
               loader' = [loader EXCEPT !.pc = "copy", !.fresh = n]
        PROVE  IdentityInv'
    <3>1. loader'.pc = "copy" /\ loader'.clean = loader.clean /\ loader'.file = loader.file
      BY <2>3 DEF Shapes
    <3>2. doc = loader.file
      BY <2>1, <3>1 DEF IdentityInv
    <3>. QED BY <2>1, <2>3, <3>1, <3>2 DEF IdentityInv, IdentityOnDisk, GivenId, DaemonSays
  <2>. QED BY <1>4, <2>2, <2>3 DEF ResolveId
<1>5. CASE Copy
  <2>1. loader.pc = "copy" /\ doc' = doc
    BY <1>5 DEF Copy
  <2>2. CASE doc.form \in {"buckets", "flat"}
    <3>1. loader'.pc = "write" /\ loader'.copy = doc
      BY <1>5, <2>2 DEF Copy, Shapes
    <3>. QED BY <2>1, <3>1 DEF IdentityInv, IdentityOnDisk
  <2>3. CASE doc.form \notin {"buckets", "flat"}
    <3>1. loader'.pc = "idle" /\ doc'.form # "buckets"
      BY <1>5, <2>1, <2>3 DEF Copy, Loaded, Shapes
    <3>. QED BY <3>1 DEF IdentityInv, IdentityOnDisk
  <2>. QED BY <2>2, <2>3
<1>6. CASE Write
  <2>1. /\ loader.pc = "write" /\ loader'.pc = "idle" /\ loader'.clean = loader.clean
        /\ id'.cached = loader.fresh
    BY <1>6 DEF Write, Loaded, Shapes
  <2>2. doc = loader.copy
    BY <2>1 DEF IdentityInv
  <2>3. CASE ~doc.writable
    <3>1. doc' = doc
      BY <1>6, <2>3 DEF Write
    <3>. QED BY <2>1, <2>3, <3>1 DEF IdentityInv, IdentityOnDisk
  <2>4. CASE doc.writable
    <3>1. doc' = Stamped(doc, loader.fresh)
      BY <1>6, <2>2, <2>4 DEF Write
    <3>2. doc'.daemon = Over(Set("node_id", loader.fresh), doc.daemon)
      BY <3>1, StampedForm DEF Shapes
    <3>3. Gives(doc'.daemon, "node_id") /\ doc'.daemon["node_id"] = loader.fresh
      BY <3>2 DEF Over, Set, Gives
    <3>4. ~Gives(doc'.daemon, "node-id") => GivenId(doc') = loader.fresh
      BY <3>3 DEF GivenId, DaemonSays
    <3>5. GivenId(doc)' = GivenId(doc')
      BY DEF GivenId, DaemonSays
    <3>. QED BY <2>1, <3>4, <3>5 DEF IdentityInv, IdentityOnDisk
  <2>. QED BY <2>3, <2>4
<1>7. CASE Serve
  <2>1. id'.cached = id.cached /\ UNCHANGED <<doc, loader>>
    BY <1>7 DEF Serve, Shapes
  <2>. QED BY <2>1 DEF IdentityInv, IdentityOnDisk, GivenId, DaemonSays
<1>8. CASE Reload \/ Restart
  <2>1. loader'.pc = "read"
    BY <1>8 DEF Reload, Restart, Reading
  <2>. QED BY <2>1 DEF IdentityInv, IdentityOnDisk
<1>9. CASE Edit
  <2>1. loader'.clean = FALSE
    BY <1>9 DEF Edit, Shapes
  <2>. QED BY <2>1
<1>10. CASE \/ Route \/ Construct \/ PushConfig \/ UNCHANGED vars
            \/ \E r \in Askers : RequestStep(r)
  <2>1. UNCHANGED <<doc, loader, id>>
    BY <1>10 DEF Route, Construct, PushConfig, vars, RequestStep, Ask, Fetch, Merge, MergeBase, Store
  <2>. QED BY <2>1 DEF IdentityInv, IdentityOnDisk, GivenId, DaemonSays
<1>. QED BY <1>1, <1>2, <1>3, <1>4, <1>5, <1>6, <1>7, <1>8, <1>9, <1>10 DEF Next, Load

\* _ensure_node_id, _write_node_id_to_yaml: for any files, edits and restarts, what a load that
\* nobody overtook leaves on disk gives the identity the process runs under.
THEOREM IdentityStays == Spec => []IdentityOnDisk
<1>1. IdentityInv => IdentityOnDisk
  BY DEF IdentityInv, IdentityOnDisk
<1>2. Spec => [](ReadersInv /\ IdentityInv)
  BY ReadersStart, ReadersStep, IdentityStart, IdentityStep, PTL DEF Spec
<1>. QED BY <1>1, <1>2, PTL

\* The daemon, its request threads and manual.py, which wait for nobody but a load for a
\* load, work with one configuration and one identity: for any files, threads and edits.
THEOREM ReadersStayInStep == Spec => []ReadersAgree
<1>1. CacheCurrent /\ SkipMeansPassedBack /\ IdentityOnDisk => ReadersAgree
  BY DEF ReadersAgree
<1>. QED BY <1>1, CacheIsCurrent, SkippedArePassedBack, IdentityStays, PTL

\* For any file that loads, what its layers, rules and instances say is what a run gets.
THEOREM SettingsAreSound == Spec => []SettingsSound
<1>1. ForcedIsConverted /\ ClosestLayerWins /\ FlagsReachTheirEncoder
      /\ RoutedClaimable /\ RoutedServersTold => SettingsSound
  BY DEF SettingsSound
<1>. QED BY <1>1, ForcedAreConverted, ClosestLayersWin, FlagsReach, RoutedAreClaimable,
           RoutedAreTold, PTL

=============================================================================
