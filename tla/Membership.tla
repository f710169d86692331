----------------------------- MODULE Membership -----------------------------
(***************************************************************************)
(* The registry of nodes and the commands sent to them: cluster_nodes and  *)
(* node_commands (resources/daemon/db.py), the loop of HeartbeatThread     *)
(* with _execute_command and the hourly maintenance                        *)
(* (resources/daemon/threads.py), and the admin endpoints                  *)
(* (resources/daemon/handler.py).  Cluster delivers commands without their *)
(* table; here the table, the approval and the expiry are the subject, and *)
(* the jobs are left out.                                                  *)
(***************************************************************************)
EXTENDS Integers, FiniteSets

CONSTANTS
  Member,         \* node ids
  NoMember,
  Target, Issued, \* bounds: which nodes are sent which commands one by one
  MaxCommands,    \* bound: commands ever sent
  MemberBudgets   \* bounds: how often each disturbance may happen

MemberDisturbance == {"crash", "stop", "raise", "remove", "approve", "broadcast"}

ASSUME MemberAssumption ==
  /\ NoMember \notin Member
  /\ IsFiniteSet(Member) /\ Target \subseteq Member
  /\ Issued \subseteq {"drain", "pause", "resume", "restart", "shutdown"}
  /\ MaxCommands \in Nat
  /\ MemberBudgets \subseteq [MemberDisturbance -> Nat]

VARIABLES
  entry,    \* cluster_nodes: status, approval_status, and how old last_seen is
  cmds,     \* node_commands, in the order of issued_at
  flags,    \* the drain and pause events of each node's worker pool
  beat,     \* the heartbeat thread: pc, the command in hand, the rows to expire
  running,  \* state of each daemon process
  strayed,  \* history: nodes whose flags may differ from their row: the process
            \* died, the row was deleted or a status write failed since
  lostCmds, \* history: commands whose execution was cut short
  removed,  \* history: rows the expiry deleted although their status was not offline
  mleft     \* disturbances still allowed

memberVars == <<entry, cmds, flags, beat, running, strayed, lostCmds, removed, mleft>>

Order   == {"drain", "pause", "resume", "restart", "shutdown"}
Gone    == [status |-> "absent", approval |-> "none", age |-> "fresh"]
Listed(m) == entry[m].status # "absent"
CmdId   == 1 .. MaxCommands
NoCmd   == [to |-> NoMember, order |-> "none", status |-> "none"]
Resting == [pc |-> "beat", cmd |-> 0, expired |-> {}]

Up(m) == running[m] = "up"

BeatAt(m, pc) == Up(m) /\ beat[m].pc = pc

BeatGoto(m, pc) == beat' = [beat EXCEPT ![m].pc = pc]

OrderOf(m) == cmds[beat[m].cmd].order

\* The oldest pending command of a node, if there is one.
NextCommand(m) ==
  {c \in CmdId : cmds[c].to = m /\ cmds[c].status = "pending"
                 /\ \A d \in CmdId : cmds[d].to = m /\ cmds[d].status = "pending" => c <= d}

MSpend(kind) == mleft[kind] > 0 /\ mleft' = [mleft EXCEPT ![kind] = @ - 1]

MemberInit ==
  /\ entry = [m \in Member |-> Gone]
  /\ cmds = [c \in CmdId |-> NoCmd]
  /\ flags = [m \in Member |-> {}]
  /\ beat = [m \in Member |-> Resting]
  /\ running = [m \in Member |-> "up"]
  /\ strayed = {} /\ lostCmds = {} /\ removed = {}
  /\ mleft \in MemberBudgets

-----------------------------------------------------------------------------
(* The heartbeat loop.                                                     *)

\* Slip: every beat resets the status.
BeatenSlip(e) ==
  [status |-> "online",
   approval |-> IF e.status = "absent" THEN "pending" ELSE e.approval, age |-> "fresh"]

\* heartbeat's upsert: a new row waits for approval, an old one keeps draining and
\* paused.
Beaten(e) ==
  [status |-> IF e.status \in {"draining", "paused"} THEN e.status ELSE "online",
   approval |-> IF e.status = "absent" THEN "pending" ELSE e.approval,
   age |-> "fresh"]

Beat(m) ==
  /\ BeatAt(m, "beat") /\ BeatGoto(m, "poll")
  /\ entry' = [entry EXCEPT ![m] = Beaten(@)]
  /\ UNCHANGED <<cmds, flags, running, strayed, lostCmds, removed, mleft>>

\* poll_node_command
PollCommand(m) ==
  /\ BeatAt(m, "poll")
  /\ IF NextCommand(m) = {}
     THEN BeatGoto(m, "recover") /\ UNCHANGED cmds
     ELSE LET c == CHOOSE x \in NextCommand(m) : TRUE IN
          /\ cmds' = [cmds EXCEPT ![c].status = "executing"]
          /\ beat' = [beat EXCEPT ![m].pc = "flag", ![m].cmd = c]
  /\ UNCHANGED <<entry, flags, running, strayed, lostCmds, removed, mleft>>

\* _execute_command, the worker pool's events.
SetFlags(m) ==
  /\ BeatAt(m, "flag") /\ BeatGoto(m, "write")
  /\ flags' = [flags EXCEPT ![m] =
       CASE OrderOf(m) \in {"drain", "pause"} -> @ \cup {OrderOf(m)}
         [] OrderOf(m) = "resume" -> {}
         [] OTHER -> @]
  /\ UNCHANGED <<entry, cmds, running, strayed, lostCmds, removed, mleft>>

StatusFor ==
  [drain |-> "draining", pause |-> "paused", resume |-> "online",
   restart |-> "restarting", shutdown |-> "offline"]

\* Slip: the acknowledgement asks for a command that is still pending.
AnswerSlip(c, status) ==
  cmds' = [cmds EXCEPT ![c].status = IF @ = "pending" THEN status ELSE @]

\* ack_node_command: no row if the expiry dropped it meanwhile.
Answer(c, status) ==
  cmds' = [cmds EXCEPT ![c].status = IF @ = "deleted" THEN @ ELSE status]

\* set_node_status, then the acknowledgement; restart and shutdown end the thread.
MarkNode(m) ==
  /\ BeatAt(m, "write") /\ BeatGoto(m, "ack")
  /\ entry' = [entry EXCEPT ![m].status =
                 IF Listed(m) THEN StatusFor[OrderOf(m)] ELSE @]
  /\ strayed' = IF OrderOf(m) = "resume" /\ Listed(m) THEN strayed \ {m} ELSE strayed
  /\ UNCHANGED <<cmds, flags, running, lostCmds, removed, mleft>>

Acknowledge(m) ==
  /\ BeatAt(m, "ack")
  /\ Answer(beat[m].cmd, "done")
  /\ IF OrderOf(m) \in {"restart", "shutdown"}
     THEN /\ running' = [running EXCEPT ![m] = OrderOf(m)]
          /\ beat' = [beat EXCEPT ![m] = Resting]
     ELSE /\ beat' = [beat EXCEPT ![m].pc = "recover", ![m].cmd = 0]
          /\ UNCHANGED running
  /\ UNCHANGED <<entry, flags, strayed, lostCmds, removed, mleft>>

\* A database call of _execute_command raises: the command is marked failed, or,
\* when that raises too, left executing.
CommandFails(m) ==
  /\ beat[m].pc \in {"write", "ack"} /\ Up(m) /\ MSpend("raise")
  /\ beat' = [beat EXCEPT ![m].pc = "recover", ![m].cmd = 0]
  /\ strayed' = strayed \cup {m}
  /\ \/ Answer(beat[m].cmd, "failed") /\ UNCHANGED lostCmds
     \/ lostCmds' = lostCmds \cup {beat[m].cmd} /\ UNCHANGED cmds
  /\ UNCHANGED <<entry, flags, running, removed>>

\* recover_stale_nodes: the rows of silent nodes (their jobs are Cluster's).
Recover(m) ==
  /\ BeatAt(m, "recover") /\ BeatGoto(m, "expire")
  /\ entry' = [n \in Member |->
       IF entry[n].status = "online" /\ entry[n].age # "fresh"
       THEN [entry[n] EXCEPT !.status = "offline"] ELSE entry[n]]
  /\ UNCHANGED <<cmds, flags, running, strayed, lostCmds, removed, mleft>>

\* expire_offline_nodes: three transactions, run at most hourly.
SkipMaintenance(m) ==
  /\ BeatAt(m, "expire") /\ BeatGoto(m, "beat")
  /\ UNCHANGED <<entry, cmds, flags, running, strayed, lostCmds, removed, mleft>>

SelectExpired(m) ==
  LET old == {n \in Member : entry[n].status = "offline" /\ entry[n].age = "aged"} IN
  /\ BeatAt(m, "expire") /\ old # {}
  /\ beat' = [beat EXCEPT ![m].pc = "orphans", ![m].expired = old]
  /\ UNCHANGED <<entry, cmds, flags, running, strayed, lostCmds, removed, mleft>>

\* cleanup_orphaned_commands
DropCommands(m) ==
  /\ BeatAt(m, "orphans") /\ BeatGoto(m, "delete")
  /\ cmds' = [c \in CmdId |-> IF cmds[c].to \in beat[m].expired
                              THEN [cmds[c] EXCEPT !.status = "deleted"] ELSE cmds[c]]
  /\ UNCHANGED <<entry, flags, running, strayed, lostCmds, removed, mleft>>

DeleteExpired(m) ==
  /\ BeatAt(m, "delete")
  /\ beat' = [beat EXCEPT ![m] = Resting]
  /\ entry' = [n \in Member |-> IF n \in beat[m].expired THEN Gone ELSE entry[n]]
  /\ removed' = removed \cup {n \in beat[m].expired : entry[n].status \notin {"offline", "absent"}}
  /\ strayed' = strayed \cup beat[m].expired
  /\ UNCHANGED <<cmds, flags, running, lostCmds, mleft>>

-----------------------------------------------------------------------------
(* The daemon process and time.                                            *)

\* _stop_and_drain ends with mark_node_offline; a restart runs the program again.
Stopped(m) ==
  /\ running[m] \in {"restart", "shutdown"}
  /\ running' = [running EXCEPT ![m] = IF @ = "restart" THEN "up" ELSE "down"]
  /\ flags' = [flags EXCEPT ![m] = {}]
  /\ entry' = [entry EXCEPT ![m].status = IF Listed(m) THEN "offline" ELSE @]
  /\ strayed' = strayed \ {m}
  /\ UNCHANGED <<cmds, beat, lostCmds, removed, mleft>>

\* SIGTERM or POST /shutdown: the heartbeat thread is stopped between two beats.
StopDaemon(m) ==
  /\ BeatAt(m, "beat") /\ MSpend("stop")
  /\ running' = [running EXCEPT ![m] = "shutdown"]
  /\ UNCHANGED <<entry, cmds, flags, beat, strayed, lostCmds, removed>>

CrashDaemon(m) ==
  /\ running[m] # "down" /\ MSpend("crash")
  /\ running' = [running EXCEPT ![m] = "down"]
  /\ flags' = [flags EXCEPT ![m] = {}]
  /\ beat' = [beat EXCEPT ![m] = Resting]
  /\ strayed' = strayed \cup {m}
  /\ lostCmds' = IF beat[m].cmd = 0 THEN lostCmds ELSE lostCmds \cup {beat[m].cmd}
  /\ UNCHANGED <<entry, cmds, removed>>

StartDaemon(m) ==
  /\ running[m] = "down"
  /\ running' = [running EXCEPT ![m] = "up"]
  /\ UNCHANGED <<entry, cmds, flags, beat, strayed, lostCmds, removed, mleft>>

\* last_seen grows old while a process is down, first past stale_seconds, then past
\* node_expiry_days.
GrowOld(m) ==
  /\ running[m] # "up" /\ Listed(m) /\ entry[m].age # "aged"
  /\ entry' = [entry EXCEPT ![m].age = IF @ = "fresh" THEN "stale" ELSE "aged"]
  /\ UNCHANGED <<cmds, flags, beat, running, strayed, lostCmds, removed, mleft>>

-----------------------------------------------------------------------------
(* The admin API.                                                          *)

Free == {c \in CmdId : cmds[c].status = "none"}

\* send_node_command to one node: accepted whether or not the node has a row.
SendCommand(m, order) ==
  /\ Free # {}
  /\ LET c == CHOOSE x \in Free : \A y \in Free : x <= y IN
     cmds' = [cmds EXCEPT ![c] = [to |-> m, order |-> order, status |-> "pending"]]
  /\ UNCHANGED <<entry, flags, beat, running, strayed, lostCmds, removed, mleft>>

\* send_node_command without a node: one row per online node.
Broadcast(order) ==
  LET to == {m \in Member : entry[m].status = "online"} IN
  /\ MSpend("broadcast")
  /\ to # {} /\ Cardinality(Free) >= Cardinality(to)
  /\ \E give \in [to -> Free] :
       /\ \A m, n \in to : m # n => give[m] # give[n]
       /\ \A m \in to, c \in Free : c < give[m] => \E n \in to : give[n] = c
       /\ cmds' = [c \in CmdId |->
            IF \E m \in to : give[m] = c
            THEN [to |-> CHOOSE m \in to : give[m] = c, order |-> order,
                  status |-> "pending"]
            ELSE cmds[c]]
  /\ UNCHANGED <<entry, flags, beat, running, strayed, lostCmds, removed>>

\* set_node_approval
SetApproval(m, verdict) ==
  /\ Listed(m) /\ MSpend("approve")
  /\ entry' = [entry EXCEPT ![m].approval = verdict]
  /\ UNCHANGED <<cmds, flags, beat, running, strayed, lostCmds, removed>>

\* delete_node, and delete_offline_nodes, which takes every row not online.
RemoveRows(ms) ==
  /\ MSpend("remove")
  /\ entry' = [m \in Member |-> IF m \in ms THEN Gone ELSE entry[m]]
  /\ strayed' = strayed \cup ms
  /\ UNCHANGED <<cmds, flags, beat, running, lostCmds, removed>>

DeleteNode(m) == Listed(m) /\ RemoveRows({m})

DeleteOfflineNodes ==
  LET ms == {m \in Member : Listed(m) /\ entry[m].status # "online"} IN
  ms # {} /\ RemoveRows(ms)

-----------------------------------------------------------------------------
Loop(m) ==
  \/ Beat(m)
  \/ PollCommand(m)
  \/ SetFlags(m)
  \/ MarkNode(m)
  \/ Acknowledge(m)
  \/ Recover(m)
  \/ SkipMaintenance(m)
  \/ SelectExpired(m)
  \/ DropCommands(m)
  \/ DeleteExpired(m)

Admin ==
  \/ \E m \in Target, o \in Issued : SendCommand(m, o)
  \/ \E o \in Issued : Broadcast(o)
  \/ \E m \in Member, v \in {"approved", "rejected"} : SetApproval(m, v)
  \/ \E m \in Member : DeleteNode(m)
  \/ DeleteOfflineNodes

MemberNext ==
  \/ \E m \in Member :
       \/ Loop(m)
       \/ CommandFails(m)
       \/ Stopped(m)
       \/ StopDaemon(m)
       \/ CrashDaemon(m)
       \/ StartDaemon(m)
       \/ GrowOld(m)
  \/ Admin

\* The heartbeat thread runs and a stop completes; no one has to start a daemon.
MemberFairness == \A m \in Member : WF_memberVars(Loop(m)) /\ WF_memberVars(Stopped(m))

MemberSpec == MemberInit /\ [][MemberNext]_memberVars /\ MemberFairness

-----------------------------------------------------------------------------
(* Properties.                                                             *)

\* Rows, commands and threads are well formed; a thread holds a command exactly
\* between polling and acknowledging it, and it is one sent to this node.
MemberTypeOK ==
  /\ entry \in [Member -> [status : {"absent", "online", "offline", "draining",
                                     "paused", "restarting"},
                           approval : {"none", "pending", "approved", "rejected"},
                           age : {"fresh", "stale", "aged"}]]
  /\ cmds \in [CmdId -> [to : Member \cup {NoMember}, order : Order \cup {"none"},
                         status : {"none", "pending", "executing", "done", "failed",
                                   "deleted"}]]
  /\ flags \in [Member -> SUBSET {"drain", "pause"}]
  /\ beat \in [Member -> [pc : {"beat", "poll", "flag", "write", "ack", "recover",
                                "expire", "orphans", "delete"},
                          cmd : CmdId \cup {0}, expired : SUBSET Member]]
  /\ running \in [Member -> {"up", "restart", "shutdown", "down"}]
  /\ \A m \in Member :
       /\ beat[m].cmd # 0 <=> beat[m].pc \in {"flag", "write", "ack"}
       /\ beat[m].cmd # 0 => cmds[beat[m].cmd].to = m

Between(m) == Up(m) /\ beat[m].cmd = 0

\* A daemon whose row says draining or paused takes no jobs, and one whose row says
\* online has no gate set, unless its process died, its row was deleted or a status
\* write failed since (_execute_command: the flag is memory, the status a row).
FlagsMatchRow ==
  \A m \in Member :
     Between(m) /\ m \notin strayed =>
        /\ entry[m].status \in {"draining", "paused"} => flags[m] # {}
        /\ entry[m].status = "online" => flags[m] = {}

\* Commands of a node are carried out one at a time and in the order they were sent.
CommandsInOrder ==
  \A c, d \in CmdId :
     /\ c < d /\ cmds[c].to = cmds[d].to
     /\ cmds[d].status \in {"executing", "done", "failed"}
     => cmds[c].status # "pending" /\ (cmds[c].status = "executing" => c \in lostCmds)

\* What was commanded last is what memory and the row both say.
CommandsTakeEffect == FlagsMatchRow /\ CommandsInOrder

\* docs/daemon.md: a node whose row says draining or paused picks up no jobs.
HeldBack ==
  \A m \in Member :
     Between(m) /\ entry[m].status \in {"draining", "paused"} => flags[m] # {}

\* docs/daemon.md: only nodes in offline status are eligible for expiry.
OnlyOfflineExpired == removed = {}

\* A command sent to a running node is carried out, failed or dropped with its row,
\* unless the node stops or its execution is cut short.
CommandsSettle ==
  \A c \in CmdId :
     cmds[c].status \in {"pending", "executing"}
     ~> \/ cmds[c].status \in {"done", "failed", "deleted"}
        \/ c \in lostCmds
        \/ cmds[c].to \notin {m \in Member : Up(m)}

=============================================================================
