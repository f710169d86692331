----------------------------- MODULE LogArchive -----------------------------
(***************************************************************************)
(* The logs table of the cluster: the buffered handler of each node        *)
(* (resources/daemon/db_log_handler.py), the statements on the table       *)
(* (resources/daemon/db.py), and the hourly maintenance of every node      *)
(* (resources/daemon/threads.py) with its LogArchiver                      *)
(* (resources/daemon/log_archiver.py), which moves aged rows to one file   *)
(* per node and day.                                                       *)
(***************************************************************************)
EXTENDS Integers, FiniteSets

CONSTANTS
  Archiver,              \* nodes that run the maintenance and write to one directory
  BatchMax,              \* batch_size of the handler
  HoursPerDay, KeepDays, \* log_archive_after_days
  TtlDays,               \* log_ttl_days; 0 when rows are not expired
  MaxRows, MaxHour,      \* bounds: rows ever logged, hours that pass
  LogBudgets             \* bounds: how often each disturbance may happen

LogDisturbance == {"insertFails", "writeFails", "prune", "crash"}

ASSUME LogAssumption ==
  /\ BatchMax \in Nat \ {0} /\ HoursPerDay \in Nat \ {0}
  /\ KeepDays \in Nat \ {0} /\ TtlDays \in Nat
  /\ MaxRows \in Nat /\ MaxHour \in Nat
  /\ LogBudgets \subseteq [LogDisturbance -> Nat]

VARIABLES
  hour,      \* NOW(), in hours
  buffer,    \* _batch of the handler: entries not yet inserted
  stamp,     \* logs: row -> the hour of its insertion, defined on the rows there are
  archive,   \* the directory: day -> the rows its file holds
  moving,    \* archiver -> pc, the rows it fetched, the days to write, all_written
  emitted,   \* entries logged so far
  lleft,     \* disturbances still allowed
  unsaved,   \* history: entries whose insert failed
  everWritten, crossed, expired, pruned   \* history: rows written to some file, rows
             \* that aged between an archiver's select and its delete, rows the TTL
             \* deleted, rows whose file was pruned

logHistory == <<everWritten, crossed, expired, pruned>>

logVars == <<hour, buffer, stamp, archive, moving, emitted, lleft, unsaved, logHistory>>

Entry   == 1 .. MaxRows
DayOf(h) == h \div HoursPerDay
LogDay  == 0 .. DayOf(MaxHour)
Idle    == [pc |-> "idle", got |-> << >>, days |-> {}, ok |-> TRUE]

LSpend(kind) == lleft[kind] > 0 /\ lleft' = [lleft EXCEPT ![kind] = @ - 1]

LogInit ==
  /\ hour = 0 /\ buffer = {} /\ stamp = << >> /\ emitted = 0 /\ unsaved = {}
  /\ archive = [d \in LogDay |-> {}]
  /\ moving = [a \in Archiver |-> Idle]
  /\ everWritten = {} /\ crossed = {} /\ expired = {} /\ pruned = {}
  /\ lleft \in LogBudgets

OlderAt(h, days) == {r \in DOMAIN stamp : stamp[r] < h - days * HoursPerDay}

OlderThan(days) == OlderAt(hour, days)

Unlogged(rows) == [r \in DOMAIN stamp \ rows |-> stamp[r]]

-----------------------------------------------------------------------------
(* PostgreSQLLogHandler.                                                   *)

\* _flush_locked: the batch is emptied before the insert, and a failed insert is
\* swallowed.
FlushedTo(batch) ==
  /\ buffer' = {}
  /\ \/ stamp' = [r \in DOMAIN stamp \cup batch |->
                    IF r \in batch THEN hour ELSE stamp[r]]
        /\ UNCHANGED <<lleft, unsaved>>
     \/ LSpend("insertFails") /\ unsaved' = unsaved \cup batch /\ UNCHANGED stamp

\* emit: the entry joins the batch, and a full batch is inserted.
Emit ==
  /\ emitted < MaxRows /\ emitted' = emitted + 1
  /\ LET batch == buffer \cup {emitted + 1} IN
     IF Cardinality(batch) >= BatchMax
     THEN FlushedTo(batch)
     ELSE buffer' = batch /\ UNCHANGED <<stamp, lleft, unsaved>>
  /\ UNCHANGED <<hour, archive, moving, logHistory>>

\* flush, on close.
Flush ==
  /\ buffer # {} /\ FlushedTo(buffer)
  /\ UNCHANGED <<hour, archive, moving, emitted, logHistory>>

-----------------------------------------------------------------------------
(* The hourly maintenance of node a.                                       *)

\* cleanup_old_logs comes first.
Expire(a) ==
  /\ moving[a].pc = "idle"
  /\ LET old == IF TtlDays > 0 THEN OlderThan(TtlDays) ELSE {} IN
     stamp' = Unlogged(old) /\ expired' = expired \cup old
  /\ moving' = [moving EXCEPT ![a] = [Idle EXCEPT !.pc = "select"]]
  /\ UNCHANGED <<hour, buffer, archive, emitted, lleft, unsaved, everWritten, crossed,
                 pruned>>

\* get_logs_for_archival, grouped by day.
Fetch(a) ==
  /\ moving[a].pc = "select"
  /\ LET rows == OlderThan(KeepDays)
         got == [r \in rows |-> DayOf(stamp[r])] IN
     moving' = [moving EXCEPT ![a] =
                  IF rows = {} THEN [Idle EXCEPT !.pc = "prune"]
                  ELSE [pc |-> "write", got |-> got, ok |-> TRUE,
                        days |-> {got[r] : r \in rows}]]
  /\ UNCHANGED <<hour, buffer, stamp, archive, emitted, lleft, unsaved, logHistory>>

\* The rows archiver a puts into the file of day d.
BatchOf(a, d) == {r \in DOMAIN moving[a].got : moving[a].got[r] = d}

\* _write_archive: the temporary file replaces whatever the day's file held.
WriteDay(a) == \E d \in moving[a].days :
  /\ moving[a].pc = "write"
  /\ \/ /\ archive' = [archive EXCEPT ![d] = BatchOf(a, d)]
        /\ everWritten' = everWritten \cup BatchOf(a, d)
        /\ moving' = [moving EXCEPT ![a].days = @ \ {d}]
        /\ UNCHANGED lleft
     \/ /\ LSpend("writeFails")
        /\ moving' = [moving EXCEPT ![a].days = @ \ {d}, ![a].ok = FALSE]
        /\ UNCHANGED <<archive, everWritten>>
  /\ UNCHANGED <<hour, buffer, stamp, emitted, unsaved, crossed, expired, pruned>>

\* Slip: the rows are deleted although a file could not be written.
DoomedSlip(a) == OlderThan(KeepDays)

\* delete_logs_before computes its own cutoff.
Doomed(a) == IF moving[a].ok THEN OlderThan(KeepDays) ELSE {}

DeleteMoved(a) ==
  /\ moving[a].pc = "write" /\ moving[a].days = {}
  /\ stamp' = Unlogged(Doomed(a))
  /\ moving' = [moving EXCEPT ![a] = [Idle EXCEPT !.pc = "prune"]]
  /\ UNCHANGED <<hour, buffer, archive, emitted, lleft, unsaved, logHistory>>

\* _prune_old_files: a file may be old enough to go.
PruneFiles(a) ==
  /\ moving[a].pc = "prune" /\ moving' = [moving EXCEPT ![a] = Idle]
  /\ \/ \E d \in LogDay :
          /\ LSpend("prune")
          /\ archive' = [archive EXCEPT ![d] = {}] /\ pruned' = pruned \cup archive[d]
     \/ UNCHANGED <<archive, pruned, lleft>>
  /\ UNCHANGED <<hour, buffer, stamp, emitted, unsaved, everWritten, crossed, expired>>

\* The daemon of node a dies; its next run starts from the beginning.
ArchiverDies(a) ==
  /\ moving[a].pc # "idle" /\ LSpend("crash")
  /\ moving' = [moving EXCEPT ![a] = Idle]
  /\ UNCHANGED <<hour, buffer, stamp, archive, emitted, unsaved, logHistory>>

-----------------------------------------------------------------------------
\* An hour passes; rows may cross the cutoff of an archiver at work.
PassHour ==
  /\ hour < MaxHour /\ hour' = hour + 1
  /\ crossed' = IF \E a \in Archiver : moving[a].pc = "write"
                THEN crossed \cup (OlderAt(hour + 1, KeepDays) \ OlderThan(KeepDays))
                ELSE crossed
  /\ UNCHANGED <<buffer, stamp, archive, moving, emitted, lleft, unsaved, everWritten,
                 expired, pruned>>

LogNext ==
  \/ Emit
  \/ Flush
  \/ PassHour
  \/ \E a \in Archiver :
       \/ Expire(a) \/ Fetch(a) \/ WriteDay(a) \/ DeleteMoved(a)
       \/ PruneFiles(a) \/ ArchiverDies(a)

LogSpec == LogInit /\ [][LogNext]_logVars

-----------------------------------------------------------------------------
(* Properties.                                                             *)

\* Rows that reached the table and are in it no more, and not because of the TTL.
LeftTable(r) ==
  r \in 1 .. emitted /\ r \notin buffer \cup unsaved \cup DOMAIN stamp \cup expired

\* A row leaves the table for the archive only after some file held it, also when
\* files fail to be written and two nodes archive at once, unless it reached the age
\* limit between a node's select and its delete.
MovedWereWritten == \A r \in Entry : LeftTable(r) => r \in everWritten \cup crossed

\* docs/daemon.md: "concurrent archival across nodes produces no data loss": a row
\* that was moved is in a file until its file is pruned.
NoDataLoss ==
  \A r \in everWritten :
    r \in DOMAIN stamp \cup expired \cup pruned \cup UNION {archive[d] : d \in LogDay}

=============================================================================
