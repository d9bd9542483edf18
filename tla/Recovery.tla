------------------------------ MODULE Recovery ------------------------------
(***************************************************************************)
(* The files of a database directory across crashes and restarts:          *)
(* DB::Open, DBImpl::Recover, VersionSet::Recover and LogAndApply,         *)
(* SetCurrentFile, DeleteObsoleteFiles and RepairDB, one step for every    *)
(* change of the directory, with the process dying between any two.        *)
(*                                                                         *)
(* An entry is [seq, id]: its sequence number and, to tell writes apart    *)
(* when a sequence number is used again, the number of the write.  A table *)
(* is the set of its entries, a log and a manifest are sequences of        *)
(* records.  Which entry a lookup finds is the subject of module LSM.      *)
(***************************************************************************)
EXTENDS Integers, Sequences, FiniteSets, SequencesExt, FiniteSetsExt

CONSTANTS
  Configs,         \* environments and options, with bounds on what happens
  WriteBufferSize  \* entries that a memtable holds when a log is replayed

VARIABLES
  options,    \* a member of Configs
  current,    \* the manifest that CURRENT names, or 0
  manifests,  \* number -> sequence of edits
  logs,       \* number -> sequence of entries
  tables,     \* number -> set of entries
  temps,      \* numbers of the *.dbtmp files
  buffered,   \* records at the end of the open log and manifest that are still
              \* in the memory of the process
  db,         \* the DBImpl, its VersionSet and the thread that changes files
  promised,   \* how many of the writes that clients have seen no crash may undo
  issued,     \* number of writes
  broken,     \* RepairDB was interrupted
  count       \* how often the bounded events have happened

files == <<current, manifests, logs, tables, temps>>
vars == <<options, files, buffered, db, promised, issued, broken, count>>

Counted == {"opens", "writes", "crashes", "switches", "compactions", "errors", "repairs"}
Count(what) == /\ count[what] < options[what]
               /\ count' = [count EXCEPT ![what] = @ + 1]

Put(f, n, x) == (n :> x) @@ f
Drop(f, S) == [n \in DOMAIN f \ S |-> f[n]]
Ascending(S) == SetToSortSeq(S, <)

\* An edit of the manifest; log, next and last are -1 when the record lacks them.
Edit(log, next, last, added, deleted) ==
  [log |-> log, next |-> next, last |-> last, added |-> added, deleted |-> deleted]
NoEdit == Edit(-1, -1, -1, {}, {})

\* No process has the database open.
Closed == [pc |-> "closed", up |-> FALSE]

\* What VersionSet and DBImpl hold while they recover and later.
Opening(pc) ==
  [pc |-> pc, up |-> FALSE, version |-> {}, log_number |-> 0, manifest_number |-> 0,
   next_file |-> 2, last_sequence |-> 0, descriptor |-> FALSE, logfile |-> 0,
   mem |-> {}, imm |-> {}, pending |-> {}, bg_error |-> FALSE,
   todo |-> <<>>, at |-> 1, flushes |-> 0, save_manifest |-> FALSE, edit |-> NoEdit]

Init ==
  /\ options \in Configs
  /\ current = 0 /\ manifests = <<>> /\ logs = <<>> /\ tables = <<>> /\ temps = {}
  /\ buffered = [log |-> 0, manifest |-> 0]
  /\ db = Closed
  /\ promised = 0 /\ issued = 0 /\ broken = FALSE
  /\ count = [what \in Counted |-> 0]

Posix == options.env = "posix"
Contents == UNION {tables[n] : n \in db.version} \cup db.mem \cup db.imm

-----------------------------------------------------------------------------
(* DB::Open: a missing CURRENT means a new database. *)

Open ==
  /\ db.pc = "closed" /\ ~broken
  /\ Count("opens")
  /\ db' = Opening(IF current = 0 THEN "newdb" ELSE "recover")
  /\ UNCHANGED <<options, files, buffered, promised, issued, broken>>

\* DBImpl::NewDB: a manifest with one record, closed before CURRENT names it.
NewDB ==
  /\ db.pc = "newdb"
  /\ manifests' = Put(manifests, 1, <<Edit(0, 2, 0, {}, {})>>)
  /\ db' = [db EXCEPT !.pc = "temp", !.manifest_number = 1]
  /\ UNCHANGED <<options, current, logs, tables, temps, buffered, promised, issued,
                 broken, count>>

\* SetCurrentFile: the new contents of CURRENT are written and synced elsewhere.
SetCurrentFile ==
  /\ db.pc = "temp"
  /\ temps' = temps \cup {db.manifest_number}
  /\ db' = [db EXCEPT !.pc = "rename"]
  /\ UNCHANGED <<options, current, manifests, logs, tables, buffered, promised, issued,
                 broken, count>>

\* PosixEnv::RenameFile replaces the target in one step.  WinEnv::RenameFile deletes
\* the target first.
RenameFile ==
  /\ db.pc = "rename"
  /\ current' = IF Posix THEN db.manifest_number ELSE 0
  /\ temps' = IF Posix THEN temps \ {db.manifest_number} ELSE temps
  /\ db' = [db EXCEPT !.pc = IF Posix THEN "renamed" ELSE "move"]
  /\ UNCHANGED <<options, manifests, logs, tables, buffered, promised, issued, broken, count>>

MoveFile ==
  /\ db.pc = "move"
  /\ current' = db.manifest_number
  /\ temps' = temps \ {db.manifest_number}
  /\ db' = [db EXCEPT !.pc = "renamed"]
  /\ UNCHANGED <<options, manifests, logs, tables, buffered, promised, issued, broken, count>>

\* NewDB, LogAndApply and RepairDB go on where they called SetCurrentFile.
Renamed ==
  /\ db.pc = "renamed"
  /\ db' = IF broken THEN Closed
           ELSE [db EXCEPT !.pc = IF db.edit = NoEdit THEN "recover" ELSE "install"]
  /\ broken' = FALSE
  /\ UNCHANGED <<options, files, buffered, promised, issued, count>>

\* VersionSet::Recover replays the manifest that CURRENT names ...
LastOf(edits, field) ==
  LET has == {i \in DOMAIN edits : edits[i][field] # -1}
  IN  IF has = {} THEN -1 ELSE edits[Max(has)][field]
RecoveredVersion(edits) ==
  LET After[i \in 0..Len(edits)] ==
        IF i = 0 THEN {} ELSE (After[i - 1] \ edits[i].deleted) \cup edits[i].added
  IN  After[Len(edits)]

\* ... and DBImpl::Recover lists the logs to replay and looks for missing files.
\* A file of any type with the number of a table counts as that table.
Recover ==
  /\ db.pc = "recover"
  /\ LET edits == IF current \in DOMAIN manifests THEN manifests[current] ELSE <<>>
         log == LastOf(edits, "log")
         next == LastOf(edits, "next")
         version == RecoveredVersion(edits)
         present == DOMAIN manifests \cup DOMAIN logs \cup DOMAIN tables \cup temps
         corrupt == log = -1 \/ next = -1 \/ ~(version \subseteq present)
     IN  \E reuse \in IF options.reuse_logs /\ Posix THEN BOOLEAN ELSE {FALSE} :
           db' = IF corrupt THEN [db EXCEPT !.pc = "corrupt"]
                 ELSE [Opening("replay") EXCEPT
                         !.version = version, !.log_number = log,
                         !.manifest_number = IF reuse THEN current ELSE next,
                         !.descriptor = reuse, !.save_manifest = ~reuse,
                         !.next_file = next + 1, !.last_sequence = LastOf(edits, "last"),
                         !.todo = Ascending({n \in DOMAIN logs : n >= log \/ n = 0})]
  /\ UNCHANGED <<options, files, buffered, promised, issued, broken, count>>

-----------------------------------------------------------------------------
(* DBImpl::RecoverLogFile. *)

MaxOf(a, b) == IF a > b THEN a ELSE b

\* WriteLevel0Table: a table of the entries, to be named by the edit of Open.
Flushed(d, entries) ==
  /\ tables' = Put(tables, d.next_file, entries)
  /\ db' = [d EXCEPT !.next_file = @ + 1, !.mem = {}, !.flushes = @ + 1,
                     !.save_manifest = TRUE, !.edit.added = @ \cup {d.next_file}]

\* The sequence numbers in the log are not looked at.
ReplayForgetSequence ==
  /\ db.pc = "replay" /\ db.todo # <<>>
  /\ db.at <= Len(logs[Head(db.todo)])
  /\ LET e == logs[Head(db.todo)][db.at]
         d == [db EXCEPT !.mem = @ \cup {e}, !.at = @ + 1]
     IN  IF Cardinality(d.mem) > WriteBufferSize THEN Flushed(d, d.mem)
         ELSE db' = d /\ UNCHANGED tables
  /\ UNCHANGED <<options, current, manifests, logs, temps, buffered, promised, issued,
                 broken, count>>

\* One record goes into a memtable, and a full memtable into a table.
ReplayRecord ==
  /\ db.pc = "replay" /\ db.todo # <<>>
  /\ db.at <= Len(logs[Head(db.todo)])
  /\ LET e == logs[Head(db.todo)][db.at]
         d == [db EXCEPT !.mem = @ \cup {e}, !.at = @ + 1,
                         !.last_sequence = MaxOf(@, e.seq)]
     IN  IF Cardinality(d.mem) > WriteBufferSize THEN Flushed(d, d.mem)
         ELSE db' = d /\ UNCHANGED tables
  /\ UNCHANGED <<options, current, manifests, logs, temps, buffered, promised, issued,
                 broken, count>>

\* At the end of a log: it is kept in use, or what is left of it becomes a table.
\* MarkFileNumberUsed comes after the table has taken its number.
ReplayEnd ==
  /\ db.pc = "replay" /\ db.todo # <<>>
  /\ db.at > Len(logs[Head(db.todo)])
  /\ LET log == Head(db.todo)
         reuse == options.reuse_logs /\ Posix /\ Len(db.todo) = 1 /\ db.flushes = 0
         Done(d) == [d EXCEPT !.todo = Tail(@), !.at = 1, !.flushes = 0,
                              !.next_file = MaxOf(@, log + 1)]
     IN  IF reuse THEN db' = [Done(db) EXCEPT !.logfile = log] /\ UNCHANGED tables
         ELSE IF db.mem = {} THEN db' = Done(db) /\ UNCHANGED tables
         ELSE /\ tables' = Put(tables, db.next_file, db.mem)
              /\ db' = Done([db EXCEPT !.mem = {}, !.save_manifest = TRUE,
                                       !.next_file = @ + 1,
                                       !.edit.added = @ \cup {db.next_file}])
  /\ UNCHANGED <<options, current, manifests, logs, temps, buffered, promised, issued,
                 broken, count>>

\* The rest of DB::Open: a new log unless one is reused, then the edit.
NewLog ==
  /\ db.pc = "replay" /\ db.todo = <<>>
  /\ LET new == db.logfile = 0
         log == IF new THEN db.next_file ELSE db.logfile
         d == [db EXCEPT !.logfile = log, !.next_file = IF new THEN @ + 1 ELSE @]
     IN  /\ logs' = IF new THEN Put(logs, log, <<>>) ELSE logs
         /\ db' = IF db.save_manifest
                  THEN [d EXCEPT !.pc = "log_edit", !.edit.log = log]
                  ELSE [d EXCEPT !.pc = "delete"]
  /\ UNCHANGED <<options, current, manifests, tables, temps, buffered, promised, issued,
                 broken, count>>

-----------------------------------------------------------------------------
(* VersionSet::LogAndApply, for Open and for the background thread. *)

\* The edit, behind a snapshot of the version when the manifest is new.
LogEdit ==
  /\ db.pc = "log_edit"
  /\ LET edit == [db.edit EXCEPT !.log = IF @ = -1 THEN db.log_number ELSE @,
                                 !.next = db.next_file, !.last = db.last_sequence]
     IN  /\ manifests' =
              Put(manifests, db.manifest_number,
                  IF db.descriptor THEN Append(manifests[db.manifest_number], edit)
                  ELSE <<Edit(-1, -1, -1, db.version, {}), edit>>)
         /\ db' = [db EXCEPT !.pc = "sync_edit", !.edit = edit]
  /\ buffered' = [buffered EXCEPT !.manifest = IF Posix THEN 0 ELSE @ + 1]
  /\ UNCHANGED <<options, current, logs, tables, temps, promised, issued, broken, count>>

SyncEdit ==
  /\ db.pc = "sync_edit"
  /\ buffered' = [buffered EXCEPT !.manifest = 0]
  /\ db' = [db EXCEPT !.pc = IF db.descriptor THEN "install" ELSE "temp"]
  /\ UNCHANGED <<options, files, promised, issued, broken, count>>

\* Install the version; the memtable or the inputs that it replaces are let go.
Install ==
  /\ db.pc = "install"
  /\ db' = [db EXCEPT !.pc = "delete", !.descriptor = TRUE, !.log_number = db.edit.log,
                      !.version = (@ \ db.edit.deleted) \cup db.edit.added,
                      !.imm = IF db.edit.deleted = {} THEN {} ELSE @,
                      !.pending = {}, !.edit = NoEdit]
  /\ UNCHANGED <<options, files, buffered, promised, issued, broken, count>>

-----------------------------------------------------------------------------
(* DBImpl::DeleteObsoleteFiles, one file at a time. *)

\* The log that the version names is not needed.
ObsoleteLogsUpTo == {n \in DOMAIN logs : n <= db.log_number}

ObsoleteLogs == {n \in DOMAIN logs : n < db.log_number}
ObsoleteManifests == {n \in DOMAIN manifests : n < db.manifest_number}
ObsoleteTables == DOMAIN tables \ (db.version \cup db.pending)
ObsoleteTemps == temps \ (db.version \cup db.pending)

\* The tables of a version that may have been written are deleted.
DeleteAfterError ==
  /\ db.pc = "delete"
  /\ \E n \in ObsoleteTables : tables' = Drop(tables, {n})
  /\ UNCHANGED <<options, current, manifests, logs, temps, buffered, db, promised, issued,
                 broken, count>>

DeleteObsoleteFile ==
  /\ db.pc = "delete" /\ ~db.bg_error
  /\ \/ /\ \E n \in ObsoleteLogs : logs' = Drop(logs, {n})
        /\ UNCHANGED <<manifests, tables, temps>>
     \/ /\ \E n \in ObsoleteManifests : manifests' = Drop(manifests, {n})
        /\ UNCHANGED <<logs, tables, temps>>
     \/ /\ \E n \in ObsoleteTables : tables' = Drop(tables, {n})
        /\ UNCHANGED <<logs, manifests, temps>>
     \/ /\ \E n \in ObsoleteTemps : temps' = temps \ {n}
        /\ UNCHANGED <<logs, manifests, tables>>
  /\ UNCHANGED <<options, current, buffered, db, promised, issued, broken, count>>

\* Nothing is left, or nothing may be deleted; Open returns to its caller.
Deleted ==
  /\ db.pc = "delete"
  /\ db.bg_error \/ ObsoleteLogs \cup ObsoleteManifests \cup ObsoleteTables
                      \cup ObsoleteTemps = {}
  /\ db' = [db EXCEPT !.pc = "idle", !.up = TRUE]
  /\ promised' = IF db.up THEN promised ELSE Cardinality(Contents)
  /\ UNCHANGED <<options, files, buffered, issued, broken, count>>

-----------------------------------------------------------------------------
(* The open database.  Clients run while the background thread writes files, *)
(* except in DeleteObsoleteFiles, which holds the mutex.                     *)

Running == db.up /\ db.pc # "delete"

\* DBImpl::Write by the head of the queue.  PosixWritableFile::Flush hands the
\* record to the system; WinFile::Flush does nothing.
Write(sync) ==
  /\ Running /\ ~db.bg_error
  /\ Count("writes")
  /\ LET e == [seq |-> db.last_sequence + 1, id |-> issued + 1]
         safe == sync \/ Posix
     IN  /\ logs' = [logs EXCEPT ![db.logfile] = Append(@, e)]
         /\ db' = [db EXCEPT !.mem = @ \cup {e}, !.last_sequence = e.seq]
         /\ buffered' = [buffered EXCEPT !.log = IF safe THEN 0 ELSE @ + 1]
         /\ promised' = IF safe THEN Cardinality(Contents) + 1 ELSE promised
  /\ issued' = issued + 1
  /\ UNCHANGED <<options, current, manifests, tables, temps, broken>>

\* MakeRoomForWrite: the old log is closed, which writes what it had buffered.
MakeRoomForWrite ==
  /\ Running /\ ~db.bg_error
  /\ db.imm = {} /\ db.mem # {}
  /\ Count("switches")
  /\ logs' = Put(logs, db.next_file, <<>>)
  /\ db' = [db EXCEPT !.logfile = db.next_file, !.next_file = @ + 1,
                      !.imm = db.mem, !.mem = {}]
  /\ buffered' = [buffered EXCEPT !.log = 0]
  /\ UNCHANGED <<options, current, manifests, tables, temps, promised, issued, broken>>

\* CompactMemTable: the table is complete before the edit is made; from then on
\* logs before the current one are not needed.
CompactMemTable ==
  /\ db.pc = "idle" /\ db.imm # {} /\ ~db.bg_error
  /\ tables' = Put(tables, db.next_file, db.imm)
  /\ db' = [db EXCEPT !.pc = "log_edit", !.next_file = @ + 1,
                      !.edit = Edit(db.logfile, -1, -1, {db.next_file}, {})]
  /\ UNCHANGED <<options, current, manifests, logs, temps, buffered, promised, issued,
                 broken, count>>

\* DoCompactionWork: some tables are replaced by one.
DoCompactionWork ==
  /\ db.pc = "idle" /\ db.imm = {} /\ ~db.bg_error
  /\ Count("compactions")
  /\ \E inputs \in SUBSET db.version :
       /\ inputs # {}
       /\ tables' = Put(tables, db.next_file, UNION {tables[n] : n \in inputs})
       /\ db' = [db EXCEPT !.pc = "log_edit", !.next_file = @ + 1,
                           !.pending = {db.next_file},
                           !.edit = Edit(-1, -1, -1, {db.next_file}, inputs)]
  /\ UNCHANGED <<options, current, manifests, logs, temps, buffered, promised, issued,
                 broken>>

\* The manifest cannot be synced: whether it has the edit is not known.
SyncFails ==
  /\ db.up /\ db.pc = "sync_edit"
  /\ Count("errors")
  /\ db' = [db EXCEPT !.pc = "delete", !.bg_error = TRUE, !.pending = {}, !.edit = NoEdit]
  /\ UNCHANGED <<options, files, buffered, promised, issued, broken>>

\* Open cannot sync or install the manifest: a new one is removed with the file for
\* CURRENT, and the destructor closes the rest.
OpenFails ==
  /\ ~db.up /\ ~broken
  /\ db.pc \in {"sync_edit", "temp", "rename"} /\ db.edit # NoEdit
  /\ Count("errors")
  /\ manifests' = IF db.descriptor THEN manifests ELSE Drop(manifests, {db.manifest_number})
  /\ temps' = temps \ {db.manifest_number}
  /\ buffered' = [log |-> 0, manifest |-> 0]
  /\ db' = Closed
  /\ UNCHANGED <<options, current, logs, tables, promised, issued, broken>>

\* The destructor waits for the background thread and closes the log.
Close ==
  /\ db.pc = "idle"
  /\ buffered' = [log |-> 0, manifest |-> 0]
  /\ promised' = Cardinality(Contents)
  /\ db' = Closed
  /\ UNCHANGED <<options, files, issued, broken, count>>

\* The process dies: of what it had buffered any beginning may have been written.
Keep(seq, lost) == SubSeq(seq, 1, Len(seq) - lost)

Crash ==
  /\ db.pc # "closed"
  /\ db.pc = "move" => options.window
  /\ Count("crashes")
  /\ \E l \in 0..buffered.log, m \in 0..buffered.manifest :
       /\ logs' = IF l = 0 THEN logs ELSE [logs EXCEPT ![db.logfile] = Keep(@, l)]
       /\ manifests' = IF m = 0 THEN manifests
                       ELSE [manifests EXCEPT ![db.manifest_number] = Keep(@, m)]
  /\ buffered' = [log |-> 0, manifest |-> 0]
  /\ db' = Closed
  /\ UNCHANGED <<options, current, tables, temps, promised, issued, broken>>

-----------------------------------------------------------------------------
(* RepairDB on a closed database.  An interrupted repair is started again. *)

\* FindFiles: the next number is above every file but the manifests.
Repair ==
  /\ db.pc = "closed" /\ Count("repairs")
  /\ broken' = TRUE
  /\ db' = [Opening("convert") EXCEPT
              !.next_file = 1 + Max({0} \cup DOMAIN logs \cup DOMAIN tables \cup temps),
              !.todo = Ascending(DOMAIN logs),
              !.version = DOMAIN tables]
  /\ UNCHANGED <<options, files, buffered, promised, issued>>

\* ConvertLogToTable: an empty log makes no table ...
ConvertLog ==
  /\ db.pc = "convert" /\ db.todo # <<>>
  /\ LET entries == ToSet(logs[Head(db.todo)])
     IN  IF entries = {} THEN db' = [db EXCEPT !.pc = "archive", !.next_file = @ + 1]
                              /\ UNCHANGED tables
         ELSE /\ tables' = Put(tables, db.next_file, entries)
              /\ db' = [db EXCEPT !.pc = "archive", !.next_file = @ + 1,
                                  !.version = @ \cup {db.next_file}]
  /\ UNCHANGED <<options, current, manifests, logs, temps, buffered, promised, issued,
                 broken, count>>

\* ... and the log goes to the directory "lost".
ArchiveLog ==
  /\ db.pc = "archive"
  /\ logs' = Drop(logs, {Head(db.todo)})
  /\ db' = [db EXCEPT !.pc = "convert", !.todo = Tail(@)]
  /\ UNCHANGED <<options, current, manifests, tables, temps, buffered, promised, issued,
                 broken, count>>

\* ExtractMetaData: WinEnv::GetFileSize never stores a size, so that every table looks
\* empty, cannot be opened and is archived by RepairTable.
ScanTables ==
  /\ db.pc = "convert" /\ db.todo = <<>>
  /\ tables' = IF Posix THEN tables ELSE Drop(tables, db.version)
  /\ db' = [db EXCEPT !.pc = "describe", !.version = IF Posix THEN @ ELSE {}]
  /\ UNCHANGED <<options, current, manifests, logs, temps, buffered, promised, issued,
                 broken, count>>

\* WriteDescriptor: the new manifest is complete before the old ones are archived.
WriteDescriptor ==
  /\ db.pc = "describe"
  /\ temps' = temps \cup {1}
  /\ db' = [db EXCEPT !.pc = "discard"]
  /\ UNCHANGED <<options, current, manifests, logs, tables, buffered, promised, issued,
                 broken, count>>

DiscardManifest ==
  /\ db.pc = "discard"
  /\ \E n \in DOMAIN manifests : manifests' = Drop(manifests, {n})
  /\ UNCHANGED <<options, current, logs, tables, temps, buffered, db, promised, issued,
                 broken, count>>

InstallDescriptor ==
  /\ db.pc = "discard" /\ DOMAIN manifests = {}
  /\ LET last == Max({0} \cup {e.seq : e \in UNION {tables[n] : n \in db.version}})
     IN  manifests' = Put(manifests, 1, <<Edit(0, db.next_file, last, db.version, {})>>)
  /\ temps' = temps \ {1}
  /\ db' = [db EXCEPT !.pc = "temp", !.manifest_number = 1]
  /\ UNCHANGED <<options, current, logs, tables, buffered, promised, issued, broken, count>>

-----------------------------------------------------------------------------
Next ==
  \/ Open \/ NewDB \/ SetCurrentFile \/ RenameFile \/ MoveFile \/ Renamed
  \/ Recover \/ ReplayRecord \/ ReplayEnd \/ NewLog
  \/ LogEdit \/ SyncEdit \/ Install \/ DeleteObsoleteFile \/ Deleted
  \/ \E sync \in BOOLEAN : Write(sync)
  \/ MakeRoomForWrite \/ CompactMemTable \/ DoCompactionWork \/ SyncFails \/ OpenFails
  \/ Close \/ Crash
  \/ Repair \/ ConvertLog \/ ArchiveLog \/ ScanTables \/ WriteDescriptor
  \/ DiscardManifest \/ InstallDescriptor

Spec == Init /\ [][Next]_vars

-----------------------------------------------------------------------------
(* Properties *)

\* Whatever the moment at which a process dies, the next DB::Open finds a manifest
\* with everything it needs and every table that it names: it never reports
\* corruption.
NeverCorrupt == db.pc # "corrupt"

\* Sequence numbers order the entries of a database: after any number of crashes
\* no two entries have the same one, and the next write gets a larger one.
SequencesOrderWrites ==
  db.up => /\ \A e, f \in Contents : e.seq = f.seq => e = f
           /\ \A e \in Contents : e.seq <= db.last_sequence

\* DB::Open never returns with fewer writes than were promised.
PromisedReturns ==
  db.pc = "delete" /\ ~db.up => Cardinality(Contents) >= promised
=============================================================================
