-------------------------------- MODULE Store --------------------------------
(***************************************************************************)
(* How LevelDB makes writes last: the queue of writers and their groups,   *)
(* the log, the memtables, the background thread that writes tables, the   *)
(* MANIFEST and CURRENT, the deletion of obsolete files, and what DB::Open *)
(* makes of all this after the process or the machine stopped at any point *)
(* (db/db_impl.cc, db/version_set.cc, db/builder.cc, db/filename.cc).      *)
(*                                                                         *)
(* A write is its sequence number; what it says is in module Levels.  An   *)
(* action is what one thread does between two points where it lets the     *)
(* mutex go, or one unlocked write to a file.  Creating, renaming and      *)
(* deleting a file takes effect at once; what was appended and not synced  *)
(* is lost when the machine stops.                                         *)
(***************************************************************************)
EXTENDS Integers, Sequences, FiniteSets, FiniteSetsExt, Functions

CONSTANTS
  Writers,           \* threads that write
  None,              \* nothing
  WriteBufferSize,   \* updates a memtable holds before it is full
  MaxGroup,          \* batches that one of the writers may commit at once
  CompactionTrigger, \* tables that make a compaction needed
  StopWritesTrigger, \* tables that stop the writers
  OptionSets         \* the options a database is opened with, and bounds

\* what a writer calls Write with
Calls == [batch : BOOLEAN, sync : BOOLEAN, force : BOOLEAN]
\* what DB::Open has found so far: logs to read, tables made, save_manifest
Openings == [todo : SUBSET Nat, added : SUBSET Nat, save : BOOLEAN]
\* a VersionEdit with all numbers, and what the background thread does with one
FullEdits == [added : SUBSET Nat, deleted : SUBSET Nat, log : Nat, next : Nat, last : Nat]
Flushes == [stage : {"apply", "install"}, edit : FullEdits]
Compactions == [stage : {"apply", "install"}, base : SUBSET Nat, number : Nat, edit : FullEdits]

ASSUME StoreAssumption ==
  /\ None \notin Nat \cup Calls \cup Openings \cup Flushes \cup Compactions
  /\ WriteBufferSize \in Nat /\ MaxGroup \in Nat \ {0}
  /\ CompactionTrigger \in Nat \ {0, 1} /\ StopWritesTrigger \in Nat
  /\ StopWritesTrigger >= CompactionTrigger

(* What the environment may do for writes to last.  A record that is torn  *)
(* hides those appended to the same log after it, so no log may go on      *)
(* behind one: a failed append leaves nothing, and with reuse_logs (which  *)
(* is off unless asked for) a stop tears nothing.  Nor is a MANIFEST that  *)
(* goes on from NewDB ever synced before the first edit.                   *)
ASSUME OptionsAssumption ==
  \A o \in OptionSets :
    /\ {o.reuseLogs, o.tornOnStop, o.tornOnError, o.machine} \subseteq BOOLEAN
    /\ ~o.tornOnError
    /\ o.reuseLogs => ~o.tornOnStop /\ ~o.machine

VARIABLES
  options,    \* reuse_logs; what may go wrong; bounds
  \* on disk
  logs,       \* number -> [records, synced]: a record is a set of writes
  tables,     \* number -> the writes whose entries a table holds
  manifests,  \* number -> [edits, synced]
  CURRENT,    \* the number of the MANIFEST it names, or None
  \* in memory
  phase,      \* "closed", the step DB::Open is at, "open" or "closing"
  opening,    \* what DB::Open has found so far
  mem,        \* the writes in the memtable
  imm,        \* the one of imm_ in a set, which is empty when there is none
  db,         \* the other fields of DBImpl and VersionSet
  held,       \* versions that iterators refer to
  writers,    \* writers_
  op,         \* per writer: what it called Write with, or None
  awake,      \* writers not waiting on a condition variable
  commit,     \* what the front of the queue is committing, or None
  bg,         \* bg_compaction_scheduled_ and whether BackgroundCall runs
  flush,      \* the memtable compaction under way, or None
  work,       \* the table compaction under way, or None
  \* history
  acked,      \* writes that returned OK
  synced,     \* those of them that were to be synced
  used        \* how often the bounded events happened

disk == <<logs, tables, manifests, CURRENT>>
memory == <<phase, opening, mem, imm, db, held, writers, op, awake, commit, bg, flush, work>>
history == <<acked, synced, used>>
storeVars == <<options, disk, memory, history>>

\* the writes in imm_
ImmWrites == UNION imm
-----------------------------------------------------------------------------
(* The log, and what a reader gets of it: records up to the first torn     *)
(* one, whose block is skipped.                                            *)
Torn == {-1}
NewLog == [records |-> << >>, synced |-> 0]

ReadRecords(records) ==
  {i \in DOMAIN records : \A j \in 1 .. i : records[j] # Torn}

Writes(records) == UNION {records[i] : i \in ReadRecords(records)}

AddRecord(file, record) ==
  [records |-> Append(file.records, record), synced |-> file.synced]

\* PosixWritableFile::Sync, of a log: all that was appended is kept.
Sync(file) == [records |-> file.records, synced |-> Len(file.records)]

Truncated(file, n) == [records |-> SubSeq(file.records, 1, n), synced |-> n]

(* VersionEdit.  WriteSnapshot's record has no numbers: None.              *)
Edit(added, deleted, log, next, last) ==
  [added |-> added, deleted |-> deleted, log |-> log, next |-> next, last |-> last]

\* WriteSnapshot: one edit with every file of the version.
WriteSnapshot(d) == Edit(d.files, {}, None, None, None)

(* VersionSet::Recover applies the edits of a MANIFEST in turn: a file is  *)
(* in the version unless an edit after the last that adds it deletes it,   *)
(* and of each number the last one given counts.                           *)
FilesOf(edits) ==
  {n \in UNION {edits[i].added : i \in DOMAIN edits} :
     \E i \in DOMAIN edits :
       n \in edits[i].added /\ \A j \in DOMAIN edits : j > i => n \notin edits[j].deleted}

LastGiven(numbers) ==
  LET given == {i \in DOMAIN numbers : numbers[i] # None}
  IN  IF given = {} THEN None ELSE numbers[Max(given)]

LogOf(edits)  == LastGiven([i \in DOMAIN edits |-> edits[i].log])
NextOf(edits) == LastGiven([i \in DOMAIN edits |-> edits[i].next])
LastOf(edits) == LastGiven([i \in DOMAIN edits |-> edits[i].last])

\* whether the numbers an open needs are in the MANIFEST (the Corruption errors)
Complete(edits) == NextOf(edits) # None

(* What an open would find now in given edits and records of the logs.     *)
Entries(ts, files) == UNION {ts[n] : n \in files \cap DOMAIN ts}
Logged(records, from) == UNION {Writes(records[n]) : n \in {m \in DOMAIN records : m >= from}}
Recoverable(edits, records) ==
  Entries(tables, FilesOf(edits)) \cup Logged(records, LogOf(edits))

AppendedRecords == [n \in DOMAIN logs |-> logs[n].records]
SyncedRecords == [n \in DOMAIN logs |-> SubSeq(logs[n].records, 1, logs[n].synced)]

SyncedEdits == SubSeq(manifests[CURRENT].edits, 1, manifests[CURRENT].synced)
AllEdits == manifests[CURRENT].edits
-----------------------------------------------------------------------------
(* MaybeScheduleCompaction, after a step that leaves these values.         *)
Scheduled(b, im, d) ==
  IF b = "idle" /\ phase # "closing" /\ ~d.bgError
       /\ (im # {} \/ Cardinality(d.files) >= CompactionTrigger)
  THEN "scheduled" ELSE b

(* bg_cv_.SignalAll wakes the front writer, who alone waits for room.      *)
SignalAll == awake' = awake \cup (IF writers = << >> THEN {} ELSE {Head(writers)})

(* DeleteObsoleteFiles: tables of no live version that are not pending,    *)
(* logs before log_number_, older MANIFESTs; nothing after a background    *)
(* error.                                                                  *)
DeleteObsoleteFiles(d, liveVersions, ms) ==
  IF d.bgError THEN UNCHANGED <<tables, logs>> /\ manifests' = ms
  ELSE /\ tables' = Restrict(tables, DOMAIN tables \cap
                                       (d.pending \cup d.files \cup (UNION liveVersions)))
       /\ logs' = Restrict(logs, {n \in DOMAIN logs : n >= d.logNumber})
       /\ manifests' = Restrict(ms, {n \in DOMAIN ms : n >= d.manifest})

Put(f, n, v) == [m \in DOMAIN f \cup {n} |-> IF m = n THEN v ELSE f[m]]

MayFail == used.failures < options.failures
Failing == used' = [used EXCEPT !.failures = @ + 1]

Closed == [bgError |-> FALSE, files |-> {}, pending |-> {}, next |-> 0, last |-> 0,
           logNumber |-> 0, logfile |-> 0, manifest |-> 0]

\* what is in memory when no database is open
Forget ==
  /\ phase' = "closed" /\ opening' = None
  /\ mem' = {} /\ imm' = {} /\ db' = Closed /\ held' = {}
  /\ writers' = << >> /\ op' = [w \in Writers |-> None] /\ awake' = {} /\ commit' = None
  /\ bg' = "idle" /\ flush' = None /\ work' = None

StoreInit ==
  /\ options \in OptionSets
  /\ logs = << >> /\ tables = << >> /\ manifests = << >> /\ CURRENT = None
  /\ phase = "closed" /\ opening = None
  /\ mem = {} /\ imm = {} /\ db = Closed /\ held = {}
  /\ writers = << >> /\ op = [w \in Writers |-> None] /\ awake = {} /\ commit = None
  /\ bg = "idle" /\ flush = None /\ work = None
  /\ acked = {} /\ synced = {}
  /\ used = [writes |-> 0, stops |-> 0, failures |-> 0]
-----------------------------------------------------------------------------
(* DB::Open.  One thread, holding the mutex.                               *)
idle == <<held, writers, op, awake, commit, flush, work>>

(* NewDB: MANIFEST-1, closed but not synced, and CURRENT.                  *)
NewDB ==
  /\ phase = "closed" /\ CURRENT = None
  /\ manifests' = Put(manifests, 1, [edits |-> <<Edit({}, {}, 0, 2, 0)>>, synced |-> 0])
  /\ CURRENT' = 1
  /\ UNCHANGED <<options, logs, tables, memory, history>>

(* VersionSet::Recover and the start of DBImpl::Recover: the MANIFEST is   *)
(* read, its tables must be there, and the logs it does not make obsolete  *)
(* are to be read in order.  With reuse_logs the MANIFEST goes on.         *)
RecoverManifest ==
  /\ phase = "closed" /\ CURRENT # None
  /\ Complete(AllEdits)
  /\ FilesOf(AllEdits) \subseteq DOMAIN tables
  /\ db' = [Closed EXCEPT !.files = FilesOf(AllEdits), !.next = NextOf(AllEdits) + 1,
                          !.last = LastOf(AllEdits), !.logNumber = LogOf(AllEdits),
                          !.manifest = IF options.reuseLogs THEN CURRENT
                                       ELSE NextOf(AllEdits)]
  /\ opening' = [todo |-> {n \in DOMAIN logs : n >= LogOf(AllEdits)},
                 added |-> {}, save |-> ~options.reuseLogs]
  /\ phase' = "logs"
  /\ UNCHANGED <<options, disk, mem, imm, bg, idle, history>>

(* The records of a log fill memtables in turn: a record after which the   *)
(* memtable is full is the last that goes into it.                         *)
FillsMemtable(records, i) ==
  LET before[j \in 1 .. Len(records) + 1] ==
        IF j = 1 THEN {}
        ELSE LET m == before[j - 1] \cup records[j - 1]
             IN  IF Cardinality(m) > WriteBufferSize THEN {} ELSE m
  IN  Cardinality(before[i] \cup records[i]) > WriteBufferSize

\* how many memtables are full before the one that a record goes into
FullBefore(records, i) == Cardinality({j \in 1 .. i - 1 : FillsMemtable(records, j)})

\* MUTANT of RecoverLogFile: the numbers of the new tables are not used up.
RecoverLogFileUncounted ==
  /\ phase = "logs" /\ opening.todo # {}
  /\ LET number == Min(opening.todo)
         records == logs[number].records
         table(i) == db.next + FullBefore(records, i)
         made == {table(i) : i \in ReadRecords(records)}
     IN  /\ tables' = [n \in DOMAIN tables \cup made |->
                         IF n \in made
                         THEN UNION {records[i] : i \in {j \in ReadRecords(records) : table(j) = n}}
                         ELSE tables[n]]
         /\ opening' = [todo |-> opening.todo \ {number}, added |-> opening.added \cup made,
                        save |-> opening.save \/ made # {}]
         /\ db' = [db EXCEPT !.next = Max({@, number + 1}),
                             !.last = Max({@} \cup Writes(records))]
  /\ UNCHANGED <<options, logs, manifests, CURRENT, phase, mem, imm, bg, idle, history>>

(* RecoverLogFile, of the logs from the first on: each memtable the log    *)
(* fills becomes a table, and what is left as well, unless this is the     *)
(* last log, it filled none and reuse_logs lets it go on.                  *)
RecoverLogFile ==
  /\ phase = "logs" /\ opening.todo # {}
  /\ LET number == Min(opening.todo)
         records == logs[number].records
         reused == /\ options.reuseLogs /\ opening.todo = {number}
                   /\ \A i \in ReadRecords(records) : ~FillsMemtable(records, i)
         table(i) == db.next + FullBefore(records, i)
         made == IF reused THEN {} ELSE {table(i) : i \in ReadRecords(records)}
     IN  /\ tables' = [n \in DOMAIN tables \cup made |->
                         IF n \in made
                         THEN UNION {records[i] : i \in {j \in ReadRecords(records) : table(j) = n}}
                         ELSE tables[n]]
         /\ opening' = [todo |-> opening.todo \ {number}, added |-> opening.added \cup made,
                        save |-> opening.save \/ made # {}]
         /\ mem' = IF reused THEN Writes(records) ELSE mem
         /\ db' = [db EXCEPT !.next = Max({@, number + 1} \cup {n + 1 : n \in made}),
                             !.last = Max({@} \cup Writes(records)),
                             !.logfile = IF reused THEN number ELSE @]
  /\ UNCHANGED <<options, logs, manifests, CURRENT, phase, imm, bg, idle, history>>

(* DB::Open goes on with a new log, unless one goes on.                    *)
OpenNewLog ==
  /\ phase = "logs" /\ opening.todo = {}
  /\ IF db.logfile # 0 THEN UNCHANGED <<logs, db>>
     ELSE /\ logs' = Put(logs, db.next, NewLog)
          /\ db' = [db EXCEPT !.logfile = db.next, !.next = db.next + 1]
  /\ phase' = IF opening.save THEN "manifest" ELSE "ready"
  /\ UNCHANGED <<options, tables, manifests, CURRENT, opening, mem, imm, bg, idle, history>>

\* MUTANT of OpenManifest: the MANIFEST is not synced before CURRENT names it.
OpenManifestUnsynced ==
  /\ phase = "manifest"
  /\ LET edit == Edit(opening.added, {}, db.logfile, db.next, db.last)
         before == IF options.reuseLogs THEN AllEdits
                   ELSE <<WriteSnapshot(db)>>
     IN  /\ manifests' = Put(manifests, db.manifest, [edits |-> Append(before, edit),
                                                      synced |-> 0])
         /\ db' = [db EXCEPT !.files = @ \cup opening.added, !.logNumber = db.logfile]
  /\ phase' = IF options.reuseLogs THEN "ready" ELSE "current"
  /\ UNCHANGED <<options, logs, tables, CURRENT, opening, mem, imm, bg, idle, history>>

(* LogAndApply: the edit is added to the MANIFEST that goes on, or to a    *)
(* snapshot of the version in a new one; either is synced.                 *)
OpenManifest ==
  /\ phase = "manifest"
  /\ LET edit == Edit(opening.added, {}, db.logfile, db.next, db.last)
         before == IF options.reuseLogs THEN AllEdits
                   ELSE <<WriteSnapshot(db)>>
     IN  /\ manifests' = Put(manifests, db.manifest, [edits |-> Append(before, edit),
                                                      synced |-> Len(before) + 1])
         /\ db' = [db EXCEPT !.files = @ \cup opening.added, !.logNumber = db.logfile]
  /\ phase' = IF options.reuseLogs THEN "ready" ELSE "current"
  /\ UNCHANGED <<options, logs, tables, CURRENT, opening, mem, imm, bg, idle, history>>

(* SetCurrentFile: a new file, synced, renamed to CURRENT.                 *)
SetCurrentFile ==
  /\ phase = "current"
  /\ CURRENT' = db.manifest
  /\ phase' = "ready"
  /\ UNCHANGED <<options, logs, tables, manifests, opening, mem, imm, db, bg, idle, history>>

(* The end of DB::Open: garbage is collected, a compaction scheduled.      *)
Opened ==
  /\ phase = "ready"
  /\ DeleteObsoleteFiles(db, {}, manifests)
  /\ phase' = "open" /\ opening' = None
  /\ bg' = Scheduled(bg, imm, db)
  /\ UNCHANGED <<options, CURRENT, mem, imm, db, idle, history>>

(* An error of a file ends DB::Open and deletes the DBImpl; a new MANIFEST *)
(* not named by CURRENT yet is deleted.                                    *)
OpenFails ==
  /\ phase \in {"logs", "manifest", "current"} /\ MayFail
  /\ Failing
  /\ manifests' = IF phase = "current"
                  THEN Restrict(manifests, DOMAIN manifests \ {db.manifest}) ELSE manifests
  /\ Forget
  /\ UNCHANGED <<options, logs, tables, CURRENT, acked, synced>>
-----------------------------------------------------------------------------
(* Writers.                                                                *)
Front1 == Head(writers)
CanGoOn(w) == phase = "open" /\ writers # << >> /\ w = Front1 /\ w \in awake /\ commit = None

(* DBImpl::Write joins the queue; a null batch asks to have the memtable   *)
(* written out (TEST_CompactMemTable).                                     *)
CallWrite(w, batch, sync) ==
  /\ phase = "open" /\ op[w] = None
  /\ used.writes < options.writes
  /\ used' = [used EXCEPT !.writes = @ + 1]
  /\ op' = [op EXCEPT ![w] = [batch |-> batch, sync |-> sync, force |-> ~batch]]
  /\ writers' = Append(writers, w)
  /\ awake' = IF writers = << >> THEN awake \cup {w} ELSE awake
  /\ UNCHANGED <<options, disk, phase, opening, mem, imm, db, held, commit, bg, flush, work,
                 acked, synced>>

\* the first n writers return; the next one is woken
Return(n, alsoAwake) ==
  LET done == {writers[i] : i \in 1 .. n}
      rest == SubSeq(writers, n + 1, Len(writers))
  IN  /\ writers' = rest
      /\ op' = [w \in Writers |-> IF w \in done THEN None ELSE op[w]]
      /\ awake' = ((awake \cup alsoAwake) \ done)
                     \cup (IF rest = << >> THEN {} ELSE {Head(rest)})

MemtableFull == Cardinality(mem) > WriteBufferSize

(* MakeRoomForWrite: an earlier background error is returned.              *)
WriteRefused(w) ==
  /\ CanGoOn(w) /\ db.bgError
  /\ Return(1, {})
  /\ UNCHANGED <<options, disk, phase, opening, mem, imm, db, held, commit, bg, flush, work,
                 history>>

(* The memtable is full and the one before is not written out, or there    *)
(* are too many tables: wait for the background thread.                    *)
WaitForRoom(w) ==
  /\ CanGoOn(w) /\ ~db.bgError
  /\ op[w].force \/ MemtableFull
  /\ imm # {} \/ Cardinality(db.files) >= StopWritesTrigger
  /\ awake' = awake \ {w}
  /\ UNCHANGED <<options, disk, phase, opening, mem, imm, db, held, writers, op, commit, bg,
                 flush, work, history>>

NeedsSwitch(w) ==
  /\ CanGoOn(w) /\ ~db.bgError
  /\ op[w].force \/ MemtableFull
  /\ imm = {} /\ Cardinality(db.files) < StopWritesTrigger

(* A new log and a new memtable; the old one is to be written out.         *)
SwitchMemtable(w) ==
  /\ NeedsSwitch(w)
  /\ logs' = Put(logs, db.next, NewLog)
  /\ db' = [db EXCEPT !.logfile = db.next, !.next = @ + 1]
  /\ imm' = {mem} /\ mem' = {}
  /\ op' = [op EXCEPT ![w] = [batch |-> @.batch, sync |-> @.sync, force |-> FALSE]]
  /\ bg' = Scheduled(bg, imm', db)
  /\ UNCHANGED <<options, tables, manifests, CURRENT, phase, opening, held, writers, awake,
                 commit, flush, work, history>>

(* The log cannot be made: its number is given back, the error returned.   *)
SwitchFails(w) ==
  /\ NeedsSwitch(w) /\ MayFail
  /\ Failing
  /\ Return(1, {})
  /\ UNCHANGED <<options, disk, phase, opening, mem, imm, db, held, commit, bg, flush, work,
                 acked, synced>>

\* how many of the first n writers have a batch
Batches(n) == Cardinality({i \in 1 .. n : op[writers[i]].batch})

\* MUTANT of GroupSize: a synced write may join one that is not.
GroupSizeAnySync ==
  Max({n \in DOMAIN writers :
         \A i \in 2 .. n : op[writers[i]].batch => Batches(i) <= MaxGroup})

(* BuildBatchGroup: writers behind the first join it, but no synced write  *)
(* joins one that is not, and not more than fit.                           *)
GroupSize ==
  LET joins(n) == /\ op[writers[n]].sync => op[Front1].sync
                  /\ op[writers[n]].batch => Batches(n) <= MaxGroup
  IN  Max({n \in DOMAIN writers : \A i \in 2 .. n : joins(i)})

HasRoom(w) == CanGoOn(w) /\ ~db.bgError /\ ~op[w].force /\ ~MemtableFull

(* There is room: a null batch is done, others are numbered and begin to   *)
(* be written, without the mutex.                                          *)
NothingToWrite(w) ==
  /\ HasRoom(w) /\ ~op[w].batch
  /\ Return(1, {})
  /\ UNCHANGED <<options, disk, phase, opening, mem, imm, db, held, commit, bg, flush, work,
                 history>>

BeginCommit(w) ==
  /\ HasRoom(w) /\ op[w].batch
  /\ LET group == {i \in 1 .. GroupSize : op[writers[i]].batch}
         seq(i) == db.last + Batches(i)
     IN  commit' = [stage |-> "append", size |-> GroupSize,
                    seqs |-> {seq(i) : i \in group},
                    promised |-> {seq(i) : i \in {j \in group : op[writers[j]].sync}}]
  /\ UNCHANGED <<options, disk, phase, opening, mem, imm, db, held, writers, op, awake, bg,
                 flush, work, history>>

(* log::Writer::AddRecord on the log that is logfile_ now.  A failed one   *)
(* may leave a torn record.                                                *)
AppendRecord ==
  /\ commit # None /\ commit.stage = "append"
  /\ logs' = [logs EXCEPT ![db.logfile] = AddRecord(@, commit.seqs)]
  /\ commit' = [commit EXCEPT !.stage = IF op[Front1].sync THEN "sync" ELSE "insert"]
  /\ UNCHANGED <<options, tables, manifests, CURRENT, phase, opening, mem, imm, db, held,
                 writers, op, awake, bg, flush, work, history>>

AppendFails ==
  /\ commit # None /\ commit.stage = "append" /\ MayFail
  /\ Failing
  /\ commit' = [commit EXCEPT !.stage = "failed"]
  /\ \/ UNCHANGED logs
     \/ options.tornOnError /\ logs' = [logs EXCEPT ![db.logfile] = AddRecord(@, Torn)]
  /\ UNCHANGED <<options, tables, manifests, CURRENT, phase, opening, mem, imm, db, held,
                 writers, op, awake, bg, flush, work, acked, synced>>

SyncLog ==
  /\ commit # None /\ commit.stage = "sync"
  /\ logs' = [logs EXCEPT ![db.logfile] = Sync(@)]
  /\ commit' = [commit EXCEPT !.stage = "insert"]
  /\ UNCHANGED <<options, tables, manifests, CURRENT, phase, opening, mem, imm, db, held,
                 writers, op, awake, bg, flush, work, history>>

SyncFails ==
  /\ commit # None /\ commit.stage = "sync" /\ MayFail
  /\ Failing
  /\ commit' = [commit EXCEPT !.stage = "unsynced"]
  /\ UNCHANGED <<options, disk, phase, opening, mem, imm, db, held, writers, op, awake, bg,
                 flush, work, acked, synced>>

(* InsertInto the memtable, then, with the mutex, the end of Write: the    *)
(* sequence numbers are used up, even those of writes that failed; a       *)
(* failed sync makes all later writes fail; the group returns.             *)
FinishCommit ==
  /\ commit # None /\ commit.stage \in {"insert", "failed", "unsynced"}
  /\ LET ok == commit.stage = "insert"
     IN  /\ mem' = IF ok THEN mem \cup commit.seqs ELSE mem
         /\ acked' = IF ok THEN acked \cup commit.seqs ELSE acked
         /\ synced' = IF ok THEN synced \cup commit.promised ELSE synced
  /\ db' = [db EXCEPT !.last = Max(commit.seqs),
                      !.bgError = @ \/ commit.stage = "unsynced"]
  /\ Return(commit.size, {})
  /\ commit' = None
  /\ UNCHANGED <<options, disk, phase, opening, imm, held, bg, flush, work, used>>
-----------------------------------------------------------------------------
(* The background thread.                                                  *)

Ended(d, im) == bg' = Scheduled("idle", im, d) /\ SignalAll

(* BackgroundCall when there is nothing to do.                             *)
NothingToDo ==
  /\ bg = "scheduled"
  /\ \/ phase = "closing" \/ db.bgError
     \/ imm = {} /\ Cardinality(db.files) < CompactionTrigger
  /\ Ended(db, imm)
  /\ UNCHANGED <<options, disk, phase, opening, mem, imm, db, held, writers, op, commit,
                 flush, work, history>>

(* CompactMemTable, called by BackgroundCompaction or, when it sees imm_,  *)
(* by DoCompactionWork between two entries: a number is taken, and the     *)
(* file made (BuildTable), unless the memtable is empty.                   *)
BeginFlush ==
  /\ imm # {} /\ flush = None /\ phase = "open"
  /\ \/ bg = "scheduled" /\ ~db.bgError
     \/ work # None /\ work.stage = "merge"
  /\ bg' = "running"
  /\ flush' = [stage |-> "build", number |-> db.next]
  /\ db' = [db EXCEPT !.next = @ + 1, !.pending = @ \cup {db.next}]
  /\ tables' = IF ImmWrites = {} THEN tables ELSE Put(tables, db.next, {})
  /\ UNCHANGED <<options, logs, manifests, CURRENT, phase, opening, mem, imm, held, writers,
                 op, awake, commit, work, history>>

\* MUTANT of FlushBuilt: the logs go before the MANIFEST has the table.
FlushBuiltForgettingLogs ==
  /\ flush # None /\ flush.stage = "build" /\ phase = "open"
  /\ LET made == IF ImmWrites = {} THEN {} ELSE {flush.number}
     IN  /\ tables' = [n \in DOMAIN tables |-> IF n \in made THEN ImmWrites ELSE tables[n]]
         /\ db' = [db EXCEPT !.pending = @ \ {flush.number}]
         /\ flush' = [stage |-> "apply",
                      edit |-> Edit(made, {}, db.logfile, db.next, db.last)]
  /\ logs' = Restrict(logs, {n \in DOMAIN logs : n >= db.logfile})
  /\ UNCHANGED <<options, manifests, CURRENT, phase, opening, mem, imm, held, writers, op,
                 awake, commit, bg, work, history>>

(* The table is written and synced, and LogAndApply makes its edit: logs   *)
(* before the present one are not needed any more.                         *)
FlushBuilt ==
  /\ flush # None /\ flush.stage = "build" /\ phase = "open"
  /\ LET made == IF ImmWrites = {} THEN {} ELSE {flush.number}
     IN  /\ tables' = [n \in DOMAIN tables |-> IF n \in made THEN ImmWrites ELSE tables[n]]
         /\ db' = [db EXCEPT !.pending = @ \ {flush.number}]
         /\ flush' = [stage |-> "apply",
                      edit |-> Edit(made, {}, db.logfile, db.next, db.last)]
  /\ UNCHANGED <<options, logs, manifests, CURRENT, phase, opening, mem, imm, held, writers,
                 op, awake, commit, bg, work, history>>

\* MUTANT of FlushFailed: those who wait for room are not woken.
FlushFailedSilently ==
  /\ db' = [db EXCEPT !.pending = @ \ (IF flush.stage = "build" THEN {flush.number} ELSE {}),
                      !.bgError = TRUE]
  /\ flush' = None
  /\ bg' = IF work = None THEN "idle" ELSE bg
  /\ UNCHANGED <<options, logs, CURRENT, phase, opening, mem, imm, held, writers, op, awake,
                 commit, work, acked, synced>>

(* An error, of the table or of the MANIFEST, or the database is closing:  *)
(* RecordBackgroundError; the memtable stays.                              *)
FlushFailed ==
  /\ db' = [db EXCEPT !.pending = @ \ (IF flush.stage = "build" THEN {flush.number} ELSE {}),
                      !.bgError = TRUE]
  /\ flush' = None
  /\ SignalAll
  /\ bg' = IF work = None THEN "idle" ELSE bg
  /\ UNCHANGED <<options, logs, CURRENT, phase, opening, mem, imm, held, writers, op, commit,
                 work, acked, synced>>

BuildFails ==
  /\ flush # None /\ flush.stage = "build"
  /\ \/ phase = "closing" /\ UNCHANGED used
     \/ MayFail /\ Failing
  /\ tables' = Restrict(tables, DOMAIN tables \ (IF phase = "closing" THEN {} ELSE {flush.number}))
  /\ FlushFailed
  /\ UNCHANGED manifests

(* LogAndApply, without the mutex: the edit is appended and synced, or     *)
(* appended only.                                                          *)
WriteEdit(edit) ==
  manifests' = [manifests EXCEPT ![CURRENT] =
                  [edits |-> Append(@.edits, edit), synced |-> Len(@.edits) + 1]]
AppendEdit(edit) ==
  manifests' = [manifests EXCEPT ![CURRENT] =
                  [edits |-> Append(@.edits, edit), synced |-> @.synced]]

FlushApply ==
  /\ flush # None /\ flush.stage = "apply"
  /\ WriteEdit(flush.edit)
  /\ flush' = [stage |-> "install", edit |-> flush.edit]
  /\ UNCHANGED <<options, logs, tables, CURRENT, phase, opening, mem, imm, db, held, writers,
                 op, awake, commit, bg, work, history>>

(* The append or the sync fails: the edit may be in the file all the same. *)
FlushApplyFails ==
  /\ flush # None /\ flush.stage = "apply" /\ MayFail
  /\ Failing
  /\ \/ UNCHANGED manifests
     \/ AppendEdit(flush.edit)
  /\ FlushFailed
  /\ UNCHANGED tables

LiveVersions == held \cup (IF work = None THEN {} ELSE {work.base})

(* The version is installed and imm_ given up.                             *)
FlushInstall ==
  /\ flush # None /\ flush.stage = "install"
  /\ db' = [db EXCEPT !.files = @ \cup flush.edit.added, !.logNumber = flush.edit.log]
  /\ imm' = {} /\ flush' = None
  /\ DeleteObsoleteFiles(db', LiveVersions, manifests)
  /\ IF work = None THEN Ended(db', {}) ELSE SignalAll /\ UNCHANGED bg
  /\ UNCHANGED <<options, CURRENT, phase, opening, mem, held, writers, op, commit, work,
                 history>>

(* BackgroundCompaction picks tables (which ones is in module Levels) and  *)
(* refers to the version it picked them from.                              *)
BeginCompaction(inputs) ==
  /\ bg = "scheduled" /\ phase = "open" /\ ~db.bgError
  /\ imm = {} /\ Cardinality(db.files) >= CompactionTrigger
  /\ Cardinality(inputs) >= 2
  /\ bg' = "running"
  /\ work' = [stage |-> "merge", base |-> db.files, inputs |-> inputs, number |-> None]
  /\ UNCHANGED <<options, disk, phase, opening, mem, imm, db, held, writers, op, awake,
                 commit, flush, history>>

Merging == work # None /\ work.stage = "merge" /\ flush = None

(* OpenCompactionOutputFile.                                               *)
OpenOutput ==
  /\ Merging /\ work.number = None
  /\ work' = [stage |-> "merge", base |-> work.base, inputs |-> work.inputs, number |-> db.next]
  /\ db' = [db EXCEPT !.next = @ + 1, !.pending = @ \cup {db.next}]
  /\ tables' = Put(tables, db.next, {})
  /\ UNCHANGED <<options, logs, manifests, CURRENT, phase, opening, mem, imm, held, writers,
                 op, awake, commit, bg, flush, history>>

(* The output is written and synced; InstallCompactionResults makes the    *)
(* edit, which leaves log_number_ as it is.                                *)
OutputBuilt ==
  /\ Merging /\ work.number # None /\ phase = "open"
  /\ tables' = [tables EXCEPT ![work.number] = UNION {tables[n] : n \in work.inputs}]
  /\ work' = [stage |-> "apply", base |-> work.base, number |-> work.number,
              edit |-> Edit({work.number}, work.inputs, db.logNumber, db.next, db.last)]
  /\ UNCHANGED <<options, logs, manifests, CURRENT, phase, opening, mem, imm, db, held,
                 writers, op, awake, commit, bg, flush, history>>

CompactionApply ==
  /\ work # None /\ work.stage = "apply"
  /\ WriteEdit(work.edit)
  /\ work' = [stage |-> "install", base |-> work.base, number |-> work.number,
              edit |-> work.edit]
  /\ UNCHANGED <<options, logs, tables, CURRENT, phase, opening, mem, imm, db, held, writers,
                 op, awake, commit, bg, flush, history>>

(* The outputs are in the version; CleanupCompaction and ReleaseInputs     *)
(* give up what they held.                                                 *)
CompactionInstall ==
  /\ work # None /\ work.stage = "install"
  /\ db' = [db EXCEPT !.files = (@ \ work.edit.deleted) \cup work.edit.added,
                      !.logNumber = work.edit.log, !.pending = @ \ {work.number}]
  /\ work' = None
  /\ DeleteObsoleteFiles(db', held, manifests)
  /\ Ended(db', imm)
  /\ UNCHANGED <<options, CURRENT, phase, opening, mem, imm, held, writers, op, commit, flush,
                 history>>

(* An error, or the database is closing.                                   *)
CompactionFails ==
  /\ \/ Merging /\ phase = "closing" /\ UNCHANGED <<used, manifests>>
     \/ Merging /\ MayFail /\ Failing /\ UNCHANGED manifests
     \/ /\ work # None /\ work.stage = "apply" /\ MayFail /\ Failing
        /\ \/ UNCHANGED manifests
           \/ AppendEdit(work.edit)
  /\ db' = [db EXCEPT !.bgError = TRUE, !.pending = @ \ {work.number}]
  /\ work' = None
  /\ bg' = "idle" /\ SignalAll
  /\ UNCHANGED <<options, logs, tables, CURRENT, phase, opening, mem, imm, held, writers, op,
                 commit, flush, acked, synced>>
-----------------------------------------------------------------------------
(* Iterators keep the version they read.                                   *)
NewIterator ==
  /\ phase = "open" /\ Cardinality(held) < options.iterators
  /\ held' = held \cup {db.files}
  /\ UNCHANGED <<options, disk, phase, opening, mem, imm, db, writers, op, awake, commit, bg,
                 flush, work, history>>

ReleaseIterator(v) ==
  /\ held' = held \ {v}
  /\ UNCHANGED <<options, disk, phase, opening, mem, imm, db, writers, op, awake, commit, bg,
                 flush, work, history>>

(* ~DBImpl, once nobody uses the database: it waits for the background     *)
(* thread and lets go of everything; what the memtables hold is in logs.   *)
Close ==
  /\ phase = "open" /\ writers = << >> /\ held = {}
  /\ used.stops < options.stops
  /\ used' = [used EXCEPT !.stops = @ + 1]
  /\ phase' = "closing"
  /\ UNCHANGED <<options, disk, opening, mem, imm, db, held, writers, op, awake, commit, bg,
                 flush, work, acked, synced>>

Closing ==
  /\ phase = "closing" /\ bg = "idle"
  /\ Forget
  /\ UNCHANGED <<options, disk, history>>

(* The process or the machine stops.  With the machine goes, per file,     *)
(* what was not synced.  A record that was being appended may be torn.     *)
Stop(machine) ==
  /\ phase # "closed" /\ used.stops < options.stops
  /\ machine => options.machine
  /\ used' = [used EXCEPT !.stops = @ + 1]
  /\ LET torn == commit # None /\ commit.stage = "append" /\ options.tornOnStop
         left(n) == IF torn /\ n = db.logfile THEN Append(logs[n].records, Torn)
                    ELSE logs[n].records
     IN  \E lost \in SUBSET (DOMAIN logs) :
           /\ machine \/ lost = {}
           /\ logs' = [n \in DOMAIN logs |->
                         IF n \in lost THEN Truncated(logs[n], logs[n].synced)
                         ELSE [records |-> left(n),
                               synced |-> IF machine THEN Len(left(n)) ELSE logs[n].synced]]
  /\ \E lost \in SUBSET (DOMAIN manifests) :
       /\ machine \/ lost = {}
       /\ manifests' = [n \in DOMAIN manifests |->
             LET m == manifests[n]
             IN  [edits |-> IF n \in lost THEN SubSeq(m.edits, 1, m.synced) ELSE m.edits,
                  synced |-> IF ~machine \/ n \in lost THEN m.synced ELSE Len(m.edits)]]
  /\ acked' = IF machine THEN synced ELSE acked
  /\ Forget
  /\ UNCHANGED <<options, tables, CURRENT, synced>>

-----------------------------------------------------------------------------
Opening == NewDB \/ RecoverManifest \/ RecoverLogFile \/ OpenNewLog \/ OpenManifest
             \/ SetCurrentFile \/ Opened

Committing == AppendRecord \/ SyncLog \/ FinishCommit \/ AppendFails \/ SyncFails

Writing(w) ==
  \/ WriteRefused(w) \/ WaitForRoom(w) \/ SwitchMemtable(w) \/ SwitchFails(w)
  \/ NothingToWrite(w) \/ BeginCommit(w)

Background ==
  \/ NothingToDo \/ BeginFlush \/ FlushBuilt \/ BuildFails \/ FlushApply \/ FlushApplyFails
  \/ FlushInstall
  \/ \E inputs \in SUBSET db.files : BeginCompaction(inputs)
  \/ OpenOutput \/ OutputBuilt \/ CompactionApply \/ CompactionInstall \/ CompactionFails

StoreNext ==
  \/ Opening \/ OpenFails
  \/ \E w \in Writers, batch, sync \in BOOLEAN : CallWrite(w, batch, sync)
  \/ \E w \in Writers : Writing(w)
  \/ Committing
  \/ Background
  \/ NewIterator
  \/ \E v \in held : ReleaseIterator(v)
  \/ Close \/ Closing
  \/ \E machine \in BOOLEAN : Stop(machine)

StoreSpec ==
  /\ StoreInit /\ [][StoreNext]_storeVars
  /\ WF_storeVars(Committing) /\ WF_storeVars(Background)
  /\ WF_storeVars(\E w \in Writers : Writing(w))
-----------------------------------------------------------------------------
(* options.h, WriteOptions::sync: "if it is just the process that crashes  *)
(* ... no writes will be lost even if sync==false".  So at every moment    *)
(* what is in the files gives an open all writes it must find.             *)
AckedWritesSurvive ==
  acked # {} => acked \subseteq Recoverable(AllEdits, AppendedRecords)

(* A reader finds every write that returned OK, and its own number is not  *)
(* below any it finds, so that none is hidden or taken for a newer one.    *)
ReadersSeeAckedWrites ==
  phase = "open" =>
    LET found == mem \cup ImmWrites
                   \cup Entries(tables, db.files)
    IN  acked \subseteq found /\ \A s \in found \ (IF commit = None THEN {} ELSE commit.seqs) :
          s <= db.last

(* No write that returned OK is lost: not for readers while the process    *)
(* lives, and not for the next open.                                       *)
NoAckedWriteIsLost == AckedWritesSurvive /\ ReadersSeeAckedWrites

(* With sync==true none is lost with the machine either, whatever is gone  *)
(* of the unsynced ends of the files.                                      *)
SyncedWritesSurvive ==
  synced # {} /\ options.machine => \A edits \in {SyncedEdits, AllEdits} :
    synced \subseteq Recoverable(edits, SyncedRecords)

(* Whatever is lost of the MANIFEST, it names tables that are there, so    *)
(* that the database can be opened again (Recover, "missing files").       *)
NamedTablesExist ==
  acked # {} => \A edits \in {AllEdits} \cup (IF options.machine THEN {SyncedEdits} ELSE {}) :
    Complete(edits) /\ FilesOf(edits) \subseteq DOMAIN tables

(* Files in use are not deleted, by the flush inside a compaction either:  *)
(* those of the version read now, of versions iterators hold, and outputs. *)
FilesInUseExist ==
  phase \in {"open", "closing"} =>
    /\ db.files \cup (UNION LiveVersions) \subseteq DOMAIN tables
    /\ db.logfile \in DOMAIN logs
    /\ work # None => work.number \in DOMAIN tables \cup {None}

(* All files that a reader, a background step or the next open needs exist.*)
FilesAreThere == NamedTablesExist /\ FilesInUseExist

(* A table that an open or a reader needs is never written again: file     *)
(* numbers are not used twice, across stops and opens that fail.           *)
NeededTables ==
  (IF CURRENT = None THEN {} ELSE FilesOf(AllEdits))
    \cup (IF opening = None THEN {} ELSE opening.added)
    \cup db.files \cup (UNION LiveVersions)
TablesNeverChange ==
  [][\A n \in NeededTables \cap DOMAIN tables \cap DOMAIN tables' :
       tables'[n] = tables[n]]_storeVars

(* Every Write returns, unless the process stops: nobody waits for room    *)
(* that is never made, or for a wakeup that never comes.                   *)
WritesReturn == \A w \in Writers : (op[w] # None) ~> (op[w] = None)
=============================================================================
