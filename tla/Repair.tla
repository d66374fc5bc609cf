------------------------------- MODULE Repair -------------------------------
(***************************************************************************)
(* RepairDB (db/repair.cc): logs are turned into tables, tables scanned    *)
(* and copied where they are damaged, and a new MANIFEST names them all.   *)
(* What is replaced is moved into the directory "lost".  Any call of the   *)
(* file system may fail, and the process may stop between any two; the     *)
(* repair is then run again.                                               *)
(*                                                                         *)
(* An entry is its sequence number.  The vectors of files are in the order *)
(* of the directory, which is any: they are sets here.                     *)
(***************************************************************************)
EXTENDS Integers, Sequences, FiniteSets

CONSTANTS
  Directories,  \* what a repair may find: [name -> contents]
  MaxRuns,      \* bound: repairs that are begun
  MaxFailures,  \* bound: calls that fail
  NoFile

Kinds == {"manifest", "log", "table", "temp"}

\* What a directory holds: finitely many files, a log or a table under a name of
\* its kind.
IsDirectory(d) ==
  /\ IsFiniteSet(DOMAIN d) /\ DOMAIN d \subseteq Kinds \X Nat
  /\ \A n \in DOMAIN d :
       /\ n[1] = "log" => d[n] \in Seq([entries : Seq(Nat), damaged : BOOLEAN])
       /\ n[1] = "table" => /\ d[n] \in [good : SUBSET Nat, damaged : BOOLEAN]
                            /\ IsFiniteSet(d[n].good)

ASSUME RepairAssumption == \A d \in Directories : IsDirectory(d)

VARIABLES
  dir, lost,    \* files by name, which is <<kind, number>>
  current,      \* the MANIFEST that CURRENT names, or NoFile
  repairer,     \* the Repairer's fields and how far it is
  failures,     \* calls that failed
  runsBegun,    \* repairs that were begun
  found         \* history: the entries the last repair could read as it began

repairVars == <<dir, lost, current, repairer, failures, runsBegun, found>>

(* A log is a sequence of records, a table a set of entries: [good,        *)
(* damaged].  A damaged table is one that an iterator ends with an error   *)
(* on; good is what it comes by.                                           *)
TableFile(good, damaged) == [good |-> good, damaged |-> damaged]
LogRecord(entries, damaged) == [entries |-> entries, damaged |-> damaged]

With(d, name, contents) == [n \in DOMAIN d \cup {name} |-> IF n = name THEN contents ELSE d[n]]
Without(d, name) == [n \in DOMAIN d \ {name} |-> d[n]]
NumbersOf(d, kind) == {n[2] : n \in {m \in DOMAIN d : m[1] = kind}}
Largest(S) == CHOOSE n \in S : \A m \in S : m <= n

Elements(s) == {s[i] : i \in DOMAIN s}
Whole(record) == IF record.damaged THEN {} ELSE Elements(record.entries)
ReadableIn(contents, kind) ==
  CASE kind = "log" -> UNION {Whole(contents[i]) : i \in DOMAIN contents}
    [] kind = "table" -> contents.good
    [] OTHER -> {}
Readable(d) == UNION {ReadableIn(d[n], n[1]) : n \in DOMAIN d}

\* The file system.
Fails == failures < MaxFailures /\ failures' = failures + 1
Works == UNCHANGED failures
SameFiles == UNCHANGED <<dir, lost, current>>
History == UNCHANGED <<runsBegun, found>>

NoRepairer ==
  [at |-> "idle", manifests |-> {}, logs |-> {}, tableNumbers |-> {}, tables |-> {},
   next |-> 1, file |-> NoFile, copy |-> NoFile, max |-> 0, copied |-> {}, failed |-> FALSE]

RepairInit ==
  /\ dir \in Directories /\ lost = <<>>
  /\ current \in NumbersOf(dir, "manifest") \cup {NoFile}
  /\ repairer = NoRepairer /\ failures = 0 /\ runsBegun = 0
  /\ found = {}

At(place) == repairer.at = place
Go(place) == repairer' = [repairer EXCEPT !.at = place]

(* ArchiveFile: what is in lost under that name is replaced; an error is   *)
(* only logged.                                                            *)
ArchiveFile(name) ==
  IF name \notin DOMAIN dir THEN UNCHANGED <<dir, lost, failures>>
  ELSE \/ Works /\ lost' = With(lost, name, dir[name]) /\ dir' = Without(dir, name)
       \/ Fails /\ UNCHANGED <<dir, lost>>
-----------------------------------------------------------------------------
\* next_file_number_ counts every file but the descriptors
NextNumber(names) == Largest({1} \cup {n[2] + 1 : n \in {m \in names : m[1] # "manifest"}})

(* FindFiles.                                                              *)
FindFiles ==
  /\ At("idle") /\ runsBegun < MaxRuns /\ DOMAIN dir # {}
  /\ repairer' = [NoRepairer EXCEPT !.at = "logs",
                    !.manifests = NumbersOf(dir, "manifest"), !.logs = NumbersOf(dir, "log"),
                    !.tableNumbers = NumbersOf(dir, "table"), !.next = NextNumber(DOMAIN dir)]
  /\ runsBegun' = runsBegun + 1
  /\ found' = Readable(dir)
  /\ SameFiles /\ Works

(* What a log's records give: the reader does not compare checksums, and   *)
(* of a damaged batch what comes before the damage is taken.               *)
Beginnings(s) == {Elements(SubSeq(s, 1, n)) : n \in 0 .. Len(s)}
TakenFrom(record) == IF record.damaged THEN Beginnings(record.entries) ELSE {Elements(record.entries)}
ReadLog(log) ==
  {UNION {taken[i] : i \in DOMAIN log} :
     taken \in {f \in [DOMAIN log -> UNION {TakenFrom(log[i]) : i \in DOMAIN log}] :
                  \A i \in DOMAIN log : f[i] \in TakenFrom(log[i])}}

\* the log is archived next, whatever came of it
AfterLog(l, r) == repairer' = [r EXCEPT !.at = "archiveLog", !.file = l]

\* MUTANT of ConvertLogToTable: the table is not noted.
ConvertLogUnnoted(l) ==
  /\ At("logs") /\ l \in repairer.logs
  /\ \E entries \in ReadLog(dir[<<"log", l>>]) :
       /\ AfterLog(l, [repairer EXCEPT !.next = @ + 1])
       /\ dir' = IF entries = {} THEN dir
                 ELSE With(dir, <<"table", repairer.next>>, TableFile(entries, FALSE))
  /\ Works /\ UNCHANGED <<lost, current>> /\ History

(* ConvertLogToTable, when the log can be read and the table built; an     *)
(* empty one is not kept.  BuildTable syncs it.                            *)
ConvertLogToTable(l) ==
  /\ At("logs") /\ l \in repairer.logs
  /\ \E entries \in ReadLog(dir[<<"log", l>>]) :
       IF entries = {}
       THEN AfterLog(l, [repairer EXCEPT !.next = @ + 1]) /\ UNCHANGED dir
       ELSE /\ AfterLog(l, [repairer EXCEPT !.next = @ + 1, !.tableNumbers = @ \cup {repairer.next}])
            /\ dir' = With(dir, <<"table", repairer.next>>, TableFile(entries, FALSE))
  /\ Works /\ UNCHANGED <<lost, current>> /\ History

(* The log cannot be opened, or BuildTable fails and deletes its file.     *)
ConversionFails(l) ==
  /\ At("logs") /\ l \in repairer.logs
  /\ \E used \in {0, 1} : AfterLog(l, [repairer EXCEPT !.next = @ + used, !.failed = TRUE])
  /\ Fails /\ SameFiles /\ History

ArchiveLog ==
  /\ At("archiveLog")
  /\ ArchiveFile(<<"log", repairer.file>>)
  /\ repairer' = [repairer EXCEPT !.at = "logs", !.logs = @ \ {repairer.file}]
  /\ UNCHANGED current /\ History
-----------------------------------------------------------------------------
(* ExtractMetaData: ScanTable for each table.                              *)
Scanning(n) ==
  At("logs") /\ repairer.logs = {} /\ n \in repairer.tableNumbers
NextTable(n, r) == repairer' = [r EXCEPT !.at = "logs", !.tableNumbers = @ \ {n}]
Info(n, max) == [number |-> n, max |-> max]
MaxSequence(entries) == Largest({0} \cup entries)

ScanTable(n) ==
  /\ Scanning(n)
  /\ LET table == dir[<<"table", n>>]
     IN  IF table.damaged
         THEN repairer' = [repairer EXCEPT !.at = "copy", !.file = n, !.max = MaxSequence(table.good),
                             !.tableNumbers = @ \ {n}]
         ELSE NextTable(n, [repairer EXCEPT !.tables = @ \cup {Info(n, MaxSequence(table.good))}])
  /\ Works /\ SameFiles /\ History

(* Its size cannot be had: it is archived, unless that fails for the same  *)
(* reason, which counts as one failure.                                    *)
ScanFails(n) ==
  /\ Scanning(n) /\ Fails
  /\ \/ /\ lost' = With(lost, <<"table", n>>, dir[<<"table", n>>])
        /\ dir' = Without(dir, <<"table", n>>)
     \/ UNCHANGED <<dir, lost>>
  /\ NextTable(n, [repairer EXCEPT !.failed = TRUE])
  /\ UNCHANGED current /\ History

(* RepairTable: a new file is begun; without it the table is left alone.   *)
CreateCopy ==
  /\ At("copy")
  /\ repairer' = [repairer EXCEPT !.at = "archiveTable", !.copy = repairer.next, !.next = @ + 1,
                    !.copied = dir[<<"table", repairer.file>>].good]
  /\ dir' = With(dir, <<"table", repairer.next>>, TableFile({}, TRUE))
  /\ Works /\ UNCHANGED <<lost, current>> /\ History
CopyFails ==
  /\ At("copy") /\ Fails
  /\ repairer' = [repairer EXCEPT !.at = "logs", !.next = @ + 1, !.failed = TRUE]
  /\ SameFiles /\ History

ArchiveTable ==
  /\ At("archiveTable")
  /\ ArchiveFile(<<"table", repairer.file>>)
  /\ Go("finish")
  /\ UNCHANGED current /\ History

\* Finish, Close: nothing is kept of a table without entries
FinishCopy ==
  /\ At("finish") /\ Works
  /\ IF repairer.copied = {} THEN Go("logs") /\ UNCHANGED dir
     ELSE Go("rename") /\ dir' = With(dir, <<"table", repairer.copy>>, TableFile(repairer.copied, FALSE))
  /\ UNCHANGED <<lost, current>> /\ History

(* The copy takes the place of the table, which was archived before.       *)
RenameCopy ==
  /\ At("rename") /\ Works
  /\ dir' = With(Without(dir, <<"table", repairer.copy>>), <<"table", repairer.file>>,
                 dir[<<"table", repairer.copy>>])
  /\ repairer' = [repairer EXCEPT !.at = "logs", !.tables = @ \cup {Info(repairer.file, repairer.max)}]
  /\ UNCHANGED <<lost, current>> /\ History
CopyIsDropped ==
  /\ repairer.at \in {"finish", "rename"} /\ Fails
  /\ repairer' = [repairer EXCEPT !.at = "logs", !.failed = TRUE]
  /\ dir' = Without(dir, <<"table", repairer.copy>>)
  /\ UNCHANGED <<lost, current>> /\ History
-----------------------------------------------------------------------------
(* WriteDescriptor.                                                        *)
Temp == <<"temp", 1>>
Manifest == <<"manifest", 1>>

(* The edit: every table at level 0, and the largest sequence of any.      *)
Descriptor ==
  [next |-> repairer.next, tables |-> {t.number : t \in repairer.tables},
   last |-> Largest({0} \cup {t.max : t \in repairer.tables})]

WriteTemp ==
  /\ At("logs") /\ repairer.logs = {} /\ repairer.tableNumbers = {}
  /\ Works
  /\ dir' = With(dir, Temp, Descriptor)
  /\ Go("archiveManifests")
  /\ UNCHANGED <<lost, current>> /\ History
ArchiveManifest ==
  /\ At("archiveManifests")
  /\ \E m \in repairer.manifests :
       /\ ArchiveFile(<<"manifest", m>>)
       /\ repairer' = [repairer EXCEPT !.manifests = @ \ {m}]
  /\ UNCHANGED current /\ History
RenameTemp ==
  /\ At("archiveManifests") /\ repairer.manifests = {} /\ Works
  /\ dir' = With(Without(dir, Temp), Manifest, dir[Temp])
  /\ Go("setCurrent")
  /\ UNCHANGED <<lost, current>> /\ History
SetCurrent ==
  /\ At("setCurrent") /\ Works
  /\ current' = 1
  /\ Go("done")
  /\ UNCHANGED <<dir, lost>> /\ History
DescriptorFails ==
  /\ Fails
  /\ \/ At("logs") /\ repairer.logs = {} /\ repairer.tableNumbers = {}
     \/ At("archiveManifests") /\ repairer.manifests = {}
     \/ At("setCurrent")
  /\ dir' = Without(dir, Temp)
  /\ repairer' = NoRepairer
  /\ UNCHANGED <<lost, current>> /\ History

(* The process stops.                                                      *)
Crash ==
  /\ repairer.at \notin {"idle", "done"}
  /\ repairer' = NoRepairer
  /\ SameFiles /\ Works /\ History

RepairNext ==
  \/ FindFiles
  \/ \E l \in repairer.logs : ConvertLogToTable(l) \/ ConversionFails(l)
  \/ ArchiveLog
  \/ \E n \in repairer.tableNumbers : ScanTable(n) \/ ScanFails(n)
  \/ CreateCopy \/ CopyFails \/ ArchiveTable \/ FinishCopy \/ RenameCopy \/ CopyIsDropped
  \/ WriteTemp \/ ArchiveManifest \/ RenameTemp \/ SetCurrent \/ DescriptorFails
  \/ Crash
-----------------------------------------------------------------------------
(* ArchiveFile moves files and deletes none: what a repair could read as it *)
(* began is in the directory or in lost, wherever it fails or stops, until *)
(* another one begins.  A later repair may give the number of a table in   *)
(* lost again, and archive that one in its place.                          *)
NothingIsDestroyed == found \subseteq Readable(dir) \cup Readable(lost)

(* db.h, RepairDB: a repair in which no call failed brings into the new    *)
(* version every entry that could be read in the directory.                *)
Recovered == UNION {dir[<<"table", n>>].good : n \in dir[Manifest].tables}
RepairRecovers == At("done") /\ ~repairer.failed => found \subseteq Recovered

(* The new version can be written on: its tables are there, no file has a  *)
(* number it will give, and no entry a sequence it will give.              *)
RepairedCanGoOn ==
  At("done") =>
    /\ \A n \in dir[Manifest].tables : <<"table", n>> \in DOMAIN dir
    /\ \A n \in DOMAIN dir : n[1] # "manifest" => n[2] < dir[Manifest].next
    /\ \A s \in Recovered : s <= dir[Manifest].last

(* repair.cc: whatever fails and wherever it stops, a repair destroys      *)
(* nothing that could be read, and one that ends well has it all in a      *)
(* database that can be written on.                                        *)
RepairSavesWhatIsThere == NothingIsDestroyed /\ RepairRecovers /\ RepairedCanGoOn
=============================================================================
