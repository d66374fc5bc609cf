------------------------------- MODULE Levels -------------------------------
(***************************************************************************)
(* The data of an open LevelDB: the memtable, the immutable memtable being *)
(* written out, the files of each level, and the compactions that rewrite  *)
(* them while reads, writes and snapshots go on (db/version_set.cc and the *)
(* parts of db/db_impl.cc that call it).  Writers, logs and recovery are   *)
(* in module Store.                                                        *)
(*                                                                         *)
(* A file is the set of its entries; its smallest and largest keys are     *)
(* theirs, its size is their number.  One background thread compacts.      *)
(***************************************************************************)
EXTENDS InternalKeys, Filtering, SequencesExt

CONSTANTS
  Keys,                \* the user keys, a set of numbers
  NumLevels,           \* config::kNumLevels
  MaxMemCompactLevel,  \* config::kMaxMemCompactLevel
  CompactionTrigger,   \* config::kL0_CompactionTrigger
  StopWritesTrigger,   \* config::kL0_StopWritesTrigger
  MaxBytesForLevel1,   \* entries level 1 may hold
  LevelRatio,          \* how much more each level below it may hold (10)
  AllowedSeeks,        \* seeks a file is charged before it is compacted
  None,                \* no immutable memtable, compaction, pointer or bound
  kMaxSequenceNumber,  \* above every write's sequence number
  OptionSets,          \* the options a database may be opened with, and bounds
  ManualRanges         \* the ranges CompactRange is called with

Level == 0 .. NumLevels - 1

ASSUME LevelsAssumption ==
  /\ Keys \subseteq Int
  /\ NumLevels \in Nat \ {0, 1} /\ MaxMemCompactLevel \in Level
  /\ CompactionTrigger \in Nat \ {0}
  /\ StopWritesTrigger \in Nat /\ StopWritesTrigger > CompactionTrigger
  /\ MaxBytesForLevel1 \in Nat \ {0} /\ LevelRatio \in Nat \ {0} /\ AllowedSeeks \in Nat \ {0}
  /\ kMaxSequenceNumber \in Nat
  /\ OptionSets \subseteq [writeBufferSize : Nat \ {0}, maxFileSize : Nat \ {0},
                           grandParentOverlap : Nat, expandedLimit : Nat,
                           writes : 0 .. kMaxSequenceNumber - 1, snapshots : Nat,
                           ranges : Nat]

VARIABLES
  options,        \* options_, const after construction
  mem,            \* entries of the memtable
  imm,            \* entries of the memtable being written out, or None
  lastSeq,        \* last_sequence_
  snapshots,      \* snapshots_: sequence numbers, oldest first
  levels,         \* files_ of the current version, a sequence per level
  nextFile,       \* next_file_number_
  compactPointer, \* compact_pointer_: a largest key or None, per level
  fileToCompact,  \* file_to_compact_ and its level, or None
  manual,         \* the range a caller of CompactRange waits for, or None
  compaction      \* the compaction being worked on, or None

levelsVars == <<options, mem, imm, lastSeq, snapshots, levels, nextFile, compactPointer,
                fileToCompact, manual, compaction>>
-----------------------------------------------------------------------------
(* Limits, in entries: of a memtable, of an output file, of what one file  *)
(* may overlap two levels down, of a compaction that is expanded.  In the  *)
(* code the last two are 10 and 25 output files.                           *)
WriteBufferSize == options.writeBufferSize
MaxFileSize == options.maxFileSize
MaxGrandParentOverlap == options.grandParentOverlap
ExpandedCompactionLimit == options.expandedLimit
\* bounds: writes, snapshots held at once, files made before CompactRange is called
MaxSeq == options.writes
MaxSnapshots == options.snapshots
MaxFilesBeforeRange == options.ranges

(* Files.                                                                  *)

(* FileMetaData, with the entries the file holds.                          *)
NewFile(number, entries) ==
  [number |-> number, entries |-> entries, seeks |-> AllowedSeeks,
   smallest |-> CHOOSE e \in entries : \A x \in entries : NotAfter(e, x),
   largest |-> CHOOSE e \in entries : \A x \in entries : NotAfter(x, e)]

\* the members of S from the first to the last in the order of Earlier
InOrder(S, Earlier(_, _)) ==
  [n \in 1 .. Cardinality(S) |->
     CHOOSE x \in S : Cardinality({y \in S : Earlier(y, x)}) = n - 1]

\* no entry is in two files of a version
TotalFileSize(files) == Cardinality(UNION {f.entries : f \in ToSet(files)})

(* Builder::BySmallestKey, and the order level 0 is read in.               *)
BySmallestKey(f, g) ==
  \/ Before(f.smallest, g.smallest)
  \/ f.smallest = g.smallest /\ f.number < g.number
NewestFirst(f, g) == f.number > g.number

(* FindFile: a binary search for the first file whose largest key is not   *)
(* before the target; Len(files) + 1 when there is none.                   *)
FindFile(files, target) ==
  LET n == Len(files)
      search[lr \in (0 .. n) \X (0 .. n)] ==
        LET mid == (lr[1] + lr[2]) \div 2
        IN  IF lr[1] >= lr[2] THEN lr[2] + 1
            ELSE IF Before(files[mid + 1].largest, target)
                 THEN search[<<mid + 1, lr[2]>>]
                 ELSE search[<<lr[1], mid>>]
  IN  search[<<0, n>>]

OverlapsUserRange(f, lo, hi) ==
  /\ hi # None => f.smallest.key <= hi
  /\ lo # None => f.largest.key >= lo

(* SomeFileOverlapsRange, through OverlapInLevel.                          *)
OverlapInLevel(lvs, level, lo, hi) ==
  LET files == lvs[level]
      first == IF lo = None THEN 1 ELSE FindFile(files, LookupKey(lo, kMaxSequenceNumber))
  IN  IF level = 0
      THEN \E i \in DOMAIN files : OverlapsUserRange(files[i], lo, hi)
      ELSE /\ first \in DOMAIN files
           /\ hi # None => files[first].smallest.key <= hi

(* GetOverlappingInputs: the files of a level that overlap a range of user *)
(* keys; in level 0 the range grows to hold the files it meets.            *)
GetOverlappingInputs(lvs, level, lo, hi) ==
  LET files == lvs[level]
      Hits(l, h) == {f \in ToSet(files) : OverlapsUserRange(f, l, h)}
      Low(l, S) == IF l = None THEN None ELSE Min({l} \cup {f.smallest.key : f \in S})
      High(h, S) == IF h = None THEN None ELSE Max({h} \cup {f.largest.key : f \in S})
      \* after as many rounds as there are files the range grows no more
      grown[n \in 0 .. Len(files)] ==
        IF n = 0 THEN <<lo, hi>>
        ELSE LET r == grown[n - 1]  S == Hits(r[1], r[2])
             IN  <<Low(r[1], S), High(r[2], S)>>
      range == IF level = 0 THEN grown[Len(files)] ELSE <<lo, hi>>
  IN  Filter(files, Hits(range[1], range[2]))

(* GetRange and GetRange2, on user keys: all that is compared to it is.    *)
RangeOf(files) == <<Min({f.smallest.key : f \in ToSet(files)}),
                    Max({f.largest.key : f \in ToSet(files)})>>
-----------------------------------------------------------------------------
(* Reads.                                                                  *)

(* The files that may hold an internal key, in the order they are read     *)
(* (Version::Get, ForEachOverlapping), as pairs of a level and its place:  *)
(* every overlapping file of level 0, newest first, then at most one file  *)
(* per level.                                                              *)
FilesToRead(target) ==
  LET newest == {<<0, i>> : i \in {j \in DOMAIN levels[0] :
                    OverlapsUserRange(levels[0][j], target.key, target.key)}}
      newestFirst(r, q) == NewestFirst(levels[0][r[2]], levels[0][q[2]])
      mayHold(i, files) == i \in DOMAIN files /\ target.key >= files[i].smallest.key
      reads[l \in Level] ==
        IF l = 0 THEN InOrder(newest, newestFirst)
        ELSE LET i == FindFile(levels[l], target)
             IN  IF mayHold(i, levels[l]) THEN Append(reads[l - 1], <<l, i>>) ELSE reads[l - 1]
  IN  reads[NumLevels - 1]

FileAt(r) == levels[r[1]][r[2]]

(* Version::Get: the files are read until one has an entry of the key.     *)
FoundInFile(r, key, snapshot) == FoundIn(FileAt(r).entries, key, snapshot)

FirstFound(reads, key, snapshot) ==
  UNION {FoundInFile(reads[i], key, snapshot) :
           i \in {h \in DOMAIN reads :
                    \A j \in 1 .. h - 1 : FoundInFile(reads[j], key, snapshot) = {}}}

FindInVersion(key, snapshot) ==
  UNION {FirstFound(reads, key, snapshot) : reads \in {FilesToRead(LookupKey(key, snapshot))}}

(* DBImpl::Get: memtable, immutable memtable, version; a deletion found is *)
(* an answer too.  The answer is the number of the write, or 0.            *)
Found(key, snapshot) ==
  IF FoundIn(mem, key, snapshot) # {} THEN FoundIn(mem, key, snapshot)
  ELSE IF imm # None /\ FoundIn(imm, key, snapshot) # {} THEN FoundIn(imm, key, snapshot)
  ELSE FindInVersion(key, snapshot)

Get(key, snapshot) ==
  Max({0} \cup {IF e.type = kTypeValue THEN e.seq ELSE 0 : e \in Found(key, snapshot)})

(* The file a Get charges for a seek: the first one it read, if it read    *)
(* more than one.                                                          *)
SeekFile(key, snapshot) ==
  LET reads == FilesToRead(LookupKey(key, snapshot))
  IN  IF Len(reads) >= 2 /\ FoundInFile(reads[1], key, snapshot) = {} THEN reads[1] ELSE None

(* Version::UpdateStats for a file read: one allowed seek less, and at     *)
(* none left it is the file to compact unless there is one.  Counts below  *)
(* 0 act like 0 and are kept at 0.                                         *)
UpdateStats(r) ==
  LET left == IF FileAt(r).seeks = 0 THEN 0 ELSE FileAt(r).seeks - 1
  IN  /\ levels' = [levels EXCEPT ![r[1]][r[2]].seeks = left]
      /\ fileToCompact' = IF left = 0 /\ fileToCompact = None
                          THEN [level |-> r[1], number |-> FileAt(r).number]
                          ELSE fileToCompact
-----------------------------------------------------------------------------
(* Versions.                                                               *)

(* Builder: the files of a level that an edit leaves (deleted holds pairs  *)
(* of a level and a number), and those it adds, each before the first file *)
(* that is after it by the smallest keys.                                  *)
Kept(l, deleted) == Filter(levels[l], {f \in ToSet(levels[l]) : <<l, f.number>> \notin deleted})
UpperBound(files, f) ==
  Min({Len(files) + 1} \cup {i \in DOMAIN files : BySmallestKey(f, files[i])})
Merged(kept, added) ==
  LET merged[n \in 0 .. Len(added)] ==
        IF n = 0 THEN kept
        ELSE LET files == merged[n - 1]
             IN  InsertAt(files, UpperBound(files, added[n]), added[n])
  IN  merged[Len(added)]

\* MUTANT of Apply: the added files are not put in the order of their keys.
ApplyAtTheEnd(deleted, level, added) ==
  /\ levels' = [l \in Level |-> IF l = level THEN Kept(l, deleted) \o added
                                ELSE Kept(l, deleted)]
  /\ fileToCompact' = None

(* Builder::Apply and SaveTo, LogAndApply: a version without the deleted   *)
(* files, with files added to one level.  A new version has no file to     *)
(* compact.                                                                *)
Apply(deleted, level, added) ==
  /\ levels' = [l \in Level |-> IF l = level THEN Merged(Kept(l, deleted), added)
                                ELSE Kept(l, deleted)]
  /\ fileToCompact' = None

(* Finalize: the score of a level is Size / Limit; the first level with    *)
(* the highest score is compacted next, once its score reaches 1.          *)
Size(l) == IF l = 0 THEN Len(levels[0]) ELSE TotalFileSize(levels[l])
MaxBytesForLevel(l) ==
  LET result[m \in 0 .. l] == IF m <= 1 THEN MaxBytesForLevel1 ELSE result[m - 1] * LevelRatio
  IN  result[l]
Limit(l) == IF l = 0 THEN CompactionTrigger ELSE MaxBytesForLevel(l)

CompactionLevel ==
  LET size == [l \in Level |-> Size(l)]
      limit == [l \in Level |-> Limit(l)]
  IN  CHOOSE l \in 0 .. NumLevels - 2 :
        \A m \in 0 .. NumLevels - 2 :
          /\ size[l] * limit[m] >= size[m] * limit[l]
          /\ m < l => size[l] * limit[m] > size[m] * limit[l]

SizeCompaction == Size(CompactionLevel) >= Limit(CompactionLevel)
NeedsCompaction == SizeCompaction \/ fileToCompact # None

\* MUTANT of PickLevelForMemTableOutput: the levels passed are not looked at.
PickLevelPastFiles(lo, hi) ==
  LET StopsAt(l) ==
        \/ l = MaxMemCompactLevel
        \/ /\ l + 2 < NumLevels
           /\ TotalFileSize(GetOverlappingInputs(levels, l + 2, lo, hi))
                > MaxGrandParentOverlap
  IN  IF OverlapInLevel(levels, 0, lo, hi) THEN 0
      ELSE Min({l \in 0 .. MaxMemCompactLevel : StopsAt(l)})

(* PickLevelForMemTableOutput: a file that overlaps nothing goes down to   *)
(* MaxMemCompactLevel, or stops above a level it overlaps or when it       *)
(* overlaps too much of the level after that.                              *)
PickLevelForMemTableOutput(lo, hi) ==
  LET StopsAt(l) ==
        \/ l = MaxMemCompactLevel
        \/ OverlapInLevel(levels, l + 1, lo, hi)
        \/ /\ l + 2 < NumLevels
           /\ TotalFileSize(GetOverlappingInputs(levels, l + 2, lo, hi))
                > MaxGrandParentOverlap
  IN  IF OverlapInLevel(levels, 0, lo, hi) THEN 0
      ELSE Min({l \in 0 .. MaxMemCompactLevel : StopsAt(l)})
-----------------------------------------------------------------------------
(* Compactions.                                                            *)

(* A Compaction: its level, the two sequences of input files, the files it *)
(* overlaps two levels down, the version it was picked from and the oldest *)
(* snapshot, which drops entries hidden from every reader.                 *)
Compaction(level, in0, in1, grandparents) ==
  [level |-> level, in0 |-> in0, in1 |-> in1, grandparents |-> grandparents,
   base |-> levels,
   smallestSnapshot |-> IF snapshots = << >> THEN lastSeq ELSE snapshots[1],
   isManual |-> FALSE]

(* SetupOtherInputs: the files of level+1 that overlap the files picked,   *)
(* then more files of the level when they need no more files of level+1,   *)
(* then the grandparents.                                                  *)
SetupOtherInputs(level, picked) ==
  LET In(l, range) == GetOverlappingInputs(levels, l, range[1], range[2])
      inputs1 == In(level + 1, RangeOf(picked))
      expanded0 == In(level, RangeOf(picked \o inputs1))
      expanded1 == In(level + 1, RangeOf(expanded0))
      expands == /\ inputs1 # << >>
                 /\ Len(expanded0) > Len(picked)
                 /\ TotalFileSize(inputs1) + TotalFileSize(expanded0)
                      < ExpandedCompactionLimit
                 /\ Len(expanded1) = Len(inputs1)
      in0 == IF expands THEN expanded0 ELSE picked
      in1 == IF expands THEN expanded1 ELSE inputs1
  IN  Compaction(level, in0, in1,
                 IF level + 2 < NumLevels THEN In(level + 2, RangeOf(in0 \o in1)) ELSE << >>)

LargestOf(files) ==
  CHOOSE e \in {f.largest : f \in ToSet(files)} :
    \A f \in ToSet(files) : NotAfter(f.largest, e)

(* PickCompaction: by size the first file after the compaction pointer,    *)
(* else the file charged with too many seeks; in level 0 every file that   *)
(* overlaps it as well.                                                    *)
PickCompaction ==
  LET level == IF SizeCompaction THEN CompactionLevel ELSE fileToCompact.level
      files == levels[level]
      after == {i \in DOMAIN files : \/ compactPointer[level] = None
                                     \/ Before(compactPointer[level], files[i].largest)}
      file == IF SizeCompaction
              THEN files[IF after = {} THEN 1 ELSE Min(after)]
              ELSE CHOOSE f \in ToSet(files) : f.number = fileToCompact.number
      range == RangeOf(<<file>>)
  IN  SetupOtherInputs(level, IF level = 0
                              THEN GetOverlappingInputs(levels, 0, range[1], range[2])
                              ELSE <<file>>)

IsTrivialMove(c) ==
  /\ Len(c.in0) = 1 /\ c.in1 = << >>
  /\ TotalFileSize(c.grandparents) <= MaxGrandParentOverlap

(* CompactRange: the files of a level that overlap the range, cut after    *)
(* the one that fills an output file, except in level 0.                   *)
RangeInputs(level, lo, hi) ==
  LET inputs == GetOverlappingInputs(levels, level, lo, hi)
      full == {i \in DOMAIN inputs : TotalFileSize(SubSeq(inputs, 1, i)) >= MaxFileSize}
  IN  IF level = 0 \/ full = {} THEN inputs ELSE SubSeq(inputs, 1, Min(full))

\* the first file from a place on that does not end before the user key
FirstUpTo(files, from, key) ==
  Min({i \in from .. Len(files) + 1 : i \in DOMAIN files => key <= files[i].largest.key})
InRangeOf(files, i, key) == i \in DOMAIN files /\ key >= files[i].smallest.key

\* MUTANT of AdvancedLevelPtrs: the file the key was found in is passed as well.
AdvancedPastTheFile(c, ptrs, key) ==
  LET at == [l \in Level |-> FirstUpTo(c.base[l], ptrs[l], key)]
  IN  [l \in Level |-> IF l < c.level + 2 THEN ptrs[l]
                       ELSE IF InRangeOf(c.base[l], at[l], key) THEN at[l] + 1 ELSE at[l]]

(* IsBaseLevelForKey leaves level_ptrs_ in each level at the first file    *)
(* that does not end before the key, down to a level where the key is in   *)
(* the range of that file; the next key is looked for from there on.       *)
AdvancedLevelPtrs(c, ptrs, key) ==
  LET at == [l \in Level |-> FirstUpTo(c.base[l], ptrs[l], key)]
      InLevelAbove(l) == \E m \in c.level + 2 .. l - 1 : InRangeOf(c.base[m], at[m], key)
  IN  [l \in Level |-> IF l < c.level + 2 \/ InLevelAbove(l) THEN ptrs[l] ELSE at[l]]

(* IsBaseLevelForKey: no file below the two levels compacted, as they were *)
(* when the compaction was picked, may hold the user key, looking from     *)
(* level_ptrs_ on.                                                         *)
IsBaseLevelForKey(c, ptrs, key) ==
  \A l \in c.level + 2 .. NumLevels - 1 :
    ~InRangeOf(c.base[l], FirstUpTo(c.base[l], ptrs[l], key), key)

(* ShouldStopBefore: the grandparents passed since the output began hold   *)
(* too much.                                                               *)
Passed(c, from, e) ==
  Min({i \in from .. Len(c.grandparents) + 1 :
         i \in DOMAIN c.grandparents => ~Before(c.grandparents[i].largest, e)})

(* One turn of the loop of DoCompactionWork: the entry is dropped when a   *)
(* newer entry of its key is visible to every snapshot, or when it is a    *)
(* deletion visible to every snapshot with nothing below it to delete.     *)
CompactEntry(c, w, e) ==
  LET next == Passed(c, w.passed, e)
      overlapped == w.overlapped +
        IF w.seenKey THEN TotalFileSize(SubSeq(c.grandparents, w.passed, next - 1)) ELSE 0
      stop == overlapped > MaxGrandParentOverlap
      last == IF w.key = e.key THEN w.last ELSE kMaxSequenceNumber
      hidden == last <= c.smallestSnapshot
      oldDeletion == e.type = kTypeDeletion /\ e.seq <= c.smallestSnapshot
      asked == ~hidden /\ oldDeletion
      drop == hidden \/ (oldDeletion /\ IsBaseLevelForKey(c, w.levelPtrs, e.key))
      finished == IF stop /\ w.output # {} THEN Append(w.outputs, w.output) ELSE w.outputs
      output == (IF stop THEN {} ELSE w.output) \cup (IF drop THEN {} ELSE {e})
      full == ~drop /\ Cardinality(output) >= MaxFileSize
  IN  [passed |-> next, overlapped |-> IF stop THEN 0 ELSE overlapped, seenKey |-> TRUE,
       key |-> e.key, last |-> e.seq,
       levelPtrs |-> IF asked THEN AdvancedLevelPtrs(c, w.levelPtrs, e.key) ELSE w.levelPtrs,
       output |-> IF full THEN {} ELSE output,
       outputs |-> IF full THEN Append(finished, output) ELSE finished]

(* MakeInputIterator: the entries of the inputs, merged.                   *)
MergedInput(c) == InOrder(UNION {f.entries : f \in ToSet(c.in0 \o c.in1)}, Before)

(* DoCompactionWork: the outputs of a compaction, from the merged entries  *)
(* of its inputs.                                                          *)
CompactionOutputs(c) ==
  LET start == [passed |-> 1, overlapped |-> 0, seenKey |-> FALSE, key |-> None,
                last |-> kMaxSequenceNumber, levelPtrs |-> [l \in Level |-> 1],
                output |-> {}, outputs |-> << >>]
      input == MergedInput(c)
      work[i \in 0 .. Len(input)] ==
        IF i = 0 THEN start ELSE CompactEntry(c, work[i - 1], input[i])
      done == work[Len(input)]
  IN  IF done.output = {} THEN done.outputs ELSE Append(done.outputs, done.output)

(* AddInputDeletions.                                                      *)
InputDeletions(c) == {<<c.level, f.number>> : f \in ToSet(c.in0)}
                       \cup {<<c.level + 1, f.number>> : f \in ToSet(c.in1)}
-----------------------------------------------------------------------------
\* the stages of CompactRange before it compacts a level
Flushing == -2
Waiting == -1

\* a version without files
EmptyVersion == [l \in Level |-> << >>]

LevelsInit ==
  /\ options \in OptionSets
  /\ mem = {} /\ imm = None
  /\ lastSeq = 0 /\ snapshots = << >>
  /\ levels = EmptyVersion /\ nextFile = 1
  /\ compactPointer = [l \in Level |-> None]
  /\ fileToCompact = None /\ manual = None /\ compaction = None

(* A write of one entry, when the memtable has room.                       *)
WriteEntry(key, type) ==
  /\ lastSeq < MaxSeq
  /\ Cardinality(mem) < WriteBufferSize
  /\ lastSeq' = lastSeq + 1
  /\ mem' = mem \cup {IKey(key, lastSeq + 1, type)}
  /\ UNCHANGED <<options, imm, snapshots, levels, nextFile, compactPointer, fileToCompact,
                 manual, compaction>>

(* MakeRoomForWrite: a full memtable, or one CompactRange wants written    *)
(* out, is made immutable once the one before is written and level 0 is    *)
(* not at its limit.                                                       *)
SwitchMemTable ==
  LET forced == manual # None /\ manual.stage = Flushing
  IN  /\ ~forced => lastSeq < MaxSeq /\ Cardinality(mem) >= WriteBufferSize
      /\ imm = None
      /\ Len(levels[0]) < StopWritesTrigger
      /\ imm' = mem /\ mem' = {}
      /\ manual' = IF forced THEN [manual EXCEPT !.stage = Waiting] ELSE manual
      /\ UNCHANGED <<options, lastSeq, snapshots, levels, nextFile, compactPointer,
                     fileToCompact, compaction>>

(* SnapshotList: the oldest snapshot is the first.                         *)
NewSnapshot(seq) == snapshots' = Append(snapshots, seq)
DeleteSnapshot(i) == snapshots' = RemoveAt(snapshots, i)

GetSnapshot ==
  /\ Len(snapshots) < MaxSnapshots
  /\ NewSnapshot(lastSeq)
  /\ UNCHANGED <<options, mem, imm, lastSeq, levels, nextFile, compactPointer, fileToCompact,
                 manual, compaction>>

ReleaseSnapshot(i) ==
  /\ DeleteSnapshot(i)
  /\ UNCHANGED <<options, mem, imm, lastSeq, levels, nextFile, compactPointer, fileToCompact,
                 manual, compaction>>

(* DBImpl::Get of a key the memtables do not answer: the version is read   *)
(* and a file may be charged.                                              *)
ChargeGet(key, snapshot) ==
  /\ FoundIn(mem \cup (IF imm = None THEN {} ELSE imm), key, snapshot) = {}
  /\ SeekFile(key, snapshot) # None
  /\ UpdateStats(SeekFile(key, snapshot))
  /\ UNCHANGED <<options, mem, imm, lastSeq, snapshots, nextFile, compactPointer, manual,
                 compaction>>

StoredEntries == UNION {f.entries : f \in UNION {ToSet(levels[l]) : l \in Level}}

(* RecordReadSample of an entry an iterator passes, in a memtable or in a  *)
(* file: two files that may hold its key charge the first.                 *)
RecordReadSample ==
  /\ \E reads \in {FilesToRead(e) :
                     e \in StoredEntries \cup mem \cup (IF imm = None THEN {} ELSE imm)} :
       Len(reads) >= 2 /\ UpdateStats(reads[1])
  /\ UNCHANGED <<options, mem, imm, lastSeq, snapshots, nextFile, compactPointer, manual,
                 compaction>>

(* CompactMemTable: the immutable memtable becomes a file, unless it is    *)
(* empty.  The background thread puts it before other work and, in a       *)
(* compaction, between two entries.                                        *)
CompactMemTable ==
  /\ imm # None
  /\ IF imm = {} THEN Apply({}, 0, << >>) /\ nextFile' = nextFile + 1
     ELSE LET f == NewFile(nextFile, imm)  range == RangeOf(<<f>>)
          IN  /\ Apply({}, PickLevelForMemTableOutput(range[1], range[2]), <<f>>)
              /\ nextFile' = nextFile + 1
  /\ imm' = None
  /\ UNCHANGED <<options, mem, lastSeq, snapshots, compactPointer, manual, compaction>>

(* BackgroundCompaction, the part before the work: a move of one file that *)
(* overlaps nothing is done at once, other compactions are begun.          *)
Begin(c) ==
  /\ compactPointer' = [compactPointer EXCEPT ![c.level] = LargestOf(c.in0)]
  /\ IF ~c.isManual /\ IsTrivialMove(c)
     THEN /\ Apply(InputDeletions(c), c.level + 1,
                   <<[c.in0[1] EXCEPT !.seeks = AllowedSeeks]>>)
          /\ UNCHANGED compaction
     ELSE /\ compaction' = c
          /\ UNCHANGED <<levels, fileToCompact>>
  /\ UNCHANGED <<options, mem, imm, lastSeq, snapshots, nextFile>>

\* MUTANT of BeginCompaction: nobody looks whether one is under way.
BeginCompactionAnytime ==
  /\ imm = None
  /\ manual # None => ~manual.posted
  /\ NeedsCompaction
  /\ Begin(PickCompaction)
  /\ UNCHANGED manual

BeginCompaction ==
  /\ compaction = None /\ imm = None
  /\ manual # None => ~manual.posted
  /\ NeedsCompaction
  /\ Begin(PickCompaction)
  /\ UNCHANGED manual

(* A manual compaction: done at this level when nothing of the range is    *)
(* left there, else one compaction of a part of it.                        *)
BeginManualCompaction ==
  /\ compaction = None /\ imm = None
  /\ manual # None /\ manual.posted
  /\ LET inputs == RangeInputs(manual.stage, manual.pos, manual.hi)
     IN  IF inputs = << >>
         THEN /\ manual' = IF manual.stage + 1 < manual.upto
                           THEN [manual EXCEPT !.stage = @ + 1, !.pos = manual.lo,
                                               !.posted = FALSE]
                           ELSE None
              /\ UNCHANGED <<options, mem, imm, lastSeq, snapshots, levels, nextFile,
                             compactPointer, fileToCompact, compaction>>
         ELSE /\ Begin([SetupOtherInputs(manual.stage, inputs) EXCEPT !.isManual = TRUE])
              /\ UNCHANGED manual

(* DoCompactionWork's results installed (InstallCompactionResults): the    *)
(* inputs leave the version, the outputs enter level+1.  A manual          *)
(* compaction goes on after its last input.                                *)
FinishCompaction ==
  /\ compaction # None
  /\ LET outputs == CompactionOutputs(compaction)
     IN  /\ Apply(InputDeletions(compaction), compaction.level + 1,
                  [i \in DOMAIN outputs |-> NewFile(nextFile + i - 1, outputs[i])])
         /\ nextFile' = nextFile + Len(outputs)
  /\ manual' = IF compaction.isManual
               THEN [manual EXCEPT !.pos = Last(compaction.in0).largest.key,
                                   !.posted = FALSE]
               ELSE manual
  /\ compaction' = None
  /\ UNCHANGED <<options, mem, imm, lastSeq, snapshots, compactPointer>>

(* DBImpl::CompactRange: the memtable is written out, then each level down *)
(* to the last with files in the range is compacted into the next.         *)
CompactRange(range) ==
  /\ manual = None /\ nextFile <= MaxFilesBeforeRange
  /\ LET lo == range[1]  hi == range[2]
         overlapped == {l \in Level \ {0} : OverlapInLevel(levels, l, lo, hi)}
     IN  manual' = [lo |-> lo, hi |-> hi, pos |-> lo, stage |-> Flushing,
                    upto |-> Max({1} \cup overlapped), posted |-> FALSE]
  /\ UNCHANGED <<options, mem, imm, lastSeq, snapshots, levels, nextFile, compactPointer,
                 fileToCompact, compaction>>

(* TEST_CompactMemTable returned; TEST_CompactRange posts a level's part.  *)
PostManualCompaction ==
  /\ manual # None /\ ~manual.posted
  /\ manual.stage # Flushing
  /\ manual.stage = Waiting => imm = None
  /\ manual' = [manual EXCEPT !.stage = IF @ = Waiting THEN 0 ELSE @, !.posted = TRUE]
  /\ UNCHANGED <<options, mem, imm, lastSeq, snapshots, levels, nextFile, compactPointer,
                 fileToCompact, compaction>>

ReadSnapshots == {lastSeq} \cup ToSet(snapshots)

Background ==
  CompactMemTable \/ BeginCompaction \/ BeginManualCompaction \/ FinishCompaction

Contents(snapshot) == [k \in Keys |-> Get(k, snapshot)]

LevelsNext ==
  \/ \E k \in Keys, t \in {kTypeDeletion, kTypeValue} : WriteEntry(k, t)
  \/ SwitchMemTable
  \/ GetSnapshot
  \/ \E i \in DOMAIN snapshots : ReleaseSnapshot(i)
  \/ \E k \in Keys, s \in ReadSnapshots : ChargeGet(k, s)
  \/ RecordReadSample
  \/ \E r \in ManualRanges : CompactRange(r)
  \/ PostManualCompaction
  \/ Background

LevelsSpec == LevelsInit /\ [][LevelsNext]_levelsVars
-----------------------------------------------------------------------------
KV == INSTANCE KeyValueMap WITH
        Absent <- 0,
        count <- lastSeq,
        contents <- [s \in ReadSnapshots |-> Contents(s)]

(* db.h, Put, Delete, GetSnapshot: the database is a map with snapshots,   *)
(* that of what Get answers now and at each snapshot held.  Only a write   *)
(* changes the map and only a snapshot adds to what is kept; flushes,      *)
(* compactions, moves and splits of files are steps nobody sees.           *)
ImplementsKeyValueMap == KV!KVSpec

NewerThan(S, T) == \A e \in S, f \in T : e.key = f.key => e.seq > f.seq

(* version_set.cc:346, "entries never hop across levels": for each user    *)
(* key, what is in a memtable, a level-0 file or a level is newer than     *)
(* what is in any source read after it, so that the first answer is right. *)
EntriesNeverHop ==
  LET memory == mem \cup (IF imm = None THEN {} ELSE imm)
      In(l) == UNION {f.entries : f \in ToSet(levels[l])}
  IN  /\ imm # None => NewerThan(mem, imm)
      /\ \A l \in Level : NewerThan(memory, In(l))
      /\ \A f, g \in ToSet(levels[0]) :
           f.number > g.number => NewerThan(f.entries, g.entries)
      /\ \A l, m \in Level : l < m => NewerThan(In(l), In(m))

(* Builder::MaybeAddFile, "Must not overlap": below level 0 each file ends *)
(* before the next one begins, or the binary search misses entries.        *)
NoOverlapInLevels ==
  \A l \in Level \ {0} : \A i, j \in DOMAIN levels[l] :
    i < j => Before(levels[l][i].largest, levels[l][j].smallest)

(* The files a compaction reads stay where they were until its results are *)
(* installed, whatever is flushed meanwhile; an input gone would be        *)
(* deleted twice, and what was written over it lost.                       *)
InputsStayInPlace ==
  compaction # None =>
    \A d \in InputDeletions(compaction) :
      \E f \in ToSet(levels[d[1]]) : f.number = d[2]
=============================================================================
