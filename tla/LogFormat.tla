----------------------------- MODULE LogFormat -----------------------------
(***************************************************************************)
(* The format of a log (db/log_writer.cc, db/log_reader.cc), which both    *)
(* the write-ahead log and the MANIFEST have: records cut into fragments   *)
(* that do not cross a block, each with a header of checksum, length and   *)
(* type.  A file is a sequence of cells; a cell is a byte of data or one   *)
(* of the three fields of a header.                                        *)
(***************************************************************************)
EXTENDS Integers, Sequences, SequencesExt

CONSTANTS
  kBlockSize,    \* cells in a block
  LogRecords,    \* what is added
  MaxRecords,    \* bound: records added
  BadCells       \* what a damaged cell may become

kHeaderSize == 3
kZeroType == 0
kFullType == 1
kFirstType == 2
kMiddleType == 3
kLastType == 4
kEof == 5
kBadRecord == 6

ASSUME LogAssumption ==
  /\ kBlockSize \in Nat /\ kBlockSize > kHeaderSize /\ MaxRecords \in Nat
  /\ LogRecords \subseteq Seq(Nat) /\ BadCells \subseteq Nat

VARIABLES
  logFile,      \* the cells of the file
  blockOffset,  \* block_offset_ of the writer
  logWritten,   \* history: the records added, and where each begins and ends
  logFate,      \* what befell the file: "intact", "cut" (its end is lost),
                \* "torn" (the writer went on after a part of a record) or
                \* "damaged" (one cell has changed)
  logHole       \* the cell that has changed, or 0

logVars == <<logFile, blockOffset, logWritten, logFate, logHole>>

LogInit ==
  /\ logFile = <<>> /\ blockOffset = 0 /\ logWritten = <<>>
  /\ logFate = "intact" /\ logHole = 0
-----------------------------------------------------------------------------
(* The writer.                                                             *)

(* crc32c::Extend(type, data), which no byte of data is equal to.          *)
Crc(type, data) ==
  100 + FoldLeft(LAMBDA crc, c : (crc * 31 + c + 7) % 65521, type, data)

(* EmitPhysicalRecord: header and fragment.                                *)
Physical(type, data) == <<Crc(type, data), Len(data), type>> \o data

FragmentType(begin, end) ==
  IF begin /\ end THEN kFullType
  ELSE IF begin THEN kFirstType ELSE IF end THEN kLastType ELSE kMiddleType

Smaller(a, b) == IF a < b THEN a ELSE b

(* AddRecord: what is appended for the data left when the block is filled  *)
(* up to offset, and the block_offset_ it leaves.                          *)
RECURSIVE Fragments(_, _, _)
Fragments(data, offset, begin) ==
  LET leftover == kBlockSize - offset
      trailer == IF leftover < kHeaderSize THEN [i \in 1 .. leftover |-> 0] ELSE <<>>
      start == IF leftover < kHeaderSize THEN 0 ELSE offset
      n == Smaller(Len(data), kBlockSize - start - kHeaderSize)
      end == n = Len(data)
      cells == trailer \o Physical(FragmentType(begin, end), SubSeq(data, 1, n))
  IN  IF end THEN [cells |-> cells, offset |-> start + kHeaderSize + n]
      ELSE LET rest == Fragments(SubSeq(data, n + 1, Len(data)), start + kHeaderSize + n, FALSE)
           IN  [rest EXCEPT !.cells = cells \o @]

\* where the first header of a record comes to lie, after a trailer
RecordStart(offset) ==
  Len(logFile) + IF kBlockSize - offset < kHeaderSize THEN kBlockSize - offset ELSE 0

WrittenRecord(data, end) == [data |-> data, start |-> RecordStart(blockOffset), end |-> end]

AddRecord(data) ==
  /\ Len(logWritten) < MaxRecords /\ logFate # "damaged"
  /\ LET put == Fragments(data, blockOffset, TRUE)
     IN  /\ logFile' = logFile \o put.cells
         /\ blockOffset' = put.offset
         /\ logWritten' = Append(logWritten, WrittenRecord(data, Len(logFile) + Len(put.cells)))
  /\ logFate' = IF logFate = "cut" THEN "torn" ELSE logFate
  /\ UNCHANGED logHole

(* An Append to the file fails: a part of the cells is there, and          *)
(* block_offset_ counts the fragment all the same.                         *)
AddRecordFails(data) ==
  /\ Len(logWritten) < MaxRecords /\ logFate = "intact"
  /\ LET put == Fragments(data, blockOffset, TRUE)
     IN  /\ \E n \in 0 .. Len(put.cells) - 1 :
              logFile' = logFile \o SubSeq(put.cells, 1, n)
         /\ blockOffset' = put.offset
  /\ logFate' = "torn"
  /\ UNCHANGED <<logWritten, logHole>>

\* MUTANT of ReopenLog: the writer takes the file to end at a block.
ReopenLogAtBlock ==
  /\ logFate # "damaged"
  /\ blockOffset' = 0
  /\ UNCHANGED <<logFile, logWritten, logFate, logHole>>

(* The file is opened to append to it: Writer(dest, dest_length).          *)
ReopenLog ==
  /\ logFate # "damaged"
  /\ blockOffset' = Len(logFile) % kBlockSize
  /\ UNCHANGED <<logFile, logWritten, logFate, logHole>>

(* A crash loses the end of the file; a disk changes a cell.               *)
CutLog ==
  /\ logFate = "intact"
  /\ \E n \in 0 .. Len(logFile) - 1 :
       /\ logFile' = SubSeq(logFile, 1, n)
       /\ blockOffset' = n % kBlockSize
       /\ logWritten' = SelectSeq(logWritten, LAMBDA w : w.end <= n)
  /\ logFate' = "cut"
  /\ UNCHANGED logHole
DamageLog ==
  /\ logFate = "intact"
  /\ \E i \in DOMAIN logFile, c \in BadCells :
       /\ logFile[i] # c
       /\ logFile' = [logFile EXCEPT ![i] = c]
       /\ logHole' = i
  /\ logFate' = "damaged"
  /\ UNCHANGED <<blockOffset, logWritten>>

LogNext ==
  \/ \E data \in LogRecords : AddRecord(data) \/ AddRecordFails(data)
  \/ ReopenLog \/ CutLog \/ DamageLog
-----------------------------------------------------------------------------
(* The reader: from .. end is what is left of buffer_.                     *)
NewReader(initial) ==
  LET inBlock == initial % kBlockSize
      start == IF inBlock > kBlockSize - (kHeaderSize - 1)
               THEN initial - inBlock + kBlockSize ELSE initial - inBlock
  IN  [from |-> start, end |-> start, eof |-> FALSE, initial |-> initial,
       resyncing |-> initial > 0, inRecord |-> FALSE, scratch |-> <<>>,
       records |-> <<>>, drops |-> {}, done |-> FALSE]

Left(r) == r.end - r.from

(* ReportDrop: bytes before the present position, unless before initial.   *)
ReportDrop(r, bytes) ==
  IF r.from - bytes >= r.initial THEN [r EXCEPT !.drops = @ \cup {<<r.from, bytes>>}] ELSE r
DropBuffer(r) == [r EXCEPT !.from = r.end]

Refill(file, r) ==
  IF Left(r) >= kHeaderSize \/ r.eof THEN r
  ELSE LET end == IF r.end + kBlockSize <= Len(file) THEN r.end + kBlockSize
                  ELSE IF r.end > Len(file) THEN r.end ELSE Len(file)
       IN  [r EXCEPT !.from = r.end, !.end = end, !.eof = end - r.end < kBlockSize]

(* The file ends before the record does: the writer was adding it.         *)
IsCut(r, length) == Left(r) < kHeaderSize \/ (kHeaderSize + length > Left(r) /\ r.eof)

(* Damage drops the rest of the block and is reported.                     *)
Dropped(r) == ReportDrop(DropBuffer(r), Left(r))

(* checksum_ is set where the database and its MANIFEST are read; repair   *)
(* leaves it unset.                                                        *)
ChecksumHolds(crc, type, data) == crc = Crc(type, data)

\* what the buffer begins with
PhysicalRecord(file, r) ==
  LET length == IF Left(r) < kHeaderSize THEN 0 ELSE file[r.from + 2]
      type == file[r.from + 3]
      data == SubSeq(file, r.from + kHeaderSize + 1, r.from + kHeaderSize + length)
      past == [r EXCEPT !.from = @ + kHeaderSize + length]
      Bad(then) == [type |-> kBadRecord, data |-> <<>>, r |-> then]
  IN  IF IsCut(r, length) THEN [type |-> kEof, data |-> <<>>, r |-> DropBuffer(r)]
      ELSE IF kHeaderSize + length > Left(r) THEN Bad(Dropped(r))
      ELSE IF type = kZeroType /\ length = 0 THEN Bad(DropBuffer(r))
      ELSE IF ~ChecksumHolds(file[r.from + 1], type, data) THEN Bad(Dropped(r))
      ELSE IF r.from < r.initial THEN Bad(past)
      ELSE [type |-> type, data |-> data, r |-> past]

(* ReadPhysicalRecord: the next fragment, kEof or kBadRecord.              *)
ReadPhysicalRecord(file, r) == PhysicalRecord(file, Refill(file, r))

(* The body of ReadRecord's loop, what it did with one fragment.           *)
OnFragment(type, data, r) ==
  LET partial == IF r.inRecord /\ r.scratch # <<>> THEN ReportDrop(r, Len(r.scratch)) ELSE r
  IN  CASE type = kFullType ->
             [partial EXCEPT !.records = Append(@, data), !.inRecord = FALSE, !.scratch = <<>>]
        [] type = kFirstType -> [partial EXCEPT !.scratch = data, !.inRecord = TRUE]
        [] type = kMiddleType ->
             IF r.inRecord THEN [r EXCEPT !.scratch = @ \o data] ELSE ReportDrop(r, Len(data))
        [] type = kLastType ->
             IF r.inRecord
             THEN [r EXCEPT !.records = Append(@, r.scratch \o data),
                            !.inRecord = FALSE, !.scratch = <<>>]
             ELSE ReportDrop(r, Len(data))
        [] type = kEof -> [r EXCEPT !.done = TRUE]
        [] type = kBadRecord ->
             IF r.inRecord THEN [ReportDrop(r, Len(r.scratch)) EXCEPT
                                   !.inRecord = FALSE, !.scratch = <<>>]
             ELSE r
        [] OTHER -> [ReportDrop(r, Len(data) + (IF r.inRecord THEN Len(r.scratch) ELSE 0))
                       EXCEPT !.inRecord = FALSE, !.scratch = <<>>]

(* The rest of a record that began before the initial offset is passed     *)
(* over in silence.                                                        *)
AfterFragment(p) ==
  LET synced == [p.r EXCEPT !.resyncing = @ /\ p.type = kMiddleType]
  IN  IF p.r.resyncing /\ p.type \in {kMiddleType, kLastType} THEN synced
      ELSE OnFragment(p.type, p.data, synced)

(* ReadRecord until it returns false.                                      *)
RECURSIVE ReadOn(_, _)
ReadOn(file, r) ==
  LET after == AfterFragment(ReadPhysicalRecord(file, r))
  IN  IF after.done THEN after ELSE ReadOn(file, after)

ReadLog(file, initial) == ReadOn(file, NewReader(initial))
-----------------------------------------------------------------------------
DataOf(written) == [i \in DOMAIN written |-> written[i].data]
FromOffset(initial) == DataOf(SelectSeq(logWritten, LAMBDA w : w.start >= initial))

(* log_reader.h, Reader: a file nothing happened to reads back as it was   *)
(* written, also when it was closed and appended to again, and from any    *)
(* offset the records that begin there or later; nothing is reported.      *)
LogReadsBack ==
  logFate = "intact" =>
    /\ \A initial \in 0 .. Len(logFile) :
         ReadLog(logFile, initial).records = FromOffset(initial)
    /\ ReadLog(logFile, 0).drops = {}

(* ReadRecord, kEof: the writer that dies leaves the records before the    *)
(* last one, which is ignored as a whole, and that is no corruption.       *)
LogCutIsPrefix ==
  logFate = "cut" =>
    LET read == ReadLog(logFile, 0)
    IN  read.records = DataOf(logWritten) /\ read.drops = {}

(* No record is ever made of fragments of several, or of damaged ones:     *)
(* what is read was written, and in that order.                            *)
LogMakesNothingUp ==
  LET read == ReadLog(logFile, 0).records
      Follows == FoldLeft(LAMBDA left, w : IF left # <<>> /\ w.data = Head(left)
                                           THEN Tail(left) ELSE left,
                          read, logWritten)
  IN  Follows = <<>>

BlockOf(i) == (i - 1) \div kBlockSize
Blocks(w) == BlockOf(w.start + 1) .. BlockOf(w.end)

(* ReadPhysicalRecord drops the rest of a block when something in it is    *)
(* damaged: a record with no part in that block is read, and what is lost  *)
(* is reported, but for the last block, where it looks like a cut.         *)
LogLossIsLocal ==
  logFate = "damaged" =>
    LET read == ReadLog(logFile, 0)
        away == SelectSeq(logWritten, LAMBDA w : BlockOf(logHole) \notin Blocks(w))
        Follows == FoldLeft(LAMBDA left, data : IF left # <<>> /\ data = Head(left).data
                                                THEN Tail(left) ELSE left,
                            away, read.records)
    IN  /\ Follows = <<>>
        /\ \/ read.records = DataOf(logWritten)
           \/ read.drops # {}
           \/ (BlockOf(logHole) + 1) * kBlockSize > Len(logFile)

(* log_reader.h: a log whole, cut by the end of its writer, or damaged gives*)
(* what was written and nothing else, and says what it had to leave out.   *)
LogIsRead == LogReadsBack /\ LogCutIsPrefix /\ LogMakesNothingUp /\ LogLossIsLocal
=============================================================================
