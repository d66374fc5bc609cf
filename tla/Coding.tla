------------------------------- MODULE Coding -------------------------------
(***************************************************************************)
(* How LevelDB writes numbers and strings (util/coding.cc), and the two    *)
(* records its log files hold: a write batch (db/write_batch.cc) and an    *)
(* edit of the version (db/version_edit.cc).                               *)
(*                                                                         *)
(* Bytes are numbers and a group of a varint has 7 bits.  Integers are     *)
(* narrower than 32 and 64 bits; as there, no width is a multiple of 7.    *)
(***************************************************************************)
EXTENDS Integers, Sequences, FiniteSets, SequencesExt

CONSTANTS
  Width32,        \* bits of uint32_t, a multiple of 8
  Width64,        \* bits of uint64_t, a multiple of 8
  kNumLevelsOfEdit, \* config::kNumLevels
  BatchKeys,      \* keys and values of writes, sequences of bytes
  BatchSequences, \* sequence numbers of batches
  MaxBatch,       \* bound: writes in a batch
  EditFields,     \* what may be set in an edit, see SetField
  MaxFields       \* bound: fields of an edit and the one before

ASSUME CodingAssumption ==
  /\ Width32 \in Nat \ {0} /\ Width64 \in Nat \ {0}
  /\ Width32 % 8 = 0 /\ Width64 % 8 = 0
  /\ MaxBatch < 2 ^ Width32

VARIABLES
  batch,      \* rep_ of two write batches
  batchOps,   \* history: the writes each was given
  edit,       \* a VersionEdit that is filled and then encoded
  decoded,    \* the VersionEdit it is decoded into
  decodeOk,   \* whether that went well
  sentEdit    \* history: what decoded was before, and the edit that was sent

batchVars == <<batch, batchOps>>
editVars == <<edit, decoded, decodeOk, sentEdit>>
-----------------------------------------------------------------------------
(* Numbers.                                                                *)
Least(S) == CHOOSE n \in S : \A m \in S : n <= m
SuffixFrom(s, i) == SubSeq(s, i, Len(s))
Weighted(base, digits) == [i \in DOMAIN digits |-> digits[i] * base ^ (i - 1)]
NumberWith(base, digits) == FoldLeft(+, 0, Weighted(base, digits))

PutFixed(width, v) == [i \in 1 .. width \div 8 |-> (v \div 256 ^ (i - 1)) % 256]
DecodeFixed(width, bytes) == NumberWith(256, SubSeq(bytes, 1, width \div 8))

Groups(width) == (width + 6) \div 7
VarintLength(v) == Least({n \in 1 .. Groups(Width64) : v < 128 ^ n})

(* EncodeVarint: seven bits to a byte, the high bit while more follow.     *)
PutVarint(v) ==
  LET n == VarintLength(v)
  IN  [i \in 1 .. n |-> ((v \div 128 ^ (i - 1)) % 128) + (IF i < n THEN 128 ELSE 0)]

Failure == [ok |-> FALSE, value |-> 0, rest |-> <<>>]
Success(v, rest) == [ok |-> TRUE, value |-> v, rest |-> rest]

\* MUTANT of GetVarint: one group less is read.
GetVarintShort(width, input) ==
  LET last == {i \in 1 .. Groups(width) - 1 : i <= Len(input) /\ input[i] < 128}
      n == Least(last)
  IN  IF last = {} THEN Failure
      ELSE Success(NumberWith(128, [i \in 1 .. n |-> input[i] % 128]) % 2 ^ width, SuffixFrom(input, n + 1))

(* GetVarint: ends at a byte without the high bit, and fails when the      *)
(* input, or the groups of the width, end before; bits past the width are  *)
(* lost.                                                                   *)
GetVarint(width, input) ==
  LET last == {i \in 1 .. Groups(width) : i <= Len(input) /\ input[i] < 128}
      n == Least(last)
  IN  IF last = {} THEN Failure
      ELSE Success(NumberWith(128, [i \in 1 .. n |-> input[i] % 128]) % 2 ^ width, SuffixFrom(input, n + 1))

PutLengthPrefixedSlice(s) == PutVarint(Len(s)) \o s

\* the slice that a length was read for
SliceAfter(len) ==
  IF ~len.ok \/ len.value > Len(len.rest) THEN Failure
  ELSE Success(SubSeq(len.rest, 1, len.value), SuffixFrom(len.rest, len.value + 1))
GetLengthPrefixedSlice(input) == SliceAfter(GetVarint(Width32, input))
-----------------------------------------------------------------------------
(* Write batches.                                                          *)
kHeaderOfBatch == (Width64 + Width32) \div 8
TypeOfValue == 1
TypeOfDeletion == 0

ClearedBatch == [i \in 1 .. kHeaderOfBatch |-> 0]
BatchSequence(rep) == DecodeFixed(Width64, rep)
BatchCount(rep) == DecodeFixed(Width32, SuffixFrom(rep, Width64 \div 8 + 1))
SetBatchSequence(rep, seq) == PutFixed(Width64, seq) \o SuffixFrom(rep, Width64 \div 8 + 1)
SetBatchCount(rep, n) ==
  SubSeq(rep, 1, Width64 \div 8) \o PutFixed(Width32, n) \o SuffixFrom(rep, kHeaderOfBatch + 1)
Records(rep) == SuffixFrom(rep, kHeaderOfBatch + 1)

PutOp(key, value) == [type |-> TypeOfValue, key |-> key, value |-> value]
DeleteOp(key) == [type |-> TypeOfDeletion, key |-> key, value |-> <<>>]
Ops == {PutOp(k, v) : k, v \in BatchKeys} \cup {DeleteOp(k) : k \in BatchKeys}

(* WriteBatch::Put and Delete.                                             *)
AddToBatch(rep, op) ==
  SetBatchCount(rep, BatchCount(rep) + 1)
    \o <<op.type>> \o PutLengthPrefixedSlice(op.key)
    \o (IF op.type = TypeOfValue THEN PutLengthPrefixedSlice(op.value) ELSE <<>>)

(* WriteBatchInternal::Append.                                             *)
AppendBatch(dst, src) == SetBatchCount(dst, BatchCount(dst) + BatchCount(src)) \o Records(src)

(* One record of Iterate: the handler is called as soon as it is read.     *)
ReadOp(input) ==
  LET key == GetLengthPrefixedSlice(Tail(input))
      value == GetLengthPrefixedSlice(key.rest)
  IN  IF Head(input) = TypeOfValue /\ key.ok /\ value.ok
      THEN Success(PutOp(key.value, value.value), value.rest)
      ELSE IF Head(input) = TypeOfDeletion /\ key.ok
      THEN Success(DeleteOp(key.value), key.rest)
      ELSE Failure

RECURSIVE ReadOps(_, _), ReadOpsAfter(_, _)
ReadOpsAfter(read, found) ==
  IF read.ok THEN ReadOps(read.rest, Append(found, read.value)) ELSE [ok |-> FALSE, ops |-> found]
ReadOps(input, found) ==
  IF input = <<>> THEN [ok |-> TRUE, ops |-> found] ELSE ReadOpsAfter(ReadOp(input), found)

\* MUTANT of Iterate: the count is not compared.
IterateUncounted(rep) ==
  IF Len(rep) < kHeaderOfBatch THEN [ok |-> FALSE, ops |-> <<>>]
  ELSE ReadOps(Records(rep), <<>>)

(* WriteBatch::Iterate: what the handler is called with, and the status;   *)
(* the count is compared after the last call.                              *)
Iterate(rep) ==
  IF Len(rep) < kHeaderOfBatch THEN [ok |-> FALSE, ops |-> <<>>]
  ELSE LET read == ReadOps(Records(rep), <<>>)
       IN  [read EXCEPT !.ok = @ /\ Len(read.ops) = BatchCount(rep)]

(* WriteBatchInternal::InsertInto: each write has the next sequence.       *)
Numbered(it, first) ==
  [ok |-> it.ok, entries |-> [i \in DOMAIN it.ops |-> [seq |-> first + i - 1, op |-> it.ops[i]]]]
InsertInto(rep) == Numbered(Iterate(rep), BatchSequence(rep))

Batches == {1, 2}
BatchInit == batch = [b \in Batches |-> ClearedBatch] /\ batchOps = [b \in Batches |-> <<>>]
WriteToBatch(b, op) ==
  /\ Len(batchOps[b]) < MaxBatch
  /\ batch' = [batch EXCEPT ![b] = AddToBatch(@, op)]
  /\ batchOps' = [batchOps EXCEPT ![b] = Append(@, op)]
AppendToBatch(dst, src) ==
  /\ dst # src /\ Len(batchOps[dst]) + Len(batchOps[src]) <= MaxBatch
  /\ batch' = [batch EXCEPT ![dst] = AppendBatch(@, batch[src])]
  /\ batchOps' = [batchOps EXCEPT ![dst] = @ \o batchOps[src]]
ClearBatch(b) ==
  /\ batch' = [batch EXCEPT ![b] = ClearedBatch]
  /\ batchOps' = [batchOps EXCEPT ![b] = <<>>]
GiveSequence(b, seq) ==
  /\ batch' = [batch EXCEPT ![b] = SetBatchSequence(@, seq)]
  /\ UNCHANGED batchOps
BatchNext ==
  \E b \in Batches :
    \/ \E op \in Ops : WriteToBatch(b, op)
    \/ \E src \in Batches : AppendToBatch(b, src)
    \/ ClearBatch(b)
    \/ \E seq \in BatchSequences : GiveSequence(b, seq)

(* A batch, also one that others were appended to, puts into the memtable  *)
(* just what was written, in that order, with consecutive sequences.       *)
BatchReadsBack ==
  \A b \in Batches : \E done \in {InsertInto(batch[b])} :
    /\ done.ok /\ BatchCount(batch[b]) = Len(batchOps[b])
    /\ [i \in DOMAIN done.entries |-> done.entries[i].op] = batchOps[b]
    /\ \A i \in DOMAIN done.entries : done.entries[i].seq = BatchSequence(batch[b]) + i - 1

(* A batch that lost its end is refused wherever it was cut, and what was  *)
(* put into the memtable before that was noticed is a beginning of it.     *)
BatchCutIsNoticed ==
  \A b \in Batches : \A n \in 0 .. Len(batch[b]) - 1 :
    LET it == Iterate(SubSeq(batch[b], 1, n))
    IN  ~it.ok /\ IsPrefix(it.ops, batchOps[b])
-----------------------------------------------------------------------------
(* Edits.  scalars holds the fields that are set, of the four numbers and  *)
(* the comparator's name.                                                  *)
TagOf == [comparator |-> 1, log |-> 2, nextFile |-> 3, lastSequence |-> 4, prevLog |-> 9]
ScalarOrder == <<"comparator", "log", "prevLog", "nextFile", "lastSequence">>
TagOfPointer == 5
TagOfDeletedFile == 6
TagOfNewFile == 7

NoEdit == [scalars |-> <<>>, pointers |-> <<>>, deleted |-> {}, files |-> <<>>]

(* VersionEdit::Clear leaves the compaction pointers.                      *)
ClearEdit(e) == [NoEdit EXCEPT !.pointers = e.pointers]

(* The setters: a field is [kind, ...].                                    *)
SetScalar(e, name, v) ==
  [e EXCEPT !.scalars = [n \in DOMAIN @ \cup {name} |-> IF n = name THEN v ELSE @[n]]]
SetField(e, f) ==
  CASE f.kind = "pointer" -> [e EXCEPT !.pointers = Append(@, <<f.level, f.key>>)]
    [] f.kind = "deleted" -> [e EXCEPT !.deleted = @ \cup {<<f.level, f.number>>}]
    [] f.kind = "file" -> [e EXCEPT !.files = Append(@, <<f.level, f.meta>>)]
    [] OTHER -> SetScalar(e, f.kind, f.value)

\* a DeletedFileSet is iterated in the order of its pairs
PairBefore(p, q) == p[1] < q[1] \/ (p[1] = q[1] /\ p[2] < q[2])
EncodeScalar(e, name) ==
  IF name \notin DOMAIN e.scalars THEN <<>>
  ELSE PutVarint(TagOf[name]) \o
       (IF name = "comparator" THEN PutLengthPrefixedSlice(e.scalars[name])
        ELSE PutVarint(e.scalars[name]))
EncodePointer(p) ==
  PutVarint(TagOfPointer) \o PutVarint(p[1]) \o PutLengthPrefixedSlice(p[2])
EncodeDeleted(d) == PutVarint(TagOfDeletedFile) \o PutVarint(d[1]) \o PutVarint(d[2])
EncodeFile(f) ==
  PutVarint(TagOfNewFile) \o PutVarint(f[1]) \o PutVarint(f[2].number) \o PutVarint(f[2].size)
    \o PutLengthPrefixedSlice(f[2].smallest) \o PutLengthPrefixedSlice(f[2].largest)

\* the encoded fields, one after another
Encodings(e) ==
  LET deleted == SetToSortSeq(e.deleted, PairBefore)
  IN  SelectSeq([i \in DOMAIN ScalarOrder |-> EncodeScalar(e, ScalarOrder[i])], LAMBDA s : s # <<>>)
        \o [i \in DOMAIN e.pointers |-> EncodePointer(e.pointers[i])]
        \o [i \in DOMAIN deleted |-> EncodeDeleted(deleted[i])]
        \o [i \in DOMAIN e.files |-> EncodeFile(e.files[i])]
EncodeTo(e) == FlattenSeq(Encodings(e))

GetLevel(input) ==
  LET v == GetVarint(Width32, input)
  IN  IF v.ok /\ v.value < kNumLevelsOfEdit THEN v ELSE Failure

(* The fields of one tag, as a setter's argument.                          *)
DecodeScalar(name, input) ==
  LET v == IF name = "comparator" THEN GetLengthPrefixedSlice(input)
           ELSE GetVarint(Width64, input)
  IN  IF v.ok THEN Success([kind |-> name, value |-> v.value], v.rest) ELSE Failure
DecodePointer(input) ==
  LET level == GetLevel(input)  key == GetLengthPrefixedSlice(level.rest)
  IN  IF level.ok /\ key.ok
      THEN Success([kind |-> "pointer", level |-> level.value, key |-> key.value], key.rest)
      ELSE Failure
DecodeDeleted(input) ==
  LET level == GetLevel(input)  number == GetVarint(Width64, level.rest)
  IN  IF level.ok /\ number.ok
      THEN Success([kind |-> "deleted", level |-> level.value, number |-> number.value], number.rest)
      ELSE Failure
DecodeFile(input) ==
  LET level == GetLevel(input)
      number == GetVarint(Width64, level.rest)
      size == GetVarint(Width64, number.rest)
      smallest == GetLengthPrefixedSlice(size.rest)
      largest == GetLengthPrefixedSlice(smallest.rest)
  IN  IF level.ok /\ number.ok /\ size.ok /\ smallest.ok /\ largest.ok
      THEN Success([kind |-> "file", level |-> level.value,
                    meta |-> [number |-> number.value, size |-> size.value,
                              smallest |-> smallest.value, largest |-> largest.value]], largest.rest)
      ELSE Failure
DecodeField(tag, input) ==
  CASE tag = TagOfPointer -> DecodePointer(input)
    [] tag = TagOfDeletedFile -> DecodeDeleted(input)
    [] tag = TagOfNewFile -> DecodeFile(input)
    [] \E name \in DOMAIN TagOf : TagOf[name] = tag ->
         DecodeScalar(CHOOSE name \in DOMAIN TagOf : TagOf[name] = tag, input)
    [] OTHER -> Failure

(* The loop of DecodeFrom: it ends where no tag can be read, well if the   *)
(* input ends there.                                                       *)
RECURSIVE DecodeFields(_, _), DecodeFieldsAfter(_, _)
DecodeFieldsAfter(e, field) ==
  IF field.ok THEN DecodeFields(SetField(e, field.value), field.rest) ELSE [ok |-> FALSE, edit |-> e]
DecodeFields(e, input) ==
  LET tag == GetVarint(Width32, input)
  IN  IF ~tag.ok THEN [ok |-> input = <<>>, edit |-> e]
      ELSE DecodeFieldsAfter(e, DecodeField(tag.value, tag.rest))
DecodeFrom(e, bytes) == DecodeFields(ClearEdit(e), bytes)

EditInit ==
  /\ edit = NoEdit /\ decoded = NoEdit /\ decodeOk = TRUE
  /\ sentEdit = [before |-> NoEdit, edit |-> NoEdit]

FieldCount(e) == Cardinality(DOMAIN e.scalars) + Len(e.pointers) + Cardinality(e.deleted) + Len(e.files)
FillEdit(f) ==
  /\ FieldCount(edit) + FieldCount(decoded) < MaxFields
  /\ edit' = SetField(edit, f)
  /\ UNCHANGED <<decoded, decodeOk, sentEdit>>

(* An edit is encoded and decoded into one that may have been used before, *)
(* and the next one is a new object.                                       *)
SendEdit ==
  /\ \E read \in {DecodeFrom(decoded, EncodeTo(edit))} :
       decoded' = read.edit /\ decodeOk' = read.ok
  /\ sentEdit' = [before |-> decoded, edit |-> edit]
  /\ edit' = NoEdit
EditNext == (\E f \in EditFields : FillEdit(f)) \/ SendEdit

(* What an edit says is what is read, and of an edit that was there before *)
(* nothing is left but its compaction pointers, which Clear forgets.       *)
EditReadsBack ==
  /\ decodeOk
  /\ decoded = [sentEdit.edit EXCEPT !.pointers = sentEdit.before.pointers \o @]

(* An edit that lost its end is refused, unless the cut is between two of  *)
(* its fields: then it is read as the edit of the fields before.           *)
EditCutIsNoticed ==
  LET fields == Encodings(edit)
      Whole(n) == {k \in 0 .. Len(fields) : n = Len(FlattenSeq(SubSeq(fields, 1, k)))}
  IN  \A n \in 0 .. Len(EncodeTo(edit)) - 1 :
        \E read \in {DecodeFrom(NoEdit, SubSeq(EncodeTo(edit), 1, n))} :
          /\ read.ok <=> Whole(n) # {}
          /\ \E k \in 0 .. Len(fields) : Encodings(read.edit) = SubSeq(fields, 1, k)

(* What a log record and a MANIFEST record are made of: a batch and an edit*)
(* read back as they were, and are refused when their end is missing.      *)
UpdatesReadBack ==
  BatchReadsBack /\ BatchCutIsNoticed /\ EditReadsBack /\ EditCutIsNoticed
=============================================================================
