------------------------------ MODULE SSTable ------------------------------
(***************************************************************************)
(* A table file: how it is built from sorted keys (table/table_builder.cc, *)
(* block_builder.cc, filter_block.cc, util/bloom.cc) and how it is read    *)
(* (table/table.cc, block.cc, two_level_iterator.cc).                      *)
(*                                                                         *)
(* An internal key is the sequence of its bytes and, as its last element,  *)
(* the packed sequence number and type.  kMaxByte stands for 0xff.  The    *)
(* offset of an entry in its block is its number; offsets in the file      *)
(* count cells, for the filters are cut by them.                           *)
(***************************************************************************)
EXTENDS Integers, Sequences, FiniteSets, SequencesExt

CONSTANTS
  kMaxByte,        \* the largest byte
  kMaxTag,         \* kMaxSequenceNumber packed with kValueTypeForSeek
  TableKeys,       \* the internal keys a table may hold
  TableOptionSets, \* block_size, block_restart_interval, filter_policy or not
  MaxTableKeys,    \* bound: keys added
  kFilterBase,     \* cells of the file a filter is for
  kProbes,         \* k_ of the Bloom filter
  NoBlock          \* no data block

VARIABLES
  tableOptions,  \* options
  builder,       \* TableBuilder::Rep
  tableState,    \* building, then a file written, opened or refused
  tableFilter,   \* whether the table read has a filter
  damaged,       \* parts of the file that can not be read any more
  tableIter,     \* index_iter_, data_iter_ with its block, and status_
  tableShown     \* history: the key an iterator over all keys would be at

tableVars == <<tableOptions, builder, tableState, tableFilter, damaged, tableIter, tableShown>>

\* the parts of a file after its data blocks, which are numbered from 1
kFilterBlock == -1
kMetaIndexBlock == -2
kIndexBlock == -3
kFooter == -4
-----------------------------------------------------------------------------
(* Comparators.                                                            *)
Tag(k) == k[Len(k)]
UserKey(k) == SubSeq(k, 1, Len(k) - 1)
CommonPrefix(a, b) ==
  LET same == {n \in 0 .. Len(a) : n <= Len(b) /\ SubSeq(a, 1, n) = SubSeq(b, 1, n)}
  IN  CHOOSE n \in same : \A m \in same : m <= n

\* Slice::compare: bytes, and a prefix comes first
BytesBefore(a, b) ==
  LET n == CommonPrefix(a, b) IN n < Len(b) /\ (n < Len(a) => a[n + 1] < b[n + 1])
KeyBefore(a, b) ==
  \/ BytesBefore(UserKey(a), UserKey(b))
  \/ UserKey(a) = UserKey(b) /\ Tag(a) > Tag(b)

\* BytewiseComparator::FindShortestSeparator and FindShortSuccessor
ShortestSeparator(start, limit) ==
  LET n == CommonPrefix(start, limit)
  IN  IF n < Len(start) /\ n < Len(limit) /\ start[n + 1] < kMaxByte
         /\ start[n + 1] + 1 < limit[n + 1]
      THEN Append(SubSeq(start, 1, n), start[n + 1] + 1) ELSE start
ShortSuccessor(key) ==
  LET low == {i \in DOMAIN key : key[i] # kMaxByte}
  IN  IF low = {} THEN key
      ELSE LET i == CHOOSE i \in low : \A j \in low : i <= j
           IN  Append(SubSeq(key, 1, i - 1), key[i] + 1)

(* InternalKeyComparator::FindShortestSeparator and FindShortSuccessor: a  *)
(* user key that has become shorter and larger gets the earliest number.   *)
WithUserKey(key, user) ==
  IF Len(user) < Len(key) - 1 /\ BytesBefore(UserKey(key), user)
  THEN Append(user, kMaxTag) ELSE key

\* MUTANT of Separator: the key is shortened without a look at the next one.
SeparatorIgnoringLimit(key, limit) == WithUserKey(key, ShortSuccessor(UserKey(key)))

Separator(key, limit) == WithUserKey(key, ShortestSeparator(UserKey(key), UserKey(limit)))
Successor(key) == WithUserKey(key, ShortSuccessor(UserKey(key)))
-----------------------------------------------------------------------------
(* BlockBuilder.                                                           *)
EmptyBlock == [entries |-> <<>>, restarts |-> <<1>>, counter |-> 0, lastKey |-> <<>>]

BlockAdd(b, key, value, interval) ==
  LET restart == b.counter >= interval
      shared == IF restart THEN 0 ELSE CommonPrefix(b.lastKey, key)
  IN  [entries |-> Append(b.entries, [shared |-> shared, delta |-> SubSeq(key, shared + 1, Len(key)),
                                      value |-> value]),
       restarts |-> IF restart THEN Append(b.restarts, Len(b.entries) + 1) ELSE b.restarts,
       counter |-> IF restart THEN 1 ELSE b.counter + 1,
       lastKey |-> key]

\* CurrentSizeEstimate, with the lengths of an entry and a value one cell each
SizeEstimate(b) ==
  FoldLeft(LAMBDA size, e : size + 4 + Len(e.delta), 1 + Len(b.restarts), b.entries)
-----------------------------------------------------------------------------
(* FilterBlockBuilder and BloomFilterPolicy, on user keys.                 *)
kHashSpan == 256
kMinBits == 16
BloomHash(user) == FoldLeft(LAMBDA h, c : (h * 37 + c * 11 + 5) % kHashSpan, 3, user)
Probes(user, bits) ==
  LET h == BloomHash(user)
      delta == h \div 32 + (h % 32) * 8
  IN  {((h + j * delta) % kHashSpan) % bits : j \in 0 .. kProbes - 1}

FilterBits(n) == IF n * 2 < kMinBits THEN kMinBits ELSE ((n * 2 + 7) \div 8) * 8
CreateFilter(keys) ==
  LET bits == FilterBits(Len(keys))
  IN  [bits |-> bits, set |-> UNION {Probes(UserKey(keys[i]), bits) : i \in DOMAIN keys}]

EmptyFilter == [bits |-> 0, set |-> {}]
GenerateFilter(f) ==
  [keys |-> <<>>, filters |-> Append(f.filters, IF f.keys = <<>> THEN EmptyFilter
                                                ELSE CreateFilter(f.keys))]

(* StartBlock: the filters up to the one this offset is in; the first gets *)
(* the keys, those after it are empty.                                     *)
RECURSIVE StartBlock(_, _)
StartBlock(f, offset) ==
  IF offset \div kFilterBase > Len(f.filters) THEN StartBlock(GenerateFilter(f), offset) ELSE f

FilterFinish(f) == IF f.keys = <<>> THEN f ELSE GenerateFilter(f)

BloomMayMatch(user, filter) ==
  filter.bits > 0 /\ Probes(user, filter.bits) \subseteq filter.set

KeyMayMatch(f, offset, key) ==
  LET index == offset \div kFilterBase + 1
  IN  index > Len(f.filters) \/ BloomMayMatch(UserKey(key), f.filters[index])
-----------------------------------------------------------------------------
(* TableBuilder.                                                           *)
NewBuilder ==
  [data |-> EmptyBlock, index |-> EmptyBlock, blocks |-> <<>>, offset |-> 0,
   pending |-> FALSE, lastKey |-> <<>>, keys |-> <<>>,
   filter |-> [keys |-> <<>>, filters |-> <<>>]]

TableInit ==
  /\ tableOptions \in TableOptionSets
  /\ builder = NewBuilder
  /\ tableState = "building" /\ tableFilter = FALSE /\ damaged = {}
  /\ tableIter = [index |-> NoBlock, block |-> NoBlock, data |-> NoBlock, error |-> FALSE]
  /\ tableShown = <<>>

(* The index entry of the last block, whose key is at or after its last    *)
(* one and before the next block's; index blocks restart at every entry.   *)
AddIndexEntry(r, key) ==
  IF ~r.pending THEN r
  ELSE [r EXCEPT !.index = BlockAdd(@, key, Len(r.blocks), 1), !.pending = FALSE]

\* Flush: WriteBlock of the data block, if it is not empty
FlushBlock(r) ==
  IF r.data.entries = <<>> THEN r
  ELSE LET offset == r.offset + SizeEstimate(r.data)
       IN  [r EXCEPT !.blocks = Append(@, [data |-> r.data, offset |-> r.offset]),
                     !.offset = offset, !.data = EmptyBlock, !.pending = TRUE,
                     !.filter = IF tableOptions.filter THEN StartBlock(@, offset) ELSE @]

AddKey(key) ==
  /\ tableState = "building" /\ Len(builder.keys) < MaxTableKeys
  /\ builder.keys # <<>> => KeyBefore(builder.lastKey, key)
  /\ LET indexed == AddIndexEntry(builder, Separator(builder.lastKey, key))
         added == [indexed EXCEPT
                     !.lastKey = key, !.keys = Append(@, key),
                     !.filter.keys = IF tableOptions.filter THEN Append(@, key) ELSE @,
                     !.data = BlockAdd(@, key, key, tableOptions.interval)]
     IN  builder' = IF SizeEstimate(added.data) >= tableOptions.blockSize
                    THEN FlushBlock(added) ELSE added
  /\ UNCHANGED <<tableOptions, tableState, tableFilter, damaged, tableIter, tableShown>>

(* Finish: the last data block, the filters, the index and the footer.     *)
FinishTable ==
  /\ tableState = "building" /\ builder.keys # <<>>
  /\ LET r == FlushBlock(builder)
         indexed == AddIndexEntry(r, Successor(r.lastKey))
     IN  builder' = [indexed EXCEPT !.filter = FilterFinish(@)]
  /\ tableState' = "written"
  /\ UNCHANGED <<tableOptions, tableFilter, damaged, tableIter, tableShown>>

(* A part of the file goes bad or is cut off: a block can not be read      *)
(* (ReadBlock), a footer has no magic number.  Without a filter policy     *)
(* nobody reads the filter and what names it.                              *)
DamageBlock ==
  /\ tableState = "written" /\ damaged = {}
  /\ \E i \in DOMAIN builder.blocks \cup {kIndexBlock, kFooter}
             \cup (IF tableOptions.filter THEN {kFilterBlock, kMetaIndexBlock} ELSE {}) :
       damaged' = {i}
  /\ UNCHANGED <<tableOptions, builder, tableState, tableFilter, tableIter, tableShown>>

(* ReadMeta, ReadFilter: what names the filter is read, then the filter;   *)
(* errors mean that there is none.                                         *)
ReadFilter == kFilterBlock \notin damaged
ReadMeta == tableOptions.filter /\ kMetaIndexBlock \notin damaged /\ ReadFilter

\* Footer::DecodeFrom, of a file that is long enough
FooterHolds == kFooter \notin damaged

(* Table::Open.                                                            *)
OpenTable ==
  /\ tableState = "written"
  /\ LET opened == FooterHolds /\ kIndexBlock \notin damaged
     IN  /\ tableState' = IF opened THEN "open" ELSE "refused"
         /\ tableFilter' = (opened /\ ReadMeta)
  /\ UNCHANGED <<tableOptions, builder, damaged, tableIter, tableShown>>
-----------------------------------------------------------------------------
(* Block::Iter, on block b: the entry it is at, the restart point it takes *)
(* that to be after, the key, and the entry that is next.                  *)
IterOf(b) == [b |-> b, at |-> 0, restart |-> 0, key |-> <<>>, next |-> 1]
IsAt(it) == it.at > 0
ValueOf(it) == it.b.entries[it.at].value
AtRestart(it, i) == [it EXCEPT !.key = <<>>, !.restart = i, !.next = it.b.restarts[i]]

RECURSIVE RestartOf(_, _, _)
RestartOf(b, restart, at) ==
  IF restart < Len(b.restarts) /\ b.restarts[restart + 1] < at
  THEN RestartOf(b, restart + 1, at) ELSE restart

Nowhere(it) == [it EXCEPT !.at = 0, !.restart = Len(it.b.restarts)]
CorruptionError(it) == [Nowhere(it) EXCEPT !.key = <<>>]

ParseNextKey(it) ==
  IF it.next > Len(it.b.entries) THEN Nowhere(it)
  ELSE LET e == it.b.entries[it.next]
       IN  IF Len(it.key) < e.shared THEN CorruptionError(it)
           ELSE [it EXCEPT !.at = it.next, !.next = it.next + 1,
                           !.key = SubSeq(@, 1, e.shared) \o e.delta,
                           !.restart = RestartOf(it.b, @, it.next)]

RECURSIVE ParseUntilNext(_, _)
ParseUntilNext(it, end) ==
  LET p == ParseNextKey(it) IN IF IsAt(p) /\ p.next < end THEN ParseUntilNext(p, end) ELSE p

\* Prev: from the last restart point before the present entry
PrevKey(it) ==
  LET points == {i \in 1 .. it.restart : it.b.restarts[i] < it.at}
  IN  IF points = {} THEN Nowhere(it)
      ELSE ParseUntilNext(AtRestart(it, CHOOSE i \in points : \A j \in points : j <= i), it.at)

NotBeforeRestart(key, target) == ~KeyBefore(key, target)

(* Seek: binary search for the last restart point before the target, whose *)
(* key must be all in the entry (0 when it is not), then entry by entry.   *)
RECURSIVE RestartFor(_, _, _, _)
RestartFor(b, target, left, right) ==
  IF left >= right THEN left
  ELSE LET mid == (left + right + 1) \div 2
       IN  IF b.entries[b.restarts[mid]].shared # 0 THEN 0
           ELSE IF NotBeforeRestart(b.entries[b.restarts[mid]].delta, target)
           THEN RestartFor(b, target, left, mid - 1) ELSE RestartFor(b, target, mid, right)

RECURSIVE ParseUntilKey(_, _)
ParseUntilKey(it, target) ==
  LET p == ParseNextKey(it)
  IN  IF IsAt(p) /\ KeyBefore(p.key, target) THEN ParseUntilKey(p, target) ELSE p

SeekKey(it, target) ==
  LET restart == RestartFor(it.b, target, 1, Len(it.b.restarts))
  IN  IF restart = 0 THEN CorruptionError(it) ELSE ParseUntilKey(AtRestart(it, restart), target)
FirstKey(it) == ParseNextKey(AtRestart(it, 1))
LastKey(it) == ParseUntilNext(AtRestart(it, Len(it.b.restarts)), Len(it.b.entries) + 1)
-----------------------------------------------------------------------------
(* TwoLevelIterator over the index and BlockReader; a block that can not   *)
(* be read gives an iterator that is nowhere and has an error.             *)
InitDataBlock(t) ==
  LET n == ValueOf(t.index)
      none == [t EXCEPT !.block = NoBlock, !.data = NoBlock,
                        !.error = @ \/ t.block \in damaged]
  IN  IF ~IsAt(t.index) THEN none
      ELSE IF t.block = n THEN t
      ELSE [none EXCEPT !.block = n, !.data = IterOf(builder.blocks[n].data)]

Readable(t) == t.block # NoBlock /\ t.block \notin damaged
HasKey(t) == Readable(t) /\ IsAt(t.data)
MoveData(t, Move(_)) == IF Readable(t) THEN [t EXCEPT !.data = Move(@)] ELSE t
MoveIndex(t, Move(_)) == InitDataBlock([t EXCEPT !.index = Move(@)])

\* SkipEmptyDataBlocksForward and -Backward
RECURSIVE SkipForward(_)
SkipForward(t) ==
  IF HasKey(t) THEN t
  ELSE IF ~IsAt(t.index) THEN InitDataBlock(t)
  ELSE SkipForward(MoveData(MoveIndex(t, ParseNextKey), FirstKey))
RECURSIVE SkipBackward(_)
SkipBackward(t) ==
  IF HasKey(t) THEN t
  ELSE IF ~IsAt(t.index) THEN InitDataBlock(t)
  ELSE SkipBackward(MoveData(MoveIndex(t, PrevKey), LastKey))

NewTableIter == [tableIter EXCEPT !.index = IF @ = NoBlock THEN IterOf(builder.index) ELSE @]

TableSeekFrom(t, target) ==
  LET Sought(it) == SeekKey(it, target) IN SkipForward(MoveData(MoveIndex(t, Sought), Sought))

Shows(t, wanted) ==
  /\ tableState = "open"
  /\ tableIter' = t
  /\ tableShown' = wanted
  /\ UNCHANGED <<tableOptions, builder, tableState, tableFilter, damaged>>

InOrder(i) == IF i \in DOMAIN builder.keys THEN builder.keys[i] ELSE <<>>
NotBefore(target) ==
  InOrder(1 + Cardinality({i \in DOMAIN builder.keys : KeyBefore(builder.keys[i], target)}))
PlaceOf(key) == 1 + Cardinality({i \in DOMAIN builder.keys : KeyBefore(builder.keys[i], key)})

TableSeek(target) == Shows(TableSeekFrom(NewTableIter, target), NotBefore(target))
TableSeekToFirst ==
  Shows(SkipForward(MoveData(MoveIndex(NewTableIter, FirstKey), FirstKey)), InOrder(1))
TableSeekToLast ==
  Shows(SkipBackward(MoveData(MoveIndex(NewTableIter, LastKey), LastKey)),
        InOrder(Len(builder.keys)))
TableNext ==
  /\ HasKey(tableIter)
  /\ Shows(SkipForward(MoveData(tableIter, ParseNextKey)), InOrder(PlaceOf(tableIter.data.key) + 1))
TablePrev ==
  /\ HasKey(tableIter)
  /\ Shows(SkipBackward(MoveData(tableIter, PrevKey)), InOrder(PlaceOf(tableIter.data.key) - 1))

(* InternalGet: the entry the saver is called with, <<>> for none, NoBlock *)
(* for an error.                                                           *)
InternalGet(target) ==
  LET index == SeekKey(IterOf(builder.index), target)
      block == builder.blocks[ValueOf(index)]
      data == SeekKey(IterOf(block.data), target)
  IN  IF ~IsAt(index) \/ (tableFilter /\ ~KeyMayMatch(builder.filter, block.offset, target))
      THEN <<>>
      ELSE IF ValueOf(index) \in damaged THEN NoBlock
      ELSE IF IsAt(data) THEN ValueOf(data) ELSE <<>>

ApproximateOffsetOf(key) ==
  LET index == SeekKey(IterOf(builder.index), key)
  IN  IF IsAt(index) THEN builder.blocks[ValueOf(index)].offset ELSE builder.offset

TableStep ==
  \/ \E key \in TableKeys : AddKey(key) \/ TableSeek(key)
  \/ FinishTable \/ DamageBlock \/ OpenTable
  \/ TableSeekToFirst \/ TableSeekToLast \/ TableNext \/ TablePrev
-----------------------------------------------------------------------------
(* table.h, iterator.h: an iterator over the table stands where one over   *)
(* the sorted keys would, with the key put together from the prefixes and  *)
(* the value that was added with it; a block that can not be read is       *)
(* passed over, and status() then says so.                                 *)
TableReadsBack ==
  tableIter.index # NoBlock =>
    LET readable == UNION {{builder.blocks[n].data.entries[i].value :
                              i \in DOMAIN builder.blocks[n].data.entries} :
                           n \in DOMAIN builder.blocks \ damaged}
        status == tableIter.error \/ tableIter.block \in damaged
    IN  /\ HasKey(tableIter) =>
             /\ tableIter.data.key = ValueOf(tableIter.data)
             /\ tableShown \in readable => tableIter.data.key = tableShown
        /\ ~HasKey(tableIter) => tableShown \notin readable
        /\ tableShown \notin readable \cup {<<>>} => status

(* FilterPolicy, InternalGet: a key that is in the table is never missed,  *)
(* through index, filter and block, at any sequence number asked for, with *)
(* its block unreadable or without the filter: it is found or an error.    *)
GetMissesNothing ==
  tableState = "open" /\ tableIter.index = NoBlock =>
    \A target \in TableKeys :
      LET there == NotBefore(target)
      IN  there # <<>> /\ UserKey(there) = UserKey(target) =>
           InternalGet(target) \in {there} \cup (IF damaged \cap DOMAIN builder.blocks = {} THEN {} ELSE {NoBlock})

(* table_builder.cc:42-48: the key of a block in the index is not before   *)
(* any entry of the block and before all of the next; offsets follow keys. *)
IndexSeparatesBlocks ==
  tableState = "written" =>
    /\ \A n \in DOMAIN builder.blocks :
         LET key == builder.index.entries[n].delta
             entries == builder.blocks[n].data.entries
         IN  /\ ~KeyBefore(key, entries[Len(entries)].value)
             /\ n < Len(builder.blocks) =>
                  KeyBefore(key, builder.blocks[n + 1].data.entries[1].value)
    /\ \A a, b \in TableKeys :
         KeyBefore(a, b) => ApproximateOffsetOf(a) <= ApproximateOffsetOf(b)

(* A key of a table is found, by an iterator and by Get, through prefixes, *)
(* index and filter, or the error is told.                                 *)
TableIsRead == TableReadsBack /\ GetMissesNothing /\ IndexSeparatesBlocks
=============================================================================
