----------------------------- MODULE Iterators -----------------------------
(***************************************************************************)
(* The iterator a user of the database has (db/db_iter.cc), over the one   *)
(* that merges those of the memtables, files and levels (table/merger.cc), *)
(* in both directions and with turns between them, while writes go on.     *)
(* A child is a sequence of files, each a set of entries: one for a        *)
(* memtable or a file of level 0, those of the level for a lower one.      *)
(***************************************************************************)
EXTENDS InternalKeys, Sequences

CONSTANTS
  IterKeys,        \* user keys
  IterVersions,    \* what an iterator may be made of: mems, the entries of each
                   \* memtable, the live one first; level0, those of each file
                   \* of level 0; lower, for each other level its files in order
  IterSnapshots,   \* the sequence numbers it may be made at
  MaxIterWrites,   \* bound: writes after it was made
  NoEntry          \* no entry, child or key

VARIABLES
  runs,       \* the files of each child
  snapshot,   \* sequence_
  merge,      \* at: where each child stands; current_; direction_
  dbIter,     \* valid_, direction_, saved_key_, saved_value_
  shown       \* history: the key a map at the snapshot would stand at

iterVars == <<runs, snapshot, merge, dbIter, shown>>

Child == DOMAIN runs

(* NewInternalIterator and Version::AddIterators: a child per memtable and *)
(* level-0 file, and one per lower level that has files.                   *)
AddIterators(version) ==
  LET alone(entries) == [i \in DOMAIN entries |-> <<entries[i]>>]
  IN  alone(version.mems) \o alone(version.level0)
        \o SelectSeq(version.lower, LAMBDA files : files # << >>)

IterInit ==
  /\ \E version \in IterVersions : runs = AddIterators(version)
  /\ snapshot \in IterSnapshots
  /\ merge = [at |-> [c \in Child |-> NoEntry], current |-> NoEntry, forward |-> TRUE]
  /\ dbIter = [valid |-> FALSE, forward |-> TRUE, key |-> NoEntry, value |-> NoEntry]
  /\ shown = NoEntry
-----------------------------------------------------------------------------
(* The children.                                                           *)
FirstOf(entries) ==
  IF entries = {} THEN NoEntry ELSE CHOOSE e \in entries : \A f \in entries : NotAfter(e, f)
LastOf(entries) ==
  IF entries = {} THEN NoEntry ELSE CHOOSE e \in entries : \A f \in entries : NotAfter(f, e)

EntriesOf(c) == UNION {runs[c][i] : i \in DOMAIN runs[c]}

(* LevelFileNumIterator: the first file whose largest key is not before    *)
(* the target, 0 when there is none.                                       *)
FileFrom(c, target) ==
  LET ends == {i \in DOMAIN runs[c] :
                 runs[c][i] # {} /\ NotAfter(target, LastOf(runs[c][i]))}
  IN  IF ends = {} THEN 0 ELSE CHOOSE i \in ends : \A j \in ends : i <= j
FileOf(c, e) == CHOOSE i \in DOMAIN runs[c] : e \in runs[c][i]

\* where a child stands at its ends and after Seek (NewConcatenatingIterator)
From(c, target) ==
  LET i == FileFrom(c, target)
  IN  IF i = 0 THEN NoEntry ELSE FirstOf({f \in runs[c][i] : NotAfter(target, f)})
FirstIn(c) == FirstOf(runs[c][1])
LastIn(c) == LastOf(runs[c][Len(runs[c])])

(* Next and Prev of a child: within its file, then at an end of the next   *)
(* or previous one.                                                        *)
After(c, e) ==
  LET i == FileOf(c, e)
      later == FirstOf({f \in runs[c][i] : Before(e, f)})
  IN  IF later = NoEntry /\ i < Len(runs[c]) THEN FirstOf(runs[c][i + 1]) ELSE later
Preceding(c, e) ==
  LET i == FileOf(c, e)
      earlier == LastOf({f \in runs[c][i] : Before(f, e)})
  IN  IF earlier = NoEntry /\ i > 1 THEN LastOf(runs[c][i - 1]) ELSE earlier

\* MUTANT of PrevOfChild: a child without an entry from key on is left there.
PrevOfChildUnlessPast(c, key) ==
  LET at == From(c, key) IN IF at = NoEntry THEN NoEntry ELSE Preceding(c, at)

(* MergingIterator::Prev, of a child that is not the current one, at a     *)
(* turn: before the first entry from key on, or at its last entry.         *)
PrevOfChild(c, key) ==
  LET at == From(c, key) IN IF at = NoEntry THEN LastIn(c) ELSE Preceding(c, at)

(* MergingIterator::Next, the same: after the key.                         *)
NextOfChild(c, key) ==
  LET at == From(c, key) IN IF at = key THEN After(c, at) ELSE at
-----------------------------------------------------------------------------
(* MergingIterator: FindSmallest and FindLargest choose the current child. *)
At(m) == m.at[m.current]
Valid(m) == m.current # NoEntry

FindSmallest(at) ==
  [at |-> at, forward |-> TRUE,
   current |-> LET some == {c \in Child : at[c] # NoEntry}
               IN  IF some = {} THEN NoEntry
                   ELSE CHOOSE c \in some : \A d \in some : NotAfter(at[c], at[d])]
FindLargest(at) ==
  [at |-> at, forward |-> FALSE,
   current |-> LET some == {c \in Child : at[c] # NoEntry}
               IN  IF some = {} THEN NoEntry
                   ELSE CHOOSE c \in some : \A d \in some : NotAfter(at[d], at[c])]

MergeFirst == FindSmallest([c \in Child |-> FirstIn(c)])
MergeLast == FindLargest([c \in Child |-> LastIn(c)])
MergeSeek(target) == FindSmallest([c \in Child |-> From(c, target)])
MergeNext(m) ==
  FindSmallest([c \in Child |-> IF c = m.current THEN After(c, At(m))
                                ELSE IF m.forward THEN m.at[c] ELSE NextOfChild(c, At(m))])
MergePrev(m) ==
  FindLargest([c \in Child |-> IF c = m.current THEN Preceding(c, At(m))
                               ELSE IF m.forward THEN PrevOfChild(c, At(m)) ELSE m.at[c]])
-----------------------------------------------------------------------------
(* DBIter.                                                                 *)
Forward(m, valid) ==
  [m |-> m, d |-> [valid |-> valid, forward |-> TRUE, key |-> NoEntry, value |-> NoEntry]]

\* whether an entry is of the key to pass over
Hides(e, skip) == skip # NoEntry /\ e.key <= skip

(* FindNextUserEntry from m on; skip is the key to pass over, if any.      *)
RECURSIVE FindNextUserEntry(_, _)
FindNextUserEntry(m, skip) ==
  IF ~Valid(m) THEN Forward(m, FALSE)
  ELSE LET e == At(m) IN
       IF e.seq > snapshot THEN FindNextUserEntry(MergeNext(m), skip)
       ELSE IF e.type = kTypeDeletion THEN FindNextUserEntry(MergeNext(m), e.key)
       ELSE IF Hides(e, skip) THEN FindNextUserEntry(MergeNext(m), skip)
       ELSE Forward(m, TRUE)

\* an entry of an earlier key, when a value has been found
EndsPrev(e, found) == e.seq <= snapshot /\ found # NoEntry /\ e.key < found.key

(* FindPrevUserEntry from m on: found is the newest value seen of the key  *)
(* that is passed backwards, which a deletion seen after it takes away.    *)
RECURSIVE FindPrevUserEntry(_, _)
FindPrevUserEntry(m, found) ==
  IF ~Valid(m) \/ EndsPrev(At(m), found)
  THEN IF found = NoEntry THEN Forward(m, FALSE)
       ELSE [m |-> m, d |-> [valid |-> TRUE, forward |-> FALSE,
                             key |-> found.key, value |-> found.seq]]
  ELSE LET e == At(m)
       IN  FindPrevUserEntry(MergePrev(m), IF e.seq > snapshot THEN found
                                           ELSE IF e.type = kTypeDeletion THEN NoEntry ELSE e)

\* Prev, the turn: back to before the present key; not valid when nothing is
RECURSIVE BeforeUserKey(_, _)
BeforeUserKey(m, key) ==
  IF ~Valid(m) \/ At(m).key < key THEN m ELSE BeforeUserKey(MergePrev(m), key)

AllEntries == UNION {EntriesOf(c) : c \in Child}
Live == {e \in AllEntries :
           /\ e.seq <= snapshot /\ e.type = kTypeValue
           /\ \A f \in AllEntries : f.key = e.key /\ f.seq <= snapshot => f.seq <= e.seq}

PresentKey == IF dbIter.forward THEN At(merge).key ELSE dbIter.key

Become(found, wanted) ==
  /\ merge' = found.m /\ dbIter' = found.d
  /\ shown' = wanted
  /\ UNCHANGED <<runs, snapshot>>

DBIterSeek(key) ==
  Become(FindNextUserEntry(MergeSeek(LookupKey(key, snapshot)), NoEntry),
         FirstOf({e \in Live : e.key >= key}))
DBIterSeekToFirst == Become(FindNextUserEntry(MergeFirst, NoEntry), FirstOf(Live))
DBIterSeekToLast == Become(FindPrevUserEntry(MergeLast, NoEntry), LastOf(Live))

DBIterNext ==
  /\ dbIter.valid
  /\ LET turned == IF Valid(merge) THEN MergeNext(merge) ELSE MergeFirst
         wanted == FirstOf({e \in Live : e.key > PresentKey})
     IN  IF dbIter.forward THEN Become(FindNextUserEntry(merge, At(merge).key), wanted)
         ELSE Become(FindNextUserEntry(turned, dbIter.key), wanted)

DBIterPrev ==
  /\ dbIter.valid
  /\ LET before == BeforeUserKey(merge, At(merge).key)
         wanted == LastOf({e \in Live : e.key < PresentKey})
     IN  IF ~dbIter.forward THEN Become(FindPrevUserEntry(merge, NoEntry), wanted)
         ELSE IF ~Valid(before)
         THEN Become([m |-> before, d |-> [dbIter EXCEPT !.valid = FALSE, !.key = NoEntry]], wanted)
         ELSE Become(FindPrevUserEntry(before, NoEntry), wanted)

(* A write goes to the memtable, which is a child: its number is above the *)
(* snapshot's.                                                             *)
WriteUnderIterator(key, type) ==
  LET seqs == {e.seq : e \in AllEntries} \cup {snapshot}
      seq == 1 + CHOOSE s \in seqs : \A t \in seqs : t <= s
  IN  /\ Cardinality({e \in EntriesOf(1) : e.seq > snapshot}) < MaxIterWrites
      /\ runs' = [runs EXCEPT ![1][1] = @ \cup {IKey(key, seq, type)}]
      /\ UNCHANGED <<snapshot, merge, dbIter, shown>>

IterNext ==
  \/ \E key \in IterKeys : DBIterSeek(key)
  \/ DBIterSeekToFirst \/ DBIterSeekToLast \/ DBIterNext \/ DBIterPrev
  \/ \E key \in IterKeys, type \in {kTypeDeletion, kTypeValue} : WriteUnderIterator(key, type)
-----------------------------------------------------------------------------
(* iterator.h, db.h NewIterator: wherever the user moves, forwards and     *)
(* backwards in any order, the iterator stands where one over the map at   *)
(* the snapshot would, and shows that map's key and value, whatever is     *)
(* written meanwhile.                                                      *)
IteratorShowsTheMap ==
  LET value == IF dbIter.forward THEN At(merge).seq ELSE dbIter.value
  IN  IF dbIter.valid THEN shown # NoEntry /\ PresentKey = shown.key /\ value = shown.seq
      ELSE shown = NoEntry

(* merger.cc, Next and Prev: the comments say that a child that is not the *)
(* current one is after the present entry already when the direction is    *)
(* forward, and before it when it is backward; no entry that was there     *)
(* when the iterator was made is between.                                  *)
ChildrenStandAround ==
  Valid(merge) =>
    \A c \in Child \ {merge.current} :
      LET key == At(merge)  at == merge.at[c]
          old == {e \in EntriesOf(c) : e.seq <= snapshot}
      IN  IF merge.forward
          THEN /\ at # NoEntry => Before(key, at)
               /\ \A e \in old : Before(key, e) => at # NoEntry /\ NotAfter(at, e)
          ELSE /\ at # NoEntry => Before(at, key)
               /\ \A e \in old : Before(e, key) => at # NoEntry /\ NotAfter(e, at)

(* db.h, NewIterator: in any sequence of moves the iterator shows the map, *)
(* and the iterators it is merged from stand on both sides of it.          *)
IteratorsAgree == IteratorShowsTheMap /\ ChildrenStandAround
=============================================================================
