---------------------------- MODULE InternalKeys ----------------------------
(***************************************************************************)
(* The keys LevelDB stores (db/dbformat.h): a user key, the sequence       *)
(* number of the write that made the entry, and whether the write put a    *)
(* value or deleted the key.  User keys are numbers here, ordered as the   *)
(* comparator orders them; a value is told apart by the sequence number of *)
(* the write that put it, so an entry is its internal key.                 *)
(***************************************************************************)
EXTENDS Integers, FiniteSets

kTypeDeletion == 0
kTypeValue == 1
\* the highest type, so that a key to seek comes before the entry it names
kValueTypeForSeek == kTypeValue

IKey(key, seq, type) == [key |-> key, seq |-> seq, type |-> type]

(* InternalKeyComparator::Compare(a, b) < 0: user keys ascending, then     *)
(* sequence numbers descending, then types descending.                     *)
Before(a, b) ==
  \/ a.key < b.key
  \/ /\ a.key = b.key
     /\ \/ a.seq > b.seq
        \/ a.seq = b.seq /\ a.type > b.type

NotAfter(a, b) == a = b \/ Before(a, b)

(* LookupKey: where the search for a user key at a snapshot begins.        *)
LookupKey(key, snapshot) == IKey(key, snapshot, kValueTypeForSeek)

(* The entry an iterator over these entries stands on after Seek(target):  *)
(* the first one that is not before it; {} when there is none.             *)
SeekIn(entries, target) ==
  {e \in entries : /\ NotAfter(target, e)
                   /\ \A f \in entries : NotAfter(target, f) => NotAfter(e, f)}

(* What a Get finds in one memtable or table: the entry sought when it is  *)
(* of the user key wanted (MemTable::Get, SaveValue).                      *)
FoundIn(entries, key, snapshot) ==
  {e \in SeekIn(entries, LookupKey(key, snapshot)) : e.key = key}
=============================================================================
