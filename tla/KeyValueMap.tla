---------------------------- MODULE KeyValueMap ----------------------------
(***************************************************************************)
(* What include/leveldb/db.h promises of a database: a map from keys to    *)
(* values, and snapshots that keep the contents they were taken of.  The   *)
(* value of the n-th write is n.  Levels is shown to implement it:         *)
(* flushes, compactions and moves of files are steps nobody can see.       *)
(***************************************************************************)
EXTENDS Integers, Sequences, Functions

CONSTANTS Keys,        \* the user keys
          Absent       \* what a read of a key without a value returns

VARIABLES count,       \* how many writes were made
          snapshots,   \* for each snapshot held, oldest first, the writes before it
          contents     \* what a read returns for each key, now (at count) and at
                       \* each snapshot held

kvVars == <<count, snapshots, contents>>

Held(n, s) == {n} \cup Range(s)

KVInit ==
  /\ count = 0
  /\ snapshots = << >>
  /\ contents = [n \in {0} |-> [k \in Keys |-> Absent]]

(* A write changes what is read now, and nothing read at a snapshot.       *)
Write(k, value) ==
  /\ count' = count + 1
  /\ UNCHANGED snapshots
  /\ contents' = [n \in Held(count', snapshots) |->
                    IF n = count' THEN [contents[count] EXCEPT ![k] = value]
                    ELSE contents[n]]
Put(k) == Write(k, count + 1)
Delete(k) == Write(k, Absent)

GetSnapshot ==
  /\ snapshots' = Append(snapshots, count)
  /\ UNCHANGED <<count, contents>>

ReleaseSnapshot(i) ==
  /\ snapshots' = SubSeq(snapshots, 1, i - 1)
                    \o SubSeq(snapshots, i + 1, Len(snapshots))
  /\ UNCHANGED count
  /\ contents' = Restrict(contents, Held(count, snapshots'))

KVNext ==
  \/ \E k \in Keys : Put(k) \/ Delete(k)
  \/ GetSnapshot
  \/ \E i \in DOMAIN snapshots : ReleaseSnapshot(i)

KVSpec == KVInit /\ [][KVNext]_kvVars
=============================================================================
