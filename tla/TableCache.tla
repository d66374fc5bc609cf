----------------------------- MODULE TableCache -----------------------------
(***************************************************************************)
(* The cache of open tables (util/cache.cc, db/table_cache.cc): threads    *)
(* that read find a table by its number or open and insert it, hold it     *)
(* while they use it, and release it.  Each call of the cache holds the    *)
(* mutex of its shard, and is one step; two threads that miss the same     *)
(* table both open it.                                                     *)
(***************************************************************************)
EXTENDS Filtering, FiniteSets, Functions

CONSTANTS
  Tables,           \* file numbers, the keys
  Hash,             \* the hash of each key
  kNumShards,       \* shards of the cache, a power of two
  HashSpan,         \* hashes of a shard: the low bits of a hash
  CacheCapacity,    \* open tables the cache is to hold
  kFirstLength,     \* buckets a hash table begins with
  CacheThreads,     \* threads that use tables
  NoHandle          \* NULL

ASSUME CacheAssumption ==
  /\ kNumShards \in Nat \ {0} /\ HashSpan \in Nat \ {0}
  /\ CacheCapacity \in Nat /\ kFirstLength \in Nat \ {0}
  /\ Hash \in [Tables -> 0 .. kNumShards * HashSpan - 1]
  /\ IsFiniteSet(Tables) /\ IsFiniteSet(CacheThreads)

VARIABLES
  shards,    \* shard_: hash table, lists and usage of each
  handles,   \* the LRUHandle at each address, or NoHandle
  users      \* what each thread does: idle, opens a table or uses a handle

cacheVars == <<shards, handles, users>>

Shards == 0 .. kNumShards - 1
Addresses == 1 .. Cardinality(Tables) + Cardinality(CacheThreads)
Handle == [key : Tables, refs : Nat \ {0}, inCache : BOOLEAN]
ASSUME NoHandleAssumption == NoHandle \notin Addresses /\ NoHandle \notin Handle

Shard(hash) == hash \div HashSpan
PerShard == (CacheCapacity + kNumShards - 1) \div kNumShards
IdleUser == [at |-> "idle", table |-> NoHandle, handle |-> NoHandle]

\* charge is 1 for a table, so usage counts entries
CacheInit ==
  /\ shards = [s \in Shards |-> [length |-> kFirstLength, elems |-> 0,
                                 list |-> [b \in 0 .. kFirstLength - 1 |-> {}],
                                 lru |-> <<>>, inUse |-> {}, usage |-> 0]]
  /\ handles = [a \in Addresses |-> NoHandle]
  /\ users = [t \in CacheThreads |-> IdleUser]
-----------------------------------------------------------------------------
(* HandleTable, in a shard c with the handles h.  A bucket is the set of   *)
(* the handles chained in it: their order is seen by nobody.               *)
Bucket(hash, length) == hash % length
BucketOf(c, key) == Bucket(Hash[key], c.length)

\* FindPointer
TableLookup(c, h, key) ==
  LET found == {a \in c.list[BucketOf(c, key)] : h[a].key = key}
  IN  IF found = {} THEN NoHandle ELSE CHOOSE a \in found : TRUE

TableRemove(c, h, key) ==
  IF TableLookup(c, h, key) = NoHandle THEN c
  ELSE [c EXCEPT !.list[BucketOf(c, key)] = @ \ {TableLookup(c, h, key)},
                 !.elems = @ - 1]

NewLength(elems) ==
  LET doubled[i \in 0 .. elems] ==
        IF i = 0 THEN kFirstLength
        ELSE IF doubled[i - 1] < elems THEN 2 * doubled[i - 1] ELSE doubled[i - 1]
  IN  doubled[elems]

Resize(c, h) ==
  LET length == NewLength(c.elems)
      all == UNION {c.list[b] : b \in 0 .. c.length - 1}
  IN  [c EXCEPT !.length = length,
                !.list = [b \in 0 .. length - 1 |->
                            {a \in all : Bucket(Hash[h[a].key], length) = b}]]

TableInsert(c, h, key, a) ==
  LET old == TableLookup(c, h, key)
      put == [c EXCEPT !.list[BucketOf(c, key)] = (@ \ {old}) \cup {a},
                       !.elems = IF old = NoHandle THEN @ + 1 ELSE @]
  IN  IF old = NoHandle /\ put.elems > put.length THEN Resize(put, h) ELSE put
-----------------------------------------------------------------------------
(* LRUCache, with m = [c |-> the shard, h |-> the handles].                *)
LRURemove(c, a) == [c EXCEPT !.lru = Filter(@, Addresses \ {a}), !.inUse = @ \ {a}]

Ref(m, a) ==
  [c |-> IF m.h[a].refs = 1 /\ m.h[a].inCache
         THEN [LRURemove(m.c, a) EXCEPT !.inUse = @ \cup {a}] ELSE m.c,
   h |-> [m.h EXCEPT ![a].refs = @ + 1]]

\* MUTANT of Unref: a handle out of the cache is freed with a user left.
UnrefTooEarly(m, a) ==
  LET refs == m.h[a].refs - 1
  IN  [c |-> IF refs = 1 /\ m.h[a].inCache
             THEN [LRURemove(m.c, a) EXCEPT !.lru = Append(@, a)] ELSE m.c,
       h |-> IF refs = 0 \/ ~m.h[a].inCache THEN [m.h EXCEPT ![a] = NoHandle]
             ELSE [m.h EXCEPT ![a].refs = refs]]

(* Unref: the last reference deletes the table; the cache's own puts the   *)
(* handle at the new end of the LRU list.                                  *)
Unref(m, a) ==
  LET refs == m.h[a].refs - 1
  IN  [c |-> IF refs = 1 /\ m.h[a].inCache
             THEN [LRURemove(m.c, a) EXCEPT !.lru = Append(@, a)] ELSE m.c,
       h |-> IF refs = 0 THEN [m.h EXCEPT ![a] = NoHandle] ELSE [m.h EXCEPT ![a].refs = refs]]

FinishErase(m, a) ==
  IF a = NoHandle THEN m
  ELSE Unref([c |-> [LRURemove(m.c, a) EXCEPT !.usage = @ - 1],
              h |-> [m.h EXCEPT ![a].inCache = FALSE]], a)

EraseKey(m, key) ==
  FinishErase([m EXCEPT !.c = TableRemove(m.c, m.h, key)], TableLookup(m.c, m.h, key))

(* The loops of Insert and Prune: while more than keep are left, the        *)
(* oldest handle goes.                                                     *)
DropOldest(m, keep) ==
  LET dropped[i \in 0 .. m.c.usage] ==
        IF i = 0 THEN m
        ELSE LET x == dropped[i - 1]
             IN  IF x.c.usage > keep /\ x.c.lru # <<>>
                 THEN EraseKey(x, x.h[x.c.lru[1]].key) ELSE x
  IN  dropped[m.c.usage]

(* Insert: a handle under the key already is erased; then the oldest of    *)
(* those no thread uses go, while there are more than the capacity.        *)
InsertHandle(m, key, a) ==
  IF PerShard = 0 THEN [m EXCEPT !.h[a] = [key |-> key, refs |-> 1, inCache |-> FALSE]]
  ELSE LET old == TableLookup(m.c, m.h, key)
           h == [m.h EXCEPT ![a] = [key |-> key, refs |-> 2, inCache |-> TRUE]]
           c == [m.c EXCEPT !.inUse = @ \cup {a}, !.usage = @ + 1]
           put == [c |-> TableInsert(c, h, key, a), h |-> h]
       IN  DropOldest(FinishErase(put, old), PerShard)

\* what a call on the shard of a key does
OnShard(key, Op(_)) ==
  LET s == Shard(Hash[key])
      m == Op([c |-> shards[s], h |-> handles])
  IN  shards' = [shards EXCEPT ![s] = m.c] /\ handles' = m.h
-----------------------------------------------------------------------------
(* FindTable, the Lookup: NewIterator and Get begin with it.               *)
FindTable(t, key) ==
  /\ users[t].at = "idle"
  /\ LET s == Shard(Hash[key])
         a == TableLookup(shards[s], handles, key)
     IN  IF a = NoHandle
         THEN /\ users' = [users EXCEPT ![t] = [at |-> "opens", table |-> key, handle |-> NoHandle]]
              /\ UNCHANGED <<shards, handles>>
         ELSE /\ OnShard(key, LAMBDA m : Ref(m, a))
              /\ users' = [users EXCEPT ![t] = [at |-> "uses", table |-> key, handle |-> a]]

(* FindTable, after the table is opened: it is inserted.  malloc gives any *)
(* address that is free; the lowest stands for them all.                   *)
InsertTable(t) ==
  /\ users[t].at = "opens"
  /\ LET key == users[t].table
         a == CHOOSE x \in Addresses :
                handles[x] = NoHandle /\ \A y \in 1 .. x - 1 : handles[y] # NoHandle
     IN  /\ OnShard(key, LAMBDA m : InsertHandle(m, key, a))
         /\ users' = [users EXCEPT ![t] = [at |-> "uses", table |-> key, handle |-> a]]

(* The table can not be opened: an error is not cached.                    *)
OpenTableFails(t) ==
  /\ users[t].at = "opens"
  /\ users' = [users EXCEPT ![t] = IdleUser]
  /\ UNCHANGED <<shards, handles>>

(* The end of Get, and the cleanup of an iterator (UnrefEntry).            *)
ReleaseTable(t) ==
  /\ users[t].at = "uses"
  /\ OnShard(users[t].table, LAMBDA m : Unref(m, users[t].handle))
  /\ users' = [users EXCEPT ![t] = IdleUser]

(* Evict, when the file is deleted.                                        *)
Evict(key) == OnShard(key, LAMBDA m : EraseKey(m, key)) /\ UNCHANGED users

(* Prune, on each shard in turn.                                           *)
Prune(s) ==
  LET m == DropOldest([c |-> shards[s], h |-> handles], 0)
  IN  /\ shards' = [shards EXCEPT ![s] = m.c]
      /\ handles' = m.h
      /\ UNCHANGED users

CacheNext ==
  \/ \E t \in CacheThreads :
       \/ \E key \in Tables : FindTable(t, key)
       \/ InsertTable(t) \/ OpenTableFails(t) \/ ReleaseTable(t)
  \/ \E key \in Tables : Evict(key)
  \/ \E s \in Shards : Prune(s)
-----------------------------------------------------------------------------
LiveHandles == {a \in Addresses : handles[a] # NoHandle}
UsersOf(a) == Cardinality({t \in CacheThreads : users[t].handle = a})
InShard(s) == {a \in LiveHandles : handles[a].inCache /\ Shard(Hash[handles[a].key]) = s}

(* cache.h, Erase: an entry is kept until all its handles are released;    *)
(* and not longer, unless it is in the cache: no thread's table is deleted *)
(* under it, and none is forgotten.                                        *)
HandlesLiveWhileUsed ==
  /\ \A t \in CacheThreads :
       users[t].at = "uses" => /\ users[t].handle \in LiveHandles
                               /\ handles[users[t].handle].key = users[t].table
  /\ \A a \in LiveHandles : handles[a].refs = UsersOf(a) + (IF handles[a].inCache THEN 1 ELSE 0)

(* cache.cc:20-41: the hash table leads to each handle in the cache, by    *)
(* its bucket, one for a key; a handle in the cache is on the list that    *)
(* its references say, one out of the cache on none; usage counts them.    *)
ListsAgreeWithHandles ==
  \A s \in Shards :
    LET c == shards[s]
    IN  /\ \A a \in InShard(s) : TableLookup(c, handles, handles[a].key) = a
        /\ c.elems = Cardinality(InShard(s)) /\ c.usage = c.elems
        /\ Range(c.lru) = {a \in InShard(s) : handles[a].refs = 1}
        /\ Len(c.lru) = Cardinality(Range(c.lru))
        /\ c.inUse = {a \in InShard(s) : handles[a].refs > 1}

(* Insert: what a thread uses stays in the cache whatever others insert,   *)
(* and after an insertion more than the capacity is held only if all of it *)
(* is in use.                                                              *)
InsertionsSpareWhatIsUsed ==
  [][\A t \in CacheThreads : (users[t].at = "opens" /\ users'[t].at = "uses") =>
       LET s == Shard(Hash[users[t].table])
       IN  /\ \A a \in shards[s].inUse :
                handles[a].key # users[t].table => a \in shards'[s].inUse
           /\ shards'[s].usage > PerShard => shards'[s].lru = <<>>]_cacheVars

(* cache.h: a table stays open as long as somebody reads it, through every *)
(* eviction and insertion by others, and is found or closed after that.    *)
CacheKeepsWhatIsUsed ==
  /\ [](HandlesLiveWhileUsed /\ ListsAgreeWithHandles)
  /\ InsertionsSpareWhatIsUsed
=============================================================================
