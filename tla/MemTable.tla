------------------------------ MODULE MemTable ------------------------------
(***************************************************************************)
(* A memtable: the skip list that one writer at a time adds entries to     *)
(* while others read it without a lock (db/skiplist.h, db/memtable.cc).    *)
(* One step is one load or store of a shared pointer.  Entries are numbers *)
(* in the order of the comparator.                                         *)
(*                                                                         *)
(* The links are stored with release and loaded with acquire, so a reader  *)
(* that follows a link sees what was stored before it.  max_height_ has no *)
(* barrier: a reader may load any value it ever had.                       *)
(***************************************************************************)
EXTENDS Integers, FiniteSets

CONSTANTS
  Entries,       \* what is inserted, a set of numbers
  head,          \* head_, before every entry
  Null,          \* NULL, "considered infinite": after every entry
  kMaxHeight,    \* levels a node may have
  Readers,       \* threads that read
  Garbage,       \* what a new node's links hold before they are stored
  Idle,          \* nothing is inserted or searched
  MaxReads       \* bound: reads each reader makes

\* what the variables of an Insert hold: key, height, the loop's level, prev
InsertOf == [key : Entries, height : 1 .. kMaxHeight, level : 0 .. kMaxHeight, stored : BOOLEAN,
             prev : UNION {[0 .. h - 1 -> Entries \cup {head}] : h \in 1 .. kMaxHeight}]

ASSUME MemTableAssumption ==
  /\ Entries \subseteq Int /\ head \in Int /\ Null \in Int
  /\ head < Null
  /\ \A k \in Entries : head < k /\ k < Null
  /\ kMaxHeight \in Nat \ {0} /\ MaxReads \in Nat
  /\ Garbage \notin Int
  /\ Idle \notin InsertOf

VARIABLES
  next,       \* next_[level] of each node: a node, Null or Garbage
  linked,     \* the nodes that a link of each level leads to
  maxHeight,  \* max_height_
  heights,    \* the values max_height_ had
  insert,     \* the Insert under way, or Idle
  inserted,   \* history: entries whose Insert has returned
  reader,     \* per reader: the search under way, or Idle
  node,       \* per reader: node_ of its iterator
  answer,     \* history: what its last read asked for, and when
  reads       \* per reader: reads made

memVars == <<next, linked, maxHeight, heights, insert, inserted, reader, node, answer, reads>>

Height == 0 .. kMaxHeight - 1
Nodes(l) == {head} \cup linked[l]

MemInit ==
  /\ next = [n \in Entries \cup {head} |->
               [l \in Height |-> IF n = head THEN Null ELSE Garbage]]
  /\ linked = [l \in Height |-> {}]
  /\ maxHeight = 1 /\ heights = {1}
  /\ insert = Idle /\ inserted = {}
  /\ reader = [r \in Readers |-> Idle]
  /\ node = [r \in Readers |-> Null]
  /\ answer = [r \in Readers |-> Idle]
  /\ reads = [r \in Readers |-> 0]
-----------------------------------------------------------------------------
(* The writer.                                                             *)

\* MUTANT of KeyIsAfterNode: an equal entry is passed.
KeyIsAfterEqualNode(key, n) == n \in Entries /\ n <= key

(* KeyIsAfterNode(key, n): the walk to key goes on past n.                 *)
KeyIsAfterNode(key, n) == n \in Entries /\ n < key

(* FindGreaterOrEqual(key, prev): on each level there is, the node where   *)
(* the walk stops because the next one is not before the key.              *)
IsPrev(p, key, l) == p \in Nodes(l) /\ p < key /\ ~KeyIsAfterNode(key, next[p][l])
FindPrev(key, l) == CHOOSE p \in Nodes(l) : IsPrev(p, key, l)

(* Insert up to its loop: a new node of any height; max_height_ is raised  *)
(* before a link of the new levels is there.                               *)
BeginInsert(key, height) ==
  /\ insert = Idle
  /\ key \notin inserted
  /\ insert' = [key |-> key, height |-> height, level |-> 0, stored |-> FALSE,
                prev |-> [l \in 0 .. height - 1 |->
                            IF l < maxHeight THEN FindPrev(key, l) ELSE head]]
  /\ maxHeight' = IF height > maxHeight THEN height ELSE maxHeight
  /\ heights' = heights \cup {maxHeight'}
  /\ UNCHANGED <<next, linked, inserted, reader, node, answer, reads>>

\* MUTANT of StoreLink: the link is copied from the node's own level below.
StoreLinkOfLevelBelow ==
  /\ insert # Idle /\ ~insert.stored
  /\ next' = [next EXCEPT ![insert.key][insert.level] =
                next[insert.prev[0]][insert.level]]
  /\ insert' = [insert EXCEPT !.stored = TRUE]
  /\ UNCHANGED <<linked, maxHeight, heights, inserted, reader, node, answer, reads>>

(* The new node's link on a level, without a barrier: nobody sees it yet.  *)
StoreLink ==
  /\ insert # Idle /\ ~insert.stored
  /\ next' = [next EXCEPT ![insert.key][insert.level] =
                next[insert.prev[insert.level]][insert.level]]
  /\ insert' = [insert EXCEPT !.stored = TRUE]
  /\ UNCHANGED <<linked, maxHeight, heights, inserted, reader, node, answer, reads>>

(* The link to the new node, which is in the list of this level now; after *)
(* the last level Insert returns.                                          *)
Publish ==
  /\ insert # Idle /\ insert.stored
  /\ next' = [next EXCEPT ![insert.prev[insert.level]][insert.level] = insert.key]
  /\ linked' = [linked EXCEPT ![insert.level] = @ \cup {insert.key}]
  /\ IF insert.level + 1 = insert.height
     THEN insert' = Idle /\ inserted' = inserted \cup {insert.key}
     ELSE /\ insert' = [insert EXCEPT !.level = @ + 1, !.stored = FALSE]
          /\ UNCHANGED inserted
  /\ UNCHANGED <<maxHeight, heights, reader, node, answer, reads>>
-----------------------------------------------------------------------------
(* The readers.                                                            *)

(* A search begins at the head, on the highest level there was at some     *)
(* time.                                                                   *)
BeginSearch(r, op, target) ==
  /\ reader[r] = Idle /\ reads[r] < MaxReads
  /\ \E h \in heights :
       reader' = [reader EXCEPT ![r] = [op |-> op, target |-> target, at |-> head,
                                        level |-> h - 1, known |-> inserted]]
  /\ reads' = [reads EXCEPT ![r] = @ + 1]
  /\ UNCHANGED <<next, linked, maxHeight, heights, insert, inserted, node, answer>>

(* Iterator::Seek (FindGreaterOrEqual), Prev (FindLessThan), SeekToLast    *)
(* (FindLast).                                                             *)
Seek(r, target) == BeginSearch(r, "seek", target)
SeekPrev(r) == node[r] # Null /\ BeginSearch(r, "prev", node[r])
SeekToLast(r) == BeginSearch(r, "last", Null)

GoesOn(s, n) == IF s.op = "last" THEN n # Null ELSE KeyIsAfterNode(s.target, n)

\* what a search returns: Seek the next node, the others the last one before it
Result(s, n) == IF s.op = "seek" THEN n ELSE IF s.at = head THEN Null ELSE s.at

(* One turn of the loop of a search: one link is loaded.                   *)
Search(r) ==
  /\ reader[r] # Idle
  /\ LET s == reader[r]
         n == next[s.at][s.level]
     IN  \/ /\ GoesOn(s, n)
            /\ reader' = [reader EXCEPT ![r].at = n]
            /\ UNCHANGED <<node, answer>>
         \/ /\ ~GoesOn(s, n) /\ s.level > 0
            /\ reader' = [reader EXCEPT ![r].level = @ - 1]
            /\ UNCHANGED <<node, answer>>
         \/ /\ ~GoesOn(s, n) /\ s.level = 0
            /\ reader' = [reader EXCEPT ![r] = Idle]
            /\ node' = [node EXCEPT ![r] = Result(s, n)]
            /\ answer' = [answer EXCEPT ![r] = [op |-> s.op, target |-> s.target,
                                                known |-> s.known]]
  /\ UNCHANGED <<next, linked, maxHeight, heights, insert, inserted, reads>>

(* Iterator::SeekToFirst, Next: one load, of the first node or of the one  *)
(* after the present one.                                                  *)
Load(r, from) ==
  /\ reader[r] = Idle /\ reads[r] < MaxReads
  /\ node' = [node EXCEPT ![r] = next[from][0]]
  /\ answer' = [answer EXCEPT ![r] = [op |-> "seek", target |-> from + 1,
                                      known |-> inserted]]
  /\ reads' = [reads EXCEPT ![r] = @ + 1]
  /\ UNCHANGED <<next, linked, maxHeight, heights, insert, inserted, reader>>
SeekToFirst(r) == Load(r, head)
NextNode(r) == node[r] # Null /\ Load(r, node[r])

MemNext ==
  \/ \E key \in Entries, height \in 1 .. kMaxHeight : BeginInsert(key, height)
  \/ StoreLink
  \/ Publish
  \/ \E r \in Readers, target \in Entries : Seek(r, target)
  \/ \E r \in Readers :
       SeekPrev(r) \/ SeekToLast(r) \/ Search(r) \/ SeekToFirst(r) \/ NextNode(r)

MemSpec == MemInit /\ [][MemNext]_memVars
-----------------------------------------------------------------------------
(* skiplist.h, Thread safety: a reader never follows a link of a node that *)
(* was not stored yet, whatever height it took the list to have.           *)
LinksAreInitialized ==
  \A r \in Readers : reader[r] # Idle => next[reader[r].at][reader[r].level] # Garbage

(* Each level is the list of its nodes in order, and a node on a level is  *)
(* on those below, so that a search that goes down goes on.                *)
ListsAreSorted ==
  \A l \in Height :
    /\ \A n \in Nodes(l) : next[n][l] \in linked[l] \cup {Null} /\ n < next[n][l]
    /\ \A n \in Nodes(l), m \in linked[l] : n < m => next[n][l] <= m
    /\ l > 0 => linked[l] \subseteq linked[l - 1]

(* A read finds every entry whose Insert had returned when the read began, *)
(* or one in between, inserted since: none is passed over, on the way      *)
(* forwards, backwards or to the end.                                      *)
ReadsFindWhatWasThere ==
  \A r \in Readers : answer[r] # Idle =>
    LET a == answer[r]  n == node[r]
    IN  /\ n \in linked[0] \cup {Null}
        /\ a.op = "seek" => n >= a.target /\ \A k \in a.known : k >= a.target => k >= n
        /\ a.op = "prev" => /\ n # Null => n < a.target
                            /\ \A k \in a.known : k < a.target => n # Null /\ k <= n
        /\ a.op = "last" => \A k \in a.known : n # Null /\ k <= n

(* skiplist.h, Thread safety: while the writer links a node, every link a  *)
(* reader comes to was stored, and each level is a list in order.          *)
SearchesAreSafe == LinksAreInitialized /\ ListsAreSorted
=============================================================================
