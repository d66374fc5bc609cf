-------------------------- MODULE LevelDBPartsProofs ------------------------
(***************************************************************************)
(* Proofs about what threads, processes and restarts share below the       *)
(* database itself, for any values of the constants.                       *)
(*   MemTable: while the writer links a node, searches are safe, and a     *)
(*     read finds what was there when it began.                            *)
(*   Arena: nothing that is handed out overlaps anything else, and nodes   *)
(*     are aligned.                                                        *)
(*   TableCache: a table stays open as long as somebody reads it, and is   *)
(*     found or closed after that.                                         *)
(*   PosixEnv: background work is run once and in order, the limits on     *)
(*     mapped and kept files hold, and one thread of a process holds the   *)
(*     lock of a database.                                                 *)
(*   Repair: nothing it can read is destroyed, and all of it is in the new *)
(*     version.                                                            *)
(*   FileNames: every name made is read as the file it was made for.       *)
(***************************************************************************)
EXTENDS MemTable, Arena, TableCache, PosixEnv, Repair, FileNames, FilteringProofs,
        FiniteSetTheorems, FunctionTheorems, SequenceTheorems,
        WellFoundedInduction, TLAPS

-----------------------------------------------------------------------------
(***************************************************************************)
(* The memtable and the arena.                                             *)
(***************************************************************************)
AllNodes == Entries \cup {head}
SearchOf == [op : {"seek", "prev", "last"}, target : Entries \cup {Null}, at : AllNodes,
             level : Height, known : SUBSET Entries]
AnswerOf == [op : {"seek", "prev", "last"}, target : Int, known : SUBSET Entries]

(* The types of the variables.                                             *)
MemTypeOK ==
  /\ next \in [AllNodes -> [Height -> Entries \cup {Null, Garbage}]]
  /\ linked \in [Height -> SUBSET Entries]
  /\ maxHeight \in 1 .. kMaxHeight /\ heights \subseteq 1 .. kMaxHeight
  /\ insert \in InsertOf \cup {Idle}
  /\ inserted \subseteq Entries
  /\ reader \in [Readers -> SearchOf \cup {Idle}]
  /\ node \in [Readers -> Entries \cup {Null}]
  /\ answer \in [Readers -> AnswerOf \cup {Idle}]
  /\ reads \in [Readers -> Nat]

(* The links of a level that lead to a node, or lead on from it.  The      *)
(* place of an entry on a level exists: a walk comes to it.                *)
LinksInOrder(l) ==
  /\ \A n \in Nodes(l) : n < next[n][l] /\ next[n][l] \in linked[l] \cup {Null}
  /\ \A n \in Nodes(l), m \in linked[l] : n < m => next[n][l] <= m
PlaceExists(l) ==
  \A k \in Entries : \E p \in Nodes(l) : p < k /\ k <= next[p][l]

ListInv ==
  /\ \A l \in Height : LinksInOrder(l) /\ PlaceExists(l)
  /\ \A l, m \in Height : l <= m => linked[m] \subseteq linked[l]
  /\ \A l \in Height : l >= maxHeight => linked[l] = {}

(* The Insert under way: linked on the levels done, and on each of the     *)
(* others its place is after prev.                                         *)
PrevIsPlace(p, l) == p \in Nodes(l) /\ p < insert.key /\ insert.key < next[p][l]
InsertInv ==
  /\ inserted \subseteq linked[0]
  /\ linked[0] \subseteq inserted \cup (IF insert = Idle THEN {} ELSE {insert.key})
  /\ insert # Idle =>
       /\ insert.height <= maxHeight /\ insert.level < insert.height
       /\ insert.prev \in [0 .. insert.height - 1 -> AllNodes]
       /\ \A l \in Height : insert.key \in linked[l] <=> l < insert.level
       /\ \A l \in insert.level .. insert.height - 1 : PrevIsPlace(insert.prev[l], l)
       /\ insert.stored => next[insert.key][insert.level] =
                             next[insert.prev[insert.level]][insert.level]

(* A search stands on a node of its level, before what it looks for.       *)
SearchInv(s) ==
  /\ s.at \in Nodes(s.level) /\ s.at < s.target
  /\ s.op = "last" <=> s.target = Null
  /\ s.known \subseteq linked[0]
ReaderInv ==
  \A r \in Readers : /\ reader[r] # Idle => SearchInv(reader[r])
                     /\ node[r] \in linked[0] \cup {Null}

MemInv == MemTypeOK /\ ListInv /\ InsertInv /\ ReaderInv /\ ReadsFindWhatWasThere

\* The numbers that stand for nodes (Key in skiplist.h, with both its ends).
LEMMA NodeNumbers ==
  /\ AllNodes \subseteq Int /\ Null \in Int /\ head < Null
  /\ \A k \in Entries : head < k /\ k < Null /\ k # head /\ k # Null
  /\ 0 \in Height /\ Height \subseteq Nat /\ head \notin Entries /\ Null \notin Entries
BY MemTableAssumption DEF AllNodes, Height

\* At first there is no node, and an empty level leads from head_ to NULL.
LEMMA MemInitHolds == MemInit => MemInv
<1> SUFFICES ASSUME MemInit PROVE MemInv
  OBVIOUS
<1>1. next \in [AllNodes -> [Height -> Entries \cup {Null, Garbage}]]
  BY DEF MemInit, AllNodes
<1>2. MemTypeOK
  BY <1>1, MemTableAssumption DEF MemInit, MemTypeOK
<1>3. \A l \in Height : Nodes(l) = {head} /\ linked[l] = {} /\ next[head][l] = Null
  BY DEF MemInit, Nodes
<1>4. ListInv
  <2>1. ASSUME NEW l \in Height PROVE LinksInOrder(l)
    BY <1>3, NodeNumbers DEF LinksInOrder
  <2>2. ASSUME NEW l \in Height, NEW k \in Entries
        PROVE  \E p \in Nodes(l) : p < k /\ k <= next[p][l]
    <3>1. head < k /\ k <= Null /\ head \in Nodes(l)
      BY <1>3, NodeNumbers DEF AllNodes
    <3> QED
      BY <1>3, <3>1
  <2> QED
    BY <1>3, <2>1, <2>2 DEF ListInv, PlaceExists
<1>5. InsertInv
  BY <1>3, NodeNumbers DEF MemInit, InsertInv
<1>6. ReaderInv /\ ReadsFindWhatWasThere
  BY DEF MemInit, ReaderInv, ReadsFindWhatWasThere
<1> QED
  BY <1>2, <1>4, <1>5, <1>6 DEF MemInv

(***************************************************************************)
(* What the writer does to one link, and what a step keeps.                *)
(***************************************************************************)

\* One link changes.
LEMMA OneLink ==
  ASSUME MemTypeOK, NEW a \in AllNodes, NEW b \in Height, NEW v \in Entries \cup {Null, Garbage},
         next' = [next EXCEPT ![a][b] = v]
  PROVE  /\ next' \in [AllNodes -> [Height -> Entries \cup {Null, Garbage}]]
         /\ \A n \in AllNodes, l \in Height :
              next'[n][l] = IF n = a /\ l = b THEN v ELSE next[n][l]
BY DEF MemTypeOK

\* The levels keep their order when neither links nor nodes change.
LEMMA ListInvStable ==
  ASSUME ListInv, UNCHANGED <<next, linked>>, maxHeight' >= maxHeight,
         maxHeight \in Int, maxHeight' \in Int
  PROVE  ListInv'
<1>1. \A l \in Height : l \in Int
  BY NodeNumbers
<1> QED
  BY <1>1 DEF ListInv, LinksInOrder, PlaceExists, Nodes

\* Readers are not disturbed by a step of the writer that only adds nodes.
LEMMA ReadersStable ==
  ASSUME MemTypeOK, ReaderInv, ReadsFindWhatWasThere,
         UNCHANGED <<reader, node, answer>>,
         \A l \in Height : linked[l] \subseteq linked'[l]
  PROVE  ReaderInv' /\ ReadsFindWhatWasThere'
<1>1. \A r \in Readers : reader[r] # Idle => reader[r].level \in Height
  BY DEF MemTypeOK, SearchOf
<1>2. linked[0] \subseteq linked'[0]
  BY NodeNumbers
<1>3. ReaderInv'
  BY <1>1, <1>2 DEF ReaderInv, SearchInv, Nodes
<1>4. ReadsFindWhatWasThere'
  BY <1>2 DEF ReadsFindWhatWasThere
<1> QED
  BY <1>3, <1>4

(***************************************************************************)
(* The writer.                                                             *)
(***************************************************************************)

\* FindGreaterOrEqual leaves in prev the place of the key on each level.
LEMMA PlaceIsFound ==
  ASSUME MemInv, NEW key \in Entries, key \notin linked[0], NEW l \in Height
  PROVE  LET p == FindPrev(key, l)
         IN  p \in Nodes(l) /\ p < key /\ key < next[p][l]
<1>1. PICK q \in Nodes(l) : q < key /\ key <= next[q][l]
  BY DEF MemInv, ListInv, PlaceExists
<1>2. next[q][l] \in linked[l] \cup {Null} /\ linked[l] \subseteq linked[0]
      /\ linked[l] \subseteq Entries
  BY NodeNumbers DEF MemInv, ListInv, LinksInOrder, MemTypeOK
<1>3. IsPrev(q, key, l)
  BY <1>1, <1>2, NodeNumbers DEF IsPrev, KeyIsAfterNode, AllNodes
<1> DEFINE p == FindPrev(key, l)
<1>4. IsPrev(p, key, l)
  BY <1>1, <1>3 DEF FindPrev
<1> HIDE DEF p
<1>5. p \in Nodes(l) /\ p < key /\ ~(next[p][l] \in Entries /\ next[p][l] < key)
  BY <1>4 DEF IsPrev, KeyIsAfterNode
<1>6. next[p][l] \in linked[l] \cup {Null}
  BY <1>5 DEF MemInv, ListInv, LinksInOrder
<1>7. next[p][l] # key
  BY <1>2, <1>6, NodeNumbers
<1>8. key < next[p][l]
  <2>1. CASE next[p][l] = Null
    BY <2>1, NodeNumbers
  <2>2. CASE next[p][l] \in linked[l]
    <3>1. next[p][l] \in Entries /\ next[p][l] \in Int /\ key \in Int
      BY <1>2, <2>2, NodeNumbers DEF AllNodes
    <3> QED
      BY <1>5, <1>7, <3>1
  <2> QED
    BY <1>6, <2>1, <2>2
<1> QED
  BY <1>5, <1>8 DEF p

\* Insert up to its loop: prev holds the place of the new key.
LEMMA BeginInsertKeepsInv ==
  ASSUME MemInv, NEW key \in Entries, NEW height \in 1 .. kMaxHeight, BeginInsert(key, height)
  PROVE  MemInv'
<1> DEFINE prev == [l \in 0 .. height - 1 |-> IF l < maxHeight THEN FindPrev(key, l) ELSE head]
           rec == [key |-> key, height |-> height, level |-> 0, stored |-> FALSE, prev |-> prev]
<1>1. /\ insert = Idle /\ key \notin inserted /\ insert' = rec
      /\ maxHeight' = (IF height > maxHeight THEN height ELSE maxHeight)
      /\ heights' = heights \cup {maxHeight'}
      /\ UNCHANGED <<next, linked, inserted, reader, node, answer, reads>>
  BY DEF BeginInsert
<1>2. /\ maxHeight \in 1 .. kMaxHeight /\ kMaxHeight \in Nat
      /\ maxHeight' \in 1 .. kMaxHeight /\ maxHeight' >= maxHeight /\ maxHeight' >= height
  BY <1>1, MemTableAssumption DEF MemInv, MemTypeOK
<1>3. key \notin linked[0] /\ \A l \in Height : key \notin linked[l]
  BY <1>1, NodeNumbers DEF MemInv, InsertInv, ListInv
<1>4. \A l \in 0 .. height - 1 : l \in Height
  BY MemTableAssumption DEF Height
<1>5. ASSUME NEW l \in 0 .. height - 1
      PROVE  prev[l] \in Nodes(l) /\ prev[l] < key /\ key < next[prev[l]][l]
    <2>1. CASE l < maxHeight
      BY <1>3, <1>4, <2>1, PlaceIsFound
    <2>2. CASE ~(l < maxHeight)
      <3>1. linked[l] = {}
        BY <1>2, <1>4, <2>2 DEF MemInv, ListInv
      <3>2. next[head][l] = Null
        BY <1>4, <3>1 DEF MemInv, ListInv, LinksInOrder, Nodes
      <3> QED
        BY <2>2, <3>2, NodeNumbers DEF Nodes
    <2> QED
      BY <2>1, <2>2
<1>6. \A l \in Height : Nodes(l) \subseteq AllNodes
  BY DEF MemInv, MemTypeOK, Nodes, AllNodes
<1>7. prev \in [0 .. height - 1 -> AllNodes]
  BY <1>4, <1>5, <1>6
<1> HIDE DEF prev
<1>8. rec \in InsertOf
  <2>1. prev \in UNION {[0 .. h - 1 -> Entries \cup {head}] : h \in 1 .. kMaxHeight}
    BY <1>7 DEF AllNodes
  <2> QED
    BY <1>2, <2>1 DEF InsertOf
<1>9. MemTypeOK'
  BY <1>1, <1>2, <1>8 DEF MemInv, MemTypeOK
<1>10. ListInv'
  BY <1>1, <1>2, ListInvStable DEF MemInv
<1>11. insert' # Idle
  BY <1>1, <1>8, MemTableAssumption
<1>12. InsertInv'
  <2>1. inserted' \subseteq linked'[0] /\ linked'[0] \subseteq inserted'
    BY <1>1 DEF MemInv, InsertInv
  <2>2. /\ insert'.height <= maxHeight' /\ insert'.level < insert'.height
        /\ insert'.prev \in [0 .. insert'.height - 1 -> AllNodes]
        /\ insert'.stored = FALSE /\ insert'.key = key /\ insert'.level = 0
    BY <1>1, <1>2, <1>7
  <2>3. \A l \in Height : insert'.key \in linked'[l] <=> l < insert'.level
    BY <1>1, <1>3, <2>2, NodeNumbers
  <2>4. \A l \in insert'.level .. insert'.height - 1 : PrevIsPlace(insert.prev[l], l)'
    BY <1>1, <1>5, <2>2 DEF PrevIsPlace, Nodes
  <2> QED
    BY <2>1, <2>2, <2>3, <2>4 DEF InsertInv
<1>13. ReaderInv' /\ ReadsFindWhatWasThere'
  BY <1>1, ReadersStable DEF MemInv
<1> QED
  BY <1>9, <1>10, <1>12, <1>13 DEF MemInv

\* The new node's own link: no list leads to it on this level yet.
LEMMA StoreLinkKeepsInv ==
  ASSUME MemInv, StoreLink
  PROVE  MemInv'
<1> DEFINE a == insert.key
           b == insert.level
           v == next[insert.prev[b]][b]
<1>1. /\ insert # Idle /\ next' = [next EXCEPT ![a][b] = v]
      /\ insert' = [insert EXCEPT !.stored = TRUE]
      /\ UNCHANGED <<linked, maxHeight, heights, inserted, reader, node, answer, reads>>
  BY DEF StoreLink
<1>2. insert \in InsertOf /\ insert.height <= maxHeight /\ b < insert.height
      /\ insert.prev \in [0 .. insert.height - 1 -> AllNodes]
  BY <1>1 DEF MemInv, MemTypeOK, InsertInv
<1>3. a \in Entries /\ a \in AllNodes /\ b \in Nat /\ insert.height \in 1 .. kMaxHeight
  BY <1>2, MemTableAssumption DEF InsertOf, AllNodes
<1>4. b \in Height /\ b \in b .. insert.height - 1 /\ b \in 0 .. insert.height - 1
  BY <1>2, <1>3, MemTableAssumption DEF Height
<1>5. PrevIsPlace(insert.prev[b], b)
  BY <1>1, <1>4 DEF MemInv, InsertInv
<1>6. v \in linked[b] \cup {Null} /\ v \in Entries \cup {Null, Garbage} /\ insert.prev[b] # a
  BY <1>3, <1>4, <1>5, NodeNumbers DEF PrevIsPlace, MemInv, MemTypeOK, ListInv, LinksInOrder, AllNodes
<1>7. /\ insert' \in InsertOf /\ insert'.key = a /\ insert'.height = insert.height
      /\ insert'.level = b /\ insert'.prev = insert.prev
  BY <1>1, <1>2 DEF InsertOf
<1> HIDE DEF a, b, v
<1>8. /\ next' \in [AllNodes -> [Height -> Entries \cup {Null, Garbage}]]
      /\ \A n \in AllNodes, l \in Height :
           next'[n][l] = IF n = a /\ l = b THEN v ELSE next[n][l]
  BY <1>1, <1>3, <1>4, <1>6, OneLink DEF MemInv
<1>9. a \notin Nodes(b)
  <2>1. a \notin linked[b]
    BY <1>1, <1>3, <1>4 DEF MemInv, InsertInv, a, b
  <2> QED
    BY <1>3, <2>1, NodeNumbers DEF Nodes
<1>10. \A l \in Height : \A n \in Nodes(l) : n \in AllNodes /\ next'[n][l] = next[n][l]
  BY <1>8, <1>9 DEF MemInv, MemTypeOK, Nodes, AllNodes
<1>11. MemTypeOK'
  BY <1>1, <1>7, <1>8 DEF MemInv, MemTypeOK
<1>12. \A l \in Height : Nodes(l)' = Nodes(l)
  BY <1>1 DEF Nodes
<1>13. ListInv'
  <2>1. \A l \in Height : LinksInOrder(l)'
    BY <1>1, <1>10, <1>12 DEF MemInv, ListInv, LinksInOrder
  <2>2. \A l \in Height : PlaceExists(l)'
    BY <1>1, <1>10, <1>12 DEF MemInv, ListInv, PlaceExists
  <2> QED
    BY <1>1, <2>1, <2>2 DEF MemInv, ListInv
<1>14. InsertInv'
  <2>1. insert' # Idle
    BY <1>7, MemTableAssumption
  <2>2. /\ inserted' \subseteq linked'[0]
        /\ linked'[0] \subseteq inserted' \cup {insert'.key}
    BY <1>1, <1>7 DEF MemInv, InsertInv, a
  <2>3. \A l \in Height : insert'.key \in linked'[l] <=> l < insert'.level
    BY <1>1, <1>7 DEF MemInv, InsertInv, a, b
  <2>4. \A l \in b .. insert.height - 1 : l \in Height
    BY <1>3, MemTableAssumption DEF Height
  <2>5. \A l \in insert'.level .. insert'.height - 1 : PrevIsPlace(insert.prev[l], l)'
    <3>1. \A l \in b .. insert.height - 1 : PrevIsPlace(insert.prev[l], l)
      BY <1>1 DEF MemInv, InsertInv, b
    <3> QED
      BY <1>7, <1>10, <1>12, <2>4, <3>1 DEF PrevIsPlace, a
  <2>6. next'[a][b] = next'[insert.prev[b]][b]
    <3>1. insert.prev[b] \in AllNodes
      BY <1>2, <1>4
    <3>2. next[insert.prev[b]][b] = v
      BY DEF v
    <3> QED
      BY <1>3, <1>4, <1>6, <1>8, <3>1, <3>2
  <2> QED
    BY <1>1, <1>2, <1>7, <2>1, <2>2, <2>3, <2>5, <2>6 DEF InsertInv, b
<1>15. ReaderInv' /\ ReadsFindWhatWasThere'
  BY <1>1, ReadersStable DEF MemInv
<1> QED
  BY <1>11, <1>13, <1>14, <1>15 DEF MemInv

\* The link to the new node: it is in the list of this level, in its place.
LEMMA PublishKeepsInv ==
  ASSUME MemInv, Publish
  PROVE  MemInv'
<1>0. PICK a, b, p : a = insert.key /\ b = insert.level /\ p = insert.prev[insert.level]
  OBVIOUS
<1>1. /\ insert # Idle /\ insert.stored /\ next' = [next EXCEPT ![p][b] = a]
      /\ linked' = [linked EXCEPT ![b] = @ \cup {a}]
      /\ UNCHANGED <<maxHeight, heights, reader, node, answer, reads>>
  BY <1>0 DEF Publish
<1>2. \/ b + 1 = insert.height /\ insert' = Idle /\ inserted' = inserted \cup {a}
      \/ /\ b + 1 # insert.height /\ inserted' = inserted
         /\ insert' = [insert EXCEPT !.level = b + 1, !.stored = FALSE]
  BY <1>0 DEF Publish
<1>3. insert \in InsertOf /\ insert.height <= maxHeight /\ b < insert.height
      /\ insert.prev \in [0 .. insert.height - 1 -> AllNodes]
  BY <1>0, <1>1 DEF MemInv, MemTypeOK, InsertInv
<1>4. a \in Entries /\ a \in AllNodes /\ b \in Nat /\ insert.height \in 1 .. kMaxHeight
      /\ kMaxHeight \in Nat
  BY <1>0, <1>3, MemTableAssumption DEF InsertOf, AllNodes
<1>5. b \in Height /\ b \in b .. insert.height - 1 /\ b \in 0 .. insert.height - 1
  BY <1>3, <1>4, MemTableAssumption DEF Height
<1>6. p \in AllNodes /\ p \in Nodes(b) /\ p < a /\ a < next[p][b]
  BY <1>0, <1>1, <1>3, <1>5 DEF MemInv, InsertInv, PrevIsPlace, Nodes
<1>7. next[a][b] = next[p][b]
  BY <1>0, <1>1 DEF MemInv, InsertInv
<1>8. \A l \in Height : a \in linked[l] <=> l < b
  BY <1>0, <1>1 DEF MemInv, InsertInv
<1>9. b + 1 # insert.height =>
        /\ insert' \in InsertOf /\ insert'.key = a /\ insert'.height = insert.height
        /\ insert'.level = b + 1 /\ insert'.prev = insert.prev /\ insert'.stored = FALSE
  <2> SUFFICES ASSUME b + 1 # insert.height
               PROVE  /\ insert' \in InsertOf /\ insert'.key = a /\ insert'.height = insert.height
                      /\ insert'.level = b + 1 /\ insert'.prev = insert.prev
                      /\ insert'.stored = FALSE
    OBVIOUS
  <2>1. insert' = [insert EXCEPT !.level = b + 1, !.stored = FALSE]
    BY <1>2
  <2>2. b + 1 \in 0 .. kMaxHeight
    BY <1>3, <1>4
  <2> DEFINE Prevs == UNION {[0 .. h - 1 -> Entries \cup {head}] : h \in 1 .. kMaxHeight}
             Keys == Entries
             Levels == 0 .. kMaxHeight
             Heights == 1 .. kMaxHeight
  <2>3. InsertOf = [key : Keys, height : Heights, level : Levels, stored : BOOLEAN, prev : Prevs]
    BY DEF InsertOf
  <2>4. b + 1 \in Levels
    BY <2>2
  <2> HIDE DEF Prevs, Keys, Levels, Heights
  <2>5. insert \in [key : Keys, height : Heights, level : Levels, stored : BOOLEAN, prev : Prevs]
    BY <1>3, <2>3
  <2>6. insert' = [key |-> insert.key, height |-> insert.height, level |-> b + 1,
                   stored |-> FALSE, prev |-> insert.prev]
    BY <2>1, <2>5
  <2>7. /\ insert'.key = insert.key /\ insert'.height = insert.height /\ insert'.level = b + 1
        /\ insert'.prev = insert.prev /\ insert'.stored = FALSE
    BY ONLY <2>6
  <2>8. insert' \in [key : Keys, height : Heights, level : Levels, stored : BOOLEAN, prev : Prevs]
    BY ONLY <2>4, <2>5, <2>6
  <2> QED
    BY <1>0, <2>3, <2>7, <2>8
<1>10. \A l \in insert.level .. insert.height - 1 : PrevIsPlace(insert.prev[l], l)
  BY <1>1 DEF MemInv, InsertInv
<1>11. /\ next' \in [AllNodes -> [Height -> Entries \cup {Null, Garbage}]]
       /\ \A n \in AllNodes, l \in Height :
            next'[n][l] = IF n = p /\ l = b THEN a ELSE next[n][l]
  <2>1. a \in Entries \cup {Null, Garbage}
    BY <1>4
  <2>2. MemTypeOK /\ p \in AllNodes /\ b \in Height
    BY <1>5, <1>6 DEF MemInv
  <2>3. next' = [next EXCEPT ![p][b] = a]
    BY <1>1
  <2> QED
    BY ONLY <2>1, <2>2, <2>3, OneLink
<1>12. /\ linked' \in [Height -> SUBSET Entries]
       /\ linked'[b] = linked[b] \cup {a}
       /\ \A l \in Height : l # b => linked'[l] = linked[l]
       /\ \A l \in Height : linked[l] \subseteq linked'[l]
  BY <1>1, <1>4, <1>5 DEF MemInv, MemTypeOK
<1>13. MemTypeOK'
  BY <1>1, <1>2, <1>4, <1>9, <1>11, <1>12 DEF MemInv, MemTypeOK
<1>14. \A l \in Height : l # b =>
         /\ Nodes(l)' = Nodes(l)
         /\ \A n \in Nodes(l) : n \in AllNodes /\ next'[n][l] = next[n][l]
  BY <1>11, <1>12 DEF MemInv, MemTypeOK, Nodes, AllNodes
<1>15. /\ Nodes(b)' = Nodes(b) \cup {a} /\ Nodes(b) \subseteq AllNodes /\ a \notin Nodes(b)
       /\ next'[p][b] = a /\ next'[a][b] = next[p][b]
       /\ \A n \in Nodes(b) : n # p => next'[n][b] = next[n][b]
  <2>1. /\ Nodes(b)' = Nodes(b) \cup {a} /\ Nodes(b) \subseteq AllNodes
    BY <1>5, <1>12 DEF MemInv, MemTypeOK, Nodes, AllNodes
  <2>2. a \notin Nodes(b)
    BY <1>4, <1>5, <1>8, NodeNumbers DEF Nodes
  <2>3. a # p
    BY <1>6, <2>2
  <2> QED
    BY <1>4, <1>5, <1>6, <1>7, <1>11, <2>1, <2>2, <2>3
<1>16. /\ \A n \in Nodes(b) : n < next[n][b] /\ next[n][b] \in linked[b] \cup {Null}
       /\ \A n \in Nodes(b), m \in linked[b] : n < m => next[n][b] <= m
       /\ \A k \in Entries : \E q \in Nodes(b) : q < k /\ k <= next[q][b]
  BY <1>5 DEF MemInv, ListInv, LinksInOrder, PlaceExists
<1>17. /\ linked[b] \subseteq Int /\ Nodes(b) \subseteq Int /\ a \in Int /\ p \in Int
       /\ \A n \in Nodes(b) : next[n][b] \in Int
       /\ Entries \subseteq Int /\ \A m \in linked[b] : m \in Entries /\ m \in Nodes(b)
       /\ \A n \in Nodes(b) : n = head \/ n \in linked[b]
       /\ \A k \in Entries : head < k
  BY <1>4, <1>5, <1>6, <1>15, <1>16, NodeNumbers DEF MemInv, MemTypeOK, AllNodes, Nodes
<1>18. LinksInOrder(b)'
  <2>1. ASSUME NEW n \in Nodes(b)'
        PROVE  n < next'[n][b] /\ next'[n][b] \in linked'[b] \cup {Null}
    <3>1. CASE n = p
      BY <1>6, <1>12, <1>15, <3>1
    <3>2. CASE n = a
      BY <1>6, <1>12, <1>15, <1>16, <3>2
    <3>3. CASE n \in Nodes(b) /\ n # p
      BY <1>12, <1>15, <1>16, <3>3
    <3> QED
      BY <1>15, <3>1, <3>2, <3>3
  <2>2. ASSUME NEW n \in Nodes(b)', NEW m \in linked'[b], n < m
        PROVE  next'[n][b] <= m
    <3>1. m \in linked[b] \/ m = a
      BY <1>12
    <3>2. CASE n = p
      <4>1. CASE m = a
        BY <1>15, <1>17, <3>2, <4>1
      <4>2. CASE m \in linked[b]
        BY <1>6, <1>15, <1>16, <1>17, <2>2, <3>2, <4>2
      <4> QED
        BY <3>1, <4>1, <4>2
    <3>3. CASE n = a
      <4>1. m \in linked[b]
        BY <1>17, <2>2, <3>1, <3>3
      <4>2. p < m
        BY <1>6, <1>17, <2>2, <3>3, <4>1
      <4> QED
        BY <1>6, <1>15, <1>16, <3>3, <4>1, <4>2
    <3>4. CASE n \in Nodes(b) /\ n # p
      <4>1. CASE m \in linked[b]
        BY <1>15, <1>16, <2>2, <3>4, <4>1
      <4>2. CASE m = a
        <5>1. CASE n < p
          <6>1. p \in linked[b]
            BY <1>6, <1>17, <3>4, <5>1
          <6>2. next[n][b] <= p
            BY <1>16, <3>4, <5>1, <6>1
          <6> QED
            BY <1>6, <1>15, <1>17, <3>4, <4>2, <6>2
        <5>2. CASE p < n
          <6>1. n \in linked[b]
            BY <1>6, <1>17, <3>4, <5>2
          <6>2. next[p][b] <= n
            BY <1>6, <1>16, <5>2, <6>1
          <6> QED
            BY <1>6, <1>17, <2>2, <3>4, <4>2, <6>2
        <5> QED
          BY <1>17, <3>4, <5>1, <5>2
      <4> QED
        BY <3>1, <4>1, <4>2
    <3> QED
      BY <1>15, <3>2, <3>3, <3>4
  <2> QED
    BY <2>1, <2>2 DEF LinksInOrder
<1>19. PlaceExists(b)'
  <2>1. ASSUME NEW k \in Entries
        PROVE  \E q \in Nodes(b)' : q < k /\ k <= next'[q][b]
    <3>1. PICK q \in Nodes(b) : q < k /\ k <= next[q][b]
      BY <1>16
    <3>2. CASE q # p
      BY <1>15, <3>1, <3>2
    <3>3. CASE q = p /\ k <= a
      BY <1>15, <3>1, <3>3
    <3>4. CASE q = p /\ ~(k <= a)
      <4>1. a < k /\ k <= next'[a][b] /\ a \in Nodes(b)'
        BY <1>15, <1>17, <3>1, <3>4
      <4> QED
        BY <4>1
    <3> QED
      BY <3>2, <3>3, <3>4
  <2> QED
    BY <2>1 DEF PlaceExists
<1>20. ListInv'
  <2>1. ASSUME NEW l \in Height PROVE LinksInOrder(l)' /\ PlaceExists(l)'
    <3>1. CASE l = b
      BY <1>18, <1>19, <3>1
    <3>2. CASE l # b
      <4>1. LinksInOrder(l) /\ PlaceExists(l)
        BY DEF MemInv, ListInv
      <4>2. LinksInOrder(l)'
        BY <1>12, <1>14, <3>2, <4>1 DEF LinksInOrder
      <4>3. PlaceExists(l)'
        BY <1>14, <3>2, <4>1 DEF PlaceExists
      <4> QED
        BY <4>2, <4>3
    <3> QED
      BY <3>1, <3>2
  <2>2. ASSUME NEW l \in Height, NEW m \in Height, l <= m
        PROVE  linked'[m] \subseteq linked'[l]
    <3>1. linked[m] \subseteq linked[l]
      BY <2>2 DEF MemInv, ListInv
    <3>2. CASE m = b /\ l # b
      <4>1. l < b
        BY <1>5, <2>2, <3>2, NodeNumbers
      <4> QED
        BY <1>8, <1>12, <3>1, <3>2, <4>1
    <3>3. CASE ~(m = b /\ l # b)
      BY <1>12, <3>1, <3>3
    <3> QED
      BY <3>2, <3>3
  <2>3. ASSUME NEW l \in Height, l >= maxHeight' PROVE linked'[l] = {}
    <3>1. l # b
      BY <1>1, <1>3, <1>4, <1>5, <2>3 DEF MemInv, MemTypeOK
    <3> QED
      BY <1>1, <1>12, <2>3, <3>1 DEF MemInv, ListInv
  <2> QED
    BY <2>1, <2>2, <2>3 DEF ListInv
<1>21. InsertInv'
  <2>1. /\ inserted \subseteq linked[0] /\ linked[0] \subseteq inserted \cup {a}
        /\ linked[0] \subseteq linked'[0] /\ linked'[0] \subseteq linked[0] \cup {a}
    BY <1>0, <1>1, <1>12, NodeNumbers DEF MemInv, InsertInv
  <2>2. a \in linked'[0]
    BY <1>4, <1>8, <1>12, NodeNumbers
  <2>3. CASE b + 1 = insert.height
    <3>1. insert' = Idle /\ inserted' = inserted \cup {a}
      BY <1>2, <2>3
    <3> QED
      BY <2>1, <2>2, <3>1 DEF InsertInv
  <2>4. CASE b + 1 # insert.height
    <3>1. /\ insert' \in InsertOf /\ insert'.key = a /\ insert'.height = insert.height
          /\ insert'.level = b + 1 /\ insert'.prev = insert.prev /\ insert'.stored = FALSE
          /\ inserted' = inserted
      BY <1>2, <1>9, <2>4
    <3>2. insert' # Idle
      BY <3>1, MemTableAssumption
    <3>3. insert'.height <= maxHeight' /\ insert'.level < insert'.height
      BY <1>1, <1>3, <1>4, <2>4, <3>1
    <3>4. \A l \in Height : insert'.key \in linked'[l] <=> l < insert'.level
      BY <1>4, <1>5, <1>8, <1>12, <3>1, NodeNumbers
    <3>5. ASSUME NEW l \in b + 1 .. insert.height - 1 PROVE PrevIsPlace(insert.prev[l], l)'
      <4>1. l \in Height /\ l # b /\ l \in insert.level .. insert.height - 1
        BY <1>0, <1>4, MemTableAssumption DEF Height
      <4>2. PrevIsPlace(insert.prev[l], l)
        BY <1>10, <4>1
      <4> QED
        BY <1>0, <1>14, <3>1, <4>1, <4>2 DEF PrevIsPlace
    <3> QED
      BY <1>3, <2>1, <3>1, <3>2, <3>3, <3>4, <3>5 DEF InsertInv
  <2> QED
    BY <2>3, <2>4
<1>22. ReaderInv' /\ ReadsFindWhatWasThere'
  BY <1>1, <1>12, ReadersStable DEF MemInv
<1> QED
  BY <1>13, <1>20, <1>21, <1>22 DEF MemInv

(***************************************************************************)
(* The readers.                                                            *)
(***************************************************************************)

\* A reader changes nothing of the lists.
LEMMA ListsStable ==
  ASSUME MemInv, UNCHANGED <<next, linked, maxHeight, heights, insert, inserted>>
  PROVE  ListInv' /\ InsertInv'
BY DEF MemInv, ListInv, LinksInOrder, PlaceExists, InsertInv, PrevIsPlace, Nodes

\* A search of any kind begins at the head, on a level that may be empty.
LEMMA BeginSearchKeepsInv ==
  ASSUME MemInv, NEW r \in Readers, NEW op \in {"seek", "prev", "last"},
         NEW target \in Entries \cup {Null}, op = "last" <=> target = Null,
         BeginSearch(r, op, target)
  PROVE  MemInv'
<1>1. PICK h \in heights :
        reader' = [reader EXCEPT ![r] = [op |-> op, target |-> target, at |-> head,
                                         level |-> h - 1, known |-> inserted]]
  BY DEF BeginSearch
<1>2. /\ reads' = [reads EXCEPT ![r] = @ + 1]
      /\ UNCHANGED <<next, linked, maxHeight, heights, insert, inserted, node, answer>>
  BY DEF BeginSearch
<1> DEFINE s == [op |-> op, target |-> target, at |-> head, level |-> h - 1, known |-> inserted]
<1>3. h - 1 \in Height
  BY MemTableAssumption DEF MemInv, MemTypeOK, Height
<1>4. s \in SearchOf
  BY <1>3 DEF SearchOf, AllNodes, MemInv, MemTypeOK
<1>5. MemTypeOK'
  <2>1. reader' \in [Readers -> SearchOf \cup {Idle}]
    BY <1>1, <1>4 DEF MemInv, MemTypeOK
  <2>2. reads' \in [Readers -> Nat]
    BY <1>2 DEF MemInv, MemTypeOK
  <2> QED
    BY <1>2, <2>1, <2>2 DEF MemInv, MemTypeOK
<1>6. SearchInv(s)
  <2>1. head < target
    BY NodeNumbers
  <2>2. inserted \subseteq linked[0]
    BY DEF MemInv, InsertInv
  <2> QED
    BY <2>1, <2>2 DEF SearchInv, Nodes
<1> HIDE DEF s
<1>7. \A q \in Readers : reader'[q] = IF q = r THEN s ELSE reader[q]
  BY <1>1 DEF s, MemInv, MemTypeOK
<1>8. ReaderInv'
  BY <1>2, <1>6, <1>7 DEF MemInv, ReaderInv, SearchInv, Nodes
<1>9. ReadsFindWhatWasThere'
  BY <1>2 DEF MemInv, ReadsFindWhatWasThere
<1> QED
  BY <1>2, <1>5, <1>8, <1>9, ListsStable DEF MemInv

\* What a search ends with is what it was to find.
LEMMA ResultIsRight ==
  ASSUME MemInv, NEW s \in SearchOf, SearchInv(s), s.level = 0,
         ~GoesOn(s, next[s.at][s.level])
  PROVE  LET n == Result(s, next[s.at][s.level])
         IN  /\ n \in linked[0] \cup {Null}
             /\ s.op = "seek" => n >= s.target /\ \A k \in s.known : k >= s.target => k >= n
             /\ s.op = "prev" => /\ n # Null => n < s.target
                                 /\ \A k \in s.known : k < s.target => n # Null /\ k <= n
             /\ s.op = "last" => \A k \in s.known : n # Null /\ k <= n
<1> DEFINE after == next[s.at][0]
<1>1. /\ s.op \in {"seek", "prev", "last"} /\ s.target \in Entries \cup {Null}
      /\ s.at \in {head} \cup linked[0] /\ s.at < s.target /\ s.known \subseteq linked[0]
      /\ s.op = "last" <=> s.target = Null
  BY DEF SearchOf, SearchInv, Nodes
<1>2. /\ linked[0] \subseteq Entries /\ after \in linked[0] \cup {Null} /\ s.at < after
      /\ \A m \in linked[0] : s.at < m => after <= m
  BY <1>1, NodeNumbers DEF MemInv, MemTypeOK, ListInv, LinksInOrder, Nodes
<1> HIDE DEF after
<1>3. ~GoesOn(s, after)
  BY DEF after
<1>4. /\ after \in Int /\ s.target \in Int /\ s.at \in Int /\ head \in Int /\ Null \in Int
      /\ \A k \in s.known : k \in Int /\ k \in linked[0] /\ k \in Entries /\ head < k /\ k < Null
      /\ s.target <= Null
  BY <1>1, <1>2, NodeNumbers DEF AllNodes
<1>5. after >= s.target
  <2>1. CASE after = Null
    BY <1>4, <2>1
  <2>2. CASE after # Null
    <3>1. after \in Entries /\ s.op # "last"
      BY <1>2, <1>3, <2>2 DEF GoesOn
    <3> QED
      BY <1>3, <1>4, <3>1 DEF GoesOn, KeyIsAfterNode
  <2> QED
    BY <2>1, <2>2
<1>6. \A k \in s.known : s.at < k => after <= k
  BY <1>2, <1>4
<1>7. CASE s.op = "seek"
  <2>1. Result(s, after) = after
    BY <1>7 DEF Result
  <2>2. after \in linked[0] \cup {Null} /\ \A k \in s.known : k >= s.target => k >= after
    BY <1>1, <1>2, <1>4, <1>6
  <2> QED
    BY <1>5, <1>7, <2>1, <2>2 DEF after
<1>8. CASE s.op # "seek"
  <2> DEFINE n == Result(s, after)
  <2>1. n = IF s.at = head THEN Null ELSE s.at
    BY <1>8 DEF Result
  <2>2. \A k \in s.known : k < s.target => k <= s.at
    BY <1>4, <1>5, <1>6
  <2>3. \A k \in s.known : k < s.target => n # Null /\ k <= n
    <3> SUFFICES ASSUME NEW k \in s.known, k < s.target PROVE n # Null /\ k <= n
      OBVIOUS
    <3>1. k <= s.at /\ s.at # head
      BY <1>4, <2>2
    <3>2. s.at # Null
      BY <1>1, <1>2, <3>1, NodeNumbers
    <3> QED
      BY <2>1, <3>1, <3>2
  <2>4. n \in linked[0] \cup {Null} /\ (n # Null => n < s.target)
    BY <1>1, <2>1
  <2>5. s.op = "last" => \A k \in s.known : k < s.target
    BY <1>1, <1>4
  <2> HIDE DEF n
  <2> QED
    BY <1>1, <1>8, <2>3, <2>4, <2>5 DEF n, after
<1> QED
  BY <1>7, <1>8

\* One turn of a search: on, down, or to its end.
LEMMA SearchKeepsInv ==
  ASSUME MemInv, NEW r \in Readers, Search(r)
  PROVE  MemInv'
<1>0. PICK s, n : s = reader[r] /\ n = next[s.at][s.level]
  OBVIOUS
<1>1. /\ reader[r] # Idle
      /\ UNCHANGED <<next, linked, maxHeight, heights, insert, inserted, reads>>
  BY DEF Search
<1>2. /\ s \in SearchOf /\ SearchInv(s)
      /\ s.level \in Height /\ s.target \in Entries \cup {Null}
      /\ s.op \in {"seek", "prev", "last"} /\ s.known \subseteq Entries
      /\ s.at \in Nodes(s.level)
  BY <1>0, <1>1 DEF MemInv, MemTypeOK, ReaderInv, SearchInv, SearchOf
<1>3. n \in linked[s.level] \cup {Null} /\ linked[s.level] \subseteq Entries
  BY <1>0, <1>2 DEF MemInv, MemTypeOK, ListInv, LinksInOrder
<1>4. ListInv' /\ InsertInv'
  BY <1>1, ListsStable
<1>5. ASSUME NEW t \in SearchOf, SearchInv(t), reader' = [reader EXCEPT ![r] = t],
             UNCHANGED <<node, answer>>
      PROVE  MemInv'
  <2>1. MemTypeOK'
    BY <1>1, <1>5 DEF MemInv, MemTypeOK
  <2>2. \A q \in Readers : reader'[q] = IF q = r THEN t ELSE reader[q]
    BY <1>5 DEF MemInv, MemTypeOK
  <2>3. ReaderInv'
    BY <1>1, <1>5, <2>2 DEF MemInv, ReaderInv, SearchInv, Nodes
  <2>4. ReadsFindWhatWasThere'
    BY <1>1, <1>5 DEF MemInv, ReadsFindWhatWasThere
  <2> QED
    BY <1>4, <2>1, <2>3, <2>4 DEF MemInv
<1>6. CASE GoesOn(s, n) /\ reader' = [reader EXCEPT ![r].at = n] /\ UNCHANGED <<node, answer>>
  <2> DEFINE t == [s EXCEPT !.at = n]
  <2>1. n # Null
    BY <1>2, <1>6, NodeNumbers DEF GoesOn, KeyIsAfterNode
  <2>2. n \in linked[s.level] /\ n \in Entries
    BY <1>3, <2>1
  <2>3. n < s.target
    BY <1>2, <1>6, <2>2, NodeNumbers DEF GoesOn, KeyIsAfterNode, SearchInv
  <2>4. t \in SearchOf
    BY <1>2, <2>2 DEF SearchOf, AllNodes
  <2>5. /\ t.at = n /\ t.level = s.level /\ t.target = s.target /\ t.op = s.op /\ t.known = s.known
    BY <1>2 DEF SearchOf
  <2>6. reader' = [reader EXCEPT ![r] = t]
    BY <1>0, <1>6
  <2> HIDE DEF t
  <2>7. SearchInv(t)
    BY <1>2, <2>2, <2>3, <2>5 DEF SearchInv, Nodes
  <2> QED
    BY <1>5, <1>6, <2>4, <2>6, <2>7
<1>7. CASE s.level > 0 /\ reader' = [reader EXCEPT ![r].level = @ - 1] /\ UNCHANGED <<node, answer>>
  <2> DEFINE t == [s EXCEPT !.level = s.level - 1]
  <2>1. s.level - 1 \in Height /\ s.level - 1 <= s.level
    BY <1>2, <1>7, MemTableAssumption DEF Height
  <2>2. linked[s.level] \subseteq linked[s.level - 1]
    BY <1>2, <2>1 DEF MemInv, ListInv
  <2>4. t \in SearchOf
    BY <1>2, <2>1 DEF SearchOf
  <2>5. /\ t.at = s.at /\ t.level = s.level - 1 /\ t.target = s.target /\ t.op = s.op
        /\ t.known = s.known
    BY <1>2 DEF SearchOf
  <2>6. reader' = [reader EXCEPT ![r] = t]
    BY <1>0, <1>7
  <2> HIDE DEF t
  <2>7. SearchInv(t)
    BY <1>2, <2>2, <2>5 DEF SearchInv, Nodes
  <2> QED
    BY <1>5, <1>7, <2>4, <2>6, <2>7
<1>8. CASE /\ ~GoesOn(s, n) /\ s.level = 0
           /\ reader' = [reader EXCEPT ![r] = Idle]
           /\ node' = [node EXCEPT ![r] = Result(s, n)]
           /\ answer' = [answer EXCEPT ![r] = [op |-> s.op, target |-> s.target, known |-> s.known]]
  <2> DEFINE res == Result(s, n)
             a == [op |-> s.op, target |-> s.target, known |-> s.known]
  <2>1. /\ res \in linked[0] \cup {Null}
        /\ s.op = "seek" => res >= s.target /\ \A k \in s.known : k >= s.target => k >= res
        /\ s.op = "prev" => /\ res # Null => res < s.target
                            /\ \A k \in s.known : k < s.target => res # Null /\ k <= res
        /\ s.op = "last" => \A k \in s.known : res # Null /\ k <= res
    BY <1>0, <1>2, <1>8, ResultIsRight
  <2>2. a \in AnswerOf /\ a.op = s.op /\ a.target = s.target /\ a.known = s.known
    BY <1>2, NodeNumbers DEF AnswerOf, AllNodes
  <2>3. linked[0] \subseteq Entries
    BY <1>3, <1>8
  <2> HIDE DEF res, a
  <2>4. MemTypeOK'
    <3>1. node' \in [Readers -> Entries \cup {Null}]
      BY <1>8, <2>1, <2>3 DEF res, MemInv, MemTypeOK
    <3>2. answer' \in [Readers -> AnswerOf \cup {Idle}]
      BY <1>8, <2>2 DEF a, MemInv, MemTypeOK
    <3>3. reader' \in [Readers -> SearchOf \cup {Idle}]
      BY <1>8 DEF MemInv, MemTypeOK
    <3> QED
      BY <1>1, <3>1, <3>2, <3>3 DEF MemInv, MemTypeOK
  <2>5. \A q \in Readers : /\ reader'[q] = IF q = r THEN Idle ELSE reader[q]
                           /\ node'[q] = IF q = r THEN res ELSE node[q]
                           /\ answer'[q] = IF q = r THEN a ELSE answer[q]
    BY <1>8 DEF res, a, MemInv, MemTypeOK
  <2>6. ReaderInv'
    BY <1>1, <2>1, <2>5 DEF MemInv, ReaderInv, SearchInv, Nodes
  <2>7. ReadsFindWhatWasThere'
    BY <1>1, <2>1, <2>2, <2>5 DEF MemInv, ReadsFindWhatWasThere
  <2> QED
    BY <1>4, <2>4, <2>6, <2>7 DEF MemInv
<1> QED
  BY <1>0, <1>6, <1>7, <1>8 DEF Search

\* SeekToFirst and Next follow one link of the lowest level.
LEMMA LoadKeepsInv ==
  ASSUME MemInv, NEW r \in Readers, NEW from \in Nodes(0), Load(r, from)
  PROVE  MemInv'
<1> DEFINE n == next[from][0]
           a == [op |-> "seek", target |-> from + 1, known |-> inserted]
<1>1. /\ node' = [node EXCEPT ![r] = n] /\ answer' = [answer EXCEPT ![r] = a]
      /\ reads' = [reads EXCEPT ![r] = @ + 1]
      /\ UNCHANGED <<next, linked, maxHeight, heights, insert, inserted, reader>>
  BY DEF Load
<1>2. /\ n \in linked[0] \cup {Null} /\ from < n /\ linked[0] \subseteq Entries
      /\ \A m \in linked[0] : from < m => n <= m
  BY NodeNumbers DEF MemInv, MemTypeOK, ListInv, LinksInOrder
<1>3. from \in Int /\ n \in Int /\ \A k \in inserted : k \in Int /\ k \in linked[0]
  BY <1>2, NodeNumbers DEF MemInv, InsertInv, Nodes, AllNodes
<1>4. a \in AnswerOf /\ a.op = "seek" /\ a.target = from + 1 /\ a.known = inserted
  BY <1>3 DEF AnswerOf, MemInv, MemTypeOK
<1> HIDE DEF n, a
<1>5. MemTypeOK'
  <2>1. node' \in [Readers -> Entries \cup {Null}]
    BY <1>1, <1>2 DEF MemInv, MemTypeOK
  <2>2. answer' \in [Readers -> AnswerOf \cup {Idle}]
    BY <1>1, <1>4 DEF MemInv, MemTypeOK
  <2>3. reads' \in [Readers -> Nat]
    BY <1>1 DEF MemInv, MemTypeOK
  <2> QED
    BY <1>1, <2>1, <2>2, <2>3 DEF MemInv, MemTypeOK
<1>6. \A q \in Readers : /\ node'[q] = IF q = r THEN n ELSE node[q]
                         /\ answer'[q] = IF q = r THEN a ELSE answer[q]
  BY <1>1 DEF MemInv, MemTypeOK
<1>7. ReaderInv'
  BY <1>1, <1>2, <1>6 DEF MemInv, ReaderInv, SearchInv, Nodes
<1>8. n >= a.target /\ \A k \in a.known : k >= a.target => k >= n
  BY <1>2, <1>3, <1>4
<1>9. ReadsFindWhatWasThere'
  BY <1>1, <1>2, <1>4, <1>6, <1>8 DEF MemInv, ReadsFindWhatWasThere
<1> QED
  BY <1>1, <1>5, <1>7, <1>9, ListsStable DEF MemInv

(***************************************************************************)
(* The theorems.                                                           *)
(***************************************************************************)
LEMMA MemInvHolds == MemSpec => []MemInv
<1>1. MemInv /\ [MemNext]_memVars => MemInv'
  <2> SUFFICES ASSUME MemInv, [MemNext]_memVars PROVE MemInv'
    OBVIOUS
  <2>1. \A r \in Readers : node[r] # Null => node[r] \in Entries /\ node[r] \in Nodes(0)
    BY DEF MemInv, MemTypeOK, ReaderInv, Nodes
  <2>2. ASSUME NEW r \in Readers, NEW target \in Entries, Seek(r, target) PROVE MemInv'
    BY <2>2, BeginSearchKeepsInv, NodeNumbers DEF Seek
  <2>3. ASSUME NEW r \in Readers, SeekPrev(r) PROVE MemInv'
    <3>1. PICK target \in Entries : target = node[r]
      BY <2>1, <2>3 DEF SeekPrev
    <3>2. BeginSearch(r, "prev", target)
      BY <2>3, <3>1 DEF SeekPrev
    <3> QED
      BY <3>2, BeginSearchKeepsInv, NodeNumbers
  <2>4. ASSUME NEW r \in Readers, SeekToLast(r) PROVE MemInv'
    BY <2>4, BeginSearchKeepsInv DEF SeekToLast
  <2>5. ASSUME NEW r \in Readers, Search(r) PROVE MemInv'
    BY <2>5, SearchKeepsInv
  <2>6. ASSUME NEW r \in Readers, SeekToFirst(r) PROVE MemInv'
    <3>1. head \in Nodes(0)
      BY DEF Nodes
    <3> QED
      BY <2>6, <3>1, LoadKeepsInv DEF SeekToFirst
  <2>7. ASSUME NEW r \in Readers, NextNode(r) PROVE MemInv'
    <3>1. PICK from \in Nodes(0) : from = node[r]
      BY <2>1, <2>7 DEF NextNode
    <3>2. Load(r, from)
      BY <2>7, <3>1 DEF NextNode
    <3> QED
      BY <3>2, LoadKeepsInv
  <2>8. CASE UNCHANGED memVars
    <3>1. UNCHANGED <<next, linked, maxHeight, heights, insert, inserted, reader, node, answer, reads>>
      BY <2>8 DEF memVars
    <3>2. MemTypeOK' /\ ReaderInv' /\ ReadsFindWhatWasThere'
      BY <3>1 DEF MemInv, MemTypeOK, ReaderInv, SearchInv, Nodes, ReadsFindWhatWasThere
    <3> QED
      BY <3>1, <3>2, ListsStable DEF MemInv
  <2> QED
    BY <2>2, <2>3, <2>4, <2>5, <2>6, <2>7, <2>8,
       BeginInsertKeepsInv, StoreLinkKeepsInv, PublishKeepsInv DEF MemNext
<1> QED
  BY <1>1, MemInitHolds, PTL DEF MemSpec

\* skiplist.h, Thread safety: a reader comes to stored links only, and every
\* level is a list in order at every moment of an Insert.
THEOREM SearchesAlwaysSafe == MemSpec => []SearchesAreSafe
<1>1. MemInv => SearchesAreSafe
  <2> SUFFICES ASSUME MemInv PROVE LinksAreInitialized /\ ListsAreSorted
    BY DEF SearchesAreSafe
  <2>1. ASSUME NEW r \in Readers, reader[r] # Idle
        PROVE  next[reader[r].at][reader[r].level] # Garbage
    <3>1. reader[r] \in SearchOf /\ SearchInv(reader[r])
      BY <2>1 DEF MemInv, MemTypeOK, ReaderInv
    <3>2. /\ reader[r].level \in Height /\ reader[r].at \in Nodes(reader[r].level)
      BY <3>1 DEF SearchOf, SearchInv
    <3>3. /\ next[reader[r].at][reader[r].level] \in linked[reader[r].level] \cup {Null}
          /\ linked[reader[r].level] \subseteq Entries
      BY <3>2 DEF MemInv, MemTypeOK, ListInv, LinksInOrder
    <3> QED
      BY <3>3, MemTableAssumption
  <2>2. ASSUME NEW l \in Height, l > 0 PROVE linked[l] \subseteq linked[l - 1]
    <3>1. l - 1 \in Height /\ l - 1 <= l
      BY <2>2, MemTableAssumption DEF Height
    <3> QED
      BY <3>1 DEF MemInv, ListInv
  <2> QED
    BY <2>1, <2>2 DEF LinksAreInitialized, ListsAreSorted, MemInv, ListInv, LinksInOrder
<1> QED
  BY <1>1, MemInvHolds, PTL

\* A read passes over no entry whose Insert had returned when it began.
THEOREM ReadsAlwaysFind == MemSpec => []ReadsFindWhatWasThere
<1>1. MemInv => ReadsFindWhatWasThere
  BY DEF MemInv
<1> QED
  BY <1>1, MemInvHolds, PTL
-----------------------------------------------------------------------------
(* The arena: the inductive invariant says where the block being filled is *)
(* still free.                                                             *)
Pieces == [block : Nat \ {0}, from : Nat, to : Nat, aligned : BOOLEAN]

ArenaTypeOK ==
  /\ blocks \in Seq(Nat)
  /\ allocPtr \in [block : Nat, at : Nat]
  /\ remaining \in Nat
  /\ allocated \in Seq(Pieces)

(* What remains is the end of the block being filled.                      *)
RestIsFree ==
  /\ allocPtr.block <= Len(blocks)
  /\ remaining > 0 => /\ allocPtr.block \in DOMAIN blocks
                      /\ allocPtr.at + remaining = blocks[allocPtr.block]
  /\ \A i \in DOMAIN allocated :
       allocated[i].block = allocPtr.block => allocated[i].to <= allocPtr.at

ArenaInv == ArenaTypeOK /\ RestIsFree /\ PiecesAreApart /\ NodesAreAligned

(***************************************************************************)
(* The bytes left out lead to an aligned place.                            *)
(***************************************************************************)

\* Slop leads up to a multiple of the alignment (AllocateAligned, slop).
LEMMA SlopAligns ==
  ASSUME NEW at \in Nat
  PROVE  /\ Slop(at) \in Nat
         /\ (at + Slop(at)) % kAlign = 0
<1>1. kAlign \in Nat /\ kAlign > 0
  BY ArenaAssumption
<1>2. CASE at % kAlign = 0
  BY <1>1, <1>2 DEF Slop
<1>3. CASE at % kAlign # 0
  <2>1. at % kAlign \in 0 .. kAlign - 1
    BY <1>1
  <2>2. Slop(at) = kAlign - (at % kAlign)
    BY <1>3 DEF Slop
  <2>3. at = kAlign * (at \div kAlign) + (at % kAlign)
    BY <1>1
  <2>4. at + Slop(at) = kAlign * (at \div kAlign) + kAlign
    BY <1>1, <2>1, <2>2, <2>3
  <2>5. at + Slop(at) = kAlign * ((at \div kAlign) + 1)
    BY <1>1, <2>4
  <2>6. (kAlign * ((at \div kAlign) + 1)) % kAlign = 0
    BY <1>1
  <2> QED
    BY <1>1, <2>1, <2>2, <2>5, <2>6
<1> QED
  BY <1>2, <1>3

(***************************************************************************)
(* The three ways to hand out bytes keep the invariant.                    *)
(***************************************************************************)

\* A piece added at the end is the only new one.
LEMMA OnePieceMore ==
  ASSUME NEW pieces \in Seq(Pieces), NEW p \in Pieces
  PROVE  LET q == Append(pieces, p)
         IN  /\ q \in Seq(Pieces)
             /\ \A i \in DOMAIN q : (i \in DOMAIN pieces /\ q[i] = pieces[i])
                                   \/ (i = Len(pieces) + 1 /\ q[i] = p)
             /\ \A i \in DOMAIN pieces : i \in DOMAIN q /\ i # Len(pieces) + 1
<1> DEFINE q == Append(pieces, p)
<1>1. /\ q \in Seq(Pieces) /\ DOMAIN q = 1 .. Len(pieces) + 1 /\ DOMAIN pieces = 1 .. Len(pieces)
      /\ Len(pieces) \in Nat
  OBVIOUS
<1>2. q[Len(pieces) + 1] = p
  OBVIOUS
<1>3. \A i \in 1 .. Len(pieces) : q[i] = pieces[i]
  OBVIOUS
<1> HIDE DEF q
<1>4. \A i \in DOMAIN q : i \in 1 .. Len(pieces) \/ i = Len(pieces) + 1
  BY <1>1
<1>5. \A i \in DOMAIN pieces : i \in DOMAIN q /\ i # Len(pieces) + 1
  BY <1>1
<1> QED
  BY <1>1, <1>2, <1>3, <1>4, <1>5 DEF q

\* The fields of the pieces there are (Piece).
LEMMA PieceFields ==
  ASSUME NEW pieces \in Seq(Pieces)
  PROVE  \A i \in DOMAIN pieces : /\ pieces[i].block \in Nat
                                  /\ pieces[i].from \in Nat /\ pieces[i].to \in Nat
<1>1. \A i \in DOMAIN pieces : pieces[i] \in Pieces
  OBVIOUS
<1> QED
  BY <1>1 DEF Pieces

\* Bytes cut from the block being filled are apart from all before.
LEMMA CutKeepsInv ==
  ASSUME ArenaInv, NEW slop \in Nat, NEW bytes \in Nat \ {0}, NEW aligned \in BOOLEAN,
         slop + bytes <= remaining,
         aligned => (allocPtr.at + slop) % kAlign = 0,
         Cut(slop, bytes, aligned)
  PROVE  ArenaInv'
<1> DEFINE p == Piece(allocPtr.block, allocPtr.at + slop, bytes, aligned)
<1>1. /\ blocks \in Seq(Nat) /\ allocPtr \in [block : Nat, at : Nat]
      /\ remaining \in Nat /\ allocated \in Seq(Pieces)
  BY DEF ArenaInv, ArenaTypeOK
<1>2. /\ allocPtr.block \in DOMAIN blocks
      /\ allocPtr.at + remaining = blocks[allocPtr.block]
  BY <1>1 DEF ArenaInv, RestIsFree
<1>3. /\ p \in Pieces /\ p.block = allocPtr.block /\ p.aligned = aligned
      /\ p.from = allocPtr.at + slop /\ p.to = allocPtr.at + slop + bytes
  BY <1>1, <1>2 DEF Piece, Pieces
<1>4. /\ allocated' = Append(allocated, p) /\ blocks' = blocks
      /\ allocPtr' = [allocPtr EXCEPT !.at = @ + slop + bytes]
      /\ remaining' = remaining - (slop + bytes)
  BY DEF Cut
<1> HIDE DEF p
<1>5. /\ allocated' \in Seq(Pieces)
      /\ \A i \in DOMAIN allocated' :
           \/ (i \in DOMAIN allocated /\ allocated'[i] = allocated[i])
           \/ (i = Len(allocated) + 1 /\ allocated'[i] = p)
  BY <1>1, <1>3, <1>4, OnePieceMore
<1>6. /\ allocPtr' \in [block : Nat, at : Nat]
      /\ allocPtr'.block = allocPtr.block /\ allocPtr'.at = allocPtr.at + slop + bytes
  <2> DEFINE at == allocPtr.at + slop + bytes
  <2>1. at \in Nat
    BY <1>1
  <2>2. allocPtr' = [allocPtr EXCEPT !.at = at]
    BY <1>4
  <2> HIDE DEF at
  <2>3. allocPtr' = [block |-> allocPtr.block, at |-> at]
    BY <1>1, <2>2
  <2> QED
    BY <1>1, <2>1, <2>3 DEF at
<1>7. ArenaTypeOK'
  BY <1>1, <1>4, <1>5, <1>6 DEF ArenaTypeOK
<1>8. /\ allocPtr.block \in Nat /\ allocPtr.at \in Nat /\ blocks[allocPtr.block] \in Nat
      /\ \A i \in DOMAIN allocated :
           /\ allocated[i].from \in Nat /\ allocated[i].to \in Nat
           /\ allocated[i].block = allocPtr.block => allocated[i].to <= allocPtr.at
  BY <1>1, <1>2, PieceFields DEF ArenaInv, RestIsFree
<1>9. RestIsFree'
  <2>1. allocPtr'.block <= Len(blocks')
    BY <1>4, <1>6 DEF ArenaInv, RestIsFree
  <2>2. /\ allocPtr'.block \in DOMAIN blocks'
        /\ allocPtr'.at + remaining' = blocks'[allocPtr'.block]
    BY <1>1, <1>2, <1>4, <1>6, <1>8
  <2>3. ASSUME NEW i \in DOMAIN allocated', allocated'[i].block = allocPtr'.block
        PROVE  allocated'[i].to <= allocPtr'.at
    <3>1. CASE i \in DOMAIN allocated /\ allocated'[i] = allocated[i]
      <4>1. allocated[i].to \in Nat /\ allocated[i].to <= allocPtr.at
        BY <1>6, <1>8, <2>3, <3>1
      <4> QED
        BY <1>6, <1>8, <3>1, <4>1
    <3>2. CASE allocated'[i] = p
      BY <1>3, <1>6, <1>8, <3>2
    <3> QED
      BY <1>5, <3>1, <3>2
  <2> QED
    BY <2>1, <2>2, <2>3 DEF RestIsFree
<1>10. PiecesAreApart'
  <2>1. ASSUME NEW i \in DOMAIN allocated
        PROVE  ~Overlap(allocated[i], p) /\ ~Overlap(p, allocated[i])
    <3>1. allocated[i].block = allocPtr.block => allocated[i].to <= p.from
      BY <1>3, <1>8
    <3> QED
      BY <1>3, <1>8, <3>1 DEF Overlap
  <2>2. p.block \in DOMAIN blocks' /\ p.to <= blocks'[p.block]
    BY <1>1, <1>2, <1>3, <1>4, <1>8
  <2> QED
    BY <1>4, <1>5, <2>1, <2>2 DEF ArenaInv, PiecesAreApart
<1>11. NodesAreAligned'
  BY <1>3, <1>5 DEF ArenaInv, NodesAreAligned
<1> QED
  BY <1>7, <1>9, <1>10, <1>11 DEF ArenaInv

\* Bytes at the start of a new block are apart from all before.
LEMMA FallbackKeepsInv ==
  ASSUME ArenaInv, NEW bytes \in Nat \ {0}, NEW aligned \in BOOLEAN,
         AllocateFallback(bytes, aligned)
  PROVE  ArenaInv'
<1> DEFINE p == Piece(Len(blocks) + 1, 0, bytes, aligned)
           size == IF 4 * bytes > kArenaBlock THEN bytes ELSE kArenaBlock
<1>1. /\ blocks \in Seq(Nat) /\ allocPtr \in [block : Nat, at : Nat]
      /\ remaining \in Nat /\ allocated \in Seq(Pieces)
  BY DEF ArenaInv, ArenaTypeOK
<1>2. /\ p \in Pieces /\ p.block = Len(blocks) + 1 /\ p.aligned = aligned
      /\ p.from = 0 /\ p.to = bytes
  BY <1>1 DEF Piece, Pieces
<1>3. size \in Nat /\ bytes <= size
  BY ArenaAssumption
<1>4. allocated' = Append(allocated, p) /\ blocks' = Append(blocks, size)
  BY DEF AllocateFallback, AllocateNewBlock
<1>5. \/ UNCHANGED <<allocPtr, remaining>>
      \/ /\ allocPtr' = [block |-> Len(blocks) + 1, at |-> bytes]
         /\ remaining' = size - bytes
  BY DEF AllocateFallback
<1> HIDE DEF p, size
<1>6. /\ blocks' \in Seq(Nat) /\ Len(blocks') = Len(blocks) + 1
      /\ blocks'[Len(blocks) + 1] = size
      /\ \A b \in DOMAIN blocks : b \in DOMAIN blocks' /\ blocks'[b] = blocks[b] /\ b # Len(blocks) + 1
      /\ Len(blocks) + 1 \in DOMAIN blocks'
  BY <1>1, <1>3, <1>4
<1>7. /\ allocated' \in Seq(Pieces)
      /\ \A i \in DOMAIN allocated' :
           \/ (i \in DOMAIN allocated /\ allocated'[i] = allocated[i])
           \/ (i = Len(allocated) + 1 /\ allocated'[i] = p)
  BY <1>1, <1>2, <1>4, OnePieceMore
<1>8. \A i \in DOMAIN allocated :
        /\ allocated[i].to \in Nat
        /\ allocated[i].block \in DOMAIN blocks /\ allocated[i].block # Len(blocks) + 1
        /\ allocated[i].to <= blocks[allocated[i].block]
        /\ allocated[i].block = allocPtr.block => allocated[i].to <= allocPtr.at
  BY <1>1, <1>6, PieceFields DEF ArenaInv, RestIsFree, PiecesAreApart
<1>9. allocPtr.block <= Len(blocks) /\ allocPtr.block # Len(blocks) + 1
  BY <1>1 DEF ArenaInv, RestIsFree
<1>10. ArenaTypeOK'
  BY <1>1, <1>3, <1>5, <1>6, <1>7 DEF ArenaTypeOK
<1>11. RestIsFree'
  <2>1. CASE UNCHANGED <<allocPtr, remaining>>
    <3>1. /\ allocPtr'.block <= Len(blocks')
          /\ remaining' > 0 => /\ allocPtr'.block \in DOMAIN blocks'
                               /\ allocPtr'.at + remaining' = blocks'[allocPtr'.block]
      BY <1>1, <1>6, <1>9, <2>1 DEF ArenaInv, RestIsFree
    <3>2. ASSUME NEW i \in DOMAIN allocated', allocated'[i].block = allocPtr'.block
          PROVE  allocated'[i].to <= allocPtr'.at
      BY <1>2, <1>7, <1>8, <1>9, <2>1, <3>2
    <3> QED
      BY <3>1, <3>2 DEF RestIsFree
  <2>2. CASE /\ allocPtr' = [block |-> Len(blocks) + 1, at |-> bytes]
             /\ remaining' = size - bytes
    <3>1. /\ allocPtr'.block = Len(blocks) + 1 /\ allocPtr'.at = bytes
      BY <2>2
    <3>2. /\ allocPtr'.block <= Len(blocks') /\ allocPtr'.block \in DOMAIN blocks'
          /\ allocPtr'.at + remaining' = blocks'[allocPtr'.block]
      BY <1>1, <1>3, <1>6, <2>2, <3>1
    <3>3. ASSUME NEW i \in DOMAIN allocated', allocated'[i].block = allocPtr'.block
          PROVE  allocated'[i].to <= allocPtr'.at
      BY <1>2, <1>7, <1>8, <3>1, <3>3
    <3> QED
      BY <3>2, <3>3 DEF RestIsFree
  <2> QED
    BY <1>5, <2>1, <2>2
<1>12. PiecesAreApart'
  <2>1. ASSUME NEW i \in DOMAIN allocated
        PROVE  ~Overlap(allocated[i], p) /\ ~Overlap(p, allocated[i])
    BY <1>2, <1>8 DEF Overlap
  <2>2. p.block \in DOMAIN blocks' /\ p.to <= blocks'[p.block]
    BY <1>2, <1>3, <1>6
  <2> QED
    BY <1>6, <1>7, <1>8, <2>1, <2>2 DEF ArenaInv, PiecesAreApart
<1>13. NodesAreAligned'
  <2>1. 0 % kAlign = 0
    BY ArenaAssumption
  <2> QED
    BY <1>2, <1>7, <2>1 DEF ArenaInv, NodesAreAligned
<1> QED
  BY <1>10, <1>11, <1>12, <1>13 DEF ArenaInv

(***************************************************************************)
(* The theorem.                                                            *)
(***************************************************************************)

\* Whatever is asked for, in any order, is handed out once and aligned.
THEOREM ArenaIsSound == ArenaSpec => []AllocationsAreSound
<1>1. ArenaInit => ArenaInv
  BY DEF ArenaInit, ArenaInv, ArenaTypeOK, RestIsFree, PiecesAreApart, NodesAreAligned
<1>2. ArenaInv /\ [ArenaNext]_arenaVars => ArenaInv'
  <2> SUFFICES ASSUME ArenaInv, [ArenaNext]_arenaVars PROVE ArenaInv'
    OBVIOUS
  <2>1. ASSUME NEW bytes \in ArenaSizes, Allocate(bytes) PROVE ArenaInv'
    <3>1. bytes \in Nat \ {0}
      BY ArenaAssumption
    <3>2. remaining \in Nat
      BY DEF ArenaInv, ArenaTypeOK
    <3>3. CASE bytes <= remaining
      <4>1. Cut(0, bytes, FALSE)
        BY ONLY <2>1, <3>3 DEF Allocate
      <4>2. 0 + bytes <= remaining
        BY <3>1, <3>2, <3>3
      <4> QED
        BY <3>1, <4>1, <4>2, CutKeepsInv
    <3>4. CASE ~(bytes <= remaining)
      BY <2>1, <3>1, <3>4, FallbackKeepsInv DEF Allocate
    <3> QED
      BY <3>3, <3>4
  <2>2. ASSUME NEW bytes \in ArenaSizes, AllocateAligned(bytes) PROVE ArenaInv'
    <3>1. bytes \in Nat \ {0}
      BY ArenaAssumption
    <3>2. remaining \in Nat /\ allocPtr.at \in Nat
      BY DEF ArenaInv, ArenaTypeOK
    <3>3. Slop(allocPtr.at) \in Nat /\ (allocPtr.at + Slop(allocPtr.at)) % kAlign = 0
      BY <3>2, SlopAligns
    <3>4. CASE bytes + Slop(allocPtr.at) <= remaining
      <4>1. Cut(Slop(allocPtr.at), bytes, TRUE)
        BY ONLY <2>2, <3>4 DEF AllocateAligned
      <4>2. Slop(allocPtr.at) + bytes <= remaining
        BY <3>1, <3>2, <3>3, <3>4
      <4> QED
        BY <3>1, <3>3, <4>1, <4>2, CutKeepsInv
    <3>5. CASE ~(bytes + Slop(allocPtr.at) <= remaining)
      BY <2>2, <3>1, <3>5, FallbackKeepsInv DEF AllocateAligned
    <3> QED
      BY <3>4, <3>5
  <2>3. CASE UNCHANGED arenaVars
    BY <2>3 DEF arenaVars, ArenaInv, ArenaTypeOK, RestIsFree, PiecesAreApart, NodesAreAligned
  <2> QED
    BY <2>1, <2>2, <2>3 DEF ArenaNext
<1>3. ArenaInv => AllocationsAreSound
  BY DEF ArenaInv, AllocationsAreSound
<1> QED
  BY <1>1, <1>2, <1>3, PTL DEF ArenaSpec
-----------------------------------------------------------------------------
(***************************************************************************)
(* The table cache.                                                        *)
(***************************************************************************)
CacheSpec == CacheInit /\ [][CacheNext]_cacheVars

IsShard(c) ==
  c = [length |-> c.length, elems |-> c.elems, list |-> c.list,
       lru |-> c.lru, inUse |-> c.inUse, usage |-> c.usage]
IsHandles(h) == h \in [Addresses -> Handle \cup {NoHandle}]
ShardOf(h, a) == Shard(Hash[h[a].key])

(* The addresses of the handles in the cache, of a shard.                  *)
Cached(h, s) == {a \in Addresses : h[a] # NoHandle /\ h[a].inCache /\ ShardOf(h, a) = s}

(* The hash table of a shard leads to the handles of S and to no others.   *)
TableHolds(c, h, S) ==
  /\ IsShard(c) /\ S \subseteq Addresses /\ \A a \in S : h[a] \in Handle
  /\ c.length \in Nat \ {0} /\ c.list \in [0 .. c.length - 1 -> SUBSET Addresses]
  /\ \A b \in 0 .. c.length - 1 : c.list[b] = {a \in S : BucketOf(c, h[a].key) = b}
  /\ \A a, b \in S : h[a].key = h[b].key => a = b
  /\ c.elems = Cardinality(S)

(* Its lists have each handle of S where its references say.               *)
ListsHold(c, h, S) ==
  /\ c.lru \in Seq(Addresses) /\ \A i, j \in DOMAIN c.lru : c.lru[i] = c.lru[j] => i = j
  /\ Range(c.lru) = {a \in S : h[a].refs = 1}
  /\ c.inUse = {a \in S : h[a].refs # 1}
  /\ c.usage = Cardinality(S)

\* The addresses are finitely many, and none is NULL.
LEMMA AddressFacts ==
  /\ IsFiniteSet(Addresses)
  /\ \A S \in SUBSET Addresses : IsFiniteSet(S) /\ Cardinality(S) \in Nat
  /\ Addresses \subseteq Nat /\ NoHandle \notin Addresses /\ NoHandle \notin Handle
<1>1. Cardinality(Tables) \in Nat /\ Cardinality(CacheThreads) \in Nat
  BY CacheAssumption, FS_CardinalityType
<1>2. IsFiniteSet(Addresses) /\ Addresses \subseteq Nat
  <2> DEFINE n == Cardinality(Tables) + Cardinality(CacheThreads)
  <2>1. n \in Int
    BY <1>1
  <2> HIDE DEF n
  <2>2. IsFiniteSet(1 .. n)
    BY <2>1, FS_Interval
  <2> QED BY <2>1, <2>2 DEF Addresses, n
<1>3. \A S \in SUBSET Addresses : IsFiniteSet(S)
  BY <1>2, FS_Subset
<1> QED BY <1>2, <1>3, FS_CardinalityType, NoHandleAssumption

\* A bucket is one of the table, a shard one of the cache.
LEMMA BucketFacts ==
  /\ \A c : c.length \in Nat \ {0} =>
       \A key \in Tables : BucketOf(c, key) \in 0 .. c.length - 1
  /\ \A key \in Tables : Shard(Hash[key]) \in Shards
<1>1. \A key \in Tables : Hash[key] \in Nat /\ Hash[key] < kNumShards * HashSpan
  BY CacheAssumption
<1>2. ASSUME NEW n \in Nat \ {0}, NEW x \in Nat PROVE x % n \in 0 .. n - 1
  OBVIOUS
<1>3. ASSUME NEW n \in Nat \ {0}, NEW k \in Nat \ {0}, NEW x \in Nat, x < k * n PROVE x \div n \in 0 .. k - 1
  <2> DEFINE q == x \div n
  <2>1. q \in Nat /\ n * q <= x
    OBVIOUS
  <2>2. ASSUME q >= k PROVE FALSE
    <3>1. q - k \in Nat
      BY <2>1, <2>2
    <3>2. n * (q - k) >= 0 /\ n * (q - k) = n * q - n * k /\ k * n = n * k
      BY <2>1, <3>1
    <3> HIDE DEF q
    <3> QED BY <2>1, <3>2, <1>3
  <2> QED BY <2>1, <2>2
<1>4. ASSUME NEW c, c.length \in Nat \ {0}, NEW key \in Tables PROVE BucketOf(c, key) \in 0 .. c.length - 1
  BY <1>1, <1>2, <1>4 DEF BucketOf, Bucket
<1>5. ASSUME NEW key \in Tables PROVE Shard(Hash[key]) \in Shards
  BY <1>1, <1>3, CacheAssumption DEF Shard, Shards
<1> QED BY <1>4, <1>5
-----------------------------------------------------------------------------
\* FindPointer: the handle of the key, or NULL when there is none.
LEMMA LookupFinds ==
  ASSUME NEW c, NEW h, NEW S, TableHolds(c, h, S), NEW key \in Tables
  PROVE  /\ TableLookup(c, h, key) = NoHandle => \A a \in S : h[a].key # key
         /\ TableLookup(c, h, key) # NoHandle =>
              TableLookup(c, h, key) \in S /\ h[TableLookup(c, h, key)].key = key
         /\ \A a \in S : h[a].key = key => TableLookup(c, h, key) = a
<1> DEFINE chain == {a \in c.list[BucketOf(c, key)] : h[a].key = key}
<1>1. BucketOf(c, key) \in 0 .. c.length - 1
  BY BucketFacts DEF TableHolds
<1>2. chain = {a \in S : h[a].key = key}
  BY <1>1 DEF TableHolds, BucketOf
<1>3. NoHandle \notin chain
  BY <1>2, AddressFacts DEF TableHolds
<1>4. TableLookup(c, h, key) = IF chain = {} THEN NoHandle ELSE CHOOSE a \in chain : TRUE
  BY DEF TableLookup
<1>5. chain # {} => TableLookup(c, h, key) \in chain
  <2> HIDE DEF chain
  <2> QED BY <1>4
<1>6. \A a, b \in chain : a = b
  BY <1>2 DEF TableHolds
<1> QED BY <1>2, <1>3, <1>4, <1>5, <1>6

\* The table depends on the keys of its handles only.
LEMMA TableOfKeys ==
  ASSUME NEW c, NEW h, NEW S, TableHolds(c, h, S), NEW d, IsShard(d),
         d.length = c.length, d.list = c.list, d.elems = c.elems,
         NEW g, \A a \in S : g[a] \in Handle /\ g[a].key = h[a].key
  PROVE  TableHolds(d, g, S)
<1>1. \A b \in 0 .. d.length - 1 : d.list[b] = {a \in S : BucketOf(d, g[a].key) = b}
  BY DEF TableHolds, BucketOf
<1> QED BY <1>1 DEF TableHolds

\* HandleTable::Remove.
LEMMA RemoveHolds ==
  ASSUME NEW c, NEW h, NEW S, TableHolds(c, h, S), NEW key \in Tables,
         TableLookup(c, h, key) # NoHandle
  PROVE  /\ TableHolds(TableRemove(c, h, key), h, S \ {TableLookup(c, h, key)})
         /\ TableRemove(c, h, key).lru = c.lru
         /\ TableRemove(c, h, key).inUse = c.inUse
         /\ TableRemove(c, h, key).usage = c.usage
<1> DEFINE x == TableLookup(c, h, key)
           b0 == BucketOf(c, key)
           d == TableRemove(c, h, key)
<1>1. x \in S /\ h[x].key = key
  BY LookupFinds
<1>2. b0 \in 0 .. c.length - 1
  BY BucketFacts DEF TableHolds
<1>3. d = [c EXCEPT !.list[b0] = @ \ {x}, !.elems = @ - 1]
  BY DEF TableRemove
<1> HIDE DEF x, d
<1>4. /\ IsShard(d) /\ d.length = c.length /\ d.list = [c.list EXCEPT ![b0] = @ \ {x}]
      /\ d.elems = c.elems - 1 /\ d.lru = c.lru /\ d.inUse = c.inUse /\ d.usage = c.usage
  BY <1>3 DEF TableHolds, IsShard
<1>5. d.list \in [0 .. d.length - 1 -> SUBSET Addresses]
  BY <1>2, <1>4 DEF TableHolds
<1>6. d.elems = Cardinality(S \ {x})
  BY <1>1, <1>4, AddressFacts, FS_RemoveElement DEF TableHolds
<1>7. \A b \in 0 .. d.length - 1 : d.list[b] = {a \in S \ {x} : BucketOf(d, h[a].key) = b}
  <2> TAKE b \in 0 .. d.length - 1
  <2>0. \A a \in S : BucketOf(d, h[a].key) = BucketOf(c, h[a].key)
    BY <1>4 DEF BucketOf
  <2>1. c.list[b] = {a \in S : BucketOf(c, h[a].key) = b}
    BY <1>4 DEF TableHolds
  <2>2. CASE b = b0
    BY <1>2, <1>4, <2>0, <2>1, <2>2 DEF TableHolds
  <2>3. CASE b # b0
    <3>1. d.list[b] = c.list[b] /\ BucketOf(c, h[x].key) # b
      BY <1>1, <1>2, <1>4, <2>3 DEF TableHolds
    <3> QED BY <2>0, <2>1, <3>1
  <2> QED BY <2>2, <2>3
<1>8. TableHolds(d, h, S \ {x})
  BY <1>4, <1>5, <1>6, <1>7 DEF TableHolds
<1> QED BY <1>4, <1>8 DEF x, d

\* A function applied again and again has values for as long as one likes.
LEMMA Iteration ==
  ASSUME NEW n \in Nat, NEW X, NEW x0 \in X, NEW F \in [X -> X]
  PROVE  \E f \in [0 .. n -> X] : f = [i \in 0 .. n |-> IF i = 0 THEN x0 ELSE F[f[i - 1]]]
<1> DEFINE Values(m, f) == f = [i \in 0 .. m |-> IF i = 0 THEN x0 ELSE F[f[i - 1]]]
           Good == {m \in 0 .. n : \E f \in [0 .. m -> X] : Values(m, f)}
<1>1. 0 \in Good
  <2> DEFINE f == [i \in 0 .. 0 |-> x0]
  <2>1. f \in [0 .. 0 -> X] /\ Values(0, f)
    OBVIOUS
  <2>2. 0 \in 0 .. n
    OBVIOUS
  <2> HIDE DEF f, Values
  <2> QED BY <2>1, <2>2
<1>2. ASSUME NEW m \in 0 .. n, m \in Good, m < n PROVE m + 1 \in Good
  <2>1. PICK f \in [0 .. m -> X] : Values(m, f)
    BY <1>2
  <2> DEFINE g == [i \in 0 .. m + 1 |-> IF i = m + 1 THEN F[f[m]] ELSE f[i]]
  <2>2. g \in [0 .. m + 1 -> X]
    BY <2>1
  <2>3. \A i \in 0 .. m + 1 : g[i] = IF i = 0 THEN x0 ELSE F[g[i - 1]]
    <3> TAKE i \in 0 .. m + 1
    <3>1. CASE i = m + 1
      BY <3>1
    <3>2. CASE i # m + 1
      <4>1. i \in 0 .. m /\ g[i] = f[i] /\ (i # 0 => g[i - 1] = f[i - 1])
        BY <3>2
      <4>2. f[i] = IF i = 0 THEN x0 ELSE F[f[i - 1]]
        BY <2>1, <4>1
      <4> QED BY <4>1, <4>2
    <3> QED BY <3>1, <3>2
  <2>4. g = [i \in 0 .. m + 1 |-> g[i]]
    OBVIOUS
  <2> HIDE DEF g
  <2>5. Values(m + 1, g)
    BY <2>3, <2>4
  <2>6. m + 1 \in 0 .. n
    BY <1>2
  <2> HIDE DEF Values
  <2> QED BY <2>2, <2>5, <2>6
<1>3. n \in Good
  <2> HIDE DEF Good
  <2>1. \A i \in 0 .. n : i \in Good /\ i < n => i + 1 \in Good
    BY <1>2
  <2>2. 0 .. n \subseteq Good
    BY <1>1, <2>1, InductionUpTo
  <2> QED BY <2>2
<1> QED BY <1>3

\* The length of a table stays a length.
LEMMA NewLengthType ==
  ASSUME NEW elems \in Nat
  PROVE  NewLength(elems) \in Nat \ {0}
<1> DEFINE X == Nat \ {0}
           Step(x) == IF x < elems THEN 2 * x ELSE x
           F == [x \in X |-> Step(x)]
           Values(f) == f = [i \in 0 .. elems |->
                               IF i = 0 THEN kFirstLength
                               ELSE IF f[i - 1] < elems THEN 2 * f[i - 1] ELSE f[i - 1]]
<1>1. kFirstLength \in X /\ F \in [X -> X]
  BY CacheAssumption
<1>2. \E f : Values(f)
  <2> HIDE DEF X, F
  <2>1. PICK f \in [0 .. elems -> X] :
          f = [i \in 0 .. elems |-> IF i = 0 THEN kFirstLength ELSE F[f[i - 1]]]
    BY <1>1, Iteration
  <2>2. \A i \in 0 .. elems : i # 0 => f[i - 1] \in X
    <3>1. \A i \in 0 .. elems : i # 0 => i - 1 \in 0 .. elems
      OBVIOUS
    <3> QED BY <2>1, <3>1
  <2>3. \A i \in 0 .. elems : i # 0 => F[f[i - 1]] = Step(f[i - 1])
    BY <2>2 DEF F
  <2>4. Values(f)
    BY <2>1, <2>3
  <2> QED BY <2>4
<1>3. PICK f : Values(f) /\ NewLength(elems) = f[elems]
  <2>1. Values(CHOOSE f : Values(f))
    BY <1>2
  <2>2. NewLength(elems) = (CHOOSE f : Values(f))[elems]
    BY DEF NewLength
  <2> QED BY <2>1, <2>2
<1> DEFINE Good == {i \in 0 .. elems : f[i] \in X}
<1>4. 0 \in Good
  BY <1>1, <1>3
<1>5. ASSUME NEW i \in 0 .. elems, i \in Good, i < elems PROVE i + 1 \in Good
  <2>1. i + 1 \in 0 .. elems /\ (i + 1) - 1 = i /\ i + 1 # 0
    BY <1>5
  <2>2. f[i + 1] = IF f[i] < elems THEN 2 * f[i] ELSE f[i]
    BY <1>3, <2>1
  <2> QED BY <1>5, <2>1, <2>2
<1>6. elems \in Good
  <2> HIDE DEF Good
  <2>1. \A i \in 0 .. elems : i \in Good /\ i < elems => i + 1 \in Good
    BY <1>5
  <2>2. 0 .. elems \subseteq Good
    BY <1>4, <2>1, InductionUpTo
  <2> QED BY <2>2
<1> QED BY <1>3, <1>6

\* HandleTable::Resize.
LEMMA ResizeHolds ==
  ASSUME NEW c, NEW h, NEW S, TableHolds(c, h, S)
  PROVE  /\ TableHolds(Resize(c, h), h, S)
         /\ Resize(c, h).lru = c.lru
         /\ Resize(c, h).inUse = c.inUse
         /\ Resize(c, h).usage = c.usage
<1> DEFINE length == NewLength(c.elems)
           all == UNION {c.list[b] : b \in 0 .. c.length - 1}
           list == [b \in 0 .. length - 1 |-> {a \in all : Bucket(Hash[h[a].key], length) = b}]
           d == Resize(c, h)
<1>1. length \in Nat \ {0}
  BY NewLengthType, AddressFacts DEF TableHolds
<1>2. d = [c EXCEPT !.length = length, !.list = list]
  BY DEF Resize
<1>3. all = S
  <2>1. \A a \in S : h[a].key \in Tables
    BY DEF TableHolds, Handle
  <2>2. \A a \in S : BucketOf(c, h[a].key) \in 0 .. c.length - 1
    BY <2>1, BucketFacts DEF TableHolds
  <2> QED BY <2>2 DEF TableHolds
<1> HIDE DEF d, all, length
<1>4. /\ IsShard(d) /\ d.length = length /\ d.list = list /\ d.elems = c.elems
      /\ d.lru = c.lru /\ d.inUse = c.inUse /\ d.usage = c.usage
  BY <1>2 DEF TableHolds, IsShard
<1>5. d.list \in [0 .. d.length - 1 -> SUBSET Addresses]
  BY <1>3, <1>4 DEF TableHolds
<1>6. \A b \in 0 .. d.length - 1 : d.list[b] = {a \in S : BucketOf(d, h[a].key) = b}
  BY <1>3, <1>4 DEF BucketOf
<1>7. TableHolds(d, h, S)
  BY <1>1, <1>4, <1>5, <1>6 DEF TableHolds
<1> QED BY <1>4, <1>7 DEF d

\* HandleTable::Insert: the handle takes the place of one with its key.
LEMMA InsertHolds ==
  ASSUME NEW c, NEW h, NEW S, TableHolds(c, h, S), NEW key \in Tables,
         NEW a \in Addresses \ S, h[a] \in Handle, h[a].key = key
  PROVE  /\ TableHolds(TableInsert(c, h, key, a), h, (S \ {TableLookup(c, h, key)}) \cup {a})
         /\ TableInsert(c, h, key, a).lru = c.lru
         /\ TableInsert(c, h, key, a).inUse = c.inUse
         /\ TableInsert(c, h, key, a).usage = c.usage
<1> DEFINE old == TableLookup(c, h, key)
           b0 == BucketOf(c, key)
           d == [c EXCEPT !.list[b0] = (@ \ {old}) \cup {a},
                          !.elems = IF old = NoHandle THEN @ + 1 ELSE @]
           R == (S \ {old}) \cup {a}
<1>1. /\ old = NoHandle => \A x \in S : h[x].key # key
      /\ old # NoHandle => old \in S /\ h[old].key = key
      /\ \A x \in S : h[x].key = key => old = x
  BY LookupFinds
<1>2. b0 \in 0 .. c.length - 1
  BY BucketFacts DEF TableHolds
<1>3. TableInsert(c, h, key, a) = d \/ TableInsert(c, h, key, a) = Resize(d, h)
  BY DEF TableInsert
<1>0. NoHandle \notin S /\ S \in SUBSET Addresses
  BY AddressFacts DEF TableHolds
<1> DEFINE elems == IF old = NoHandle THEN c.elems + 1 ELSE c.elems
<1>d. d = [c EXCEPT !.list[b0] = (@ \ {old}) \cup {a}, !.elems = elems]
  OBVIOUS
<1> HIDE DEF old, d, elems
<1>4. /\ IsShard(d) /\ d.length = c.length /\ d.list = [c.list EXCEPT ![b0] = (@ \ {old}) \cup {a}]
      /\ d.elems = elems /\ d.lru = c.lru /\ d.inUse = c.inUse /\ d.usage = c.usage
  BY <1>d DEF TableHolds, IsShard
<1>5. d.list \in [0 .. d.length - 1 -> SUBSET Addresses]
  BY <1>2, <1>4 DEF TableHolds
<1>6. d.elems = Cardinality(R)
  <2>1. IsFiniteSet(S) /\ Cardinality(S) \in Nat
    BY <1>0, AddressFacts
  <2>2. IsFiniteSet(S \ {old}) /\ Cardinality(S \ {old}) = IF old \in S THEN Cardinality(S) - 1 ELSE Cardinality(S)
    BY <2>1, FS_RemoveElement
  <2>3. Cardinality(R) = Cardinality(S \ {old}) + 1
    BY <2>2, FS_AddElement
  <2>4. old = NoHandle <=> old \notin S
    BY <1>0, <1>1
  <2> QED BY <1>4, <2>1, <2>2, <2>3, <2>4 DEF TableHolds, elems
<1>7. \A b \in 0 .. d.length - 1 : d.list[b] = {x \in R : BucketOf(d, h[x].key) = b}
  <2> TAKE b \in 0 .. d.length - 1
  <2>0. BucketOf(d, h[a].key) = b0 /\ \A x \in S : BucketOf(d, h[x].key) = BucketOf(c, h[x].key)
    BY <1>4 DEF BucketOf
  <2>1. c.list[b] = {x \in S : BucketOf(c, h[x].key) = b}
    BY <1>4 DEF TableHolds
  <2>2. CASE b = b0
    BY <1>2, <1>4, <2>0, <2>1, <2>2 DEF TableHolds
  <2>3. CASE b # b0
    <3>1. d.list[b] = c.list[b]
      BY <1>2, <1>4, <2>3 DEF TableHolds
    <3>2. old \in S => BucketOf(c, h[old].key) # b
      BY <1>0, <1>1, <2>3
    <3> QED BY <2>0, <2>1, <2>3, <3>1, <3>2
  <2> QED BY <2>2, <2>3
<1>8. \A x, y \in R : h[x].key = h[y].key => x = y
  BY <1>1 DEF TableHolds
<1>9. TableHolds(d, h, R)
  BY <1>4, <1>5, <1>6, <1>7, <1>8 DEF TableHolds
<1> HIDE DEF R
<1>10. /\ TableHolds(Resize(d, h), h, R)
       /\ Resize(d, h).lru = d.lru /\ Resize(d, h).inUse = d.inUse /\ Resize(d, h).usage = d.usage
  BY <1>9, ResizeHolds
<1> QED BY <1>3, <1>4, <1>9, <1>10 DEF R, old
-----------------------------------------------------------------------------
(* Each address has as many references as its handle says, those of users  *)
(* and one of the cache.                                                   *)
RefsAgree(h, u) ==
  /\ u \in [Addresses -> Nat]
  /\ \A a \in Addresses :
       IF h[a] = NoHandle THEN u[a] = 0
       ELSE h[a].refs = u[a] + (IF h[a].inCache THEN 1 ELSE 0)

(* A shard s as calls find it and leave it.                                *)
ShardHolds(c, h, s) == TableHolds(c, h, Cached(h, s)) /\ ListsHold(c, h, Cached(h, s))
ShardState(m, u, s) ==
  /\ m = [c |-> m.c, h |-> m.h]
  /\ IsHandles(m.h) /\ RefsAgree(m.h, u) /\ ShardHolds(m.c, m.h, s)

(* Between h and g handles of the shard s may have been freed or left the  *)
(* cache; none is new.                                                     *)
Kept(h, g, s) ==
  \A x \in Addresses :
    /\ g[x] # NoHandle => /\ h[x] # NoHandle /\ g[x].key = h[x].key
                          /\ g[x].inCache => h[x].inCache
    /\ (h[x] # NoHandle /\ ShardOf(h, x) # s) => g[x] = h[x]

\* Calls on a shard one after the other are like one.
LEMMA KeptTwice ==
  ASSUME NEW f, NEW g, NEW h, NEW s, Kept(f, g, s), Kept(g, h, s)
  PROVE  Kept(f, h, s)
BY DEF Kept, ShardOf

\* LRU_Remove takes the handle from either list.
LEMMA LRURemoveFacts ==
  ASSUME NEW c, IsShard(c), c.lru \in Seq(Addresses),
         \A i, j \in DOMAIN c.lru : c.lru[i] = c.lru[j] => i = j, NEW a
  PROVE  /\ IsShard(LRURemove(c, a))
         /\ LRURemove(c, a).length = c.length /\ LRURemove(c, a).list = c.list
         /\ LRURemove(c, a).elems = c.elems /\ LRURemove(c, a).usage = c.usage
         /\ LRURemove(c, a).inUse = c.inUse \ {a}
         /\ LRURemove(c, a).lru \in Seq(Addresses)
         /\ Range(LRURemove(c, a).lru) = Range(c.lru) \ {a}
         /\ \A i, j \in DOMAIN LRURemove(c, a).lru :
              LRURemove(c, a).lru[i] = LRURemove(c, a).lru[j] => i = j
<1> DEFINE s == c.lru
           T == Addresses \ {a}
           r == Filter(s, T)
           d == LRURemove(c, a)
<1>1. d = [c EXCEPT !.lru = r, !.inUse = @ \ {a}]
  BY DEF LRURemove
<1>s. s \in Seq(Addresses)
  OBVIOUS
<1> HIDE DEF s, T
<1>2. /\ r \in Seq(Addresses)
      /\ \A i \in DOMAIN r : r[i] \in T
      /\ \A i \in DOMAIN s : s[i] \in T => \E k \in DOMAIN r : r[k] = s[i]
  BY <1>s, FilterFacts
<1>3. PICK from \in [DOMAIN r -> DOMAIN s] :
        /\ \A i \in DOMAIN r : r[i] = s[from[i]]
        /\ \A i, j \in DOMAIN r : i < j => from[i] < from[j]
  <2>1. \E from : Embeds(from, Filter(s, T), s)
    BY <1>s, FilterEmbeds
  <2> QED BY <2>1 DEF Embeds
<1> HIDE DEF r, d
<1>4. /\ IsShard(d) /\ d.length = c.length /\ d.list = c.list /\ d.elems = c.elems
      /\ d.usage = c.usage /\ d.inUse = c.inUse \ {a} /\ d.lru = r
  BY <1>1 DEF IsShard
<1>5. Range(r) = Range(s) \ {a}
  <2>1. \A i \in DOMAIN s : s[i] \in Addresses
    BY <1>s, LenProperties
  <2> QED BY <1>2, <1>3, <2>1 DEF Range, T
<1>6. \A i, j \in DOMAIN r : r[i] = r[j] => i = j
  <2> SUFFICES ASSUME NEW i \in DOMAIN r, NEW j \in DOMAIN r, r[i] = r[j] PROVE i = j
    OBVIOUS
  <2>1. s[from[i]] = s[from[j]] /\ from[i] \in DOMAIN s /\ from[j] \in DOMAIN s
    BY <1>3
  <2>2. from[i] = from[j]
    BY <2>1 DEF s
  <2>3. DOMAIN r \subseteq Int /\ DOMAIN s \subseteq Int
    BY <1>2, <1>s, LenProperties
  <2>4. from[i] \in Int
    BY <2>1, <2>3
  <2>5. i \in Int /\ j \in Int
    BY <2>3
  <2> QED BY <1>3, <2>2, <2>4, <2>5
<1> QED BY <1>2, <1>4, <1>5, <1>6 DEF s, d

\* LRU_Append puts it at the new end.
LEMMA LRUAppendFacts ==
  ASSUME NEW s \in Seq(Addresses), \A i, j \in DOMAIN s : s[i] = s[j] => i = j,
         NEW a \in Addresses, a \notin Range(s)
  PROVE  /\ Append(s, a) \in Seq(Addresses) /\ Range(Append(s, a)) = Range(s) \cup {a}
         /\ \A i, j \in DOMAIN Append(s, a) : Append(s, a)[i] = Append(s, a)[j] => i = j
<1> DEFINE n == Len(s)
           r == Append(s, a)
<1>1. n \in Nat /\ DOMAIN s = 1 .. n
  BY LenProperties
<1>2. r \in Seq(Addresses) /\ DOMAIN r = 1 .. n + 1 /\ r[n + 1] = a /\ \A i \in 1 .. n : r[i] = s[i]
  BY AppendProperties, LenProperties
<1> HIDE DEF n, r
<1>3. \A i \in 1 .. n + 1 : i = n + 1 \/ i \in 1 .. n
  BY <1>1
<1>4. \A i \in 1 .. n : r[i] \in Range(s) /\ r[i] # a
  BY <1>1, <1>2 DEF Range
<1>5. Range(r) = Range(s) \cup {a}
  <2>1. 1 .. n \subseteq 1 .. n + 1 /\ n + 1 \in 1 .. n + 1
    BY <1>1
  <2> QED BY <1>1, <1>2, <1>3, <2>1 DEF Range
<1>6. \A i, j \in 1 .. n + 1 : r[i] = r[j] => i = j
  BY <1>1, <1>2, <1>3, <1>4
<1> QED BY <1>2, <1>5, <1>6 DEF r

\* A call that gives a handle a reference more or less keeps its key and place in
\* the cache.
LEMMA SameCached ==
  ASSUME NEW h, NEW g, NEW s, IsHandles(h),
         NEW a \in Addresses, h[a] # NoHandle,
         g[a] = NoHandle => ~h[a].inCache,
         g[a] # NoHandle => g[a].key = h[a].key /\ g[a].inCache = h[a].inCache,
         \A x \in Addresses \ {a} : g[x] = h[x]
  PROVE  Cached(g, s) = Cached(h, s)
<1>1. \A x \in Addresses : (g[x] # NoHandle /\ g[x].inCache /\ ShardOf(g, x) = s)
                       <=> (h[x] # NoHandle /\ h[x].inCache /\ ShardOf(h, x) = s)
  BY DEF ShardOf
<1> QED BY <1>1 DEF Cached

\* The fields of a handle.
LEMMA HandleFields ==
  \A r \in Handle : r.refs \in Nat \ {0} /\ r.key \in Tables /\ r.inCache \in BOOLEAN
BY DEF Handle

\* A handle with another number of references.
LEMMA HandleRefs ==
  \A r \in Handle, n \in Nat \ {0} : \A q : q = [r EXCEPT !.refs = n] =>
    q \in Handle /\ q.refs = n /\ q.key = r.key /\ q.inCache = r.inCache
BY DEF Handle

\* A handle that leaves the cache.
LEMMA HandleOut ==
  \A r \in Handle : \A q : q = [r EXCEPT !.inCache = FALSE] =>
    q \in Handle /\ q.refs = r.refs /\ q.key = r.key /\ ~q.inCache
BY DEF Handle

\* LRUCache::Ref.
LEMMA RefKeepsState ==
  ASSUME NEW m, NEW u, NEW s, ShardState(m, u, s), NEW a \in Cached(m.h, s)
  PROVE  /\ ShardState(Ref(m, a), [u EXCEPT ![a] = @ + 1], s)
         /\ Kept(m.h, Ref(m, a).h, s)
         /\ \A x \in Addresses : m.h[x] # NoHandle => Ref(m, a).h[x] # NoHandle
<1> DEFINE c == m.c
           h == m.h
           S == Cached(h, s)
           g == [h EXCEPT ![a].refs = @ + 1]
           d == IF h[a].refs = 1 /\ h[a].inCache
                THEN [LRURemove(c, a) EXCEPT !.inUse = @ \cup {a}] ELSE c
           v == [u EXCEPT ![a] = @ + 1]
<1>1. Ref(m, a) = [c |-> d, h |-> g]
  BY DEF Ref
<1>2. IsHandles(h) /\ RefsAgree(h, u) /\ TableHolds(c, h, S) /\ ListsHold(c, h, S)
  BY DEF ShardState, ShardHolds
<1>3. a \in Addresses /\ h[a] \in Handle /\ h[a] # NoHandle /\ h[a].inCache /\ ShardOf(h, a) = s /\ a \in S
  BY <1>2 DEF Cached, IsHandles
<1> HIDE DEF c, h, S
<1>4. /\ g[a] \in Handle /\ g[a].key = h[a].key /\ g[a].inCache = h[a].inCache
      /\ g[a].refs = h[a].refs + 1 /\ h[a].refs \in Nat \ {0}
      /\ \A x \in Addresses \ {a} : g[x] = h[x]
      /\ IsHandles(g)
  <2>1. h \in [Addresses -> Handle \cup {NoHandle}]
    BY <1>2 DEF IsHandles
  <2>2. g[a] = [h[a] EXCEPT !.refs = @ + 1] /\ \A x \in Addresses \ {a} : g[x] = h[x]
    BY <1>3, <2>1
  <2>3. /\ g[a] \in Handle /\ g[a].key = h[a].key /\ g[a].inCache = h[a].inCache
        /\ g[a].refs = h[a].refs + 1 /\ h[a].refs \in Nat \ {0}
    <3>1. h[a].refs \in Nat \ {0} /\ h[a].refs + 1 \in Nat \ {0}
      BY <1>3, HandleFields
    <3>2. g[a] = [h[a] EXCEPT !.refs = h[a].refs + 1]
      BY <2>2
    <3> DEFINE r == h[a]
               q == g[a]
               n == h[a].refs + 1
    <3>3. r \in Handle /\ n \in Nat \ {0} /\ q = [r EXCEPT !.refs = n]
      BY <1>3, <3>1, <3>2
    <3>4. q \in Handle /\ q.refs = n /\ q.key = r.key /\ q.inCache = r.inCache
      <4> HIDE DEF r, q, n
      <4> QED BY <3>3, HandleRefs
    <3> QED BY <3>1, <3>4
  <2>4. IsHandles(g)
    BY <2>1, <2>3 DEF IsHandles
  <2> QED BY <2>2, <2>3, <2>4
<1>n. g[a] # NoHandle
  BY <1>4, AddressFacts
<1>5. Cached(g, s) = S
  <2> HIDE DEF g
  <2>1. IsHandles(h) /\ a \in Addresses /\ h[a] # NoHandle
    BY <1>2, <1>3
  <2>2. Cached(g, s) = Cached(h, s)
    BY <1>4, <1>n, <2>1, SameCached
  <2> QED BY <2>2 DEF S
<1>6. /\ IsShard(d) /\ d.length = c.length /\ d.list = c.list /\ d.elems = c.elems /\ d.usage = c.usage
      /\ d.lru \in Seq(Addresses) /\ \A i, j \in DOMAIN d.lru : d.lru[i] = d.lru[j] => i = j
      /\ Range(d.lru) = Range(c.lru) \ {a} /\ d.inUse = c.inUse \cup {a}
  <2> DEFINE e == LRURemove(c, a)
  <2>1. CASE h[a].refs = 1
    <3>1. /\ IsShard(e) /\ e.length = c.length /\ e.list = c.list /\ e.elems = c.elems
          /\ e.usage = c.usage /\ e.inUse = c.inUse \ {a} /\ e.lru \in Seq(Addresses)
          /\ Range(e.lru) = Range(c.lru) \ {a} /\ \A i, j \in DOMAIN e.lru : e.lru[i] = e.lru[j] => i = j
      <4>1. IsShard(c) /\ c.lru \in Seq(Addresses) /\ \A i, j \in DOMAIN c.lru : c.lru[i] = c.lru[j] => i = j
        BY <1>2 DEF TableHolds, ListsHold
      <4> QED BY <4>1, LRURemoveFacts
    <3>2. d = [e EXCEPT !.inUse = @ \cup {a}]
      BY <1>3, <2>1
    <3> HIDE DEF e, d
    <3>3. /\ IsShard(d) /\ d.length = e.length /\ d.list = e.list /\ d.elems = e.elems
          /\ d.usage = e.usage /\ d.inUse = e.inUse \cup {a} /\ d.lru = e.lru
      BY <3>1, <3>2 DEF IsShard
    <3> QED BY <3>1, <3>3
  <2>2. CASE h[a].refs # 1
    <3>1. d = c /\ a \in c.inUse /\ a \notin Range(c.lru)
      <4>1. d = c
        BY <2>2
      <4> HIDE DEF d
      <4> QED BY <1>2, <1>3, <2>2, <4>1 DEF ListsHold
    <3> QED BY <1>2, <3>1 DEF TableHolds, ListsHold
  <2> QED BY <2>1, <2>2
<1> HIDE DEF g, d
<1>7. \A x \in S : g[x] \in Handle /\ g[x].key = h[x].key
  BY <1>2, <1>4 DEF TableHolds
<1>8. TableHolds(d, g, S)
  BY <1>2, <1>6, <1>7, TableOfKeys
<1>9. ListsHold(d, g, S)
  <2>0. S \subseteq Addresses /\ a \in S
    BY <1>2, <1>3 DEF TableHolds, S, Cached
  <2>1. {x \in S : g[x].refs = 1} = {x \in S : h[x].refs = 1} \ {a}
    BY <1>4, <2>0
  <2>2. {x \in S : g[x].refs # 1} = {x \in S : h[x].refs # 1} \cup {a}
    BY <1>4, <2>0
  <2> QED BY <1>2, <1>6, <2>1, <2>2 DEF ListsHold
<1>10. RefsAgree(g, v)
  BY <1>2, <1>3, <1>4, <1>n DEF RefsAgree
<1>11. ShardState(Ref(m, a), v, s)
  BY <1>1, <1>4, <1>5, <1>8, <1>9, <1>10 DEF ShardState, ShardHolds
<1>12. Kept(h, g, s)
  BY <1>3, <1>4 DEF Kept, ShardOf
<1> QED BY <1>1, <1>4, <1>n, <1>11, <1>12 DEF h

SetRefs(h, a, n) == [h EXCEPT ![a].refs = n]

\* The handles, one of them with other references.
LEMMA WithRefs ==
  ASSUME NEW h, IsHandles(h), NEW a \in Addresses, h[a] \in Handle, NEW n \in Nat \ {0},
         NEW g, g = SetRefs(h, a, n)
  PROVE  /\ g[a] \in Handle /\ g[a].key = h[a].key /\ g[a].inCache = h[a].inCache /\ g[a].refs = n
         /\ \A x \in Addresses \ {a} : g[x] = h[x]
         /\ IsHandles(g) /\ g[a] # NoHandle
<1>1. h \in [Addresses -> Handle \cup {NoHandle}]
  BY DEF IsHandles
<1>2. g[a] = [h[a] EXCEPT !.refs = n] /\ \A x \in Addresses \ {a} : g[x] = h[x]
  BY <1>1 DEF SetRefs
<1> DEFINE r == h[a]
           q == g[a]
<1>3. q \in Handle /\ q.refs = n /\ q.key = r.key /\ q.inCache = r.inCache
  <2>1. r \in Handle /\ q = [r EXCEPT !.refs = n]
    BY <1>2
  <2> HIDE DEF r, q
  <2> QED BY <2>1, HandleRefs
<1>4. IsHandles(g)
  <2>1. q \in Handle
    BY <1>3
  <2> QED BY <1>1, <2>1 DEF IsHandles, SetRefs
<1> QED BY <1>2, <1>3, <1>4, AddressFacts

\* LRUCache::Release: one user less.
LEMMA UnrefKeepsState ==
  ASSUME NEW m, NEW u, NEW s, ShardState(m, u, s),
         NEW a \in Addresses, m.h[a] # NoHandle, ShardOf(m.h, a) = s, u[a] > 0
  PROVE  /\ ShardState(Unref(m, a), [u EXCEPT ![a] = @ - 1], s)
         /\ Kept(m.h, Unref(m, a).h, s)
<1> DEFINE c == m.c
           h == m.h
           S == Cached(h, s)
           refs == h[a].refs - 1
           g == IF refs = 0 THEN [h EXCEPT ![a] = NoHandle] ELSE [h EXCEPT ![a].refs = refs]
           e == LRURemove(c, a)
           d == IF refs = 1 /\ h[a].inCache THEN [e EXCEPT !.lru = Append(@, a)] ELSE c
           v == [u EXCEPT ![a] = @ - 1]
<1>1. Unref(m, a) = [c |-> d, h |-> g]
  BY DEF Unref
<1>2. IsHandles(h) /\ RefsAgree(h, u) /\ TableHolds(c, h, S) /\ ListsHold(c, h, S)
  BY DEF ShardState, ShardHolds
<1>3. /\ h[a] \in Handle /\ h[a] # NoHandle /\ ShardOf(h, a) = s
      /\ h[a].inCache => a \in S
  BY <1>2 DEF Cached, IsHandles
<1>s. S \subseteq Addresses /\ \A x \in S : h[x].inCache
  BY DEF Cached
<1> HIDE DEF c, h, S
<1>4. /\ h[a].refs \in Nat \ {0} /\ h[a].inCache \in BOOLEAN /\ u[a] \in Nat /\ u[a] > 0
      /\ h[a].refs = u[a] + (IF h[a].inCache THEN 1 ELSE 0) /\ refs \in Nat
  <2>1. h[a].refs \in Nat \ {0} /\ h[a].inCache \in BOOLEAN
    BY <1>3, HandleFields
  <2>2. u[a] \in Nat /\ h[a].refs = u[a] + (IF h[a].inCache THEN 1 ELSE 0)
    BY <1>2, <1>3 DEF RefsAgree
  <2> QED BY <2>1, <2>2
<1> HIDE DEF refs
<1>5. /\ refs = 0 => g[a] = NoHandle /\ ~h[a].inCache
      /\ refs # 0 => /\ g[a] \in Handle /\ g[a].key = h[a].key /\ g[a].inCache = h[a].inCache
                     /\ g[a].refs = refs /\ g[a] # NoHandle
      /\ \A x \in Addresses \ {a} : g[x] = h[x]
      /\ IsHandles(g)
  <2>1. CASE refs = 0
    <3>1. g = [h EXCEPT ![a] = NoHandle]
      BY <2>1
    <3> HIDE DEF g
    <3> QED BY <1>2, <1>4, <2>1, <3>1 DEF IsHandles, refs
  <2>2. CASE refs # 0
    <3>1. g = SetRefs(h, a, refs) /\ refs \in Nat \ {0}
      BY <1>4, <2>2 DEF SetRefs
    <3> HIDE DEF g
    <3> QED BY <1>2, <1>3, <2>2, <3>1, WithRefs
  <2> QED BY <2>1, <2>2
<1> HIDE DEF g
<1>6. Cached(g, s) = S
  <2>1. Cached(g, s) = Cached(h, s)
    BY <1>2, <1>3, <1>5, SameCached
  <2> QED BY <2>1 DEF S
<1>7. /\ IsShard(d) /\ d.length = c.length /\ d.list = c.list /\ d.elems = c.elems /\ d.usage = c.usage
      /\ d.lru \in Seq(Addresses) /\ \A i, j \in DOMAIN d.lru : d.lru[i] = d.lru[j] => i = j
      /\ IF refs = 1 /\ h[a].inCache
         THEN Range(d.lru) = Range(c.lru) \cup {a} /\ d.inUse = c.inUse \ {a}
         ELSE Range(d.lru) = Range(c.lru) /\ d.inUse = c.inUse
  <2>1. CASE refs = 1 /\ h[a].inCache
    <3>1. /\ IsShard(e) /\ e.length = c.length /\ e.list = c.list /\ e.elems = c.elems
          /\ e.usage = c.usage /\ e.inUse = c.inUse \ {a} /\ e.lru \in Seq(Addresses)
          /\ Range(e.lru) = Range(c.lru) \ {a} /\ \A i, j \in DOMAIN e.lru : e.lru[i] = e.lru[j] => i = j
      <4>1. IsShard(c) /\ c.lru \in Seq(Addresses) /\ \A i, j \in DOMAIN c.lru : c.lru[i] = c.lru[j] => i = j
        BY <1>2 DEF TableHolds, ListsHold
      <4> QED BY <4>1, LRURemoveFacts
    <3>2. d = [e EXCEPT !.lru = Append(@, a)]
      BY <2>1
    <3> HIDE DEF e, d
    <3>3. /\ IsShard(d) /\ d.length = e.length /\ d.list = e.list /\ d.elems = e.elems
          /\ d.usage = e.usage /\ d.inUse = e.inUse /\ d.lru = Append(e.lru, a)
      BY <3>1, <3>2 DEF IsShard
    <3>4. a \notin Range(e.lru)
      BY <3>1
    <3> DEFINE l == e.lru
    <3>5. l \in Seq(Addresses) /\ (\A i, j \in DOMAIN l : l[i] = l[j] => i = j) /\ a \notin Range(l)
      BY <3>1, <3>4
    <3>6. /\ Append(l, a) \in Seq(Addresses) /\ Range(Append(l, a)) = Range(l) \cup {a}
          /\ \A i, j \in DOMAIN Append(l, a) : Append(l, a)[i] = Append(l, a)[j] => i = j
      <4> HIDE DEF l
      <4> QED BY <3>5, LRUAppendFacts
    <3> QED BY <2>1, <3>1, <3>3, <3>6
  <2>2. CASE ~(refs = 1 /\ h[a].inCache)
    <3>1. d = c
      BY <2>2
    <3> HIDE DEF d
    <3> QED BY <1>2, <2>2, <3>1 DEF TableHolds, ListsHold
  <2> QED BY <2>1, <2>2
<1> HIDE DEF d
<1>8. \A x \in S : g[x] \in Handle /\ g[x].key = h[x].key
  BY <1>2, <1>5, <1>s DEF TableHolds
<1>9. TableHolds(d, g, S)
  BY <1>2, <1>7, <1>8, TableOfKeys
<1>10. ListsHold(d, g, S)
  <2>1. CASE refs = 1 /\ h[a].inCache
    <3>0. h[a].refs = 2
      BY <1>4, <2>1 DEF refs
    <3>1. a \in S /\ g[a].refs = 1 /\ h[a].refs # 1
      BY <1>3, <1>5, <2>1, <3>0
    <3>2. {x \in S : g[x].refs = 1} = {x \in S : h[x].refs = 1} \cup {a}
      BY <1>5, <1>s, <3>1
    <3>3. {x \in S : g[x].refs # 1} = {x \in S : h[x].refs # 1} \ {a}
      BY <1>5, <1>s, <3>1
    <3> QED BY <1>2, <1>7, <2>1, <3>2, <3>3 DEF ListsHold
  <2>2. CASE ~(refs = 1 /\ h[a].inCache)
    <3>1. a \in S => g[a].refs # 1 /\ h[a].refs # 1
      BY <1>4, <1>5, <1>s, <2>2 DEF refs
    <3>2. {x \in S : g[x].refs = 1} = {x \in S : h[x].refs = 1}
      BY <1>5, <1>s, <3>1
    <3>3. {x \in S : g[x].refs # 1} = {x \in S : h[x].refs # 1}
      BY <1>5, <1>s, <3>1
    <3> QED BY <1>2, <1>7, <2>2, <3>2, <3>3 DEF ListsHold
  <2> QED BY <2>1, <2>2
<1>11. RefsAgree(g, v)
  <2>0. u \in [Addresses -> Nat] /\ v \in [Addresses -> Nat] /\ v[a] = u[a] - 1
        /\ \A x \in Addresses \ {a} : v[x] = u[x]
    BY <1>2, <1>4 DEF RefsAgree
  <2> HIDE DEF v
  <2>1. IF g[a] = NoHandle THEN v[a] = 0
        ELSE g[a].refs = v[a] + (IF g[a].inCache THEN 1 ELSE 0)
    BY <1>4, <1>5, <2>0 DEF refs
  <2>2. \A x \in Addresses \ {a} : IF g[x] = NoHandle THEN v[x] = 0
                                   ELSE g[x].refs = v[x] + (IF g[x].inCache THEN 1 ELSE 0)
    BY <1>2, <1>5, <2>0 DEF RefsAgree
  <2> QED BY <2>0, <2>1, <2>2 DEF RefsAgree
<1>12. ShardState(Unref(m, a), v, s)
  BY <1>1, <1>5, <1>6, <1>9, <1>10, <1>11 DEF ShardState, ShardHolds
<1>13. Kept(h, g, s)
  BY <1>3, <1>5 DEF Kept, ShardOf
<1> QED BY <1>1, <1>12, <1>13 DEF h
-----------------------------------------------------------------------------
(* The table no longer leads to the handle a; FinishErase takes it away.    *)
Unhashed(m, u, s, a) ==
  /\ m = [c |-> m.c, h |-> m.h]
  /\ IsHandles(m.h) /\ RefsAgree(m.h, u) /\ a \in Cached(m.h, s)
  /\ TableHolds(m.c, m.h, Cached(m.h, s) \ {a}) /\ ListsHold(m.c, m.h, Cached(m.h, s))
IsErased(q, m, u, s, a) ==
  /\ ShardState(q, u, s) /\ Kept(m.h, q.h, s)
  /\ q.c.inUse = m.c.inUse \ {a} /\ q.c.usage = m.c.usage - 1
  /\ Cached(q.h, s) = Cached(m.h, s) \ {a}

\* LRUCache::FinishErase.
LEMMA FinishEraseKeepsState ==
  ASSUME NEW m, NEW u, NEW s, NEW a, Unhashed(m, u, s, a)
  PROVE  IsErased(FinishErase(m, a), m, u, s, a)
<1> DEFINE c == m.c
           h == m.h
           S == Cached(h, s)
           e == LRURemove(c, a)
           d == [e EXCEPT !.usage = @ - 1]
           h1 == [h EXCEPT ![a].inCache = FALSE]
           refs == h1[a].refs - 1
           g == IF refs = 0 THEN [h1 EXCEPT ![a] = NoHandle] ELSE [h1 EXCEPT ![a].refs = refs]
<1>2. IsHandles(h) /\ RefsAgree(h, u) /\ TableHolds(c, h, S \ {a}) /\ ListsHold(c, h, S)
  BY DEF Unhashed
<1>a. a \in S
  BY DEF Unhashed
<1>3. /\ a \in Addresses /\ h[a] \in Handle /\ h[a] # NoHandle /\ ShardOf(h, a) = s
      /\ h[a].inCache /\ a \in S /\ a # NoHandle
  BY <1>2, <1>a, AddressFacts DEF Cached, IsHandles
<1>s. S \subseteq Addresses /\ \A x \in S : h[x].inCache
  BY DEF Cached
<1>f. FinishErase(m, a) = Unref([c |-> d, h |-> h1], a)
  BY <1>3 DEF FinishErase
<1> HIDE DEF c, h, S
<1>4. /\ h1[a] \in Handle /\ h1[a].refs = h[a].refs /\ h1[a].key = h[a].key /\ ~h1[a].inCache
      /\ \A x \in Addresses \ {a} : h1[x] = h[x]
      /\ IsHandles(h1)
  <2>1. h \in [Addresses -> Handle \cup {NoHandle}]
    BY <1>2 DEF IsHandles
  <2>2. h1[a] = [h[a] EXCEPT !.inCache = FALSE] /\ \A x \in Addresses \ {a} : h1[x] = h[x]
    BY <1>3, <2>1
  <2> DEFINE r == h[a]
             q == h1[a]
  <2>3. q \in Handle /\ q.refs = r.refs /\ q.key = r.key /\ ~q.inCache
    <3>1. r \in Handle /\ q = [r EXCEPT !.inCache = FALSE]
      BY <1>3, <2>2
    <3> HIDE DEF r, q
    <3> QED BY <3>1, HandleOut
  <2>4. IsHandles(h1)
    <3>1. q \in Handle
      BY <2>3
    <3> QED BY <2>1, <3>1 DEF IsHandles
  <2> QED BY <2>2, <2>3, <2>4
<1> HIDE DEF h1
<1>1. Unref([c |-> d, h |-> h1], a) = [c |-> d, h |-> g]
  BY <1>4 DEF Unref
<1>5. /\ h[a].refs \in Nat \ {0} /\ u[a] \in Nat /\ h[a].refs = u[a] + 1 /\ refs = u[a]
  <2>1. h[a].refs \in Nat \ {0}
    BY <1>3, HandleFields
  <2>2. u[a] \in Nat /\ h[a].refs = u[a] + 1
    BY <1>2, <1>3 DEF RefsAgree
  <2> QED BY <1>4, <2>1, <2>2
<1> HIDE DEF refs
<1>6. /\ refs = 0 => g[a] = NoHandle
      /\ refs # 0 => /\ g[a] \in Handle /\ g[a].key = h[a].key /\ ~g[a].inCache
                     /\ g[a].refs = refs /\ g[a] # NoHandle
      /\ \A x \in Addresses \ {a} : g[x] = h[x]
      /\ IsHandles(g)
  <2>1. CASE refs = 0
    <3>1. g = [h1 EXCEPT ![a] = NoHandle]
      BY <2>1
    <3> HIDE DEF g
    <3> QED BY <1>3, <1>4, <2>1, <3>1 DEF IsHandles
  <2>2. CASE refs # 0
    <3>1. g = SetRefs(h1, a, refs) /\ refs \in Nat \ {0}
      BY <1>5, <2>2 DEF SetRefs
    <3> HIDE DEF g
    <3>2. /\ g[a] \in Handle /\ g[a].key = h1[a].key /\ g[a].inCache = h1[a].inCache /\ g[a].refs = refs
          /\ \A x \in Addresses \ {a} : g[x] = h1[x]
          /\ IsHandles(g) /\ g[a] # NoHandle
      BY <1>3, <1>4, <3>1, WithRefs
    <3> QED BY <1>4, <2>2, <3>2
  <2> QED BY <2>1, <2>2
<1> HIDE DEF g
<1>7. Cached(g, s) = S \ {a}
  <2>1. \A x \in Addresses \ {a} : (g[x] # NoHandle /\ g[x].inCache /\ ShardOf(g, x) = s)
                               <=> (h[x] # NoHandle /\ h[x].inCache /\ ShardOf(h, x) = s)
    BY <1>6 DEF ShardOf
  <2>2. ~(g[a] # NoHandle /\ g[a].inCache)
    BY <1>6
  <2> QED BY <2>1, <2>2 DEF Cached, S
<1>8. /\ IsShard(d) /\ d.length = c.length /\ d.list = c.list /\ d.elems = c.elems /\ d.usage = c.usage - 1
      /\ d.lru \in Seq(Addresses) /\ \A i, j \in DOMAIN d.lru : d.lru[i] = d.lru[j] => i = j
      /\ Range(d.lru) = Range(c.lru) \ {a} /\ d.inUse = c.inUse \ {a}
  <2>1. /\ IsShard(e) /\ e.length = c.length /\ e.list = c.list /\ e.elems = c.elems
        /\ e.usage = c.usage /\ e.inUse = c.inUse \ {a} /\ e.lru \in Seq(Addresses)
        /\ Range(e.lru) = Range(c.lru) \ {a} /\ \A i, j \in DOMAIN e.lru : e.lru[i] = e.lru[j] => i = j
    <3>1. IsShard(c) /\ c.lru \in Seq(Addresses) /\ \A i, j \in DOMAIN c.lru : c.lru[i] = c.lru[j] => i = j
      BY <1>2 DEF TableHolds, ListsHold
    <3> QED BY <3>1, LRURemoveFacts
  <2>2. d = [e EXCEPT !.usage = @ - 1]
    OBVIOUS
  <2> HIDE DEF e, d
  <2>3. /\ IsShard(d) /\ d.length = e.length /\ d.list = e.list /\ d.elems = e.elems
        /\ d.usage = e.usage - 1 /\ d.inUse = e.inUse /\ d.lru = e.lru
    BY <2>1, <2>2 DEF IsShard
  <2> QED BY <2>1, <2>3
<1> HIDE DEF d
<1>9. TableHolds(d, g, S \ {a})
  <2>1. \A x \in S \ {a} : g[x] \in Handle /\ g[x].key = h[x].key
    BY <1>2, <1>6, <1>s DEF TableHolds
  <2> QED BY <1>2, <1>8, <2>1, TableOfKeys
<1>10. ListsHold(d, g, S \ {a})
  <2>1. {x \in S \ {a} : g[x].refs = 1} = {x \in S : h[x].refs = 1} \ {a}
    BY <1>6, <1>s
  <2>2. {x \in S \ {a} : g[x].refs # 1} = {x \in S : h[x].refs # 1} \ {a}
    BY <1>6, <1>s
  <2>3. Cardinality(S \ {a}) = Cardinality(S) - 1
    BY <1>3, <1>s, AddressFacts, FS_RemoveElement
  <2> QED BY <1>2, <1>8, <2>1, <2>2, <2>3 DEF ListsHold
<1>11. RefsAgree(g, u)
  <2>1. IF g[a] = NoHandle THEN u[a] = 0
        ELSE g[a].refs = u[a] + (IF g[a].inCache THEN 1 ELSE 0)
    BY <1>5, <1>6
  <2>2. \A x \in Addresses \ {a} : IF g[x] = NoHandle THEN u[x] = 0
                                   ELSE g[x].refs = u[x] + (IF g[x].inCache THEN 1 ELSE 0)
    BY <1>2, <1>6 DEF RefsAgree
  <2> QED BY <1>2, <2>1, <2>2 DEF RefsAgree
<1>12. ShardState([c |-> d, h |-> g], u, s)
  BY <1>6, <1>7, <1>9, <1>10, <1>11 DEF ShardState, ShardHolds
<1>13. Kept(h, g, s)
  BY <1>3, <1>6 DEF Kept, ShardOf
<1>14. FinishErase(m, a) = [c |-> d, h |-> g]
  BY <1>1, <1>f
<1> QED BY <1>7, <1>8, <1>12, <1>13, <1>14 DEF h, c, S, IsErased

\* LRUCache::Erase.
LEMMA EraseKeepsState ==
  ASSUME NEW m, NEW u, NEW s, ShardState(m, u, s), NEW key \in Tables, Shard(Hash[key]) = s
  PROVE  /\ ShardState(EraseKey(m, key), u, s)
         /\ Kept(m.h, EraseKey(m, key).h, s)
         /\ TableLookup(m.c, m.h, key) # NoHandle =>
              /\ EraseKey(m, key).c.inUse = m.c.inUse \ {TableLookup(m.c, m.h, key)}
              /\ EraseKey(m, key).c.usage = m.c.usage - 1
<1> DEFINE a == TableLookup(m.c, m.h, key)
           d == TableRemove(m.c, m.h, key)
           S == Cached(m.h, s)
           e == [m EXCEPT !.c = d]
<1>1. /\ m = [c |-> m.c, h |-> m.h] /\ IsHandles(m.h) /\ RefsAgree(m.h, u)
      /\ TableHolds(m.c, m.h, S) /\ ListsHold(m.c, m.h, S)
  BY DEF ShardState, ShardHolds
<1>2. EraseKey(m, key) = FinishErase(e, a) /\ e = [c |-> d, h |-> m.h]
  BY <1>1 DEF EraseKey
<1>3. CASE a = NoHandle
  <2>1. d = m.c
    BY <1>3 DEF TableRemove
  <2> HIDE DEF a, d, e
  <2>2. EraseKey(m, key) = e
    BY <1>2, <1>3 DEF FinishErase
  <2>3. EraseKey(m, key) = m
    BY <1>1, <1>2, <2>1, <2>2
  <2>4. Kept(m.h, m.h, s)
    BY DEF Kept
  <2> QED BY <1>3, <2>3, <2>4 DEF a
<1>4. CASE a # NoHandle
  <2>1. a \in S
    BY <1>1, <1>4, LookupFinds
  <2>2. TableHolds(d, m.h, S \ {a}) /\ d.lru = m.c.lru /\ d.inUse = m.c.inUse /\ d.usage = m.c.usage
    BY <1>1, <1>4, RemoveHolds
  <2>3. ListsHold(d, m.h, S)
    BY <1>1, <2>2 DEF ListsHold
  <2> HIDE DEF a, d, e
  <2>4. e.c = d /\ e.h = m.h
    BY <1>2
  <2>5. Unhashed(e, u, s, a)
    BY <1>1, <1>2, <2>1, <2>2, <2>3, <2>4 DEF Unhashed
  <2>6. IsErased(EraseKey(m, key), e, u, s, a)
    BY <1>2, <2>5, FinishEraseKeepsState
  <2> QED BY <2>2, <2>4, <2>6 DEF a, IsErased
<1> QED BY <1>3, <1>4

(* One turn of the loop that drops the oldest.                             *)
DropOne(x, keep) ==
  IF x.c.usage > keep /\ x.c.lru # <<>> THEN EraseKey(x, x.h[x.c.lru[1]].key) ELSE x

\* What it drops is used by nobody.
LEMMA DropOneKeepsState ==
  ASSUME NEW x, NEW u, NEW s, ShardState(x, u, s), NEW keep \in Nat
  PROVE  /\ ShardState(DropOne(x, keep), u, s)
         /\ Kept(x.h, DropOne(x, keep).h, s)
         /\ DropOne(x, keep).c.inUse = x.c.inUse
         /\ IF x.c.usage > keep /\ x.c.lru # <<>> THEN DropOne(x, keep).c.usage = x.c.usage - 1
            ELSE DropOne(x, keep) = x
<1>1. CASE ~(x.c.usage > keep /\ x.c.lru # <<>>)
  <2>1. DropOne(x, keep) = x
    BY <1>1 DEF DropOne
  <2>2. Kept(x.h, x.h, s)
    BY DEF Kept
  <2> QED BY <1>1, <2>1, <2>2
<1>2. CASE x.c.usage > keep /\ x.c.lru # <<>>
  <2> DEFINE a == x.c.lru[1]
             S == Cached(x.h, s)
             key == x.h[a].key
  <2>1. TableHolds(x.c, x.h, S) /\ ListsHold(x.c, x.h, S)
    BY DEF ShardState, ShardHolds
  <2>2. a \in Range(x.c.lru)
    <3> DEFINE l == x.c.lru
    <3>1. l \in Seq(Addresses) /\ l # <<>>
      BY <1>2, <2>1 DEF ListsHold
    <3> HIDE DEF l
    <3>2. 1 \in DOMAIN l
      BY <3>1, LenProperties, EmptySeq
    <3> QED BY <3>2 DEF Range, l
  <2>3. a \in S /\ x.h[a].refs = 1 /\ a \notin x.c.inUse
    BY <2>1, <2>2 DEF ListsHold
  <2>4. x.h[a] \in Handle /\ ShardOf(x.h, a) = s
    BY <2>1, <2>3 DEF TableHolds, Cached
  <2>5. key \in Tables /\ Shard(Hash[key]) = s
    BY <2>4 DEF Handle, ShardOf
  <2>6. TableLookup(x.c, x.h, key) = a
    BY <2>1, <2>3, <2>5, LookupFinds
  <2>7. a # NoHandle
    BY <2>1, <2>3, AddressFacts DEF TableHolds
  <2>8. DropOne(x, keep) = EraseKey(x, key)
    BY <1>2 DEF DropOne
  <2> HIDE DEF a, key
  <2>9. /\ ShardState(EraseKey(x, key), u, s) /\ Kept(x.h, EraseKey(x, key).h, s)
        /\ EraseKey(x, key).c.inUse = x.c.inUse \ {a} /\ EraseKey(x, key).c.usage = x.c.usage - 1
    BY <2>5, <2>6, <2>7, EraseKeepsState
  <2> QED BY <1>2, <2>3, <2>8, <2>9
<1> QED BY <1>1, <1>2

(* The states of a shard are in a set.                                     *)
ShardStates(u, s) ==
  {x \in [c : [length : Nat, elems : Nat, list : UNION {[0 .. n - 1 -> SUBSET Addresses] : n \in Nat},
               lru : Seq(Addresses), inUse : SUBSET Addresses, usage : Nat],
          h : [Addresses -> Handle \cup {NoHandle}]] : ShardState(x, u, s)}

\* Every state of a shard is in it.
LEMMA ShardStatesHasAll ==
  ASSUME NEW x, NEW u, NEW s, ShardState(x, u, s)
  PROVE  x \in ShardStates(u, s)
<1> DEFINE S == Cached(x.h, s)
           c == x.c
<1>1. /\ x = [c |-> c, h |-> x.h] /\ x.h \in [Addresses -> Handle \cup {NoHandle}]
      /\ TableHolds(c, x.h, S) /\ ListsHold(c, x.h, S) /\ S \subseteq Addresses
  BY DEF ShardState, ShardHolds, IsHandles, Cached
<1>2. Cardinality(S) \in Nat
  BY <1>1, AddressFacts
<1> HIDE DEF S, c
<1>3. /\ c = [length |-> c.length, elems |-> c.elems, list |-> c.list,
              lru |-> c.lru, inUse |-> c.inUse, usage |-> c.usage]
      /\ c.length \in Nat /\ c.elems \in Nat /\ c.usage \in Nat /\ c.lru \in Seq(Addresses)
      /\ c.inUse \in SUBSET Addresses
      /\ c.list \in [0 .. c.length - 1 -> SUBSET Addresses]
  BY <1>1, <1>2 DEF TableHolds, ListsHold, IsShard
<1>4. c.list \in UNION {[0 .. n - 1 -> SUBSET Addresses] : n \in Nat}
  BY <1>3
<1>5. c \in [length : Nat, elems : Nat, list : UNION {[0 .. n - 1 -> SUBSET Addresses] : n \in Nat},
             lru : Seq(Addresses), inUse : SUBSET Addresses, usage : Nat]
  BY <1>3, <1>4
<1> QED BY <1>1, <1>5 DEF ShardStates

\* The loops of LRUCache::Insert and Prune.
LEMMA DropOldestKeepsState ==
  ASSUME NEW m, NEW u, NEW s, ShardState(m, u, s), NEW keep \in Nat
  PROVE  /\ ShardState(DropOldest(m, keep), u, s)
         /\ Kept(m.h, DropOldest(m, keep).h, s)
         /\ DropOldest(m, keep).c.inUse = m.c.inUse
         /\ DropOldest(m, keep).c.usage > keep => DropOldest(m, keep).c.lru = <<>>
<1> DEFINE n == m.c.usage
           X == ShardStates(u, s)
           F == [x \in X |-> DropOne(x, keep)]
           Values(f) == f = [i \in 0 .. n |-> IF i = 0 THEN m ELSE DropOne(f[i - 1], keep)]
<1>1. n \in Nat
  BY AddressFacts DEF ShardState, ShardHolds, ListsHold, Cached
<1>2. m \in X
  BY ShardStatesHasAll
<1>3. F \in [X -> X]
  <2>1. \A x \in X : ShardState(x, u, s)
    BY DEF ShardStates
  <2>2. \A x \in X : DropOne(x, keep) \in X
    BY <2>1, DropOneKeepsState, ShardStatesHasAll
  <2> QED BY <2>2
<1> HIDE DEF n
<1>4. \E f : Values(f)
  <2> HIDE DEF X, F
  <2>1. PICK f \in [0 .. n -> X] : f = [i \in 0 .. n |-> IF i = 0 THEN m ELSE F[f[i - 1]]]
    BY <1>1, <1>2, <1>3, Iteration
  <2>2. \A i \in 0 .. n : i # 0 => f[i - 1] \in X
    <3>1. \A i \in 0 .. n : i # 0 => i - 1 \in 0 .. n
      BY <1>1
    <3> QED BY <2>1, <3>1
  <2>3. \A i \in 0 .. n : i # 0 => F[f[i - 1]] = DropOne(f[i - 1], keep)
    BY <2>2 DEF F
  <2>4. Values(f)
    BY <2>1, <2>3
  <2> QED BY <2>4
<1>5. PICK f : Values(f) /\ DropOldest(m, keep) = f[n]
  <2>1. Values(CHOOSE f : Values(f))
    BY <1>4
  <2>2. DropOldest(m, keep) = (CHOOSE f : Values(f))[n]
    BY DEF DropOldest, DropOne, n
  <2> QED BY <2>1, <2>2
<1>6. /\ 0 \in 0 .. n => f[0] = m
      /\ \A i \in 0 .. n : i < n => f[i + 1] = DropOne(f[i], keep)
  <2>1. \A i \in 0 .. n : f[i] = IF i = 0 THEN m ELSE DropOne(f[i - 1], keep)
    BY <1>5
  <2>2. \A i \in 0 .. n : i < n => i + 1 \in 0 .. n /\ i + 1 # 0 /\ (i + 1) - 1 = i
    BY <1>1
  <2> QED BY <2>1, <2>2
<1> DEFINE Fine(x, i) == /\ ShardState(x, u, s) /\ Kept(m.h, x.h, s) /\ x.c.inUse = m.c.inUse
                         /\ (x.c.usage > keep /\ x.c.lru # <<>>) => x.c.usage = n - i
           Good == {i \in 0 .. n : Fine(f[i], i)}
<1>7. 0 \in Good
  <2>1. 0 \in 0 .. n /\ n - 0 = n
    BY <1>1
  <2>2. Kept(m.h, m.h, s)
    BY DEF Kept
  <2>3. Fine(m, 0)
    BY <1>1, <2>1, <2>2 DEF n
  <2> QED BY <1>6, <2>1, <2>3
<1>8. ASSUME NEW i \in 0 .. n, i \in Good, i < n PROVE i + 1 \in Good
  <2> DEFINE x == f[i]
             y == f[i + 1]
  <2>1. Fine(x, i) /\ y = DropOne(x, keep)
    BY <1>6, <1>8
  <2> HIDE DEF x, y
  <2>2. /\ ShardState(y, u, s) /\ Kept(x.h, y.h, s) /\ y.c.inUse = x.c.inUse
        /\ IF x.c.usage > keep /\ x.c.lru # <<>> THEN y.c.usage = x.c.usage - 1 ELSE y = x
    BY <2>1, DropOneKeepsState
  <2>3. Kept(m.h, y.h, s)
    BY <2>1, <2>2, KeptTwice
  <2>4. (y.c.usage > keep /\ y.c.lru # <<>>) => y.c.usage = n - (i + 1)
    BY <1>1, <2>1, <2>2
  <2>5. Fine(y, i + 1) /\ i + 1 \in 0 .. n
    BY <1>1, <1>8, <2>1, <2>2, <2>3, <2>4
  <2> HIDE DEF Fine
  <2> QED BY <2>5 DEF y
<1>9. Fine(f[n], n)
  <2> HIDE DEF Fine
  <2>1. n \in Good
    <3> HIDE DEF Good
    <3>1. \A i \in 0 .. n : i \in Good /\ i < n => i + 1 \in Good
      BY <1>8
    <3>2. 0 .. n \subseteq Good
      BY <1>1, <1>7, <3>1, InductionUpTo
    <3> QED BY <1>1, <3>2
  <2> QED BY <2>1
<1>10. n - n = 0 /\ ~(0 > keep)
  BY <1>1
<1> QED BY <1>5, <1>9, <1>10

(* The handle of a table that is inserted.                                 *)
NewHandle(key) ==
  [key |-> key, refs |-> IF PerShard = 0 THEN 1 ELSE 2, inCache |-> PerShard # 0]

\* LRUCache::Insert: the new handle has one user; a handle of the same key and the
\* oldest ones that nobody uses leave the cache.
LEMMA InsertKeepsState ==
  ASSUME NEW m, NEW u, NEW s, ShardState(m, u, s), NEW key \in Tables, Shard(Hash[key]) = s,
         NEW a \in Addresses, m.h[a] = NoHandle,
         PerShard \in Nat, PerShard = 0 => Cached(m.h, s) = {}
  PROVE  /\ ShardState(InsertHandle(m, key, a), [u EXCEPT ![a] = @ + 1], s)
         /\ Kept([m.h EXCEPT ![a] = NewHandle(key)], InsertHandle(m, key, a).h, s)
         /\ \A x \in m.c.inUse : m.h[x].key # key => x \in InsertHandle(m, key, a).c.inUse
         /\ InsertHandle(m, key, a).c.usage > PerShard => InsertHandle(m, key, a).c.lru = <<>>
<1> DEFINE c == m.c
           h == m.h
           S == Cached(h, s)
           g == [h EXCEPT ![a] = NewHandle(key)]
           v == [u EXCEPT ![a] = @ + 1]
<1>1. /\ m = [c |-> c, h |-> h] /\ IsHandles(h) /\ RefsAgree(h, u)
      /\ TableHolds(c, h, S) /\ ListsHold(c, h, S)
  BY DEF ShardState, ShardHolds
<1>s. S \subseteq Addresses /\ a \notin S
  BY DEF Cached
<1>2. /\ NewHandle(key) \in Handle /\ NewHandle(key).key = key
      /\ NewHandle(key).refs = (IF PerShard = 0 THEN 1 ELSE 2) /\ NewHandle(key).inCache = (PerShard # 0)
  BY DEF NewHandle, Handle
<1>3. /\ g[a] = NewHandle(key) /\ \A x \in Addresses \ {a} : g[x] = h[x]
      /\ IsHandles(g) /\ g[a] # NoHandle
  <2> HIDE DEF h, S
  <2>1. h \in [Addresses -> Handle \cup {NoHandle}]
    BY <1>1 DEF IsHandles
  <2>2. g \in [Addresses -> Handle \cup {NoHandle}]
    BY <1>2, <2>1
  <2> QED BY <1>2, <2>1, <2>2, AddressFacts DEF IsHandles
<1>4. RefsAgree(g, v)
  <2>1. /\ u \in [Addresses -> Nat] /\ u[a] = 0
        /\ \A x \in Addresses : IF h[x] = NoHandle THEN u[x] = 0
                                ELSE h[x].refs = u[x] + (IF h[x].inCache THEN 1 ELSE 0)
    BY <1>1 DEF RefsAgree
  <2>2. v \in [Addresses -> Nat] /\ v[a] = 1 /\ \A x \in Addresses \ {a} : v[x] = u[x]
    BY <2>1
  <2> HIDE DEF g, v, h
  <2>3. g[a].refs = v[a] + (IF g[a].inCache THEN 1 ELSE 0)
    <3>1. CASE PerShard = 0
      <4>1. g[a].refs = 1 /\ ~g[a].inCache
        BY <1>2, <1>3, <3>1
      <4> QED BY <2>2, <4>1
    <3>2. CASE PerShard # 0
      <4>1. g[a].refs = 2 /\ g[a].inCache
        BY <1>2, <1>3, <3>2
      <4> QED BY <2>2, <4>1
    <3> QED BY <3>1, <3>2
  <2>4. \A x \in Addresses \ {a} : IF g[x] = NoHandle THEN v[x] = 0
                                   ELSE g[x].refs = v[x] + (IF g[x].inCache THEN 1 ELSE 0)
    BY <1>3, <2>1, <2>2
  <2> QED BY <1>3, <2>2, <2>3, <2>4 DEF RefsAgree
<1>5. Cached(g, s) = IF PerShard = 0 THEN S ELSE S \cup {a}
  <2> HIDE DEF g
  <2>1. \A x \in Addresses \ {a} : (g[x] # NoHandle /\ g[x].inCache /\ ShardOf(g, x) = s)
                               <=> (h[x] # NoHandle /\ h[x].inCache /\ ShardOf(h, x) = s)
    BY <1>3 DEF ShardOf
  <2>2. (g[a] # NoHandle /\ g[a].inCache /\ ShardOf(g, a) = s) <=> PerShard # 0
    BY <1>2, <1>3 DEF ShardOf
  <2> QED BY <1>s, <2>1, <2>2 DEF Cached
<1> HIDE DEF g, v, S
<1>6. \A x \in S : g[x] = h[x] /\ g[x] \in Handle
  BY <1>1, <1>3, <1>s DEF TableHolds
<1>7. CASE PerShard = 0
  <2>1. InsertHandle(m, key, a) = [c |-> c, h |-> g]
    BY <1>1, <1>7 DEF InsertHandle, NewHandle, g
  <2>2. TableHolds(c, g, S)
    BY <1>1, <1>6, TableOfKeys DEF TableHolds
  <2>3. {x \in S : g[x].refs = 1} = {x \in S : h[x].refs = 1} /\ {x \in S : g[x].refs # 1} = {x \in S : h[x].refs # 1}
    BY <1>6
  <2>4. ListsHold(c, g, S)
    BY <1>1, <2>3 DEF ListsHold
  <2>5. ShardState([c |-> c, h |-> g], v, s)
    BY <1>3, <1>4, <1>5, <1>7, <2>2, <2>4 DEF ShardState, ShardHolds
  <2>6. Kept(g, g, s)
    BY DEF Kept
  <2>7. c.usage = 0
    BY <1>1, <1>7, FS_EmptySet DEF ListsHold, S
  <2> QED BY <1>7, <2>1, <2>5, <2>6, <2>7 DEF g, v
<1>8. CASE PerShard # 0
  <2> DEFINE old == TableLookup(c, h, key)
             d == [c EXCEPT !.inUse = @ \cup {a}, !.usage = @ + 1]
             e == TableInsert(d, g, key, a)
             p == [c |-> e, h |-> g]
             q == FinishErase(p, old)
             R == S \cup {a}
  <2>1. InsertHandle(m, key, a) = DropOldest(q, PerShard)
    BY <1>1, <1>8 DEF InsertHandle, NewHandle, g
  <2>2. /\ old = NoHandle => \A x \in S : h[x].key # key
        /\ old # NoHandle => old \in S /\ h[old].key = key
    BY <1>1, LookupFinds
  <2>3. /\ IsShard(d) /\ d.length = c.length /\ d.list = c.list /\ d.elems = c.elems
        /\ d.lru = c.lru /\ d.inUse = c.inUse \cup {a} /\ d.usage = c.usage + 1
    <3>1. IsShard(c)
      BY <1>1 DEF TableHolds
    <3>2. d = [c EXCEPT !.inUse = @ \cup {a}, !.usage = @ + 1]
      OBVIOUS
    <3> HIDE DEF c, d
    <3> QED BY <3>1, <3>2 DEF IsShard
  <2> HIDE DEF d
  <2>4. TableHolds(d, g, S)
    BY <1>1, <1>6, <2>3, TableOfKeys
  <2>5. TableLookup(d, g, key) = old
    <3>1. \A x \in c.list[BucketOf(c, key)] : g[x] = h[x]
      <4>1. BucketOf(c, key) \in 0 .. c.length - 1
        BY <1>1, BucketFacts DEF TableHolds
      <4>2. c.list[BucketOf(c, key)] \subseteq S
        BY <1>1, <4>1 DEF TableHolds
      <4> QED BY <1>6, <4>2
    <3>2. BucketOf(d, key) = BucketOf(c, key)
      BY <2>3 DEF BucketOf
    <3>3. {x \in d.list[BucketOf(d, key)] : g[x].key = key} = {x \in c.list[BucketOf(c, key)] : h[x].key = key}
      BY <2>3, <3>1, <3>2
    <3> DEFINE A == {x \in d.list[BucketOf(d, key)] : g[x].key = key}
               B == {x \in c.list[BucketOf(c, key)] : h[x].key = key}
    <3>4. TableLookup(d, g, key) = IF A = {} THEN NoHandle ELSE CHOOSE x \in A : TRUE
      BY DEF TableLookup
    <3>5. old = IF B = {} THEN NoHandle ELSE CHOOSE x \in B : TRUE
      BY DEF TableLookup
    <3>6. A = B
      BY <3>3
    <3> HIDE DEF A, B, old
    <3> QED BY <3>4, <3>5, <3>6
  <2> HIDE DEF old
  <2>6. /\ TableHolds(e, g, (S \ {old}) \cup {a})
        /\ e.lru = d.lru /\ e.inUse = d.inUse /\ e.usage = d.usage
    <3>1. a \in Addresses \ S /\ g[a] \in Handle /\ g[a].key = key
      BY <1>2, <1>3, <1>s
    <3> QED BY <2>4, <2>5, <3>1, InsertHolds
  <2> HIDE DEF e
  <2>7. ListsHold(e, g, R)
    <3>1. {x \in R : g[x].refs = 1} = {x \in S : h[x].refs = 1}
      BY <1>2, <1>3, <1>6, <1>8
    <3>2. {x \in R : g[x].refs # 1} = {x \in S : h[x].refs # 1} \cup {a}
      BY <1>2, <1>3, <1>6, <1>8
    <3>3. Cardinality(R) = Cardinality(S) + 1
      BY <1>s, AddressFacts, FS_AddElement
    <3> QED BY <1>1, <2>3, <2>6, <3>1, <3>2, <3>3 DEF ListsHold
  <2>8. Cached(g, s) = R
    BY <1>5, <1>8
  <2>n. NoHandle \notin S /\ a # NoHandle
    BY <1>s, AddressFacts
  <2>9. /\ ShardState(q, v, s) /\ Kept(g, q.h, s) /\ q.c.inUse = e.inUse \ {old}
    <3>1. CASE old = NoHandle
      <4>1. q = p
        BY <3>1 DEF FinishErase
      <4>2. (S \ {old}) \cup {a} = R
        BY <2>n, <3>1
      <4>3. e.inUse \ {old} = e.inUse
        BY <2>7, <2>n, <3>1 DEF ListsHold
      <4>4. Kept(g, g, s)
        BY DEF Kept
      <4>5. ShardState(p, v, s)
        BY <1>3, <1>4, <2>6, <2>7, <2>8, <4>2 DEF ShardState, ShardHolds
      <4> QED BY <4>1, <4>3, <4>4, <4>5
    <3>2. CASE old # NoHandle
      <4>1. (S \ {old}) \cup {a} = R \ {old} /\ old \in R
        BY <1>s, <2>2, <3>2
      <4>2. p.c = e /\ p.h = g
        OBVIOUS
      <4>0. p = [c |-> p.c, h |-> p.h]
        OBVIOUS
      <4> HIDE DEF p, R
      <4>3. Unhashed(p, v, s, old)
        BY <1>3, <1>4, <2>6, <2>7, <2>8, <4>0, <4>1, <4>2 DEF Unhashed
      <4>4. IsErased(q, p, v, s, old)
        BY <4>3, FinishEraseKeepsState
      <4> QED BY <4>2, <4>4 DEF IsErased
    <3> QED BY <3>1, <3>2
  <2> HIDE DEF q
  <2>10. /\ ShardState(DropOldest(q, PerShard), v, s)
         /\ Kept(q.h, DropOldest(q, PerShard).h, s)
         /\ DropOldest(q, PerShard).c.inUse = q.c.inUse
         /\ DropOldest(q, PerShard).c.usage > PerShard => DropOldest(q, PerShard).c.lru = <<>>
    BY <2>9, DropOldestKeepsState
  <2>11. Kept(g, DropOldest(q, PerShard).h, s)
    BY <2>9, <2>10, KeptTwice
  <2>12. \A x \in c.inUse : h[x].key # key => x \in q.c.inUse
    <3>1. \A x \in c.inUse : h[x].key # key => x # old
      BY <1>1, <2>2, <2>n DEF ListsHold
    <3> QED BY <2>3, <2>6, <2>9, <3>1
  <2> QED BY <2>1, <2>10, <2>11, <2>12 DEF g, v
<1> QED BY <1>7, <1>8
-----------------------------------------------------------------------------
(* How many threads use the handle at each address.                        *)
Counts(us) == [a \in Addresses |-> Cardinality({t \in CacheThreads : us[t].handle = a})]

(* What a thread does, with the handles h.                                 *)
UserAgrees(w, h) ==
  \/ w = IdleUser
  \/ \E k \in Tables : w = [at |-> "opens", table |-> k, handle |-> NoHandle]
  \/ \E k \in Tables, a \in Addresses :
       /\ w = [at |-> "uses", table |-> k, handle |-> a]
       /\ h[a] # NoHandle /\ h[a].key = k

CacheInv ==
  /\ users = [t \in CacheThreads |-> users[t]]
  /\ \A t \in CacheThreads : UserAgrees(users[t], handles)
  /\ shards = [s \in Shards |-> shards[s]]
  /\ \A s \in Shards : ShardState([c |-> shards[s], h |-> handles], Counts(users), s)
  /\ PerShard = 0 => \A a \in Addresses : handles[a] # NoHandle => ~handles[a].inCache

\* The capacity of a shard, and that there is one.
LEMMA ShardFacts == PerShard \in Nat /\ 0 \in Shards
<1>1. kNumShards \in Nat \ {0} /\ CacheCapacity \in Nat
  BY CacheAssumption
<1>2. ASSUME NEW x \in Nat, NEW n \in Nat \ {0} PROVE x \div n \in Nat
  OBVIOUS
<1>3. CacheCapacity + kNumShards - 1 \in Nat
  BY <1>1
<1> QED BY <1>1, <1>2, <1>3 DEF PerShard, Shards

\* A thread that is counted.
LEMMA UserCounts ==
  ASSUME NEW us, NEW t \in CacheThreads, NEW a \in Addresses, us[t].handle = a
  PROVE  Counts(us)[a] \in Nat \ {0}
<1> DEFINE U == {r \in CacheThreads : us[r].handle = a}
<1>1. IsFiniteSet(U) /\ U # {}
  BY CacheAssumption, FS_Subset
<1>2. Cardinality(U) \in Nat /\ Cardinality(U) # 0
  BY <1>1, FS_CardinalityType, FS_EmptySet
<1> QED BY <1>2 DEF Counts

\* A thread begins to use a handle, stops using one, or does neither.
LEMMA CountsChange ==
  ASSUME NEW us, us = [t \in CacheThreads |-> us[t]], NEW t \in CacheThreads,
         NEW w, NEW vs, vs = [us EXCEPT ![t] = w]
  PROVE  /\ us[t].handle = NoHandle /\ w.handle = NoHandle => Counts(vs) = Counts(us)
         /\ \A a \in Addresses :
              /\ us[t].handle = NoHandle /\ w.handle = a => Counts(vs) = [Counts(us) EXCEPT ![a] = @ + 1]
              /\ us[t].handle = a /\ w.handle = NoHandle => Counts(vs) = [Counts(us) EXCEPT ![a] = @ - 1]
<1> DEFINE U(x) == {r \in CacheThreads : us[r].handle = x}
           V(x) == {r \in CacheThreads : vs[r].handle = x}
<1>1. vs[t] = w /\ \A r \in CacheThreads \ {t} : vs[r] = us[r]
  OBVIOUS
<1>2. \A x \in Addresses : x # NoHandle
  BY AddressFacts
<1>3. \A x : IsFiniteSet(U(x))
  BY CacheAssumption, FS_Subset
<1>4. ASSUME us[t].handle = NoHandle, w.handle = NoHandle
      PROVE  Counts(vs) = Counts(us)
  <2>1. \A x \in Addresses : V(x) = U(x)
    BY <1>1, <1>2, <1>4
  <2> QED BY <2>1 DEF Counts
<1>5. ASSUME NEW a \in Addresses, us[t].handle = NoHandle, w.handle = a
      PROVE  Counts(vs) = [Counts(us) EXCEPT ![a] = @ + 1]
  <2>1. \A x \in Addresses \ {a} : V(x) = U(x)
    BY <1>1, <1>2, <1>5
  <2>2. V(a) = U(a) \cup {t} /\ t \notin U(a)
    BY <1>1, <1>2, <1>5
  <2>3. Cardinality(V(a)) = Cardinality(U(a)) + 1
    <3>1. IsFiniteSet(U(a))
      BY <1>3
    <3> HIDE DEF U, V
    <3> QED BY <2>2, <3>1, FS_AddElement
  <2> QED BY <2>1, <2>3 DEF Counts
<1>6. ASSUME NEW a \in Addresses, us[t].handle = a, w.handle = NoHandle
      PROVE  Counts(vs) = [Counts(us) EXCEPT ![a] = @ - 1]
  <2>1. \A x \in Addresses \ {a} : V(x) = U(x)
    BY <1>1, <1>2, <1>6
  <2>2. V(a) = U(a) \ {t} /\ t \in U(a)
    BY <1>1, <1>2, <1>6
  <2>3. Cardinality(V(a)) = Cardinality(U(a)) - 1
    <3>1. IsFiniteSet(U(a))
      BY <1>3
    <3> HIDE DEF U, V
    <3> QED BY <2>2, <3>1, FS_RemoveElement
  <2> QED BY <2>1, <2>3 DEF Counts
<1> QED BY <1>4, <1>5, <1>6

\* A shard whose handles stay as they are.
LEMMA SameShard ==
  ASSUME NEW c, NEW h, NEW g, NEW s, ShardHolds(c, h, s), Cached(g, s) = Cached(h, s),
         \A x \in Cached(h, s) : g[x] = h[x]
  PROVE  ShardHolds(c, g, s)
<1> DEFINE S == Cached(h, s)
<1>1. TableHolds(c, h, S) /\ ListsHold(c, h, S) /\ \A x \in S : g[x] = h[x]
  BY DEF ShardHolds
<1> HIDE DEF S
<1>2. TableHolds(c, g, S)
  BY <1>1, TableOfKeys DEF TableHolds
<1>3. {x \in S : g[x].refs = 1} = {x \in S : h[x].refs = 1} /\ {x \in S : g[x].refs # 1} = {x \in S : h[x].refs # 1}
  BY <1>1
<1>4. ListsHold(c, g, S)
  BY <1>1, <1>3 DEF ListsHold
<1> QED BY <1>2, <1>4 DEF ShardHolds, S

\* A call on a shard leaves the others.
LEMMA OtherShard ==
  ASSUME NEW c, NEW h, NEW g, NEW s, NEW r, r # s, ShardHolds(c, h, r), Kept(h, g, s)
  PROVE  ShardHolds(c, g, r)
<1>1. \A x \in Cached(h, r) : x \in Addresses /\ h[x] # NoHandle /\ h[x].inCache /\ ShardOf(h, x) = r
  BY DEF Cached
<1>2. \A x \in Cached(h, r) : g[x] = h[x]
  BY <1>1 DEF Kept
<1>3. Cached(h, r) \subseteq Cached(g, r)
  BY <1>1, <1>2 DEF Cached, ShardOf
<1>4. ASSUME NEW x \in Cached(g, r) PROVE x \in Cached(h, r)
  <2>1. x \in Addresses /\ g[x] # NoHandle /\ g[x].inCache /\ ShardOf(g, x) = r
    BY <1>4 DEF Cached
  <2>2. h[x] # NoHandle /\ h[x].key = g[x].key /\ h[x].inCache
    BY <2>1 DEF Kept
  <2> QED BY <2>1, <2>2 DEF Cached, ShardOf
<1>5. Cached(g, r) = Cached(h, r)
  BY <1>3, <1>4
<1> QED BY <1>2, <1>5, SameShard

\* The invariant holds at the start.
LEMMA CacheInitInv == CacheInit => CacheInv
<1> SUFFICES ASSUME CacheInit PROVE CacheInv
  OBVIOUS
<1> DEFINE c == [length |-> kFirstLength, elems |-> 0, list |-> [b \in 0 .. kFirstLength - 1 |-> {}],
                 lru |-> <<>>, inUse |-> {}, usage |-> 0]
           h == [a \in Addresses |-> NoHandle]
           u == Counts(users)
<1>1. handles = h /\ shards = [s \in Shards |-> c] /\ users = [t \in CacheThreads |-> IdleUser]
  BY DEF CacheInit
<1>2. u = [a \in Addresses |-> 0]
  <2>1. \A a \in Addresses : {t \in CacheThreads : users[t].handle = a} = {}
    BY <1>1, AddressFacts DEF IdleUser
  <2>2. \A a \in Addresses : Cardinality({t \in CacheThreads : users[t].handle = a}) = 0
    BY <2>1, FS_EmptySet
  <2> QED BY <2>2 DEF Counts
<1>3. \A s : Cached(h, s) = {}
  BY DEF Cached
<1>4. Cardinality({}) = 0
  BY FS_EmptySet
<1>5. TableHolds(c, h, {})
  BY <1>4, CacheAssumption DEF TableHolds, IsShard
<1>6. ListsHold(c, h, {})
  <2>1. c.lru = <<>> /\ c.inUse = {} /\ c.usage = 0
    OBVIOUS
  <2>2. <<>> \in Seq(Addresses) /\ DOMAIN <<>> = {} /\ Range(<<>>) = {}
    BY DEF Range
  <2> HIDE DEF c
  <2> QED BY <1>4, <2>1, <2>2 DEF ListsHold
<1>7. IsHandles(h) /\ RefsAgree(h, u)
  BY <1>2 DEF IsHandles, RefsAgree
<1>8. \A s \in Shards : ShardState([c |-> c, h |-> h], u, s)
  <2> HIDE DEF c, h, u
  <2> QED BY <1>3, <1>5, <1>6, <1>7 DEF ShardState, ShardHolds
<1>9. \A s \in Shards : ShardState([c |-> shards[s], h |-> handles], u, s)
  <2> HIDE DEF c, h, u
  <2> QED BY <1>1, <1>8
<1> QED BY <1>1, <1>9 DEF CacheInv, UserAgrees

\* A call on a shard keeps the invariant if it keeps what it promises of the shard.
LEMMA CallKeepsInv ==
  ASSUME NEW s \in Shards, NEW h, NEW m,
         shards = [r \in Shards |-> shards[r]],
         \A r \in Shards \ {s} : ShardHolds(shards[r], h, r),
         Kept(h, m.h, s), ShardState(m, Counts(users'), s),
         shards' = [shards EXCEPT ![s] = m.c], handles' = m.h,
         users' = [t \in CacheThreads |-> users'[t]],
         \A t \in CacheThreads : UserAgrees(users'[t], h),
         PerShard = 0 => \A a \in Addresses : h[a] # NoHandle => ~h[a].inCache
  PROVE  CacheInv'
<1> DEFINE g == m.h
           u == Counts(users')
<1>1. /\ m = [c |-> m.c, h |-> g] /\ IsHandles(g) /\ RefsAgree(g, u) /\ ShardHolds(m.c, g, s)
      /\ Kept(h, g, s)
  BY DEF ShardState
<1>2. \A r \in Shards : ShardState([c |-> shards'[r], h |-> g], u, r)
  <2> TAKE r \in Shards
  <2>1. CASE r = s
    <3>1. shards'[r] = m.c
      BY <2>1
    <3> HIDE DEF g, u
    <3> QED BY <1>1, <2>1, <3>1 DEF ShardState
  <2>2. CASE r # s
    <3>1. shards'[r] = shards[r]
      BY <2>2
    <3>2. ShardHolds(shards[r], g, r)
      BY <1>1, <2>2, OtherShard
    <3> HIDE DEF g, u
    <3> QED BY <1>1, <3>1, <3>2 DEF ShardState
  <2> QED BY <2>1, <2>2
<1>3. ASSUME NEW t \in CacheThreads PROVE UserAgrees(users'[t], g)
  <2> DEFINE w == users'[t]
  <2>1. UserAgrees(w, h)
    OBVIOUS
  <2>2. ASSUME NEW k \in Tables, NEW a \in Addresses, w = [at |-> "uses", table |-> k, handle |-> a],
               h[a] # NoHandle, h[a].key = k
        PROVE  g[a] # NoHandle /\ g[a].key = k
    <3>1. w.handle = a
      BY <2>2
    <3>2. u[a] \in Nat \ {0}
      BY <3>1, UserCounts
    <3>3. g[a] # NoHandle
      BY <1>1, <3>2 DEF RefsAgree
    <3> QED BY <1>1, <2>2, <3>3 DEF Kept
  <2>3. UserAgrees(w, g)
    <3> HIDE DEF w, g
    <3> QED BY <2>1, <2>2 DEF UserAgrees
  <2> QED BY <2>3
<1>4. PerShard = 0 => \A a \in Addresses : g[a] # NoHandle => ~g[a].inCache
  BY <1>1 DEF Kept
<1>5. shards' = [r \in Shards |-> shards'[r]]
  OBVIOUS
<1> QED BY <1>2, <1>3, <1>4, <1>5 DEF CacheInv

\* What the invariant says of each shard.
LEMMA ShardsHold ==
  ASSUME CacheInv
  PROVE  /\ \A s \in Shards : /\ ShardHolds(shards[s], handles, s)
                              /\ ShardState([c |-> shards[s], h |-> handles], Counts(users), s)
         /\ IsHandles(handles) /\ RefsAgree(handles, Counts(users))
<1>1. \A s \in Shards : ShardState([c |-> shards[s], h |-> handles], Counts(users), s)
  BY DEF CacheInv
<1>2. \A s \in Shards : ShardHolds(shards[s], handles, s) /\ IsHandles(handles) /\ RefsAgree(handles, Counts(users))
  BY <1>1 DEF ShardState
<1> QED BY <1>1, <1>2, ShardFacts

\* Nothing changes but what a thread does, and it neither begins nor stops to use
\* a handle.
LEMMA UserStepKeepsInv ==
  ASSUME CacheInv, NEW t \in CacheThreads, NEW w, UserAgrees(w, handles),
         users[t].handle = NoHandle, w.handle = NoHandle,
         users' = [users EXCEPT ![t] = w], UNCHANGED <<shards, handles>>
  PROVE  CacheInv'
<1>1. users' = [r \in CacheThreads |-> users'[r]] /\ \A r \in CacheThreads : UserAgrees(users'[r], handles)
  BY DEF CacheInv
<1>2. Counts(users') = Counts(users)
  <2>1. users = [r \in CacheThreads |-> users[r]]
    BY DEF CacheInv
  <2> QED BY <2>1, CountsChange
<1> QED BY <1>1, <1>2 DEF CacheInv

\* TableCache::FindTable, the lookup.
LEMMA FindTableKeepsInv ==
  ASSUME CacheInv, NEW t \in CacheThreads, NEW key \in Tables, FindTable(t, key)
  PROVE  CacheInv'
<1> DEFINE s == Shard(Hash[key])
           a == TableLookup(shards[s], handles, key)
           m == [c |-> shards[s], h |-> handles]
<1>1. s \in Shards
  BY BucketFacts
<1>2. users[t] = IdleUser /\ users[t].handle = NoHandle
  BY DEF CacheInv, UserAgrees, FindTable, IdleUser
<1>3. CASE a = NoHandle
  <2> DEFINE w == [at |-> "opens", table |-> key, handle |-> NoHandle]
  <2>1. users' = [users EXCEPT ![t] = w] /\ UNCHANGED <<shards, handles>>
    BY <1>3 DEF FindTable
  <2>2. UserAgrees(w, handles) /\ w.handle = NoHandle
    BY DEF UserAgrees
  <2> HIDE DEF w
  <2> QED BY <1>2, <2>1, <2>2, UserStepKeepsInv
<1>4. CASE a # NoHandle
  <2> DEFINE w == [at |-> "uses", table |-> key, handle |-> a]
             n == Ref(m, a)
  <2>1. /\ users' = [users EXCEPT ![t] = w]
        /\ shards' = [shards EXCEPT ![s] = n.c] /\ handles' = n.h
    BY <1>4 DEF FindTable, OnShard
  <2>2. ShardState(m, Counts(users), s) /\ TableHolds(shards[s], handles, Cached(handles, s))
    BY <1>1, ShardsHold DEF ShardHolds
  <2>3. a \in Cached(handles, s) /\ handles[a].key = key
    BY <1>4, <2>2, LookupFinds
  <2>4. a \in Addresses /\ handles[a] # NoHandle /\ m.h = handles
    BY <2>3 DEF Cached
  <2>5. UserAgrees(w, handles) /\ w.handle = a
    BY <2>3, <2>4 DEF UserAgrees
  <2> HIDE DEF a, m, n, w, s
  <2>6. Counts(users') = [Counts(users) EXCEPT ![a] = @ + 1]
    <3>1. users = [r \in CacheThreads |-> users[r]]
      BY DEF CacheInv
    <3> QED BY <1>2, <2>1, <2>4, <2>5, <3>1, CountsChange
  <2>7. ShardState(n, Counts(users'), s) /\ Kept(handles, n.h, s)
    <3>1. a \in Cached(m.h, s)
      BY <2>3, <2>4
    <3>2. ShardState(Ref(m, a), [Counts(users) EXCEPT ![a] = @ + 1], s) /\ Kept(m.h, Ref(m, a).h, s)
      BY <2>2, <3>1, RefKeepsState
    <3> QED BY <2>4, <2>6, <3>2 DEF n
  <2>8. \A r \in Shards \ {s} : ShardHolds(shards[r], handles, r)
    BY ShardsHold
  <2>9. users' = [r \in CacheThreads |-> users'[r]] /\ \A r \in CacheThreads : UserAgrees(users'[r], handles)
    BY <2>1, <2>5 DEF CacheInv
  <2>10. shards = [r \in Shards |-> shards[r]] /\ (PerShard = 0 => \A x \in Addresses : handles[x] # NoHandle => ~handles[x].inCache)
    BY DEF CacheInv
  <2> QED BY <1>1, <2>1, <2>7, <2>8, <2>9, <2>10, CallKeepsInv
<1> QED BY <1>3, <1>4

\* The end of a read: the handle is released.
LEMMA ReleaseTableKeepsInv ==
  ASSUME CacheInv, NEW t \in CacheThreads, ReleaseTable(t)
  PROVE  CacheInv'
<1>1. PICK key \in Tables, a \in Addresses :
        /\ users[t] = [at |-> "uses", table |-> key, handle |-> a]
        /\ handles[a] # NoHandle /\ handles[a].key = key
  BY DEF CacheInv, UserAgrees, ReleaseTable, IdleUser
<1> DEFINE s == Shard(Hash[key])
           m == [c |-> shards[s], h |-> handles]
           n == Unref(m, a)
<1>2. s \in Shards
  BY BucketFacts
<1>3. users[t].handle = a /\ users[t].table = key /\ IdleUser.handle = NoHandle
  BY <1>1 DEF IdleUser
<1>4. /\ users' = [users EXCEPT ![t] = IdleUser]
      /\ shards' = [shards EXCEPT ![s] = n.c] /\ handles' = n.h
  BY <1>3 DEF ReleaseTable, OnShard
<1>5. ShardState(m, Counts(users), s) /\ m.h = handles /\ ShardOf(m.h, a) = s
  BY <1>1, <1>2, ShardsHold DEF ShardOf
<1>6. Counts(users)[a] > 0
  BY <1>3, UserCounts
<1> HIDE DEF m, n, s
<1>7. Counts(users') = [Counts(users) EXCEPT ![a] = @ - 1]
  <2>1. users = [r \in CacheThreads |-> users[r]]
    BY DEF CacheInv
  <2> QED BY <1>3, <1>4, <2>1, CountsChange
<1>8. ShardState(n, Counts(users'), s) /\ Kept(handles, n.h, s)
  <2>1. m.h[a] # NoHandle
    BY <1>1, <1>5
  <2>2. ShardState(Unref(m, a), [Counts(users) EXCEPT ![a] = @ - 1], s) /\ Kept(m.h, Unref(m, a).h, s)
    BY <1>5, <1>6, <2>1, UnrefKeepsState
  <2> QED BY <1>5, <1>7, <2>2 DEF n
<1>9. \A r \in Shards \ {s} : ShardHolds(shards[r], handles, r)
  BY ShardsHold
<1>10. users' = [r \in CacheThreads |-> users'[r]] /\ \A r \in CacheThreads : UserAgrees(users'[r], handles)
  BY <1>4 DEF CacheInv, UserAgrees
<1>11. shards = [r \in Shards |-> shards[r]] /\ (PerShard = 0 => \A x \in Addresses : handles[x] # NoHandle => ~handles[x].inCache)
  BY DEF CacheInv
<1> QED BY <1>2, <1>4, <1>8, <1>9, <1>10, <1>11, CallKeepsInv

\* A call that no user makes: it keeps the invariant if it keeps the shard's state.
LEMMA ForeignCallKeepsInv ==
  ASSUME CacheInv, NEW s \in Shards, NEW n,
         ShardState(n, Counts(users), s), Kept(handles, n.h, s),
         shards' = [shards EXCEPT ![s] = n.c], handles' = n.h, UNCHANGED users
  PROVE  CacheInv'
<1>1. ShardState(n, Counts(users'), s)
  <2>1. users' = users
    OBVIOUS
  <2> QED BY <2>1
<1>2. \A r \in Shards \ {s} : ShardHolds(shards[r], handles, r)
  BY ShardsHold
<1>3. users' = [r \in CacheThreads |-> users'[r]] /\ \A r \in CacheThreads : UserAgrees(users'[r], handles)
  BY DEF CacheInv
<1>4. shards = [r \in Shards |-> shards[r]] /\ (PerShard = 0 => \A x \in Addresses : handles[x] # NoHandle => ~handles[x].inCache)
  BY DEF CacheInv
<1> QED BY <1>1, <1>2, <1>3, <1>4, CallKeepsInv

\* TableCache::Evict.
LEMMA EvictKeepsInv ==
  ASSUME CacheInv, NEW key \in Tables, Evict(key)
  PROVE  CacheInv'
<1> DEFINE s == Shard(Hash[key])
           m == [c |-> shards[s], h |-> handles]
           n == EraseKey(m, key)
<1>1. s \in Shards
  BY BucketFacts
<1>2. shards' = [shards EXCEPT ![s] = n.c] /\ handles' = n.h /\ UNCHANGED users
  BY DEF Evict, OnShard
<1>3. ShardState(m, Counts(users), s) /\ m.h = handles /\ Shard(Hash[key]) = s
  BY <1>1, ShardsHold
<1> HIDE DEF m, s
<1>4. ShardState(n, Counts(users), s) /\ Kept(handles, n.h, s)
  BY <1>3, EraseKeepsState
<1> HIDE DEF n
<1> QED BY <1>1, <1>2, <1>4, ForeignCallKeepsInv

\* Cache::Prune, on a shard.
LEMMA PruneKeepsInv ==
  ASSUME CacheInv, NEW s \in Shards, Prune(s)
  PROVE  CacheInv'
<1> DEFINE m == [c |-> shards[s], h |-> handles]
           n == DropOldest(m, 0)
<1>1. shards' = [shards EXCEPT ![s] = n.c] /\ handles' = n.h /\ UNCHANGED users
  BY DEF Prune
<1>2. ShardState(m, Counts(users), s) /\ m.h = handles
  BY ShardsHold
<1> HIDE DEF m
<1>3. ShardState(n, Counts(users), s) /\ Kept(handles, n.h, s)
  BY <1>2, DropOldestKeepsState
<1> HIDE DEF n
<1> QED BY <1>1, <1>3, ForeignCallKeepsInv

\* malloc finds room: a handle is in the cache, one of each key, or used by a
\* thread that does not open a table.
LEMMA AddressFree ==
  ASSUME CacheInv, NEW t \in CacheThreads, users[t].handle = NoHandle
  PROVE  \E a \in Addresses : handles[a] = NoHandle
<1> SUFFICES ASSUME \A a \in Addresses : handles[a] # NoHandle PROVE FALSE
  OBVIOUS
<1> DEFINE In == {a \in Addresses : handles[a].inCache}
           Out == Addresses \ In
           Others == CacheThreads \ {t}
           nT == Cardinality(Tables)
           nC == Cardinality(CacheThreads)
<1>1. IsHandles(handles) /\ RefsAgree(handles, Counts(users)) /\ \A a \in Addresses : handles[a] \in Handle
  BY ShardsHold DEF IsHandles
<1>2. IsFiniteSet(Tables) /\ IsFiniteSet(CacheThreads) /\ nT \in Nat /\ nC \in Nat
  BY CacheAssumption, FS_CardinalityType
<1>3. IsFiniteSet(Others) /\ Cardinality(Others) = nC - 1
  BY <1>2, FS_RemoveElement
<1>4. IsFiniteSet(In) /\ IsFiniteSet(Out) /\ Cardinality(In) \in Nat /\ Cardinality(Out) \in Nat
  BY AddressFacts
<1>5. Cardinality(In) <= nT
  <2> DEFINE f == [a \in In |-> handles[a].key]
  <2>1. f \in [In -> Tables]
    BY <1>1 DEF Handle
  <2>2. ASSUME NEW a \in In, NEW b \in In, f[a] = f[b] PROVE a = b
    <3> DEFINE s == ShardOf(handles, a)
    <3>1. handles[a].key = handles[b].key /\ handles[a].key \in Tables
      BY <1>1, <2>2 DEF Handle
    <3>2. s \in Shards /\ ShardOf(handles, b) = s
      BY <3>1, BucketFacts DEF ShardOf
    <3>3. a \in Cached(handles, s) /\ b \in Cached(handles, s)
      BY <3>2 DEF Cached
    <3>4. TableHolds(shards[s], handles, Cached(handles, s))
      BY <3>2, ShardsHold DEF ShardHolds
    <3> QED BY <3>1, <3>3, <3>4 DEF TableHolds
  <2>3. f \in Injection(In, Tables)
    BY <2>1, <2>2 DEF Injection, IsInjective
  <2> HIDE DEF In, f
  <2> QED BY <1>2, <2>3, FS_Injection
<1>6. Cardinality(Out) <= nC - 1
  <2> DEFINE UserOf(a) == CHOOSE r \in CacheThreads : users[r].handle = a
             f == [a \in Out |-> UserOf(a)]
  <2>1. ASSUME NEW a \in Out PROVE UserOf(a) \in Others /\ users[UserOf(a)].handle = a
    <3> DEFINE U == {r \in CacheThreads : users[r].handle = a}
    <3>1. handles[a].refs = Counts(users)[a] /\ handles[a].refs # 0
      BY <1>1 DEF RefsAgree, Handle
    <3>2. Cardinality(U) # 0
      BY <3>1 DEF Counts
    <3>3. U # {}
      BY <3>2, FS_EmptySet
    <3>4. UserOf(a) \in CacheThreads /\ users[UserOf(a)].handle = a
      BY <3>3
    <3> QED BY <3>4, AddressFacts
  <2>2. f \in [Out -> Others]
    BY <2>1
  <2>3. \A a, b \in Out : f[a] = f[b] => a = b
    BY <2>1
  <2>4. f \in Injection(Out, Others)
    BY <2>2, <2>3 DEF Injection, IsInjective
  <2> HIDE DEF Out, f, Others
  <2> QED BY <1>3, <2>4, FS_Injection
<1>7. Cardinality(Addresses) = nT + nC
  <2>1. nT + nC \in Nat
    BY <1>2
  <2> DEFINE n == nT + nC
  <2>2. Addresses = 1 .. n
    BY DEF Addresses
  <2> HIDE DEF n
  <2>3. n \in Nat
    BY <2>1 DEF n
  <2>4. Cardinality(1 .. n) = n
    BY <2>3, FS_Interval
  <2> QED BY <2>2, <2>4 DEF n
<1>8. Cardinality(Addresses) <= Cardinality(In) + Cardinality(Out)
  <2>1. Addresses = In \cup Out /\ In \cap Out = {}
    OBVIOUS
  <2>2. Cardinality(In \cup Out) = Cardinality(In) + Cardinality(Out) - Cardinality(In \cap Out)
    BY <1>4, FS_Union
  <2>3. Cardinality(In \cap Out) = 0
    BY <2>1, FS_EmptySet
  <2>4. Cardinality(Addresses) = Cardinality(In \cup Out)
    BY <2>1
  <2> HIDE DEF In, Out
  <2> QED BY <1>4, <2>2, <2>3, <2>4
<1> HIDE DEF In, Out, nT, nC
<1> QED BY <1>2, <1>4, <1>5, <1>6, <1>7, <1>8

\* What InsertTable does: the thread that opened a table takes a free address for
\* its handle, and uses it.
LEMMA InsertTableStep ==
  ASSUME CacheInv, NEW t \in CacheThreads, InsertTable(t)
  PROVE  \E key \in Tables, a \in Addresses :
           LET n == InsertHandle([c |-> shards[Shard(Hash[key])], h |-> handles], key, a)
           IN  /\ users[t] = [at |-> "opens", table |-> key, handle |-> NoHandle]
               /\ handles[a] = NoHandle
               /\ users' = [users EXCEPT ![t] = [at |-> "uses", table |-> key, handle |-> a]]
               /\ shards' = [shards EXCEPT ![Shard(Hash[key])] = n.c] /\ handles' = n.h
<1>1. PICK key \in Tables : users[t] = [at |-> "opens", table |-> key, handle |-> NoHandle]
  BY DEF CacheInv, UserAgrees, InsertTable, IdleUser
<1>2. users[t].table = key /\ users[t].handle = NoHandle
  BY <1>1
<1> DEFINE Lowest(x) == handles[x] = NoHandle /\ \A y \in 1 .. x - 1 : handles[y] # NoHandle
           a == CHOOSE x \in Addresses : Lowest(x)
           Free == {x \in Addresses : handles[x] = NoHandle}
<1>3. \E x \in Addresses : Lowest(x)
  <2>1. Free \in SUBSET Nat /\ Free # {}
    BY <1>2, AddressFree, AddressFacts
  <2>2. PICK x \in Free : \A y \in Free : x <= y
    <3> HIDE DEF Free
    <3> QED BY <2>1, LeastNatural
  <2>3. ASSUME NEW y \in 1 .. x - 1 PROVE handles[y] # NoHandle
    <3> DEFINE n == Cardinality(Tables) + Cardinality(CacheThreads)
    <3>1. n \in Int /\ Addresses = 1 .. n
      BY CacheAssumption, FS_CardinalityType DEF Addresses
    <3> HIDE DEF n
    <3>2. x \in 1 .. n
      BY <3>1
    <3>3. y \in 1 .. n /\ ~(x <= y)
      BY <3>1, <3>2
    <3> QED BY <2>2, <3>1, <3>3
  <2>4. x \in Addresses /\ Lowest(x)
    BY <2>3
  <2> QED BY <2>4
<1>4. a \in Addresses /\ Lowest(a)
  <2> HIDE DEF Lowest
  <2> QED BY <1>3
<1>5. OnShard(key, LAMBDA m : InsertHandle(m, key, a))
  BY <1>2 DEF InsertTable
<1>6. users' = [users EXCEPT ![t] = [at |-> "uses", table |-> key, handle |-> a]]
  BY <1>2 DEF InsertTable
<1> DEFINE n == InsertHandle([c |-> shards[Shard(Hash[key])], h |-> handles], key, a)
<1>7. shards' = [shards EXCEPT ![Shard(Hash[key])] = n.c] /\ handles' = n.h
  BY <1>5 DEF OnShard
<1>8. handles[a] = NoHandle
  BY <1>4
<1> QED BY <1>1, <1>4, <1>6, <1>7, <1>8

\* What InsertKeepsState says of the step.
LEMMA InsertTableKeepsShard ==
  ASSUME CacheInv, NEW key \in Tables, NEW a \in Addresses, handles[a] = NoHandle,
         NEW s, s = Shard(Hash[key]), NEW n,
         n = InsertHandle([c |-> shards[s], h |-> handles], key, a)
  PROVE  /\ ShardState(n, [Counts(users) EXCEPT ![a] = @ + 1], s)
         /\ Kept([handles EXCEPT ![a] = NewHandle(key)], n.h, s)
         /\ \A x \in shards[s].inUse : handles[x].key # key => x \in n.c.inUse
         /\ n.c.usage > PerShard => n.c.lru = <<>>
<1> DEFINE m == [c |-> shards[s], h |-> handles]
<1>1. s \in Shards
  BY BucketFacts
<1>2. ShardState(m, Counts(users), s)
  BY <1>1, ShardsHold
<1>3. m.h = handles /\ m.c = shards[s]
  OBVIOUS
<1>4. PerShard \in Nat /\ (PerShard = 0 => Cached(m.h, s) = {})
  <2>1. PerShard = 0 => Cached(handles, s) = {}
    BY DEF CacheInv, Cached
  <2> QED BY <1>3, <2>1, ShardFacts
<1>5. n = InsertHandle(m, key, a)
  OBVIOUS
<1> HIDE DEF m
<1>6. /\ ShardState(InsertHandle(m, key, a), [Counts(users) EXCEPT ![a] = @ + 1], s)
      /\ Kept([m.h EXCEPT ![a] = NewHandle(key)], InsertHandle(m, key, a).h, s)
      /\ \A x \in m.c.inUse : m.h[x].key # key => x \in InsertHandle(m, key, a).c.inUse
      /\ InsertHandle(m, key, a).c.usage > PerShard => InsertHandle(m, key, a).c.lru = <<>>
  <2>1. m.h[a] = NoHandle /\ Shard(Hash[key]) = s
    BY <1>3
  <2> QED BY <1>2, <1>4, <2>1, InsertKeepsState
<1> QED BY <1>3, <1>5, <1>6

\* TableCache::FindTable, the insertion.
LEMMA InsertTableKeepsInv ==
  ASSUME CacheInv, NEW t \in CacheThreads, InsertTable(t)
  PROVE  CacheInv'
<1>1. PICK key \in Tables, a \in Addresses :
        LET n == InsertHandle([c |-> shards[Shard(Hash[key])], h |-> handles], key, a)
        IN  /\ users[t] = [at |-> "opens", table |-> key, handle |-> NoHandle]
            /\ handles[a] = NoHandle
            /\ users' = [users EXCEPT ![t] = [at |-> "uses", table |-> key, handle |-> a]]
            /\ shards' = [shards EXCEPT ![Shard(Hash[key])] = n.c] /\ handles' = n.h
  BY InsertTableStep
<1> DEFINE s == Shard(Hash[key])
           n == InsertHandle([c |-> shards[s], h |-> handles], key, a)
           w == [at |-> "uses", table |-> key, handle |-> a]
           h == [handles EXCEPT ![a] = NewHandle(key)]
<1>2. /\ users[t].handle = NoHandle /\ w.handle = a /\ handles[a] = NoHandle
      /\ users' = [users EXCEPT ![t] = w]
      /\ shards' = [shards EXCEPT ![s] = n.c] /\ handles' = n.h
  BY <1>1
<1>3. s \in Shards
  BY BucketFacts
<1> HIDE DEF n
<1>4. /\ ShardState(n, [Counts(users) EXCEPT ![a] = @ + 1], s) /\ Kept(h, n.h, s)
  BY <1>2, InsertTableKeepsShard DEF n
<1>5. /\ IsHandles(handles) /\ h[a] = NewHandle(key) /\ \A x \in Addresses \ {a} : h[x] = handles[x]
      /\ NewHandle(key).key = key /\ NewHandle(key).inCache = (PerShard # 0) /\ NewHandle(key) # NoHandle
  <2>1. IsHandles(handles)
    BY ShardsHold
  <2>2. NewHandle(key) \in Handle /\ NewHandle(key).key = key /\ NewHandle(key).inCache = (PerShard # 0)
    BY DEF NewHandle, Handle
  <2> QED BY <2>1, <2>2, AddressFacts DEF IsHandles
<1>6. UserAgrees(w, h)
  <2>1. h[a] # NoHandle /\ h[a].key = key
    BY <1>5
  <2> HIDE DEF h
  <2> QED BY <2>1 DEF UserAgrees
<1> HIDE DEF h, w
<1>7. Counts(users') = [Counts(users) EXCEPT ![a] = @ + 1]
  <2>1. users = [r \in CacheThreads |-> users[r]]
    BY DEF CacheInv
  <2> QED BY <1>2, <2>1, CountsChange
<1>8. ShardState(n, Counts(users'), s)
  BY <1>4, <1>7
<1>9. ASSUME NEW r \in Shards \ {s} PROVE ShardHolds(shards[r], h, r)
  <2>1. ShardOf(h, a) = s
    BY <1>5 DEF ShardOf, s
  <2> HIDE DEF s
  <2>2. Cached(h, r) = Cached(handles, r)
    <3>1. \A x \in Addresses : (h[x] # NoHandle /\ h[x].inCache /\ ShardOf(h, x) = r)
                           <=> (handles[x] # NoHandle /\ handles[x].inCache /\ ShardOf(handles, x) = r)
      BY <1>2, <1>5, <2>1 DEF ShardOf
    <3> QED BY <3>1 DEF Cached
  <2>3. \A x \in Cached(handles, r) : h[x] = handles[x]
    BY <1>2, <1>5 DEF Cached
  <2>4. ShardHolds(shards[r], handles, r)
    BY ShardsHold
  <2> QED BY <2>2, <2>3, <2>4, SameShard
<1>10. \A v \in {users[r] : r \in CacheThreads} : UserAgrees(v, handles) => UserAgrees(v, h)
  <2> TAKE v \in {users[r] : r \in CacheThreads}
  <2>1. \A x \in Addresses : handles[x] # NoHandle => h[x] = handles[x]
    BY <1>2, <1>5
  <2> QED BY <2>1 DEF UserAgrees
<1>11. users' = [r \in CacheThreads |-> users'[r]] /\ \A r \in CacheThreads : UserAgrees(users'[r], h)
  <2>1. users = [r \in CacheThreads |-> users[r]] /\ \A r \in CacheThreads : UserAgrees(users[r], handles)
    BY DEF CacheInv
  <2>2. \A r \in CacheThreads : UserAgrees(users[r], h)
    BY <1>10, <2>1
  <2> QED BY <1>2, <1>6, <2>1, <2>2
<1>12. /\ shards = [r \in Shards |-> shards[r]]
       /\ PerShard = 0 => \A x \in Addresses : h[x] # NoHandle => ~h[x].inCache
  <2>1. /\ shards = [r \in Shards |-> shards[r]]
        /\ PerShard = 0 => \A x \in Addresses : handles[x] # NoHandle => ~handles[x].inCache
    BY DEF CacheInv
  <2> QED BY <1>5, <2>1
<1> HIDE DEF s
<1> QED BY <1>2, <1>3, <1>4, <1>8, <1>9, <1>11, <1>12, CallKeepsInv

\* An open that fails.
LEMMA OpenTableFailsKeepsInv ==
  ASSUME CacheInv, NEW t \in CacheThreads, OpenTableFails(t)
  PROVE  CacheInv'
<1>1. users[t].handle = NoHandle
  BY DEF CacheInv, UserAgrees, OpenTableFails, IdleUser
<1>2. UserAgrees(IdleUser, handles) /\ IdleUser.handle = NoHandle
  BY DEF UserAgrees, IdleUser
<1> QED BY <1>1, <1>2, UserStepKeepsInv DEF OpenTableFails

\* The invariant holds in every state.
LEMMA CacheInvHolds == CacheSpec => []CacheInv
<1>1. CacheInit => CacheInv
  BY CacheInitInv
<1>2. CacheInv /\ [CacheNext]_cacheVars => CacheInv'
  <2> SUFFICES ASSUME CacheInv, [CacheNext]_cacheVars PROVE CacheInv'
    OBVIOUS
  <2>1. CASE UNCHANGED cacheVars
    BY <2>1 DEF CacheInv, cacheVars
  <2>2. CASE CacheNext
    BY <2>2, FindTableKeepsInv, InsertTableKeepsInv, OpenTableFailsKeepsInv,
       ReleaseTableKeepsInv, EvictKeepsInv, PruneKeepsInv DEF CacheNext
  <2> QED BY <2>1, <2>2
<1> QED BY <1>1, <1>2, PTL DEF CacheSpec
-----------------------------------------------------------------------------
\* A list without repetition is as long as what is on it.
LEMMA DistinctLength ==
  ASSUME NEW s \in Seq(Addresses), \A i, j \in DOMAIN s : s[i] = s[j] => i = j
  PROVE  Len(s) = Cardinality(Range(s))
<1> DEFINE n == Len(s)
<1>1. n \in Nat /\ DOMAIN s = 1 .. n
  BY LenProperties
<1> DEFINE f == [i \in 1 .. n |-> s[i]]
           R == Range(s)
<1>2. R = {s[i] : i \in 1 .. n}
  BY <1>1 DEF Range
<1> HIDE DEF n, R
<1>3. f \in Bijection(1 .. n, R)
  <2>1. f \in [1 .. n -> R] /\ \A b \in R : \E i \in 1 .. n : f[i] = b
    BY <1>2
  <2>2. \A i, j \in 1 .. n : f[i] = f[j] => i = j
    BY <1>1
  <2> HIDE DEF f
  <2> QED BY <2>1, <2>2 DEF Bijection, Injection, Surjection, IsInjective
<1>4. IsFiniteSet(1 .. n) /\ Cardinality(1 .. n) = n
  BY <1>1, FS_Interval
<1>5. Cardinality(1 .. n) = Cardinality(R)
  <2>1. ExistsBijection(1 .. n, R)
    BY <1>3 DEF ExistsBijection
  <2> QED BY <1>4, <2>1, FS_Bijection
<1> QED BY <1>4, <1>5 DEF n, R

\* What is promised of the states.
LEMMA CacheInvSuffices ==
  ASSUME CacheInv
  PROVE  HandlesLiveWhileUsed /\ ListsAgreeWithHandles
<1>1. IsHandles(handles) /\ RefsAgree(handles, Counts(users))
  BY ShardsHold
<1>2. HandlesLiveWhileUsed
  <2>1. ASSUME NEW t \in CacheThreads, users[t].at = "uses"
        PROVE  users[t].handle \in LiveHandles /\ handles[users[t].handle].key = users[t].table
    BY <2>1 DEF CacheInv, UserAgrees, IdleUser, LiveHandles
  <2>2. ASSUME NEW a \in LiveHandles
        PROVE  handles[a].refs = UsersOf(a) + (IF handles[a].inCache THEN 1 ELSE 0)
    BY <1>1, <2>2 DEF RefsAgree, Counts, UsersOf, LiveHandles
  <2> QED BY <2>1, <2>2 DEF HandlesLiveWhileUsed
<1>3. ASSUME NEW s \in Shards
      PROVE  /\ \A a \in InShard(s) : TableLookup(shards[s], handles, handles[a].key) = a
             /\ shards[s].elems = Cardinality(InShard(s)) /\ shards[s].usage = shards[s].elems
             /\ Range(shards[s].lru) = {a \in InShard(s) : handles[a].refs = 1}
             /\ Len(shards[s].lru) = Cardinality(Range(shards[s].lru))
             /\ shards[s].inUse = {a \in InShard(s) : handles[a].refs > 1}
  <2> DEFINE c == shards[s]
             S == InShard(s)
  <2>1. S = Cached(handles, s)
    BY DEF InShard, LiveHandles, Cached, ShardOf
  <2>2. TableHolds(c, handles, S) /\ ListsHold(c, handles, S)
    BY <2>1, ShardsHold DEF ShardHolds
  <2> HIDE DEF c, S
  <2>3. \A a \in S : handles[a] \in Handle /\ handles[a].key \in Tables /\ handles[a].refs \in Nat \ {0}
    BY <2>2 DEF TableHolds, Handle
  <2>4. \A a \in S : TableLookup(c, handles, handles[a].key) = a
    BY <2>2, <2>3, LookupFinds
  <2>5. c.elems = Cardinality(S) /\ c.usage = c.elems /\ Range(c.lru) = {a \in S : handles[a].refs = 1}
    BY <2>2 DEF TableHolds, ListsHold
  <2>6. Len(c.lru) = Cardinality(Range(c.lru))
    BY <2>2, DistinctLength DEF ListsHold
  <2>7. c.inUse = {a \in S : handles[a].refs > 1}
    BY <2>2, <2>3 DEF ListsHold
  <2> QED BY <2>4, <2>5, <2>6, <2>7 DEF c, S
<1>4. ListsAgreeWithHandles
  BY <1>3 DEF ListsAgreeWithHandles
<1> QED BY <1>2, <1>4

\* A step in which a thread goes from opening a table to using it inserts the
\* table, and erases nothing that is used.
LEMMA InsertionSpares ==
  ASSUME CacheInv, CacheNext, NEW t \in CacheThreads, users[t].at = "opens", users'[t].at = "uses"
  PROVE  LET s == Shard(Hash[users[t].table])
         IN  /\ \A a \in shards[s].inUse :
                  handles[a].key # users[t].table => a \in shards'[s].inUse
             /\ shards'[s].usage > PerShard => shards'[s].lru = <<>>
<1>1. users = [r \in CacheThreads |-> users[r]]
  BY DEF CacheInv
<1>2. InsertTable(t)
  <2>1. ASSUME NEW r \in CacheThreads, NEW key \in Tables, FindTable(r, key) PROVE FALSE
    <3>1. users[r].at = "idle" /\ \E w : users' = [users EXCEPT ![r] = w]
      BY <2>1 DEF FindTable
    <3>2. r # t
      BY <3>1
    <3>3. users'[t] = users[t]
      BY <1>1, <3>1, <3>2
    <3> QED BY <3>3
  <2>2. ASSUME NEW r \in CacheThreads, InsertTable(r) PROVE r = t
    <3>1. \E w : users' = [users EXCEPT ![r] = w]
      BY <2>2 DEF InsertTable
    <3>2. r # t => users'[t] = users[t]
      BY <1>1, <3>1
    <3> QED BY <3>2
  <2>3. ASSUME NEW r \in CacheThreads, OpenTableFails(r) \/ ReleaseTable(r) PROVE FALSE
    <3>1. users' = [users EXCEPT ![r] = IdleUser]
      BY <2>3 DEF OpenTableFails, ReleaseTable
    <3>2. users'[t] = users[t] \/ users'[t] = IdleUser
      BY <1>1, <3>1
    <3> QED BY <3>2 DEF IdleUser
  <2>4. users' # users
    OBVIOUS
  <2> QED BY <2>1, <2>2, <2>3, <2>4 DEF CacheNext, Evict, Prune
<1>3. PICK key \in Tables, a \in Addresses :
        LET n == InsertHandle([c |-> shards[Shard(Hash[key])], h |-> handles], key, a)
        IN  /\ users[t] = [at |-> "opens", table |-> key, handle |-> NoHandle]
            /\ handles[a] = NoHandle
            /\ users' = [users EXCEPT ![t] = [at |-> "uses", table |-> key, handle |-> a]]
            /\ shards' = [shards EXCEPT ![Shard(Hash[key])] = n.c] /\ handles' = n.h
  BY <1>2, InsertTableStep
<1> DEFINE s == Shard(Hash[key])
           n == InsertHandle([c |-> shards[s], h |-> handles], key, a)
<1>4. /\ \A x \in shards[s].inUse : handles[x].key # key => x \in n.c.inUse
      /\ n.c.usage > PerShard => n.c.lru = <<>>
  BY <1>3, InsertTableKeepsShard
<1>5. shards'[s] = n.c /\ users[t].table = key
  <2>1. s \in Shards /\ shards = [r \in Shards |-> shards[r]]
    BY BucketFacts DEF CacheInv
  <2> HIDE DEF n
  <2> QED BY <1>3, <2>1 DEF n
<1> HIDE DEF n
<1> QED BY <1>4, <1>5

\* A table stays open as long as somebody reads it, through every eviction and
\* insertion by others, and is found or closed after that (cache.h).
THEOREM TablesStayOpen == CacheSpec => CacheKeepsWhatIsUsed
<1>1. CacheInv => HandlesLiveWhileUsed /\ ListsAgreeWithHandles
  BY CacheInvSuffices
<1> DEFINE Spares == \A t \in CacheThreads : (users[t].at = "opens" /\ users'[t].at = "uses") =>
       LET s == Shard(Hash[users[t].table])
       IN  /\ \A a \in shards[s].inUse :
                handles[a].key # users[t].table => a \in shards'[s].inUse
           /\ shards'[s].usage > PerShard => shards'[s].lru = <<>>
<1>2. CacheInv /\ [CacheNext]_cacheVars => [Spares]_cacheVars
  BY InsertionSpares
<1> QED BY <1>1, <1>2, CacheInvHolds, PTL DEF CacheSpec, CacheKeepsWhatIsUsed, InsertionsSpareWhatIsUsed
-----------------------------------------------------------------------------
(***************************************************************************)
(* The POSIX environment, and repair.                                      *)
(***************************************************************************)
BgSpec == BgInit /\ [][BgNext]_bgVars
LimitSpec == LimitInit /\ [][LimitNext]_limitVars
LockSpec == LockInit /\ [][LockNext]_lockVars
-----------------------------------------------------------------------------
(***************************************************************************)
(* Background work.  What ran and what is queued are numbered on.          *)
(***************************************************************************)
BgInv ==
  /\ queue \in Seq(Nat) /\ ran \in Seq(Nat)
  /\ \A i \in 1 .. Len(ran) : ran[i] = i
  /\ \A i \in 1 .. Len(queue) : queue[i] = Len(ran) + i

\* The work that ran and the work that is queued are numbered on, in every state.
LEMMA BgInvHolds == BgSpec => []BgInv
<1>1. BgInit => BgInv
  BY DEF BgInit, BgInv
<1>2. BgInv /\ [BgNext]_bgVars => BgInv'
  <2> SUFFICES ASSUME BgInv, [BgNext]_bgVars PROVE BgInv'
    OBVIOUS
  <2> USE DEF BgInv
  <2>1. CASE Schedule
    <3>1. ran' = ran /\ queue' = Append(queue, Len(ran) + Len(queue) + 1)
      BY <2>1 DEF Schedule, Scheduled
    <3>2. Len(ran) + Len(queue) + 1 \in Nat /\ Len(queue) \in Nat
      OBVIOUS
    <3>3. queue' \in Seq(Nat) /\ Len(queue') = Len(queue) + 1
      BY <3>1, <3>2
    <3>4. queue'[Len(queue) + 1] = Len(ran) + Len(queue) + 1
      BY <3>1, <3>2
    <3>5. \A i \in 1 .. Len(queue) : queue'[i] = queue[i]
      BY <3>1, <3>2
    <3>6. ASSUME NEW i \in 1 .. Len(queue') PROVE queue'[i] = Len(ran') + i
      <4>1. CASE i \in 1 .. Len(queue)
        BY <3>1, <3>5, <4>1
      <4>2. CASE i = Len(queue) + 1
        BY <3>1, <3>2, <3>4, <4>2
      <4> QED
        BY <3>2, <3>3, <4>1, <4>2
    <3> QED
      BY <3>1, <3>3, <3>6
  <2>2. CASE TakeWork
    <3>1. CASE queue = <<>>
      BY <2>2, <3>1 DEF TakeWork
    <3>2. CASE queue # <<>>
      <4>1. queue' = Tail(queue) /\ ran' = Append(ran, Head(queue))
        BY <2>2, <3>2 DEF TakeWork
      <4>2. Head(queue) = Len(ran) + 1 /\ Len(queue) \in Nat \ {0}
        BY <3>2
      <4>3. queue' \in Seq(Nat) /\ Len(queue') = Len(queue) - 1
            /\ \A i \in 1 .. Len(queue') : queue'[i] = queue[i + 1]
        BY <3>2, <4>1
      <4>4. ran' \in Seq(Nat) /\ Len(ran') = Len(ran) + 1
            /\ \A i \in 1 .. Len(ran') : ran'[i] = i
        BY <4>1, <4>2
      <4> QED
        BY <4>2, <4>3, <4>4
    <3> QED
      BY <3>1, <3>2
  <2>3. CASE WorkDone \/ WakeForNothing \/ UNCHANGED bgVars
    BY <2>3 DEF WorkDone, WakeForNothing, bgVars
  <2> QED
    BY <2>1, <2>2, <2>3 DEF BgNext
<1> QED
  BY <1>1, <1>2, PTL DEF BgSpec

\* env.h, Schedule: no item is lost, run twice or overtaken.
THEOREM WorkRunsOnceInOrder == BgSpec => []WorkRunsInOrder
<1>1. BgInv => WorkRunsInOrder
  <2> SUFFICES ASSUME BgInv PROVE ran \o queue = [i \in 1 .. Scheduled |-> i]
    BY DEF WorkRunsInOrder
  <2> DEFINE all == ran \o queue
  <2>1. /\ Len(ran) \in Nat /\ Len(queue) \in Nat /\ Scheduled = Len(ran) + Len(queue)
    BY DEF BgInv, Scheduled
  <2>2. all \in Seq(Nat) /\ Len(all) = Scheduled
    BY <2>1 DEF BgInv
  <2>3. ASSUME NEW i \in 1 .. Scheduled PROVE all[i] = i
    <3>1. CASE i <= Len(ran)
      BY <2>1, <3>1 DEF BgInv
    <3>2. CASE i > Len(ran)
      <4>1. i - Len(ran) \in 1 .. Len(queue)
        BY <2>1, <3>2
      <4>2. all[i] = queue[i - Len(ran)]
        BY <2>1, <3>2 DEF BgInv
      <4>3. queue[i - Len(ran)] = Len(ran) + (i - Len(ran))
        BY <4>1 DEF BgInv
      <4> QED
        BY <2>1, <4>2, <4>3
    <3> QED
      BY <2>1, <3>1, <3>2
  <2> HIDE DEF all
  <2>4. all = [i \in 1 .. Len(all) |-> all[i]]
    BY <2>2
  <2> QED
    BY <2>2, <2>3, <2>4 DEF all
<1> QED
  BY <1>1, BgInvHolds, PTL
-----------------------------------------------------------------------------
(***************************************************************************)
(* The limits.  A file that comes to a place, or leaves it, changes the    *)
(* number of files there by one.                                           *)
(***************************************************************************)
MapPlaces == {"mapping", "mapped"}
FdPlaces == {"kept"}
FileStates == MapPlaces \cup FdPlaces
  \cup {"none", "opened", "unmapped", "mapLock", "temporary", "fdLock"}

LimitInv ==
  /\ file \in [Files -> FileStates]
  /\ mmapAllowed \in Nat /\ fdAllowed \in Nat
  /\ mmapAllowed = MmapLimit - Cardinality(FilesAt(MapPlaces))
  /\ fdAllowed = FdLimit - Cardinality(FilesAt(FdPlaces))

\* FilesAt is finite and its size a number.
LEMMA FilesAtIsFinite ==
  ASSUME NEW places
  PROVE  IsFiniteSet(FilesAt(places)) /\ Cardinality(FilesAt(places)) \in Nat
<1>1. FilesAt(places) \subseteq Files
  BY DEF FilesAt
<1> QED
  BY <1>1, EnvAssumption, FS_Subset, FS_CardinalityType

\* A step of one file changes the number of files at a place as it moves.
LEMMA CountFollowsFile ==
  ASSUME NEW places, NEW f \in Files, NEW to, NEW from,
         file \in [Files -> FileStates], BecomeAt(f, from, to)
  PROVE  Cardinality(FilesAt(places))' =
           Cardinality(FilesAt(places))
             + (IF to \in places THEN 1 ELSE 0) - (IF from \in places THEN 1 ELSE 0)
<1>1. file[f] = from /\ file' = [file EXCEPT ![f] = to]
  BY DEF BecomeAt
<1>2. /\ \A g \in Files : file'[g] = IF g = f THEN to ELSE file[g]
  BY <1>1
<1>3. IsFiniteSet(FilesAt(places)) /\ Cardinality(FilesAt(places)) \in Nat
  BY FilesAtIsFinite
<1>4. CASE to \in places /\ from \notin places
  <2>1. FilesAt(places)' = FilesAt(places) \cup {f} /\ f \notin FilesAt(places)
    BY <1>1, <1>2, <1>4 DEF FilesAt
  <2>2. Cardinality(FilesAt(places) \cup {f}) = Cardinality(FilesAt(places)) + 1
    BY <1>3, <2>1, FS_AddElement
  <2>3. Cardinality(FilesAt(places)') = Cardinality(FilesAt(places)) + 1
    BY <2>1, <2>2
  <2> QED
    BY <1>3, <1>4, <2>3
<1>5. CASE to \notin places /\ from \in places
  <2>1. FilesAt(places)' = FilesAt(places) \ {f} /\ f \in FilesAt(places)
    BY <1>1, <1>2, <1>5 DEF FilesAt
  <2>2. Cardinality(FilesAt(places) \ {f}) = Cardinality(FilesAt(places)) - 1
    BY <1>3, <2>1, FS_RemoveElement
  <2>3. Cardinality(FilesAt(places)') = Cardinality(FilesAt(places)) - 1
    BY <2>1, <2>2
  <2> QED
    BY <1>3, <1>5, <2>3
<1>6. CASE to \in places <=> from \in places
  <2>1. FilesAt(places)' = FilesAt(places)
    BY <1>1, <1>2, <1>6 DEF FilesAt
  <2> QED
    BY <1>3, <1>6, <2>1
<1> QED
  BY <1>4, <1>5, <1>6

\* The places given and those left make up the limits, in every state.
LEMMA LimitInvHolds == LimitSpec => []LimitInv
<1>1. LimitInit => LimitInv
  <2> SUFFICES ASSUME LimitInit PROVE LimitInv
    OBVIOUS
  <2>1. FilesAt(MapPlaces) = {} /\ FilesAt(FdPlaces) = {}
    BY DEF LimitInit, FilesAt, MapPlaces, FdPlaces
  <2> QED
    BY <2>1, EnvAssumption, FS_EmptySet DEF LimitInit, LimitInv, FileStates
<1>2. LimitInv /\ [LimitNext]_limitVars => LimitInv'
  <2> SUFFICES ASSUME LimitInv, [LimitNext]_limitVars PROVE LimitInv'
    OBVIOUS
  <2>1. ASSUME NEW f \in Files, NEW from \in FileStates, NEW to \in FileStates,
               BecomeAt(f, from, to),
               mmapAllowed' = mmapAllowed
                 + (IF from \in MapPlaces THEN 1 ELSE 0) - (IF to \in MapPlaces THEN 1 ELSE 0),
               fdAllowed' = fdAllowed
                 + (IF from \in FdPlaces THEN 1 ELSE 0) - (IF to \in FdPlaces THEN 1 ELSE 0),
               mmapAllowed' \in Nat, fdAllowed' \in Nat
        PROVE  LimitInv'
    <3>1. file' \in [Files -> FileStates]
      BY <2>1 DEF LimitInv, BecomeAt
    <3>2. /\ Cardinality(FilesAt(MapPlaces))' = Cardinality(FilesAt(MapPlaces))
               + (IF to \in MapPlaces THEN 1 ELSE 0) - (IF from \in MapPlaces THEN 1 ELSE 0)
          /\ Cardinality(FilesAt(FdPlaces))' = Cardinality(FilesAt(FdPlaces))
               + (IF to \in FdPlaces THEN 1 ELSE 0) - (IF from \in FdPlaces THEN 1 ELSE 0)
      BY <2>1, CountFollowsFile DEF LimitInv
    <3>3. /\ Cardinality(FilesAt(MapPlaces)) \in Nat
          /\ Cardinality(FilesAt(FdPlaces)) \in Nat
      BY FilesAtIsFinite
    <3> QED
      BY <2>1, <3>1, <3>2, <3>3, EnvAssumption DEF LimitInv
  <2> USE DEF FileStates, MapPlaces, FdPlaces, SameLimits
  <2>2. mmapAllowed \in Nat /\ fdAllowed \in Nat
    BY DEF LimitInv
  <2>3. ASSUME NEW f \in Files, OpenFile(f) PROVE LimitInv'
    BY <2>1, <2>2, <2>3 DEF OpenFile
  <2>4. ASSUME NEW f \in Files, TryMmap(f) PROVE LimitInv'
    BY <2>1, <2>2, <2>4 DEF TryMmap
  <2>5. ASSUME NEW f \in Files, AcquireMmap(f) PROVE LimitInv'
    BY <2>1, <2>2, <2>5 DEF AcquireMmap
  <2>6. ASSUME NEW f \in Files, MapFile(f) PROVE LimitInv'
    BY <2>1, <2>2, <2>6 DEF MapFile
  <2>7. ASSUME NEW f \in Files, MapFails(f) PROVE LimitInv'
    BY <2>1, <2>2, <2>7 DEF MapFails
  <2>8. ASSUME NEW f \in Files, TryFd(f) PROVE LimitInv'
    BY <2>1, <2>2, <2>8 DEF TryFd
  <2>9. ASSUME NEW f \in Files, AcquireFd(f) PROVE LimitInv'
    BY <2>1, <2>2, <2>9 DEF AcquireFd
  <2>10. ASSUME NEW f \in Files, Unmap(f) PROVE LimitInv'
    BY <2>1, <2>2, <2>10 DEF Unmap
  <2>11. ASSUME NEW f \in Files, CloseKept(f) PROVE LimitInv'
    BY <2>1, <2>2, <2>11 DEF CloseKept
  <2>12. ASSUME NEW f \in Files, CloseTemporary(f) PROVE LimitInv'
    BY <2>1, <2>2, <2>12 DEF CloseTemporary
  <2>13. CASE UNCHANGED limitVars
    BY <2>13 DEF limitVars, LimitInv, FilesAt
  <2> QED
    BY <2>3, <2>4, <2>5, <2>6, <2>7, <2>8, <2>9, <2>10, <2>11, <2>12, <2>13 DEF LimitNext
<1> QED
  BY <1>1, <1>2, PTL DEF LimitSpec

\* Limiter: the limits hold and each way out of a file gives its place back.
THEOREM LimitsHoldAlways == LimitSpec => []PlacesAreKept
<1>1. LimitInv => PlacesAreKept
  BY FilesAtIsFinite, EnvAssumption
  DEF LimitInv, PlacesAreKept, LimitsHold, MapPlaces, FdPlaces
<1> QED
  BY <1>1, LimitInvHolds, PTL
-----------------------------------------------------------------------------
(***************************************************************************)
(* The lock.  A thread whose insertion into the table was taken is alone   *)
(* in its process until it removes it, also when the kernel refuses it.    *)
(***************************************************************************)
InTable == {"inserted", "holds", "unlocked", "refused"}
LockerStates == InTable \cup {"idle", "opened", "removed"}

LockInv ==
  /\ locker \in [Lockers -> LockerStates]
  /\ \A t \in Lockers : locker[t] \in InTable => t[1] \in locked
  /\ \A t, u \in Lockers :
       locker[t] \in InTable /\ locker[u] \in InTable /\ t[1] = u[1] => t = u

\* The lock table of a process has the one thread that is past it, in every state.
LEMMA LockInvHolds == LockSpec => []LockInv
<1>1. LockInit => LockInv
  BY DEF LockInit, LockInv, InTable, LockerStates
<1>2. LockInv /\ [LockNext]_lockVars => LockInv'
  <2> SUFFICES ASSUME LockInv, [LockNext]_lockVars PROVE LockInv'
    OBVIOUS
  <2> USE DEF LockInv, InTable, LockerStates, MoveLocker
  <2>1. ASSUME NEW t \in Lockers, OpenLockFile(t) PROVE LockInv'
    BY <2>1 DEF OpenLockFile
  <2>2. ASSUME NEW t \in Lockers, InsertLock(t) PROVE LockInv'
    BY <2>2 DEF InsertLock
  <2>3. ASSUME NEW t \in Lockers, LockByKernel(t) PROVE LockInv'
    BY <2>3 DEF LockByKernel
  <2>4. ASSUME NEW t \in Lockers, KernelRefuses(t) PROVE LockInv'
    BY <2>4 DEF KernelRefuses
  <2>5. ASSUME NEW t \in Lockers, RemoveRefused(t) PROVE LockInv'
    BY <2>5 DEF RemoveRefused
  <2>6. ASSUME NEW t \in Lockers, UnlockByKernel(t) PROVE LockInv'
    BY <2>6 DEF UnlockByKernel
  <2>7. ASSUME NEW t \in Lockers, RemoveLock(t) PROVE LockInv'
    BY <2>7 DEF RemoveLock
  <2>8. ASSUME NEW t \in Lockers, CloseLockFile(t) PROVE LockInv'
    BY <2>8 DEF CloseLockFile
  <2>9. CASE UNCHANGED lockVars
    BY <2>9 DEF lockVars
  <2> QED
    BY <2>1, <2>2, <2>3, <2>4, <2>5, <2>6, <2>7, <2>8, <2>9 DEF LockNext
<1> QED
  BY <1>1, <1>2, PTL DEF LockSpec

\* PosixLockTable: threads of one process are kept apart.
THEOREM OneThreadHoldsTheLock == LockSpec => []OneHolderPerProcess
<1>1. LockInv => OneHolderPerProcess
  BY DEF LockInv, OneHolderPerProcess, Holders, InTable
<1> QED
  BY <1>1, LockInvHolds, PTL
-----------------------------------------------------------------------------
(* Repair.  A repair may stop at any step, so the invariant has two layers:  *)
(* what holds at every moment (Saved: each entry that was found is in the  *)
(* directory, or in lost under a name that this repair will not use again), *)
(* and what a repair under way relies on.                                  *)
\* places of a repair
Copying == repairer.at \in {"archiveTable", "finish", "rename"}
Writing == repairer.at \in {"archiveManifests", "setCurrent", "done"}
Resting == repairer.at = "idle"

Table(n) == <<"table", n>>
Log(n) == <<"log", n>>

(* The files that this repair has not archived yet and may still archive.  *)
Pending(n) ==
  \/ n[1] = "log" /\ n[2] \in repairer.logs
  \/ n[1] = "table" /\ n[2] \in repairer.tableNumbers
  \/ repairer.at \in {"copy", "archiveTable"} /\ n = Table(repairer.file)

(* The files of lost whose names this repair will not use again.           *)
SafeInLost(n) == Resting \/ (~Pending(n) /\ n[2] < repairer.next)

(* The files that will be tables of the new version or be made into one.   *)
Source(n) ==
  \/ n[1] = "log" /\ n[2] \in repairer.logs /\ (At("archiveLog") => n[2] # repairer.file)
  \/ n[1] = "table" /\ n[2] \in repairer.tableNumbers
  \/ n[1] = "table" /\ \E t \in repairer.tables : t.number = n[2]
  \/ At("copy") /\ n = Table(repairer.file)

RepairerType ==
  /\ repairer \in [at : {"idle", "logs", "archiveLog", "copy", "archiveTable", "finish", "rename",
                         "archiveManifests", "setCurrent", "done"},
                   manifests : SUBSET Nat, logs : SUBSET Nat, tableNumbers : SUBSET Nat,
                   tables : SUBSET [number : Nat, max : Nat], next : Nat,
                   file : Nat \cup {NoFile}, copy : Nat \cup {NoFile}, max : Nat,
                   copied : SUBSET Nat, failed : BOOLEAN]
  /\ IsFiniteSet(repairer.tables) /\ IsFiniteSet(repairer.copied)
  /\ IsDirectory(dir)
  /\ DOMAIN lost \subseteq Kinds \X Nat

Names ==
  /\ \A n \in DOMAIN dir : n[1] # "manifest" /\ n # Temp => n[2] < repairer.next
  /\ \A l \in repairer.logs : Log(l) \in DOMAIN dir
  /\ \A n \in repairer.tableNumbers : Table(n) \in DOMAIN dir
  /\ repairer.at \in {"copy", "archiveTable"} => Table(repairer.file) \in DOMAIN dir
  /\ At("archiveLog") => repairer.file \in repairer.logs
  /\ At("copy") \/ Copying \/ Writing => repairer.logs = {}
  /\ Writing => repairer.tableNumbers = {}

Scanned ==
  \A t \in repairer.tables :
    /\ Table(t.number) \in DOMAIN dir /\ t.number \notin repairer.tableNumbers
    /\ t.max = MaxSequence(dir[Table(t.number)].good)

Copied ==
  /\ At("copy") \/ Copying =>
       /\ repairer.file \in Nat /\ repairer.file \notin repairer.tableNumbers
       /\ repairer.file < repairer.next
       /\ \A t \in repairer.tables : t.number # repairer.file
  /\ At("copy") => repairer.max = MaxSequence(dir[Table(repairer.file)].good)
  /\ Copying =>
       /\ repairer.copy \in Nat /\ repairer.copy # repairer.file
       /\ repairer.copy \notin repairer.tableNumbers
       /\ \A t \in repairer.tables : t.number # repairer.copy
       /\ Table(repairer.copy) \in DOMAIN dir
       /\ repairer.max = MaxSequence(repairer.copied)
  /\ At("archiveTable") => dir[Table(repairer.file)].good = repairer.copied
  /\ repairer.at \in {"archiveTable", "finish"} => dir[Table(repairer.copy)].good = {}
  /\ repairer.at \in {"finish", "rename"} =>
       IF Table(repairer.file) \in DOMAIN dir THEN dir[Table(repairer.file)].good = repairer.copied
       ELSE /\ Table(repairer.file) \in DOMAIN lost
            /\ lost[Table(repairer.file)].good = repairer.copied
  /\ At("rename") => dir[Table(repairer.copy)] = TableFile(repairer.copied, FALSE)

Saved ==
  \A s \in found :
    \/ \E n \in DOMAIN dir : s \in ReadableIn(dir[n], n[1])
    \/ \E n \in DOMAIN lost : SafeInLost(n) /\ s \in ReadableIn(lost[n], n[1])

Covered ==
  ~Resting /\ ~repairer.failed =>
    \A s \in found :
      \/ \E n \in DOMAIN dir : Source(n) /\ s \in ReadableIn(dir[n], n[1])
      \/ Copying /\ s \in repairer.copied

Described ==
  /\ At("archiveManifests") => Temp \in DOMAIN dir /\ dir[Temp] = Descriptor
  /\ repairer.at \in {"setCurrent", "done"} =>
       Manifest \in DOMAIN dir /\ dir[Manifest] = Descriptor /\ Temp \notin DOMAIN dir

RepairInv ==
  /\ RepairerType /\ Saved
  /\ ~Resting => Names /\ Scanned /\ Copied /\ Covered /\ Described

-----------------------------------------------------------------------------
\* A finite set of naturals that is not empty has a largest member, and Largest
\* is it.
LEMMA LargestOfFinite ==
  ASSUME NEW S \in SUBSET Nat, IsFiniteSet(S), S # {}
  PROVE Largest(S) \in S /\ \A m \in S : m <= Largest(S)
<1> DEFINE Without1 == {T \in SUBSET S : T # {} /\ ~ \E n \in T : \A m \in T : m <= n}
<1>1. Without1 = {}
  <2>1. SUFFICES ASSUME Without1 # {} PROVE FALSE
    OBVIOUS
  <2>2. IsWellFoundedOn(StrictSubsetOrdering(S), FiniteSubsetsOf(S)) /\ FiniteSubsetsOf(S) = SUBSET S
    BY FS_StrictSubsetOrderingWellFounded, FS_FiniteSubsetsOfFinite
  <2>3. PICK T \in Without1 : \A U \in Without1 : ~ (<<U, T>> \in StrictSubsetOrdering(S))
    <3>1. Without1 \subseteq FiniteSubsetsOf(S)
      BY <2>2
    <3> HIDE DEF Without1
    <3> QED BY <2>1, <2>2, <3>1, WFMin
  <2>4. PICK x \in T : TRUE
    OBVIOUS
  <2>5. T \ {x} \notin Without1
    <3>1. <<T \ {x}, T>> \in StrictSubsetOrdering(S)
      BY <2>4 DEF StrictSubsetOrdering
    <3> QED BY <2>3, <3>1
  <2>6. CASE T \ {x} = {}
    <3>1. T = {x} /\ x \in Nat
      BY <2>6, <2>4
    <3> QED BY <3>1
  <2>7. CASE T \ {x} # {}
    <3>1. PICK n \in T \ {x} : \A m \in T \ {x} : m <= n
      BY <2>5, <2>7
    <3>2. x \in Nat /\ n \in Nat /\ T \subseteq Nat
      BY <2>4
    <3>3. CASE x <= n
      <4>1. \A m \in T : m <= n
        BY <3>1, <3>3
      <4> QED BY <4>1, <3>1
    <3>4. CASE ~ (x <= n)
      <4>1. \A m \in T : m <= x
        BY <3>1, <3>2, <3>4
      <4> QED BY <4>1, <2>4
    <3> QED BY <3>3, <3>4
  <2> QED BY <2>6, <2>7
<1>2. \E n \in S : \A m \in S : m <= n
  BY <1>1
<1> QED BY <1>2 DEF Largest

\* The sequence ScanTable notes of a table is that of its newest entry.
LEMMA MaxSequenceOfFinite ==
  ASSUME NEW S \in SUBSET Nat, IsFiniteSet(S)
  PROVE MaxSequence(S) \in Nat /\ \A m \in S : m <= MaxSequence(S)
<1>1. IsFiniteSet({0} \cup S)
  BY FS_Singleton, FS_Union
<1>2. {0} \cup S \in SUBSET Nat /\ {0} \cup S # {}
  OBVIOUS
<1> QED BY <1>1, <1>2, LargestOfFinite DEF MaxSequence

\* The values of a function on a finite set are finitely many.
LEMMA ImageFinite ==
  ASSUME NEW f, IsFiniteSet(DOMAIN f), f = [x \in DOMAIN f |-> f[x]]
  PROVE IsFiniteSet({f[x] : x \in DOMAIN f})
<1> DEFINE T == {f[x] : x \in DOMAIN f}
<1>1. f \in [DOMAIN f -> T] /\ \A t \in T : \E s \in DOMAIN f : f[s] = t
  OBVIOUS
<1>2. f \in Surjection(DOMAIN f, T)
  BY <1>1, Fun_IsSurj
<1> QED BY <1>2, FS_Surjection

\* A directory stays one when a file of the right kind is put into it.
LEMMA DirectoryWith ==
  ASSUME NEW d, IsDirectory(d), NEW name \in Kinds \X Nat, NEW c,
         name[1] = "log" => c \in Seq([entries : Seq(Nat), damaged : BOOLEAN]),
         name[1] = "table" => /\ c \in [good : SUBSET Nat, damaged : BOOLEAN]
                              /\ IsFiniteSet(c.good)
  PROVE IsDirectory(With(d, name, c))
BY FS_AddElement DEF IsDirectory, With

\* And when a file is taken from it.
LEMMA DirectoryWithout ==
  ASSUME NEW d, IsDirectory(d), NEW name
  PROVE IsDirectory(Without(d, name))
BY FS_RemoveElement DEF IsDirectory, Without

\* The directory with a file, name by name.
LEMMA WithFacts ==
  ASSUME NEW d, NEW name, NEW c
  PROVE /\ DOMAIN With(d, name, c) = DOMAIN d \cup {name} /\ With(d, name, c)[name] = c
        /\ \A n \in DOMAIN d : n # name => With(d, name, c)[n] = d[n]
BY DEF With

\* The directory without one.
LEMMA WithoutFacts ==
  ASSUME NEW d, NEW name
  PROVE /\ DOMAIN Without(d, name) = DOMAIN d \ {name}
        /\ \A n \in DOMAIN d : n # name => Without(d, name)[n] = d[n]
BY DEF Without

\* Entries are read in logs and tables only.
LEMMA ReadableInFacts ==
  ASSUME NEW c, NEW kind
  PROVE /\ kind = "table" => ReadableIn(c, kind) = c.good
        /\ kind \notin {"log", "table"} => ReadableIn(c, kind) = {}
BY DEF ReadableIn

\* What is taken from a log: naturals, finitely many, and all that can be read.
LEMMA TakenFromLog ==
  ASSUME NEW log \in Seq([entries : Seq(Nat), damaged : BOOLEAN]), NEW entries \in ReadLog(log)
  PROVE /\ entries \in SUBSET Nat /\ IsFiniteSet(entries)
        /\ ReadableIn(log, "log") \subseteq entries
<1> DEFINE All == UNION {TakenFrom(log[i]) : i \in DOMAIN log}
<1>1. PICK taken \in [DOMAIN log -> All] :
        /\ \A i \in DOMAIN log : taken[i] \in TakenFrom(log[i])
        /\ entries = UNION {taken[i] : i \in DOMAIN log}
  BY DEF ReadLog
<1>2. \A s \in Seq(Nat) : Elements(s) \in SUBSET Nat /\ IsFiniteSet(Elements(s))
  <2> TAKE s \in Seq(Nat)
  <2>1. Len(s) \in Nat /\ s \in [1 .. Len(s) -> Nat]
    BY LenProperties
  <2> DEFINE n == Len(s)
  <2>2. n \in Nat /\ s \in [1 .. n -> Nat] /\ IsFiniteSet(1 .. n)
    BY <2>1, FS_Interval
  <2> HIDE DEF n
  <2>3. IsFiniteSet(DOMAIN s) /\ s = [i \in DOMAIN s |-> s[i]] /\ \A i \in DOMAIN s : s[i] \in Nat
    BY <2>2
  <2> QED BY <2>3, ImageFinite DEF Elements
<1>3. \A i \in DOMAIN log : \A T \in TakenFrom(log[i]) : T \in SUBSET Nat /\ IsFiniteSet(T)
  <2> TAKE i \in DOMAIN log
  <2>1. log[i] \in [entries : Seq(Nat), damaged : BOOLEAN]
    BY LenProperties
  <2>2. \A n \in 0 .. Len(log[i].entries) : SubSeq(log[i].entries, 1, n) \in Seq(Nat)
    <3> TAKE n \in 0 .. Len(log[i].entries)
    <3>1. log[i].entries \in Seq(Nat)
      BY <2>1
    <3> DEFINE s == log[i].entries
    <3>2. s \in Seq(Nat) /\ n \in 0 .. Len(s)
      BY <3>1
    <3> HIDE DEF s
    <3> DEFINE m == Len(s)
    <3>3. m \in Nat /\ s \in [1 .. m -> Nat] /\ n \in 0 .. m
      BY <3>2, LenProperties
    <3> HIDE DEF m
    <3>4. n \in Int /\ \A j \in 1 .. n : s[j] \in Nat
      <4>1. n \in Int /\ n <= m
        BY <3>3
      <4>2. \A j \in 1 .. n : j \in 1 .. m
        BY <3>3, <4>1
      <4> QED BY <3>3, <4>1, <4>2
    <3>5. SubSeq(s, 1, n) \in Seq(Nat)
      BY <3>4, SubSeqProperties
    <3> QED BY <3>5 DEF s
  <2> QED BY <1>2, <2>1, <2>2 DEF TakenFrom, Beginnings
<1>4. \A i \in DOMAIN log : taken[i] \in SUBSET Nat /\ IsFiniteSet(taken[i])
  BY <1>1, <1>3
<1>5. IsFiniteSet({taken[i] : i \in DOMAIN log})
  <2>1. IsFiniteSet(DOMAIN log)
    BY LenProperties, FS_Interval
  <2> QED BY <2>1, ImageFinite
<1>6. entries \in SUBSET Nat /\ IsFiniteSet(entries)
  BY <1>1, <1>4, <1>5, FS_UNION
<1>7. ASSUME NEW i \in DOMAIN log PROVE Whole(log[i]) \subseteq taken[i]
  BY <1>1 DEF Whole, TakenFrom
<1>8. ReadableIn(log, "log") \subseteq entries
  BY <1>1, <1>7 DEF ReadableIn
<1> QED BY <1>6, <1>8

\* What a file is called, and the types of a repair's numbers.
LEMMA NameFacts ==
  ASSUME RepairInv
  PROVE /\ \A n \in DOMAIN dir \cup DOMAIN lost :
             n = <<n[1], n[2]>> /\ n[1] \in Kinds /\ n[2] \in Nat
        /\ repairer.next \in Nat /\ repairer.next + 1 \in Nat
        /\ repairer.logs \subseteq Nat /\ repairer.tableNumbers \subseteq Nat
        /\ \A t \in repairer.tables : t \in [number : Nat, max : Nat]
<1>1. \A n \in Kinds \X Nat : n = <<n[1], n[2]>> /\ n[1] \in Kinds /\ n[2] \in Nat
  OBVIOUS
<1> QED BY <1>1 DEF RepairInv, RepairerType, IsDirectory

\* A table of the directory, and the sequence ScanTable notes of it.
LEMMA TableFacts ==
  ASSUME RepairInv, NEW n, Table(n) \in DOMAIN dir
  PROVE /\ dir[Table(n)] \in [good : SUBSET Nat, damaged : BOOLEAN]
        /\ IsFiniteSet(dir[Table(n)].good)
        /\ MaxSequence(dir[Table(n)].good) \in Nat
<1>1. /\ dir[Table(n)] \in [good : SUBSET Nat, damaged : BOOLEAN]
      /\ IsFiniteSet(dir[Table(n)].good)
  BY DEF RepairInv, RepairerType, IsDirectory, Table
<1> QED BY <1>1, MaxSequenceOfFinite

\* A file that this repair is done with goes into lost, over one that had its
\* name before: what can be read in it stays readable, and what it replaces was
\* not counted on.
LEMMA SavedWhenArchived ==
  ASSUME RepairInv, ~Resting, NEW name \in DOMAIN dir,
         name[1] \notin {"log", "table"} \/ (Pending(name) /\ ~Pending(name)' /\ name[2] < repairer.next),
         lost' = With(lost, name, dir[name]), dir' = Without(dir, name), found' = found,
         repairer'.next = repairer.next, \A n : Pending(n)' => Pending(n)
  PROVE  Saved'
<1>1. /\ DOMAIN dir' = DOMAIN dir \ {name} /\ \A n \in DOMAIN dir : n # name => dir'[n] = dir[n]
      /\ DOMAIN lost' = DOMAIN lost \cup {name} /\ lost'[name] = dir[name]
      /\ \A n \in DOMAIN lost : n # name => lost'[n] = lost[n]
  BY DEF With, Without
<1> SUFFICES ASSUME NEW s \in found
             PROVE  \/ \E n \in DOMAIN dir' : s \in ReadableIn(dir'[n], n[1])
                    \/ \E n \in DOMAIN lost' : SafeInLost(n)' /\ s \in ReadableIn(lost'[n], n[1])
  BY DEF Saved
<1>2. ASSUME NEW n, SafeInLost(n) PROVE SafeInLost(n)'
  BY <1>2 DEF SafeInLost
<1>3. CASE \E n \in DOMAIN dir : s \in ReadableIn(dir[n], n[1])
  <2>1. PICK n \in DOMAIN dir : s \in ReadableIn(dir[n], n[1])
    BY <1>3
  <2>2. CASE n = name
    <3>1. name[1] \in {"log", "table"}
      BY <2>1, <2>2, ReadableInFacts
    <3>2. SafeInLost(name)'
      BY <3>1 DEF SafeInLost
    <3> QED BY <1>1, <2>1, <2>2, <3>2
  <2> QED BY <1>1, <2>1, <2>2
<1>4. CASE \E n \in DOMAIN lost : SafeInLost(n) /\ s \in ReadableIn(lost[n], n[1])
  <2>1. PICK n \in DOMAIN lost : SafeInLost(n) /\ s \in ReadableIn(lost[n], n[1])
    BY <1>4
  <2>2. n # name
    BY <2>1, ReadableInFacts DEF SafeInLost
  <2> QED BY <1>1, <1>2, <2>1, <2>2
<1> QED BY <1>3, <1>4 DEF RepairInv, Saved

\* Archiving keeps what the two directories are.
LEMMA ArchivedType ==
  ASSUME RepairInv, NEW name \in DOMAIN dir,
         lost' = With(lost, name, dir[name]), dir' = Without(dir, name)
  PROVE  IsDirectory(dir') /\ DOMAIN lost' \subseteq Kinds \X Nat
<1>1. DOMAIN lost' = DOMAIN lost \cup {name}
  BY WithFacts
<1>2. name \in Kinds \X Nat
  BY DEF RepairInv, RepairerType, IsDirectory
<1> QED BY <1>1, <1>2, DirectoryWithout DEF RepairInv, RepairerType

\* A log that cannot be converted stays until it is archived.
LEMMA ConversionFailsKeeps ==
  ASSUME RepairInv, NEW l \in repairer.logs, ConversionFails(l)
  PROVE RepairInv'
<1> USE DEF At, Copying, Writing, Resting, Table, Log, Temp, Manifest, Works, Fails, SameFiles, History
<1> PICK used \in {0, 1} : AfterLog(l, [repairer EXCEPT !.next = @ + used, !.failed = TRUE])
  BY DEF ConversionFails
<1> DEFINE after == repairer.next + used
<1>a. after \in Nat /\ after >= repairer.next /\ l \in Nat
  BY NameFacts
<1>b. repairer' = [repairer EXCEPT !.at = "archiveLog", !.next = after, !.file = l, !.failed = TRUE]
  BY DEF AfterLog, RepairInv, RepairerType
<1> HIDE DEF after
<1>1. /\ dir' = dir /\ lost' = lost /\ found' = found
      /\ repairer.at = "logs"
  BY DEF ConversionFails, AfterLog
<1>2. /\ repairer'.at = "archiveLog" /\ repairer'.manifests = repairer.manifests
        /\ repairer'.logs = repairer.logs /\ repairer'.tableNumbers = repairer.tableNumbers
        /\ repairer'.tables = repairer.tables /\ repairer'.next = after /\ repairer'.file = l
        /\ repairer'.copy = repairer.copy /\ repairer'.max = repairer.max
        /\ repairer'.copied = repairer.copied /\ repairer'.failed = TRUE
  BY <1>b DEF RepairInv, RepairerType
<1>3. RepairerType'
  BY <1>1, <1>2, NameFacts, <1>a, <1>b DEF RepairInv, RepairerType, ConversionFails, AfterLog
<1>4. Saved'
  BY <1>1, <1>2, NameFacts, <1>a DEF RepairInv, RepairerType, Saved, Names, SafeInLost, Pending
<1>5. Names'
  BY <1>1, <1>2, NameFacts, <1>a DEF RepairInv, RepairerType, Names, Pending
<1>6. Scanned'
  BY <1>1, <1>2, NameFacts, <1>a DEF RepairInv, RepairerType, Names, Scanned
<1>7. Copied'
  BY <1>1, <1>2, NameFacts, <1>a DEF RepairInv, RepairerType, Names, Copied, Pending
<1>8. Covered'
  BY <1>1, <1>2, NameFacts, <1>a DEF RepairInv, RepairerType, Names, Covered, Source
<1>9. Described'
  BY <1>1, <1>2, NameFacts, <1>a DEF RepairInv, RepairerType, Names, Described, Descriptor
<1> QED BY <1>3, <1>4, <1>5, <1>6, <1>7, <1>8, <1>9 DEF RepairInv

\* A table that is damaged is to be copied.
LEMMA ScanDamagedKeeps ==
  ASSUME RepairInv, NEW n \in repairer.tableNumbers, dir[Table(n)].damaged,
         ScanTable(n)
  PROVE RepairInv'
<1> USE DEF At, Copying, Writing, Resting, Table, Log, Temp, Manifest, Works, Fails, SameFiles, History
<1> DEFINE table == dir[Table(n)]
           max == MaxSequence(table.good)
<1>a. table \in [good : SUBSET Nat, damaged : BOOLEAN] /\ max \in Nat /\ ~Resting
  BY TableFacts DEF RepairInv, Names, ScanTable, Scanning
<1>b. n \in Nat /\ [number |-> n, max |-> max] \in [number : Nat, max : Nat]
  BY <1>a, NameFacts
<1>c. IsFiniteSet(repairer.tables) /\ IsFiniteSet(repairer.tables \cup {[number |-> n, max |-> max]})
  BY FS_AddElement DEF RepairInv, RepairerType
<1>d. max = MaxSequence(dir[Table(n)].good)
  OBVIOUS
<1>e. repairer' = [repairer EXCEPT !.at = "copy", !.file = n, !.max = max, !.tableNumbers = @ \ {n}]
  BY DEF ScanTable
<1> HIDE DEF table, max
<1>1. /\ dir' = dir /\ lost' = lost /\ found' = found
      /\ repairer.at = "logs" /\ repairer.logs = {}
  BY DEF ScanTable, Scanning, NextTable, Info, table, max
<1>2. /\ repairer'.at = "copy" /\ repairer'.manifests = repairer.manifests
        /\ repairer'.logs = repairer.logs
        /\ repairer'.tableNumbers = repairer.tableNumbers \ {n}
        /\ repairer'.tables = repairer.tables /\ repairer'.next = repairer.next
        /\ repairer'.file = n /\ repairer'.copy = repairer.copy /\ repairer'.max = max
        /\ repairer'.copied = repairer.copied /\ repairer'.failed = repairer.failed
  BY <1>e DEF RepairInv, RepairerType
<1>3. RepairerType'
  BY <1>1, <1>2, NameFacts, <1>a, <1>b, <1>c DEF RepairInv, RepairerType, ScanTable, Scanning, NextTable, Info, table, max
<1>4. Saved'
  BY <1>1, <1>2, NameFacts, <1>a, <1>b DEF RepairInv, RepairerType, Saved, Names, SafeInLost, Pending
<1>5. Names'
  BY <1>1, <1>2, NameFacts, <1>a, <1>b DEF RepairInv, RepairerType, Names, Pending
<1>6. Scanned'
  BY <1>1, <1>2, NameFacts, <1>a, <1>b, <1>d DEF RepairInv, RepairerType, Names, Scanned
<1>7. Copied'
  BY <1>1, <1>2, NameFacts, <1>a, <1>b, <1>d DEF RepairInv, RepairerType, Names, Copied, Pending, Scanned
<1>8. Covered'
  BY <1>1, <1>2, NameFacts, <1>a, <1>b DEF RepairInv, RepairerType, Names, Covered, Source
<1>9. Described'
  BY <1>1, <1>2, NameFacts, <1>a, <1>b DEF RepairInv, RepairerType, Names, Described, Descriptor
<1> QED BY <1>3, <1>4, <1>5, <1>6, <1>7, <1>8, <1>9 DEF RepairInv

\* A table that is not will be in the new version.
LEMMA ScanGoodKeeps ==
  ASSUME RepairInv, NEW n \in repairer.tableNumbers, ~dir[Table(n)].damaged,
         ScanTable(n)
  PROVE RepairInv'
<1> USE DEF At, Copying, Writing, Resting, Table, Log, Temp, Manifest, Works, Fails, SameFiles, History
<1> DEFINE table == dir[Table(n)]
           max == MaxSequence(table.good)
<1>a. table \in [good : SUBSET Nat, damaged : BOOLEAN] /\ max \in Nat /\ ~Resting
  BY TableFacts DEF RepairInv, Names, ScanTable, Scanning
<1>b. n \in Nat /\ [number |-> n, max |-> max] \in [number : Nat, max : Nat]
  BY <1>a, NameFacts
<1>c. IsFiniteSet(repairer.tables) /\ IsFiniteSet(repairer.tables \cup {[number |-> n, max |-> max]})
  BY FS_AddElement DEF RepairInv, RepairerType
<1>d. max = MaxSequence(dir[Table(n)].good)
  OBVIOUS
<1>e. repairer' = [repairer EXCEPT !.tables = @ \cup {[number |-> n, max |-> max]},
                              !.at = "logs", !.tableNumbers = @ \ {n}]
  BY DEF ScanTable, NextTable, Info, Table
<1> HIDE DEF table, max
<1>1. /\ dir' = dir /\ lost' = lost /\ found' = found
      /\ repairer.at = "logs" /\ repairer.logs = {}
  BY DEF ScanTable, Scanning, NextTable, Info, table, max
<1>2. /\ repairer'.at = "logs" /\ repairer'.manifests = repairer.manifests
        /\ repairer'.logs = repairer.logs
        /\ repairer'.tableNumbers = repairer.tableNumbers \ {n}
        /\ repairer'.tables = repairer.tables \cup {[number |-> n, max |-> max]}
        /\ repairer'.next = repairer.next /\ repairer'.file = repairer.file
        /\ repairer'.copy = repairer.copy /\ repairer'.max = repairer.max
        /\ repairer'.copied = repairer.copied /\ repairer'.failed = repairer.failed
  BY <1>e DEF RepairInv, RepairerType
<1>3. RepairerType'
  BY <1>1, <1>2, NameFacts, <1>a, <1>b, <1>c DEF RepairInv, RepairerType, ScanTable, Scanning, NextTable, Info, table, max
<1>4. Saved'
  BY <1>1, <1>2, NameFacts, <1>a, <1>b DEF RepairInv, RepairerType, Saved, Names, SafeInLost, Pending
<1>5. Names'
  BY <1>1, <1>2, NameFacts, <1>a, <1>b DEF RepairInv, RepairerType, Names, Pending
<1>6. Scanned'
  <2> SUFFICES ASSUME NEW t \in repairer'.tables
               PROVE /\ Table(t.number) \in DOMAIN dir /\ t.number \notin repairer'.tableNumbers
                     /\ t.max = MaxSequence(dir[Table(t.number)].good)
    BY <1>1 DEF Scanned
  <2>1. CASE t \in repairer.tables
    BY <2>1, <1>1, <1>2, <1>a DEF RepairInv, Scanned
  <2>2. CASE t = [number |-> n, max |-> max]
    BY <2>2, <1>1, <1>2, <1>a, <1>d DEF RepairInv, Names
  <2> QED BY <2>1, <2>2, <1>2
<1>7. Copied'
  BY <1>1, <1>2, NameFacts, <1>a, <1>b, <1>d DEF RepairInv, RepairerType, Names, Copied, Pending, Scanned
<1>8. Covered'
  <2>1. ASSUME NEW m, Source(m) PROVE Source(m)'
    <3>1. n = [number |-> n, max |-> max].number
      OBVIOUS
    <3> QED BY <1>1, <1>2, <2>1, <3>1 DEF Source
  <2> QED BY <1>1, <1>2, <1>a, <2>1 DEF RepairInv, Covered
<1>9. Described'
  BY <1>1, <1>2, NameFacts, <1>a, <1>b DEF RepairInv, RepairerType, Names, Described, Descriptor
<1> QED BY <1>3, <1>4, <1>5, <1>6, <1>7, <1>8, <1>9 DEF RepairInv

\* A table whose copy cannot be begun is left alone.
LEMMA CopyFailsKeeps ==
  ASSUME RepairInv, CopyFails
  PROVE RepairInv'
<1> USE DEF At, Copying, Writing, Resting, Table, Log, Temp, Manifest, Works, Fails, SameFiles, History
<1>1. /\ dir' = dir /\ lost' = lost /\ found' = found
      /\ repairer.at = "copy"
  BY DEF CopyFails
<1>2. /\ repairer'.at = "logs" /\ repairer'.manifests = repairer.manifests
        /\ repairer'.logs = repairer.logs /\ repairer'.tableNumbers = repairer.tableNumbers
        /\ repairer'.tables = repairer.tables /\ repairer'.next = repairer.next + 1
        /\ repairer'.file = repairer.file /\ repairer'.copy = repairer.copy
        /\ repairer'.max = repairer.max /\ repairer'.copied = repairer.copied
        /\ repairer'.failed = TRUE
  BY DEF RepairInv, RepairerType, CopyFails
<1>3. RepairerType'
  BY <1>1, <1>2, NameFacts DEF RepairInv, RepairerType, CopyFails
<1>4. Saved'
  BY <1>1, <1>2, NameFacts DEF RepairInv, RepairerType, Saved, Names, SafeInLost, Pending
<1>5. Names'
  BY <1>1, <1>2, NameFacts DEF RepairInv, RepairerType, Names, Pending
<1>6. Scanned'
  BY <1>1, <1>2, NameFacts DEF RepairInv, RepairerType, Names, Scanned
<1>7. Copied'
  BY <1>1, <1>2, NameFacts DEF RepairInv, RepairerType, Names, Copied, Pending
<1>8. Covered'
  BY <1>1, <1>2, NameFacts DEF RepairInv, RepairerType, Names, Covered, Source
<1>9. Described'
  BY <1>1, <1>2, NameFacts DEF RepairInv, RepairerType, Names, Described, Descriptor
<1> QED BY <1>3, <1>4, <1>5, <1>6, <1>7, <1>8, <1>9 DEF RepairInv

\* CURRENT comes last.
LEMMA SetCurrentKeeps ==
  ASSUME RepairInv, SetCurrent
  PROVE RepairInv'
<1> USE DEF At, Copying, Writing, Resting, Table, Log, Temp, Manifest, Works, Fails, SameFiles, History
<1>1. /\ dir' = dir /\ lost' = lost /\ found' = found
      /\ repairer.at = "setCurrent"
  BY DEF SetCurrent, Go
<1>2. /\ repairer'.at = "done" /\ repairer'.manifests = repairer.manifests
        /\ repairer'.logs = repairer.logs /\ repairer'.tableNumbers = repairer.tableNumbers
        /\ repairer'.tables = repairer.tables /\ repairer'.next = repairer.next
        /\ repairer'.file = repairer.file /\ repairer'.copy = repairer.copy
        /\ repairer'.max = repairer.max /\ repairer'.copied = repairer.copied
        /\ repairer'.failed = repairer.failed
  BY DEF RepairInv, RepairerType, SetCurrent, Go
<1>3. RepairerType'
  BY <1>1, <1>2, NameFacts DEF RepairInv, RepairerType, SetCurrent, Go
<1>4. Saved'
  BY <1>1, <1>2, NameFacts DEF RepairInv, RepairerType, Saved, Names, SafeInLost, Pending
<1>5. Names'
  BY <1>1, <1>2, NameFacts DEF RepairInv, RepairerType, Names, Pending
<1>6. Scanned'
  BY <1>1, <1>2, NameFacts DEF RepairInv, RepairerType, Names, Scanned
<1>7. Copied'
  BY <1>1, <1>2, NameFacts DEF RepairInv, RepairerType, Names, Copied, Pending
<1>8. Covered'
  BY <1>1, <1>2, NameFacts DEF RepairInv, RepairerType, Names, Covered, Source
<1>9. Described'
  BY <1>1, <1>2, NameFacts DEF RepairInv, RepairerType, Names, Described, Descriptor
<1> QED BY <1>3, <1>4, <1>5, <1>6, <1>7, <1>8, <1>9 DEF RepairInv

\* A repair that begins finds every log and table in the directory.
LEMMA FindFilesKeeps ==
  ASSUME RepairInv, FindFiles
  PROVE RepairInv'
<1> USE DEF At, Copying, Writing, Resting, Table, Log, Temp, Manifest, Works, Fails, SameFiles, History
<1> DEFINE S == {1} \cup {m[2] + 1 : m \in {m \in DOMAIN dir : m[1] # "manifest"}}
<1>a. NextNumber(DOMAIN dir) \in Nat /\ \A m \in DOMAIN dir : m[1] # "manifest" => m[2] < NextNumber(DOMAIN dir)
  <2>1. IsFiniteSet(DOMAIN dir) /\ \A m \in DOMAIN dir : m[2] \in Nat
    BY NameFacts DEF RepairInv, RepairerType, IsDirectory
  <2>2. IsFiniteSet({m \in DOMAIN dir : m[1] # "manifest"})
    BY <2>1, FS_Subset
  <2>3. IsFiniteSet({m[2] + 1 : m \in {m \in DOMAIN dir : m[1] # "manifest"}})
    <3> DEFINE g == [m \in {m \in DOMAIN dir : m[1] # "manifest"} |-> m[2] + 1]
    <3>1. IsFiniteSet(DOMAIN g) /\ g = [m \in DOMAIN g |-> g[m]]
      BY <2>2
    <3>2. {g[m] : m \in DOMAIN g} = {m[2] + 1 : m \in {m \in DOMAIN dir : m[1] # "manifest"}}
      OBVIOUS
    <3> HIDE DEF g
    <3> QED BY <3>1, <3>2, ImageFinite
  <2>5. IsFiniteSet(S) /\ S \in SUBSET Nat /\ S # {}
    <3> DEFINE T == {m[2] + 1 : m \in {m \in DOMAIN dir : m[1] # "manifest"}}
    <3>1. IsFiniteSet(T) /\ T \in SUBSET Nat
      BY <2>1, <2>3
    <3> HIDE DEF T
    <3>2. IsFiniteSet({1} \cup T)
      BY <3>1, FS_Singleton, FS_Union
    <3> QED BY <3>1, <3>2 DEF T
  <2>6. \A m \in DOMAIN dir : m[1] # "manifest" => m[2] + 1 \in S
    OBVIOUS
  <2> HIDE DEF S
  <2>7. Largest(S) \in Nat /\ \A k \in S : k <= Largest(S)
    BY <2>5, LargestOfFinite
  <2>8. Largest(S) = NextNumber(DOMAIN dir)
    BY DEF S, NextNumber
  <2>9. \A m \in DOMAIN dir : m[1] # "manifest" => m[2] < Largest(S)
    BY <2>1, <2>6, <2>7
  <2> QED BY <2>7, <2>8, <2>9
<1>b. \A k : NumbersOf(dir, k) \in SUBSET Nat /\ \A i \in NumbersOf(dir, k) : <<k, i>> \in DOMAIN dir
  BY NameFacts DEF NumbersOf
<1>b2. \A m \in DOMAIN dir : m[2] \in NumbersOf(dir, m[1])
  BY DEF NumbersOf
<1>b3. IsFiniteSet({})
  BY FS_EmptySet
<1>1. dir' = dir /\ lost' = lost /\ found' = Readable(dir)
  BY DEF FindFiles
<1>2. /\ repairer'.at = "logs" /\ repairer'.manifests = NumbersOf(dir, "manifest")
      /\ repairer'.logs = NumbersOf(dir, "log") /\ repairer'.tableNumbers = NumbersOf(dir, "table")
      /\ repairer'.tables = {} /\ repairer'.next = NextNumber(DOMAIN dir) /\ ~repairer'.failed
  BY DEF FindFiles, NoRepairer
<1>3. RepairerType'
  BY <1>1, <1>a, <1>b, <1>b3 DEF FindFiles, NoRepairer, RepairInv, RepairerType
<1>4. Saved'
  BY <1>1 DEF Saved, Readable
<1>5. Names'
  BY <1>1, <1>2, <1>a, <1>b DEF Names
<1>6. Scanned'
  BY <1>2 DEF Scanned
<1>7. Copied'
  BY <1>2 DEF Copied
<1>8. Covered'
  <2>1. ASSUME NEW m \in DOMAIN dir, NEW s \in ReadableIn(dir[m], m[1]) PROVE Source(m)'
    BY <2>1, <1>2, <1>b2, ReadableInFacts DEF Source
  <2> QED BY <1>1, <2>1 DEF Covered, Readable
<1>9. Described'
  BY <1>2 DEF Described
<1> QED BY <1>3, <1>4, <1>5, <1>6, <1>7, <1>8, <1>9 DEF RepairInv

\* A log becomes a table of what could be read in it; a log without entries can
\* be archived as it is.
LEMMA ConvertLogKeeps ==
  ASSUME RepairInv, NEW l \in repairer.logs,
         ConvertLogToTable(l)
  PROVE RepairInv'
<1> USE DEF At, Copying, Writing, Resting, Table, Log, Temp, Manifest, Works, Fails, SameFiles, History
<1>a. PICK entries \in ReadLog(dir[Log(l)]) :
        /\ repairer' = [repairer EXCEPT !.at = "archiveLog", !.next = @ + 1, !.file = l,
                          !.tableNumbers = IF entries = {} THEN @ ELSE @ \cup {repairer.next}]
        /\ dir' = IF entries = {} THEN dir
                  ELSE With(dir, Table(repairer.next), TableFile(entries, FALSE))
  BY DEF ConvertLogToTable, AfterLog, RepairInv, RepairerType
<1>b. /\ lost' = lost /\ found' = found /\ repairer.at = "logs"
      /\ ~Resting /\ Log(l) \in DOMAIN dir /\ l \in Nat
  BY NameFacts DEF ConvertLogToTable, RepairInv, Names
<1>c. entries \in SUBSET Nat /\ IsFiniteSet(entries) /\ ReadableIn(dir[Log(l)], "log") \subseteq entries
  <2>1. dir[Log(l)] \in Seq([entries : Seq(Nat), damaged : BOOLEAN])
    BY <1>b DEF RepairInv, RepairerType, IsDirectory
  <2> QED BY <2>1, TakenFromLog
<1>d. /\ repairer'.at = "archiveLog" /\ repairer'.manifests = repairer.manifests
      /\ repairer'.logs = repairer.logs /\ repairer'.file = l
      /\ repairer'.tables = repairer.tables /\ repairer'.next = repairer.next + 1
      /\ repairer'.copy = repairer.copy /\ repairer'.max = repairer.max
      /\ repairer'.copied = repairer.copied /\ repairer'.failed = repairer.failed
      /\ entries = {} => repairer'.tableNumbers = repairer.tableNumbers
      /\ entries # {} => repairer'.tableNumbers = repairer.tableNumbers \cup {repairer.next}
  BY <1>a DEF RepairInv, RepairerType
<1>e. Table(repairer.next) \notin DOMAIN dir /\ Table(repairer.next) \in Kinds \X Nat
  BY <1>b, NameFacts DEF RepairInv, Names, Kinds
<1>f1. ASSUME entries = {} PROVE dir' = dir
  BY <1>a, <1>f1
<1>f2. ASSUME entries # {}
       PROVE  /\ DOMAIN dir' = DOMAIN dir \cup {Table(repairer.next)}
              /\ dir'[Table(repairer.next)] = TableFile(entries, FALSE)
              /\ \A m \in DOMAIN dir : m # Table(repairer.next) => dir'[m] = dir[m]
  <2>1. dir' = With(dir, Table(repairer.next), TableFile(entries, FALSE))
    BY <1>a, <1>f2
  <2> QED BY <2>1 DEF With
<1>g. DOMAIN dir \subseteq DOMAIN dir' /\ \A m \in DOMAIN dir : dir'[m] = dir[m]
  BY <1>e, <1>f1, <1>f2
<1>3. RepairerType'
  <2>1. TableFile(entries, FALSE) \in [good : SUBSET Nat, damaged : BOOLEAN]
        /\ TableFile(entries, FALSE).good = entries
    BY <1>c DEF TableFile
  <2>2. IsDirectory(dir')
    BY <1>a, <1>c, <1>e, <2>1, DirectoryWith DEF RepairInv, RepairerType
  <2>3. repairer.next + 1 \in Nat /\ repairer.next \in Nat
    BY NameFacts
  <2> QED BY <1>a, <1>b, <2>2, <2>3 DEF RepairInv, RepairerType
<1>4. Saved'
  <2>1. ASSUME NEW m \in DOMAIN lost, SafeInLost(m) PROVE SafeInLost(m)'
    BY <1>b, <1>d, <2>1, NameFacts DEF SafeInLost, Pending
  <2> QED BY <1>b, <1>g, <2>1 DEF RepairInv, Saved
<1>5. Names'
  <2>1. \A m \in DOMAIN dir' : m[1] # "manifest" /\ m # Temp => m[2] < repairer'.next
    <3>1. \A m \in DOMAIN dir' : m \in DOMAIN dir \/ m[2] = repairer.next
      <4>1. CASE entries = {}
        BY <4>1, <1>f1
      <4>2. CASE entries # {}
        <5>1. \A m \in DOMAIN dir' : m \in DOMAIN dir \/ m = <<"table", repairer.next>>
          BY <4>2, <1>f2
        <5> QED BY <5>1
      <4> QED BY <4>1, <4>2
    <3>2. repairer.next \in Nat /\ \A m \in DOMAIN dir : m[2] \in Nat
      BY NameFacts
    <3> QED BY <1>b, <1>d, <3>1, <3>2 DEF RepairInv, Names
  <2> QED BY <1>b, <1>d, <1>f1, <1>f2, <1>g, <2>1 DEF RepairInv, Names
<1>6. Scanned'
  <2>1. \A t \in repairer.tables : t.number # repairer.next
    BY <1>b, <1>e DEF RepairInv, Scanned
  <2> QED BY <1>b, <1>d, <1>g, <2>1 DEF RepairInv, Scanned
<1>7. Copied'
  BY <1>d DEF Copied
<1>8. Covered'
  <2> SUFFICES ASSUME ~repairer.failed, NEW s \in found
               PROVE \E m \in DOMAIN dir' : Source(m)' /\ s \in ReadableIn(dir'[m], m[1])
    BY <1>b, <1>d DEF Covered
  <2>1. PICK m \in DOMAIN dir : Source(m) /\ s \in ReadableIn(dir[m], m[1])
    BY <1>b DEF RepairInv, Covered
  <2>2. CASE m = Log(l)
    <3>1. s \in entries
      BY <1>c, <2>1, <2>2
    <3>2. PICK new : new = Table(repairer.next)
      OBVIOUS
    <3>3. new[1] = "table" /\ new[2] = repairer.next
      BY <3>2
    <3> HIDE DEF Table
    <3>4. new \in DOMAIN dir' /\ dir'[new] = TableFile(entries, FALSE)
      BY <1>f2, <3>1, <3>2
    <3>5. ReadableIn(dir'[new], new[1]) = entries
      BY <3>3, <3>4, ReadableInFacts DEF TableFile
    <3>6. Source(new)'
      BY <1>d, <3>1, <3>3 DEF Source
    <3> QED BY <3>1, <3>4, <3>5, <3>6
  <2>3. CASE m # Log(l)
    <3>1. m = <<m[1], m[2]>>
      BY NameFacts
    <3>2. Source(m)'
      BY <1>b, <1>d, <2>1, <2>3, <3>1 DEF Source
    <3> QED BY <1>g, <2>1, <3>2
  <2> QED BY <2>2, <2>3
<1>9. Described'
  BY <1>d DEF Described
<1> QED BY <1>3, <1>4, <1>5, <1>6, <1>7, <1>8, <1>9 DEF RepairInv

\* A log is archived after its entries are in a table, or else the repair has
\* failed.
LEMMA ArchiveLogKeeps ==
  ASSUME RepairInv, ArchiveLog
  PROVE RepairInv'
<1> USE DEF At, Copying, Writing, Resting, Table, Log, Temp, Manifest, Works, Fails, SameFiles, History
<1>a. /\ repairer' = [repairer EXCEPT !.at = "logs", !.logs = @ \ {repairer.file}]
      /\ found' = found /\ repairer.at = "archiveLog"
  BY DEF ArchiveLog
<1>b. /\ repairer.file \in repairer.logs /\ repairer.file \in Nat /\ Log(repairer.file) \in DOMAIN dir
      /\ ~Resting /\ repairer.file < repairer.next
  <2>1. repairer.file \in repairer.logs /\ Log(repairer.file) \in DOMAIN dir /\ repairer.file \in Nat
    BY <1>a, NameFacts DEF RepairInv, Names
  <2>2. Log(repairer.file)[1] = "log" /\ Log(repairer.file)[2] = repairer.file
    OBVIOUS
  <2>3. Log(repairer.file) # Temp
    BY <2>2
  <2> HIDE DEF Log
  <2> QED BY <1>a, <2>1, <2>2, <2>3 DEF RepairInv, Names
<1>c. PICK name : name = Log(repairer.file)
  OBVIOUS
<1>d. name[1] = "log" /\ name[2] = repairer.file /\ name \in DOMAIN dir
  BY <1>b, <1>c
<1>2. /\ repairer'.at = "logs" /\ repairer'.manifests = repairer.manifests
        /\ repairer'.logs = repairer.logs \ {repairer.file}
        /\ repairer'.tableNumbers = repairer.tableNumbers
        /\ repairer'.tables = repairer.tables /\ repairer'.next = repairer.next
        /\ repairer'.file = repairer.file /\ repairer'.copy = repairer.copy
        /\ repairer'.max = repairer.max /\ repairer'.copied = repairer.copied
        /\ repairer'.failed = repairer.failed
  BY <1>a DEF RepairInv, RepairerType
<1>e. \/ dir' = dir /\ lost' = lost
      \/ lost' = With(lost, name, dir[name]) /\ dir' = Without(dir, name)
  BY <1>c, <1>d DEF ArchiveLog, ArchiveFile
<1>f. /\ DOMAIN dir \ {name} \subseteq DOMAIN dir' /\ DOMAIN dir' \subseteq DOMAIN dir
      /\ \A n \in DOMAIN dir : n # name => dir'[n] = dir[n]
  BY <1>e DEF Without
<1>3. RepairerType'
  <2>1. IsDirectory(dir') /\ DOMAIN lost' \subseteq Kinds \X Nat
    BY <1>d, <1>e, ArchivedType DEF RepairInv, RepairerType
  <2> QED BY <1>a, <2>1 DEF RepairInv, RepairerType
<1>4. Saved'
  <2>1. \A n : Pending(n)' => Pending(n)
    BY <1>2 DEF Pending
  <2>2. Pending(name) /\ ~Pending(name)'
    BY <1>a, <1>b, <1>2, <1>d DEF Pending
  <2>3. CASE dir' = dir /\ lost' = lost
    BY <1>a, <1>b, <1>2, <2>1, <2>3 DEF RepairInv, Saved, SafeInLost
  <2>4. CASE lost' = With(lost, name, dir[name]) /\ dir' = Without(dir, name)
    BY <1>a, <1>b, <1>2, <1>d, <2>1, <2>2, <2>4, SavedWhenArchived
  <2> QED BY <1>e, <2>3, <2>4
<1>g. \A n \in DOMAIN dir : n[1] = "table" => n \in DOMAIN dir' /\ dir'[n] = dir[n]
  BY <1>d, <1>f
<1>g2. \A k \in Nat : Table(k) \in DOMAIN dir => Table(k) \in DOMAIN dir' /\ dir'[Table(k)] = dir[Table(k)]
  BY <1>g
<1>5. Names'
  <2>1. \A l \in repairer'.logs : Log(l) # name
    BY <1>2, <1>c
  <2>2. \A n \in repairer'.tableNumbers : Table(n) \in DOMAIN dir'
    BY <1>b, <1>2, <1>g2, NameFacts DEF RepairInv, Names
  <2> QED BY <1>b, <1>2, <1>f, <2>1, <2>2 DEF RepairInv, Names
<1>6. Scanned'
  <2>1. \A t \in repairer.tables : t.number \in Nat
    BY NameFacts
  <2> HIDE DEF Table
  <2> QED BY <1>b, <1>2, <1>g2, <2>1 DEF RepairInv, Scanned
<1>7. Copied'
  BY <1>2 DEF Copied
<1>8. Covered'
  <2>1. ASSUME NEW n, Source(n) PROVE Source(n)' /\ n # name
    BY <1>a, <1>2, <1>c, <2>1 DEF Source
  <2> QED BY <1>a, <1>b, <1>2, <1>f, <2>1 DEF RepairInv, Covered
<1>9. Described'
  BY <1>2 DEF Described
<1> QED BY <1>3, <1>4, <1>5, <1>6, <1>7, <1>8, <1>9 DEF RepairInv

\* A table that cannot be measured is archived or left, and the repair has failed.
LEMMA ScanFailsKeeps ==
  ASSUME RepairInv, NEW k \in repairer.tableNumbers, ScanFails(k)
  PROVE RepairInv'
<1> USE DEF At, Copying, Writing, Resting, Table, Log, Temp, Manifest, Works, Fails, SameFiles, History
<1>b. /\ k \in Nat /\ Table(k) \in DOMAIN dir /\ ~Resting /\ repairer.at = "logs" /\ repairer.logs = {}
      /\ k < repairer.next
  <2>1. k \in Nat /\ Table(k) \in DOMAIN dir /\ ~Resting /\ repairer.at = "logs" /\ repairer.logs = {}
    BY NameFacts DEF RepairInv, Names, ScanFails, Scanning
  <2>2. Table(k)[1] = "table" /\ Table(k)[2] = k
    OBVIOUS
  <2>3. Table(k) # Temp
    BY <2>2
  <2> HIDE DEF Table
  <2> QED BY <2>1, <2>2, <2>3 DEF RepairInv, Names
<1>c. PICK name : name = Table(k)
  OBVIOUS
<1>d. name[1] = "table" /\ name[2] = k /\ name \in DOMAIN dir
  BY <1>b, <1>c
<1>a. /\ repairer' = [repairer EXCEPT !.at = "logs", !.failed = TRUE, !.tableNumbers = @ \ {k}]
      /\ found' = found
      /\ \/ dir' = dir /\ lost' = lost
         \/ lost' = With(lost, name, dir[name]) /\ dir' = Without(dir, name)
  <2>1. repairer' = [repairer EXCEPT !.at = "logs", !.failed = TRUE, !.tableNumbers = @ \ {k}]
    BY DEF ScanFails, NextTable, RepairInv, RepairerType
  <2>2. \/ lost' = With(lost, Table(k), dir[Table(k)]) /\ dir' = Without(dir, Table(k))
        \/ UNCHANGED <<dir, lost>>
    BY DEF ScanFails
  <2>3. found' = found
    BY DEF ScanFails
  <2> HIDE DEF Table
  <2> QED BY <1>c, <2>1, <2>2, <2>3
<1>e. \/ dir' = dir /\ lost' = lost
      \/ lost' = With(lost, name, dir[name]) /\ dir' = Without(dir, name)
  BY <1>a
<1>2. /\ repairer'.at = "logs" /\ repairer'.manifests = repairer.manifests
        /\ repairer'.logs = repairer.logs
        /\ repairer'.tableNumbers = repairer.tableNumbers \ {k}
        /\ repairer'.tables = repairer.tables /\ repairer'.next = repairer.next
        /\ repairer'.file = repairer.file /\ repairer'.copy = repairer.copy
        /\ repairer'.max = repairer.max /\ repairer'.copied = repairer.copied
        /\ repairer'.failed = TRUE
  BY <1>a DEF RepairInv, RepairerType
<1>f. /\ DOMAIN dir \ {name} \subseteq DOMAIN dir' /\ DOMAIN dir' \subseteq DOMAIN dir
      /\ \A n \in DOMAIN dir : n # name => dir'[n] = dir[n]
  BY <1>e DEF Without
<1>3. RepairerType'
  <2>1. IsDirectory(dir') /\ DOMAIN lost' \subseteq Kinds \X Nat
    BY <1>d, <1>a, ArchivedType DEF RepairInv, RepairerType
  <2> QED BY <1>a, <2>1 DEF RepairInv, RepairerType
<1>4. Saved'
  <2>1. \A n : Pending(n)' => Pending(n)
    BY <1>2 DEF Pending
  <2>2. Pending(name) /\ ~Pending(name)'
    BY <1>b, <1>2, <1>d DEF Pending
  <2>3. CASE dir' = dir /\ lost' = lost
    BY <1>a, <1>b, <1>2, <2>1, <2>3 DEF RepairInv, Saved, SafeInLost
  <2>4. CASE lost' = With(lost, name, dir[name]) /\ dir' = Without(dir, name)
    BY <1>a, <1>b, <1>2, <1>d, <2>1, <2>2, <2>4, SavedWhenArchived
  <2> QED BY <1>a, <2>3, <2>4
<1>5. Names'
  BY <1>b, <1>c, <1>2, <1>f DEF RepairInv, Names
<1>6. Scanned'
  <2>1. \A t \in repairer.tables : Table(t.number) # name
    BY <1>b, <1>c DEF RepairInv, Scanned
  <2> HIDE DEF Table
  <2> QED BY <1>b, <1>2, <1>f, <2>1 DEF RepairInv, Scanned
<1>7. Copied'
  BY <1>2 DEF Copied
<1>8. Covered'
  BY <1>2 DEF Covered
<1>9. Described'
  BY <1>2 DEF Described
<1> QED BY <1>3, <1>4, <1>5, <1>6, <1>7, <1>8, <1>9 DEF RepairInv

\* The copy of a damaged table is a new file, with what is good in the table to come.
LEMMA CreateCopyKeeps ==
  ASSUME RepairInv, CreateCopy
  PROVE RepairInv'
<1> USE DEF At, Copying, Writing, Resting, Table, Log, Temp, Manifest, Works, Fails, SameFiles, History
<1> DEFINE original == Table(repairer.file)
           copy == Table(repairer.next)
           good == dir[original].good
<1>a. /\ repairer.at = "copy" /\ found' = found /\ lost' = lost
      /\ repairer' = [repairer EXCEPT !.at = "archiveTable", !.copy = repairer.next, !.next = @ + 1,
                        !.copied = good]
      /\ dir' = With(dir, copy, TableFile({}, TRUE))
  BY DEF CreateCopy
<1>b. /\ ~Resting /\ original \in DOMAIN dir /\ copy \notin DOMAIN dir /\ copy \in Kinds \X Nat
      /\ copy[1] = "table" /\ copy[2] = repairer.next /\ original # copy
      /\ repairer.next \in Nat
  BY <1>a, NameFacts DEF RepairInv, Names, Kinds
<1>c. good \in SUBSET Nat /\ IsFiniteSet(good)
  BY <1>b, TableFacts
<1>d. TableFile({}, TRUE) \in [good : SUBSET Nat, damaged : BOOLEAN] /\ TableFile({}, TRUE).good = {}
      /\ IsFiniteSet({})
  BY FS_EmptySet DEF TableFile
<1>2. /\ repairer'.at = "archiveTable" /\ repairer'.manifests = repairer.manifests
        /\ repairer'.logs = repairer.logs /\ repairer'.tableNumbers = repairer.tableNumbers
        /\ repairer'.tables = repairer.tables /\ repairer'.next = repairer.next + 1
        /\ repairer'.file = repairer.file /\ repairer'.copy = repairer.next
        /\ repairer'.max = repairer.max /\ repairer'.copied = good
        /\ repairer'.failed = repairer.failed
  BY <1>a DEF RepairInv, RepairerType
<1>f. /\ DOMAIN dir' = DOMAIN dir \cup {copy} /\ dir'[copy] = TableFile({}, TRUE)
      /\ \A n \in DOMAIN dir : n # copy => dir'[n] = dir[n]
  BY <1>a DEF With
<1>g. DOMAIN dir \subseteq DOMAIN dir' /\ \A n \in DOMAIN dir : dir'[n] = dir[n]
  BY <1>b, <1>f
<1>3. RepairerType'
  <2>1. IsDirectory(dir')
    BY <1>a, <1>b, <1>d, DirectoryWith DEF RepairInv, RepairerType
  <2>2. repairer.next + 1 \in Nat /\ DOMAIN lost' = DOMAIN lost
    BY <1>a, <1>b
  <2>3. IsFiniteSet(repairer'.tables) /\ IsFiniteSet(repairer'.copied)
    BY <1>2, <1>c DEF RepairInv, RepairerType
  <2> HIDE DEF good, original, copy
  <2> QED BY <1>a, <1>b, <1>c, <2>1, <2>2, <2>3 DEF RepairInv, RepairerType
<1>4. Saved'
  <2>1. ASSUME NEW n \in DOMAIN lost, SafeInLost(n) PROVE SafeInLost(n)'
    BY <1>a, <1>b, <1>2, <2>1, NameFacts DEF SafeInLost, Pending
  <2> QED BY <1>a, <1>g, <2>1 DEF RepairInv, Saved
<1>5. Names'
  <2>1. \A n \in DOMAIN dir' : n \in DOMAIN dir \/ n[2] = repairer.next
    BY <1>b, <1>f
  <2>2. \A n \in DOMAIN dir : n[2] \in Nat
    BY NameFacts
  <2>3. \A n \in DOMAIN dir' : n[1] # "manifest" /\ n # Temp => n[2] < repairer'.next
    BY <1>b, <1>2, <2>1, <2>2 DEF RepairInv, Names
  <2> QED BY <1>a, <1>b, <1>2, <1>g, <2>3 DEF RepairInv, Names
<1>h. \A t \in repairer.tables : t.number # repairer.next /\ Table(t.number) \in DOMAIN dir
  BY <1>b DEF RepairInv, Scanned
<1>6. Scanned'
  <2> HIDE DEF copy, Table
  <2> QED BY <1>b, <1>2, <1>g, <1>h DEF RepairInv, Scanned
<1>7. Copied'
  <2>1. repairer.next \notin repairer.tableNumbers
    BY <1>b DEF RepairInv, Names
  <2>2. /\ repairer.file \in Nat /\ repairer.file \notin repairer.tableNumbers
        /\ repairer.file < repairer.next /\ \A t \in repairer.tables : t.number # repairer.file
        /\ repairer.max = MaxSequence(good)
    BY <1>a, <1>b DEF RepairInv, Copied
  <2>3. Table(repairer'.file) = original /\ Table(repairer'.copy) = copy
    BY <1>2
  <2>4. dir'[original].good = good /\ dir'[copy].good = {} /\ copy \in DOMAIN dir'
    BY <1>b, <1>d, <1>f, <1>g
  <2>5. repairer.file < repairer.next + 1 /\ repairer.next # repairer.file
    BY <1>b, <2>2
  <2> HIDE DEF original, copy, good, Table
  <2> QED BY <1>b, <1>2, <1>h, <2>1, <2>2, <2>3, <2>4, <2>5 DEF Copied
<1>8. Covered'
  <2> SUFFICES ASSUME ~repairer.failed, NEW s \in found
               PROVE \/ \E n \in DOMAIN dir' : Source(n)' /\ s \in ReadableIn(dir'[n], n[1])
                     \/ s \in repairer'.copied
    BY <1>a, <1>2 DEF Covered
  <2>1. PICK n \in DOMAIN dir : Source(n) /\ s \in ReadableIn(dir[n], n[1])
    BY <1>a, <1>b DEF RepairInv, Covered
  <2>2. CASE n = original
    <3>1. n[1] = "table"
      BY <2>2
    <3> QED BY <1>2, <2>1, <2>2, <3>1, ReadableInFacts
  <2>3. CASE n # original
    BY <1>a, <1>2, <1>g, <2>1, <2>3 DEF Source
  <2> QED BY <2>2, <2>3
<1>9. Described'
  BY <1>2 DEF Described
<1> QED BY <1>3, <1>4, <1>5, <1>6, <1>7, <1>8, <1>9 DEF RepairInv

\* The table is archived, or left when that fails, before its copy is finished.
LEMMA ArchiveTableKeeps ==
  ASSUME RepairInv, ArchiveTable
  PROVE RepairInv'
<1> USE DEF At, Copying, Writing, Resting, Table, Log, Temp, Manifest, Works, Fails, SameFiles, History
<1>a. /\ repairer' = [repairer EXCEPT !.at = "finish"]
      /\ found' = found /\ repairer.at = "archiveTable"
  BY DEF ArchiveTable, Go
<1>b. /\ repairer.file \in Nat /\ Table(repairer.file) \in DOMAIN dir
      /\ ~Resting /\ repairer.file < repairer.next
  BY <1>a DEF RepairInv, Names, Copied
<1>c. PICK name : name = Table(repairer.file)
  OBVIOUS
<1>d. name[1] = "table" /\ name[2] = repairer.file /\ name \in DOMAIN dir
  BY <1>b, <1>c
<1>2. /\ repairer'.at = "finish" /\ repairer'.manifests = repairer.manifests
        /\ repairer'.logs = repairer.logs /\ repairer'.tableNumbers = repairer.tableNumbers
        /\ repairer'.tables = repairer.tables /\ repairer'.next = repairer.next
        /\ repairer'.file = repairer.file /\ repairer'.copy = repairer.copy
        /\ repairer'.max = repairer.max /\ repairer'.copied = repairer.copied
        /\ repairer'.failed = repairer.failed
  BY <1>a DEF RepairInv, RepairerType
<1>e. \/ dir' = dir /\ lost' = lost
      \/ lost' = With(lost, name, dir[name]) /\ dir' = Without(dir, name)
  BY <1>c, <1>d DEF ArchiveTable, ArchiveFile
<1>f. /\ DOMAIN dir \ {name} \subseteq DOMAIN dir' /\ DOMAIN dir' \subseteq DOMAIN dir
      /\ \A n \in DOMAIN dir : n # name => dir'[n] = dir[n]
      /\ IF name \in DOMAIN dir' THEN dir'[name] = dir[name]
         ELSE name \in DOMAIN lost' /\ lost'[name] = dir[name]
  BY <1>d, <1>e DEF With, Without
<1>3. RepairerType'
  <2>1. IsDirectory(dir') /\ DOMAIN lost' \subseteq Kinds \X Nat
    BY <1>d, <1>e, ArchivedType DEF RepairInv, RepairerType
  <2> QED BY <1>a, <2>1 DEF RepairInv, RepairerType
<1>4. Saved'
  <2>1. \A n : Pending(n)' => Pending(n)
    BY <1>2 DEF Pending
  <2>2. Pending(name) /\ ~Pending(name)'
    BY <1>a, <1>b, <1>c, <1>2, <1>d DEF Pending, RepairInv, Copied
  <2>3. CASE dir' = dir /\ lost' = lost
    BY <1>a, <1>b, <1>2, <2>1, <2>3 DEF RepairInv, Saved, SafeInLost
  <2>4. CASE lost' = With(lost, name, dir[name]) /\ dir' = Without(dir, name)
    BY <1>a, <1>b, <1>2, <1>d, <2>1, <2>2, <2>4, SavedWhenArchived
  <2> QED BY <1>e, <2>3, <2>4
<1>g. \A k \in Nat \ {repairer.file} : Table(k) # name
  BY <1>c
<1>5. Names'
  <2>1. \A n \in repairer'.tableNumbers : n # repairer.file
    BY <1>a, <1>b, <1>2 DEF RepairInv, Copied
  <2>2. \A n \in repairer'.tableNumbers : Table(n) # name
    BY <1>g, <1>2, <2>1, NameFacts
  <2> HIDE DEF Table
  <2> QED BY <1>a, <1>b, <1>2, <1>f, <2>2 DEF RepairInv, Names
<1>h. \A t \in repairer.tables : Table(t.number) # name
  BY <1>a, <1>b, <1>c DEF RepairInv, Copied
<1>6. Scanned'
  <2> HIDE DEF Table
  <2> QED BY <1>b, <1>2, <1>f, <1>h DEF RepairInv, Scanned
<1>7. Copied'
  <2>1. Table(repairer.copy) # name
    BY <1>a, <1>b, <1>c DEF RepairInv, Copied
  <2>2. dir[name].good = repairer.copied
    BY <1>a, <1>b, <1>c DEF RepairInv, Copied
  <2> HIDE DEF Table
  <2> QED BY <1>a, <1>b, <1>c, <1>2, <1>f, <2>1, <2>2 DEF RepairInv, Copied
<1>8. Covered'
  <2>1. ASSUME NEW n, Source(n) PROVE Source(n)' /\ n # name
    BY <1>a, <1>b, <1>c, <1>2, <2>1 DEF Source, RepairInv, Copied, Names
  <2> QED BY <1>a, <1>b, <1>2, <1>f, <2>1 DEF RepairInv, Covered
<1>9. Described'
  BY <1>2 DEF Described
<1> QED BY <1>3, <1>4, <1>5, <1>6, <1>7, <1>8, <1>9 DEF RepairInv

\* A copy without entries is not kept in the new version; one with entries is to be renamed.
LEMMA FinishCopyKeeps ==
  ASSUME RepairInv, FinishCopy
  PROVE RepairInv'
<1> USE DEF At, Copying, Writing, Resting, Table, Log, Temp, Manifest, Works, Fails, SameFiles, History
<1> DEFINE copy == Table(repairer.copy)
<1>a. /\ found' = found /\ lost' = lost /\ repairer.at = "finish"
      /\ \/ /\ repairer.copied = {} /\ dir' = dir
            /\ repairer' = [repairer EXCEPT !.at = "logs"]
         \/ /\ repairer' = [repairer EXCEPT !.at = "rename"]
            /\ dir' = With(dir, copy, TableFile(repairer.copied, FALSE))
  BY DEF FinishCopy, Go
<1>b. /\ ~Resting /\ copy \in DOMAIN dir /\ copy \in Kinds \X Nat /\ copy[1] = "table"
      /\ dir[copy].good = {} /\ repairer.copy # repairer.file /\ repairer.copy \in Nat
      /\ Table(repairer.file) # copy
  BY <1>a, NameFacts DEF RepairInv, Copied, Kinds
<1>c. repairer.copied \in SUBSET Nat /\ IsFiniteSet(repairer.copied)
      /\ TableFile(repairer.copied, FALSE) \in [good : SUBSET Nat, damaged : BOOLEAN]
      /\ TableFile(repairer.copied, FALSE).good = repairer.copied
  BY DEF RepairInv, RepairerType, TableFile
<1>2. /\ repairer'.at \in {"logs", "rename"} /\ repairer'.manifests = repairer.manifests
      /\ repairer'.logs = repairer.logs /\ repairer'.tableNumbers = repairer.tableNumbers
      /\ repairer'.tables = repairer.tables /\ repairer'.next = repairer.next
      /\ repairer'.file = repairer.file /\ repairer'.copy = repairer.copy
      /\ repairer'.max = repairer.max /\ repairer'.copied = repairer.copied
      /\ repairer'.failed = repairer.failed
  BY <1>a DEF RepairInv, RepairerType
<1>f. /\ DOMAIN dir' = DOMAIN dir /\ \A n \in DOMAIN dir : n # copy => dir'[n] = dir[n]
      /\ repairer'.at = "rename" => dir'[copy] = TableFile(repairer.copied, FALSE)
      /\ repairer'.at = "logs" => repairer.copied = {}
  <2> HIDE DEF copy
  <2>1. CASE dir' = dir /\ repairer.copied = {} /\ repairer' = [repairer EXCEPT !.at = "logs"]
    BY <2>1 DEF RepairInv, RepairerType
  <2>2. CASE dir' = With(dir, copy, TableFile(repairer.copied, FALSE)) /\ repairer' = [repairer EXCEPT !.at = "rename"]
    BY <1>b, <2>2 DEF With, RepairInv, RepairerType
  <2> QED BY <1>a, <2>1, <2>2
<1>3. RepairerType'
  <2>1. IsDirectory(dir')
    <3>1. IsDirectory(dir) /\ IsDirectory(With(dir, copy, TableFile(repairer.copied, FALSE)))
      <4> HIDE DEF copy
      <4> QED BY <1>b, <1>c, DirectoryWith DEF RepairInv, RepairerType
    <3> QED BY <1>a, <3>1
  <2>2. repairer' \in [at : {"logs", "rename"}, manifests : SUBSET Nat, logs : SUBSET Nat, tableNumbers : SUBSET Nat,
                   tables : SUBSET [number : Nat, max : Nat], next : Nat,
                   file : Nat \cup {NoFile}, copy : Nat \cup {NoFile}, max : Nat,
                   copied : SUBSET Nat, failed : BOOLEAN]
    BY <1>a DEF RepairInv, RepairerType
  <2> QED BY <1>a, <1>2, <2>1, <2>2 DEF RepairInv, RepairerType
<1>4. Saved'
  <2>1. \A n : SafeInLost(n) => SafeInLost(n)'
    BY <1>a, <1>2 DEF SafeInLost, Pending
  <2>2. \A n \in DOMAIN dir, s \in found : s \in ReadableIn(dir[n], n[1]) => n # copy
    BY <1>b, ReadableInFacts
  <2> QED BY <1>a, <1>f, <2>1, <2>2 DEF RepairInv, Saved
<1>5. Names'
  BY <1>a, <1>b, <1>2, <1>f DEF RepairInv, Names
<1>6. Scanned'
  <2>1. \A t \in repairer.tables : Table(t.number) # copy
    BY <1>a, <1>b DEF RepairInv, Copied
  <2> HIDE DEF copy, Table
  <2> QED BY <1>b, <1>2, <1>f, <2>1 DEF RepairInv, Scanned
<1>7. Copied'
  <2>1. Table(repairer'.copy) = copy /\ Table(repairer'.file) = Table(repairer.file)
    BY <1>2
  <2>2. /\ repairer.file \in Nat /\ repairer.file \notin repairer.tableNumbers
        /\ repairer.file < repairer.next /\ \A t \in repairer.tables : t.number # repairer.file
        /\ repairer.copy \notin repairer.tableNumbers /\ \A t \in repairer.tables : t.number # repairer.copy
        /\ repairer.max = MaxSequence(repairer.copied)
    BY <1>a, <1>b DEF RepairInv, Copied
  <2>3. IF Table(repairer.file) \in DOMAIN dir THEN dir[Table(repairer.file)].good = repairer.copied
        ELSE /\ Table(repairer.file) \in DOMAIN lost
             /\ lost[Table(repairer.file)].good = repairer.copied
    BY <1>a, <1>b DEF RepairInv, Copied
  <2>4. repairer'.at = "rename" =>
          IF Table(repairer.file) \in DOMAIN dir' THEN dir'[Table(repairer.file)].good = repairer.copied
          ELSE /\ Table(repairer.file) \in DOMAIN lost'
               /\ lost'[Table(repairer.file)].good = repairer.copied
    <3> HIDE DEF copy, Table
    <3> QED BY <1>a, <1>b, <1>f, <2>3
  <2>5. copy \in DOMAIN dir'
    BY <1>b, <1>f
  <2> HIDE DEF copy, Table
  <2> QED BY <1>b, <1>2, <1>f, <2>1, <2>2, <2>4, <2>5 DEF Copied
<1>8. Covered'
  <2>1. ASSUME NEW n, Source(n) PROVE Source(n)' /\ n # copy
    BY <1>a, <1>b, <1>2, <2>1 DEF Source, RepairInv, Copied, Names
  <2> QED BY <1>a, <1>b, <1>2, <1>f, <2>1 DEF RepairInv, Covered
<1>9. Described'
  BY <1>2 DEF Described
<1> QED BY <1>3, <1>4, <1>5, <1>6, <1>7, <1>8, <1>9 DEF RepairInv

\* The copy has what was good in the table and takes its name.
LEMMA RenameCopyKeeps ==
  ASSUME RepairInv, RenameCopy
  PROVE RepairInv'
<1> USE DEF At, Copying, Writing, Resting, Table, Log, Temp, Manifest, Works, Fails, SameFiles, History
<1> DEFINE original == Table(repairer.file)
           copy == Table(repairer.copy)
           info == [number |-> repairer.file, max |-> repairer.max]
<1>a. /\ found' = found /\ lost' = lost /\ repairer.at = "rename"
      /\ dir' = With(Without(dir, copy), original, dir[copy])
      /\ repairer' = [repairer EXCEPT !.at = "logs", !.tables = @ \cup {info}]
  BY DEF RenameCopy, Info
<1>b. /\ repairer.file \in Nat /\ repairer.file \notin repairer.tableNumbers
      /\ repairer.file < repairer.next /\ \A t \in repairer.tables : t.number # repairer.file
      /\ repairer.copy \in Nat /\ repairer.copy # repairer.file
      /\ repairer.copy \notin repairer.tableNumbers /\ \A t \in repairer.tables : t.number # repairer.copy
      /\ copy \in DOMAIN dir /\ repairer.logs = {} /\ ~Resting
      /\ repairer.max = MaxSequence(repairer.copied)
      /\ dir[copy] = TableFile(repairer.copied, FALSE) /\ dir[copy].good = repairer.copied
      /\ IF original \in DOMAIN dir THEN dir[original].good = repairer.copied
         ELSE original \in DOMAIN lost /\ lost[original].good = repairer.copied
  BY <1>a DEF RepairInv, Copied, Names, TableFile
<1>c. /\ original \in Kinds \X Nat /\ original[1] = "table" /\ original[2] = repairer.file /\ original # copy
      /\ copy[1] = "table"
      /\ info \in [number : Nat, max : Nat] /\ info.number = repairer.file /\ info.max = repairer.max
  BY <1>b DEF Kinds, RepairInv, RepairerType
<1>2. /\ repairer'.at = "logs" /\ repairer'.manifests = repairer.manifests
        /\ repairer'.logs = repairer.logs /\ repairer'.tableNumbers = repairer.tableNumbers
        /\ repairer'.tables = repairer.tables \cup {info} /\ repairer'.next = repairer.next
        /\ repairer'.file = repairer.file /\ repairer'.copy = repairer.copy
        /\ repairer'.max = repairer.max /\ repairer'.copied = repairer.copied
        /\ repairer'.failed = repairer.failed
  BY <1>a DEF RepairInv, RepairerType
<1>f. /\ DOMAIN dir' = (DOMAIN dir \ {copy}) \cup {original} /\ dir'[original] = dir[copy]
      /\ \A n \in DOMAIN dir : n # copy /\ n # original => dir'[n] = dir[n]
  <2> HIDE DEF original, copy
  <2> QED BY <1>a, <1>c DEF With, Without
<1>r. /\ ReadableIn(dir[copy], copy[1]) = repairer.copied
      /\ original \in DOMAIN dir => ReadableIn(dir[original], original[1]) = repairer.copied
      /\ ReadableIn(dir'[original], original[1]) = repairer.copied
  <2> HIDE DEF original, copy
  <2>1. \A c : ReadableIn(c, original[1]) = c.good /\ ReadableIn(c, copy[1]) = c.good
    BY <1>c, ReadableInFacts
  <2>2. dir[copy].good = repairer.copied /\ dir'[original].good = repairer.copied
    BY <1>b, <1>f
  <2> QED BY <1>b, <2>1, <2>2
<1>3. RepairerType'
  <2>1. IsDirectory(dir')
    <3>1. IsDirectory(Without(dir, copy))
      BY DirectoryWithout DEF RepairInv, RepairerType
    <3>2. dir[copy] \in [good : SUBSET Nat, damaged : BOOLEAN] /\ IsFiniteSet(dir[copy].good)
      BY <1>b DEF RepairInv, RepairerType, TableFile
    <3> HIDE DEF original, copy
    <3> QED BY <1>a, <1>c, <3>1, <3>2, DirectoryWith
  <2>2. IsFiniteSet(repairer'.tables) /\ IsFiniteSet(repairer'.copied)
    <3>1. IsFiniteSet(repairer.tables) /\ IsFiniteSet(repairer.copied)
      BY DEF RepairInv, RepairerType
    <3> HIDE DEF info
    <3> QED BY <1>2, <3>1, FS_AddElement
  <2> HIDE DEF original, copy, info
  <2> QED BY <1>a, <1>c, <2>1, <2>2 DEF RepairInv, RepairerType
<1>4. Saved'
  <2>1. \A n : SafeInLost(n) => SafeInLost(n)'
    BY <1>a, <1>2 DEF SafeInLost, Pending
  <2> SUFFICES ASSUME NEW s \in found
               PROVE  \/ \E n \in DOMAIN dir' : s \in ReadableIn(dir'[n], n[1])
                      \/ \E n \in DOMAIN lost' : SafeInLost(n)' /\ s \in ReadableIn(lost'[n], n[1])
    BY <1>a DEF Saved
  <2>2. CASE s \in repairer.copied
    <3> HIDE DEF original, copy
    <3> QED BY <1>r, <1>f, <2>2
  <2>3. CASE s \notin repairer.copied
    <3>1. ASSUME NEW n \in DOMAIN dir, s \in ReadableIn(dir[n], n[1]) PROVE n # copy /\ n # original
      <4> HIDE DEF original, copy
      <4> QED BY <1>r, <2>3, <3>1
    <3> HIDE DEF original, copy
    <3> QED BY <1>a, <1>f, <2>1, <2>3, <3>1 DEF RepairInv, Saved
  <2> QED BY <2>2, <2>3
<1>5. Names'
  <2>1. \A n \in repairer'.tableNumbers : Table(n) # copy
    BY <1>b, <1>2
  <2>2. \A n \in DOMAIN dir' : n[1] # "manifest" /\ n # Temp => n[2] < repairer'.next
    <3> HIDE DEF copy, original
    <3> QED BY <1>b, <1>c, <1>2, <1>f DEF RepairInv, Names
  <2> HIDE DEF Table, copy, original
  <2> QED BY <1>b, <1>2, <1>f, <2>1, <2>2 DEF RepairInv, Names
<1>6. Scanned'
  <2>1. \A t \in repairer.tables : Table(t.number) # copy /\ Table(t.number) # original
    BY <1>b
  <2>2. info.number = repairer.file /\ info.max = repairer.max /\ Table(info.number) = original
    OBVIOUS
  <2> HIDE DEF Table, copy, original, info
  <2> SUFFICES ASSUME NEW t \in repairer'.tables
               PROVE /\ Table(t.number) \in DOMAIN dir' /\ t.number \notin repairer'.tableNumbers
                     /\ t.max = MaxSequence(dir'[Table(t.number)].good)
    BY DEF Scanned
  <2>3. CASE t \in repairer.tables
    BY <1>b, <1>2, <1>f, <2>1, <2>3 DEF RepairInv, Scanned
  <2>4. CASE t = info
    BY <1>b, <1>2, <1>f, <2>2, <2>4
  <2> QED BY <1>2, <2>3, <2>4
<1>7. Copied'
  BY <1>2 DEF Copied
<1>8. Covered'
  <2> SUFFICES ASSUME ~repairer.failed, NEW s \in found
               PROVE \E n \in DOMAIN dir' : Source(n)' /\ s \in ReadableIn(dir'[n], n[1])
    BY <1>a, <1>2 DEF Covered
  <2>1. CASE s \in repairer.copied
    <3>1. PICK n : n = original
      OBVIOUS
    <3>2. Source(n)'
      <4>1. info \in repairer'.tables /\ n[1] = "table" /\ n[2] = info.number
        BY <1>2, <1>c, <3>1
      <4> HIDE DEF info
      <4> QED BY <4>1 DEF Source
    <3> HIDE DEF original, copy
    <3> QED BY <1>r, <1>f, <2>1, <3>1, <3>2
  <2>2. CASE s \notin repairer.copied
    <3>1. PICK n \in DOMAIN dir : Source(n) /\ s \in ReadableIn(dir[n], n[1])
      BY <1>a, <1>b, <2>2 DEF RepairInv, Covered
    <3>2. n # copy /\ n # original
      BY <1>a, <1>b, <3>1 DEF Source
    <3>3. Source(n)'
      BY <1>a, <1>2, <3>1 DEF Source
    <3> HIDE DEF original, copy
    <3> QED BY <1>f, <3>1, <3>2, <3>3
  <2> QED BY <2>1, <2>2
<1>9. Described'
  BY <1>2 DEF Described
<1> QED BY <1>3, <1>4, <1>5, <1>6, <1>7, <1>8, <1>9 DEF RepairInv

\* A copy that cannot be finished or renamed is deleted; its table is in lost, or
\* in the directory still.
LEMMA CopyIsDroppedKeeps ==
  ASSUME RepairInv, CopyIsDropped
  PROVE RepairInv'
<1> USE DEF At, Copying, Writing, Resting, Table, Log, Temp, Manifest, Works, Fails, SameFiles, History
<1> DEFINE original == Table(repairer.file)
           copy == Table(repairer.copy)
<1>a. /\ found' = found /\ lost' = lost /\ repairer.at \in {"finish", "rename"}
      /\ dir' = Without(dir, copy)
      /\ repairer' = [repairer EXCEPT !.at = "logs", !.failed = TRUE]
  BY DEF CopyIsDropped
<1>b. /\ repairer.file \in Nat /\ repairer.file \notin repairer.tableNumbers
      /\ repairer.file < repairer.next /\ \A t \in repairer.tables : t.number # repairer.file
      /\ repairer.copy \in Nat /\ repairer.copy # repairer.file
      /\ repairer.copy \notin repairer.tableNumbers /\ \A t \in repairer.tables : t.number # repairer.copy
      /\ copy \in DOMAIN dir /\ repairer.logs = {} /\ ~Resting
      /\ dir[copy].good \subseteq repairer.copied
      /\ IF original \in DOMAIN dir THEN dir[original].good = repairer.copied
         ELSE original \in DOMAIN lost /\ lost[original].good = repairer.copied
  BY <1>a DEF RepairInv, Copied, Names, TableFile
<1>c. original[1] = "table" /\ original[2] = repairer.file /\ original # copy /\ copy[1] = "table"
  BY <1>b
<1>2. /\ repairer'.at = "logs" /\ repairer'.manifests = repairer.manifests
        /\ repairer'.logs = repairer.logs /\ repairer'.tableNumbers = repairer.tableNumbers
        /\ repairer'.tables = repairer.tables /\ repairer'.next = repairer.next
        /\ repairer'.file = repairer.file /\ repairer'.copy = repairer.copy
        /\ repairer'.max = repairer.max /\ repairer'.copied = repairer.copied
        /\ repairer'.failed = TRUE
  BY <1>a DEF RepairInv, RepairerType
<1>f. DOMAIN dir' = DOMAIN dir \ {copy} /\ \A n \in DOMAIN dir : n # copy => dir'[n] = dir[n]
  <2> HIDE DEF copy
  <2> QED BY <1>a DEF Without
<1>3. RepairerType'
  <2>1. IsDirectory(dir')
    BY <1>a, DirectoryWithout DEF RepairInv, RepairerType
  <2> HIDE DEF copy
  <2> QED BY <1>a, <2>1 DEF RepairInv, RepairerType
<1>4. Saved'
  <2>1. \A n : SafeInLost(n) => SafeInLost(n)'
    BY <1>a, <1>2 DEF SafeInLost, Pending
  <2>2. PICK n0 : n0 = original
    OBVIOUS
  <2>3. SafeInLost(n0)'
    BY <1>a, <1>b, <1>c, <1>2, <2>2 DEF SafeInLost, Pending
  <2> SUFFICES ASSUME NEW s \in found
               PROVE  \/ \E n \in DOMAIN dir' : s \in ReadableIn(dir'[n], n[1])
                      \/ \E n \in DOMAIN lost' : SafeInLost(n)' /\ s \in ReadableIn(lost'[n], n[1])
    BY <1>a DEF Saved
  <2>4. CASE s \in repairer.copied
    <3> HIDE DEF original, copy
    <3> QED BY <1>a, <1>b, <1>c, <1>f, <2>2, <2>3, <2>4, ReadableInFacts
  <2>5. CASE s \notin repairer.copied
    <3>1. ASSUME NEW n \in DOMAIN dir, s \in ReadableIn(dir[n], n[1]) PROVE n # copy
      <4> HIDE DEF original, copy
      <4> QED BY <1>b, <1>c, <2>5, <3>1, ReadableInFacts
    <3> HIDE DEF original, copy
    <3> QED BY <1>a, <1>f, <2>1, <2>5, <3>1 DEF RepairInv, Saved
  <2> QED BY <2>4, <2>5
<1>5. Names'
  <2>1. \A n \in repairer'.tableNumbers : Table(n) # copy
    BY <1>b, <1>2
  <2> HIDE DEF Table, copy, original
  <2> QED BY <1>b, <1>2, <1>f, <2>1 DEF RepairInv, Names
<1>6. Scanned'
  <2>1. \A t \in repairer.tables : Table(t.number) # copy
    BY <1>b
  <2> HIDE DEF Table, copy, original
  <2> QED BY <1>b, <1>2, <1>f, <2>1 DEF RepairInv, Scanned
<1>7. Copied'
  BY <1>2 DEF Copied
<1>8. Covered'
  BY <1>2 DEF Covered
<1>9. Described'
  BY <1>2 DEF Described
<1> QED BY <1>3, <1>4, <1>5, <1>6, <1>7, <1>8, <1>9 DEF RepairInv

\* The new MANIFEST is written under another name first.
LEMMA WriteTempKeeps ==
  ASSUME RepairInv, WriteTemp
  PROVE RepairInv'
<1> USE DEF At, Copying, Writing, Resting, Table, Log, Temp, Manifest, Works, Fails, SameFiles, History
<1>a. /\ found' = found /\ lost' = lost /\ repairer.at = "logs" /\ ~Resting
      /\ repairer.logs = {} /\ repairer.tableNumbers = {}
      /\ dir' = With(dir, Temp, Descriptor)
      /\ repairer' = [repairer EXCEPT !.at = "archiveManifests"]
  BY DEF WriteTemp, Go
<1>2. /\ repairer'.at = "archiveManifests" /\ repairer'.manifests = repairer.manifests
        /\ repairer'.logs = repairer.logs /\ repairer'.tableNumbers = repairer.tableNumbers
        /\ repairer'.tables = repairer.tables /\ repairer'.next = repairer.next
        /\ repairer'.file = repairer.file /\ repairer'.copy = repairer.copy
        /\ repairer'.max = repairer.max /\ repairer'.copied = repairer.copied
        /\ repairer'.failed = repairer.failed
  BY <1>a DEF RepairInv, RepairerType
<1>f. /\ DOMAIN dir' = DOMAIN dir \cup {Temp} /\ dir'[Temp] = Descriptor
      /\ \A n \in DOMAIN dir : n # Temp => dir'[n] = dir[n]
  BY <1>a DEF With
<1>c. Temp[1] = "temp" /\ Temp \in Kinds \X Nat /\ \A n : Table(n) # Temp /\ Log(n) # Temp
  BY DEF Kinds
<1>3. RepairerType'
  <2>1. IsDirectory(dir')
    <3> HIDE DEF Temp
    <3> QED BY <1>a, <1>c, DirectoryWith DEF RepairInv, RepairerType
  <2> QED BY <1>a, <2>1 DEF RepairInv, RepairerType
<1>k. \A n \in DOMAIN dir, s \in found : s \in ReadableIn(dir[n], n[1]) => n \in DOMAIN dir' /\ dir'[n] = dir[n]
  <2> HIDE DEF Temp
  <2> QED BY <1>c, <1>f, ReadableInFacts
<1>4. Saved'
  <2>1. \A n : SafeInLost(n) => SafeInLost(n)'
    BY <1>a, <1>2 DEF SafeInLost, Pending
  <2> QED BY <1>a, <1>k, <2>1 DEF RepairInv, Saved
<1>5. Names'
  BY <1>a, <1>2, <1>f DEF RepairInv, Names
<1>6. Scanned'
  <2> HIDE DEF Temp, Table
  <2> QED BY <1>a, <1>c, <1>2, <1>f DEF RepairInv, Scanned
<1>7. Copied'
  BY <1>2 DEF Copied
<1>8. Covered'
  <2>1. \A n : Source(n) => Source(n)'
    BY <1>a, <1>2 DEF Source
  <2> QED BY <1>a, <1>2, <1>k, <2>1 DEF RepairInv, Covered
<1>9. Described'
  BY <1>2, <1>f DEF Described, Descriptor
<1> QED BY <1>3, <1>4, <1>5, <1>6, <1>7, <1>8, <1>9 DEF RepairInv

\* The old MANIFESTs are archived: nothing is read in them.
LEMMA ArchiveManifestKeeps ==
  ASSUME RepairInv, ArchiveManifest
  PROVE RepairInv'
<1> USE DEF At, Copying, Writing, Resting, Table, Log, Temp, Manifest, Works, Fails, SameFiles, History
<1>0. PICK m \in repairer.manifests : ArchiveFile(<<"manifest", m>>) /\ repairer' = [repairer EXCEPT !.manifests = @ \ {m}]
  BY DEF ArchiveManifest
<1>1. PICK name : name = <<"manifest", m>>
  OBVIOUS
<1>a. /\ found' = found /\ repairer.at = "archiveManifests" /\ ~Resting /\ name[1] = "manifest"
      /\ \A n : Table(n) # name /\ Log(n) # name
      /\ Temp # name
  BY <1>1 DEF ArchiveManifest
<1>2. /\ repairer'.at = repairer.at /\ repairer'.manifests = repairer.manifests \ {m}
        /\ repairer'.logs = repairer.logs /\ repairer'.tableNumbers = repairer.tableNumbers
        /\ repairer'.tables = repairer.tables /\ repairer'.next = repairer.next
        /\ repairer'.file = repairer.file /\ repairer'.copy = repairer.copy
        /\ repairer'.max = repairer.max /\ repairer'.copied = repairer.copied
        /\ repairer'.failed = repairer.failed
  BY <1>0 DEF RepairInv, RepairerType
<1>e. \/ dir' = dir /\ lost' = lost
      \/ name \in DOMAIN dir /\ lost' = With(lost, name, dir[name]) /\ dir' = Without(dir, name)
  BY <1>0, <1>1 DEF ArchiveFile
<1>f. /\ DOMAIN dir \ {name} \subseteq DOMAIN dir' /\ DOMAIN dir' \subseteq DOMAIN dir
      /\ \A n \in DOMAIN dir : n # name => dir'[n] = dir[n]
  BY <1>e DEF Without
<1>3. RepairerType'
  <2>1. IsDirectory(dir') /\ DOMAIN lost' \subseteq Kinds \X Nat
    BY <1>e, ArchivedType DEF RepairInv, RepairerType
  <2> QED BY <1>0, <2>1 DEF RepairInv, RepairerType
<1>4. Saved'
  <2>1. \A n : Pending(n)' => Pending(n)
    BY <1>2 DEF Pending
  <2>2. CASE dir' = dir /\ lost' = lost
    BY <1>a, <1>2, <2>1, <2>2 DEF RepairInv, Saved, SafeInLost
  <2>3. CASE name \in DOMAIN dir /\ lost' = With(lost, name, dir[name]) /\ dir' = Without(dir, name)
    BY <1>a, <1>2, <2>1, <2>3, SavedWhenArchived
  <2> QED BY <1>e, <2>2, <2>3
<1>5. Names'
  <2> HIDE DEF Table, Log
  <2> QED BY <1>a, <1>2, <1>f DEF RepairInv, Names
<1>6. Scanned'
  <2> HIDE DEF Table
  <2> QED BY <1>a, <1>2, <1>f DEF RepairInv, Scanned
<1>7. Copied'
  BY <1>a, <1>2 DEF Copied
<1>8. Covered'
  <2>1. \A n : Source(n) => Source(n)'
    BY <1>a, <1>2 DEF Source
  <2>2. \A n \in DOMAIN dir : Source(n) => n # name
    BY <1>a DEF Source
  <2> QED BY <1>a, <1>2, <1>f, <2>1, <2>2 DEF RepairInv, Covered
<1>9. Described'
  <2>1. Descriptor' = Descriptor
    BY <1>2 DEF Descriptor
  <2> HIDE DEF Temp
  <2> QED BY <1>a, <1>2, <1>f, <2>1 DEF RepairInv, Described
<1> QED BY <1>3, <1>4, <1>5, <1>6, <1>7, <1>8, <1>9 DEF RepairInv

\* The new MANIFEST gets its name when the old ones are out of the way.
LEMMA RenameTempKeeps ==
  ASSUME RepairInv, RenameTemp
  PROVE RepairInv'
<1> USE DEF At, Copying, Writing, Resting, Table, Log, Temp, Manifest, Works, Fails, SameFiles, History
<1>a. /\ found' = found /\ lost' = lost /\ repairer.at = "archiveManifests" /\ ~Resting
      /\ dir' = With(Without(dir, Temp), Manifest, dir[Temp])
      /\ repairer' = [repairer EXCEPT !.at = "setCurrent"]
  BY DEF RenameTemp, Go
<1>2. /\ repairer'.at = "setCurrent" /\ repairer'.manifests = repairer.manifests
        /\ repairer'.logs = repairer.logs /\ repairer'.tableNumbers = repairer.tableNumbers
        /\ repairer'.tables = repairer.tables /\ repairer'.next = repairer.next
        /\ repairer'.file = repairer.file /\ repairer'.copy = repairer.copy
        /\ repairer'.max = repairer.max /\ repairer'.copied = repairer.copied
        /\ repairer'.failed = repairer.failed
  BY <1>a DEF RepairInv, RepairerType
<1>c. /\ Manifest[1] = "manifest" /\ Manifest \in Kinds \X Nat /\ Temp[1] = "temp" /\ Manifest # Temp
      /\ \A n : Table(n) # Manifest /\ Log(n) # Manifest /\ Table(n) # Temp /\ Log(n) # Temp
      /\ dir[Temp] = Descriptor
  BY <1>a DEF Kinds, RepairInv, Described
<1>f. /\ DOMAIN dir' = (DOMAIN dir \ {Temp}) \cup {Manifest} /\ dir'[Manifest] = Descriptor
      /\ \A n \in DOMAIN dir : n # Temp /\ n # Manifest => dir'[n] = dir[n]
  <2> HIDE DEF Temp, Manifest
  <2> QED BY <1>a, <1>c DEF With, Without
<1>3. RepairerType'
  <2>1. IsDirectory(dir')
    <3> HIDE DEF Temp, Manifest
    <3>1. IsDirectory(Without(dir, Temp))
      BY DirectoryWithout DEF RepairInv, RepairerType
    <3> QED BY <1>a, <1>c, <3>1, DirectoryWith
  <2> QED BY <1>a, <2>1 DEF RepairInv, RepairerType
<1>k. \A n \in DOMAIN dir, s \in found : s \in ReadableIn(dir[n], n[1]) => n \in DOMAIN dir' /\ dir'[n] = dir[n]
  <2> HIDE DEF Temp, Manifest
  <2> QED BY <1>c, <1>f, ReadableInFacts
<1>4. Saved'
  <2>1. \A n : SafeInLost(n) => SafeInLost(n)'
    BY <1>a, <1>2 DEF SafeInLost, Pending
  <2> QED BY <1>a, <1>k, <2>1 DEF RepairInv, Saved
<1>5. Names'
  <2> HIDE DEF Temp, Manifest, Table, Log
  <2> QED BY <1>a, <1>c, <1>2, <1>f DEF RepairInv, Names
<1>6. Scanned'
  <2> HIDE DEF Temp, Manifest, Table
  <2> QED BY <1>a, <1>c, <1>2, <1>f DEF RepairInv, Scanned
<1>7. Copied'
  BY <1>2 DEF Copied
<1>8. Covered'
  <2>1. \A n : Source(n) => Source(n)'
    BY <1>a, <1>2 DEF Source
  <2> QED BY <1>a, <1>2, <1>k, <2>1 DEF RepairInv, Covered
<1>9. Described'
  <2>1. Descriptor' = Descriptor
    BY <1>2 DEF Descriptor
  <2> HIDE DEF Temp, Manifest
  <2> QED BY <1>c, <1>2, <1>f, <2>1 DEF Described
<1> QED BY <1>3, <1>4, <1>5, <1>6, <1>7, <1>8, <1>9 DEF RepairInv

\* A repair that fails or stops leaves its files where they are, and what it had
\* written of the new MANIFEST goes.
LEMMA EndsKeep ==
  ASSUME RepairInv, DescriptorFails \/ Crash
  PROVE RepairInv'
<1> USE DEF At, Copying, Writing, Resting, Table, Log, Temp, Manifest, Works, Fails, SameFiles, History
<1>a. /\ found' = found /\ lost' = lost /\ repairer' = NoRepairer
      /\ dir' = dir \/ dir' = Without(dir, Temp)
  BY DEF DescriptorFails, Crash
<1>f. /\ DOMAIN dir \ {Temp} \subseteq DOMAIN dir' /\ \A n \in DOMAIN dir : n # Temp => dir'[n] = dir[n]
  <2> HIDE DEF Temp
  <2> QED BY <1>a DEF Without
<1>1. RepairerType'
  <2>1. IsDirectory(dir')
    BY <1>a, DirectoryWithout DEF RepairInv, RepairerType
  <2> QED BY <1>a, <2>1, FS_EmptySet DEF NoRepairer, RepairInv, RepairerType
<1>2. Saved'
  <2>1. \A n \in DOMAIN dir, s \in found : s \in ReadableIn(dir[n], n[1]) => n \in DOMAIN dir' /\ dir'[n] = dir[n]
    <3>1. Temp[1] = "temp"
      OBVIOUS
    <3> HIDE DEF Temp
    <3> QED BY <1>f, <3>1, ReadableInFacts
  <2>2. \A n : SafeInLost(n)'
    BY <1>a DEF SafeInLost, NoRepairer
  <2> QED BY <1>a, <2>1, <2>2 DEF RepairInv, Saved
<1>3. Resting'
  BY <1>a DEF NoRepairer
<1> QED BY <1>1, <1>2, <1>3 DEF RepairInv


\* The invariant only speaks of these.
LEMMA RepairStutterKeeps ==
  ASSUME RepairInv, UNCHANGED <<dir, lost, repairer, found>>
  PROVE  RepairInv'
BY DEF RepairInv, RepairerType, Saved, Names, Scanned, Copied, Covered, Described, At, Copying,
       Writing, Resting, SafeInLost, Pending, Source, Descriptor

\* The invariant holds as the first repair is about to begin.
LEMMA RepairInitInv ==
  ASSUME RepairInit
  PROVE  RepairInv
<1>1. RepairerType
  <2>1. IsDirectory(dir)
    BY RepairAssumption DEF RepairInit
  <2>2. DOMAIN lost = {}
    BY DEF RepairInit
  <2> QED BY <2>1, <2>2, FS_EmptySet DEF RepairInit, NoRepairer, RepairerType
<1>2. Resting /\ found = {}
  BY DEF RepairInit, NoRepairer, Resting
<1> QED BY <1>1, <1>2 DEF RepairInv, Saved

\* The last sequence of the new version is no smaller than that of any table.
LEMMA LastIsLargest ==
  ASSUME RepairInv
  PROVE  Descriptor.last \in Nat /\ \A t \in repairer.tables : t.max <= Descriptor.last
<1> DEFINE g == [t \in repairer.tables |-> t.max]
           T == {g[t] : t \in DOMAIN g}
<1>1. IsFiniteSet(T)
  <2>1. IsFiniteSet(DOMAIN g) /\ g = [t \in DOMAIN g |-> g[t]]
    BY DEF RepairInv, RepairerType
  <2> HIDE DEF g
  <2> QED BY <2>1, ImageFinite
<1>2. T = {t.max : t \in repairer.tables} /\ T \in SUBSET Nat
  BY NameFacts
<1> HIDE DEF T
<1>3. IsFiniteSet({0} \cup T) /\ {0} \cup T \in SUBSET Nat /\ {0} \cup T # {}
  <2>1. IsFiniteSet({0})
    BY FS_Singleton
  <2>2. IsFiniteSet({0} \cup T)
    BY <1>1, <2>1, FS_Union
  <2>3. {0} \cup T \in SUBSET Nat /\ {0} \cup T # {}
    BY <1>2
  <2> QED BY <2>2, <2>3
<1>4. Largest({0} \cup T) \in Nat /\ \A m \in {0} \cup T : m <= Largest({0} \cup T)
  BY <1>3, LargestOfFinite
<1> QED BY <1>2, <1>4 DEF Descriptor

\* What the invariant is for.
LEMMA RepairInvSaves ==
  ASSUME RepairInv
  PROVE  RepairSavesWhatIsThere
<1>1. NothingIsDestroyed
  BY DEF RepairInv, Saved, NothingIsDestroyed, Readable
<1> SUFFICES ASSUME At("done")
             PROVE  RepairRecovers /\ RepairedCanGoOn
  BY <1>1 DEF RepairSavesWhatIsThere, RepairRecovers, RepairedCanGoOn
<1>2. /\ ~Resting /\ ~Copying /\ ~At("archiveLog") /\ ~At("copy")
      /\ repairer.logs = {} /\ repairer.tableNumbers = {}
      /\ Manifest \in DOMAIN dir /\ dir[Manifest] = Descriptor /\ Temp \notin DOMAIN dir
  BY DEF At, Resting, Copying, Writing, RepairInv, Names, Described
<1>3. dir[Manifest].tables = {t.number : t \in repairer.tables}
  BY <1>2 DEF Descriptor
<1>4. RepairRecovers
  <2> SUFFICES ASSUME ~repairer.failed, NEW s \in found
               PROVE  s \in Recovered
    BY DEF RepairRecovers
  <2>1. PICK n \in DOMAIN dir : Source(n) /\ s \in ReadableIn(dir[n], n[1])
    BY <1>2 DEF RepairInv, Covered
  <2>2. PICK t \in repairer.tables : n[1] = "table" /\ t.number = n[2]
    BY <1>2, <2>1 DEF Source
  <2>3. n = <<"table", t.number>>
    BY <2>2, NameFacts
  <2>4. s \in dir[<<"table", t.number>>].good
    BY <2>1, <2>2, <2>3, ReadableInFacts
  <2>5. t.number \in dir[Manifest].tables
    BY <1>3
  <2> QED BY <2>4, <2>5 DEF Recovered
<1>5. RepairedCanGoOn
  <2>1. \A n \in dir[Manifest].tables : <<"table", n>> \in DOMAIN dir
    BY <1>2, <1>3 DEF RepairInv, Scanned, Table
  <2>2. \A n \in DOMAIN dir : n[1] # "manifest" => n[2] < dir[Manifest].next
    BY <1>2 DEF RepairInv, Names, Descriptor
  <2>3. ASSUME NEW s \in Recovered PROVE s <= dir[Manifest].last
    <3>1. PICK t \in repairer.tables : s \in dir[<<"table", t.number>>].good
      BY <1>3 DEF Recovered
    <3>2. /\ dir[<<"table", t.number>>].good \in SUBSET Nat /\ IsFiniteSet(dir[<<"table", t.number>>].good)
          /\ t.max = MaxSequence(dir[<<"table", t.number>>].good)
      BY <1>2, <2>1, <1>3, TableFacts DEF RepairInv, Scanned, Table
    <3>3. s <= t.max /\ s \in Nat /\ t.max \in Nat
      BY <3>1, <3>2, MaxSequenceOfFinite
    <3>4. t.max <= Descriptor.last /\ Descriptor.last \in Nat
      BY LastIsLargest
    <3> QED BY <1>2, <3>3, <3>4
  <2> QED BY <2>1, <2>2, <2>3 DEF RepairedCanGoOn
<1> QED BY <1>4, <1>5

\* RepairDB (repair.cc): whatever fails, and wherever it stops, each repair
\* leaves what it found readable in the directory or in lost; one in which
\* nothing failed has all of it in the new version, and that version can be
\* written on.
THEOREM RepairIsSafe == RepairInit /\ [][RepairNext]_repairVars => []RepairSavesWhatIsThere
<1>1. RepairInv /\ [RepairNext]_repairVars => RepairInv'
  <2> SUFFICES ASSUME RepairInv, [RepairNext]_repairVars PROVE RepairInv'
    OBVIOUS
  <2>1. CASE FindFiles
    BY <2>1, FindFilesKeeps
  <2>2. ASSUME NEW l \in repairer.logs, ConvertLogToTable(l) \/ ConversionFails(l) PROVE RepairInv'
    BY <2>2, ConvertLogKeeps, ConversionFailsKeeps
  <2>3. CASE ArchiveLog
    BY <2>3, ArchiveLogKeeps
  <2>4. ASSUME NEW n \in repairer.tableNumbers, ScanTable(n) \/ ScanFails(n) PROVE RepairInv'
    <3> HIDE DEF Table
    <3> QED BY <2>4, ScanDamagedKeeps, ScanGoodKeeps, ScanFailsKeeps
  <2>5. CASE CreateCopy \/ CopyFails \/ ArchiveTable \/ FinishCopy \/ RenameCopy \/ CopyIsDropped
    BY <2>5, CreateCopyKeeps, CopyFailsKeeps, ArchiveTableKeeps, FinishCopyKeeps, RenameCopyKeeps,
       CopyIsDroppedKeeps
  <2>6. CASE WriteTemp \/ ArchiveManifest \/ RenameTemp \/ SetCurrent \/ DescriptorFails \/ Crash
    BY <2>6, WriteTempKeeps, ArchiveManifestKeeps, RenameTempKeeps, SetCurrentKeeps, EndsKeep
  <2>7. CASE UNCHANGED repairVars
    BY <2>7, RepairStutterKeeps DEF repairVars
  <2> QED BY <2>1, <2>2, <2>3, <2>4, <2>5, <2>6, <2>7 DEF RepairNext
<1> QED BY <1>1, RepairInitInv, RepairInvSaves, PTL

-----------------------------------------------------------------------------
(***************************************************************************)
(* The names of files: the digits of a number are read back.               *)
(***************************************************************************)
Digits == 0 .. kBase - 1
NextValue(v, delta) == v * kBase + delta
NextRead(v, delta) ==
  IF v = -1 \/ v > kMaxUint64 \div kBase
     \/ (v = kMaxUint64 \div kBase /\ delta > kMaxUint64 % kBase)
  THEN -1 ELSE v * kBase + delta

\* The value of digits, digit by digit.
LEMMA ValueFacts ==
  ASSUME NEW digits \in Seq(Digits)
  PROVE  \E value \in [0 .. Len(digits) -> Nat] :
           /\ value[0] = 0 /\ ValueOfDigits(digits) = value[Len(digits)]
           /\ \A i \in 1 .. Len(digits) : value[i] = value[i - 1] * kBase + digits[i]
<1> DEFINE n == Len(digits)
           F == [i \in 1 .. n |-> [v \in Nat |-> NextValue(v, digits[i])]]
           Values(f) == f = [i \in 0 .. n |-> IF i = 0 THEN 0 ELSE f[i - 1] * kBase + digits[i]]
<1>1. n \in Nat /\ \A i \in 1 .. n : digits[i] \in Digits
  BY LenProperties
<1>2. F \in [1 .. n -> [Nat -> Nat]]
  <2> SUFFICES ASSUME NEW i \in 1 .. n, NEW v \in Nat PROVE NextValue(v, digits[i]) \in Nat
    OBVIOUS
  <2>1. digits[i] \in Nat /\ kBase \in Nat
    BY <1>1, NamesAssumption DEF Digits
  <2>2. v * kBase \in Nat
    BY <2>1
  <2> QED BY <2>1, <2>2 DEF NextValue
<1>3. PICK f : Applied(f, n, Nat, 0, F)
  <2> HIDE DEF n, F
  <2> QED BY <1>1, <1>2, Sequencing
<1>4. \A i \in 0 .. n : i # 0 => F[i][f[i - 1]] = f[i - 1] * kBase + digits[i]
  <2>1. \A i \in 0 .. n : i # 0 => i \in 1 .. n /\ i - 1 \in 0 .. n
    BY <1>1
  <2>2. \A i \in 1 .. n, v \in Nat : F[i][v] = v * kBase + digits[i]
    BY DEF NextValue
  <2> HIDE DEF F
  <2> QED BY <1>3, <2>1, <2>2 DEF Applied
<1>5. Values(f)
  <2> HIDE DEF F
  <2> QED BY <1>3, <1>4 DEF Applied
<1>6. Values(CHOOSE g : Values(g)) /\ ValueOfDigits(digits) = (CHOOSE g : Values(g))[n]
  <2>1. Values(CHOOSE g : Values(g))
    <3> HIDE DEF Values
    <3> QED BY <1>5
  <2> QED BY <2>1 DEF ValueOfDigits
<1>7. PICK value : Values(value) /\ ValueOfDigits(digits) = value[n]
  <2> HIDE DEF Values
  <2> QED BY <1>6
<1> DEFINE Good == {i \in 0 .. n : value[i] \in Nat}
<1>8. 0 \in Good
  BY <1>1, <1>7
<1>9. ASSUME NEW i \in 0 .. n, i \in Good, i < n PROVE i + 1 \in Good
  <2>1. i + 1 \in 1 .. n /\ i + 1 \in 0 .. n /\ (i + 1) - 1 = i /\ i + 1 # 0
    BY <1>1, <1>9
  <2>2. value[i + 1] = value[i] * kBase + digits[i + 1]
    BY <1>7, <2>1
  <2>3. value[i] \in Nat /\ digits[i + 1] \in Nat /\ kBase \in Nat
    BY <1>1, <1>9, <2>1, NamesAssumption DEF Digits
  <2>4. value[i] * kBase \in Nat
    BY <2>3
  <2> QED BY <2>1, <2>2, <2>3, <2>4
<1>10. 0 .. n \subseteq Good
  <2>1. \A i \in 0 .. n : i \in Good /\ i < n => i + 1 \in Good
    BY <1>9
  <2> HIDE DEF Good, n
  <2> QED BY <1>1, <1>8, <2>1, InductionUpTo
<1>11. value \in [0 .. n -> Nat] /\ value[0] = 0
  <2>1. value = [i \in 0 .. n |-> value[i]]
    BY <1>7
  <2>2. \A i \in 0 .. n : value[i] \in Nat
    BY <1>10
  <2>3. value[0] = 0
    BY <1>1, <1>7
  <2> QED BY <2>1, <2>2, <2>3
<1>12. \A i \in 1 .. n : value[i] = value[i - 1] * kBase + digits[i]
  BY <1>1, <1>7
<1> QED BY <1>7, <1>11, <1>12

\* ConsumeDecimalNumber, digit by digit.
LEMMA ReadFacts ==
  ASSUME NEW digits \in Seq(Digits)
  PROVE  \E read \in [0 .. Len(digits) -> Nat \cup {-1}] :
           /\ read[0] = 0 /\ ConsumeDecimalNumber(digits) = read[Len(digits)]
           /\ \A i \in 1 .. Len(digits) : read[i] = NextRead(read[i - 1], digits[i])
<1> DEFINE n == Len(digits)
           X == Nat \cup {-1}
           F == [i \in 1 .. n |-> [v \in X |-> NextRead(v, digits[i])]]
           Values(f) == f = [i \in 0 .. n |-> IF i = 0 THEN 0 ELSE NextRead(f[i - 1], digits[i])]
<1>1. n \in Nat /\ \A i \in 1 .. n : digits[i] \in Digits
  BY LenProperties
<1>a. \A i \in 1 .. n, v \in X : NextRead(v, digits[i]) \in X
  <2> SUFFICES ASSUME NEW i \in 1 .. n, NEW v \in X PROVE NextRead(v, digits[i]) \in X
    OBVIOUS
  <2>1. digits[i] \in Nat /\ kBase \in Nat
    BY <1>1, NamesAssumption DEF Digits
  <2>2. v # -1 => v * kBase \in Nat
    BY <2>1
  <2> QED BY <2>1, <2>2 DEF NextRead
<1>2. F \in [1 .. n -> [X -> X]] /\ 0 \in X
  BY <1>a
<1>3. PICK f : Applied(f, n, X, 0, F)
  <2> HIDE DEF n, F, X
  <2> QED BY <1>1, <1>2, Sequencing
<1>4. \A i \in 0 .. n : i # 0 => F[i][f[i - 1]] = NextRead(f[i - 1], digits[i])
  <2>1. \A i \in 0 .. n : i # 0 => i \in 1 .. n /\ i - 1 \in 0 .. n
    BY <1>1
  <2>2. \A i \in 1 .. n, v \in X : F[i][v] = NextRead(v, digits[i])
    OBVIOUS
  <2> HIDE DEF F, X
  <2> QED BY <1>3, <2>1, <2>2 DEF Applied
<1>5. Values(f)
  <2> HIDE DEF F, X
  <2> QED BY <1>3, <1>4 DEF Applied
<1>6. Values(CHOOSE g : Values(g)) /\ ConsumeDecimalNumber(digits) = (CHOOSE g : Values(g))[n]
  <2>1. Values(CHOOSE g : Values(g))
    <3> HIDE DEF Values
    <3> QED BY <1>5
  <2> QED BY <2>1 DEF ConsumeDecimalNumber, NextRead
<1>7. PICK read : Values(read) /\ ConsumeDecimalNumber(digits) = read[n]
  <2> HIDE DEF Values
  <2> QED BY <1>6
<1> DEFINE Good == {i \in 0 .. n : read[i] \in X}
<1>8. 0 \in Good
  BY <1>1, <1>7
<1>9. ASSUME NEW i \in 0 .. n, i \in Good, i < n PROVE i + 1 \in Good
  <2>1. i + 1 \in 1 .. n /\ i + 1 \in 0 .. n /\ (i + 1) - 1 = i /\ i + 1 # 0
    BY <1>1, <1>9
  <2>2. read[i + 1] = NextRead(read[i], digits[i + 1])
    BY <1>7, <2>1
  <2> HIDE DEF X
  <2> QED BY <1>a, <1>9, <2>1, <2>2
<1>10. 0 .. n \subseteq Good
  <2>1. \A i \in 0 .. n : i \in Good /\ i < n => i + 1 \in Good
    BY <1>9
  <2> HIDE DEF Good, n
  <2> QED BY <1>1, <1>8, <2>1, InductionUpTo
<1>11. read \in [0 .. n -> X] /\ read[0] = 0
  <2>1. read = [i \in 0 .. n |-> read[i]]
    BY <1>7
  <2>2. \A i \in 0 .. n : read[i] \in X
    BY <1>10
  <2>3. read[0] = 0
    BY <1>1, <1>7
  <2> QED BY <2>1, <2>2, <2>3
<1>12. \A i \in 1 .. n : read[i] = NextRead(read[i - 1], digits[i])
  BY <1>1, <1>7
<1> QED BY <1>7, <1>11, <1>12

\* The test before a digit is added tells whether the number fits.
LEMMA NextReadFits ==
  ASSUME NEW v \in Nat, NEW delta \in Digits
  PROVE  NextRead(v, delta) = IF v * kBase + delta <= kMaxUint64 THEN v * kBase + delta ELSE -1
<1> DEFINE B == kBase
           M == kMaxUint64
           q == M \div B
           r == M % B
<1>1. B \in Nat \ {0} /\ M \in Nat /\ delta \in Nat /\ delta < B
  BY NamesAssumption DEF Digits
<1>2. q \in Nat /\ r \in Nat /\ r < B /\ M = B * q + r
  BY <1>1
<1>3. NextRead(v, delta) = IF v > q \/ (v = q /\ delta > r) THEN -1 ELSE v * B + delta
  BY DEF NextRead
<1> HIDE DEF B, M, q, r
<1>4. CASE v > q
  <2>1. v - (q + 1) \in Nat
    BY <1>2, <1>4
  <2>2. B * (v - (q + 1)) \in Nat /\ B * (v - (q + 1)) = v * B - B * q - B
    BY <1>1, <1>2, <2>1
  <2>3. v * B \in Int /\ B * q \in Int
    BY <1>1, <1>2
  <2>4. ~(v * B + delta <= M)
    BY <1>1, <1>2, <2>2, <2>3
  <2> QED BY <1>3, <1>4, <2>4 DEF B, M
<1>5. CASE v = q
  <2>1. v * B = B * q /\ B * q \in Int
    BY <1>1, <1>2, <1>5
  <2> QED BY <1>1, <1>2, <1>3, <1>5, <2>1 DEF B, M
<1>6. CASE v < q
  <2>1. q - (v + 1) \in Nat
    BY <1>2, <1>6
  <2>2. B * (q - (v + 1)) \in Nat /\ B * (q - (v + 1)) = B * q - v * B - B
    BY <1>1, <1>2, <2>1
  <2>3. v * B \in Int /\ B * q \in Int
    BY <1>1, <1>2
  <2>4. v * B + delta <= M
    BY <1>1, <1>2, <2>2, <2>3
  <2> QED BY <1>2, <1>3, <1>6, <2>4 DEF B, M
<1> QED BY <1>2, <1>4, <1>5, <1>6

\* ConsumeDecimalNumber reads the value of the digits if it fits, and fails if not.
LEMMA NumberIsRead ==
  ASSUME NEW digits \in Seq(Digits)
  PROVE  /\ ValueOfDigits(digits) \in Nat
         /\ ConsumeDecimalNumber(digits)
              = IF ValueOfDigits(digits) <= kMaxUint64 THEN ValueOfDigits(digits) ELSE -1
<1> DEFINE n == Len(digits)
<1>1. n \in Nat /\ \A i \in 1 .. n : digits[i] \in Digits
  BY LenProperties
<1>2. PICK value \in [0 .. n -> Nat] :
        /\ value[0] = 0 /\ ValueOfDigits(digits) = value[n]
        /\ \A i \in 1 .. n : value[i] = value[i - 1] * kBase + digits[i]
  BY ValueFacts
<1>3. PICK read \in [0 .. n -> Nat \cup {-1}] :
        /\ read[0] = 0 /\ ConsumeDecimalNumber(digits) = read[n]
        /\ \A i \in 1 .. n : read[i] = NextRead(read[i - 1], digits[i])
  BY ReadFacts
<1> DEFINE Good == {i \in 0 .. n : read[i] = IF value[i] <= kMaxUint64 THEN value[i] ELSE -1}
<1> HIDE DEF n
<1>4. 0 \in Good
  BY <1>1, <1>2, <1>3, NamesAssumption
<1>5. ASSUME NEW i \in 0 .. n, i \in Good, i < n PROVE i + 1 \in Good
  <2>1. i + 1 \in 1 .. n /\ i + 1 \in 0 .. n /\ (i + 1) - 1 = i
    BY <1>1, <1>5
  <2>2. /\ read[i + 1] = NextRead(read[i], digits[i + 1])
        /\ value[i + 1] = value[i] * kBase + digits[i + 1]
    BY <1>2, <1>3, <2>1
  <2>3. value[i] \in Nat /\ digits[i + 1] \in Digits
    BY <1>1, <1>2, <2>1
  <2>4. CASE value[i] <= kMaxUint64
    <3>1. read[i] = value[i]
      BY <1>5, <2>4
    <3> QED BY <2>1, <2>2, <2>3, <3>1, NextReadFits
  <2>5. CASE ~(value[i] <= kMaxUint64)
    <3>1. read[i] = -1
      BY <1>5, <2>5
    <3>2. read[i + 1] = -1
      BY <2>2, <3>1 DEF NextRead
    <3>3. kBase - 1 \in Nat /\ digits[i + 1] \in Nat /\ kMaxUint64 \in Nat
      BY <2>3, NamesAssumption DEF Digits
    <3>4. value[i] * (kBase - 1) \in Nat /\ value[i] * kBase = value[i] * (kBase - 1) + value[i]
      <4>1. PICK a \in Nat : a = value[i]
        BY <2>3
      <4>2. PICK b \in Nat : b = kBase - 1 /\ kBase = b + 1
        BY <3>3, NamesAssumption
      <4>3. a * b \in Nat /\ a * (b + 1) = a * b + a
        OBVIOUS
      <4> QED BY <4>1, <4>2, <4>3
    <3>5. ~(value[i + 1] <= kMaxUint64)
      BY <2>2, <2>3, <2>5, <3>3, <3>4
    <3> QED BY <2>1, <3>2, <3>5
  <2> QED BY <2>4, <2>5
<1>6. n \in Good
  <2>1. \A i \in 0 .. n : i \in Good /\ i < n => i + 1 \in Good
    BY <1>5
  <2>2. 0 .. n \subseteq Good
    <3> HIDE DEF Good
    <3> QED BY <1>1, <1>4, <2>1, InductionUpTo
  <2> QED BY <1>1, <2>2
<1> QED BY <1>1, <1>2, <1>3, <1>6

(* What is left of the number without its last digits.                     *)
IsAbove(above, number) ==
  above = [i \in 0 .. number + kPadding + 1 |-> IF i = 0 THEN number ELSE above[i - 1] \div kBase]
AboveOf(number) == CHOOSE above : IsAbove(above, number)
IsLength(above, number, n) ==
  n \in 1 .. number + 1 /\ above[n] = 0 /\ (n > 1 => above[n - 1] # 0)

\* A quotient by the base is a natural number less than a number that is not 0.
LEMMA QuotientFacts ==
  ASSUME NEW v \in Nat
  PROVE  /\ v \div kBase \in Nat /\ v % kBase \in Digits
         /\ v = (v \div kBase) * kBase + (v % kBase)
         /\ v = 0 => v \div kBase = 0
         /\ v # 0 => v \div kBase < v
<1> DEFINE B == kBase
           q == v \div B
           r == v % B
<1>1. B \in Nat /\ B >= 2
  BY NamesAssumption
<1>2. q \in Nat /\ r \in 0 .. B - 1 /\ v = B * q + r
  BY <1>1
<1> HIDE DEF q, r, B
<1>3. PICK b \in Nat : B = b + 2
  <2>1. B - 2 \in Nat /\ B = (B - 2) + 2
    BY <1>1
  <2> QED BY <2>1
<1>4. b * q \in Nat /\ B * q = b * q + 2 * q /\ B * q = q * B
  BY <1>2, <1>3
<1>5. v = 0 => q = 0
  BY <1>2, <1>4
<1>6. v # 0 => q < v
  BY <1>2, <1>4
<1> QED BY <1>2, <1>4, <1>5, <1>6 DEF q, r, B, Digits

\* The number without its last digits is smaller, until nothing is left.
LEMMA AboveFacts ==
  ASSUME NEW number \in Nat
  PROVE  LET above == AboveOf(number)
             last == number + kPadding + 1
         IN  /\ above \in [0 .. last -> Nat]
             /\ above[0] = number
             /\ \A i \in 1 .. last : above[i] = above[i - 1] \div kBase
             /\ above[number + 1] = 0
<1> DEFINE last == number + kPadding + 1
           F == [i \in 1 .. last |-> [v \in Nat |-> v \div kBase]]
           above == AboveOf(number)
<1>1. last \in Nat /\ number + 1 \in 0 .. last /\ kPadding \in Nat
  BY NamesAssumption
<1>2. F \in [1 .. last -> [Nat -> Nat]]
  BY QuotientFacts
<1>3. PICK f : Applied(f, last, Nat, number, F)
  <2> HIDE DEF last, F
  <2> QED BY <1>1, <1>2, Sequencing
<1>4. IsAbove(f, number)
  <2>1. \A i \in 0 .. last : i # 0 => i \in 1 .. last /\ i - 1 \in 0 .. last
    BY <1>1
  <2>2. \A i \in 1 .. last, v \in Nat : F[i][v] = v \div kBase
    OBVIOUS
  <2> HIDE DEF F
  <2>3. f \in [0 .. last -> Nat] /\ f = [i \in 0 .. last |-> IF i = 0 THEN number ELSE F[i][f[i - 1]]]
    BY <1>3 DEF Applied
  <2>4. \A i \in 0 .. last : i # 0 => F[i][f[i - 1]] = f[i - 1] \div kBase
    <3> HIDE DEF last
    <3> QED BY <2>1, <2>2, <2>3
  <2> QED BY <2>3, <2>4 DEF IsAbove
<1>5. above = [i \in 0 .. last |-> IF i = 0 THEN number ELSE above[i - 1] \div kBase]
  <2>1. IsAbove(above, number)
    BY <1>4 DEF AboveOf
  <2> QED BY <2>1 DEF IsAbove
<1> DEFINE Good == {i \in 0 .. last : above[i] \in Nat /\ (above[i] + i <= number \/ above[i] = 0)}
<1> HIDE DEF above
<1>6. 0 \in Good
  BY <1>1, <1>5
<1>7. ASSUME NEW i \in 0 .. last, i \in Good, i < last PROVE i + 1 \in Good
  <2>1. i + 1 \in 0 .. last /\ (i + 1) - 1 = i /\ i + 1 # 0
    BY <1>1, <1>7
  <2>2. above[i + 1] = above[i] \div kBase
    BY <1>5, <2>1
  <2>3. above[i] \in Nat
    BY <1>7
  <2>4. above[i + 1] \in Nat /\ (above[i] = 0 => above[i + 1] = 0)
                             /\ (above[i] # 0 => above[i + 1] < above[i])
    BY <2>2, <2>3, QuotientFacts
  <2> QED BY <1>1, <1>7, <2>1, <2>3, <2>4
<1>8. 0 .. last \subseteq Good
  <2>1. \A i \in 0 .. last : i \in Good /\ i < last => i + 1 \in Good
    BY <1>7
  <2> HIDE DEF Good, last
  <2> QED BY <1>1, <1>6, <2>1, InductionUpTo
<1>9. above \in [0 .. last -> Nat] /\ above[0] = number
  <2>1. above = [i \in 0 .. last |-> above[i]]
    BY <1>5
  <2>2. \A i \in 0 .. last : above[i] \in Nat
    BY <1>8
  <2> QED BY <1>1, <1>5, <2>1, <2>2
<1>10. \A i \in 1 .. last : above[i] = above[i - 1] \div kBase
  BY <1>1, <1>5
<1>11. above[number + 1] = 0
  BY <1>1, <1>8
<1> QED BY <1>9, <1>10, <1>11 DEF above

\* The digits are those of the number, one after the other, and nothing is left of it.
LEMMA DigitsFacts ==
  ASSUME NEW number \in Nat
  PROVE  LET above == AboveOf(number)
             last == number + kPadding + 1
         IN  \E width \in 1 .. last :
               /\ above[width] = 0
               /\ DigitsOf(number) = [i \in 1 .. width |-> above[width - i] % kBase]
<1> DEFINE last == number + kPadding + 1
           above == AboveOf(number)
           S == {n \in 1 .. number + 1 : above[n] = 0}
           length == CHOOSE n \in 1 .. number + 1 : above[n] = 0 /\ (n > 1 => above[n - 1] # 0)
           width == IF length < kPadding THEN kPadding ELSE length
<1>1. last \in Nat /\ number + 1 \in 1 .. last /\ kPadding \in Nat
  BY NamesAssumption
<1>2. /\ above \in [0 .. last -> Nat] /\ above[number + 1] = 0
      /\ \A i \in 1 .. last : above[i] = above[i - 1] \div kBase
  BY AboveFacts
<1>3. DigitsOf(number) = [i \in 1 .. width |-> above[width - i] % kBase]
  BY DEF DigitsOf, AboveOf, IsAbove
<1> HIDE DEF above
<1>4. PICK n \in S : \A m \in S : n <= m
  <2>1. S \in SUBSET Nat /\ S # {}
    BY <1>1, <1>2
  <2> HIDE DEF S
  <2> QED BY <2>1, LeastNatural
<1>5. n \in 1 .. number + 1 /\ above[n] = 0 /\ (n > 1 => above[n - 1] # 0)
  <2>1. n > 1 => n - 1 \in 1 .. number + 1
    BY <1>4
  <2> QED BY <1>4, <2>1
<1>6. length \in 1 .. number + 1 /\ above[length] = 0
  BY <1>5
<1> HIDE DEF length
<1>7. width \in 1 .. last /\ length <= width
  BY <1>1, <1>6
<1> DEFINE Good == {i \in 0 .. last : i >= length => above[i] = 0}
<1>8. 0 \in Good
  BY <1>1, <1>6
<1>9. ASSUME NEW i \in 0 .. last, i \in Good, i < last PROVE i + 1 \in Good
  <2>1. i + 1 \in 1 .. last /\ i + 1 \in 0 .. last /\ (i + 1) - 1 = i
    BY <1>1, <1>9
  <2>2. above[i + 1] = above[i] \div kBase
    BY <1>2, <2>1
  <2>3. CASE i >= length
    <3>1. above[i] = 0
      BY <1>9, <2>3
    <3>2. above[i + 1] = 0
      BY <2>2, <3>1, QuotientFacts
    <3> QED BY <2>1, <3>2
  <2>4. CASE ~ (i >= length)
    <3>1. i + 1 >= length => i + 1 = length
      BY <1>6, <2>4
    <3> QED BY <1>6, <2>1, <3>1
  <2> QED BY <2>3, <2>4
<1>10. 0 .. last \subseteq Good
  <2>1. \A i \in 0 .. last : i \in Good /\ i < last => i + 1 \in Good
    BY <1>9
  <2> HIDE DEF Good, last
  <2> QED BY <1>1, <1>8, <2>1, InductionUpTo
<1>11. above[width] = 0
  <2>1. width \in 0 .. last
    <3> HIDE DEF width, last
    <3> QED BY <1>1, <1>7
  <2>2. width \in Good
    <3> HIDE DEF Good, width
    <3> QED BY <2>1, <1>10
  <2> QED BY <1>7, <2>2
<1> QED BY <1>3, <1>7, <1>11 DEF above

\* The digits made for a number are digits, and their value is the number.
LEMMA DigitsAreOfTheNumber ==
  ASSUME NEW number \in Nat
  PROVE  /\ DigitsOf(number) \in Seq(Digits) /\ DigitsOf(number) # <<>>
         /\ ValueOfDigits(DigitsOf(number)) = number
<1> DEFINE last == number + kPadding + 1
           above == AboveOf(number)
           digits == DigitsOf(number)
<1>1. /\ above \in [0 .. last -> Nat] /\ above[0] = number
      /\ \A i \in 1 .. last : above[i] = above[i - 1] \div kBase
  BY AboveFacts
<1>2. PICK width \in 1 .. last :
        /\ above[width] = 0
        /\ digits = [i \in 1 .. width |-> above[width - i] % kBase]
  BY DigitsFacts
<1>3. last \in Nat /\ width \in Nat /\ width >= 1 /\ width <= last
  BY <1>2, NamesAssumption
<1> HIDE DEF above, digits, last
<1>4. \A i \in 0 .. width : width - i \in 0 .. last /\ above[width - i] \in Nat
  <2>1. \A i \in 0 .. width : width - i \in 0 .. last
    BY <1>3
  <2> QED BY <1>1, <2>1
<1>5. \A i \in 1 .. width : digits[i] = above[width - i] % kBase /\ digits[i] \in Digits
  <2> SUFFICES ASSUME NEW i \in 1 .. width
               PROVE  digits[i] = above[width - i] % kBase /\ digits[i] \in Digits
    OBVIOUS
  <2>1. digits[i] = above[width - i] % kBase
    BY <1>2
  <2>2. above[width - i] \in Nat
    BY <1>3, <1>4
  <2> QED BY <2>1, <2>2, QuotientFacts
<1>6. digits \in Seq(Digits) /\ Len(digits) = width
  <2>1. digits \in [1 .. width -> Digits]
    BY <1>2, <1>5
  <2> QED BY <1>3, <2>1, SeqDef, LenProperties
<1>7. PICK value \in [0 .. width -> Nat] :
        /\ value[0] = 0 /\ ValueOfDigits(digits) = value[width]
        /\ \A i \in 1 .. width : value[i] = value[i - 1] * kBase + digits[i]
  BY <1>6, ValueFacts
<1> DEFINE Good == {i \in 0 .. width : value[i] = above[width - i]}
<1>8. 0 \in Good
  BY <1>2, <1>3, <1>7
<1>9. ASSUME NEW i \in 0 .. width, i \in Good, i < width PROVE i + 1 \in Good
  <2> DEFINE v == above[width - (i + 1)]
  <2>1. /\ i + 1 \in 1 .. width /\ i + 1 \in 0 .. width /\ (i + 1) - 1 = i
        /\ width - i \in 1 .. last /\ (width - i) - 1 = width - (i + 1)
    BY <1>3, <1>9
  <2>2. value[i] = v \div kBase
    BY <1>1, <1>9, <2>1
  <2>3. value[i + 1] = value[i] * kBase + (v % kBase)
    BY <1>5, <1>7, <2>1
  <2>4. v \in Nat
    BY <1>4, <2>1
  <2> HIDE DEF v
  <2>5. value[i + 1] = v
    BY <2>2, <2>3, <2>4, QuotientFacts
  <2> QED BY <2>1, <2>5 DEF v
<1>10. 0 .. width \subseteq Good
  <2>1. \A i \in 0 .. width : i \in Good /\ i < width => i + 1 \in Good
    BY <1>9
  <2> HIDE DEF Good
  <2> QED BY <1>3, <1>8, <2>1, InductionUpTo
<1>11. value[width] = number
  <2>1. width \in 0 .. width /\ width - width = 0
    BY <1>3
  <2> QED BY <1>1, <1>10, <2>1
<1>12. digits # <<>>
  BY <1>3, <1>6, EmptySeq
<1> QED BY <1>6, <1>7, <1>11, <1>12 DEF digits

(* What the names in the directory are: made by this code or by others.    *)
NameInv ==
  \/ fileName = Name("CURRENT", <<>>, "") /\ fileOf = File("CURRENT", 0)
  \/ \E type \in FileTypes, number \in FileNumbers :
       fileName \in NamesOf(type, number) /\ fileOf = File(type, number)
  \/ fileName \in OtherNames /\ fileOf = Nothing

\* The parts of what a name is read as.
LEMMA FileParts ==
  /\ \A type, number : File(type, number).type = type /\ File(type, number).number = number
  /\ Nothing.type = "none"
BY DEF File, Nothing

\* The number of a name that is read is the value of its digits.
LEMMA ParsedNumber ==
  ASSUME NEW name, name.digits \in Seq(Digits), ParseFileName(name).type \in FileTypes
  PROVE  ParseFileName(name).number = ValueOfDigits(name.digits)
<1> DEFINE number == IF name.digits = <<>> THEN -1 ELSE ConsumeDecimalNumber(name.digits)
           type == CASE name.prefix = "MANIFEST-" /\ name.rest = "" -> "kDescriptorFile"
                     [] name.prefix = "" /\ name.rest = ".log" -> "kLogFile"
                     [] name.prefix = "" /\ name.rest \in {".sst", ".ldb"} -> "kTableFile"
                     [] name.prefix = "" /\ name.rest = ".dbtmp" -> "kTempFile"
                     [] OTHER -> "none"
<1>1. ParseFileName(name)
        = IF name.prefix \in Unnumbered /\ name.digits = <<>> /\ name.rest = ""
          THEN File(name.prefix, 0)
          ELSE IF type = "none" \/ number = -1 THEN Nothing ELSE File(type, number)
  BY DEF ParseFileName
<1>2. number = -1 \/ number = ValueOfDigits(name.digits)
  BY NumberIsRead
<1> HIDE DEF number, type
<1>3. ~ (name.prefix \in Unnumbered /\ name.digits = <<>> /\ name.rest = "")
  <2> SUFFICES ASSUME name.prefix \in Unnumbered /\ name.digits = <<>> /\ name.rest = ""
               PROVE  FALSE
    OBVIOUS
  <2>1. ParseFileName(name) = File(name.prefix, 0)
    BY <1>1
  <2>2. ParseFileName(name).type = name.prefix
    BY <2>1, FileParts
  <2> QED BY <2>2 DEF Unnumbered, FileTypes
<1>4. ~ (type = "none" \/ number = -1)
  <2> SUFFICES ASSUME type = "none" \/ number = -1
               PROVE  FALSE
    OBVIOUS
  <2>1. ParseFileName(name) = Nothing
    BY <1>1, <1>3
  <2>2. ParseFileName(name).type = "none"
    BY <2>1, FileParts
  <2> QED BY <2>2 DEF FileTypes
<1>5. ParseFileName(name).number = number
  <2>1. ParseFileName(name) = File(type, number)
    BY <1>1, <1>3, <1>4
  <2> QED BY <2>1, FileParts
<1> QED BY <1>2, <1>4, <1>5

\* A name that was made for a file is read as the type and the number of the file.
LEMMA MadeNamesAreKnown ==
  ASSUME NEW type \in FileTypes, NEW number \in FileNumbers, NEW name \in NamesOf(type, number)
  PROVE  /\ ParseFileName(name) = File(type, number)
         /\ name.digits \in Seq(Digits)
<1>1. number \in Nat /\ number <= kMaxUint64 /\ kMaxUint64 \in Nat
  BY NamesAssumption
<1>2. PICK digits \in Seq(Digits) :
        /\ digits = DigitsOf(number) /\ digits # <<>> /\ ValueOfDigits(digits) = number
  BY <1>1, DigitsAreOfTheNumber
<1>3. ConsumeDecimalNumber(digits) = number /\ number # -1
  BY <1>1, <1>2, NumberIsRead
<1>4. CASE type = "kLogFile"
  <2>1. name = Name("", digits, ".log")
    BY <1>2, <1>4 DEF NamesOf
  <2> QED BY <1>2, <1>3, <1>4, <2>1 DEF ParseFileName, Name, Unnumbered
<1>5. CASE type = "kTableFile"
  <2>1. PICK rest \in {".ldb", ".sst"} : name = Name("", digits, rest)
    BY <1>2, <1>5 DEF NamesOf
  <2>2. rest \in {".sst", ".ldb"} /\ rest # ".log" /\ rest # ""
    OBVIOUS
  <2>3. name.prefix = "" /\ name.digits = digits /\ name.rest = rest
    BY <2>1 DEF Name
  <2>4. ParseFileName(name) = File("kTableFile", number)
    BY <1>2, <1>3, <2>2, <2>3 DEF ParseFileName, Unnumbered
  <2> QED BY <1>5, <2>3, <2>4
<1>6. CASE type = "kDescriptorFile"
  <2>1. name = Name("MANIFEST-", digits, "")
    BY <1>2, <1>6 DEF NamesOf
  <2> QED BY <1>2, <1>3, <1>6, <2>1 DEF ParseFileName, Name, Unnumbered
<1>7. CASE type = "kTempFile"
  <2>1. name = Name("", digits, ".dbtmp")
    BY <1>2, <1>7 DEF NamesOf
  <2> QED BY <1>2, <1>3, <1>7, <2>1 DEF ParseFileName, Name, Unnumbered
<1> QED BY <1>4, <1>5, <1>6, <1>7 DEF FileTypes

\* Every name of a file of the database is read as the type and number it was made for,
\* however large the number, and no other name as the file of another number.
THEOREM NamesAlwaysKnown == NameInit /\ [][NameNext]_nameVars => []NamesAreKnown
<1>1. NameInit => NameInv
  BY DEF NameInit, NameInv
<1>2. NameInv /\ [NameNext]_nameVars => NameInv'
  <2> SUFFICES ASSUME NameInv, [NameNext]_nameVars
               PROVE  NameInv'
    OBVIOUS
  <2>1. CASE \E type \in FileTypes, number \in FileNumbers : CreateFile(type, number)
    BY <2>1 DEF CreateFile, NameInv
  <2>2. CASE \E name \in OtherNames : FindOther(name)
    BY <2>2 DEF FindOther, NameInv
  <2>3. CASE UNCHANGED nameVars
    BY <2>3 DEF nameVars, NameInv
  <2> QED BY <2>1, <2>2, <2>3 DEF NameNext
<1>3. NameInv => NamesAreKnown
  <2> SUFFICES ASSUME NameInv
               PROVE  NamesAreKnown
    OBVIOUS
  <2>1. CASE fileName = Name("CURRENT", <<>>, "") /\ fileOf = File("CURRENT", 0)
    <3>1. ParseFileName(fileName) = File("CURRENT", 0)
      BY <2>1 DEF ParseFileName, Name, Unnumbered
    <3>2. "CURRENT" \notin FileTypes
      BY DEF FileTypes
    <3>3. ParseFileName(fileName).type = "CURRENT"
      BY <3>1, FileParts
    <3> QED BY <2>1, <3>1, <3>2, <3>3 DEF NamesAreKnown
  <2>2. CASE \E type \in FileTypes, number \in FileNumbers :
               fileName \in NamesOf(type, number) /\ fileOf = File(type, number)
    <3>1. ParseFileName(fileName) = fileOf /\ fileName.digits \in Seq(Digits)
      BY <2>2, MadeNamesAreKnown
    <3>2. ParseFileName(fileName).type \in FileTypes
            => ParseFileName(fileName).number = ValueOfDigits(fileName.digits)
      BY <3>1, ParsedNumber
    <3> QED BY <3>1, <3>2 DEF NamesAreKnown
  <2>3. CASE fileName \in OtherNames /\ fileOf = Nothing
    <3>1. fileName.digits \in Seq(Digits)
      BY <2>3, NamesAssumption DEF Digits
    <3> QED BY <2>3, <3>1, ParsedNumber DEF NamesAreKnown
  <2> QED BY <2>1, <2>2, <2>3 DEF NameInv
<1> QED BY <1>1, <1>2, <1>3, PTL
=============================================================================
