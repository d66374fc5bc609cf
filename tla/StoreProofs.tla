----------------------------- MODULE StoreProofs -----------------------------
(***************************************************************************)
(* Proofs about Store, for any writers, sizes, triggers and options: no    *)
(* write that returned OK is lost, whenever the process or the machine     *)
(* stops, the files that are needed exist, and they never change.          *)
(*                                                                         *)
(* First the types, what the steps do field by field, the lemmas about the *)
(* operators of Store and the inductive invariant; then, part by part,     *)
(* that every step keeps it; at the end the theorems.                      *)
(***************************************************************************)
EXTENDS Store, FiniteSetTheorems, SequenceTheorems, WellFoundedInduction, TLAPS

(***************************************************************************)
(* Types.  OptionTypes .. QueueTypes are the parts of TypeOK.              *)
(***************************************************************************)
Numbers == Nat \cup {None}
Records == (SUBSET Nat) \cup {Torn}
LogFiles == [records : Seq(Records), synced : Nat]
Edits == [added : SUBSET Nat, deleted : SUBSET Nat, log : Numbers, next : Numbers, last :
  Numbers]
ManifestFiles == [edits : Seq(Edits), synced : Nat]

OptionTypes == options \in OptionSets

LogTypes ==
  /\ logs \in [DOMAIN logs -> LogFiles]
  /\ DOMAIN logs \subseteq Nat \ {0}
  /\ \A n \in DOMAIN logs : logs[n].synced <= Len(logs[n].records)

TableTypes ==
  /\ tables \in [DOMAIN tables -> SUBSET Nat]
  /\ DOMAIN tables \subseteq Nat

ManifestTypes ==
  /\ manifests \in [DOMAIN manifests -> ManifestFiles]
  /\ DOMAIN manifests \subseteq Nat
  /\ \A n \in DOMAIN manifests : manifests[n].synced <= Len(manifests[n].edits)
  /\ CURRENT \in DOMAIN manifests \cup {None}

DbTypes ==
  db \in [bgError : BOOLEAN, files : SUBSET Nat, pending : SUBSET Nat, next : Nat, last : Nat,
          logNumber : Nat, logfile : Nat, manifest : Nat]

WriteTypes ==
  /\ mem \in SUBSET Nat /\ imm \in SUBSET SUBSET Nat
  /\ synced \in SUBSET acked /\ acked \in SUBSET Nat

OpeningTypes ==
  opening # None => opening \in Openings

CommitTypes ==
  commit # None =>
    commit \in [stage : {"append", "sync", "insert", "failed", "unsynced"}, size : Nat,
                seqs : SUBSET Nat, promised : SUBSET Nat]

FlushTypes ==
  flush # None =>
    /\ flush.stage \in {"build", "apply", "install"}
    /\ flush.stage = "build" => flush.number \in Nat
    /\ flush.stage # "build" => flush.edit \in FullEdits

WorkTypes ==
  work # None =>
    /\ work.stage \in {"merge", "apply", "install"}
    /\ work.base \in SUBSET Nat
    /\ work.stage = "merge" => work.inputs \in SUBSET Nat /\ work.number \in Numbers
    /\ work.stage # "merge" => work.number \in Nat /\ work.edit \in FullEdits

QueueTypes ==
  /\ writers \in Seq(Writers) /\ op \in [Writers -> Calls \cup {None}]
  /\ held \in SUBSET SUBSET Nat
  /\ bg \in {"idle", "scheduled", "running"}

TypeOK ==
  /\ OptionTypes /\ LogTypes /\ TableTypes /\ ManifestTypes /\ DbTypes /\ WriteTypes
  /\ OpeningTypes /\ CommitTypes /\ FlushTypes /\ WorkTypes /\ QueueTypes

-----------------------------------------------------------------------------
(* The inductive invariant.  A write that returned may be in four places:  *)
(* the memtable, imm_, the tables of the version, and for an open also the *)
(* logs; and while an edit is on its way the version and the MANIFEST      *)
(* differ by it, in memory or on disk.  So the parts below say what each   *)
(* file and number in use is, and where every write is, phase by phase.    *)

\* phases in which db.manifest is written, or is there to be; and in which
\* DB::Open reads the one that CURRENT names
Using == {"current", "ready", "open", "closing"}
Recovering == {"logs", "manifest"}

\* The queue has each writer once, and its front is at work.
Queue ==
  /\ \A i \in DOMAIN writers : op[writers[i]] # None
  /\ \A i, j \in DOMAIN writers : writers[i] = writers[j] => i = j
  /\ commit # None =>
       /\ writers # << >> /\ commit.size \in DOMAIN writers
       /\ commit.promised # {} => op[Head(writers)].sync

\* What is in memory in each phase; a memtable is written out inside a table
\* compaction only while that one merges.
Phases ==
  /\ phase \in {"closed"} \cup Recovering \cup Using
  /\ phase \notin {"open", "closing"} =>
       /\ flush = None /\ work = None /\ imm = {} /\ held = {} /\ bg = "idle"
       /\ ~db.bgError
  /\ phase # "open" => commit = None /\ writers = << >>
  /\ phase = "closed" => mem = {} /\ db = Closed
  /\ opening = None <=> phase \in {"closed", "open", "closing"}
  /\ bg # "running" => flush = None /\ work = None
  /\ flush # None => imm # {}
  /\ flush # None /\ work # None => work.stage = "merge"

\* tables that are read, but for those only a MANIFEST names
Living ==
  db.files \cup (UNION LiveVersions) \cup (IF opening = None THEN {} ELSE opening.added)

\* Tables that are read are there, and new numbers are above theirs.
Versions ==
  phase # "closed" =>
    /\ db.next > 0
    /\ Living \subseteq DOMAIN tables
    /\ \A n \in Living : n < db.next

\* The table of a memtable compaction is pending until its edit is made; the edit
\* holds what imm_ holds, and its numbers.
FlushGood ==
  flush # None =>
    /\ flush.stage = "build" =>
         /\ flush.number \in db.pending /\ flush.number < db.next /\ flush.number \notin Living
         /\ ImmWrites # {} => flush.number \in DOMAIN tables
    /\ flush.stage # "build" =>
         /\ flush.edit.added \subseteq DOMAIN tables /\ flush.edit.deleted = {}
         /\ \A n \in flush.edit.added : n < flush.edit.next
         /\ flush.edit.next <= db.next /\ flush.edit.last <= db.last
         /\ flush.edit.log = db.logfile /\ flush.edit.log < flush.edit.next
         /\ Entries(tables, flush.edit.added) = ImmWrites
         /\ \A s \in ImmWrites : s <= flush.edit.last

\* So the table of a table compaction, which holds what its inputs hold.
WorkGood ==
  work # None =>
    /\ work.base \subseteq db.files
    /\ work.stage = "merge" =>
         /\ work.inputs \subseteq work.base
         /\ work.number # None =>
              /\ work.number \in DOMAIN tables /\ work.number \in db.pending
              /\ work.number < db.next /\ work.number \notin Living
              /\ flush # None => IF flush.stage = "build" THEN flush.number # work.number
                                 ELSE work.number \notin flush.edit.added
    /\ work.stage # "merge" =>
         /\ work.edit.added = {work.number} /\ work.number \in DOMAIN tables
         /\ work.edit.deleted \subseteq work.base
         /\ work.number < work.edit.next
         /\ work.edit.next <= db.next /\ work.edit.last <= db.last
         /\ work.edit.log = db.logNumber /\ work.edit.log < work.edit.next
         /\ tables[work.number] = Entries(tables, work.edit.deleted)
         /\ \A s \in tables[work.number] : s <= work.edit.last

\* Nothing is appended behind a torn record, where it would not be read.
Untorn(records) == \A i \in DOMAIN records : records[i] # Torn

LogsGood ==
  /\ options.reuseLogs => \A n \in DOMAIN logs : Untorn(logs[n].records)
  /\ phase \in Using =>
       /\ db.logfile \in DOMAIN logs /\ db.logNumber <= db.logfile
       /\ Untorn(logs[db.logfile].records)
       /\ \A n \in DOMAIN logs : n < db.next

\* There is a greatest write in the logs.
Bounded ==
  \E b \in Nat : \A n \in DOMAIN logs : \A i \in DOMAIN logs[n].records :
    \A s \in logs[n].records[i] : s <= b

\* What an open could read of a MANIFEST: all, or what is synced if the machine
\* may stop.
Readings(n) ==
  {manifests[n].edits} \cup
    IF options.machine THEN {SubSeq(manifests[n].edits, 1, manifests[n].synced)} ELSE {}

\* Edits read of MANIFEST n name tables that are there, with all that they need.
Sound(edits, n) ==
  /\ NextOf(edits) \in Nat /\ LogOf(edits) \in Nat /\ LastOf(edits) \in Nat
  /\ LogOf(edits) < NextOf(edits) /\ n < NextOf(edits)
  /\ FilesOf(edits) \subseteq DOMAIN tables
  /\ \A f \in FilesOf(edits) : f < NextOf(edits)
  /\ \A s \in Entries(tables, FilesOf(edits)) : s <= LastOf(edits)
  /\ NextOf(edits) <= NextOf(manifests[n].edits)

\* DB::Open finds what it must find.
Reopenable ==
  /\ \A edits \in Readings(CURRENT) :
       /\ Complete(edits) => Sound(edits, CURRENT) /\ Complete(AllEdits)
       /\ acked # {} => Complete(edits)
       /\ Complete(edits) /\ options.machine
         => synced \subseteq Recoverable(edits, SyncedRecords)
  /\ Complete(AllEdits) => acked \subseteq Recoverable(AllEdits, AppendedRecords)

\* While no MANIFEST of this process is named by CURRENT, the files have it.
Closedness ==
  phase \notin {"ready", "open", "closing"} =>
    IF CURRENT = None THEN acked = {} /\ phase = "closed" ELSE Reopenable

\* While the logs are read, what returned is in tables, the memtable, or to be read.
Recovery ==
  phase \in Recovering =>
    /\ CURRENT # None /\ Complete(AllEdits)
    /\ db.files = FilesOf(AllEdits) /\ db.logNumber = LogOf(AllEdits)
    /\ NextOf(AllEdits) < db.next /\ LastOf(AllEdits) <= db.last
    /\ db.manifest = IF options.reuseLogs THEN CURRENT ELSE NextOf(AllEdits)
    /\ ~options.reuseLogs => opening.save /\ mem = {}
    /\ ~opening.save => opening.added = {}
    /\ opening.todo \subseteq DOMAIN logs /\ \A n \in opening.todo : db.logNumber <= n
    /\ \A n \in DOMAIN logs \ opening.todo : n < db.next
    /\ phase = "manifest" => db.logfile # 0
    /\ db.logfile = 0 => mem = {}
    /\ db.logfile # 0 =>
         /\ opening.todo = {} /\ db.logfile \in DOMAIN logs /\ db.logNumber <= db.logfile
         /\ Untorn(logs[db.logfile].records)
         /\ mem \subseteq Writes(logs[db.logfile].records)
    /\ \A s \in Entries(tables, db.files \cup opening.added) \cup mem : s <= db.last
    /\ acked \subseteq Entries(tables, db.files \cup opening.added) \cup mem
                        \cup UNION {Writes(logs[n].records) : n \in opening.todo}

\* what an open could read of the MANIFEST in use
Read == Readings(db.manifest)

\* what the version will be when the edit that is in the MANIFEST is installed
PendingLog ==
  IF flush # None /\ flush.stage = "install" THEN flush.edit.log ELSE db.logNumber
PendingFiles ==
  IF flush # None /\ flush.stage = "install" THEN db.files \cup flush.edit.added
  ELSE IF work # None
    /\ work.stage = "install" THEN (db.files \ work.edit.deleted) \cup work.edit.added
  ELSE db.files

\* A reading of the MANIFEST in use has every table the version has, or the tables
\* it was compacted from.
Stored(edits) ==
  /\ Sound(edits, db.manifest)
  /\ NextOf(edits) <= db.next /\ LastOf(edits) <= db.last /\ LogOf(edits) <= db.logfile
  /\ Entries(tables, db.files) \subseteq Entries(tables, FilesOf(edits))

\* Without an error it has no other.
Installed(edits) ==
  ~db.bgError => LogOf(edits) = PendingLog /\ FilesOf(edits) \subseteq PendingFiles

\* It does not name a table that is being built, nor anything above the edit that
\* will be added to it.
FitsFlush(edits) ==
  flush # None =>
    /\ flush.stage = "build" => flush.number \notin FilesOf(edits)
    /\ flush.stage = "apply"
      => NextOf(edits) <= flush.edit.next /\ LastOf(edits) <= flush.edit.last
    /\ flush.stage = "install" => flush.edit.added \subseteq FilesOf(edits)

FitsWork(edits) ==
  work # None =>
    /\ work.stage = "merge" => work.number \notin FilesOf(edits)
    /\ work.stage = "apply"
      => NextOf(edits) <= work.edit.next /\ LastOf(edits) <= work.edit.last
    /\ work.stage = "install" => work.number \in FilesOf(edits)

Fits(edits) == Stored(edits) /\ Installed(edits) /\ FitsFlush(edits) /\ FitsWork(edits)

Manifest ==
  phase \in Using =>
    /\ db.manifest \in DOMAIN manifests
    /\ phase = "current" <=> CURRENT # db.manifest
    /\ \A edits \in Read : Fits(edits)

\* Where a reader finds the writes S, and where an open does: those in the memtable
\* in the present log, those in imm_ in a log or a table that every reading keeps.
Covers(S, records, ts, d, im, m, readings) ==
  /\ S \subseteq Entries(ts, d.files) \cup im \cup m
  /\ S \cap m \subseteq Writes(records[d.logfile])
  /\ S \cap im \subseteq Logged(records, d.logNumber)
  /\ \A edits \in readings :
       S \cap im \subseteq Entries(ts, FilesOf(edits)) \cup Logged(records, LogOf(edits))

\* So all writes that returned are found, the synced ones in what is synced.
Memory ==
  phase \in Using =>
    /\ Covers(acked, AppendedRecords, tables, db, ImmWrites, mem, Read)
    /\ options.machine => Covers(synced, SyncedRecords, tables, db, ImmWrites, mem, Read)
    /\ \A s \in Entries(tables, db.files) \cup ImmWrites \cup mem : s <= db.last

\* The group has numbers not used, and is in the log as far as its stage says.
CommitGood ==
  commit # None =>
    /\ commit.seqs # {} /\ commit.promised \subseteq commit.seqs
    /\ \A s \in commit.seqs : db.last < s /\ s <= db.last + commit.size
    /\ commit.stage \in {"sync", "insert", "unsynced"} =>
         commit.seqs \subseteq Writes(logs[db.logfile].records)
    /\ commit.stage = "insert" /\ options.machine =>
         commit.promised \subseteq Writes(SyncedRecords[db.logfile])

IInv ==
  /\ TypeOK
  /\ Queue /\ Phases /\ Versions /\ FlushGood /\ WorkGood /\ LogsGood
  /\ Bounded /\ Closedness /\ Recovery /\ Manifest /\ Memory /\ CommitGood

-----------------------------------------------------------------------------
\* A set of naturals that is not empty has a least member, and one that is bounded
\* a greatest, so that Min and Max of these modules are what they say.
LEMMA Smallest ==
  ASSUME NEW S \in SUBSET Nat, S # {}
  PROVE \E n \in S : \A m \in S : n <= m
<1> DEFINE Q == {0 .. n : n \in S}
<1>1. IsWellFoundedOn(StrictSubsetOrdering(Nat), FiniteSubsetsOf(Nat))
  BY FS_StrictSubsetOrderingWellFounded
<1>2. \A n \in Nat : 0 .. n \in FiniteSubsetsOf(Nat)
  BY FS_Interval DEF FiniteSubsetsOf
<1>3. Q \subseteq FiniteSubsetsOf(Nat) /\ Q # {}
  BY <1>2
<1>4. PICK x \in Q : \A y \in Q : ~ (<<y, x>> \in StrictSubsetOrdering(Nat))
  <2> HIDE DEF Q
  <2> QED BY <1>1, <1>3, WFMin
<1>5. PICK n \in S : x = 0 .. n
  BY <1>4
<1>6. ASSUME NEW m \in S, m < n PROVE FALSE
  <2>1. 0 .. m \subseteq 0 .. n /\ 0 .. m # 0 .. n
    BY <1>6
  <2>2. 0 .. m \in Q /\ 0 .. m \subseteq Nat /\ 0 .. n \subseteq Nat
    OBVIOUS
  <2>3. <<0 .. m, 0 .. n>> \in StrictSubsetOrdering(Nat)
    BY <2>1, <2>2 DEF StrictSubsetOrdering
  <2> QED BY <1>4, <1>5, <2>2, <2>3
<1> QED BY <1>6

\* Min of a set of naturals.
LEMMA MinIsLeast ==
  ASSUME NEW S \in SUBSET Nat, S # {}
  PROVE Min(S) \in S /\ \A n \in S : Min(S) <= n
BY Smallest DEF Min

\* Max of a set of naturals with an upper bound.
LEMMA MaxIsGreatest ==
  ASSUME NEW S \in SUBSET Nat, S # {}, NEW b \in Nat, \A n \in S : n <= b
  PROVE Max(S) \in S /\ \A n \in S : n <= Max(S)
<1> DEFINE D == {d \in Nat : \E n \in S : d = b - n}
<1>1. D \in SUBSET Nat /\ D # {}
  <2>1. PICK n \in S : TRUE
    OBVIOUS
  <2>2. b - n \in D
    OBVIOUS
  <2> QED BY <2>2
<1>2. PICK d \in D : \A m \in D : d <= m
  BY <1>1, Smallest
<1>3. PICK n \in S : d = b - n
  BY <1>2
<1>4. \A m \in S : m <= n
  <2> TAKE m \in S
  <2>1. b - m \in D
    OBVIOUS
  <2>2. d <= b - m
    BY <1>2, <2>1
  <2>3. m \in Nat /\ n \in Nat
    OBVIOUS
  <2> HIDE DEF D
  <2> QED BY <1>3, <2>2, <2>3
<1> QED BY <1>4 DEF Max

\* The last number given, when one more edit comes.
LEMMA LastGivenExtended ==
  ASSUME NEW n \in Nat, NEW f, NEW g, DOMAIN f = 1 .. n, DOMAIN g = 1 .. n + 1,
         \A i \in 1 .. n : g[i] = f[i]
  PROVE LastGiven(g) = IF g[n + 1] = None THEN LastGiven(f) ELSE g[n + 1]
<1> DEFINE F == {i \in DOMAIN f : f[i] # None}
           G == {i \in DOMAIN g : g[i] # None}
<1>1. LastGiven(f) = IF F = {} THEN None ELSE f[Max(F)]
  BY DEF LastGiven
<1>2. LastGiven(g) = IF G = {} THEN None ELSE g[Max(G)]
  BY DEF LastGiven
<1>3. CASE g[n + 1] = None
  <2>1. F = G
    BY <1>3
  <2>2. F # {} => Max(F) \in F
    <3>1. F \in SUBSET Nat /\ \A i \in F : i <= n
      OBVIOUS
    <3> HIDE DEF F
    <3> QED BY <3>1, MaxIsGreatest
  <2> QED BY <1>1, <1>2, <1>3, <2>1, <2>2
<1>4. CASE g[n + 1] # None
  <2>1. n + 1 \in G /\ G \in SUBSET Nat /\ \A i \in G : i <= n + 1
    BY <1>4
  <2>2. Max(G) = n + 1
    <3> HIDE DEF G
    <3>1. Max(G) \in G /\ \A i \in G : i <= Max(G)
      BY <2>1, MaxIsGreatest
    <3>2. PICK m \in Nat : m = Max(G)
      BY <2>1, <3>1
    <3> QED BY <2>1, <3>1, <3>2
  <2> QED BY <1>2, <1>4, <2>1, <2>2
<1> QED BY <1>3, <1>4

\* An appended edit gives the numbers it has, and leaves the others.
LEMMA NumbersAppended ==
  ASSUME NEW edits \in Seq(Edits), NEW e \in Edits
  PROVE /\ NextOf(Append(edits, e)) = IF e.next = None THEN NextOf(edits) ELSE e.next
        /\ LogOf(Append(edits, e)) = IF e.log = None THEN LogOf(edits) ELSE e.log
        /\ LastOf(Append(edits, e)) = IF e.last = None THEN LastOf(edits) ELSE e.last
<1> DEFINE more == Append(edits, e)
           n == Len(edits)
<1>1. /\ n \in Nat /\ DOMAIN edits = 1 .. n /\ DOMAIN more = 1 .. n + 1
      /\ \A i \in 1 .. n : more[i] = edits[i]
      /\ more[n + 1] = e
  OBVIOUS
<1> HIDE DEF n, more
<1>2. NextOf(more) = IF e.next = None THEN NextOf(edits) ELSE e.next
  <2> DEFINE f == [i \in DOMAIN edits |-> edits[i].next]
             g == [i \in DOMAIN more |-> more[i].next]
  <2>1. DOMAIN f = 1 .. n /\ DOMAIN g = 1 .. n + 1 /\ g[n + 1] = e.next
          /\ \A i \in 1 .. n : g[i] = f[i]
    BY <1>1
  <2>2. NextOf(edits) = LastGiven(f) /\ NextOf(more) = LastGiven(g)
    BY DEF NextOf
  <2> HIDE DEF f, g
  <2> QED BY <1>1, <2>1, <2>2, LastGivenExtended
<1>3. LogOf(more) = IF e.log = None THEN LogOf(edits) ELSE e.log
  <2> DEFINE f == [i \in DOMAIN edits |-> edits[i].log]
             g == [i \in DOMAIN more |-> more[i].log]
  <2>1. DOMAIN f = 1 .. n /\ DOMAIN g = 1 .. n + 1 /\ g[n + 1] = e.log
          /\ \A i \in 1 .. n : g[i] = f[i]
    BY <1>1
  <2>2. LogOf(edits) = LastGiven(f) /\ LogOf(more) = LastGiven(g)
    BY DEF LogOf
  <2> HIDE DEF f, g
  <2> QED BY <1>1, <2>1, <2>2, LastGivenExtended
<1>4. LastOf(more) = IF e.last = None THEN LastOf(edits) ELSE e.last
  <2> DEFINE f == [i \in DOMAIN edits |-> edits[i].last]
             g == [i \in DOMAIN more |-> more[i].last]
  <2>1. DOMAIN f = 1 .. n /\ DOMAIN g = 1 .. n + 1 /\ g[n + 1] = e.last
          /\ \A i \in 1 .. n : g[i] = f[i]
    BY <1>1
  <2>2. LastOf(edits) = LastGiven(f) /\ LastOf(more) = LastGiven(g)
    BY DEF LastOf
  <2> HIDE DEF f, g
  <2> QED BY <1>1, <2>1, <2>2, LastGivenExtended
<1> QED BY <1>2, <1>3, <1>4 DEF more

\* An appended edit deletes its files, then adds its files.
LEMMA FilesAppended ==
  ASSUME NEW edits \in Seq(Edits), NEW e \in Edits
  PROVE FilesOf(Append(edits, e)) = (FilesOf(edits) \ e.deleted) \cup e.added
<1> DEFINE more == Append(edits, e)
           n == Len(edits)
<1>1. /\ n \in Nat /\ DOMAIN edits = 1 .. n /\ DOMAIN more = 1 .. n + 1
      /\ \A i \in 1 .. n : more[i] = edits[i]
      /\ more[n + 1] = e
  OBVIOUS
<1>2. \A f : f \in FilesOf(edits) <=>
         \E i \in 1 .. n : f \in edits[i].added /\ \A j \in 1 .. n : j > i
           => f \notin edits[j].deleted
  BY <1>1 DEF FilesOf
<1> HIDE DEF n, more
<1>3. \A f : f \in FilesOf(more) <=>
         \E i \in 1 .. n + 1 : /\ f \in more[i].added
                               /\ \A j \in 1 .. n + 1 : j > i => f \notin more[j].deleted
  BY <1>1 DEF FilesOf
<1>4. ASSUME NEW f, f \in FilesOf(more) PROVE f \in (FilesOf(edits) \ e.deleted) \cup e.added
  <2>1. PICK i \in 1 .. n + 1 : /\ f \in more[i].added
                                /\ \A j \in 1 .. n + 1 : j > i => f \notin more[j].deleted
    BY <1>3, <1>4
  <2>2. CASE i = n + 1
    BY <1>1, <2>1, <2>2
  <2>3. CASE i \in 1 .. n
    <3>1. f \notin e.deleted
      BY <1>1, <2>1, <2>3
    <3>2. f \in edits[i].added /\ \A j \in 1 .. n : j > i => f \notin edits[j].deleted
      BY <1>1, <2>1, <2>3
    <3> QED BY <1>2, <2>3, <3>1, <3>2
  <2> QED BY <1>1, <2>2, <2>3
<1>5. ASSUME NEW f \in e.added PROVE f \in FilesOf(more)
  <2>1. n + 1 \in 1 .. n + 1 /\ \A j \in 1 .. n + 1 : ~(j > n + 1)
    BY <1>1
  <2> QED BY <1>1, <1>3, <2>1
<1>6. ASSUME NEW f \in FilesOf(edits) \ e.deleted PROVE f \in FilesOf(more)
  <2>1. PICK i \in 1 .. n : f \in edits[i].added /\ \A j \in 1 .. n : j > i
          => f \notin edits[j].deleted
    BY <1>2
  <2>2. i \in 1 .. n + 1 /\ f \in more[i].added
    BY <1>1, <2>1
  <2>3. ASSUME NEW j \in 1 .. n + 1, j > i PROVE f \notin more[j].deleted
    BY <1>1, <1>6, <2>1, <2>3
  <2> QED BY <1>3, <2>2, <2>3
<1> QED BY <1>4, <1>5, <1>6 DEF more

\* No edits give nothing: such a MANIFEST is not complete.
LEMMA NothingGiven ==
  /\ FilesOf(<< >>) = {}
  /\ NextOf(<< >>) = None /\ LogOf(<< >>) = None /\ LastOf(<< >>) = None
BY DEF FilesOf, NextOf, LogOf, LastOf, LastGiven

\* What edits of the right type give.
LEMMA GivenTypes ==
  ASSUME NEW edits \in Seq(Edits)
  PROVE /\ NextOf(edits) \in Numbers /\ LogOf(edits) \in Numbers /\ LastOf(edits) \in Numbers
        /\ FilesOf(edits) \in SUBSET Nat
<1> DEFINE n == Len(edits)
<1>1. n \in Nat /\ DOMAIN edits = 1 .. n /\ \A i \in 1 .. n : edits[i] \in Edits
  OBVIOUS
<1> HIDE DEF n
<1>2. ASSUME NEW f, DOMAIN f = 1 .. n, \A i \in 1 .. n : f[i] \in Numbers
      PROVE LastGiven(f) \in Numbers
  <2> DEFINE F == {i \in DOMAIN f : f[i] # None}
  <2>1. LastGiven(f) = IF F = {} THEN None ELSE f[Max(F)]
    BY DEF LastGiven
  <2>2. F # {} => Max(F) \in F
    <3>1. F \in SUBSET Nat /\ \A i \in F : i <= n
      BY <1>1, <1>2
    <3> HIDE DEF F
    <3> QED BY <1>1, <3>1, MaxIsGreatest
  <2> QED BY <1>2, <2>1, <2>2 DEF Numbers
<1>3. NextOf(edits) \in Numbers
  <2> DEFINE f == [i \in DOMAIN edits |-> edits[i].next]
  <2>1. DOMAIN f = 1 .. n /\ \A i \in 1 .. n : f[i] \in Numbers
    BY <1>1 DEF Edits
  <2> HIDE DEF f
  <2>2. LastGiven(f) \in Numbers
    BY <1>2, <2>1
  <2> QED BY <2>2 DEF NextOf, f
<1>4. LogOf(edits) \in Numbers
  <2> DEFINE f == [i \in DOMAIN edits |-> edits[i].log]
  <2>1. DOMAIN f = 1 .. n /\ \A i \in 1 .. n : f[i] \in Numbers
    BY <1>1 DEF Edits
  <2> HIDE DEF f
  <2>2. LastGiven(f) \in Numbers
    BY <1>2, <2>1
  <2> QED BY <2>2 DEF LogOf, f
<1>5. LastOf(edits) \in Numbers
  <2> DEFINE f == [i \in DOMAIN edits |-> edits[i].last]
  <2>1. DOMAIN f = 1 .. n /\ \A i \in 1 .. n : f[i] \in Numbers
    BY <1>1 DEF Edits
  <2> HIDE DEF f
  <2>2. LastGiven(f) \in Numbers
    BY <1>2, <2>1
  <2> QED BY <2>2 DEF LastOf, f
<1>6. FilesOf(edits) \in SUBSET Nat
  BY <1>1 DEF FilesOf, Edits
<1> QED BY <1>3, <1>4, <1>5, <1>6

-----------------------------------------------------------------------------
(* Prefixes of sequences.                                                  *)
LEMMA WholePrefix ==
  ASSUME NEW S, NEW s \in Seq(S)
  PROVE SubSeq(s, 1, Len(s)) = s
OBVIOUS

\* What is synced of a file is a prefix of it.
LEMMA PrefixType ==
  ASSUME NEW S, NEW s \in Seq(S), NEW k \in Nat, k <= Len(s)
  PROVE /\ SubSeq(s, 1, k) \in Seq(S) /\ Len(SubSeq(s, 1, k)) = k
        /\ \A i \in 1 .. k : SubSeq(s, 1, k)[i] = s[i]
OBVIOUS

\* An append leaves what is synced as it is.
LEMMA PrefixOfAppended ==
  ASSUME NEW S, NEW s \in Seq(S), NEW x \in S, NEW k \in Nat, k <= Len(s)
  PROVE SubSeq(Append(s, x), 1, k) = SubSeq(s, 1, k)
OBVIOUS

\* What is left when all that is not synced is gone is synced.
LEMMA PrefixOfPrefix ==
  ASSUME NEW S, NEW s \in Seq(S), NEW k \in Nat, k <= Len(s)
  PROVE SubSeq(SubSeq(s, 1, k), 1, k) = SubSeq(s, 1, k)
OBVIOUS

-----------------------------------------------------------------------------
(* What logs and tables hold.                                              *)
LEMMA TornIsNoRecord == \A x \in SUBSET Nat : x # Torn
BY DEF Torn

\* Records hold writes.
LEMMA WritesTypes ==
  ASSUME NEW r \in Seq(Records)
  PROVE Writes(r) \in SUBSET Nat
<1>1. \A i \in ReadRecords(r) : i \in DOMAIN r /\ r[i] # Torn
  BY DEF ReadRecords
<1>2. \A i \in DOMAIN r : r[i] \in Records
  OBVIOUS
<1>3. ASSUME NEW i \in ReadRecords(r) PROVE r[i] \in SUBSET Nat
  <2>1. r[i] \in Records /\ r[i] # Torn
    BY <1>1, <1>2
  <2> QED BY <2>1 DEF Records
<1> QED BY <1>3 DEF Writes

\* Of a log without a torn record all is read.
LEMMA WritesOfUntorn ==
  ASSUME NEW r \in Seq(Records), Untorn(r)
  PROVE ReadRecords(r) = DOMAIN r /\ Writes(r) = UNION {r[i] : i \in DOMAIN r}
<1>1. DOMAIN r = 1 .. Len(r) /\ Len(r) \in Nat
  OBVIOUS
<1>2. ReadRecords(r) = DOMAIN r
  BY <1>1 DEF ReadRecords, Untorn
<1> QED BY <1>2 DEF Writes

\* Nothing is read of the synced part that is not read of the whole log.
LEMMA WritesOfPrefix ==
  ASSUME NEW r \in Seq(Records), NEW k \in Nat, k <= Len(r)
  PROVE Writes(SubSeq(r, 1, k)) \subseteq Writes(r)
<1> DEFINE p == SubSeq(r, 1, k)
<1>1. DOMAIN p = 1 .. k /\ DOMAIN r = 1 .. Len(r) /\ \A i \in 1 .. k : p[i] = r[i]
  OBVIOUS
<1> HIDE DEF p
<1>2. \A i \in ReadRecords(p) : i \in ReadRecords(r) /\ p[i] = r[i]
  BY <1>1 DEF ReadRecords
<1> QED BY <1>2 DEF Writes, p

\* What is appended to a log hides nothing before it.
LEMMA WritesGrow ==
  ASSUME NEW r \in Seq(Records), NEW x \in Records
  PROVE Writes(r) \subseteq Writes(Append(r, x))
<1> DEFINE a == Append(r, x)
<1>1. DOMAIN a = 1 .. Len(r) + 1 /\ DOMAIN r = 1 .. Len(r) /\ \A i \in 1 .. Len(r) : a[i] = r[i]
  OBVIOUS
<1> HIDE DEF a
<1>2. \A i \in ReadRecords(r) : i \in ReadRecords(a) /\ a[i] = r[i]
  BY <1>1 DEF ReadRecords
<1> QED BY <1>2 DEF Writes, a

\* A record appended to a log without a torn one is read.
LEMMA WritesAppended ==
  ASSUME NEW r \in Seq(Records), NEW x \in SUBSET Nat, Untorn(r)
  PROVE Untorn(Append(r, x)) /\ Writes(Append(r, x)) = Writes(r) \cup x
<1> DEFINE a == Append(r, x)
           n == Len(r)
<1>1. /\ n \in Nat /\ DOMAIN a = 1 .. n + 1 /\ DOMAIN r = 1 .. n
      /\ \A i \in 1 .. n : a[i] = r[i]
      /\ a[n + 1] = x /\ a \in Seq(Records)
  BY DEF Records
<1> HIDE DEF a, n
<1>2. Untorn(a)
  BY <1>1, TornIsNoRecord DEF Untorn
<1>3. Writes(a) = UNION {a[i] : i \in DOMAIN a} /\ Writes(r) = UNION {r[i] : i \in DOMAIN r}
  BY <1>1, <1>2, WritesOfUntorn
<1>4. \A s : s \in Writes(a) <=> \E i \in 1 .. n + 1 : s \in a[i]
  BY <1>1, <1>3
<1>5. \A s : s \in Writes(r) <=> \E i \in 1 .. n : s \in r[i]
  BY <1>1, <1>3
<1>6. n + 1 \in 1 .. n + 1 /\ \A i \in 1 .. n + 1 : i = n + 1 \/ i \in 1 .. n
  BY <1>1
<1>7. \A i \in 1 .. n : i \in 1 .. n + 1
  BY <1>1
<1>8. \A s : s \in Writes(a) <=> s \in Writes(r) \/ s \in x
  BY <1>1, <1>4, <1>5, <1>6, <1>7
<1> QED BY <1>2, <1>8 DEF a

\* What tables hold.
LEMMA EntriesAre ==
  ASSUME NEW ts, NEW files
  PROVE \A s : s \in Entries(ts, files) <=> \E n \in files : n \in DOMAIN ts /\ s \in ts[n]
BY DEF Entries

\* More tables hold more, and no table holds nothing.
LEMMA EntriesOfMore ==
  ASSUME NEW ts, NEW f, NEW g
  PROVE /\ f \subseteq g => Entries(ts, f) \subseteq Entries(ts, g)
        /\ Entries(ts, f \cup g) = Entries(ts, f) \cup Entries(ts, g)
        /\ Entries(ts, {}) = {}
BY DEF Entries

\* Tables that stay as they are hold what they held.
LEMMA EntriesKept ==
  ASSUME NEW ts, NEW us, NEW files,
         \A n \in files : n \in DOMAIN ts /\ n \in DOMAIN us /\ us[n] = ts[n]
  PROVE Entries(us, files) = Entries(ts, files)
BY DEF Entries

\* What the logs from a number on hold.
LEMMA LoggedAre ==
  ASSUME NEW r, NEW from
  PROVE \A s : s \in Logged(r, from) <=> \E n \in DOMAIN r : n >= from /\ s \in Writes(r[n])
BY DEF Logged

\* Logs that matter and what they hold are still there.
Grown(r, q, from) ==
  \A n \in DOMAIN r : n >= from => n \in DOMAIN q /\ Writes(r[n]) \subseteq Writes(q[n])

\* What was in logs that matter is still read.
LEMMA LoggedGrow ==
  ASSUME NEW r, NEW q, NEW from, Grown(r, q, from)
  PROVE Logged(r, from) \subseteq Logged(q, from)
BY LoggedAre DEF Grown

-----------------------------------------------------------------------------
(* What RecoverLogFile makes of a log.                                     *)
LEMMA FullBeforeType ==
  ASSUME NEW r, NEW i \in Nat
  PROVE FullBefore(r, i) \in Nat /\ FullBefore(r, i) <= i
<1> DEFINE S == {j \in 1 .. i - 1 : FillsMemtable(r, j)}
<1>1. IsFiniteSet(1 .. i - 1) /\ Cardinality(1 .. i - 1) <= i
  <2>1. PICK k \in Int : k = i - 1
    OBVIOUS
  <2>2. /\ IsFiniteSet(1 .. k)
        /\ Cardinality(1 .. k) = IF 1 <= k THEN (k - 1) + 1 ELSE 0
    BY FS_Interval
  <2> QED BY <2>1, <2>2
<1>2. S \in SUBSET (1 .. i - 1)
  OBVIOUS
<1>3. IsFiniteSet(S) /\ Cardinality(S) <= Cardinality(1 .. i - 1)
  <2> HIDE DEF S
  <2> QED BY <1>1, <1>2, FS_Subset
<1>4. Cardinality(S) \in Nat /\ Cardinality(1 .. i - 1) \in Nat
  BY <1>1, <1>3, FS_CardinalityType
<1>5. FullBefore(r, i) = Cardinality(S)
  BY DEF FullBefore
<1> HIDE DEF S
<1> QED BY <1>1, <1>3, <1>4, <1>5

\* RecoverLogFile, in terms of the log it reads and the tables it makes: they have
\* numbers never used, hold what is read of the log, and no number comes twice.
LEMMA LogRecovered ==
  ASSUME LogTypes, TableTypes, DbTypes, OpeningTypes, Phases, Bounded, Recovery, RecoverLogFile
  PROVE \E number \in opening.todo, made \in SUBSET Nat, reused \in BOOLEAN :
          /\ reused => options.reuseLogs /\ opening.todo = {number} /\ made = {}
          /\ \A n \in made : db.next <= n /\ n < db'.next
          /\ tables' = [n \in DOMAIN tables \cup made |-> tables'[n]]
          /\ \A n \in made : tables'[n] \in SUBSET Nat
          /\ \A n \in DOMAIN tables \ made : tables'[n] = tables[n]
          /\ ~reused => Entries(tables', made) = Writes(logs[number].records)
          /\ ~reused /\ made = {} => Writes(logs[number].records) = {}
          /\ opening' = [todo |-> opening.todo \ {number}, added |-> opening.added \cup made,
                         save |-> opening.save \/ made # {}]
          /\ mem' = IF reused THEN Writes(logs[number].records) ELSE mem
          /\ db'.next \in Nat /\ db'.next >= db.next /\ db'.next > number
          /\ db'.last \in Nat /\ db'.last >= db.last
          /\ \A s \in Writes(logs[number].records) : s <= db'.last
          /\ db' = [db EXCEPT !.next = db'.next, !.last = db'.last,
                              !.logfile = IF reused THEN number ELSE @]
<1> DEFINE number == Min(opening.todo)
           records == logs[number].records
           reused == /\ options.reuseLogs /\ opening.todo = {number}
                     /\ \A i \in ReadRecords(records) : ~FillsMemtable(records, i)
           table(i) == db.next + FullBefore(records, i)
           made == IF reused THEN {} ELSE {table(i) : i \in ReadRecords(records)}
           content(n) == UNION {records[i] : i \in {j \in ReadRecords(records) : table(j) = n}}
           nexts == {db.next, number + 1} \cup {n + 1 : n \in made}
           lasts == {db.last} \cup Writes(records)
<1>1. /\ phase = "logs" /\ opening.todo # {}
      /\ tables' = [n \in DOMAIN tables \cup made |-> IF n \in made THEN content(n) ELSE tables[n]]
      /\ opening' = [todo |-> opening.todo \ {number}, added |-> opening.added \cup made,
                     save |-> opening.save \/ made # {}]
      /\ mem' = IF reused THEN Writes(records) ELSE mem
      /\ db' = [db EXCEPT !.next = Max(nexts), !.last = Max(lasts),
                          !.logfile = IF reused THEN number ELSE @]
  BY DEF RecoverLogFile
<1>2. opening.todo \in SUBSET Nat /\ opening.todo \subseteq DOMAIN logs
  BY <1>1 DEF OpeningTypes, Openings, Phases, Recovery, Recovering, Using
<1>3. number \in opening.todo
  <2> HIDE DEF number
  <2> QED BY <1>1, <1>2, MinIsLeast DEF number
<1>4. records \in Seq(Records)
  <2> HIDE DEF number
  <2> QED BY <1>2, <1>3 DEF LogTypes, LogFiles
<1> HIDE DEF number, records
<1>5. /\ DOMAIN records = 1 .. Len(records) /\ Len(records) \in Nat
      /\ ReadRecords(records) \subseteq 1 .. Len(records)
  BY <1>4 DEF ReadRecords
<1>6. \A i \in ReadRecords(records) :
        table(i) \in Nat /\ db.next <= table(i) /\ table(i) <= db.next + Len(records)
  BY <1>5, FullBeforeType DEF DbTypes
<1>7. \A i \in ReadRecords(records) : records[i] \in SUBSET Nat
  <2> TAKE i \in ReadRecords(records)
  <2>1. records[i] \in Records /\ records[i] # Torn
    BY <1>4, <1>5 DEF ReadRecords
  <2> QED BY <2>1 DEF Records
<1> HIDE DEF table
<1>8. made \in SUBSET Nat /\ \A n \in made : db.next <= n /\ n <= db.next + Len(records)
  BY <1>6
<1>9. \A n \in made : content(n) \in SUBSET Nat
  BY <1>7
<1>10. ~reused => UNION {content(n) : n \in made} = Writes(records)
  <2> SUFFICES ASSUME ~reused PROVE UNION {content(n) : n \in made} = Writes(records)
    OBVIOUS
  <2>1. ASSUME NEW i \in ReadRecords(records)
        PROVE table(i) \in made /\ records[i] \subseteq content(table(i))
    OBVIOUS
  <2>2. \A n \in made : content(n) \subseteq Writes(records)
    BY DEF Writes
  <2>3. Writes(records) \subseteq UNION {content(n) : n \in made}
    <3> SUFFICES ASSUME NEW s \in Writes(records) PROVE \E n \in made : s \in content(n)
      OBVIOUS
    <3>1. PICK i \in ReadRecords(records) : s \in records[i]
      BY DEF Writes
    <3> QED BY <2>1, <3>1
  <2> QED BY <2>2, <2>3
<1>11. ~reused /\ made = {} => Writes(records) = {}
  BY DEF Writes
<1>12. reused \in BOOLEAN /\ (reused
         => options.reuseLogs /\ opening.todo = {number} /\ made = {})
  OBVIOUS
<1> HIDE DEF content, made, reused
<1>13. /\ Max(nexts) \in Nat /\ Max(nexts) >= db.next /\ Max(nexts) > number
       /\ \A n \in made : n < Max(nexts)
  <2> DEFINE b == db.next + number + Len(records) + 1
  <2>1. number \in Nat /\ db.next \in Nat
    BY <1>2, <1>3 DEF DbTypes
  <2>2. nexts \in SUBSET Nat /\ nexts # {} /\ b \in Nat
    BY <1>5, <1>8, <2>1
  <2>3. \A n \in nexts : n <= b
    BY <1>5, <1>8, <2>1
  <2>4. db.next \in nexts /\ number + 1 \in nexts /\ \A n \in made : n + 1 \in nexts
    OBVIOUS
  <2> HIDE DEF nexts, b
  <2>5. Max(nexts) \in nexts /\ \A n \in nexts : n <= Max(nexts)
    BY <2>2, <2>3, MaxIsGreatest
  <2>6. PICK m \in Nat : m = Max(nexts)
    BY <2>2, <2>5
  <2>7. db.next <= m /\ number + 1 <= m /\ \A n \in made : n + 1 <= m
    BY <2>4, <2>5, <2>6
  <2> QED BY <1>8, <2>1, <2>6, <2>7
<1>14. Max(lasts) \in Nat /\ Max(lasts) >= db.last /\ \A s \in Writes(records) : s <= Max(lasts)
  <2>1. PICK c \in Nat : \A n \in DOMAIN logs : \A i \in DOMAIN logs[n].records :
                           \A s \in logs[n].records[i] : s <= c
    BY DEF Bounded
  <2>2. \A s \in Writes(records) : s \in Nat /\ s <= c
    BY <1>2, <1>3, <1>5, <1>7, <2>1 DEF Writes, records
  <2> DEFINE b == db.last + c
  <2>3. lasts \in SUBSET Nat /\ db.last \in lasts /\ b \in Nat
          /\ Writes(records) \subseteq lasts
    BY <2>2 DEF DbTypes
  <2>4. \A n \in lasts : n <= b
    BY <2>2 DEF DbTypes
  <2> HIDE DEF lasts, b
  <2>5. Max(lasts) \in lasts /\ \A n \in lasts : n <= Max(lasts)
    BY <2>3, <2>4, MaxIsGreatest
  <2>6. PICK m \in Nat : m = Max(lasts)
    BY <2>3, <2>5
  <2> QED BY <2>3, <2>5, <2>6
<1> HIDE DEF nexts, lasts
<1>15. db'.next = Max(nexts) /\ db'.last = Max(lasts)
  BY <1>1 DEF DbTypes
<1>16. db' = [db EXCEPT !.next = db'.next, !.last = db'.last,
                        !.logfile = IF reused THEN number ELSE @]
  BY <1>1, <1>15
<1>17. /\ DOMAIN tables' = DOMAIN tables \cup made
       /\ \A n \in made : tables'[n] = content(n)
       /\ \A n \in DOMAIN tables \ made : tables'[n] = tables[n]
       /\ tables' = [n \in DOMAIN tables \cup made |-> tables'[n]]
  BY <1>1
<1>18. ~reused => Entries(tables', made) = Writes(records)
  <2>1. Entries(tables', made) = UNION {content(n) : n \in made}
    BY <1>17 DEF Entries
  <2> QED BY <1>10, <2>1
<1> DEFINE P(nn, mm, rr) ==
          /\ rr => options.reuseLogs /\ opening.todo = {nn} /\ mm = {}
          /\ \A n \in mm : db.next <= n /\ n < db'.next
          /\ tables' = [n \in DOMAIN tables \cup mm |-> tables'[n]]
          /\ \A n \in mm : tables'[n] \in SUBSET Nat
          /\ \A n \in DOMAIN tables \ mm : tables'[n] = tables[n]
          /\ ~rr => Entries(tables', mm) = Writes(logs[nn].records)
          /\ ~rr /\ mm = {} => Writes(logs[nn].records) = {}
          /\ opening' = [todo |-> opening.todo \ {nn}, added |-> opening.added \cup mm,
                         save |-> opening.save \/ mm # {}]
          /\ mem' = IF rr THEN Writes(logs[nn].records) ELSE mem
          /\ db'.next \in Nat /\ db'.next >= db.next /\ db'.next > nn
          /\ db'.last \in Nat /\ db'.last >= db.last
          /\ \A s \in Writes(logs[nn].records) : s <= db'.last
          /\ db' = [db EXCEPT !.next = db'.next, !.last = db'.last,
                              !.logfile = IF rr THEN nn ELSE @]
<1>19. P(number, made, reused)
  BY <1>1, <1>8, <1>9, <1>11, <1>12, <1>13, <1>14, <1>15, <1>16, <1>17, <1>18 DEF records
<1> HIDE DEF P
<1>20. \E nn \in opening.todo, mm \in SUBSET Nat, rr \in BOOLEAN : P(nn, mm, rr)
  BY <1>3, <1>8, <1>12, <1>19
<1> QED BY <1>20 DEF P

-----------------------------------------------------------------------------
(* What BeginCommit and FinishCommit make of the queue.                    *)
LEMMA BatchesType ==
  ASSUME NEW n \in Nat
  PROVE /\ Batches(n) \in Nat /\ Batches(n) <= n
        /\ 0 < n /\ op[writers[n]].batch => 0 < Batches(n)
<1> DEFINE S == {i \in 1 .. n : op[writers[i]].batch}
<1>1. IsFiniteSet(1 .. n) /\ Cardinality(1 .. n) <= n
  BY FS_Interval
<1>2. S \in SUBSET (1 .. n)
  OBVIOUS
<1>3. IsFiniteSet(S) /\ Cardinality(S) <= Cardinality(1 .. n)
  <2> HIDE DEF S
  <2> QED BY <1>1, <1>2, FS_Subset
<1>4. Cardinality(S) \in Nat /\ Cardinality(1 .. n) \in Nat
  BY <1>1, <1>3, FS_CardinalityType
<1>5. Batches(n) = Cardinality(S)
  BY DEF Batches
<1>6. 0 < n /\ op[writers[n]].batch => n \in S
  OBVIOUS
<1> HIDE DEF S
<1>7. 0 < n /\ op[writers[n]].batch => Cardinality(S) # 0
  BY <1>3, <1>6, FS_EmptySet
<1> QED BY <1>1, <1>3, <1>4, <1>5, <1>7

\* A group has a first batch, numbers behind the last one used, and no synced write
\* behind a first that is not.
LEMMA CommitBegun ==
  ASSUME QueueTypes, Queue, DbTypes, NEW w \in Writers, BeginCommit(w)
  PROVE /\ commit' \in [stage : {"append"}, size : Nat, seqs : SUBSET Nat, promised :
          SUBSET Nat]
        /\ writers # << >> /\ commit'.size \in DOMAIN writers
        /\ commit'.seqs # {} /\ commit'.promised \subseteq commit'.seqs
        /\ commit'.promised # {} => op[Head(writers)].sync
        /\ \A s \in commit'.seqs : db.last < s /\ s <= db.last + commit'.size
<1> DEFINE sizes == {n \in DOMAIN writers :
                       \A i \in 2 .. n : /\ op[writers[i]].sync => op[Front1].sync
                                         /\ op[writers[i]].batch => Batches(i) <= MaxGroup}
           size == Max(sizes)
           group == {i \in 1 .. size : op[writers[i]].batch}
           seq(i) == db.last + Batches(i)
           asked == {i \in group : op[writers[i]].sync}
<1>1. /\ writers # << >> /\ w = Head(writers) /\ op[w].batch
      /\ commit' = [stage |-> "append", size |-> size, seqs |-> {seq(i) : i \in group},
                    promised |-> {seq(i) : i \in asked}]
  BY DEF BeginCommit, HasRoom, CanGoOn, Front1, GroupSize
<1>2. DOMAIN writers = 1 .. Len(writers) /\ Len(writers) \in Nat /\ 1 \in DOMAIN writers
        /\ writers[1] = w
  BY <1>1 DEF QueueTypes
<1>3. size \in sizes
  <2>1. sizes \in SUBSET Nat /\ 1 \in sizes /\ \A n \in sizes : n <= Len(writers)
    BY <1>2
  <2> HIDE DEF sizes
  <2> QED BY <1>2, <2>1, MaxIsGreatest
<1>4. size \in 1 .. Len(writers)
  BY <1>2, <1>3
<1>5. asked # {} => op[Head(writers)].sync
  <2> SUFFICES ASSUME NEW i \in asked PROVE op[Head(writers)].sync
    OBVIOUS
  <2>1. i \in 1 .. size /\ op[writers[i]].sync
    OBVIOUS
  <2>2. CASE i = 1
    BY <1>1, <1>2, <2>1, <2>2
  <2>3. CASE i # 1
    BY <1>3, <1>4, <2>1, <2>3 DEF Front1
  <2> QED BY <2>2, <2>3
<1>6. 1 \in group
  BY <1>1, <1>2, <1>4
<1>7. \A i \in group : seq(i) \in Nat /\ db.last < seq(i) /\ seq(i) <= db.last + size
  <2> SUFFICES ASSUME NEW i \in group
               PROVE seq(i) \in Nat /\ db.last < seq(i) /\ seq(i) <= db.last + size
    OBVIOUS
  <2>1. i \in 1 .. size /\ op[writers[i]].batch
    OBVIOUS
  <2>2. i \in Nat /\ i <= size /\ size \in Nat /\ 0 < i
    <3> HIDE DEF group, size
    <3> QED BY <1>4, <2>1
  <2> HIDE DEF size, group
  <2>3. Batches(i) \in Nat /\ Batches(i) <= i /\ 0 < Batches(i)
    BY <2>1, <2>2, BatchesType
  <2> QED BY <2>2, <2>3 DEF DbTypes
<1>8. asked \subseteq group
  OBVIOUS
<1> HIDE DEF seq, size, group, asked
<1> QED BY <1>1, <1>2, <1>4, <1>5, <1>6, <1>7, <1>8

\* The numbers of a group are used up when it is done.
LEMMA CommitFinished ==
  ASSUME DbTypes, CommitTypes, CommitGood, FinishCommit
  PROVE /\ db'.last \in Nat /\ db.last <= db'.last /\ \A s \in commit.seqs : s <= db'.last
        /\ db' = [db EXCEPT !.last = db'.last, !.bgError = @ \/ commit.stage = "unsynced"]
        /\ db'.files = db.files /\ db'.pending = db.pending /\ db'.next = db.next
        /\ db'.logNumber = db.logNumber /\ db'.logfile = db.logfile
          /\ db'.manifest = db.manifest
        /\ db'.bgError = (db.bgError \/ commit.stage = "unsynced")
<1>1. /\ commit # None
      /\ db' = [db EXCEPT !.last = Max(commit.seqs), !.bgError = @ \/ commit.stage = "unsynced"]
  BY DEF FinishCommit
<1> DEFINE b == db.last + commit.size
<1>2. /\ commit.seqs \in SUBSET Nat /\ commit.seqs # {} /\ b \in Nat
      /\ \A s \in commit.seqs : s <= b /\ db.last <= s
  BY <1>1 DEF CommitTypes, CommitGood, DbTypes
<1> HIDE DEF b
<1>3. Max(commit.seqs) \in commit.seqs /\ \A s \in commit.seqs : s <= Max(commit.seqs)
  BY <1>2, MaxIsGreatest
<1>4. db'.last = Max(commit.seqs)
  BY <1>1 DEF DbTypes
<1>5. /\ db'.files = db.files /\ db'.pending = db.pending /\ db'.next = db.next
      /\ db'.logNumber = db.logNumber /\ db'.logfile = db.logfile /\ db'.manifest = db.manifest
      /\ db'.bgError = (db.bgError \/ commit.stage = "unsynced")
  BY <1>1 DEF DbTypes
<1> QED BY <1>1, <1>2, <1>3, <1>4, <1>5

\* AddRecord and Sync keep the type of a log.
LEMMA AddedRecord ==
  ASSUME NEW file \in LogFiles, file.synced <= Len(file.records), NEW record \in Records
  PROVE /\ AddRecord(file, record) \in LogFiles
        /\ AddRecord(file, record).synced <= Len(AddRecord(file, record).records)
        /\ AddRecord(file, record).records = Append(file.records, record)
        /\ AddRecord(file, record).synced = file.synced
BY DEF AddRecord, LogFiles

\* After a sync all is synced.
LEMMA SyncedFile ==
  ASSUME NEW file \in LogFiles
  PROVE /\ Sync(file) \in LogFiles
        /\ Sync(file).synced <= Len(Sync(file).records)
        /\ Sync(file).records = file.records /\ Sync(file).synced = Len(file.records)
BY DEF Sync, LogFiles

\* A new log is empty.
LEMMA EmptyLog ==
  /\ NewLog \in LogFiles /\ NewLog.synced = 0 /\ NewLog.records = << >>
  /\ NewLog.synced <= Len(NewLog.records)
<1>1. \A q : q = << >> => Len(q) = 0
  OBVIOUS
<1> QED BY <1>1 DEF NewLog, LogFiles

\* The inputs of a table compaction are there when it reads them.
LEMMA InputsExist ==
  ASSUME Phases, Versions, WorkGood, work # None, work.stage = "merge"
  PROVE /\ work.inputs \subseteq DOMAIN tables
        /\ UNION {tables[n] : n \in work.inputs} = Entries(tables, work.inputs)
<1>1. phase # "closed"
  BY DEF Phases
<1>2. work.inputs \subseteq db.files
  BY DEF WorkGood
<1>3. work.inputs \subseteq DOMAIN tables
  BY <1>1, <1>2 DEF Versions, Living
<1> QED BY <1>3 DEF Entries

\* The options never change.
LEMMA OptionTypesKept ==
  ASSUME OptionTypes, [StoreNext]_storeVars
  PROVE OptionTypes'
<1>1. CASE UNCHANGED <<options>>
  BY <1>1 DEF OptionTypes
<1>2. CASE Opening
  BY <1>2, <1>1 DEF Opening, NewDB, RecoverManifest, RecoverLogFile, OpenNewLog,
     OpenManifest, SetCurrentFile, Opened, DeleteObsoleteFiles, disk, history, idle,
     memory
<1>3. ASSUME NEW w \in Writers, Writing(w) PROVE OptionTypes'
  BY <1>3, <1>1 DEF Writing, WriteRefused, WaitForRoom, SwitchMemtable, SwitchFails,
     NothingToWrite, BeginCommit, disk, history, idle, memory
<1>4. CASE Committing
  BY <1>4, <1>1 DEF Committing, AppendRecord, SyncLog, FinishCommit, AppendFails,
     SyncFails, AddRecord, Sync, disk, history, idle, memory
<1>5. CASE Background
  BY <1>5, <1>1 DEF Background, NothingToDo, BeginFlush, FlushBuilt, BuildFails,
     FlushApply, FlushApplyFails, FlushInstall, BeginCompaction, OpenOutput,
     OutputBuilt, CompactionApply, CompactionInstall, CompactionFails, AppendEdit,
     DeleteObsoleteFiles, Ended, FlushFailed, WriteEdit, disk, history, idle, memory
<1> QED BY <1>2, <1>3, <1>4, <1>5, <1>1 DEF StoreNext, OpenFails, CallWrite, NewIterator,
   ReleaseIterator, Close, Closing, Stop, Forget, storeVars, disk, memory, history

\* Logs keep their type, and no more is synced than there is.
LEMMA LogTypesKept ==
  ASSUME LogTypes, DbTypes, CommitTypes, OptionTypes, Versions, Phases,
           [StoreNext]_storeVars
  PROVE LogTypes'
<1>1. CASE OpenNewLog
  <2>1. \E n \in Nat \ {0} : logs' = logs \/ logs' = Put(logs, n, NewLog)
    BY <1>1 DEF OpenNewLog, DbTypes, Versions
  <2> QED BY <2>1, EmptyLog DEF Put, LogTypes
<1>2. CASE Opened
  BY <1>2 DEF Opened, DeleteObsoleteFiles, Restrict, LogTypes
<1>3. ASSUME NEW w \in Writers, SwitchMemtable(w) PROVE LogTypes'
  <2>1. \E n \in Nat \ {0} : logs' = logs \/ logs' = Put(logs, n, NewLog)
    BY <1>3 DEF SwitchMemtable, NeedsSwitch, CanGoOn, DbTypes, Versions
  <2> QED BY <2>1, EmptyLog DEF Put, LogTypes
<1>4. CASE AppendRecord
  <2>1. commit.seqs \in Records
    BY <1>4 DEF AppendRecord, CommitTypes, Records
  <2>2. logs' = [logs EXCEPT ![db.logfile] = AddRecord(logs[db.logfile], commit.seqs)]
    BY <1>4 DEF AppendRecord
  <2>3. \A n \in DOMAIN logs : logs[n] \in LogFiles /\ logs[n].synced <= Len(logs[n].records)
    BY DEF LogTypes
  <2> QED BY <2>1, <2>2, <2>3, AddedRecord DEF LogTypes
<1>5. CASE SyncLog
  BY <1>5, SyncedFile DEF SyncLog, LogTypes
<1>6. CASE AppendFails
  BY <1>6, OptionsAssumption DEF AppendFails, OptionTypes, LogTypes
<1>7. CASE FlushInstall
  BY <1>7 DEF FlushInstall, DeleteObsoleteFiles, Restrict, LogTypes
<1>8. CASE CompactionInstall
  BY <1>8 DEF CompactionInstall, DeleteObsoleteFiles, Restrict, LogTypes
<1>9. ASSUME NEW machine \in BOOLEAN, Stop(machine) PROVE LogTypes'
  <2> DEFINE left(n) == IF (commit # None /\ commit.stage = "append" /\ options.tornOnStop)
    /\ n = db.logfile
                         THEN Append(logs[n].records, Torn) ELSE logs[n].records
  <2>1. PICK lost \in SUBSET (DOMAIN logs) :
          logs' = [n \in DOMAIN logs |->
                     IF n \in lost THEN Truncated(logs[n], logs[n].synced)
                     ELSE [records |-> left(n),
                           synced |-> IF machine THEN Len(left(n)) ELSE logs[n].synced]]
    BY <1>9 DEF Stop
  <2>2. ASSUME NEW n \in DOMAIN logs
        PROVE /\ Truncated(logs[n], logs[n].synced) \in LogFiles
              /\ Truncated(logs[n], logs[n].synced).synced <= Len(Truncated(logs[n], logs[n].synced).records)
    <3>1. logs[n] \in LogFiles /\ logs[n].synced <= Len(logs[n].records)
      BY DEF LogTypes
    <3>2. logs[n].records \in Seq(Records) /\ logs[n].synced \in Nat
      BY <3>1 DEF LogFiles
    <3>3. SubSeq(logs[n].records, 1, logs[n].synced) \in Seq(Records)
            /\ Len(SubSeq(logs[n].records, 1, logs[n].synced)) = logs[n].synced
      BY <3>1, <3>2, PrefixType
    <3> QED BY <3>2, <3>3 DEF Truncated, LogFiles
  <2>3. ASSUME NEW n \in DOMAIN logs
        PROVE left(n) \in Seq(Records) /\ logs[n].synced \in Nat
                /\ logs[n].synced <= Len(left(n))
                /\ Len(left(n)) \in Nat
    <3>1. logs[n] \in LogFiles /\ logs[n].synced <= Len(logs[n].records)
      BY DEF LogTypes
    <3>2. logs[n].records \in Seq(Records) /\ logs[n].synced \in Nat /\ Torn \in Records
      BY <3>1 DEF LogFiles, Records
    <3> QED BY <3>1, <3>2
  <2> HIDE DEF left
  <2>4. ASSUME NEW n \in DOMAIN logs
        PROVE logs'[n] \in LogFiles /\ logs'[n].synced <= Len(logs'[n].records)
    <3>1. CASE n \in lost
      BY <2>1, <2>2, <3>1
    <3>2. CASE n \notin lost
      BY <2>1, <2>3, <3>2 DEF LogFiles
    <3> QED BY <3>1, <3>2
  <2> QED BY <2>1, <2>4 DEF LogTypes
<1>10. CASE UNCHANGED <<logs>>
  BY <1>10 DEF LogTypes
<1>11. CASE Opening
  BY <1>11, <1>1, <1>2, <1>10 DEF Opening, NewDB, RecoverManifest, RecoverLogFile,
     OpenManifest, SetCurrentFile, disk, history, idle, memory
<1>12. ASSUME NEW w \in Writers, Writing(w) PROVE LogTypes'
  BY <1>12, <1>3, <1>10 DEF Writing, WriteRefused, WaitForRoom, SwitchFails,
     NothingToWrite, BeginCommit, disk, history, idle, memory
<1>13. CASE Committing
  BY <1>13, <1>4, <1>5, <1>6, <1>10 DEF Committing, FinishCommit, SyncFails, disk,
     history, idle, memory
<1>14. CASE Background
  BY <1>14, <1>7, <1>8, <1>10 DEF Background, NothingToDo, BeginFlush, FlushBuilt,
     BuildFails, FlushApply, FlushApplyFails, BeginCompaction, OpenOutput,
     OutputBuilt, CompactionApply, CompactionFails, AppendEdit, FlushFailed,
     WriteEdit, disk, history, idle, memory
<1> QED BY <1>11, <1>12, <1>13, <1>14, <1>9, <1>10 DEF StoreNext, OpenFails, CallWrite,
   NewIterator, ReleaseIterator, Close, Closing, Forget, storeVars, disk, memory,
   history

\* Tables keep their type.
LEMMA TableTypesKept ==
  ASSUME TableTypes, DbTypes, FlushTypes, WriteTypes, WorkTypes, LogTypes,
           OpeningTypes, Phases, Bounded, Recovery, Versions, WorkGood,
           [StoreNext]_storeVars
  PROVE TableTypes'
<1>1. CASE RecoverLogFile
  <2>1. PICK made \in SUBSET Nat :
          /\ tables' = [n \in DOMAIN tables \cup made |-> tables'[n]]
          /\ \A n \in made : tables'[n] \in SUBSET Nat
          /\ \A n \in DOMAIN tables \ made : tables'[n] = tables[n]
    BY <1>1, LogRecovered
  <2> QED BY <2>1 DEF TableTypes
<1>2. CASE Opened
  BY <1>2 DEF Opened, DeleteObsoleteFiles, Restrict, TableTypes
<1>3. CASE BeginFlush
  BY <1>3 DEF BeginFlush, Put, DbTypes, TableTypes
<1>4. CASE FlushBuilt
  BY <1>4 DEF FlushBuilt, ImmWrites, WriteTypes, TableTypes
<1>5. CASE BuildFails
  BY <1>5 DEF BuildFails, Restrict, TableTypes
<1>6. CASE FlushInstall
  BY <1>6 DEF FlushInstall, DeleteObsoleteFiles, Restrict, TableTypes
<1>7. CASE OpenOutput
  BY <1>7 DEF OpenOutput, Put, DbTypes, TableTypes
<1>8. CASE OutputBuilt
  <2>1. work # None /\ work.stage = "merge"
    BY <1>8 DEF OutputBuilt, Merging
  <2>2. Entries(tables, work.inputs) \in SUBSET Nat
    BY DEF Entries, TableTypes
  <2>3. tables' = [tables EXCEPT ![work.number] = Entries(tables, work.inputs)]
    BY <1>8, <2>1, InputsExist DEF OutputBuilt
  <2> QED BY <2>2, <2>3 DEF TableTypes
<1>9. CASE CompactionInstall
  BY <1>9 DEF CompactionInstall, DeleteObsoleteFiles, Restrict, TableTypes
<1>10. CASE UNCHANGED <<tables>>
  BY <1>10 DEF TableTypes
<1>11. CASE Opening
  BY <1>11, <1>1, <1>2, <1>10 DEF Opening, NewDB, RecoverManifest, OpenNewLog,
     OpenManifest, SetCurrentFile, disk, history, idle, memory
<1>12. ASSUME NEW w \in Writers, Writing(w) PROVE TableTypes'
  BY <1>12, <1>10 DEF Writing, WriteRefused, WaitForRoom, SwitchMemtable,
     SwitchFails, NothingToWrite, BeginCommit, disk, history, idle, memory
<1>13. CASE Committing
  BY <1>13, <1>10 DEF Committing, AppendRecord, SyncLog, FinishCommit, AppendFails,
     SyncFails, AddRecord, Sync, disk, history, idle, memory
<1>14. CASE Background
  BY <1>14, <1>3, <1>4, <1>5, <1>6, <1>7, <1>8, <1>9, <1>10 DEF Background,
     NothingToDo, FlushApply, FlushApplyFails, BeginCompaction, CompactionApply,
     CompactionFails, AppendEdit, FlushFailed, WriteEdit, disk, history, idle, memory
<1> QED BY <1>11, <1>12, <1>13, <1>14, <1>10 DEF StoreNext, OpenFails, CallWrite,
   NewIterator, ReleaseIterator, Close, Closing, Stop, Forget, storeVars, disk,
   memory, history

\* But for the time before it is named, CURRENT names the MANIFEST in use.
LEMMA CurrentIsUsed ==
  ASSUME DbTypes, ManifestTypes, Manifest, phase \in {"ready", "open", "closing"}
  PROVE CURRENT = db.manifest /\ CURRENT \in DOMAIN manifests /\ CURRENT \in Nat
BY DEF ManifestTypes, Manifest, Using, DbTypes

\* DB::Open reads the MANIFEST that CURRENT names.
LEMMA CurrentIsRead ==
  ASSUME ManifestTypes, Recovery, phase \in Recovering
  PROVE CURRENT \in DOMAIN manifests /\ CURRENT \in Nat
BY DEF ManifestTypes, Recovery

\* Only an open database has writers and a background thread at work.
LEMMA InBackground ==
  ASSUME Phases
  PROVE /\ flush # None => phase \in {"open", "closing"}
        /\ work # None => phase \in {"open", "closing"}
        /\ commit # None => phase = "open"
        /\ opening # None <=> phase \in Recovering \cup {"current", "ready"}
BY DEF Phases, Recovering, Using

\* A MANIFEST that is written anew keeps the types.
LEMMA ManifestPut ==
  ASSUME ManifestTypes, NEW n \in Nat, NEW edits \in Seq(Edits), NEW k \in Nat, k <= Len(edits),
         manifests' = Put(manifests, n, [edits |-> edits, synced |-> k]),
         CURRENT' \in DOMAIN manifests \cup {n, None}
  PROVE ManifestTypes'
<1> DEFINE file == [edits |-> edits, synced |-> k]
<1>1. file \in ManifestFiles /\ file.synced <= Len(file.edits)
  BY DEF ManifestFiles
<1> HIDE DEF file
<1>2. manifests' = [m \in DOMAIN manifests \cup {n} |-> IF m = n THEN file ELSE manifests[m]]
  BY DEF Put, file
<1>3. \A m \in DOMAIN manifests' :
        manifests'[m] \in ManifestFiles /\ manifests'[m].synced <= Len(manifests'[m].edits)
  BY <1>1, <1>2 DEF ManifestTypes
<1>4. DOMAIN manifests' \subseteq Nat /\ CURRENT' \in DOMAIN manifests' \cup {None}
  BY <1>2 DEF ManifestTypes
<1> QED BY <1>2, <1>3, <1>4 DEF ManifestTypes

\* MANIFESTs that are collected leave those of the others.
LEMMA ManifestRestricted ==
  ASSUME ManifestTypes, NEW S, manifests' = Restrict(manifests, S),
         S \subseteq DOMAIN manifests,
         CURRENT' = CURRENT, CURRENT = None \/ CURRENT \in S
  PROVE ManifestTypes'
BY DEF Restrict, ManifestTypes

\* An edit appended to the MANIFEST in use keeps the types, synced or not.
LEMMA EditAppended ==
  ASSUME ManifestTypes, CURRENT \in DOMAIN manifests, NEW e \in Edits, NEW k \in Nat,
         k <= Len(manifests[CURRENT].edits) + 1,
         manifests' = [manifests EXCEPT ![CURRENT] = [edits |-> Append(@.edits, e), synced |-> k]],
         CURRENT' = CURRENT
  PROVE ManifestTypes'
<1> DEFINE edits == manifests[CURRENT].edits
           more == Append(edits, e)
<1>1. edits \in Seq(Edits) /\ CURRENT \in Nat
  BY DEF ManifestTypes, ManifestFiles
<1>2. more \in Seq(Edits) /\ k <= Len(more)
  BY <1>1
<1>3. manifests' = Put(manifests, CURRENT, [edits |-> more, synced |-> k])
  BY DEF Put, ManifestTypes
<1> HIDE DEF more, edits
<1> QED BY <1>1, <1>2, <1>3, ManifestPut

\* What a MANIFEST is.
LEMMA EditsHave ==
  ASSUME ManifestTypes, NEW n \in DOMAIN manifests
  PROVE /\ manifests[n].edits \in Seq(Edits) /\ manifests[n].synced \in Nat
        /\ manifests[n].synced <= Len(manifests[n].edits) /\ Len(manifests[n].edits) \in Nat
BY DEF ManifestTypes, ManifestFiles

\* The edits of the background thread are edits.
LEMMA FullIsEdit == FullEdits \subseteq Edits
BY DEF FullEdits, Edits, Numbers

\* MANIFESTs keep their type, and CURRENT names one of them.
LEMMA ManifestTypesKept ==
  ASSUME ManifestTypes, DbTypes, FlushTypes, WorkTypes, OpeningTypes, Phases,
           Recovery, Manifest, [StoreNext]_storeVars
  PROVE ManifestTypes'
<1>1. CASE NewDB
  <2>1. Edit({}, {}, 0, 2, 0) \in Edits
    BY DEF Edit, Edits, Numbers
  <2>2. manifests' = Put(manifests, 1, [edits |-> <<Edit({}, {}, 0, 2, 0)>>, synced |-> 0])
          /\ CURRENT' = 1
    BY <1>1 DEF NewDB
  <2>3. <<Edit({}, {}, 0, 2, 0)>> \in Seq(Edits) /\ 0 <= Len(<<Edit({}, {}, 0, 2, 0)>>)
    BY <2>1
  <2> QED BY <2>2, <2>3, ManifestPut
<1>2. CASE OpenManifest
  <2> DEFINE edit == Edit(opening.added, {}, db.logfile, db.next, db.last)
             before == IF options.reuseLogs THEN AllEdits ELSE <<WriteSnapshot(db)>>
  <2>1. opening # None /\ phase \in Recovering
    BY <1>2, InBackground DEF OpenManifest, Recovering
  <2>2. CURRENT \in DOMAIN manifests
    BY <2>1, CurrentIsRead
  <2>3. edit \in Edits /\ WriteSnapshot(db) \in Edits
    BY <2>1 DEF Edit, Edits, WriteSnapshot, Numbers, DbTypes, OpeningTypes, Openings
  <2>4. before \in Seq(Edits)
    BY <2>2, <2>3, EditsHave DEF AllEdits
  <2>5. /\ manifests' = Put(manifests, db.manifest, [edits |-> Append(before, edit),
                                                      synced |-> Len(before) + 1])
        /\ CURRENT' = CURRENT /\ db.manifest \in Nat
    BY <1>2 DEF OpenManifest, DbTypes
  <2> HIDE DEF edit, before
  <2>6. Append(before, edit) \in Seq(Edits) /\ Len(before) + 1 <= Len(Append(before, edit))
          /\ Len(before) + 1 \in Nat
    BY <2>3, <2>4
  <2> QED BY <2>2, <2>5, <2>6, ManifestPut
<1>3. CASE SetCurrentFile
  BY <1>3 DEF SetCurrentFile, ManifestTypes, Manifest, Using
<1>4. CASE Opened
  <2>1. CURRENT = db.manifest /\ CURRENT \in DOMAIN manifests /\ CURRENT \in Nat
          /\ CURRENT' = CURRENT
    BY <1>4, CurrentIsUsed DEF Opened
  <2>2. CASE db.bgError
    BY <1>4, <2>1, <2>2 DEF Opened, DeleteObsoleteFiles, ManifestTypes
  <2>3. CASE ~db.bgError
    <3>1. manifests' = Restrict(manifests, {n \in DOMAIN manifests : n >= db.manifest})
      BY <1>4, <2>3 DEF Opened, DeleteObsoleteFiles
    <3> QED BY <2>1, <3>1, ManifestRestricted
  <2> QED BY <2>2, <2>3
<1>5. CASE FlushApply
  <2>1. CURRENT \in DOMAIN manifests /\ CURRENT' = CURRENT
    BY <1>5, CurrentIsUsed, InBackground DEF FlushApply
  <2>2. manifests' = [manifests EXCEPT ![CURRENT] =
                        [edits |-> Append(@.edits, flush.edit), synced |-> Len(manifests[CURRENT].edits) + 1]]
    BY <1>5 DEF FlushApply, WriteEdit
  <2>3. flush.edit \in Edits
    BY <1>5, FullIsEdit DEF FlushApply, FlushTypes
  <2>4. Len(manifests[CURRENT].edits) + 1 \in Nat
          /\ Len(manifests[CURRENT].edits) + 1 <= Len(manifests[CURRENT].edits) + 1
    BY <2>1, EditsHave
  <2> QED BY <2>1, <2>2, <2>3, <2>4, EditAppended
<1>6. CASE FlushApplyFails
  <2>1. CURRENT' = CURRENT
    BY <1>6 DEF FlushApplyFails, FlushFailed
  <2>2. CASE UNCHANGED manifests
    BY <2>1, <2>2 DEF ManifestTypes
  <2>3. CASE manifests' # manifests
    <3>1. flush # None /\ flush.stage = "apply" /\ AppendEdit(flush.edit)
      BY <1>6, <2>3 DEF FlushApplyFails
    <3>2. CURRENT \in DOMAIN manifests
      BY <3>1, CurrentIsUsed, InBackground
    <3>3. manifests' = [manifests EXCEPT ![CURRENT] =
                         [edits |-> Append(@.edits, flush.edit), synced |-> manifests[CURRENT].synced]]
      BY <3>1 DEF AppendEdit
    <3>4. flush.edit \in Edits
      BY <3>1, FullIsEdit DEF FlushTypes
    <3>5. manifests[CURRENT].synced \in Nat
            /\ manifests[CURRENT].synced <= Len(manifests[CURRENT].edits) + 1
      BY <3>2, EditsHave
    <3> QED BY <2>1, <3>2, <3>3, <3>4, <3>5, EditAppended
  <2> QED BY <2>2, <2>3
<1>7. CASE FlushInstall
  <2>1. CURRENT = db.manifest /\ CURRENT \in DOMAIN manifests /\ CURRENT \in Nat
    BY <1>7, CurrentIsUsed, InBackground DEF FlushInstall
  <2>2. db'.manifest = db.manifest /\ CURRENT' = CURRENT
    BY <1>7 DEF FlushInstall, DbTypes
  <2>3. CASE db'.bgError
    BY <1>7, <2>2, <2>3 DEF FlushInstall, DeleteObsoleteFiles, ManifestTypes
  <2>4. CASE ~db'.bgError
    <3>1. manifests' = Restrict(manifests, {n \in DOMAIN manifests : n >= db'.manifest})
      BY <1>7, <2>4 DEF FlushInstall, DeleteObsoleteFiles
    <3> QED BY <2>1, <2>2, <3>1, ManifestRestricted
  <2> QED BY <2>3, <2>4
<1>8. CASE CompactionApply
  <2>1. CURRENT \in DOMAIN manifests /\ CURRENT' = CURRENT
    BY <1>8, CurrentIsUsed, InBackground DEF CompactionApply
  <2>2. manifests' = [manifests EXCEPT ![CURRENT] =
                        [edits |-> Append(@.edits, work.edit), synced |-> Len(manifests[CURRENT].edits) + 1]]
    BY <1>8 DEF CompactionApply, WriteEdit
  <2>3. work.edit \in Edits
    BY <1>8, FullIsEdit DEF CompactionApply, WorkTypes
  <2>4. Len(manifests[CURRENT].edits) + 1 \in Nat
          /\ Len(manifests[CURRENT].edits) + 1 <= Len(manifests[CURRENT].edits) + 1
    BY <2>1, EditsHave
  <2> QED BY <2>1, <2>2, <2>3, <2>4, EditAppended
<1>9. CASE CompactionInstall
  <2>1. CURRENT = db.manifest /\ CURRENT \in DOMAIN manifests /\ CURRENT \in Nat
    BY <1>9, CurrentIsUsed, InBackground DEF CompactionInstall
  <2>2. db'.manifest = db.manifest /\ CURRENT' = CURRENT
    BY <1>9 DEF CompactionInstall, DbTypes
  <2>3. CASE db'.bgError
    BY <1>9, <2>2, <2>3 DEF CompactionInstall, DeleteObsoleteFiles, ManifestTypes
  <2>4. CASE ~db'.bgError
    <3>1. manifests' = Restrict(manifests, {n \in DOMAIN manifests : n >= db'.manifest})
      BY <1>9, <2>4 DEF CompactionInstall, DeleteObsoleteFiles
    <3> QED BY <2>1, <2>2, <3>1, ManifestRestricted
  <2> QED BY <2>3, <2>4
<1>10. CASE CompactionFails
  <2>1. CURRENT' = CURRENT
    BY <1>10 DEF CompactionFails, FlushFailed
  <2>2. CASE UNCHANGED manifests
    BY <2>1, <2>2 DEF ManifestTypes
  <2>3. CASE manifests' # manifests
    <3>1. work # None /\ work.stage = "apply" /\ AppendEdit(work.edit)
      BY <1>10, <2>3 DEF CompactionFails
    <3>2. CURRENT \in DOMAIN manifests
      BY <3>1, CurrentIsUsed, InBackground
    <3>3. manifests' = [manifests EXCEPT ![CURRENT] =
                         [edits |-> Append(@.edits, work.edit), synced |-> manifests[CURRENT].synced]]
      BY <3>1 DEF AppendEdit
    <3>4. work.edit \in Edits
      BY <3>1, FullIsEdit DEF WorkTypes
    <3>5. manifests[CURRENT].synced \in Nat
            /\ manifests[CURRENT].synced <= Len(manifests[CURRENT].edits) + 1
      BY <3>2, EditsHave
    <3> QED BY <2>1, <3>2, <3>3, <3>4, <3>5, EditAppended
  <2> QED BY <2>2, <2>3
<1>11. CASE OpenFails
  <2>1. CURRENT' = CURRENT
    BY <1>11 DEF OpenFails
  <2>2. CASE phase = "current"
    <3>1. manifests' = Restrict(manifests, DOMAIN manifests \ {db.manifest})
            /\ CURRENT # db.manifest
      BY <1>11, <2>2 DEF OpenFails, Manifest, Using
    <3>2. CURRENT = None \/ CURRENT \in DOMAIN manifests \ {db.manifest}
      BY <3>1 DEF ManifestTypes
    <3> HIDE DEF ManifestTypes
    <3> QED BY <2>1, <3>1, <3>2, ManifestRestricted
  <2>3. CASE phase # "current"
    BY <1>11, <2>1, <2>3 DEF OpenFails, ManifestTypes
  <2> QED BY <2>2, <2>3
<1>12. ASSUME NEW machine \in BOOLEAN, Stop(machine) PROVE ManifestTypes'
  <2>1. PICK lost \in SUBSET (DOMAIN manifests) :
          manifests' = [n \in DOMAIN manifests |->
             [edits |-> IF n \in lost THEN SubSeq(manifests[n].edits, 1, manifests[n].synced)
                        ELSE manifests[n].edits,
              synced |-> IF ~machine \/ n \in lost THEN manifests[n].synced
                         ELSE Len(manifests[n].edits)]]
    BY <1>12 DEF Stop
  <2>2. ASSUME NEW n \in DOMAIN manifests
        PROVE manifests'[n] \in ManifestFiles
                /\ manifests'[n].synced <= Len(manifests'[n].edits)
    <3> DEFINE edits == manifests[n].edits
               k == manifests[n].synced
    <3>1. edits \in Seq(Edits) /\ k \in Nat /\ k <= Len(edits) /\ Len(edits) \in Nat
      BY DEF ManifestTypes, ManifestFiles
    <3>2. SubSeq(edits, 1, k) \in Seq(Edits) /\ Len(SubSeq(edits, 1, k)) = k
      BY <3>1, PrefixType
    <3> HIDE DEF edits, k
    <3>3. manifests'[n] = [edits |-> IF n \in lost THEN SubSeq(edits, 1, k) ELSE edits,
                           synced |-> IF ~machine \/ n \in lost THEN k ELSE Len(edits)]
      BY <2>1 DEF edits, k
    <3> QED BY <3>1, <3>2, <3>3 DEF ManifestFiles
  <2>3. CURRENT' = CURRENT
    BY <1>12 DEF Stop
  <2> QED BY <2>1, <2>2, <2>3 DEF ManifestTypes
<1>13. CASE UNCHANGED <<manifests, CURRENT>>
  BY <1>13 DEF ManifestTypes
<1>14. CASE Opening
  BY <1>14, <1>1, <1>2, <1>3, <1>4, <1>13 DEF Opening, RecoverManifest,
     RecoverLogFile, OpenNewLog, disk, history, idle, memory
<1>15. ASSUME NEW w \in Writers, Writing(w) PROVE ManifestTypes'
  BY <1>15, <1>13 DEF Writing, WriteRefused, WaitForRoom, SwitchMemtable,
     SwitchFails, NothingToWrite, BeginCommit, disk, history, idle, memory
<1>16. CASE Committing
  BY <1>16, <1>13 DEF Committing, AppendRecord, SyncLog, FinishCommit, AppendFails,
     SyncFails, AddRecord, Sync, disk, history, idle, memory
<1>17. CASE Background
  BY <1>17, <1>5, <1>6, <1>7, <1>8, <1>9, <1>10, <1>13 DEF Background, NothingToDo,
     BeginFlush, FlushBuilt, BuildFails, BeginCompaction, OpenOutput, OutputBuilt,
     FlushFailed, disk, history, idle, memory
<1> QED BY <1>14, <1>15, <1>16, <1>17, <1>11, <1>12, <1>13 DEF StoreNext, CallWrite,
   NewIterator, ReleaseIterator, Close, Closing, Forget, storeVars, disk, memory,
   history

\* What the options may say.
LEMMA OptionValues ==
  ASSUME OptionTypes
  PROVE /\ options.reuseLogs \in BOOLEAN /\ options.tornOnStop \in BOOLEAN
        /\ options.tornOnError \in BOOLEAN /\ options.machine \in BOOLEAN
        /\ ~options.tornOnError /\ (options.reuseLogs
          => ~options.tornOnStop /\ ~options.machine)
BY OptionsAssumption DEF OptionTypes

\* The MANIFEST that an open reads gives it all its numbers.
LEMMA RecoveredNumbers ==
  ASSUME ManifestTypes, Closedness, Phases, RecoverManifest
  PROVE /\ NextOf(AllEdits) \in Nat /\ LogOf(AllEdits) \in Nat /\ LastOf(AllEdits) \in Nat
        /\ FilesOf(AllEdits) \in SUBSET Nat /\ CURRENT \in Nat /\ CURRENT \in DOMAIN manifests
        /\ Sound(AllEdits, CURRENT) /\ AllEdits \in Seq(Edits)
<1>1. phase = "closed" /\ CURRENT # None /\ Complete(AllEdits)
  BY DEF RecoverManifest
<1>2. AllEdits \in Readings(CURRENT)
  BY DEF Readings, AllEdits
<1>3. Sound(AllEdits, CURRENT)
  BY <1>1, <1>2 DEF Closedness, Reopenable
<1>4. CURRENT \in DOMAIN manifests /\ CURRENT \in Nat
  BY <1>1 DEF ManifestTypes
<1>5. AllEdits \in Seq(Edits)
  BY <1>4, EditsHave DEF AllEdits
<1>6. FilesOf(AllEdits) \in SUBSET Nat
  BY <1>5, GivenTypes
<1> QED BY <1>3, <1>4, <1>5, <1>6 DEF Sound

\* What RecoverManifest makes of them, field by field.
LEMMA DbRecovered ==
  ASSUME RecoverManifest
  PROVE db' = [bgError |-> FALSE, files |-> FilesOf(AllEdits), pending |-> {},
               next |-> NextOf(AllEdits) + 1, last |-> LastOf(AllEdits),
               logNumber |-> LogOf(AllEdits), logfile |-> 0,
               manifest |-> IF options.reuseLogs THEN CURRENT ELSE NextOf(AllEdits)]
BY DEF RecoverManifest, Closed

\* Numbers stay numbers: an open finds all of them in the MANIFEST.
LEMMA DbTypesKept ==
  ASSUME DbTypes, ManifestTypes, LogTypes, TableTypes, OpeningTypes, FlushTypes,
           WorkTypes, CommitTypes, Phases, Bounded, Recovery, Closedness, CommitGood,
           [StoreNext]_storeVars
  PROVE DbTypes'
<1>1. CASE RecoverManifest
  <2>1. NextOf(AllEdits) + 1 \in Nat
          /\ (IF options.reuseLogs THEN CURRENT ELSE NextOf(AllEdits)) \in Nat
    BY <1>1, RecoveredNumbers
  <2>2. PICK n \in Nat, m \in Nat : n = NextOf(AllEdits) + 1
                             /\ m = (IF options.reuseLogs THEN CURRENT ELSE NextOf(AllEdits))
    BY <2>1
  <2>3. db' = [bgError |-> FALSE, files |-> FilesOf(AllEdits), pending |-> {}, next |-> n,
               last |-> LastOf(AllEdits), logNumber |-> LogOf(AllEdits), logfile |-> 0,
               manifest |-> m]
    BY <1>1, <2>2, DbRecovered
  <2>4. FilesOf(AllEdits) \in SUBSET Nat /\ LastOf(AllEdits) \in Nat /\ LogOf(AllEdits) \in Nat
    BY <1>1, RecoveredNumbers
  <2> QED BY <2>3, <2>4 DEF DbTypes
<1>2. CASE RecoverLogFile
  <2>1. PICK number \in opening.todo, reused \in BOOLEAN :
          /\ db'.next \in Nat /\ db'.last \in Nat
          /\ db' = [db EXCEPT !.next = db'.next, !.last = db'.last,
                              !.logfile = IF reused THEN number ELSE @]
    BY <1>2, LogRecovered
  <2>2. number \in Nat
    BY <1>2, InBackground DEF RecoverLogFile, OpeningTypes, Openings, Recovering
  <2> QED BY <2>1, <2>2 DEF DbTypes
<1>3. CASE OpenNewLog
  <2>1. db.next \in Nat /\ db.next + 1 \in Nat
    BY DEF DbTypes
  <2>2. PICK n \in Nat : n = db.next + 1
    BY <2>1
  <2> QED BY <1>3, <2>1, <2>2 DEF OpenNewLog, DbTypes
<1>4. CASE OpenManifest
  <2>1. opening.added \in SUBSET Nat
    BY <1>4, InBackground DEF OpenManifest, OpeningTypes, Openings, Recovering
  <2> QED BY <1>4, <2>1 DEF OpenManifest, DbTypes
<1>5. ASSUME NEW w \in Writers, SwitchMemtable(w) PROVE DbTypes'
  <2>1. db.next \in Nat /\ db.next + 1 \in Nat
    BY DEF DbTypes
  <2>2. PICK n \in Nat : n = db.next + 1
    BY <2>1
  <2> QED BY <1>5, <2>1, <2>2 DEF SwitchMemtable, DbTypes
<1>6. CASE FinishCommit
  BY <1>6, CommitFinished DEF DbTypes
<1>7. CASE BeginFlush
  <2>1. db.next \in Nat /\ db.next + 1 \in Nat
    BY DEF DbTypes
  <2>2. PICK n \in Nat : n = db.next + 1
    BY <2>1
  <2> QED BY <1>7, <2>1, <2>2 DEF BeginFlush, DbTypes
<1>8. CASE FlushBuilt
  BY <1>8 DEF FlushBuilt, DbTypes
<1>9. CASE BuildFails
  BY <1>9 DEF BuildFails, FlushFailed, DbTypes
<1>10. CASE FlushApplyFails
  BY <1>10 DEF FlushApplyFails, FlushFailed, AppendEdit, DbTypes
<1>11. CASE FlushInstall
  BY <1>11 DEF FlushInstall, DbTypes, FlushTypes, FullEdits
<1>12. CASE OpenOutput
  <2>1. db.next \in Nat /\ db.next + 1 \in Nat
    BY DEF DbTypes
  <2>2. PICK n \in Nat : n = db.next + 1
    BY <2>1
  <2> QED BY <1>12, <2>1, <2>2 DEF OpenOutput, DbTypes
<1>13. CASE CompactionInstall
  BY <1>13 DEF CompactionInstall, DbTypes, WorkTypes, FullEdits
<1>14. CASE CompactionFails
  BY <1>14 DEF CompactionFails, AppendEdit, DbTypes
<1>15. CASE OpenFails
  BY <1>15 DEF OpenFails, Forget, Closed, DbTypes
<1>16. CASE Closing
  BY <1>16 DEF Closing, Forget, Closed, DbTypes
<1>17. ASSUME NEW machine \in BOOLEAN, Stop(machine) PROVE DbTypes'
  BY <1>17 DEF Stop, Forget, Closed, DbTypes
<1>18. CASE UNCHANGED <<db>>
  BY <1>18 DEF DbTypes
<1>19. CASE Opening
  BY <1>19, <1>1, <1>2, <1>3, <1>4, <1>18 DEF Opening, NewDB, SetCurrentFile, Opened,
     DeleteObsoleteFiles, disk, history, idle, memory
<1>20. ASSUME NEW w \in Writers, Writing(w) PROVE DbTypes'
  BY <1>20, <1>5, <1>18 DEF Writing, WriteRefused, WaitForRoom, SwitchFails,
     NothingToWrite, BeginCommit, disk, history, idle, memory
<1>21. CASE Committing
  BY <1>21, <1>6, <1>18 DEF Committing, AppendRecord, SyncLog, AppendFails,
     SyncFails, AddRecord, Sync, disk, history, idle, memory
<1>22. CASE Background
  BY <1>22, <1>7, <1>8, <1>9, <1>10, <1>11, <1>12, <1>13, <1>14, <1>18 DEF
     Background, NothingToDo, FlushApply, BeginCompaction, OutputBuilt,
     CompactionApply, WriteEdit, disk, history, idle, memory
<1> QED BY <1>19, <1>20, <1>21, <1>22, <1>15, <1>16, <1>17, <1>18 DEF StoreNext, CallWrite,
   NewIterator, ReleaseIterator, Close, storeVars, disk, memory, history

\* Writes are numbers, and those that were to be synced are among those that returned.
LEMMA WriteTypesKept ==
  ASSUME WriteTypes, LogTypes, TableTypes, OpeningTypes, CommitTypes, DbTypes,
           Phases, Bounded, Recovery, CommitGood, [StoreNext]_storeVars
  PROVE WriteTypes'
<1>1. CASE RecoverLogFile
  <2>1. PICK number \in opening.todo : mem' \in {mem, Writes(logs[number].records)}
    BY <1>1, LogRecovered
  <2>2. number \in DOMAIN logs
    BY <1>1, InBackground DEF RecoverLogFile, Recovery, Recovering
  <2>3. logs[number].records \in Seq(Records)
    BY <2>2 DEF LogTypes, LogFiles
  <2>4. mem' \in SUBSET Nat
    BY <2>1, <2>3, WritesTypes DEF WriteTypes
  <2> QED BY <1>1, <2>4 DEF RecoverLogFile, WriteTypes, idle, history
<1>2. ASSUME NEW w \in Writers, SwitchMemtable(w) PROVE WriteTypes'
  <2>1. {mem} \in SUBSET SUBSET Nat
    BY DEF WriteTypes
  <2> QED BY <1>2, <2>1 DEF SwitchMemtable, WriteTypes, history
<1>3. CASE FinishCommit
  BY <1>3 DEF FinishCommit, WriteTypes, CommitTypes, CommitGood
<1>4. CASE FlushInstall
  <2>1. {} \in SUBSET SUBSET Nat
    OBVIOUS
  <2> QED BY <1>4, <2>1 DEF FlushInstall, WriteTypes, history
<1>5. CASE OpenFails
  BY <1>5 DEF OpenFails, Forget, WriteTypes
<1>6. CASE Closing
  BY <1>6 DEF Closing, Forget, WriteTypes, history
<1>7. ASSUME NEW machine \in BOOLEAN, Stop(machine) PROVE WriteTypes'
  BY <1>7 DEF Stop, Forget, WriteTypes
<1>8. CASE UNCHANGED <<mem, imm, acked, synced>>
  BY <1>8 DEF WriteTypes
<1>9. CASE Opening
  BY <1>9, <1>1, <1>8 DEF Opening, NewDB, RecoverManifest, OpenNewLog, OpenManifest,
     SetCurrentFile, Opened, DeleteObsoleteFiles, disk, history, idle, memory
<1>10. ASSUME NEW w \in Writers, Writing(w) PROVE WriteTypes'
  BY <1>10, <1>2, <1>8 DEF Writing, WriteRefused, WaitForRoom, SwitchFails,
     NothingToWrite, BeginCommit, disk, history, idle, memory
<1>11. CASE Committing
  BY <1>11, <1>3, <1>8 DEF Committing, AppendRecord, SyncLog, AppendFails, SyncFails,
     AddRecord, Sync, disk, history, idle, memory
<1>12. CASE Background
  BY <1>12, <1>4, <1>8 DEF Background, NothingToDo, BeginFlush, FlushBuilt,
     BuildFails, FlushApply, FlushApplyFails, BeginCompaction, OpenOutput,
     OutputBuilt, CompactionApply, CompactionInstall, CompactionFails, AppendEdit,
     DeleteObsoleteFiles, Ended, FlushFailed, WriteEdit, disk, history, idle, memory
<1> QED BY <1>9, <1>10, <1>11, <1>12, <1>5, <1>6, <1>7, <1>8 DEF StoreNext, CallWrite,
   NewIterator, ReleaseIterator, Close, storeVars, disk, memory, history

\* RecoverManifest begins the record of an open.
LEMMA OpeningBegun ==
  ASSUME OptionTypes, LogTypes, RecoverManifest
  PROVE opening' \in Openings /\ opening' # None
<1>1. {n \in DOMAIN logs : n >= LogOf(AllEdits)} \in SUBSET Nat
  BY DEF LogTypes
<1>2. (~options.reuseLogs) \in BOOLEAN
  <2>1. options.reuseLogs \in BOOLEAN
    BY OptionValues
  <2> QED BY <2>1
<1>3. opening' \in Openings
  BY <1>1, <1>2 DEF RecoverManifest, Openings
<1> QED BY <1>3, StoreAssumption

\* RecoverLogFile goes on with it.
LEMMA OpeningGoesOn ==
  ASSUME OpeningTypes, LogTypes, TableTypes, DbTypes, Phases, Bounded, Recovery, RecoverLogFile
  PROVE opening' \in Openings /\ opening' # None
<1>1. PICK number \in opening.todo, made \in SUBSET Nat :
        opening' = [todo |-> opening.todo \ {number}, added |-> opening.added \cup made,
                    save |-> opening.save \/ made # {}]
  BY LogRecovered
<1>2. opening # None
  BY InBackground DEF RecoverLogFile, Recovering
<1>3. opening.todo \in SUBSET Nat /\ opening.added \in SUBSET Nat
  BY <1>2 DEF OpeningTypes, Openings
<1>4. opening' \in Openings
  BY <1>1, <1>3 DEF Openings
<1> QED BY <1>4, StoreAssumption

\* The record of an open keeps its type.
LEMMA OpeningTypesKept ==
  ASSUME OpeningTypes, OptionTypes, LogTypes, TableTypes, DbTypes, Phases, Bounded,
           Recovery, [StoreNext]_storeVars
  PROVE OpeningTypes'
<1>1. CASE RecoverManifest
  BY <1>1, OpeningBegun DEF OpeningTypes
<1>2. CASE RecoverLogFile
  BY <1>2, OpeningGoesOn DEF OpeningTypes
<1>3. CASE Opened
  BY <1>3 DEF Opened, DeleteObsoleteFiles, OpeningTypes
<1>4. CASE OpenFails
  BY <1>4 DEF OpenFails, Forget, OpeningTypes
<1>5. CASE Closing
  BY <1>5 DEF Closing, Forget, OpeningTypes
<1>6. ASSUME NEW machine \in BOOLEAN, Stop(machine) PROVE OpeningTypes'
  BY <1>6 DEF Stop, Forget, OpeningTypes
<1>7. CASE UNCHANGED <<opening>>
  BY <1>7 DEF OpeningTypes
<1>8. CASE Opening
  BY <1>8, <1>1, <1>2, <1>3, <1>7 DEF Opening, NewDB, OpenNewLog, OpenManifest,
     SetCurrentFile, disk, history, idle, memory
<1>9. ASSUME NEW w \in Writers, Writing(w) PROVE OpeningTypes'
  BY <1>9, <1>7 DEF Writing, WriteRefused, WaitForRoom, SwitchMemtable, SwitchFails,
     NothingToWrite, BeginCommit, disk, history, idle, memory
<1>10. CASE Committing
  BY <1>10, <1>7 DEF Committing, AppendRecord, SyncLog, FinishCommit, AppendFails,
     SyncFails, AddRecord, Sync, disk, history, idle, memory
<1>11. CASE Background
  BY <1>11, <1>7 DEF Background, NothingToDo, BeginFlush, FlushBuilt, BuildFails,
     FlushApply, FlushApplyFails, FlushInstall, BeginCompaction, OpenOutput,
     OutputBuilt, CompactionApply, CompactionInstall, CompactionFails, AppendEdit,
     DeleteObsoleteFiles, Ended, FlushFailed, WriteEdit, disk, history, idle, memory
<1> QED BY <1>8, <1>9, <1>10, <1>11, <1>4, <1>5, <1>6, <1>7 DEF StoreNext, CallWrite,
   NewIterator, ReleaseIterator, Close, storeVars, disk, memory, history

\* The group being committed keeps its type.
LEMMA CommitTypesKept ==
  ASSUME CommitTypes, QueueTypes, Queue, DbTypes, [StoreNext]_storeVars
  PROVE CommitTypes'
<1>1. ASSUME NEW w \in Writers, BeginCommit(w) PROVE CommitTypes'
  BY <1>1, CommitBegun DEF CommitTypes
<1>2. CASE AppendRecord
  BY <1>2 DEF AppendRecord, AddRecord, CommitTypes
<1>3. CASE SyncLog
  BY <1>3 DEF SyncLog, Sync, CommitTypes
<1>4. CASE FinishCommit
  BY <1>4 DEF FinishCommit, CommitTypes
<1>5. CASE AppendFails
  BY <1>5 DEF AppendFails, CommitTypes
<1>6. CASE SyncFails
  BY <1>6 DEF SyncFails, CommitTypes
<1>7. CASE OpenFails
  BY <1>7 DEF OpenFails, Forget, CommitTypes
<1>8. CASE Closing
  BY <1>8 DEF Closing, Forget, CommitTypes
<1>9. ASSUME NEW machine \in BOOLEAN, Stop(machine) PROVE CommitTypes'
  BY <1>9 DEF Stop, Forget, CommitTypes
<1>10. CASE UNCHANGED <<commit>>
  BY <1>10 DEF CommitTypes
<1>11. CASE Opening
  BY <1>11, <1>10 DEF Opening, NewDB, RecoverManifest, RecoverLogFile, OpenNewLog,
     OpenManifest, SetCurrentFile, Opened, DeleteObsoleteFiles, disk, history, idle,
     memory
<1>12. ASSUME NEW w \in Writers, Writing(w) PROVE CommitTypes'
  BY <1>12, <1>1, <1>10 DEF Writing, WriteRefused, WaitForRoom, SwitchMemtable,
     SwitchFails, NothingToWrite, disk, history, idle, memory
<1>13. CASE Committing
  BY <1>13, <1>2, <1>3, <1>4, <1>5, <1>6 DEF Committing
<1>14. CASE Background
  BY <1>14, <1>10 DEF Background, NothingToDo, BeginFlush, FlushBuilt, BuildFails,
     FlushApply, FlushApplyFails, FlushInstall, BeginCompaction, OpenOutput,
     OutputBuilt, CompactionApply, CompactionInstall, CompactionFails, AppendEdit,
     DeleteObsoleteFiles, Ended, FlushFailed, WriteEdit, disk, history, idle, memory
<1> QED BY <1>11, <1>12, <1>13, <1>14, <1>7, <1>8, <1>9, <1>10 DEF StoreNext, CallWrite,
   NewIterator, ReleaseIterator, Close, storeVars, disk, memory, history

\* The memtable compaction keeps its type.
LEMMA FlushTypesKept ==
  ASSUME FlushTypes, DbTypes, [StoreNext]_storeVars
  PROVE FlushTypes'
<1>1. CASE BeginFlush
  BY <1>1 DEF BeginFlush, FlushTypes, DbTypes
<1>2. CASE FlushBuilt
  <2>1. flush.number \in Nat
    BY <1>2 DEF FlushBuilt, FlushTypes
  <2> QED BY <1>2, <2>1 DEF FlushBuilt, FlushTypes, FullEdits, Edit, DbTypes
<1>3. CASE BuildFails
  BY <1>3 DEF BuildFails, FlushFailed, FlushTypes
<1>4. CASE FlushApply
  BY <1>4 DEF FlushApply, WriteEdit, FlushTypes
<1>5. CASE FlushApplyFails
  BY <1>5 DEF FlushApplyFails, FlushFailed, AppendEdit, FlushTypes
<1>6. CASE FlushInstall
  BY <1>6 DEF FlushInstall, DeleteObsoleteFiles, FlushTypes
<1>7. CASE OpenFails
  BY <1>7 DEF OpenFails, Forget, FlushTypes
<1>8. CASE Closing
  BY <1>8 DEF Closing, Forget, FlushTypes
<1>9. ASSUME NEW machine \in BOOLEAN, Stop(machine) PROVE FlushTypes'
  BY <1>9 DEF Stop, Forget, FlushTypes
<1>10. CASE UNCHANGED <<flush>>
  BY <1>10 DEF FlushTypes
<1>11. CASE Opening
  BY <1>11, <1>10 DEF Opening, NewDB, RecoverManifest, RecoverLogFile, OpenNewLog,
     OpenManifest, SetCurrentFile, Opened, DeleteObsoleteFiles, disk, history, idle,
     memory
<1>12. ASSUME NEW w \in Writers, Writing(w) PROVE FlushTypes'
  BY <1>12, <1>10 DEF Writing, WriteRefused, WaitForRoom, SwitchMemtable,
     SwitchFails, NothingToWrite, BeginCommit, disk, history, idle, memory
<1>13. CASE Committing
  BY <1>13, <1>10 DEF Committing, AppendRecord, SyncLog, FinishCommit, AppendFails,
     SyncFails, AddRecord, Sync, disk, history, idle, memory
<1>14. CASE Background
  BY <1>14, <1>1, <1>2, <1>3, <1>4, <1>5, <1>6, <1>10 DEF Background, NothingToDo,
     BeginCompaction, OpenOutput, OutputBuilt, CompactionApply, CompactionInstall,
     CompactionFails, AppendEdit, DeleteObsoleteFiles, Ended, WriteEdit, disk,
     history, idle, memory
<1> QED BY <1>11, <1>12, <1>13, <1>14, <1>7, <1>8, <1>9, <1>10 DEF StoreNext, CallWrite,
   NewIterator, ReleaseIterator, Close, storeVars, disk, memory, history

\* The table compaction keeps its type.
LEMMA WorkTypesKept ==
  ASSUME WorkTypes, DbTypes, [StoreNext]_storeVars
  PROVE WorkTypes'
<1>1. ASSUME NEW inputs \in SUBSET db.files, BeginCompaction(inputs) PROVE WorkTypes'
  BY <1>1 DEF BeginCompaction, WorkTypes, DbTypes, Numbers
<1>2. CASE OpenOutput
  BY <1>2 DEF OpenOutput, Merging, WorkTypes, DbTypes, Numbers
<1>3. CASE OutputBuilt
  <2>1. work.number \in Nat /\ work.inputs \in SUBSET Nat /\ work.base \in SUBSET Nat
    BY <1>3 DEF OutputBuilt, Merging, WorkTypes, Numbers
  <2> QED BY <1>3, <2>1 DEF OutputBuilt, WorkTypes, FullEdits, Edit, DbTypes
<1>4. CASE CompactionApply
  BY <1>4 DEF CompactionApply, WriteEdit, WorkTypes
<1>5. CASE CompactionInstall
  BY <1>5 DEF CompactionInstall, DeleteObsoleteFiles, Ended, WorkTypes
<1>6. CASE CompactionFails
  BY <1>6 DEF CompactionFails, AppendEdit, WorkTypes
<1>7. CASE OpenFails
  BY <1>7 DEF OpenFails, Forget, WorkTypes
<1>8. CASE Closing
  BY <1>8 DEF Closing, Forget, WorkTypes
<1>9. ASSUME NEW machine \in BOOLEAN, Stop(machine) PROVE WorkTypes'
  BY <1>9 DEF Stop, Forget, WorkTypes
<1>10. CASE UNCHANGED <<work>>
  BY <1>10 DEF WorkTypes
<1>11. CASE Opening
  BY <1>11, <1>10 DEF Opening, NewDB, RecoverManifest, RecoverLogFile, OpenNewLog,
     OpenManifest, SetCurrentFile, Opened, DeleteObsoleteFiles, disk, history, idle,
     memory
<1>12. ASSUME NEW w \in Writers, Writing(w) PROVE WorkTypes'
  BY <1>12, <1>10 DEF Writing, WriteRefused, WaitForRoom, SwitchMemtable,
     SwitchFails, NothingToWrite, BeginCommit, disk, history, idle, memory
<1>13. CASE Committing
  BY <1>13, <1>10 DEF Committing, AppendRecord, SyncLog, FinishCommit, AppendFails,
     SyncFails, AddRecord, Sync, disk, history, idle, memory
<1>14. CASE Background
  BY <1>14, <1>1, <1>2, <1>3, <1>4, <1>5, <1>6, <1>10 DEF Background, NothingToDo,
     BeginFlush, FlushBuilt, BuildFails, FlushApply, FlushApplyFails, FlushInstall,
     AppendEdit, DeleteObsoleteFiles, FlushFailed, WriteEdit, disk, history, idle,
     memory
<1> QED BY <1>11, <1>12, <1>13, <1>14, <1>7, <1>8, <1>9, <1>10 DEF StoreNext, CallWrite,
   NewIterator, ReleaseIterator, Close, storeVars, disk, memory, history

\* The rest of the queue, behind those that return.
LEMMA RestOfSeq ==
  ASSUME NEW S, NEW s \in Seq(S), NEW n \in Nat, n <= Len(s)
  PROVE LET rest == SubSeq(s, n + 1, Len(s))
        IN  /\ rest \in Seq(S) /\ Len(rest) = Len(s) - n /\ DOMAIN rest = 1 .. Len(s) - n
            /\ \A i \in DOMAIN rest : i + n \in DOMAIN s /\ rest[i] = s[i + n]
OBVIOUS

\* What Return leaves of the queue.
LEMMA Returned ==
  ASSUME QueueTypes, NEW n \in Nat, n <= Len(writers), NEW S, Return(n, S),
         \A i \in DOMAIN writers : op[writers[i]] # None,
         \A i, j \in DOMAIN writers : writers[i] = writers[j] => i = j
  PROVE /\ writers' \in Seq(Writers) /\ op' \in [Writers -> Calls \cup {None}]
        /\ \A i \in DOMAIN writers' : op'[writers'[i]] # None
        /\ \A i, j \in DOMAIN writers' : writers'[i] = writers'[j] => i = j
<1> DEFINE done == {writers[i] : i \in 1 .. n}
<1>1. writers \in Seq(Writers) /\ op \in [Writers -> Calls \cup {None}] /\ Len(writers) \in Nat
        /\ DOMAIN writers = 1 .. Len(writers)
  BY DEF QueueTypes
<1>2. writers' = SubSeq(writers, n + 1, Len(writers))
        /\ op' = [w \in Writers |-> IF w \in done THEN None ELSE op[w]]
  BY DEF Return
<1>3. /\ writers' \in Seq(Writers) /\ DOMAIN writers' = 1 .. Len(writers) - n
      /\ \A i \in DOMAIN writers' : i + n \in DOMAIN writers /\ writers'[i] = writers[i + n]
  BY <1>1, <1>2, RestOfSeq
<1>4. op' \in [Writers -> Calls \cup {None}]
  BY <1>1, <1>2
<1>5. ASSUME NEW i \in DOMAIN writers' PROVE writers'[i] \notin done /\ writers'[i] \in Writers
  <2>1. i \in Nat /\ i > 0 /\ i + n \in DOMAIN writers /\ writers'[i] = writers[i + n]
    BY <1>1, <1>3
  <2>2. \A j \in 1 .. n : j \in DOMAIN writers /\ j # i + n
    BY <1>1, <2>1
  <2>3. \A j \in 1 .. n : writers[j] # writers[i + n]
    BY <2>1, <2>2
  <2> QED BY <1>1, <2>1, <2>3
<1> HIDE DEF done
<1>6. \A i \in DOMAIN writers' : op'[writers'[i]] # None
  BY <1>2, <1>3, <1>5
<1>7. ASSUME NEW i \in DOMAIN writers', NEW j \in DOMAIN writers', writers'[i] = writers'[j]
      PROVE i = j
  <2>1. i + n = j + n
    BY <1>3, <1>7
  <2> QED BY <1>1, <1>3, <2>1
<1> QED BY <1>3, <1>4, <1>6, <1>7

\* A call is not None.
LEMMA CallsAreCalls ==
  ASSUME NEW b \in BOOLEAN, NEW s \in BOOLEAN, NEW f \in BOOLEAN
  PROVE /\ [batch |-> b, sync |-> s, force |-> f] \in Calls
        /\ [batch |-> b, sync |-> s, force |-> f] # None
BY StoreAssumption DEF Calls

\* The front writer is the first of the queue.
LEMMA HeadOfQueue ==
  ASSUME QueueTypes, writers # << >>
  PROVE /\ 1 \in DOMAIN writers /\ Head(writers) = writers[1] /\ Head(writers) \in Writers
        /\ 1 <= Len(writers) /\ Len(writers) \in Nat /\ DOMAIN writers = 1 .. Len(writers)
BY DEF QueueTypes

\* A writer that calls Write joins the queue once.
LEMMA QueueJoined ==
  ASSUME QueueTypes, Queue, NEW w \in Writers, NEW batch \in BOOLEAN, NEW sync \in BOOLEAN,
         CallWrite(w, batch, sync)
  PROVE /\ writers' \in Seq(Writers) /\ op' \in [Writers -> Calls \cup {None}]
        /\ \A i \in DOMAIN writers' : op'[writers'[i]] # None
        /\ \A i, j \in DOMAIN writers' : writers'[i] = writers'[j] => i = j
        /\ writers # << >>
          => Head(writers') = Head(writers) /\ op'[Head(writers)] = op[Head(writers)]
        /\ DOMAIN writers \subseteq DOMAIN writers' /\ writers' # << >>
<1> DEFINE call == [batch |-> batch, sync |-> sync, force |-> ~batch]
<1>1. /\ op[w] = None /\ writers' = Append(writers, w) /\ op' = [op EXCEPT ![w] = call]
      /\ writers \in Seq(Writers) /\ op \in [Writers -> Calls \cup {None}]
  BY DEF CallWrite, QueueTypes
<1>2. call \in Calls /\ call # None
  <2>1. (~batch) \in BOOLEAN
    OBVIOUS
  <2> QED BY <2>1, CallsAreCalls
<1> HIDE DEF call
<1>3. /\ DOMAIN writers = 1 .. Len(writers) /\ Len(writers) \in Nat
      /\ DOMAIN writers' = 1 .. Len(writers) + 1 /\ writers' \in Seq(Writers)
      /\ \A i \in DOMAIN writers : writers'[i] = writers[i] /\ writers[i] \in Writers
      /\ writers'[Len(writers) + 1] = w
  BY <1>1
<1>4. \A i \in DOMAIN writers : writers[i] # w /\ op'[writers[i]] = op[writers[i]]
  BY <1>1, <1>3 DEF Queue
<1>5. op'[w] = call /\ op' \in [Writers -> Calls \cup {None}]
  BY <1>1, <1>2
<1>6. \A i \in DOMAIN writers' : i \in DOMAIN writers \/ i = Len(writers) + 1
  BY <1>3
<1>7. \A i \in DOMAIN writers' : op'[writers'[i]] # None
  BY <1>2, <1>3, <1>4, <1>5, <1>6 DEF Queue
<1>8. \A i, j \in DOMAIN writers' : writers'[i] = writers'[j] => i = j
  BY <1>3, <1>4, <1>6 DEF Queue
<1>9. writers # << >>
        => Head(writers') = Head(writers) /\ op'[Head(writers)] = op[Head(writers)]
  <2> SUFFICES ASSUME writers # << >> PROVE Head(writers') = Head(writers)
    /\ op'[Head(writers)] = op[Head(writers)]
    OBVIOUS
  <2>1. Head(writers) = writers[1] /\ 1 \in DOMAIN writers
    BY HeadOfQueue
  <2>2. Head(writers') = writers'[1]
    BY <1>3
  <2> QED BY <1>3, <1>4, <2>1, <2>2
<1>10. DOMAIN writers \subseteq DOMAIN writers' /\ writers' # << >>
  BY <1>3
<1> QED BY <1>3, <1>5, <1>7, <1>8, <1>9, <1>10

\* A switch of the memtable leaves the queue.
LEMMA ForcedOnce ==
  ASSUME QueueTypes, Queue, NEW w \in Writers, SwitchMemtable(w)
  PROVE op' \in [Writers -> Calls \cup {None}]
          /\ \A i \in DOMAIN writers : op'[writers[i]] # None
<1> DEFINE call == [batch |-> op[w].batch, sync |-> op[w].sync, force |-> FALSE]
<1>1. writers # << >> /\ w = Head(writers) /\ op' = [op EXCEPT ![w] = call]
  BY DEF SwitchMemtable, NeedsSwitch, CanGoOn, Front1
<1>2. op[w] \in Calls
  BY <1>1, HeadOfQueue DEF Queue, QueueTypes
<1>3. call \in Calls /\ call # None
  BY <1>2, CallsAreCalls DEF Calls
<1> HIDE DEF call
<1>4. \A i \in DOMAIN writers : writers[i] \in Writers
  BY DEF QueueTypes
<1> QED BY <1>1, <1>3, <1>4 DEF Queue, QueueTypes

\* A stop leaves no writers.
LEMMA NoCalls ==
  ASSUME Forget
  PROVE /\ writers' = << >> /\ writers' \in Seq(Writers)
          /\ op' \in [Writers -> Calls \cup {None}]
        /\ \A i \in DOMAIN writers' : op'[writers'[i]] # None
        /\ \A i, j \in DOMAIN writers' : writers'[i] = writers'[j] => i = j
<1>1. writers' = << >> /\ op' = [w \in Writers |-> None]
  BY DEF Forget
<1>2. \A q : q = << >> => DOMAIN q = {} /\ q \in Seq(Writers)
  OBVIOUS
<1> QED BY <1>1, <1>2

\* The front writer alone may return.
LEMMA OneReturns ==
  ASSUME QueueTypes, writers # << >>
  PROVE 1 \in Nat /\ 1 <= Len(writers)
BY HeadOfQueue

\* A group that returns is the front of the queue.
LEMMA GroupReturns ==
  ASSUME QueueTypes, Queue, CommitTypes, commit # None
  PROVE commit.size \in Nat /\ commit.size <= Len(writers)
BY DEF QueueTypes, Queue, CommitTypes

\* The queue keeps its type.
LEMMA QueueTypesKept ==
  ASSUME QueueTypes, Queue, CommitTypes, DbTypes, [StoreNext]_storeVars
  PROVE QueueTypes'
<1>1. CASE Opened
  BY <1>1 DEF Opened, Scheduled, idle, QueueTypes
<1>2. ASSUME NEW w \in Writers, WriteRefused(w) PROVE QueueTypes'
  <2>1. writers # << >> /\ Return(1, {}) /\ UNCHANGED <<held, bg>>
    BY <1>2 DEF WriteRefused, HasRoom, CanGoOn
  <2> QED BY <2>1, OneReturns, Returned DEF QueueTypes, Queue
<1>3. ASSUME NEW w \in Writers, SwitchMemtable(w) PROVE QueueTypes'
  BY <1>3, ForcedOnce DEF SwitchMemtable, Scheduled, QueueTypes
<1>4. ASSUME NEW w \in Writers, SwitchFails(w) PROVE QueueTypes'
  <2>1. writers # << >> /\ Return(1, {}) /\ UNCHANGED <<held, bg>>
    BY <1>4 DEF SwitchFails, NeedsSwitch, CanGoOn
  <2> QED BY <2>1, OneReturns, Returned DEF QueueTypes, Queue
<1>5. ASSUME NEW w \in Writers, NothingToWrite(w) PROVE QueueTypes'
  <2>1. writers # << >> /\ Return(1, {}) /\ UNCHANGED <<held, bg>>
    BY <1>5 DEF NothingToWrite, HasRoom, CanGoOn
  <2> QED BY <2>1, OneReturns, Returned DEF QueueTypes, Queue
<1>6. CASE FinishCommit
  <2>1. Return(commit.size, {}) /\ commit # None /\ UNCHANGED <<held, bg>>
    BY <1>6 DEF FinishCommit
  <2> QED BY <2>1, GroupReturns, Returned DEF QueueTypes, Queue
<1>7. CASE NothingToDo
  BY <1>7 DEF NothingToDo, Ended, Scheduled, QueueTypes
<1>8. CASE BeginFlush
  BY <1>8 DEF BeginFlush, QueueTypes
<1>9. CASE BuildFails
  BY <1>9 DEF BuildFails, FlushFailed, QueueTypes
<1>10. CASE FlushApplyFails
  BY <1>10 DEF FlushApplyFails, FlushFailed, QueueTypes
<1>11. CASE FlushInstall
  BY <1>11 DEF FlushInstall, Ended, Scheduled, QueueTypes
<1>12. ASSUME NEW inputs \in SUBSET db.files, BeginCompaction(inputs) PROVE QueueTypes'
  BY <1>12 DEF BeginCompaction, QueueTypes
<1>13. CASE CompactionInstall
  BY <1>13 DEF CompactionInstall, Ended, Scheduled, QueueTypes
<1>14. CASE CompactionFails
  BY <1>14 DEF CompactionFails, AppendEdit, QueueTypes
<1>15. CASE OpenFails
  <2>1. Forget
    BY <1>15 DEF OpenFails
  <2> QED BY <2>1, NoCalls DEF Forget, QueueTypes
<1>16. ASSUME NEW w \in Writers, NEW batch \in BOOLEAN, NEW sync \in BOOLEAN,
              CallWrite(w, batch, sync)
       PROVE QueueTypes'
  <2>1. UNCHANGED <<held, bg>>
    BY <1>16 DEF CallWrite
  <2> QED BY <1>16, <2>1, QueueJoined DEF QueueTypes
<1>17. CASE NewIterator
  BY <1>17 DEF NewIterator, QueueTypes, DbTypes
<1>18. ASSUME NEW v \in held, ReleaseIterator(v) PROVE QueueTypes'
  BY <1>18 DEF ReleaseIterator, QueueTypes
<1>19. CASE Closing
  <2>1. Forget
    BY <1>19 DEF Closing
  <2> QED BY <2>1, NoCalls DEF Forget, QueueTypes
<1>20. ASSUME NEW machine \in BOOLEAN, Stop(machine) PROVE QueueTypes'
  <2>1. Forget
    BY <1>20 DEF Stop
  <2> QED BY <2>1, NoCalls DEF Forget, QueueTypes
<1>21. CASE UNCHANGED <<writers, op, held, bg>>
  BY <1>21 DEF QueueTypes
<1>22. CASE Opening
  BY <1>22, <1>1, <1>21 DEF Opening, NewDB, RecoverManifest, RecoverLogFile,
     OpenNewLog, OpenManifest, SetCurrentFile, disk, history, idle, memory
<1>23. ASSUME NEW w \in Writers, Writing(w) PROVE QueueTypes'
  BY <1>23, <1>2, <1>3, <1>4, <1>5, <1>21 DEF Writing, WaitForRoom, BeginCommit,
     disk, history, idle, memory
<1>24. CASE Committing
  BY <1>24, <1>6, <1>21 DEF Committing, AppendRecord, SyncLog, AppendFails,
     SyncFails, AddRecord, Sync, disk, history, idle, memory
<1>25. CASE Background
  BY <1>25, <1>7, <1>8, <1>9, <1>10, <1>11, <1>12, <1>13, <1>14, <1>21 DEF
     Background, FlushBuilt, FlushApply, OpenOutput, OutputBuilt, CompactionApply,
     WriteEdit, disk, history, idle, memory
<1> QED BY <1>22, <1>23, <1>24, <1>25, <1>15, <1>16, <1>17, <1>18, <1>19, <1>20, <1>21 DEF
   StoreNext, Close, storeVars, disk, memory, history

\* Every writer in the queue has a call, and nobody is in it twice.
LEMMA QueueKept ==
  ASSUME Queue, QueueTypes, CommitTypes, DbTypes, [StoreNext]_storeVars
  PROVE Queue'
<1>1. ASSUME NEW w \in Writers, WriteRefused(w) PROVE Queue'
  <2>1. writers # << >> /\ Return(1, {}) /\ commit' = None
    BY <1>1 DEF WriteRefused, HasRoom, CanGoOn
  <2> QED BY <2>1, OneReturns, Returned DEF Queue
<1>2. ASSUME NEW w \in Writers, SwitchMemtable(w) PROVE Queue'
  <2>1. commit' = None /\ writers' = writers
    BY <1>2 DEF SwitchMemtable, NeedsSwitch, CanGoOn
  <2> QED BY <1>2, <2>1, ForcedOnce DEF Queue
<1>3. ASSUME NEW w \in Writers, SwitchFails(w) PROVE Queue'
  <2>1. writers # << >> /\ Return(1, {}) /\ commit' = None
    BY <1>3 DEF SwitchFails, NeedsSwitch, CanGoOn
  <2> QED BY <2>1, OneReturns, Returned DEF Queue
<1>4. ASSUME NEW w \in Writers, NothingToWrite(w) PROVE Queue'
  <2>1. writers # << >> /\ Return(1, {}) /\ commit' = None
    BY <1>4 DEF NothingToWrite, HasRoom, CanGoOn
  <2> QED BY <2>1, OneReturns, Returned DEF Queue
<1>5. ASSUME NEW w \in Writers, BeginCommit(w) PROVE Queue'
  <2>1. UNCHANGED <<writers, op>>
    BY <1>5 DEF BeginCommit
  <2> QED BY <1>5, <2>1, CommitBegun DEF Queue
<1>6. CASE AppendRecord
  <2>1. commit # None /\ commit'.size = commit.size /\ commit'.promised = commit.promised
    BY <1>6 DEF AppendRecord, CommitTypes
  <2> QED BY <1>6, <2>1 DEF AppendRecord, Queue
<1>7. CASE SyncLog
  <2>1. commit # None /\ commit'.size = commit.size /\ commit'.promised = commit.promised
    BY <1>7 DEF SyncLog, CommitTypes
  <2> QED BY <1>7, <2>1 DEF SyncLog, Queue
<1>8. CASE FinishCommit
  <2>1. Return(commit.size, {}) /\ commit # None /\ commit' = None
    BY <1>8 DEF FinishCommit
  <2> QED BY <2>1, GroupReturns, Returned DEF Queue
<1>9. CASE AppendFails
  <2>1. commit # None /\ commit'.size = commit.size /\ commit'.promised = commit.promised
    BY <1>9 DEF AppendFails, CommitTypes
  <2> QED BY <1>9, <2>1 DEF AppendFails, Queue
<1>10. CASE SyncFails
  <2>1. commit # None /\ commit'.size = commit.size /\ commit'.promised = commit.promised
    BY <1>10 DEF SyncFails, CommitTypes
  <2> QED BY <1>10, <2>1 DEF SyncFails, Queue
<1>11. CASE OpenFails
  <2>1. Forget
    BY <1>11 DEF OpenFails
  <2> QED BY <2>1, NoCalls DEF Forget, Queue
<1>12. ASSUME NEW w \in Writers, NEW batch \in BOOLEAN, NEW sync \in BOOLEAN,
              CallWrite(w, batch, sync)
       PROVE Queue'
  <2>1. UNCHANGED commit
    BY <1>12 DEF CallWrite
  <2> QED BY <1>12, <2>1, QueueJoined DEF Queue
<1>13. CASE Closing
  <2>1. Forget
    BY <1>13 DEF Closing
  <2> QED BY <2>1, NoCalls DEF Forget, Queue
<1>14. ASSUME NEW machine \in BOOLEAN, Stop(machine) PROVE Queue'
  <2>1. Forget
    BY <1>14 DEF Stop
  <2> QED BY <2>1, NoCalls DEF Forget, Queue
<1>15. CASE UNCHANGED <<writers, op, commit>>
  BY <1>15 DEF Queue
<1>16. CASE Opening
  BY <1>16, <1>15 DEF Opening, NewDB, RecoverManifest, RecoverLogFile, OpenNewLog,
     OpenManifest, SetCurrentFile, Opened, DeleteObsoleteFiles, disk, history, idle,
     memory
<1>17. ASSUME NEW w \in Writers, Writing(w) PROVE Queue'
  BY <1>17, <1>1, <1>2, <1>3, <1>4, <1>5, <1>15 DEF Writing, WaitForRoom, disk,
     history, idle, memory
<1>18. CASE Committing
  BY <1>18, <1>6, <1>7, <1>8, <1>9, <1>10 DEF Committing
<1>19. CASE Background
  BY <1>19, <1>15 DEF Background, NothingToDo, BeginFlush, FlushBuilt, BuildFails,
     FlushApply, FlushApplyFails, FlushInstall, BeginCompaction, OpenOutput,
     OutputBuilt, CompactionApply, CompactionInstall, CompactionFails, AppendEdit,
     DeleteObsoleteFiles, Ended, FlushFailed, WriteEdit, disk, history, idle, memory
<1> QED BY <1>16, <1>17, <1>18, <1>19, <1>11, <1>12, <1>13, <1>14, <1>15 DEF StoreNext,
   NewIterator, ReleaseIterator, Close, storeVars, disk, memory, history

\* What DeleteObsoleteFiles leaves.
LEMMA Collected ==
  ASSUME NEW d, NEW versions, DeleteObsoleteFiles(d, versions, manifests)
  PROVE /\ DOMAIN tables' \subseteq DOMAIN tables
          /\ \A n \in DOMAIN tables' : tables'[n] = tables[n]
        /\ \A n \in DOMAIN tables : n \in d.pending \cup d.files \cup (UNION versions)
          => n \in DOMAIN tables'
        /\ DOMAIN logs' \subseteq DOMAIN logs /\ \A n \in DOMAIN logs' : logs'[n] = logs[n]
        /\ \A n \in DOMAIN logs : n >= d.logNumber => n \in DOMAIN logs'
        /\ DOMAIN manifests' \subseteq DOMAIN manifests
        /\ \A n \in DOMAIN manifests' : manifests'[n] = manifests[n]
        /\ \A n \in DOMAIN manifests : n >= d.manifest => n \in DOMAIN manifests'
<1>1. CASE d.bgError
  BY <1>1 DEF DeleteObsoleteFiles
<1>2. CASE ~d.bgError
  BY <1>2 DEF DeleteObsoleteFiles, Restrict
<1> QED BY <1>1, <1>2

\* Tables that are read, one by one,
LEMMA LivingIs ==
  \A n : n \in Living <=> \/ n \in db.files
                          \/ \E v \in held : n \in v
                          \/ work # None /\ n \in work.base
                          \/ opening # None /\ n \in opening.added
BY DEF Living, LiveVersions

\* and after a step.
LEMMA LivingIsThen ==
  \A n : n \in Living' <=> \/ n \in db'.files
                           \/ \E v \in held' : n \in v
                           \/ work' # None /\ n \in work'.base
                           \/ opening' # None /\ n \in opening'.added
BY DEF Living, LiveVersions

\* The tables read after a step exist when those that were not read before it do, and
\* no other is deleted.
LEMMA StillLiving ==
  ASSUME Versions, phase # "closed", DbTypes, DbTypes', TableTypes,
         db.next <= db'.next,
         \A n \in Living' : n \notin Living => n \in DOMAIN tables' /\ n < db'.next,
         \A n \in DOMAIN tables : n \in Living /\ n \in Living' => n \in DOMAIN tables'
  PROVE Versions'
<1>1. \A n \in Living : n \in DOMAIN tables /\ n \in Nat /\ n < db.next
  BY DEF Versions, TableTypes
<1>2. db.next \in Nat /\ db'.next \in Nat /\ db.next > 0
  BY DEF DbTypes, Versions
<1>3. \A n \in Living' : n \in DOMAIN tables' /\ n < db'.next
  <2> TAKE n \in Living'
  <2>1. CASE n \in Living
    BY <1>1, <1>2, <2>1
  <2>2. CASE n \notin Living
    BY <2>2
  <2> QED BY <2>1, <2>2
<1>4. db'.next > 0
  BY <1>2
<1> QED BY <1>3, <1>4 DEF Versions

\* What is under way fits the phase, and the table compaction waits while a
\* memtable is written out inside it.
LEMMA PhasesKept ==
  ASSUME Phases, Queue, QueueTypes, OptionTypes, LogTypes, TableTypes, DbTypes,
           OpeningTypes, Bounded, Recovery, [StoreNext]_storeVars
  PROVE Phases'
<1>1. CASE RecoverManifest
  BY <1>1, OpeningBegun DEF RecoverManifest, idle, Phases, Closed, Recovering, Using
<1>2. CASE RecoverLogFile
  <2>1. opening' # None
    BY <1>2, OpeningGoesOn
  <2>2. db'.bgError = db.bgError
    BY <1>2 DEF RecoverLogFile, DbTypes
  <2> QED BY <1>2, <2>1, <2>2 DEF RecoverLogFile, idle, Phases, Recovering, Using
<1>3. CASE OpenNewLog
  <2>1. db'.bgError = db.bgError
    BY <1>3 DEF OpenNewLog, DbTypes
  <2> QED BY <1>3, <2>1 DEF OpenNewLog, idle, Phases, Recovering, Using
<1>4. CASE OpenManifest
  <2>1. db'.bgError = db.bgError
    BY <1>4 DEF OpenManifest, DbTypes
  <2> QED BY <1>4, <2>1 DEF OpenManifest, idle, Phases, Recovering, Using
<1>5. CASE SetCurrentFile
  BY <1>5 DEF SetCurrentFile, idle, Scheduled, Phases, Recovering, Using
<1>6. CASE Opened
  BY <1>6 DEF Opened, idle, Scheduled, Phases, Recovering, Using
<1>7. ASSUME NEW w \in Writers, WriteRefused(w) PROVE Phases'
  BY <1>7 DEF WriteRefused, HasRoom, NeedsSwitch, CanGoOn, Phases, Recovering, Using
<1>8. ASSUME NEW w \in Writers, SwitchMemtable(w) PROVE Phases'
  BY <1>8 DEF SwitchMemtable, NeedsSwitch, CanGoOn, Scheduled, Phases, Recovering,
     Using
<1>9. ASSUME NEW w \in Writers, SwitchFails(w) PROVE Phases'
  BY <1>9 DEF SwitchFails, HasRoom, NeedsSwitch, CanGoOn, Phases, Recovering, Using
<1>10. ASSUME NEW w \in Writers, NothingToWrite(w) PROVE Phases'
  BY <1>10 DEF NothingToWrite, HasRoom, NeedsSwitch, CanGoOn, Phases, Recovering,
     Using
<1>11. ASSUME NEW w \in Writers, BeginCommit(w) PROVE Phases'
  BY <1>11 DEF BeginCommit, HasRoom, CanGoOn, Phases, Recovering, Using
<1>12. CASE AppendRecord
  BY <1>12 DEF AppendRecord, AddRecord, Phases
<1>13. CASE SyncLog
  BY <1>13 DEF SyncLog, Sync, Phases
<1>14. CASE FinishCommit
  BY <1>14 DEF FinishCommit, Phases
<1>15. CASE AppendFails
  BY <1>15 DEF AppendFails, Phases
<1>16. CASE SyncFails
  BY <1>16 DEF SyncFails, Phases
<1>17. CASE NothingToDo
  BY <1>17 DEF NothingToDo, Ended, Scheduled, Phases, Recovering, Using
<1>18. CASE BeginFlush
  BY <1>18 DEF BeginFlush, Phases
<1>19. CASE FlushBuilt
  BY <1>19 DEF FlushBuilt, Phases
<1>20. CASE BuildFails
  BY <1>20 DEF BuildFails, FlushFailed, Phases, Recovering, Using
<1>21. CASE FlushApply
  BY <1>21 DEF FlushApply, WriteEdit, Phases
<1>22. CASE FlushApplyFails
  BY <1>22 DEF FlushApplyFails, FlushFailed, Phases, Recovering, Using
<1>23. CASE FlushInstall
  BY <1>23 DEF FlushInstall, Ended, Scheduled, Phases, Recovering, Using
<1>24. ASSUME NEW inputs \in SUBSET db.files, BeginCompaction(inputs) PROVE Phases'
  BY <1>24 DEF BeginCompaction, Phases
<1>25. CASE OpenOutput
  BY <1>25 DEF OpenOutput, Merging, Phases, Recovering, Using
<1>26. CASE OutputBuilt
  BY <1>26 DEF OutputBuilt, Merging, Phases, Recovering, Using
<1>27. CASE CompactionApply
  BY <1>27 DEF CompactionApply, WriteEdit, Phases
<1>28. CASE CompactionInstall
  BY <1>28 DEF CompactionInstall, Ended, Scheduled, Phases, Recovering, Using
<1>29. CASE CompactionFails
  BY <1>29 DEF CompactionFails, Merging, Phases, Recovering, Using
<1>30. CASE OpenFails
  BY <1>30 DEF OpenFails, Forget, Closed, Phases, Recovering, Using
<1>31. ASSUME NEW w \in Writers, NEW batch \in BOOLEAN, NEW sync \in BOOLEAN,
              CallWrite(w, batch, sync)
       PROVE Phases'
  BY <1>31 DEF CallWrite, Phases
<1>32. CASE NewIterator
  BY <1>32 DEF NewIterator, Phases
<1>33. ASSUME NEW v \in held, ReleaseIterator(v) PROVE Phases'
  BY <1>33 DEF ReleaseIterator, Phases
<1>34. CASE Close
  BY <1>34 DEF Close, Phases, Queue, Recovering, Using
<1>35. CASE Closing
  BY <1>35 DEF Closing, Forget, Closed, Phases, Recovering, Using
<1>36. ASSUME NEW machine \in BOOLEAN, Stop(machine) PROVE Phases'
  BY <1>36 DEF Stop, Forget, Closed, Phases, Recovering, Using
<1>37. CASE UNCHANGED <<phase, opening, mem, imm, db, held, writers, commit, bg, flush, work>>
  BY <1>37 DEF Phases
<1>38. CASE Opening
  BY <1>38, <1>1, <1>2, <1>3, <1>4, <1>5, <1>6, <1>37 DEF Opening, NewDB, disk,
     history, idle, memory
<1>39. ASSUME NEW w \in Writers, Writing(w) PROVE Phases'
  BY <1>39, <1>7, <1>8, <1>9, <1>10, <1>11, <1>37 DEF Writing, WaitForRoom, disk,
     history, idle, memory
<1>40. CASE Committing
  BY <1>40, <1>12, <1>13, <1>14, <1>15, <1>16 DEF Committing
<1>41. CASE Background
  BY <1>41, <1>17, <1>18, <1>19, <1>20, <1>21, <1>22, <1>23, <1>24, <1>25, <1>26,
     <1>27, <1>28, <1>29 DEF Background
<1> QED BY <1>38, <1>39, <1>40, <1>41, <1>30, <1>31, <1>32, <1>33, <1>34, <1>35, <1>36, <1>37
   DEF StoreNext, storeVars, disk, memory, history

\* Tables of versions that are read, by readers, iterators, compactions or an open,
\* are not deleted, and have old numbers.
LEMMA VersionsKept ==
  ASSUME Versions, DbTypes, DbTypes', OpeningTypes, FlushTypes, WorkTypes,
           ManifestTypes, LogTypes, TableTypes, Bounded, Recovery, Phases, Closedness,
           FlushGood, WorkGood, CommitTypes, CommitGood, OptionTypes, [StoreNext]_storeVars
  PROVE Versions'
<1>1. CASE RecoverManifest
  <2>1. /\ FilesOf(AllEdits) \subseteq DOMAIN tables /\ NextOf(AllEdits) \in Nat
        /\ \A n \in FilesOf(AllEdits) : n \in Nat /\ n < NextOf(AllEdits)
    BY <1>1, RecoveredNumbers DEF Sound
  <2>2. /\ db'.files = FilesOf(AllEdits) /\ db'.next = NextOf(AllEdits) + 1
          /\ opening'.added = {}
        /\ held' = {} /\ work' = None /\ tables' = tables
    BY <1>1, DbRecovered DEF RecoverManifest, Phases, idle, disk, Recovering, Using
  <2>3. \A n \in Living' : n \in FilesOf(AllEdits)
    BY <2>2, LivingIsThen
  <2>4. db'.next > 0 /\ \A n \in FilesOf(AllEdits) : n < db'.next
    BY <2>1, <2>2
  <2> QED BY <2>1, <2>2, <2>3, <2>4 DEF Versions
<1>2. CASE RecoverLogFile
  <2>1. PICK number \in opening.todo, made \in SUBSET Nat :
          /\ \A n \in made : db.next <= n /\ n < db'.next
          /\ tables' = [n \in DOMAIN tables \cup made |-> tables'[n]]
          /\ opening' = [todo |-> opening.todo \ {number}, added |-> opening.added \cup made,
                         save |-> opening.save \/ made # {}]
          /\ db'.next >= db.next
    BY <1>2, LogRecovered
  <2>2. /\ phase # "closed" /\ opening # None /\ db'.files = db.files
        /\ UNCHANGED <<held, work>>
    BY <1>2, InBackground DEF RecoverLogFile, idle, Recovering, DbTypes
  <2>3. \A n \in Living' : n \in Living \/ n \in made
    BY <2>1, <2>2, LivingIs, LivingIsThen
  <2>4. DOMAIN tables' = DOMAIN tables \cup made
    BY <2>1
  <2> QED BY <2>1, <2>2, <2>3, <2>4, StillLiving DEF DbTypes
<1>3. CASE OpenNewLog
  <2>1. /\ phase # "closed" /\ UNCHANGED <<tables, held, work, opening>>
    BY <1>3 DEF OpenNewLog, idle
  <2>2. db'.next >= db.next /\ db'.files = db.files
    <3>1. CASE db.logfile # 0
      BY <1>3, <3>1 DEF OpenNewLog, DbTypes
    <3>2. CASE db.logfile = 0
      <4>1. db' = [db EXCEPT !.logfile = db.next, !.next = db.next + 1]
        BY <1>3, <3>2 DEF OpenNewLog
      <4> QED BY <4>1 DEF DbTypes
    <3> QED BY <3>1, <3>2
  <2>3. \A n \in Living' : n \in Living
    BY <2>1, <2>2, LivingIs, LivingIsThen
  <2> QED BY <2>1, <2>2, <2>3, StillLiving DEF DbTypes
<1>4. CASE OpenManifest
  <2>1. /\ phase # "closed" /\ db'.next >= db.next /\ db'.files = db.files \cup opening.added
          /\ opening # None
        /\ UNCHANGED <<tables, held, work, opening>>
    BY <1>4 DEF OpenManifest, idle, Phases, Recovering, Using, disk, history, DbTypes
  <2>2. \A n \in Living' : n \in Living
    BY <2>1, LivingIs, LivingIsThen
  <2> QED BY <2>1, <2>2, StillLiving DEF DbTypes
<1>5. CASE SetCurrentFile
  <2>1. /\ phase # "closed" /\ db'.next >= db.next /\ db'.files = db.files
        /\ UNCHANGED <<tables, held, work, opening>>
    BY <1>5 DEF SetCurrentFile, idle, disk, history, DbTypes
  <2>2. \A n \in Living' : n \in Living
    BY <2>1, LivingIs, LivingIsThen
  <2> QED BY <2>1, <2>2, StillLiving DEF DbTypes
<1>6. CASE Opened
  <2>1. /\ phase # "closed" /\ DeleteObsoleteFiles(db, {}, manifests) /\ db' = db
        /\ opening' = None /\ held' = {} /\ work' = None
    BY <1>6 DEF Opened, Phases, idle, Using
  <2>2. \A n \in Living' : n \in db.files /\ n \in Living
    BY <2>1, LivingIs, LivingIsThen
  <2>3. \A n \in DOMAIN tables : n \in db.files => n \in DOMAIN tables'
    BY <2>1, Collected
  <2>4. db.next <= db'.next
    BY <2>1 DEF DbTypes
  <2> QED BY <2>1, <2>2, <2>3, <2>4, StillLiving
<1>7. ASSUME NEW w \in Writers, SwitchMemtable(w) PROVE Versions'
  <2>1. /\ phase # "closed" /\ db'.next >= db.next /\ db'.files = db.files
        /\ UNCHANGED <<tables, held, work, opening>>
    BY <1>7 DEF SwitchMemtable, NeedsSwitch, CanGoOn, disk, history, DbTypes
  <2>2. \A n \in Living' : n \in Living
    BY <2>1, LivingIs, LivingIsThen
  <2> QED BY <2>1, <2>2, StillLiving DEF DbTypes
<1>8. CASE FinishCommit
  <2>1. /\ phase # "closed" /\ UNCHANGED <<tables, held, work, opening>>
    BY <1>8 DEF FinishCommit, Phases, disk
  <2>2. db'.next >= db.next /\ db'.files = db.files
    <3>1. db'.next = db.next /\ db'.files = db.files
      BY <1>8, CommitFinished
    <3> QED BY <3>1 DEF DbTypes
  <2>3. \A n \in Living' : n \in Living
    BY <2>1, <2>2, LivingIs, LivingIsThen
  <2> QED BY <2>1, <2>2, <2>3, StillLiving DEF DbTypes
<1>9. CASE BeginFlush
  <2>1. /\ phase # "closed" /\ db'.next >= db.next /\ db'.files = db.files
        /\ \A n \in DOMAIN tables : n \in DOMAIN tables'
        /\ UNCHANGED <<held, work, opening>>
    BY <1>9 DEF BeginFlush, Put, disk, history, DbTypes
  <2>2. \A n \in Living' : n \in Living
    BY <2>1, LivingIs, LivingIsThen
  <2> QED BY <2>1, <2>2, StillLiving DEF DbTypes
<1>10. CASE FlushBuilt
  <2>1. /\ phase # "closed" /\ db'.next >= db.next /\ db'.files = db.files
          /\ DOMAIN tables' = DOMAIN tables
        /\ UNCHANGED <<held, work, opening>>
    BY <1>10 DEF FlushBuilt, disk, history, DbTypes
  <2>2. \A n \in Living' : n \in Living
    BY <2>1, LivingIs, LivingIsThen
  <2> QED BY <2>1, <2>2, StillLiving DEF DbTypes
<1>11. CASE BuildFails
  <2>1. /\ phase # "closed" /\ db'.next >= db.next /\ db'.files = db.files
        /\ flush # None /\ flush.stage = "build"
        /\ \A n \in DOMAIN tables : n # flush.number => n \in DOMAIN tables'
        /\ UNCHANGED <<held, opening, work>>
    BY <1>11, InBackground DEF BuildFails, FlushFailed, Restrict, disk, history, DbTypes
  <2>2. \A n \in Living' : n \in Living
    BY <2>1, LivingIs, LivingIsThen
  <2> QED BY <2>1, <2>2, StillLiving DEF DbTypes, FlushGood
<1>12. CASE FlushApplyFails
  <2>1. /\ phase # "closed" /\ db'.next >= db.next /\ db'.files = db.files
        /\ UNCHANGED <<held, opening, work, tables>>
    BY <1>12, InBackground DEF FlushApplyFails, FlushFailed, disk, history, DbTypes
  <2>2. \A n \in Living' : n \in Living
    BY <2>1, LivingIs, LivingIsThen
  <2> QED BY <2>1, <2>2, StillLiving DEF DbTypes
<1>13. CASE FlushInstall
  <2>1. /\ phase # "closed" /\ flush # None /\ flush.stage = "install"
        /\ DeleteObsoleteFiles(db', LiveVersions, manifests)
        /\ db'.next = db.next /\ db'.files = db.files \cup flush.edit.added
        /\ UNCHANGED <<held, work, opening>> /\ opening = None
    BY <1>13, InBackground DEF FlushInstall, DbTypes, Phases, Recovering, Using
  <2>2. \A n \in Living' : n \in Living \/ n \in flush.edit.added
    BY <2>1, LivingIs, LivingIsThen
  <2>3. \A n \in flush.edit.added : n \in DOMAIN tables /\ n \in Nat /\ n < db.next
    <3>1. /\ \A n \in flush.edit.added : n \in DOMAIN tables /\ n < flush.edit.next
          /\ flush.edit.next <= db.next
      BY <2>1 DEF FlushGood
    <3>2. flush.edit.next \in Nat /\ db.next \in Nat
      BY <2>1 DEF FlushTypes, FullEdits, DbTypes
    <3> QED BY <3>1, <3>2 DEF TableTypes
  <2>4. \A n \in DOMAIN tables : n \in Living' => n \in DOMAIN tables'
    <3>1. \A n \in Living' : n \in db'.files \cup (UNION LiveVersions)
      BY <2>1, LivingIsThen DEF LiveVersions
    <3> QED BY <2>1, <3>1, Collected
  <2>5. db.next <= db'.next
    BY <2>1 DEF DbTypes
  <2> QED BY <2>1, <2>2, <2>3, <2>4, <2>5, StillLiving
<1>14. ASSUME NEW inputs \in SUBSET db.files, BeginCompaction(inputs) PROVE Versions'
  <2>1. /\ phase # "closed" /\ db'.next >= db.next /\ db'.files = db.files
        /\ work'.base = db.files
        /\ UNCHANGED <<held, opening, tables>>
    BY <1>14 DEF BeginCompaction, disk, history, DbTypes
  <2>2. \A n \in Living' : n \in Living
    BY <2>1, LivingIs, LivingIsThen
  <2> QED BY <2>1, <2>2, StillLiving DEF DbTypes
<1>15. CASE OpenOutput
  <2>1. /\ phase # "closed" /\ db'.next >= db.next /\ db'.files = db.files
        /\ work # None /\ work'.base = work.base
          /\ \A n \in DOMAIN tables : n \in DOMAIN tables'
        /\ UNCHANGED <<held, opening>>
    BY <1>15, InBackground DEF OpenOutput, Merging, Put, disk, history, DbTypes
  <2>2. \A n \in Living' : n \in Living
    BY <2>1, LivingIs, LivingIsThen
  <2> QED BY <2>1, <2>2, StillLiving DEF DbTypes
<1>16. CASE OutputBuilt
  <2>1. /\ phase # "closed" /\ db'.next >= db.next /\ db'.files = db.files
        /\ work # None /\ work'.base = work.base /\ DOMAIN tables' = DOMAIN tables
        /\ UNCHANGED <<held, opening>>
    BY <1>16, InBackground DEF OutputBuilt, Merging, disk, history, DbTypes
  <2>2. \A n \in Living' : n \in Living
    BY <2>1, LivingIs, LivingIsThen
  <2> QED BY <2>1, <2>2, StillLiving DEF DbTypes
<1>17. CASE CompactionApply
  <2>1. /\ phase # "closed" /\ db'.next >= db.next /\ db'.files = db.files
        /\ work # None /\ work'.base = work.base
        /\ UNCHANGED <<held, opening, tables>>
    BY <1>17, InBackground DEF CompactionApply, disk, history, DbTypes
  <2>2. \A n \in Living' : n \in Living
    BY <2>1, LivingIs, LivingIsThen
  <2> QED BY <2>1, <2>2, StillLiving DEF DbTypes
<1>18. CASE CompactionInstall
  <2>1. /\ phase # "closed" /\ work # None /\ work.stage = "install"
        /\ DeleteObsoleteFiles(db', held, manifests)
        /\ db'.next = db.next /\ db'.files = (db.files \ work.edit.deleted) \cup work.edit.added
        /\ work' = None /\ UNCHANGED <<held, opening>> /\ opening = None
    BY <1>18, InBackground DEF CompactionInstall, DbTypes, Phases, Recovering, Using
  <2>2. \A n \in Living' : n \in Living \/ n \in work.edit.added
    BY <2>1, LivingIs, LivingIsThen
  <2>3. \A n \in work.edit.added : n \in DOMAIN tables /\ n \in Nat /\ n < db.next
    <3>1. /\ \A n \in work.edit.added : n \in DOMAIN tables /\ n < work.edit.next
          /\ work.edit.next <= db.next
      BY <2>1 DEF WorkGood
    <3>2. work.edit.next \in Nat /\ db.next \in Nat
      BY <2>1 DEF WorkTypes, FullEdits, DbTypes
    <3> QED BY <3>1, <3>2 DEF TableTypes
  <2>4. \A n \in DOMAIN tables : n \in Living' => n \in DOMAIN tables'
    <3>1. \A n \in Living' : n \in db'.files \cup (UNION held)
      BY <2>1, LivingIsThen
    <3> QED BY <2>1, <3>1, Collected
  <2>5. db.next <= db'.next
    BY <2>1 DEF DbTypes
  <2> QED BY <2>1, <2>2, <2>3, <2>4, <2>5, StillLiving
<1>19. CASE CompactionFails
  <2>1. /\ phase # "closed" /\ db'.next >= db.next /\ db'.files = db.files
        /\ work' = None
        /\ UNCHANGED <<held, opening, tables>>
    BY <1>19, InBackground DEF CompactionFails, Merging, disk, history, DbTypes
  <2>2. \A n \in Living' : n \in Living
    BY <2>1, LivingIs, LivingIsThen
  <2> QED BY <2>1, <2>2, StillLiving DEF DbTypes
<1>20. CASE OpenFails
  BY <1>20 DEF OpenFails, Forget, Versions
<1>21. CASE NewIterator
  <2>1. /\ phase # "closed" /\ db'.next >= db.next /\ db'.files = db.files
        /\ held' = held \cup {db.files}
        /\ UNCHANGED <<work, opening, tables>>
    BY <1>21 DEF NewIterator, disk, history, DbTypes
  <2>2. \A n \in Living' : n \in Living
    BY <2>1, LivingIs, LivingIsThen
  <2> QED BY <2>1, <2>2, StillLiving DEF DbTypes
<1>22. ASSUME NEW v \in held, ReleaseIterator(v) PROVE Versions'
  <2>1. CASE phase = "closed"
    BY <1>22, <2>1 DEF ReleaseIterator, disk, Versions
  <2>2. CASE phase # "closed"
    <3>1. /\ db'.next >= db.next /\ db'.files = db.files /\ held' \subseteq held
          /\ UNCHANGED <<work, opening, tables>>
      BY <1>22 DEF ReleaseIterator, disk, history, DbTypes
    <3>2. \A n \in Living' : n \in Living
      BY <3>1, LivingIs, LivingIsThen
    <3> QED BY <2>2, <3>1, <3>2, StillLiving
  <2> QED BY <2>1, <2>2
<1>23. CASE Close
  <2>1. /\ phase # "closed" /\ db'.next >= db.next /\ db'.files = db.files
        /\ UNCHANGED <<tables, held, work, opening>>
    BY <1>23 DEF Close, disk, history, DbTypes
  <2>2. \A n \in Living' : n \in Living
    BY <2>1, LivingIs, LivingIsThen
  <2> QED BY <2>1, <2>2, StillLiving DEF DbTypes
<1>24. CASE Closing
  BY <1>24 DEF Closing, Forget, Versions
<1>25. ASSUME NEW machine \in BOOLEAN, Stop(machine) PROVE Versions'
  BY <1>25 DEF Stop, Forget, Versions
<1>26. CASE UNCHANGED <<phase, db, tables, held, work, opening>>
  BY <1>26 DEF Versions, Living, LiveVersions
<1>27. CASE Opening
  BY <1>27, <1>1, <1>2, <1>3, <1>4, <1>5, <1>6, <1>26 DEF Opening, NewDB, disk,
     history, idle, memory
<1>28. ASSUME NEW w \in Writers, Writing(w) PROVE Versions'
  BY <1>28, <1>7, <1>26 DEF Writing, WriteRefused, WaitForRoom, SwitchFails,
     NothingToWrite, BeginCommit, disk, history, idle, memory
<1>29. CASE Committing
  BY <1>29, <1>8, <1>26 DEF Committing, AppendRecord, SyncLog, AppendFails,
     SyncFails, AddRecord, Sync, disk, history, idle, memory
<1>30. CASE Background
  BY <1>30, <1>9, <1>10, <1>11, <1>12, <1>13, <1>14, <1>15, <1>16, <1>17, <1>18,
     <1>19, <1>26 DEF Background, NothingToDo, FlushApply, WriteEdit, disk, history,
     idle, memory
<1> QED BY <1>27, <1>28, <1>29, <1>30, <1>20, <1>21, <1>22, <1>23, <1>24, <1>25, <1>26 DEF
   StoreNext, CallWrite, storeVars, disk, memory, history

\* What the steps do, field by field.

LEMMA SwitchMemtableDoes ==
  ASSUME DbTypes, NEW w \in Writers, SwitchMemtable(w)
  PROVE /\ phase = "open" /\ commit = None /\ imm = {} /\ ~db.bgError
        /\ logs' = Put(logs, db.next, NewLog) /\ imm' = {mem} /\ mem' = {}
        /\ db'.bgError = db.bgError
        /\ db'.files = db.files
        /\ db'.pending = db.pending
        /\ db'.next = db.next + 1
        /\ db'.last = db.last
        /\ db'.logNumber = db.logNumber
        /\ db'.logfile = db.next
        /\ db'.manifest = db.manifest
        /\ UNCHANGED <<options, tables, manifests, CURRENT, phase, opening, held, writers,
                       awake, commit, flush, work, acked, synced, used>>
<1>1. /\ phase = "open" /\ commit = None /\ imm = {} /\ ~db.bgError
      /\ logs' = Put(logs, db.next, NewLog) /\ imm' = {mem} /\ mem' = {}
  BY DEF SwitchMemtable, NeedsSwitch, CanGoOn, disk, memory, history, idle
<1>2. /\ db'.bgError = db.bgError
      /\ db'.files = db.files
      /\ db'.pending = db.pending
      /\ db'.next = db.next + 1
      /\ db'.last = db.last
      /\ db'.logNumber = db.logNumber
      /\ db'.logfile = db.next
      /\ db'.manifest = db.manifest
  BY DEF DbTypes, SwitchMemtable, NeedsSwitch, CanGoOn
<1>3. UNCHANGED <<options, tables, manifests, CURRENT, phase, opening, held, writers, awake,
                  commit, flush, work, acked, synced, used>>
  BY DEF SwitchMemtable, NeedsSwitch, CanGoOn, disk, memory, history, idle
<1> QED BY <1>1, <1>2, <1>3

LEMMA BeginFlushDoes ==
  ASSUME DbTypes, Phases, BeginFlush
  PROVE /\ imm # {} /\ flush = None /\ phase = "open"
        /\ work = None \/ work.stage = "merge"
        /\ flush' = [stage |-> "build", number |-> db.next]
        /\ tables' = IF ImmWrites = {} THEN tables ELSE Put(tables, db.next, {})
        /\ db'.bgError = db.bgError
        /\ db'.files = db.files
        /\ db'.pending = db.pending \cup {db.next}
        /\ db'.next = db.next + 1
        /\ db'.last = db.last
        /\ db'.logNumber = db.logNumber
        /\ db'.logfile = db.logfile
        /\ db'.manifest = db.manifest
        /\ UNCHANGED <<options, logs, manifests, CURRENT, phase, opening, mem, imm, held,
                       writers, op, awake, commit, work, acked, synced, used>>
<1>1. /\ imm # {} /\ flush = None /\ phase = "open"
      /\ work = None \/ work.stage = "merge"
      /\ flush' = [stage |-> "build", number |-> db.next]
      /\ tables' = IF ImmWrites = {} THEN tables ELSE Put(tables, db.next, {})
  BY DEF BeginFlush, Phases, disk, memory, history, idle
<1>2. /\ db'.bgError = db.bgError
      /\ db'.files = db.files
      /\ db'.pending = db.pending \cup {db.next}
      /\ db'.next = db.next + 1
      /\ db'.last = db.last
      /\ db'.logNumber = db.logNumber
      /\ db'.logfile = db.logfile
      /\ db'.manifest = db.manifest
  BY DEF DbTypes, BeginFlush, Phases
<1>3. UNCHANGED <<options, logs, manifests, CURRENT, phase, opening, mem, imm, held, writers,
                  op, awake, commit, work, acked, synced, used>>
  BY DEF BeginFlush, Phases, disk, memory, history, idle
<1> QED BY <1>1, <1>2, <1>3

LEMMA FlushBuiltDoes ==
  ASSUME DbTypes, FlushBuilt
  PROVE /\ flush # None /\ flush.stage = "build" /\ phase = "open"
        /\ LET made == IF ImmWrites = {} THEN {} ELSE {flush.number}
           IN 
             /\ tables' = [n \in DOMAIN tables |-> IF n \in made THEN ImmWrites ELSE tables[n]]
               /\ flush' = [stage |-> "apply", edit |-> Edit(made, {}, db.logfile, db.next, db.last)]
        /\ db'.bgError = db.bgError
        /\ db'.files = db.files
        /\ db'.pending = db.pending \ {flush.number}
        /\ db'.next = db.next
        /\ db'.last = db.last
        /\ db'.logNumber = db.logNumber
        /\ db'.logfile = db.logfile
        /\ db'.manifest = db.manifest
        /\ UNCHANGED <<options, logs, manifests, CURRENT, phase, opening, mem, imm, held,
                       writers, op, awake, commit, bg, work, acked, synced, used>>
<1>1. /\ flush # None /\ flush.stage = "build" /\ phase = "open"
      /\ LET made == IF ImmWrites = {} THEN {} ELSE {flush.number}
         IN  /\ tables' = [n \in DOMAIN tables |-> IF n \in made THEN ImmWrites ELSE tables[n]]
             /\ flush' = [stage |-> "apply", edit |-> Edit(made, {}, db.logfile, db.next, db.last)]
  BY DEF FlushBuilt, disk, memory, history, idle
<1>2. /\ db'.bgError = db.bgError
      /\ db'.files = db.files
      /\ db'.pending = db.pending \ {flush.number}
      /\ db'.next = db.next
      /\ db'.last = db.last
      /\ db'.logNumber = db.logNumber
      /\ db'.logfile = db.logfile
      /\ db'.manifest = db.manifest
  BY DEF DbTypes, FlushBuilt
<1>3. UNCHANGED <<options, logs, manifests, CURRENT, phase, opening, mem, imm, held, writers,
                  op, awake, commit, bg, work, acked, synced, used>>
  BY DEF FlushBuilt, disk, memory, history, idle
<1> QED BY <1>1, <1>2, <1>3

LEMMA BuildFailsDoes ==
  ASSUME DbTypes, BuildFails
  PROVE /\ flush # None /\ flush.stage = "build"
        /\ flush' = None /\ (phase = "closing" \/ MayFail)
        /\ tables' = Restrict(tables, DOMAIN tables \ (IF phase = "closing" THEN {} ELSE {flush.number}))
        /\ db'.bgError = TRUE
        /\ db'.files = db.files
        /\ db'.pending = db.pending \ {flush.number}
        /\ db'.next = db.next
        /\ db'.last = db.last
        /\ db'.logNumber = db.logNumber
        /\ db'.logfile = db.logfile
        /\ db'.manifest = db.manifest
        /\ UNCHANGED <<options, logs, manifests, CURRENT, phase, opening, mem, imm, held,
                       writers, op, commit, work, acked, synced>>
<1>1. /\ flush # None /\ flush.stage = "build"
      /\ flush' = None /\ (phase = "closing" \/ MayFail)
      /\ tables' = Restrict(tables, DOMAIN tables \ (IF phase = "closing" THEN {} ELSE {flush.number}))
  BY DEF BuildFails, FlushFailed, disk, memory, history, idle
<1>2. /\ db'.bgError = TRUE
      /\ db'.files = db.files
      /\ db'.pending = db.pending \ {flush.number}
      /\ db'.next = db.next
      /\ db'.last = db.last
      /\ db'.logNumber = db.logNumber
      /\ db'.logfile = db.logfile
      /\ db'.manifest = db.manifest
  BY DEF DbTypes, BuildFails, FlushFailed
<1>3. UNCHANGED <<options, logs, manifests, CURRENT, phase, opening, mem, imm, held, writers,
                  op, commit, work, acked, synced>>
  BY DEF BuildFails, FlushFailed, disk, memory, history, idle
<1> QED BY <1>1, <1>2, <1>3

LEMMA FlushApplyDoes ==
  ASSUME DbTypes, FlushApply
  PROVE /\ flush # None /\ flush.stage = "apply"
        /\ flush' = [stage |-> "install", edit |-> flush.edit] /\ WriteEdit(flush.edit)
        /\ UNCHANGED <<options, logs, tables, CURRENT, phase, opening, mem, imm, db, held,
                       writers, op, awake, commit, bg, work, acked, synced, used>>
BY DEF FlushApply, disk, memory, history, idle

LEMMA FlushApplyFailsDoes ==
  ASSUME DbTypes, FlushApplyFails
  PROVE /\ flush # None /\ flush.stage = "apply"
        /\ flush' = None /\ (UNCHANGED manifests \/ AppendEdit(flush.edit))
        /\ db'.bgError = TRUE
        /\ db'.files = db.files
        /\ db'.pending = db.pending
        /\ db'.next = db.next
        /\ db'.last = db.last
        /\ db'.logNumber = db.logNumber
        /\ db'.logfile = db.logfile
        /\ db'.manifest = db.manifest
        /\ UNCHANGED <<options, logs, tables, CURRENT, phase, opening, mem, imm, held, writers,
                       op, commit, work, acked, synced>>
<1>1. /\ flush # None /\ flush.stage = "apply"
      /\ flush' = None /\ (UNCHANGED manifests \/ AppendEdit(flush.edit))
  BY DEF FlushApplyFails, FlushFailed, disk, memory, history, idle
<1>2. /\ db'.bgError = TRUE
      /\ db'.files = db.files
      /\ db'.pending = db.pending
      /\ db'.next = db.next
      /\ db'.last = db.last
      /\ db'.logNumber = db.logNumber
      /\ db'.logfile = db.logfile
      /\ db'.manifest = db.manifest
  BY DEF DbTypes, FlushApplyFails, FlushFailed
<1>3. UNCHANGED <<options, logs, tables, CURRENT, phase, opening, mem, imm, held, writers, op,
                  commit, work, acked, synced>>
  BY DEF FlushApplyFails, FlushFailed, disk, memory, history, idle
<1> QED BY <1>1, <1>2, <1>3

LEMMA FlushInstallDoes ==
  ASSUME DbTypes, FlushInstall
  PROVE /\ flush # None /\ flush.stage = "install"
        /\ flush' = None /\ imm' = {} /\ DeleteObsoleteFiles(db', LiveVersions, manifests)
        /\ db'.bgError = db.bgError
        /\ db'.files = db.files \cup flush.edit.added
        /\ db'.pending = db.pending
        /\ db'.next = db.next
        /\ db'.last = db.last
        /\ db'.logNumber = flush.edit.log
        /\ db'.logfile = db.logfile
        /\ db'.manifest = db.manifest
        /\ UNCHANGED <<options, CURRENT, phase, opening, mem, held, writers, op, commit, work,
                       acked, synced, used>>
<1>1. /\ flush # None /\ flush.stage = "install"
      /\ flush' = None /\ imm' = {} /\ DeleteObsoleteFiles(db', LiveVersions, manifests)
  BY DEF FlushInstall, disk, memory, history, idle
<1>2. /\ db'.bgError = db.bgError
      /\ db'.files = db.files \cup flush.edit.added
      /\ db'.pending = db.pending
      /\ db'.next = db.next
      /\ db'.last = db.last
      /\ db'.logNumber = flush.edit.log
      /\ db'.logfile = db.logfile
      /\ db'.manifest = db.manifest
  BY DEF DbTypes, FlushInstall
<1>3. UNCHANGED <<options, CURRENT, phase, opening, mem, held, writers, op, commit, work, acked,
                  synced, used>>
  BY DEF FlushInstall, disk, memory, history, idle
<1> QED BY <1>1, <1>2, <1>3

LEMMA BeginCompactionDoes ==
  ASSUME DbTypes, NEW inputs \in SUBSET db.files, BeginCompaction(inputs)
  PROVE /\ bg = "scheduled" /\ phase = "open" /\ imm = {} /\ ~db.bgError
        /\ work' = [stage |-> "merge", base |-> db.files, inputs |-> inputs, number |-> None]
        /\ UNCHANGED <<options, logs, tables, manifests, CURRENT, phase, opening, mem, imm, db,
                       held, writers, op, awake, commit, flush, acked, synced, used>>
BY DEF BeginCompaction, disk, memory, history, idle

LEMMA OpenOutputDoes ==
  ASSUME DbTypes, OpenOutput
  PROVE /\ work # None /\ work.stage = "merge" /\ flush = None /\ work.number = None
        /\ work' = [stage |-> "merge", base |-> work.base, inputs |-> work.inputs, number |-> db.next]
        /\ tables' = Put(tables, db.next, {})
        /\ db'.bgError = db.bgError
        /\ db'.files = db.files
        /\ db'.pending = db.pending \cup {db.next}
        /\ db'.next = db.next + 1
        /\ db'.last = db.last
        /\ db'.logNumber = db.logNumber
        /\ db'.logfile = db.logfile
        /\ db'.manifest = db.manifest
        /\ UNCHANGED <<options, logs, manifests, CURRENT, phase, opening, mem, imm, held,
                       writers, op, awake, commit, bg, flush, acked, synced, used>>
<1>1. /\ work # None /\ work.stage = "merge" /\ flush = None /\ work.number = None
      /\ work' = [stage |-> "merge", base |-> work.base, inputs |-> work.inputs, number |-> db.next]
      /\ tables' = Put(tables, db.next, {})
  BY DEF OpenOutput, Merging, disk, memory, history, idle
<1>2. /\ db'.bgError = db.bgError
      /\ db'.files = db.files
      /\ db'.pending = db.pending \cup {db.next}
      /\ db'.next = db.next + 1
      /\ db'.last = db.last
      /\ db'.logNumber = db.logNumber
      /\ db'.logfile = db.logfile
      /\ db'.manifest = db.manifest
  BY DEF DbTypes, OpenOutput, Merging
<1>3. UNCHANGED <<options, logs, manifests, CURRENT, phase, opening, mem, imm, held, writers,
                  op, awake, commit, bg, flush, acked, synced, used>>
  BY DEF OpenOutput, Merging, disk, memory, history, idle
<1> QED BY <1>1, <1>2, <1>3

LEMMA OutputBuiltDoes ==
  ASSUME DbTypes, OutputBuilt
  PROVE /\ work # None /\ work.stage = "merge" /\ flush = None /\ work.number # None
          /\ phase = "open"
        /\ tables' = [tables EXCEPT ![work.number] = UNION {tables[n] : n \in work.inputs}]
        /\ work' = [stage |-> "apply", base |-> work.base, number |-> work.number,
                     edit |-> Edit({work.number}, work.inputs, db.logNumber, db.next, db.last)]
        /\ UNCHANGED <<options, logs, manifests, CURRENT, phase, opening, mem, imm, db, held,
                       writers, op, awake, commit, bg, flush, acked, synced, used>>
BY DEF OutputBuilt, Merging, disk, memory, history, idle

LEMMA CompactionApplyDoes ==
  ASSUME DbTypes, CompactionApply
  PROVE /\ work # None /\ work.stage = "apply"
        /\ WriteEdit(work.edit)
        /\ work' = [stage |-> "install", base |-> work.base, number |-> work.number, edit |-> work.edit]
        /\ UNCHANGED <<options, logs, tables, CURRENT, phase, opening, mem, imm, db, held,
                       writers, op, awake, commit, bg, flush, acked, synced, used>>
BY DEF CompactionApply, disk, memory, history, idle

LEMMA CompactionInstallDoes ==
  ASSUME DbTypes, CompactionInstall
  PROVE /\ work # None /\ work.stage = "install"
        /\ work' = None /\ DeleteObsoleteFiles(db', held, manifests)
        /\ db'.bgError = db.bgError
        /\ db'.files = (db.files \ work.edit.deleted) \cup work.edit.added
        /\ db'.pending = db.pending \ {work.number}
        /\ db'.next = db.next
        /\ db'.last = db.last
        /\ db'.logNumber = work.edit.log
        /\ db'.logfile = db.logfile
        /\ db'.manifest = db.manifest
        /\ UNCHANGED <<options, CURRENT, phase, opening, mem, imm, held, writers, op, commit,
                       flush, acked, synced, used>>
<1>1. /\ work # None /\ work.stage = "install"
      /\ work' = None /\ DeleteObsoleteFiles(db', held, manifests)
  BY DEF CompactionInstall, disk, memory, history, idle
<1>2. /\ db'.bgError = db.bgError
      /\ db'.files = (db.files \ work.edit.deleted) \cup work.edit.added
      /\ db'.pending = db.pending \ {work.number}
      /\ db'.next = db.next
      /\ db'.last = db.last
      /\ db'.logNumber = work.edit.log
      /\ db'.logfile = db.logfile
      /\ db'.manifest = db.manifest
  BY DEF DbTypes, CompactionInstall
<1>3. UNCHANGED <<options, CURRENT, phase, opening, mem, imm, held, writers, op, commit, flush,
                  acked, synced, used>>
  BY DEF CompactionInstall, disk, memory, history, idle
<1> QED BY <1>1, <1>2, <1>3

LEMMA CompactionFailsDoes ==
  ASSUME DbTypes, CompactionFails
  PROVE /\ work # None /\ ((work.stage = "merge" /\ flush = None) \/ work.stage = "apply")
        /\ work' = None
        /\ manifests' = manifests \/ (work.stage = "apply" /\ AppendEdit(work.edit))
        /\ db'.bgError = TRUE
        /\ db'.files = db.files
        /\ db'.pending = db.pending \ {work.number}
        /\ db'.next = db.next
        /\ db'.last = db.last
        /\ db'.logNumber = db.logNumber
        /\ db'.logfile = db.logfile
        /\ db'.manifest = db.manifest
        /\ UNCHANGED <<options, logs, tables, CURRENT, phase, opening, mem, imm, held, writers,
                       op, commit, flush, acked, synced>>
<1>1. /\ work # None /\ ((work.stage = "merge" /\ flush = None) \/ work.stage = "apply")
      /\ work' = None
      /\ manifests' = manifests \/ (work.stage = "apply" /\ AppendEdit(work.edit))
  BY DEF CompactionFails, Merging, disk, memory, history, idle
<1>2. /\ db'.bgError = TRUE
      /\ db'.files = db.files
      /\ db'.pending = db.pending \ {work.number}
      /\ db'.next = db.next
      /\ db'.last = db.last
      /\ db'.logNumber = db.logNumber
      /\ db'.logfile = db.logfile
      /\ db'.manifest = db.manifest
  BY DEF DbTypes, CompactionFails, Merging
<1>3. UNCHANGED <<options, logs, tables, CURRENT, phase, opening, mem, imm, held, writers, op,
                  commit, flush, acked, synced>>
  BY DEF CompactionFails, Merging, disk, memory, history, idle
<1> QED BY <1>1, <1>2, <1>3

LEMMA OpenManifestDoes ==
  ASSUME DbTypes, OpenManifest
  PROVE /\ phase = "manifest"
        /\ LET before == IF options.reuseLogs THEN AllEdits ELSE <<WriteSnapshot(db)>>
               edit == Edit(opening.added, {}, db.logfile, db.next, db.last)
           IN  manifests' = Put(manifests, db.manifest, [edits |-> Append(before, edit),
                                                         synced |-> Len(before) + 1])
        /\ phase' = (IF options.reuseLogs THEN "ready" ELSE "current")
        /\ db'.bgError = db.bgError
        /\ db'.files = db.files \cup opening.added
        /\ db'.pending = db.pending
        /\ db'.next = db.next
        /\ db'.last = db.last
        /\ db'.logNumber = db.logfile
        /\ db'.logfile = db.logfile
        /\ db'.manifest = db.manifest
        /\ UNCHANGED <<options, logs, tables, CURRENT, opening, mem, imm, held, writers, op,
                       awake, commit, bg, flush, work, acked, synced, used>>
<1>1. /\ phase = "manifest"
      /\ LET before == IF options.reuseLogs THEN AllEdits ELSE <<WriteSnapshot(db)>>
             edit == Edit(opening.added, {}, db.logfile, db.next, db.last)
         IN  manifests' = Put(manifests, db.manifest, [edits |-> Append(before, edit),
                                                       synced |-> Len(before) + 1])
      /\ phase' = (IF options.reuseLogs THEN "ready" ELSE "current")
  BY DEF OpenManifest, disk, memory, history, idle
<1>2. /\ db'.bgError = db.bgError
      /\ db'.files = db.files \cup opening.added
      /\ db'.pending = db.pending
      /\ db'.next = db.next
      /\ db'.last = db.last
      /\ db'.logNumber = db.logfile
      /\ db'.logfile = db.logfile
      /\ db'.manifest = db.manifest
  BY DEF DbTypes, OpenManifest
<1>3. UNCHANGED <<options, logs, tables, CURRENT, opening, mem, imm, held, writers, op, awake,
                  commit, bg, flush, work, acked, synced, used>>
  BY DEF OpenManifest, disk, memory, history, idle
<1> QED BY <1>1, <1>2, <1>3

LEMMA OpenNewLogDoes ==
  ASSUME DbTypes, OpenNewLog
  PROVE /\ phase = "logs" /\ opening.todo = {}
        /\ phase' = (IF opening.save THEN "manifest" ELSE "ready")
        /\ \/ db.logfile # 0 /\ logs' = logs /\ db' = db
           \/ /\ db.logfile = 0 /\ logs' = Put(logs, db.next, NewLog)
              /\ db'.logfile = db.next /\ db'.next = db.next + 1
        /\ db'.bgError = db.bgError /\ db'.files = db.files /\ db'.pending = db.pending
        /\ db'.last = db.last /\ db'.logNumber = db.logNumber /\ db'.manifest = db.manifest
        /\ UNCHANGED <<options, tables, manifests, CURRENT, opening, mem, imm, held, writers,
                       op,
                       awake, commit, bg, flush, work, acked, synced, used>>
<1>1. /\ phase = "logs" /\ opening.todo = {}
      /\ phase' = (IF opening.save THEN "manifest" ELSE "ready")
      /\ UNCHANGED <<options, tables, manifests, CURRENT, opening, mem, imm, held, writers, op,
                     awake, commit, bg, flush, work, acked, synced, used>>
  BY DEF OpenNewLog, idle, history
<1>2. \/ db.logfile # 0 /\ logs' = logs /\ db' = db
      \/ /\ db.logfile = 0 /\ logs' = Put(logs, db.next, NewLog)
         /\ db' = [db EXCEPT !.logfile = db.next, !.next = db.next + 1]
  BY DEF OpenNewLog
<1>3. CASE db.logfile # 0 /\ logs' = logs /\ db' = db
  BY <1>1, <1>2, <1>3
<1>4. CASE /\ db.logfile = 0 /\ logs' = Put(logs, db.next, NewLog)
           /\ db' = [db EXCEPT !.logfile = db.next, !.next = db.next + 1]
  <2>1. /\ db'.logfile = db.next /\ db'.next = db.next + 1
        /\ db'.bgError = db.bgError /\ db'.files = db.files /\ db'.pending = db.pending
        /\ db'.last = db.last /\ db'.logNumber = db.logNumber /\ db'.manifest = db.manifest
    BY <1>4 DEF DbTypes
  <2> QED BY <1>1, <1>4, <2>1
<1> QED BY <1>2, <1>3, <1>4

-----------------------------------------------------------------------------
\* The tables read are those of the version, of iterators, of the compaction, of the open.
LEMMA SameLiving ==
  ASSUME db'.files = db.files, UNCHANGED <<held, work, opening>>
  PROVE Living' = Living
BY DEF Living, LiveVersions

\* None of them has the next number.
LEMMA LivingAreOld ==
  ASSUME Versions, TableTypes, DbTypes, phase # "closed"
  PROVE \A n \in Living : n \in DOMAIN tables /\ n \in Nat /\ n < db.next /\ n # db.next
BY DEF Versions, TableTypes, DbTypes

\* The edit of a memtable compaction is full.
LEMMA FlushEdit ==
  ASSUME FlushTypes, flush # None, flush.stage # "build"
  PROVE /\ flush.edit.added \in SUBSET Nat /\ flush.edit.next \in Nat /\ flush.edit.last \in Nat
        /\ flush.edit.log \in Nat
BY DEF FlushTypes, FullEdits

\* So is that of a table compaction.
LEMMA WorkEdit ==
  ASSUME WorkTypes, work # None, work.stage # "merge"
  PROVE /\ work.edit.added \in SUBSET Nat /\ work.edit.deleted \in SUBSET Nat
        /\ work.edit.next \in Nat /\ work.edit.last \in Nat /\ work.edit.log \in Nat
        /\ work.number \in Nat
BY DEF WorkTypes, FullEdits

\* No log is newer than logfile_.
LEMMA LogIsOld ==
  ASSUME DbTypes, LogTypes, LogsGood, phase \in Using
  PROVE db.logfile < db.next /\ db.logNumber < db.next /\ db.logNumber <= db.logfile
BY DEF DbTypes, LogTypes, LogsGood

\* The table of a memtable compaction is its own, holds what the memtable holds and stays
\* until the version has it; its edit has numbers not used since.
LEMMA FlushGoodKept ==
  ASSUME FlushGood, DbTypes, TableTypes, LogTypes, FlushTypes, WorkTypes,
           CommitTypes, CommitGood, Phases, Versions, LogsGood, Memory,
           [StoreNext]_storeVars
  PROVE FlushGood'
<1>1. CASE RecoverManifest
  <2>1. flush' = None
    BY <1>1 DEF RecoverManifest, idle, Phases, Recovering, Using
  <2> QED BY <2>1 DEF FlushGood
<1>2. CASE RecoverLogFile
  <2>1. flush' = None
    BY <1>2 DEF RecoverLogFile, idle, Phases, Recovering, Using
  <2> QED BY <2>1 DEF FlushGood
<1>3. CASE OpenNewLog
  <2>1. flush' = None
    BY <1>3 DEF OpenNewLog, idle, Phases, Recovering, Using
  <2> QED BY <2>1 DEF FlushGood
<1>4. CASE OpenManifest
  <2>1. flush' = None
    BY <1>4 DEF OpenManifest, idle, Phases, Recovering, Using
  <2> QED BY <2>1 DEF FlushGood
<1>5. CASE Opened
  <2>1. flush' = None
    BY <1>5 DEF Opened, idle, Phases, Recovering, Using
  <2> QED BY <2>1 DEF FlushGood
<1>6. ASSUME NEW w \in Writers, SwitchMemtable(w) PROVE FlushGood'
  <2>1. flush' = None
    BY <1>6, SwitchMemtableDoes DEF Phases
  <2> QED BY <2>1 DEF FlushGood
<1>7. CASE FinishCommit
  <2>1. /\ UNCHANGED <<flush, tables, imm, held, work, opening>>
        /\ db'.files = db.files /\ db'.pending = db.pending /\ db'.next = db.next
        /\ db'.logfile = db.logfile /\ db.last <= db'.last /\ db'.last \in Nat
          /\ db.last \in Nat
    BY <1>7, CommitFinished DEF FinishCommit, disk, DbTypes
  <2>2. Living' = Living
    BY <2>1, SameLiving
  <2>3. flush # None /\ flush.stage # "build" => flush.edit.last <= db'.last
    BY <2>1, FlushEdit DEF FlushGood
  <2> QED BY <2>1, <2>2, <2>3 DEF FlushGood, ImmWrites
<1>8. CASE BeginFlush
  <2>1. Living' = Living
    BY <1>8, BeginFlushDoes, SameLiving
  <2>2. phase # "closed" /\ db.next < db.next + 1
    BY <1>8, BeginFlushDoes DEF DbTypes
  <2>3. db.next \notin Living
    BY <2>2, LivingAreOld
  <2>4. /\ flush'.stage = "build" /\ flush'.number = db.next
        /\ db'.next = db.next + 1 /\ db'.pending = db.pending \cup {db.next} /\ imm' = imm
    BY <1>8, BeginFlushDoes
  <2>5. ImmWrites # {} => db.next \in DOMAIN tables'
    BY <1>8, BeginFlushDoes DEF Put
  <2> QED BY <2>1, <2>2, <2>3, <2>4, <2>5 DEF FlushGood, ImmWrites
<1>9. CASE FlushBuilt
  <2> DEFINE made == IF ImmWrites = {} THEN {} ELSE {flush.number}
  <2>1. /\ flush # None /\ flush.stage = "build" /\ phase = "open"
        /\ tables' = [n \in DOMAIN tables |-> IF n \in made THEN ImmWrites ELSE tables[n]]
        /\ flush' = [stage |-> "apply", edit |-> Edit(made, {}, db.logfile, db.next, db.last)]
        /\ db'.next = db.next /\ db'.last = db.last /\ db'.logfile = db.logfile /\ imm' = imm
    BY <1>9, FlushBuiltDoes
  <2>2. /\ flush'.stage = "apply" /\ flush'.edit.added = made /\ flush'.edit.deleted = {}
        /\ flush'.edit.log = db.logfile /\ flush'.edit.next = db.next
          /\ flush'.edit.last = db.last
    BY <2>1 DEF Edit
  <2>3. made \subseteq DOMAIN tables /\ \A n \in made : n < db.next
    BY <2>1 DEF FlushGood
  <2>4. Entries(tables', made) = ImmWrites
    BY <2>1, <2>3 DEF Entries
  <2>5. db.logfile < db.next /\ db.next <= db.next /\ db.last <= db.last
    BY <2>1, LogIsOld DEF DbTypes, Using
  <2>6. \A s \in ImmWrites : s <= db.last
    BY <2>1 DEF Memory, Using
  <2>7. DOMAIN tables' = DOMAIN tables /\ ImmWrites' = ImmWrites
    BY <2>1 DEF ImmWrites
  <2> HIDE DEF made
  <2> QED BY <2>1, <2>2, <2>3, <2>4, <2>5, <2>6, <2>7 DEF FlushGood
<1>10. CASE BuildFails
  <2>1. flush' = None
    BY <1>10, BuildFailsDoes DEF Phases
  <2> QED BY <2>1 DEF FlushGood
<1>11. CASE FlushApply
  <2>1. /\ flush # None /\ flush.stage = "apply" /\ flush'.stage = "install"
          /\ flush'.edit = flush.edit
        /\ UNCHANGED <<tables, db, imm>>
    BY <1>11, FlushApplyDoes
  <2> QED BY <2>1 DEF FlushGood, ImmWrites
<1>12. CASE FlushApplyFails
  <2>1. flush' = None
    BY <1>12, FlushApplyFailsDoes DEF Phases
  <2> QED BY <2>1 DEF FlushGood
<1>13. CASE FlushInstall
  <2>1. flush' = None
    BY <1>13, FlushInstallDoes DEF Phases
  <2> QED BY <2>1 DEF FlushGood
<1>14. ASSUME NEW inputs \in SUBSET db.files, BeginCompaction(inputs) PROVE FlushGood'
  <2>1. flush' = None
    BY <1>14, BeginCompactionDoes DEF Phases
  <2> QED BY <2>1 DEF FlushGood
<1>15. CASE OpenOutput
  <2>1. flush' = None
    BY <1>15, OpenOutputDoes DEF Phases
  <2> QED BY <2>1 DEF FlushGood
<1>16. CASE OutputBuilt
  <2>1. flush' = None
    BY <1>16, OutputBuiltDoes DEF Phases
  <2> QED BY <2>1 DEF FlushGood
<1>17. CASE CompactionApply
  <2>1. flush' = None
    BY <1>17, CompactionApplyDoes DEF Phases
  <2> QED BY <2>1 DEF FlushGood
<1>18. CASE CompactionInstall
  <2>1. flush' = None
    BY <1>18, CompactionInstallDoes DEF Phases
  <2> QED BY <2>1 DEF FlushGood
<1>19. CASE CompactionFails
  <2>1. flush' = None
    BY <1>19, CompactionFailsDoes DEF Phases
  <2> QED BY <2>1 DEF FlushGood
<1>20. CASE OpenFails
  <2>1. flush' = None
    BY <1>20 DEF OpenFails, Forget, Phases, Recovering, Using
  <2> QED BY <2>1 DEF FlushGood
<1>21. CASE NewIterator
  <2>1. held' = held \cup {db.files} /\ UNCHANGED <<flush, db, tables, imm, work, opening>>
    BY <1>21 DEF NewIterator, disk
  <2>2. \A n : n \in Living' => n \in Living
    BY <2>1, LivingIs, LivingIsThen
  <2> QED BY <2>1, <2>2 DEF FlushGood, ImmWrites
<1>22. ASSUME NEW v \in held, ReleaseIterator(v) PROVE FlushGood'
  <2>1. held' \subseteq held /\ UNCHANGED <<flush, db, tables, imm, work, opening>>
    BY <1>22 DEF ReleaseIterator, disk
  <2>2. \A n : n \in Living' => n \in Living
    BY <2>1, LivingIs, LivingIsThen
  <2> QED BY <2>1, <2>2 DEF FlushGood, ImmWrites
<1>23. CASE Closing
  <2>1. flush' = None
    BY <1>23 DEF Closing, Forget, Phases, Recovering, Using
  <2> QED BY <2>1 DEF FlushGood
<1>24. ASSUME NEW machine \in BOOLEAN, Stop(machine) PROVE FlushGood'
  <2>1. flush' = None
    BY <1>24 DEF Stop, Forget, Phases, Recovering, Using
  <2> QED BY <2>1 DEF FlushGood
<1>25. CASE UNCHANGED <<flush, db, tables, imm, held, work, opening>>
  BY <1>25 DEF FlushGood, ImmWrites, Living, LiveVersions
<1>26. CASE Opening
  BY <1>26, <1>1, <1>2, <1>3, <1>4, <1>5, <1>25 DEF Opening, NewDB, SetCurrentFile,
     disk, history, idle, memory
<1>27. ASSUME NEW w \in Writers, Writing(w) PROVE FlushGood'
  BY <1>27, <1>6, <1>25 DEF Writing, WriteRefused, WaitForRoom, SwitchFails,
     NothingToWrite, BeginCommit, disk, history, idle, memory
<1>28. CASE Committing
  BY <1>28, <1>7, <1>25 DEF Committing, AppendRecord, SyncLog, AppendFails,
     SyncFails, AddRecord, Sync, disk, history, idle, memory
<1>29. CASE Background
  BY <1>29, <1>8, <1>9, <1>10, <1>11, <1>12, <1>13, <1>14, <1>15, <1>16, <1>17,
     <1>18, <1>19, <1>25 DEF Background, NothingToDo, disk, history, idle, memory
<1> QED BY <1>26, <1>27, <1>28, <1>29, <1>20, <1>21, <1>22, <1>23, <1>24, <1>25 DEF
   StoreNext, CallWrite, Close, storeVars, disk, memory, history

\* A table compaction is over.
LEMMA WorkGoes ==
  ASSUME WorkGood, WorkTypes, DbTypes, UNCHANGED <<work, flush, tables>>, Living' = Living,
         db'.files = db.files, db'.pending = db.pending, db'.logNumber = db.logNumber,
         db'.next \in Nat, db.next <= db'.next, db'.last \in Nat, db.last <= db'.last
  PROVE WorkGood'
<1>1. CASE work = None
  BY <1>1 DEF WorkGood
<1>2. CASE work # None /\ work.stage = "merge"
  <2>1. work.number # None => work.number < db'.next
    <3>1. work.number # None => work.number \in Nat /\ work.number < db.next
      BY <1>2 DEF WorkGood, WorkTypes, Numbers
    <3> QED BY <3>1 DEF DbTypes
  <2> QED BY <1>2, <2>1 DEF WorkGood
<1>3. CASE work # None /\ work.stage # "merge"
  <2>1. work.edit.next <= db'.next /\ work.edit.last <= db'.last
    BY <1>3, WorkEdit DEF WorkGood, DbTypes
  <2> QED BY <1>3, <2>1 DEF WorkGood
<1> QED BY <1>1, <1>2, <1>3

\* A table compaction is at its merge while a memtable is written out.
LEMMA StillMerging ==
  ASSUME WorkGood, WorkTypes, DbTypes, UNCHANGED work, work # None => work.stage = "merge",
         db.files \subseteq db'.files, db.next <= db'.next, db'.next \in Nat,
         work # None /\ work.number # None =>
           /\ work.number \in DOMAIN tables' /\ work.number \in db'.pending
           /\ work.number \notin Living'
           /\ flush' # None => IF flush'.stage = "build" THEN flush'.number # work.number
                               ELSE work.number \notin flush'.edit.added
  PROVE WorkGood'
<1>1. CASE work = None
  BY <1>1 DEF WorkGood
<1>2. CASE work # None
  <2>1. work.number # None => work.number < db'.next
    <3>1. work.number # None => work.number \in Nat /\ work.number < db.next
      BY <1>2 DEF WorkGood, WorkTypes, Numbers
    <3> QED BY <3>1 DEF DbTypes
  <2> QED BY <1>2, <2>1 DEF WorkGood
<1> QED BY <1>1, <1>2

\* So for the table of a table compaction, and its inputs are read until it is done.
LEMMA WorkGoodKept ==
  ASSUME WorkGood, DbTypes, TableTypes, LogTypes, FlushTypes, WorkTypes, CommitTypes,
           CommitGood, Phases, Versions, FlushGood, LogsGood, Memory, [StoreNext]_storeVars
  PROVE WorkGood'
<1>1. CASE RecoverManifest
  <2>1. work' = None
    BY <1>1 DEF RecoverManifest, idle, Phases, Recovering, Using
  <2> QED BY <2>1 DEF WorkGood
<1>2. CASE RecoverLogFile
  <2>1. work' = None
    BY <1>2 DEF RecoverLogFile, idle, Phases, Recovering, Using
  <2> QED BY <2>1 DEF WorkGood
<1>3. CASE OpenNewLog
  <2>1. work' = None
    BY <1>3 DEF OpenNewLog, idle, Phases, Recovering, Using
  <2> QED BY <2>1 DEF WorkGood
<1>4. CASE OpenManifest
  <2>1. work' = None
    BY <1>4 DEF OpenManifest, idle, Phases, Recovering, Using
  <2> QED BY <2>1 DEF WorkGood
<1>5. CASE Opened
  <2>1. work' = None
    BY <1>5 DEF Opened, idle, Phases, Recovering, Using
  <2> QED BY <2>1 DEF WorkGood
<1>6. ASSUME NEW w \in Writers, SwitchMemtable(w) PROVE WorkGood'
  <2>1. /\ UNCHANGED <<work, flush, tables>> /\ Living' = Living
        /\ db'.files = db.files /\ db'.pending = db.pending /\ db'.logNumber = db.logNumber
        /\ db.next \in Nat /\ db'.next \in Nat /\ db.next <= db'.next
        /\ db.last \in Nat /\ db'.last \in Nat /\ db.last <= db'.last
    <3>1. UNCHANGED <<work, flush, tables, held, opening>> /\ db'.files = db.files
            /\ db'.pending = db.pending /\ db'.logNumber = db.logNumber
            /\ db'.next = db.next + 1 /\ db'.last = db.last
      BY <1>6, SwitchMemtableDoes
    <3>2. Living' = Living
      BY <3>1, SameLiving
    <3> QED BY <3>1, <3>2 DEF DbTypes
  <2> QED BY <2>1, WorkGoes
<1>7. CASE FinishCommit
  <2>1. /\ UNCHANGED <<work, flush, tables>> /\ Living' = Living
        /\ db'.files = db.files /\ db'.pending = db.pending /\ db'.logNumber = db.logNumber
        /\ db.next \in Nat /\ db'.next \in Nat /\ db.next <= db'.next
        /\ db.last \in Nat /\ db'.last \in Nat /\ db.last <= db'.last
    <3>1. UNCHANGED <<work, flush, tables, held, opening>> /\ db'.files = db.files
            /\ db'.pending = db.pending /\ db'.logNumber = db.logNumber
            /\ db'.next = db.next /\ db'.last \in Nat /\ db.last <= db'.last
      BY <1>7, CommitFinished DEF FinishCommit, disk
    <3>2. Living' = Living
      BY <3>1, SameLiving
    <3> QED BY <3>1, <3>2 DEF DbTypes
  <2> QED BY <2>1, WorkGoes
<1>8. CASE BeginFlush
  <2>1. /\ UNCHANGED <<work, held, opening>> /\ (work # None => work.stage = "merge")
        /\ db'.files = db.files /\ db'.next = db.next + 1 /\ db.pending \subseteq db'.pending
        /\ flush'.stage = "build" /\ flush'.number = db.next
    BY <1>8, BeginFlushDoes
  <2>2. Living' = Living
    BY <2>1, SameLiving
  <2>3. db.next \in Nat /\ db'.next \in Nat /\ db.next <= db'.next
    BY <2>1 DEF DbTypes
  <2>4. DOMAIN tables \subseteq DOMAIN tables'
    BY <1>8, BeginFlushDoes DEF Put
  <2>5. work # None /\ work.number # None => work.number # db.next
    BY <2>1, <2>3 DEF WorkGood, WorkTypes, Numbers
  <2>6. work # None /\ work.number # None =>
          work.number \in DOMAIN tables' /\ work.number \in db'.pending
            /\ work.number \notin Living'
    BY <2>1, <2>2, <2>4 DEF WorkGood
  <2> QED BY <2>1, <2>3, <2>5, <2>6, StillMerging
<1>9. CASE FlushBuilt
  <2> DEFINE made == IF ImmWrites = {} THEN {} ELSE {flush.number}
  <2>1. /\ flush # None /\ flush.stage = "build" /\ UNCHANGED <<work, held, opening>>
        /\ db'.files = db.files /\ db'.next = db.next
          /\ db'.pending = db.pending \ {flush.number}
        /\ DOMAIN tables' = DOMAIN tables
        /\ flush' = [stage |-> "apply", edit |-> Edit(made, {}, db.logfile, db.next, db.last)]
    BY <1>9, FlushBuiltDoes
  <2>2. Living' = Living
    BY <2>1, SameLiving
  <2>3. flush'.stage = "apply" /\ flush'.edit.added \subseteq {flush.number}
    BY <2>1 DEF Edit
  <2>4. work # None => work.stage = "merge"
    BY <2>1 DEF Phases
  <2>5. work # None /\ work.number # None =>
          /\ work.number # flush.number
          /\ work.number \in DOMAIN tables' /\ work.number \in db'.pending
            /\ work.number \notin Living'
    BY <2>1, <2>2, <2>4 DEF WorkGood
  <2>6. db.next <= db'.next /\ db'.next \in Nat
    BY <2>1 DEF DbTypes
  <2> QED BY <2>1, <2>3, <2>4, <2>5, <2>6, StillMerging
<1>10. CASE BuildFails
  <2>1. /\ flush # None /\ flush.stage = "build" /\ flush' = None
        /\ UNCHANGED <<work, held, opening>>
        /\ db'.pending = db.pending \ {flush.number}
        /\ db'.files = db.files /\ db'.next = db.next /\ db.next <= db'.next /\ db'.next \in Nat
    <3>1. /\ flush # None /\ flush.stage = "build" /\ flush' = None
          /\ UNCHANGED <<work, held, opening>>
            /\ db'.pending = db.pending \ {flush.number}
            /\ db'.files = db.files /\ db'.next = db.next
      BY <1>10, BuildFailsDoes
    <3>2. db.next <= db'.next /\ db'.next \in Nat
      BY <3>1 DEF DbTypes
    <3> QED BY <3>1, <3>2
  <2>2. Living' = Living
    BY <2>1, SameLiving
  <2>3. work # None => work.stage = "merge"
    BY <2>1 DEF Phases
  <2>4. \A n \in DOMAIN tables : n # flush.number => n \in DOMAIN tables'
    BY <1>10, BuildFailsDoes DEF Restrict
  <2>5. work # None /\ work.number # None =>
          work.number \in DOMAIN tables' /\ work.number \in db'.pending
            /\ work.number \notin Living'
    BY <2>1, <2>2, <2>3, <2>4 DEF WorkGood
  <2> QED BY <2>1, <2>3, <2>5, StillMerging
<1>11. CASE FlushApply
  <2>1. /\ flush # None /\ flush.stage = "apply" /\ UNCHANGED <<work, held, opening, tables>>
        /\ db'.pending = db.pending /\ flush'.stage = "install" /\ flush'.edit = flush.edit
        /\ db'.files = db.files /\ db'.next = db.next /\ db.next <= db'.next /\ db'.next \in Nat
    <3>1. /\ flush # None /\ flush.stage = "apply" /\ UNCHANGED <<work, held, opening, tables>>
            /\ db'.pending = db.pending /\ flush'.stage = "install" /\ flush'.edit = flush.edit
            /\ db'.files = db.files /\ db'.next = db.next
      BY <1>11, FlushApplyDoes
    <3>2. db.next <= db'.next /\ db'.next \in Nat
      BY <3>1 DEF DbTypes
    <3> QED BY <3>1, <3>2
  <2>2. Living' = Living
    BY <2>1, SameLiving
  <2>3. work # None => work.stage = "merge"
    BY <2>1 DEF Phases
  <2>4. work # None /\ work.number # None =>
          /\ work.number \in DOMAIN tables' /\ work.number \in db'.pending
            /\ work.number \notin Living'
          /\ work.number \notin flush'.edit.added
    BY <2>1, <2>2, <2>3 DEF WorkGood
  <2> QED BY <2>1, <2>3, <2>4, StillMerging
<1>12. CASE FlushApplyFails
  <2>1. /\ flush # None /\ flush' = None /\ UNCHANGED <<work, held, opening, tables>>
        /\ db'.pending = db.pending
        /\ db'.files = db.files /\ db'.next = db.next /\ db.next <= db'.next /\ db'.next \in Nat
    <3>1. /\ flush # None /\ flush' = None /\ UNCHANGED <<work, held, opening, tables>>
            /\ db'.pending = db.pending
            /\ db'.files = db.files /\ db'.next = db.next
      BY <1>12, FlushApplyFailsDoes
    <3>2. db.next <= db'.next /\ db'.next \in Nat
      BY <3>1 DEF DbTypes
    <3> QED BY <3>1, <3>2
  <2>2. Living' = Living
    BY <2>1, SameLiving
  <2>3. work # None => work.stage = "merge"
    BY <2>1 DEF Phases
  <2>4. work # None /\ work.number # None =>
          work.number \in DOMAIN tables' /\ work.number \in db'.pending
            /\ work.number \notin Living'
    BY <2>1, <2>2, <2>3 DEF WorkGood
  <2> QED BY <2>1, <2>3, <2>4, StillMerging
<1>13. CASE FlushInstall
  <2>1. /\ flush # None /\ flush.stage = "install" /\ flush' = None
        /\ UNCHANGED <<work, held, opening>>
        /\ db'.files = db.files \cup flush.edit.added /\ db'.pending = db.pending
        /\ db'.next = db.next /\ db.next <= db'.next /\ db'.next \in Nat
        /\ DeleteObsoleteFiles(db', LiveVersions, manifests)
    BY <1>13, FlushInstallDoes DEF DbTypes
  <2>2. work # None => work.stage = "merge"
    BY <2>1 DEF Phases
  <2>3. \A n \in Living' : n \in Living \/ n \in flush.edit.added
    BY <2>1, LivingIs, LivingIsThen
  <2>4. \A n \in DOMAIN tables : n \in db'.pending => n \in DOMAIN tables'
    BY <2>1, Collected
  <2>5. work # None /\ work.number # None =>
          work.number \in DOMAIN tables' /\ work.number \in db'.pending
            /\ work.number \notin Living'
    BY <2>1, <2>2, <2>3, <2>4 DEF WorkGood
  <2> QED BY <2>1, <2>2, <2>5, StillMerging
<1>14. ASSUME NEW inputs \in SUBSET db.files, BeginCompaction(inputs) PROVE WorkGood'
  <2>1. /\ work' = [stage |-> "merge", base |-> db.files, inputs |-> inputs, number |-> None]
        /\ db' = db
    BY <1>14, BeginCompactionDoes
  <2>2. work'.stage = "merge" /\ work'.base = db.files /\ work'.inputs = inputs
          /\ work'.number = None
    BY <2>1
  <2> QED BY <1>14, <2>1, <2>2 DEF WorkGood
<1>15. CASE OpenOutput
  <2>1. /\ work # None /\ work.stage = "merge" /\ work'.stage = "merge"
          /\ work'.base = work.base
        /\ work'.inputs = work.inputs /\ work'.number = db.next /\ flush' = None
        /\ db'.files = db.files /\ db'.next = db.next + 1 /\ db.next \in Nat
        /\ db'.pending = db.pending \cup {db.next} /\ UNCHANGED <<held, opening>>
    BY <1>15, OpenOutputDoes DEF DbTypes
  <2>2. phase # "closed"
    BY <2>1 DEF Phases
  <2>3. \A n \in Living' : n \in Living
    BY <2>1, LivingIs, LivingIsThen
  <2>4. db.next \notin Living' /\ db.next < db'.next
    BY <2>1, <2>2, <2>3, LivingAreOld
  <2>5. db.next \in DOMAIN tables'
    BY <1>15, OpenOutputDoes DEF Put
  <2> QED BY <2>1, <2>4, <2>5 DEF WorkGood
<1>16. CASE OutputBuilt
  <2>1. /\ work # None /\ work.stage = "merge" /\ work.number # None /\ phase = "open"
        /\ work'.stage = "apply" /\ work'.base = work.base /\ work'.number = work.number
        /\ work'.edit = Edit({work.number}, work.inputs, db.logNumber, db.next, db.last)
        /\ tables' = [tables EXCEPT ![work.number] = UNION {tables[n] : n \in work.inputs}]
        /\ UNCHANGED <<db, flush>>
    BY <1>16, OutputBuiltDoes
  <2>2. /\ work.number \in DOMAIN tables /\ work.number < db.next /\ work.number \notin Living
        /\ work.inputs \subseteq work.base /\ work.base \subseteq db.files
    BY <2>1 DEF WorkGood
  <2>3. /\ work'.edit.added = {work.number} /\ work'.edit.deleted = work.inputs
        /\ work'.edit.log = db.logNumber /\ work'.edit.next = db.next
          /\ work'.edit.last = db.last
    BY <2>1 DEF Edit
  <2>4. /\ work.inputs \subseteq DOMAIN tables
        /\ UNION {tables[n] : n \in work.inputs} = Entries(tables, work.inputs)
    BY <2>1, InputsExist
  <2>5. /\ DOMAIN tables' = DOMAIN tables /\ tables'[work.number] = Entries(tables, work.inputs)
        /\ \A n \in DOMAIN tables : n # work.number => tables'[n] = tables[n]
    BY <2>1, <2>2, <2>4
  <2>6. work.number \notin work.inputs
    BY <2>2, LivingIs
  <2>7. Entries(tables', work.inputs) = Entries(tables, work.inputs)
    BY <2>4, <2>5, <2>6, EntriesKept
  <2>8. db.logNumber < db.next /\ db.next <= db.next /\ db.last <= db.last
    BY <2>1, LogIsOld DEF DbTypes, Using
  <2>9. \A s \in Entries(tables, work.inputs) : s <= db.last
    BY <2>1, <2>2, EntriesOfMore DEF Memory, Using
  <2> QED BY <2>1, <2>2, <2>3, <2>5, <2>7, <2>8, <2>9 DEF WorkGood
<1>17. CASE CompactionApply
  <2>1. /\ work # None /\ work.stage = "apply" /\ work'.stage = "install"
          /\ work'.base = work.base
        /\ work'.number = work.number /\ work'.edit = work.edit /\ UNCHANGED <<db, tables>>
    BY <1>17, CompactionApplyDoes
  <2> QED BY <2>1 DEF WorkGood
<1>18. CASE CompactionInstall
  <2>1. work' = None
    BY <1>18, CompactionInstallDoes DEF Phases
  <2> QED BY <2>1 DEF WorkGood
<1>19. CASE CompactionFails
  <2>1. work' = None
    BY <1>19, CompactionFailsDoes DEF Phases
  <2> QED BY <2>1 DEF WorkGood
<1>20. CASE OpenFails
  <2>1. work' = None
    BY <1>20 DEF OpenFails, Forget, Phases, Recovering, Using
  <2> QED BY <2>1 DEF WorkGood
<1>21. CASE NewIterator
  <2>1. held' = held \cup {db.files} /\ UNCHANGED <<flush, db, tables, imm, work, opening>>
    BY <1>21 DEF NewIterator, disk
  <2>2. \A n : n \in Living' => n \in Living
    BY <2>1, LivingIs, LivingIsThen
  <2> QED BY <2>1, <2>2 DEF WorkGood
<1>22. ASSUME NEW v \in held, ReleaseIterator(v) PROVE WorkGood'
  <2>1. held' \subseteq held /\ UNCHANGED <<flush, db, tables, imm, work, opening>>
    BY <1>22 DEF ReleaseIterator, disk
  <2>2. \A n : n \in Living' => n \in Living
    BY <2>1, LivingIs, LivingIsThen
  <2> QED BY <2>1, <2>2 DEF WorkGood
<1>23. CASE Closing
  <2>1. work' = None
    BY <1>23 DEF Closing, Forget, Phases, Recovering, Using
  <2> QED BY <2>1 DEF WorkGood
<1>24. ASSUME NEW machine \in BOOLEAN, Stop(machine) PROVE WorkGood'
  <2>1. work' = None
    BY <1>24 DEF Stop, Forget, Phases, Recovering, Using
  <2> QED BY <2>1 DEF WorkGood
<1>25. CASE UNCHANGED <<work, db, tables, held, flush, opening>>
  BY <1>25 DEF WorkGood, Living, LiveVersions
<1>26. CASE Opening
  BY <1>26, <1>1, <1>2, <1>3, <1>4, <1>5, <1>25 DEF Opening, NewDB, SetCurrentFile,
     disk, history, idle, memory
<1>27. ASSUME NEW w \in Writers, Writing(w) PROVE WorkGood'
  BY <1>27, <1>6, <1>25 DEF Writing, WriteRefused, WaitForRoom, SwitchFails,
     NothingToWrite, BeginCommit, disk, history, idle, memory
<1>28. CASE Committing
  BY <1>28, <1>7, <1>25 DEF Committing, AppendRecord, SyncLog, AppendFails,
     SyncFails, AddRecord, Sync, disk, history, idle, memory
<1>29. CASE Background
  BY <1>29, <1>8, <1>9, <1>10, <1>11, <1>12, <1>13, <1>14, <1>15, <1>16, <1>17,
     <1>18, <1>19, <1>25 DEF Background, NothingToDo, disk, history, idle, memory
<1> QED BY <1>26, <1>27, <1>28, <1>29, <1>20, <1>21, <1>22, <1>23, <1>24, <1>25 DEF
   StoreNext, CallWrite, Close, storeVars, disk, memory, history

\* What a log is.
LEMMA RecordsOf ==
  ASSUME LogTypes, NEW n \in DOMAIN logs
  PROVE /\ logs[n].records \in Seq(Records) /\ logs[n].synced \in Nat
        /\ logs[n].synced <= Len(logs[n].records) /\ Len(logs[n].records) \in Nat
        /\ n \in Nat /\ n # 0
BY DEF LogTypes, LogFiles

\* What is left of the logs when the process or the machine stops.
LEMMA LogsStopped ==
  ASSUME LogTypes, NEW machine \in BOOLEAN, Stop(machine)
  PROVE /\ DOMAIN logs' = DOMAIN logs /\ (machine => options.machine)
        /\ \A n \in DOMAIN logs :
             /\ \/ logs'[n].records = logs[n].records
                \/ options.tornOnStop /\ logs'[n].records = Append(logs[n].records, Torn)
                \/ machine /\ logs'[n].records = SubSeq(logs[n].records, 1, logs[n].synced)
             /\ IF machine THEN logs'[n].synced = Len(logs'[n].records)
                ELSE logs'[n].synced = logs[n].synced
<1> DEFINE torn == commit # None /\ commit.stage = "append" /\ options.tornOnStop
           left(n) == IF torn
             /\ n = db.logfile THEN Append(logs[n].records, Torn) ELSE logs[n].records
<1>1. PICK lost \in SUBSET (DOMAIN logs) :
        /\ machine \/ lost = {}
        /\ logs' = [n \in DOMAIN logs |->
                      IF n \in lost THEN Truncated(logs[n], logs[n].synced)
                      ELSE [records |-> left(n),
                            synced |-> IF machine THEN Len(left(n)) ELSE logs[n].synced]]
  BY DEF Stop
<1>2. machine => options.machine
  BY DEF Stop
<1>3. \A n : left(n) = logs[n].records \/ (options.tornOnStop
        /\ left(n) = Append(logs[n].records, Torn))
  OBVIOUS
<1> HIDE DEF left
<1>4. ASSUME NEW n \in DOMAIN logs
      PROVE /\ \/ logs'[n].records = logs[n].records
               \/ options.tornOnStop /\ logs'[n].records = Append(logs[n].records, Torn)
               \/ machine /\ logs'[n].records = SubSeq(logs[n].records, 1, logs[n].synced)
            /\ IF machine THEN logs'[n].synced = Len(logs'[n].records)
               ELSE logs'[n].synced = logs[n].synced
  <2>1. CASE n \in lost
    <3>1. /\ machine /\ logs'[n].records = SubSeq(logs[n].records, 1, logs[n].synced)
          /\ logs'[n].synced = logs[n].synced
      BY <1>1, <2>1 DEF Truncated
    <3>2. Len(SubSeq(logs[n].records, 1, logs[n].synced)) = logs[n].synced
      BY RecordsOf, PrefixType
    <3> QED BY <3>1, <3>2
  <2>2. CASE n \notin lost
    <3>1. /\ logs'[n].records = left(n)
          /\ logs'[n].synced = (IF machine THEN Len(left(n)) ELSE logs[n].synced)
      BY <1>1, <2>2
    <3> QED BY <1>3, <3>1
  <2> QED BY <2>1, <2>2
<1>5. DOMAIN logs' = DOMAIN logs
  BY <1>1
<1> QED BY <1>2, <1>4, <1>5

\* The log that is written goes on.
LEMMA LogsStay ==
  ASSUME LogsGood, DbTypes, LogTypes, UNCHANGED <<options, logs>>,
         phase' \in Using =>
           /\ phase \in Using /\ db'.logfile = db.logfile /\ db'.logNumber = db.logNumber
           /\ db.next <= db'.next /\ db'.next \in Nat
  PROVE LogsGood'
<1>1. options'.reuseLogs => \A n \in DOMAIN logs' : Untorn(logs'[n].records)
  BY DEF LogsGood
<1>2. ASSUME phase' \in Using
      PROVE /\ db'.logfile \in DOMAIN logs' /\ db'.logNumber <= db'.logfile
            /\ Untorn(logs'[db'.logfile].records)
            /\ \A n \in DOMAIN logs' : n < db'.next
  BY <1>2 DEF LogsGood, LogTypes, DbTypes
<1> QED BY <1>1, <1>2 DEF LogsGood

\* A new log.
LEMMA LogMade ==
  ASSUME LogTypes, DbTypes, LogsGood, UNCHANGED options, logs' = Put(logs, db.next, NewLog),
         \A n \in DOMAIN logs : n < db.next, db'.logfile = db.next, db'.next = db.next + 1,
         db'.logNumber = db.logNumber, db.logNumber <= db.next
  PROVE LogsGood'
<1>1. /\ DOMAIN logs' = DOMAIN logs \cup {db.next} /\ db.next \in Nat
      /\ \A n \in DOMAIN logs : logs'[n] = logs[n] /\ n # db.next
      /\ logs'[db.next] = NewLog
  BY DEF Put, LogTypes, DbTypes
<1>2. Untorn(NewLog.records)
  BY DEF NewLog, Untorn
<1>3. options'.reuseLogs => \A n \in DOMAIN logs' : Untorn(logs'[n].records)
  BY <1>1, <1>2 DEF LogsGood
<1>4. \A n \in DOMAIN logs' : n < db'.next
  BY <1>1 DEF LogTypes
<1> QED BY <1>1, <1>2, <1>3, <1>4 DEF LogsGood

\* The log that is written is not collected.
LEMMA LogsCollected ==
  ASSUME LogTypes, DbTypes, LogsGood, phase \in Using, UNCHANGED options,
         NEW d, NEW versions, DeleteObsoleteFiles(d, versions, manifests),
         d.logNumber <= db.logfile, db'.logfile = db.logfile, db'.logNumber = d.logNumber,
         db'.next = db.next
  PROVE LogsGood'
<1>1. /\ DOMAIN logs' \subseteq DOMAIN logs /\ \A n \in DOMAIN logs' : logs'[n] = logs[n]
      /\ \A n \in DOMAIN logs : n >= d.logNumber => n \in DOMAIN logs'
  BY Collected
<1>2. db.logfile \in DOMAIN logs /\ db.logfile >= d.logNumber
  BY DEF LogsGood
<1>3. db.logfile \in DOMAIN logs' /\ logs'[db.logfile] = logs[db.logfile]
  BY <1>1, <1>2
<1>4. options'.reuseLogs => \A n \in DOMAIN logs' : Untorn(logs'[n].records)
  BY <1>1 DEF LogsGood
<1>5. /\ Untorn(logs'[db'.logfile].records) /\ db'.logNumber <= db'.logfile
      /\ db'.logfile \in DOMAIN logs' /\ \A n \in DOMAIN logs' : n < db'.next
  BY <1>1, <1>2, <1>3 DEF LogsGood
<1> QED BY <1>4, <1>5 DEF LogsGood

\* The numbers an open starts from.
LEMMA RecoveryNumbers ==
  ASSUME ManifestTypes, DbTypes, Recovery, Closedness, phase \in Recovering
  PROVE /\ CURRENT \in DOMAIN manifests /\ CURRENT \in Nat /\ AllEdits \in Seq(Edits)
        /\ Sound(AllEdits, CURRENT) /\ NextOf(AllEdits) \in Nat /\ LogOf(AllEdits) \in Nat
        /\ LastOf(AllEdits) \in Nat
        /\ db.logNumber < NextOf(AllEdits) /\ NextOf(AllEdits) < db.next
          /\ db.logNumber < db.next
<1>1. CURRENT \in DOMAIN manifests /\ CURRENT \in Nat /\ CURRENT # None /\ Complete(AllEdits)
  BY CurrentIsRead DEF Recovery
<1>2. AllEdits \in Seq(Edits)
  BY <1>1, EditsHave DEF AllEdits
<1>3. AllEdits \in Readings(CURRENT)
  BY DEF Readings, AllEdits
<1>4. Sound(AllEdits, CURRENT)
  BY <1>1, <1>3 DEF Closedness, Reopenable, Recovering
<1>5. db.logNumber = LogOf(AllEdits) /\ NextOf(AllEdits) < db.next
  BY DEF Recovery
<1>6. db.next \in Nat
  BY DEF DbTypes
<1> QED BY <1>1, <1>2, <1>4, <1>5, <1>6 DEF Sound

\* The log being written exists, none is newer, and what is appended is behind no
\* torn record.
LEMMA LogsGoodKept ==
  ASSUME LogsGood, DbTypes, TableTypes, LogTypes, OptionTypes, ManifestTypes,
           CommitTypes, CommitGood, FlushGood, WorkGood, Phases, Recovery, Closedness,
           [StoreNext]_storeVars
  PROVE LogsGood'
<1>1. CASE RecoverManifest
  <2>1. UNCHANGED <<options, logs>> /\ phase' \notin Using
    BY <1>1 DEF RecoverManifest, disk, Using
  <2> QED BY <2>1, LogsStay
<1>2. CASE RecoverLogFile
  <2>1. UNCHANGED <<options, logs>> /\ phase' \notin Using
    BY <1>2 DEF RecoverLogFile, Using
  <2> QED BY <2>1, LogsStay
<1>3. CASE OpenNewLog
  <2>1. UNCHANGED options /\ phase \in Recovering /\ opening.todo = {}
    BY <1>3, OpenNewLogDoes DEF Recovering
  <2>2. CASE db.logfile # 0
    <3>1. UNCHANGED <<options, logs, db>>
      BY <1>3, <2>2, OpenNewLogDoes
    <3>2. /\ db.logfile \in DOMAIN logs /\ db.logNumber <= db.logfile
          /\ Untorn(logs[db.logfile].records) /\ \A n \in DOMAIN logs : n < db.next
      BY <2>1, <2>2 DEF Recovery
    <3> QED BY <3>1, <3>2 DEF LogsGood
  <2>3. CASE db.logfile = 0
    <3>1. /\ logs' = Put(logs, db.next, NewLog) /\ db'.logfile = db.next
            /\ db'.next = db.next + 1
          /\ db'.logNumber = db.logNumber
      BY <1>3, <2>3, OpenNewLogDoes
    <3>2. \A n \in DOMAIN logs : n < db.next
      BY <2>1 DEF Recovery
    <3>3. db.logNumber <= db.next
      BY <2>1, RecoveryNumbers DEF DbTypes
    <3> QED BY <2>1, <3>1, <3>2, <3>3, LogMade
  <2> QED BY <2>2, <2>3
<1>4. CASE OpenManifest
  <2>1. /\ UNCHANGED <<options, logs>> /\ phase = "manifest" /\ db'.logfile = db.logfile
        /\ db'.logNumber = db.logfile /\ db'.next = db.next
    BY <1>4, OpenManifestDoes
  <2>2. /\ db.logfile \in DOMAIN logs /\ Untorn(logs[db.logfile].records)
        /\ \A n \in DOMAIN logs : n < db.next
    BY <2>1 DEF Recovery, Recovering
  <2>3. db'.logNumber <= db'.logfile
    BY <2>1 DEF DbTypes
  <2> QED BY <2>1, <2>2, <2>3 DEF LogsGood
<1>5. CASE SetCurrentFile
  <2>1. UNCHANGED <<options, logs, db>> /\ phase \in Using
    BY <1>5 DEF SetCurrentFile, Using
  <2>2. db.next <= db'.next /\ db'.next \in Nat
    BY <2>1 DEF DbTypes
  <2> QED BY <2>1, <2>2, LogsStay
<1>6. CASE Opened
  <2>1. phase \in Using /\ UNCHANGED <<options, db>> /\ DeleteObsoleteFiles(db, {}, manifests)
    BY <1>6 DEF Opened, Using
  <2>2. db.logNumber <= db.logfile
    BY <2>1 DEF LogsGood
  <2> QED BY <2>1, <2>2, LogsCollected
<1>7. ASSUME NEW w \in Writers, SwitchMemtable(w) PROVE LogsGood'
  <2>1. /\ phase \in Using /\ UNCHANGED options /\ logs' = Put(logs, db.next, NewLog)
        /\ db'.logfile = db.next /\ db'.next = db.next + 1 /\ db'.logNumber = db.logNumber
    BY <1>7, SwitchMemtableDoes DEF Using
  <2>2. db.logNumber <= db.next
    BY <2>1, LogIsOld DEF DbTypes
  <2> QED BY <2>1, <2>2, LogMade DEF LogsGood
<1>8. CASE AppendRecord
  <2>1. UNCHANGED <<options, db, phase>> /\ commit # None
    BY <1>8 DEF AppendRecord, disk
  <2>2. phase \in Using
    BY <2>1, InBackground DEF Using
  <2>3. db.logfile \in DOMAIN logs
    BY <2>2 DEF LogsGood
  <2>4. logs' = [logs EXCEPT ![db.logfile] = AddRecord(logs[db.logfile], commit.seqs)]
    BY <1>8 DEF AppendRecord
  <2>5. /\ DOMAIN logs' = DOMAIN logs
          /\ logs'[db.logfile].records = Append(logs[db.logfile].records, commit.seqs)
        /\ \A n \in DOMAIN logs : n # db.logfile => logs'[n] = logs[n]
    BY <2>3, <2>4 DEF AddRecord, LogTypes
  <2>6. Untorn(logs'[db.logfile].records)
    <3>1. Untorn(logs[db.logfile].records)
      BY <2>2 DEF LogsGood
    <3>2. commit.seqs \in SUBSET Nat
      BY <2>1 DEF CommitTypes
    <3> QED BY <2>3, <2>5, <3>1, <3>2, RecordsOf, WritesAppended
  <2> QED BY <2>1, <2>2, <2>5, <2>6 DEF LogsGood
<1>9. CASE SyncLog
  <2>1. UNCHANGED <<options, db, phase>> /\ commit # None
    BY <1>9 DEF SyncLog, disk
  <2>2. phase \in Using
    BY <2>1, InBackground DEF Using
  <2>3. db.logfile \in DOMAIN logs
    BY <2>2 DEF LogsGood
  <2>4. logs' = [logs EXCEPT ![db.logfile] = Sync(logs[db.logfile])]
    BY <1>9 DEF SyncLog
  <2>5. /\ DOMAIN logs' = DOMAIN logs
          /\ \A n \in DOMAIN logs : logs'[n].records = logs[n].records
    BY <2>3, <2>4 DEF Sync, LogTypes
  <2> QED BY <2>1, <2>2, <2>3, <2>5 DEF LogsGood
<1>10. CASE FinishCommit
  <2>1. UNCHANGED <<options, logs>> /\ phase' = phase /\ db'.logfile = db.logfile
        /\ db'.logNumber = db.logNumber /\ db.next <= db'.next /\ db'.next \in Nat
    <3>1. UNCHANGED <<options, logs>> /\ phase' = phase /\ db'.logfile = db.logfile
          /\ db'.logNumber = db.logNumber /\ (db'.next = db.next \/ db'.next = db.next + 1)
      BY <1>10, CommitFinished DEF FinishCommit, disk
    <3> QED BY <3>1 DEF DbTypes
  <2> QED BY <2>1, LogsStay
<1>11. CASE AppendFails
  <2>1. UNCHANGED <<options, db, phase, logs>>
    BY <1>11, OptionValues DEF AppendFails
  <2> QED BY <2>1 DEF LogsGood
<1>12. CASE BeginFlush
  <2>1. UNCHANGED <<options, logs>> /\ phase' = phase /\ db'.logfile = db.logfile
        /\ db'.logNumber = db.logNumber /\ db.next <= db'.next /\ db'.next \in Nat
    <3>1. UNCHANGED <<options, logs>> /\ phase' = phase /\ db'.logfile = db.logfile
          /\ db'.logNumber = db.logNumber /\ (db'.next = db.next \/ db'.next = db.next + 1)
      BY <1>12, BeginFlushDoes
    <3> QED BY <3>1 DEF DbTypes
  <2> QED BY <2>1, LogsStay
<1>13. CASE FlushBuilt
  <2>1. UNCHANGED <<options, logs>> /\ phase' = phase /\ db'.logfile = db.logfile
        /\ db'.logNumber = db.logNumber /\ db.next <= db'.next /\ db'.next \in Nat
    <3>1. UNCHANGED <<options, logs>> /\ phase' = phase /\ db'.logfile = db.logfile
          /\ db'.logNumber = db.logNumber /\ (db'.next = db.next \/ db'.next = db.next + 1)
      BY <1>13, FlushBuiltDoes
    <3> QED BY <3>1 DEF DbTypes
  <2> QED BY <2>1, LogsStay
<1>14. CASE BuildFails
  <2>1. UNCHANGED <<options, logs>> /\ phase' = phase /\ db'.logfile = db.logfile
        /\ db'.logNumber = db.logNumber /\ db.next <= db'.next /\ db'.next \in Nat
    <3>1. UNCHANGED <<options, logs>> /\ phase' = phase /\ db'.logfile = db.logfile
          /\ db'.logNumber = db.logNumber /\ (db'.next = db.next \/ db'.next = db.next + 1)
      BY <1>14, BuildFailsDoes
    <3> QED BY <3>1 DEF DbTypes
  <2> QED BY <2>1, LogsStay
<1>15. CASE FlushApplyFails
  <2>1. UNCHANGED <<options, logs>> /\ phase' = phase /\ db'.logfile = db.logfile
        /\ db'.logNumber = db.logNumber /\ db.next <= db'.next /\ db'.next \in Nat
    <3>1. UNCHANGED <<options, logs>> /\ phase' = phase /\ db'.logfile = db.logfile
          /\ db'.logNumber = db.logNumber /\ (db'.next = db.next \/ db'.next = db.next + 1)
      BY <1>15, FlushApplyFailsDoes
    <3> QED BY <3>1 DEF DbTypes
  <2> QED BY <2>1, LogsStay
<1>16. CASE FlushInstall
  <2>1. /\ flush # None /\ flush.stage = "install" /\ UNCHANGED options
        /\ DeleteObsoleteFiles(db', LiveVersions, manifests) /\ db'.logNumber = flush.edit.log
        /\ db'.logfile = db.logfile /\ db'.next = db.next
    BY <1>16, FlushInstallDoes
  <2>2. phase \in Using
    BY <2>1, InBackground DEF Using
  <2>3. db'.logNumber <= db.logfile
    BY <2>1 DEF FlushGood, DbTypes
  <2> QED BY <2>1, <2>2, <2>3, LogsCollected
<1>17. CASE OpenOutput
  <2>1. UNCHANGED <<options, logs>> /\ phase' = phase /\ db'.logfile = db.logfile
        /\ db'.logNumber = db.logNumber /\ db.next <= db'.next /\ db'.next \in Nat
    <3>1. UNCHANGED <<options, logs>> /\ phase' = phase /\ db'.logfile = db.logfile
          /\ db'.logNumber = db.logNumber /\ (db'.next = db.next \/ db'.next = db.next + 1)
      BY <1>17, OpenOutputDoes
    <3> QED BY <3>1 DEF DbTypes
  <2> QED BY <2>1, LogsStay
<1>18. CASE CompactionInstall
  <2>1. /\ work # None /\ work.stage = "install" /\ UNCHANGED options
        /\ DeleteObsoleteFiles(db', held, manifests) /\ db'.logNumber = work.edit.log
        /\ db'.logfile = db.logfile /\ db'.next = db.next
    BY <1>18, CompactionInstallDoes
  <2>2. phase \in Using
    BY <2>1, InBackground DEF Using
  <2>3. db'.logNumber <= db.logfile
    BY <2>1, <2>2, LogIsOld DEF WorkGood
  <2> QED BY <2>1, <2>2, <2>3, LogsCollected
<1>19. CASE CompactionFails
  <2>1. UNCHANGED <<options, logs>> /\ phase' = phase /\ db'.logfile = db.logfile
        /\ db'.logNumber = db.logNumber /\ db.next <= db'.next /\ db'.next \in Nat
    <3>1. UNCHANGED <<options, logs>> /\ phase' = phase /\ db'.logfile = db.logfile
          /\ db'.logNumber = db.logNumber /\ (db'.next = db.next \/ db'.next = db.next + 1)
      BY <1>19, CompactionFailsDoes
    <3> QED BY <3>1 DEF DbTypes
  <2> QED BY <2>1, LogsStay
<1>20. CASE OpenFails
  <2>1. UNCHANGED <<options, logs>> /\ phase' \notin Using
    BY <1>20 DEF OpenFails, Forget, Using
  <2> QED BY <2>1, LogsStay
<1>21. CASE Close
  <2>1. UNCHANGED <<options, logs, db>> /\ phase \in Using
    BY <1>21 DEF Close, disk, Using
  <2>2. db.next <= db'.next /\ db'.next \in Nat
    BY <2>1 DEF DbTypes
  <2> QED BY <2>1, <2>2, LogsStay
<1>22. CASE Closing
  <2>1. UNCHANGED <<options, logs>> /\ phase' \notin Using
    BY <1>22 DEF Closing, Forget, disk, Using
  <2> QED BY <2>1, LogsStay
<1>23. ASSUME NEW machine \in BOOLEAN, Stop(machine) PROVE LogsGood'
  <2>1. phase' \notin Using /\ UNCHANGED options
    BY <1>23 DEF Stop, Forget, Using
  <2>2. ASSUME options'.reuseLogs, NEW n \in DOMAIN logs' PROVE Untorn(logs'[n].records)
    <3>1. ~options.tornOnStop /\ ~options.machine /\ options.reuseLogs
      BY <2>1, <2>2, OptionValues
    <3>2. n \in DOMAIN logs /\ logs'[n].records = logs[n].records
      BY <1>23, <2>2, <3>1, LogsStopped
    <3> QED BY <3>1, <3>2 DEF LogsGood
  <2> QED BY <2>1, <2>2 DEF LogsGood
<1>24. CASE UNCHANGED <<options, logs, db, phase>>
  BY <1>24 DEF LogsGood
<1>25. CASE Opening
  BY <1>25, <1>1, <1>2, <1>3, <1>4, <1>5, <1>6, <1>24 DEF Opening, NewDB, disk,
     history, idle, memory
<1>26. ASSUME NEW w \in Writers, Writing(w) PROVE LogsGood'
  BY <1>26, <1>7, <1>24 DEF Writing, WriteRefused, WaitForRoom, SwitchFails,
     NothingToWrite, BeginCommit, disk, history, idle, memory
<1>27. CASE Committing
  BY <1>27, <1>8, <1>9, <1>10, <1>11, <1>24 DEF Committing, SyncFails, disk, history,
     idle, memory
<1>28. CASE Background
  BY <1>28, <1>12, <1>13, <1>14, <1>15, <1>16, <1>17, <1>18, <1>19, <1>24 DEF
     Background, NothingToDo, FlushApply, BeginCompaction, OutputBuilt,
     CompactionApply, WriteEdit, disk, history, idle, memory
<1> QED BY <1>25, <1>26, <1>27, <1>28, <1>20, <1>21, <1>22, <1>23, <1>24 DEF StoreNext,
   CallWrite, NewIterator, ReleaseIterator, storeVars, disk, memory, history

\* A log made or changed by one record has its writes bounded.
LEMMA RecordsBounded ==
  ASSUME Bounded, NEW n \in Nat, logs' = logs \/ logs' = Put(logs, n, NewLog)
  PROVE Bounded'
<1>1. PICK b \in Nat : \A m \in DOMAIN logs : \A i \in DOMAIN logs[m].records :
                         \A s \in logs[m].records[i] : s <= b
  BY DEF Bounded
<1>2. DOMAIN NewLog.records = {}
  BY DEF NewLog
<1>3. \A m \in DOMAIN logs' : (m \in DOMAIN logs /\ logs'[m] = logs[m]) \/ logs'[m] = NewLog
  BY DEF Put
<1>4. \A m \in DOMAIN logs' : \A i \in DOMAIN logs'[m].records : \A s \in logs'[m].records[i] :
        s <= b
  BY <1>1, <1>2, <1>3
<1> QED BY <1>4 DEF Bounded

\* There is a greatest write in the logs, as RecoverLogFile takes a maximum.
LEMMA BoundedKept ==
  ASSUME Bounded, DbTypes, LogTypes, OptionTypes, CommitTypes, CommitGood, Phases,
           [StoreNext]_storeVars
  PROVE Bounded'
<1>1. CASE OpenNewLog
  <2>1. \E n \in Nat : logs' = logs \/ logs' = Put(logs, n, NewLog)
    BY <1>1, OpenNewLogDoes DEF DbTypes
  <2> QED BY <2>1, RecordsBounded
<1>2. CASE Opened
  <2>1. DOMAIN logs' \subseteq DOMAIN logs /\ \A n \in DOMAIN logs' : logs'[n] = logs[n]
    BY <1>2, Collected DEF Opened
  <2> QED BY <2>1 DEF Bounded
<1>3. ASSUME NEW w \in Writers, SwitchMemtable(w) PROVE Bounded'
  <2>1. \E n \in Nat : logs' = logs \/ logs' = Put(logs, n, NewLog)
    BY <1>3, SwitchMemtableDoes DEF DbTypes
  <2> QED BY <2>1, RecordsBounded
<1>4. CASE AppendRecord
  <2>1. PICK b \in Nat : \A m \in DOMAIN logs : \A i \in DOMAIN logs[m].records :
                           \A s \in logs[m].records[i] : s <= b
    BY DEF Bounded
  <2>2. PICK c \in Nat : \A s \in commit.seqs : s \in Nat /\ s <= c
    <3>1. db.last + commit.size \in Nat /\ \A s \in commit.seqs : s \in Nat
            /\ s <= db.last + commit.size
      BY <1>4 DEF AppendRecord, CommitGood, CommitTypes, DbTypes
    <3> QED BY <3>1
  <2>3. logs' = [logs EXCEPT ![db.logfile] = AddRecord(logs[db.logfile], commit.seqs)]
    BY <1>4 DEF AppendRecord
  <2>4. ASSUME NEW m \in DOMAIN logs', NEW i \in DOMAIN logs'[m].records,
               NEW s \in logs'[m].records[i]
        PROVE s <= b + c
    <3>1. m \in DOMAIN logs
      BY <2>3
    <3>2. /\ logs[m].records \in Seq(Records) /\ Len(logs[m].records) \in Nat
          /\ DOMAIN logs[m].records = 1 .. Len(logs[m].records)
      BY <3>1, RecordsOf
    <3>3. \/ i \in DOMAIN logs[m].records /\ logs'[m].records[i] = logs[m].records[i]
          \/ logs'[m].records[i] = commit.seqs
      <4>1. CASE m # db.logfile
        BY <2>3, <2>4, <3>1, <4>1
      <4>2. CASE m = db.logfile
        <5>1. logs'[m].records = Append(logs[m].records, commit.seqs)
          BY <2>3, <3>1, <4>2 DEF AddRecord
        <5> QED BY <2>4, <3>2, <5>1
      <4> QED BY <4>1, <4>2
    <3>4. CASE i \in DOMAIN logs[m].records /\ logs'[m].records[i] = logs[m].records[i]
      <4>1. s \in logs[m].records[i] /\ s <= b
        <5>1. s \in logs[m].records[i]
          BY <2>4, <3>4
        <5> QED BY <2>1, <3>1, <3>4, <5>1
      <4>2. logs[m].records[i] \in Records
        BY <3>2, <3>4
      <4>3. s \in Int
        BY <4>1, <4>2 DEF Records, Torn
      <4> QED BY <4>1, <4>3
    <3>5. CASE logs'[m].records[i] = commit.seqs
      BY <2>2, <2>4, <3>5
    <3> QED BY <3>3, <3>4, <3>5
  <2>5. b + c \in Nat
    OBVIOUS
  <2> QED BY <2>4, <2>5 DEF Bounded
<1>5. CASE SyncLog
  <2>1. logs' = [logs EXCEPT ![db.logfile] = Sync(logs[db.logfile])]
    BY <1>5 DEF SyncLog
  <2>2. DOMAIN logs' = DOMAIN logs /\ \A n \in DOMAIN logs : logs'[n].records = logs[n].records
    BY <2>1 DEF Sync
  <2> QED BY <2>2 DEF Bounded
<1>6. CASE AppendFails
  <2>1. UNCHANGED logs
    BY <1>6, OptionValues DEF AppendFails
  <2> QED BY <2>1 DEF Bounded
<1>7. CASE FlushInstall
  <2>1. DOMAIN logs' \subseteq DOMAIN logs /\ \A n \in DOMAIN logs' : logs'[n] = logs[n]
    BY <1>7, Collected DEF FlushInstall
  <2> QED BY <2>1 DEF Bounded
<1>8. CASE CompactionInstall
  <2>1. DOMAIN logs' \subseteq DOMAIN logs /\ \A n \in DOMAIN logs' : logs'[n] = logs[n]
    BY <1>8, Collected DEF CompactionInstall
  <2> QED BY <2>1 DEF Bounded
<1>9. ASSUME NEW machine \in BOOLEAN, Stop(machine) PROVE Bounded'
  <2>1. PICK b \in Nat : \A m \in DOMAIN logs : \A i \in DOMAIN logs[m].records :
                           \A s \in logs[m].records[i] : s <= b
    BY DEF Bounded
  <2>2. ASSUME NEW m \in DOMAIN logs', NEW i \in DOMAIN logs'[m].records,
               NEW s \in logs'[m].records[i]
        PROVE s <= b
    <3>1. m \in DOMAIN logs
      BY <1>9, LogsStopped
    <3>2. \/ logs'[m].records = logs[m].records
          \/ logs'[m].records = Append(logs[m].records, Torn)
          \/ logs'[m].records = SubSeq(logs[m].records, 1, logs[m].synced)
      BY <1>9, <3>1, LogsStopped
    <3>3. /\ logs[m].records \in Seq(Records) /\ logs[m].synced \in Nat
          /\ logs[m].synced <= Len(logs[m].records)
      BY <3>1, RecordsOf
    <3>4. \/ i \in DOMAIN logs[m].records /\ logs'[m].records[i] = logs[m].records[i]
          \/ logs'[m].records[i] = Torn
      <4>1. CASE logs'[m].records = logs[m].records
        BY <2>2, <4>1
      <4>2. CASE logs'[m].records = Append(logs[m].records, Torn)
        BY <2>2, <3>3, <4>2
      <4>3. CASE logs'[m].records = SubSeq(logs[m].records, 1, logs[m].synced)
        <5> DEFINE r == logs[m].records
                   k == logs[m].synced
        <5>1. r \in Seq(Records) /\ k \in Nat /\ k <= Len(r) /\ i \in DOMAIN SubSeq(r, 1, k)
          BY <2>2, <3>3, <4>3
        <5> HIDE DEF r, k
        <5>2. i \in DOMAIN r /\ SubSeq(r, 1, k)[i] = r[i]
          BY <5>1
        <5> QED BY <4>3, <5>2 DEF r, k
      <4> QED BY <3>2, <4>1, <4>2, <4>3
    <3>5. CASE logs'[m].records[i] = Torn
      <4>1. s \in Torn
        BY <2>2, <3>5
      <4>2. s = -1
        BY <4>1 DEF Torn
      <4> QED BY <2>1, <4>2
    <3>6. CASE i \in DOMAIN logs[m].records /\ logs'[m].records[i] = logs[m].records[i]
      BY <2>1, <2>2, <3>1, <3>6
    <3> QED BY <3>4, <3>5, <3>6
  <2> QED BY <2>2 DEF Bounded
<1>10. CASE UNCHANGED <<logs>>
  BY <1>10 DEF Bounded
<1>11. CASE Opening
  BY <1>11, <1>1, <1>2, <1>10 DEF Opening, NewDB, RecoverManifest, RecoverLogFile,
     OpenManifest, SetCurrentFile, disk, history, idle, memory
<1>12. ASSUME NEW w \in Writers, Writing(w) PROVE Bounded'
  BY <1>12, <1>3, <1>10 DEF Writing, WriteRefused, WaitForRoom, SwitchFails,
     NothingToWrite, BeginCommit, disk, history, idle, memory
<1>13. CASE Committing
  BY <1>13, <1>4, <1>5, <1>6, <1>10 DEF Committing, FinishCommit, SyncFails, disk,
     history, idle, memory
<1>14. CASE Background
  BY <1>14, <1>7, <1>8, <1>10 DEF Background, NothingToDo, BeginFlush, FlushBuilt,
     BuildFails, FlushApply, FlushApplyFails, BeginCompaction, OpenOutput,
     OutputBuilt, CompactionApply, CompactionFails, AppendEdit, FlushFailed,
     WriteEdit, disk, history, idle, memory
<1> QED BY <1>11, <1>12, <1>13, <1>14, <1>9, <1>10 DEF StoreNext, OpenFails, CallWrite,
   NewIterator, ReleaseIterator, Close, Closing, Forget, storeVars, disk, memory,
   history

\* What is synced of a log,
LEMMA SyncedAre ==
  ASSUME NEW n \in DOMAIN logs
  PROVE SyncedRecords[n] = SubSeq(logs[n].records, 1, logs[n].synced)
BY DEF SyncedRecords

\* and after a step.
LEMMA SyncedAreThen ==
  ASSUME NEW n \in DOMAIN logs'
  PROVE SyncedRecords'[n] = SubSeq(logs'[n].records, 1, logs'[n].synced)
BY DEF SyncedRecords

\* A step of the background thread leaves the group.
LEMMA CommitStays ==
  ASSUME CommitGood, UNCHANGED <<options, commit>>, db'.last = db.last, db'.logfile =
                                 db.logfile,
         commit # None => /\ db.logfile \in DOMAIN logs /\ db.logfile \in DOMAIN logs'
                          /\ logs'[db.logfile] = logs[db.logfile]
  PROVE CommitGood'
<1>1. CASE commit = None
  BY <1>1 DEF CommitGood
<1>2. CASE commit # None
  <2>1. SyncedRecords'[db'.logfile] = SyncedRecords[db.logfile]
    <3> DEFINE n == db.logfile
    <3>1. n \in DOMAIN logs /\ n \in DOMAIN logs' /\ logs'[n] = logs[n] /\ db'.logfile = n
      BY <1>2
    <3> HIDE DEF n
    <3>2. SyncedRecords'[n] = SyncedRecords[n]
      BY <3>1, SyncedAre, SyncedAreThen
    <3> QED BY <3>1, <3>2 DEF n
  <2>2. logs'[db'.logfile].records = logs[db.logfile].records
    BY <1>2
  <2> QED BY <1>2, <2>1, <2>2 DEF CommitGood
<1> QED BY <1>1, <1>2

\* The group is written to a log that exists.
LEMMA LogfileIsThere ==
  ASSUME Phases, LogsGood, phase \in Using \/ commit # None
  PROVE /\ db.logfile \in DOMAIN logs /\ db.logNumber <= db.logfile
        /\ Untorn(logs[db.logfile].records)
BY InBackground DEF LogsGood, Using

\* The stages of a group.
LEMMA CommitStaged ==
  ASSUME CommitTypes, commit # None, NEW s, commit' = [commit EXCEPT !.stage = s]
  PROVE /\ commit'.seqs = commit.seqs /\ commit'.promised = commit.promised
        /\ commit'.size = commit.size /\ commit'.stage = s
BY DEF CommitTypes

\* The group has new numbers; once it is appended the log has it, and once it is to
\* be inserted what was to be synced is synced.
LEMMA CommitGoodKept ==
  ASSUME CommitGood, CommitTypes, Queue, QueueTypes, DbTypes, LogTypes, OptionTypes,
           FlushGood, WorkGood, LogsGood, Phases, [StoreNext]_storeVars
  PROVE CommitGood'
<1>1. CASE RecoverManifest
  <2>1. commit' = None
    BY <1>1 DEF RecoverManifest, idle, Phases
  <2> QED BY <2>1 DEF CommitGood
<1>2. CASE RecoverLogFile
  <2>1. commit' = None
    BY <1>2 DEF RecoverLogFile, idle, Phases
  <2> QED BY <2>1 DEF CommitGood
<1>3. CASE OpenNewLog
  <2>1. commit' = None
    BY <1>3 DEF OpenNewLog, idle, Phases
  <2> QED BY <2>1 DEF CommitGood
<1>4. CASE OpenManifest
  <2>1. commit' = None
    BY <1>4 DEF OpenManifest, idle, Phases
  <2> QED BY <2>1 DEF CommitGood
<1>5. CASE Opened
  <2>1. commit' = None
    BY <1>5 DEF Opened, idle, Phases
  <2> QED BY <2>1 DEF CommitGood
<1>6. ASSUME NEW w \in Writers, SwitchMemtable(w) PROVE CommitGood'
  <2>1. commit' = None
    BY <1>6, SwitchMemtableDoes
  <2> QED BY <2>1 DEF CommitGood
<1>7. ASSUME NEW w \in Writers, BeginCommit(w) PROVE CommitGood'
  <2>1. /\ commit'.stage = "append" /\ commit'.seqs # {}
          /\ commit'.promised \subseteq commit'.seqs
        /\ \A s \in commit'.seqs : db.last < s /\ s <= db.last + commit'.size
    BY <1>7, CommitBegun
  <2>2. UNCHANGED db
    BY <1>7 DEF BeginCommit
  <2> QED BY <2>1, <2>2 DEF CommitGood
<1>8. CASE AppendRecord
  <2>1. /\ commit # None /\ UNCHANGED <<options, db>>
        /\ db.logfile \in DOMAIN logs /\ Untorn(logs[db.logfile].records)
    BY <1>8, LogfileIsThere DEF AppendRecord
  <2>2. /\ logs[db.logfile].records \in Seq(Records) /\ Len(logs[db.logfile].records) \in Nat
        /\ logs[db.logfile].synced <= Len(logs[db.logfile].records)
        /\ logs[db.logfile].synced \in Nat
    BY <2>1, RecordsOf
  <2>3. commit.seqs \in SUBSET Nat /\ commit.promised \subseteq commit.seqs
    BY <2>1 DEF CommitTypes, CommitGood
  <2>4. /\ logs' = [logs EXCEPT ![db.logfile] = AddRecord(logs[db.logfile], commit.seqs)]
        /\ commit.stage = "append"
        /\ commit' = [commit EXCEPT !.stage = IF op[Front1].sync THEN "sync" ELSE "insert"]
    BY <1>8 DEF AppendRecord
  <2>5. /\ commit'.seqs = commit.seqs /\ commit'.promised = commit.promised
        /\ commit'.size = commit.size
        /\ commit'.stage = (IF op[Front1].sync THEN "sync" ELSE "insert")
    BY <2>1, <2>4, CommitStaged
  <2>6. logs'[db.logfile].records = Append(logs[db.logfile].records, commit.seqs)
    BY <2>1, <2>4 DEF AddRecord
  <2>7. commit.seqs \subseteq Writes(logs'[db.logfile].records)
    BY <2>1, <2>2, <2>3, <2>6, WritesAppended
  <2>8. commit'.stage = "insert" => commit'.promised = {}
    BY <2>1, <2>5 DEF Queue, Front1
  <2>9. /\ commit'.seqs # {} /\ commit'.promised \subseteq commit'.seqs
        /\ \A s \in commit'.seqs : db'.last < s /\ s <= db'.last + commit'.size
    BY <2>1, <2>5 DEF CommitGood
  <2> QED BY <2>1, <2>5, <2>7, <2>8, <2>9 DEF CommitGood
<1>9. CASE SyncLog
  <2>1. /\ commit # None /\ UNCHANGED <<options, db>>
        /\ db.logfile \in DOMAIN logs /\ Untorn(logs[db.logfile].records)
    BY <1>9, LogfileIsThere DEF SyncLog
  <2>2. /\ logs[db.logfile].records \in Seq(Records) /\ Len(logs[db.logfile].records) \in Nat
        /\ logs[db.logfile].synced <= Len(logs[db.logfile].records)
        /\ logs[db.logfile].synced \in Nat
    BY <2>1, RecordsOf
  <2>3. commit.seqs \in SUBSET Nat /\ commit.promised \subseteq commit.seqs
    BY <2>1 DEF CommitTypes, CommitGood
  <2>4. /\ logs' = [logs EXCEPT ![db.logfile] = Sync(logs[db.logfile])]
        /\ commit.stage = "sync" /\ commit' = [commit EXCEPT !.stage = "insert"]
    BY <1>9 DEF SyncLog
  <2>5. /\ commit'.seqs = commit.seqs /\ commit'.promised = commit.promised
        /\ commit'.size = commit.size /\ commit'.stage = "insert"
    BY <2>1, <2>4, CommitStaged
  <2>6. /\ logs'[db.logfile].records = logs[db.logfile].records /\ db.logfile \in DOMAIN logs'
        /\ logs'[db.logfile].synced = Len(logs[db.logfile].records)
    BY <2>1, <2>4 DEF Sync
  <2>7. SyncedRecords'[db.logfile] = logs[db.logfile].records
    BY <2>2, <2>6, SyncedAreThen, WholePrefix
  <2>8. commit.seqs \subseteq Writes(logs[db.logfile].records)
    BY <2>1, <2>4 DEF CommitGood
  <2>9. commit.promised \subseteq Writes(SyncedRecords'[db'.logfile])
    BY <2>1, <2>3, <2>7, <2>8
  <2> QED BY <2>1, <2>5, <2>6, <2>8, <2>9 DEF CommitGood
<1>10. CASE FinishCommit
  <2>1. commit' = None
    BY <1>10 DEF FinishCommit
  <2> QED BY <2>1 DEF CommitGood
<1>11. CASE AppendFails
  <2>1. /\ commit # None /\ commit' = [commit EXCEPT !.stage = "failed"] /\ UNCHANGED db
    BY <1>11 DEF AppendFails
  <2>2. /\ commit'.seqs = commit.seqs /\ commit'.promised = commit.promised
        /\ commit'.size = commit.size /\ commit'.stage = "failed"
    BY <2>1, CommitStaged
  <2> QED BY <2>1, <2>2 DEF CommitGood
<1>12. CASE SyncFails
  <2>1. /\ commit # None /\ commit' = [commit EXCEPT !.stage = "unsynced"]
        /\ UNCHANGED <<db, logs>>
        /\ commit.stage = "sync"
    BY <1>12 DEF SyncFails, disk
  <2>2. /\ commit'.seqs = commit.seqs /\ commit'.promised = commit.promised
        /\ commit'.size = commit.size /\ commit'.stage = "unsynced"
    BY <2>1, CommitStaged
  <2> QED BY <2>1, <2>2 DEF CommitGood
<1>13. CASE BeginFlush
  <2>1. UNCHANGED <<options, commit, logs>> /\ db'.last = db.last /\ db'.logfile = db.logfile
    BY <1>13, BeginFlushDoes
  <2> QED BY <2>1, LogfileIsThere, CommitStays
<1>14. CASE FlushBuilt
  <2>1. UNCHANGED <<options, commit, logs>> /\ db'.last = db.last /\ db'.logfile = db.logfile
    BY <1>14, FlushBuiltDoes
  <2> QED BY <2>1, LogfileIsThere, CommitStays
<1>15. CASE BuildFails
  <2>1. UNCHANGED <<options, commit, logs>> /\ db'.last = db.last /\ db'.logfile = db.logfile
    BY <1>15, BuildFailsDoes
  <2> QED BY <2>1, LogfileIsThere, CommitStays
<1>16. CASE FlushApplyFails
  <2>1. UNCHANGED <<options, commit, logs>> /\ db'.last = db.last /\ db'.logfile = db.logfile
    BY <1>16, FlushApplyFailsDoes
  <2> QED BY <2>1, LogfileIsThere, CommitStays
<1>17. CASE FlushInstall
  <2>1. /\ flush # None /\ flush.stage = "install" /\ UNCHANGED <<options, commit>>
        /\ db'.last = db.last /\ db'.logfile = db.logfile /\ db'.logNumber = flush.edit.log
        /\ DeleteObsoleteFiles(db', LiveVersions, manifests)
    BY <1>17, FlushInstallDoes
  <2>2. phase \in Using
    BY <2>1, InBackground DEF Using
  <2>3. db.logfile \in DOMAIN logs /\ db'.logNumber <= db.logfile
    BY <2>1, <2>2, LogfileIsThere DEF FlushGood, DbTypes
  <2>4. db.logfile \in DOMAIN logs' /\ logs'[db.logfile] = logs[db.logfile]
    BY <2>1, <2>3, Collected
  <2> QED BY <2>1, <2>3, <2>4, CommitStays
<1>18. CASE OpenOutput
  <2>1. UNCHANGED <<options, commit, logs>> /\ db'.last = db.last /\ db'.logfile = db.logfile
    BY <1>18, OpenOutputDoes
  <2> QED BY <2>1, LogfileIsThere, CommitStays
<1>19. CASE CompactionInstall
  <2>1. /\ work # None /\ work.stage = "install" /\ UNCHANGED <<options, commit>>
        /\ db'.last = db.last /\ db'.logfile = db.logfile /\ db'.logNumber = work.edit.log
        /\ DeleteObsoleteFiles(db', held, manifests)
    BY <1>19, CompactionInstallDoes
  <2>2. phase \in Using
    BY <2>1, InBackground DEF Using
  <2>3. db.logfile \in DOMAIN logs /\ db'.logNumber <= db.logfile
    BY <2>1, <2>2, LogfileIsThere DEF WorkGood, DbTypes
  <2>4. db.logfile \in DOMAIN logs' /\ logs'[db.logfile] = logs[db.logfile]
    BY <2>1, <2>3, Collected
  <2> QED BY <2>1, <2>3, <2>4, CommitStays
<1>20. CASE CompactionFails
  <2>1. UNCHANGED <<options, commit, logs>> /\ db'.last = db.last /\ db'.logfile = db.logfile
    BY <1>20, CompactionFailsDoes
  <2> QED BY <2>1, LogfileIsThere, CommitStays
<1>21. CASE OpenFails
  <2>1. commit' = None
    BY <1>21 DEF OpenFails, Forget
  <2> QED BY <2>1 DEF CommitGood
<1>22. CASE Closing
  <2>1. commit' = None
    BY <1>22 DEF Closing, Forget
  <2> QED BY <2>1 DEF CommitGood
<1>23. ASSUME NEW machine \in BOOLEAN, Stop(machine) PROVE CommitGood'
  <2>1. commit' = None
    BY <1>23 DEF Stop, Forget
  <2> QED BY <2>1 DEF CommitGood
<1>24. CASE UNCHANGED <<options, logs, db, commit>>
  BY <1>24 DEF CommitGood, SyncedRecords
<1>25. CASE Opening
  BY <1>25, <1>1, <1>2, <1>3, <1>4, <1>5, <1>24 DEF Opening, NewDB, SetCurrentFile,
     disk, history, idle, memory
<1>26. ASSUME NEW w \in Writers, Writing(w) PROVE CommitGood'
  BY <1>26, <1>6, <1>7, <1>24 DEF Writing, WriteRefused, WaitForRoom, SwitchFails,
     NothingToWrite, disk, history, idle, memory
<1>27. CASE Committing
  BY <1>27, <1>8, <1>9, <1>10, <1>11, <1>12 DEF Committing
<1>28. CASE Background
  BY <1>28, <1>13, <1>14, <1>15, <1>16, <1>17, <1>18, <1>19, <1>20, <1>24 DEF
     Background, NothingToDo, FlushApply, BeginCompaction, OutputBuilt,
     CompactionApply, WriteEdit, disk, history, idle, memory
<1> QED BY <1>25, <1>26, <1>27, <1>28, <1>21, <1>22, <1>23, <1>24 DEF StoreNext, CallWrite,
   NewIterator, ReleaseIterator, Close, storeVars, disk, memory, history

\* What an open could read of the MANIFEST in use, and what an edit adds to it.
LEMMA ReadIs ==
  /\ manifests[db.manifest].edits \in Read
  /\ \A edits \in Read : \/ edits = manifests[db.manifest].edits
                         \/ /\ options.machine
                            /\ edits = SubSeq(manifests[db.manifest].edits, 1, manifests[db.manifest].synced)
BY DEF Read, Readings

\* After a step.
LEMMA ReadThen ==
  \A edits \in Read' : \/ edits = manifests'[db'.manifest].edits
                       \/ /\ options'.machine
                          /\ edits = SubSeq(manifests'[db'.manifest].edits, 1, manifests'[db'.manifest].synced)
BY DEF Read, Readings

\* No step that leaves the MANIFEST in use changes what could be read of it.
LEMMA ReadKept ==
  ASSUME UNCHANGED options, db'.manifest = db.manifest,
         manifests'[db.manifest] = manifests[db.manifest]
  PROVE Read' = Read
BY DEF Read, Readings

\* What every reading has.
LEMMA ReadFits ==
  ASSUME ManifestTypes, DbTypes, Manifest, phase \in Using, NEW edits \in Read
  PROVE /\ Fits(edits) /\ edits \in Seq(Edits)
        /\ FilesOf(edits) \subseteq DOMAIN tables /\ FilesOf(edits) \in SUBSET Nat
        /\ \A n \in FilesOf(edits) : n < db.next /\ n # db.next
        /\ LogOf(edits) \in Nat /\ LogOf(edits) <= db.logfile
        /\ NextOf(edits) \in Nat /\ NextOf(edits) <= db.next
        /\ LastOf(edits) \in Nat /\ LastOf(edits) <= db.last
<1>1. Fits(edits) /\ db.manifest \in DOMAIN manifests
  BY DEF Manifest
<1>2. edits \in Seq(Edits)
  <2>1. /\ manifests[db.manifest].edits \in Seq(Edits) /\ manifests[db.manifest].synced \in Nat
        /\ manifests[db.manifest].synced <= Len(manifests[db.manifest].edits)
    BY <1>1, EditsHave
  <2>2. SubSeq(manifests[db.manifest].edits, 1, manifests[db.manifest].synced) \in Seq(Edits)
    BY <2>1, PrefixType
  <2> QED BY <2>1, <2>2, ReadIs
<1>3. FilesOf(edits) \in SUBSET Nat
  BY <1>2, GivenTypes
<1>4. /\ NextOf(edits) \in Nat /\ LogOf(edits) \in Nat /\ LastOf(edits) \in Nat
      /\ FilesOf(edits) \subseteq DOMAIN tables
      /\ \A f \in FilesOf(edits) : f < NextOf(edits)
      /\ NextOf(edits) <= db.next /\ LastOf(edits) <= db.last /\ LogOf(edits) <= db.logfile
  BY <1>1 DEF Fits, Stored, Sound
<1>5. \A n \in FilesOf(edits) : n < db.next /\ n # db.next
  BY <1>3, <1>4 DEF DbTypes
<1> QED BY <1>1, <1>2, <1>3, <1>4, <1>5

\* What could be read after an edit was synced, or appended only.
LEMMA EditWritten ==
  ASSUME ManifestTypes, db'.manifest = db.manifest, CURRENT = db.manifest,
         CURRENT \in DOMAIN manifests, UNCHANGED options, NEW e \in Edits,
         WriteEdit(e) \/ AppendEdit(e)
  PROVE \A edits \in Read' : \/ edits \in Read
                             \/ edits = Append(manifests[db.manifest].edits, e)
<1> DEFINE edits == manifests[db.manifest].edits
           k == manifests[db.manifest].synced
<1>1. edits \in Seq(Edits) /\ k \in Nat /\ k <= Len(edits) /\ Len(edits) \in Nat
  BY EditsHave
<1>2. /\ manifests'[db'.manifest].edits = Append(edits, e)
      /\ manifests'[db'.manifest].synced \in {k, Len(edits) + 1}
  <2>1. CASE WriteEdit(e)
    BY <2>1 DEF WriteEdit
  <2>2. CASE AppendEdit(e)
    BY <2>2 DEF AppendEdit
  <2> QED BY <2>1, <2>2
<1>3. options.machine => SubSeq(edits, 1, k) \in Read
  BY DEF Read, Readings
<1> HIDE DEF edits, k
<1>4. SubSeq(Append(edits, e), 1, k) = SubSeq(edits, 1, k)
  BY <1>1, PrefixOfAppended
<1>5. SubSeq(Append(edits, e), 1, Len(edits) + 1) = Append(edits, e)
  <2>1. Append(edits, e) \in Seq(Edits) /\ Len(Append(edits, e)) = Len(edits) + 1
    BY <1>1
  <2> QED BY <2>1, WholePrefix
<1>6. ASSUME NEW r \in Read' PROVE r \in Read \/ r = Append(edits, e)
  <2>1. \/ r = Append(edits, e)
        \/ options.machine /\ r = SubSeq(Append(edits, e), 1, manifests'[db'.manifest].synced)
    BY <1>2, ReadThen
  <2> QED BY <1>2, <1>3, <1>4, <1>5, <2>1
<1> QED BY <1>6 DEF edits

\* Logs from a number on are still there, with what was in them.
KeepsLogs(from) ==
  Grown(AppendedRecords, AppendedRecords', from) /\ Grown(SyncedRecords, SyncedRecords', from)

\* Logs that do not change.
LEMMA LogsUnchanged == ASSUME UNCHANGED logs PROVE \A from : KeepsLogs(from)
BY DEF KeepsLogs, Grown, AppendedRecords, SyncedRecords

\* Then what a log held is still there.
LEMMA LogsFrom ==
  ASSUME LogTypes, NEW k \in Nat, NEW from \in Nat, k <= from,
         \A n \in DOMAIN logs : n >= k => n \in DOMAIN logs' /\ logs'[n] = logs[n]
  PROVE KeepsLogs(from)
<1>1. \A n \in DOMAIN logs : n >= from => n \in DOMAIN logs' /\ logs'[n] = logs[n]
  BY DEF LogTypes
<1> QED BY <1>1 DEF KeepsLogs, Grown, AppendedRecords, SyncedRecords

\* Writes stay where a reader and an open find them, when tables hold no less and logs
\* are still there.
LEMMA CoversKept ==
  ASSUME NEW S, NEW r, NEW q, NEW ts, NEW us, NEW d, NEW c, NEW im, NEW m, NEW e, NEW f,
         Covers(S, r, ts, d, im, m, e),
         Entries(ts, d.files) \subseteq Entries(us, c.files),
         c.logfile = d.logfile, c.logNumber = d.logNumber,
         Writes(r[d.logfile]) \subseteq Writes(q[d.logfile]), Grown(r, q, d.logNumber),
         \A edits \in f :
           \/ /\ edits \in e /\ Grown(r, q, LogOf(edits))
              /\ Entries(ts, FilesOf(edits)) \subseteq Entries(us, FilesOf(edits))
           \/ im \subseteq Entries(us, FilesOf(edits))
           \/ LogOf(edits) = d.logNumber
  PROVE Covers(S, q, us, c, im, m, f)
<1>1. S \cap im \subseteq Logged(q, c.logNumber)
  BY LoggedGrow DEF Covers
<1>2. ASSUME NEW edits \in f
      PROVE S \cap im \subseteq Entries(us, FilesOf(edits)) \cup Logged(q, LogOf(edits))
  <2>1. CASE /\ edits \in e /\ Grown(r, q, LogOf(edits))
             /\ Entries(ts, FilesOf(edits)) \subseteq Entries(us, FilesOf(edits))
    <3>1. Logged(r, LogOf(edits)) \subseteq Logged(q, LogOf(edits))
      BY <2>1, LoggedGrow
    <3>2. S \cap im \subseteq Entries(ts, FilesOf(edits)) \cup Logged(r, LogOf(edits))
      BY <2>1 DEF Covers
    <3> QED BY <2>1, <3>1, <3>2
  <2>2. CASE im \subseteq Entries(us, FilesOf(edits))
    BY <2>2
  <2>3. CASE LogOf(edits) = d.logNumber
    BY <1>1, <2>3
  <2> QED BY <1>2, <2>1, <2>2, <2>3
<1>3. S \subseteq Entries(us, c.files) \cup im \cup m /\ S \cap m \subseteq Writes(q[c.logfile])
  BY DEF Covers
<1> QED BY <1>1, <1>2, <1>3 DEF Covers

\* So when the memtables stay.
LEMMA MemoryStays ==
  ASSUME Memory, Phases, LogsGood, LogTypes, DbTypes, phase \in Using,
         UNCHANGED <<options, mem, imm, acked, synced>>,
         db'.logfile = db.logfile, db'.logNumber = db.logNumber, db'.last = db.last,
         Entries(tables', db'.files) = Entries(tables, db.files), KeepsLogs(db.logNumber),
         \A edits \in Read' :
           \/ /\ edits \in Read /\ KeepsLogs(LogOf(edits))
              /\ Entries(tables, FilesOf(edits)) \subseteq Entries(tables', FilesOf(edits))
           \/ ImmWrites \subseteq Entries(tables', FilesOf(edits))
           \/ LogOf(edits) = db.logNumber
  PROVE Memory'
<1>1. ImmWrites' = ImmWrites
  BY DEF ImmWrites
<1>2. db.logfile \in DOMAIN logs /\ db.logfile >= db.logNumber
  BY LogfileIsThere DEF DbTypes
<1>3. /\ Writes(AppendedRecords[db.logfile]) \subseteq Writes(AppendedRecords'[db.logfile])
      /\ Writes(SyncedRecords[db.logfile]) \subseteq Writes(SyncedRecords'[db.logfile])
  <2>1. db.logfile \in DOMAIN AppendedRecords /\ db.logfile \in DOMAIN SyncedRecords
    BY <1>2 DEF AppendedRecords, SyncedRecords
  <2> QED BY <1>2, <2>1 DEF KeepsLogs, Grown
<1>4. Covers(acked', AppendedRecords', tables', db', ImmWrites', mem', Read')
  <2>1. Covers(acked, AppendedRecords, tables, db, ImmWrites, mem, Read)
    BY DEF Memory
  <2> DEFINE q == AppendedRecords'
             f == Read'
  <2>2. Covers(acked, q, tables', db', ImmWrites, mem, f)
    <3>1. Writes(AppendedRecords[db.logfile]) \subseteq Writes(q[db.logfile])
      BY <1>3
    <3>2. Grown(AppendedRecords, q, db.logNumber)
      BY DEF KeepsLogs
    <3>3. \A edits \in f :
           \/ /\ edits \in Read /\ Grown(AppendedRecords, q, LogOf(edits))
              /\ Entries(tables, FilesOf(edits)) \subseteq Entries(tables', FilesOf(edits))
           \/ ImmWrites \subseteq Entries(tables', FilesOf(edits))
           \/ LogOf(edits) = db.logNumber
      BY DEF KeepsLogs
    <3> HIDE DEF q, f
    <3> QED BY <2>1, <3>1, <3>2, <3>3, CoversKept
  <2> QED BY <1>1, <2>2
<1>5. options'.machine => Covers(synced', SyncedRecords', tables', db', ImmWrites', mem', Read')
  <2> SUFFICES ASSUME options.machine
               PROVE Covers(synced', SyncedRecords', tables', db', ImmWrites', mem', Read')
    OBVIOUS
  <2>1. Covers(synced, SyncedRecords, tables, db, ImmWrites, mem, Read)
    BY DEF Memory
  <2> DEFINE q == SyncedRecords'
             f == Read'
  <2>2. Covers(synced, q, tables', db', ImmWrites, mem, f)
    <3>1. Writes(SyncedRecords[db.logfile]) \subseteq Writes(q[db.logfile])
      BY <1>3
    <3>2. Grown(SyncedRecords, q, db.logNumber)
      BY DEF KeepsLogs
    <3>3. \A edits \in f :
           \/ /\ edits \in Read /\ Grown(SyncedRecords, q, LogOf(edits))
              /\ Entries(tables, FilesOf(edits)) \subseteq Entries(tables', FilesOf(edits))
           \/ ImmWrites \subseteq Entries(tables', FilesOf(edits))
           \/ LogOf(edits) = db.logNumber
      BY DEF KeepsLogs
    <3> HIDE DEF q, f
    <3> QED BY <2>1, <3>1, <3>2, <3>3, CoversKept
  <2> QED BY <1>1, <2>2
<1>6. \A s \in Entries(tables', db'.files) \cup ImmWrites' \cup mem' : s <= db'.last
  BY <1>1 DEF Memory
<1> QED BY <1>4, <1>5, <1>6 DEF Memory

\* A table changes that no version names.
LEMMA MemoryWithTable ==
  ASSUME Memory, Phases, LogsGood, LogTypes, DbTypes, ManifestTypes, Manifest, Versions,
         phase \in Using, UNCHANGED <<options, logs, manifests, mem, imm, acked, synced>>,
         db'.files = db.files, db'.logfile = db.logfile, db'.logNumber = db.logNumber,
         db'.last = db.last, db'.manifest = db.manifest,
         NEW k, \A n \in DOMAIN tables : n # k
           => n \in DOMAIN tables' /\ tables'[n] = tables[n],
         k \notin db.files, \A edits \in Read : k \notin FilesOf(edits)
  PROVE Memory'
<1>1. Read' = Read
  BY ReadKept
<1>2. \A from : KeepsLogs(from)
  BY LogsUnchanged
<1>3. Entries(tables', db.files) = Entries(tables, db.files)
  <2>1. \A n \in db.files : n \in DOMAIN tables
    BY LivingIs DEF Versions, Using
  <2>2. \A n \in db.files : n \in DOMAIN tables /\ n \in DOMAIN tables'
          /\ tables'[n] = tables[n]
    BY <2>1
  <2> QED BY <2>2, EntriesKept
<1>4. ASSUME NEW edits \in Read
      PROVE Entries(tables, FilesOf(edits)) \subseteq Entries(tables', FilesOf(edits))
  <2>1. FilesOf(edits) \subseteq DOMAIN tables
    BY ReadFits
  <2>2. \A n \in FilesOf(edits) : n \in DOMAIN tables /\ n \in DOMAIN tables'
          /\ tables'[n] = tables[n]
    BY <2>1
  <2>3. Entries(tables', FilesOf(edits)) = Entries(tables, FilesOf(edits))
    BY <2>2, EntriesKept
  <2> QED BY <2>3
<1> QED BY <1>1, <1>2, <1>3, <1>4, MemoryStays

\* An edit is added to the MANIFEST.
LEMMA MemoryWithEdit ==
  ASSUME Memory, Phases, LogsGood, LogTypes, DbTypes, ManifestTypes, Manifest,
         phase \in {"open", "closing"},
         UNCHANGED <<options, logs, tables, mem, imm, acked, synced>>,
         db'.files = db.files, db'.logfile = db.logfile, db'.logNumber = db.logNumber,
         db'.last = db.last, db'.manifest = db.manifest,
         NEW e \in FullEdits, UNCHANGED manifests \/ WriteEdit(e) \/ AppendEdit(e),
         ImmWrites \subseteq Entries(tables, e.added) \/ e.log = db.logNumber
  PROVE Memory'
<1>1. phase \in Using
  BY DEF Using
<1>2. \A from : KeepsLogs(from)
  BY LogsUnchanged
<1>3. ASSUME NEW edits \in Read', edits \notin Read
      PROVE ImmWrites \subseteq Entries(tables', FilesOf(edits)) \/ LogOf(edits) = db.logNumber
  <2>1. CURRENT = db.manifest /\ CURRENT \in DOMAIN manifests
    BY CurrentIsUsed
  <2>2. e \in Edits /\ e.log # None
    BY FullIsEdit, StoreAssumption DEF FullEdits
  <2> DEFINE old == manifests[db.manifest].edits
  <2>3. edits = Append(old, e)
    <3>1. WriteEdit(e) \/ AppendEdit(e)
      BY <1>3, ReadKept
    <3> QED BY <1>3, <2>1, <2>2, <3>1, EditWritten
  <2>4. old \in Seq(Edits)
    BY <2>1, EditsHave
  <2> HIDE DEF old
  <2>5. LogOf(edits) = e.log /\ e.added \subseteq FilesOf(edits)
    BY <2>2, <2>3, <2>4, NumbersAppended, FilesAppended
  <2>6. Entries(tables, e.added) \subseteq Entries(tables, FilesOf(edits))
    BY <2>5, EntriesOfMore
  <2> QED BY <2>5, <2>6
<1>4. Entries(tables', db'.files) = Entries(tables, db.files)
  OBVIOUS
<1> QED BY <1>1, <1>2, <1>3, <1>4, MemoryStays

\* The MANIFEST in use is not collected.
LEMMA ManifestStays ==
  ASSUME ManifestTypes, DbTypes, Manifest, phase \in Using, NEW d, NEW versions,
         DeleteObsoleteFiles(d, versions, manifests), d.manifest = db.manifest
  PROVE db.manifest \in DOMAIN manifests' /\ manifests'[db.manifest] = manifests[db.manifest]
<1>1. db.manifest \in DOMAIN manifests /\ db.manifest >= d.manifest
  BY DEF Manifest, DbTypes
<1> QED BY <1>1, Collected

\* What is not in the memtables is in tables.
LEMMA NoMemtables ==
  ASSUME NEW S, NEW r, NEW ts, NEW d, NEW e, S \subseteq Entries(ts, d.files)
  PROVE Covers(S, r, ts, d, {}, {}, e)
BY DEF Covers

\* What the memtables hold may be found elsewhere.
LEMMA CoversMemtable ==
  ASSUME NEW S, NEW r, NEW ts, NEW d, NEW e, NEW m,
         S \subseteq Entries(ts, d.files) \cup m, m \subseteq Writes(r[d.logfile])
  PROVE Covers(S, r, ts, d, {}, m, e)
BY DEF Covers

\* imm_ becomes a table.
LEMMA CoversFlushed ==
  ASSUME NEW S, NEW r, NEW q, NEW ts, NEW us, NEW d, NEW c, NEW im, NEW m, NEW e, NEW f,
         Covers(S, r, ts, d, im, m, e), q[c.logfile] = r[d.logfile],
         Entries(us, c.files) = Entries(ts, d.files) \cup im
  PROVE Covers(S, q, us, c, {}, m, f)
BY DEF Covers

\* The memtable becomes imm_.
LEMMA CoversSwitched ==
  ASSUME NEW S, NEW r, NEW q, NEW ts, NEW d, NEW c, NEW m, NEW e,
         Covers(S, r, ts, d, {}, m, e), c.files = d.files, c.logNumber = d.logNumber,
         d.logfile \in DOMAIN r, d.logfile >= d.logNumber,
         \A edits \in e : d.logfile >= LogOf(edits),
         \A n \in DOMAIN r : n \in DOMAIN q /\ q[n] = r[n]
  PROVE Covers(S, q, ts, c, m, {}, e)
<1>1. \A from : d.logfile >= from => Writes(r[d.logfile]) \subseteq Logged(q, from)
  BY LoggedAre
<1>2. S \cap m \subseteq Logged(q, c.logNumber)
  BY <1>1 DEF Covers
<1>3. \A edits \in e :
        S \cap m \subseteq Entries(ts, FilesOf(edits)) \cup Logged(q, LogOf(edits))
  BY <1>1 DEF Covers
<1>4. S \subseteq Entries(ts, c.files) \cup m \cup {}
        /\ S \cap {} \subseteq Writes(q[c.logfile])
  BY DEF Covers
<1> QED BY <1>2, <1>3, <1>4 DEF Covers

\* A group of writes is acknowledged.
LEMMA CoversCommitted ==
  ASSUME NEW S, NEW r, NEW ts, NEW d, NEW c, NEW im, NEW m, NEW e,
         Covers(S, r, ts, d, im, m, e),
         c.files = d.files, c.logfile = d.logfile, c.logNumber = d.logNumber,
         NEW seqs, NEW new, new \subseteq seqs, new \subseteq Writes(r[d.logfile]),
         \A s \in Entries(ts, d.files) \cup im \cup m : s \notin seqs
  PROVE Covers(S \cup new, r, ts, c, im, m \cup seqs, e)
<1>1. (S \cup new) \cap im = S \cap im
  OBVIOUS
<1>2. \A s \in S : s \notin seqs
  BY DEF Covers
<1>3. (S \cup new) \cap (m \cup seqs) \subseteq (S \cap m) \cup new
  BY <1>2
<1>4. (S \cup new) \cap (m \cup seqs) \subseteq Writes(r[c.logfile])
  BY <1>3 DEF Covers
<1>5. S \cup new \subseteq Entries(ts, c.files) \cup im \cup (m \cup seqs)
  BY DEF Covers
<1> QED BY <1>1, <1>4, <1>5 DEF Covers

\* Every write that returned is in the memtable and its log, in imm_ and a log the
\* MANIFEST keeps, or in a table of the version, at every step.
LEMMA MemoryKept ==
  ASSUME Memory, Manifest, LogsGood, DbTypes, TableTypes, LogTypes, OptionTypes,
           ManifestTypes, WriteTypes, FlushTypes, WorkTypes, CommitTypes, CommitGood,
           FlushGood, WorkGood, Phases, Versions, Recovery, [StoreNext]_storeVars
  PROVE Memory'
<1>1. CASE NewDB
  <2>1. phase' \notin Using
    BY <1>1 DEF NewDB, memory, Using
  <2> QED BY <2>1 DEF Memory
<1>2. CASE RecoverManifest
  <2>1. phase' \notin Using
    BY <1>2 DEF RecoverManifest, disk, Using
  <2> QED BY <2>1 DEF Memory
<1>3. CASE RecoverLogFile
  <2>1. phase' \notin Using
    BY <1>3 DEF RecoverLogFile, Using
  <2> QED BY <2>1 DEF Memory
<1>4. CASE OpenNewLog
  <2>1. /\ phase = "logs" /\ opening.todo = {}
          /\ phase' = (IF opening.save THEN "manifest" ELSE "ready")
        /\ UNCHANGED <<options, tables, mem, imm, acked, synced>>
        /\ db'.files = db.files /\ db'.last = db.last
    BY <1>4, OpenNewLogDoes
  <2>2. CASE opening.save
    BY <2>1, <2>2 DEF Memory, Using
  <2>3. CASE ~opening.save
    <3>1. /\ opening.added = {} /\ options.reuseLogs
          /\ \A s \in Entries(tables, db.files \cup opening.added) \cup mem : s <= db.last
          /\ acked \subseteq Entries(tables, db.files \cup opening.added) \cup mem
      BY <2>1, <2>3 DEF Recovery, Recovering
    <3>2. ~options.machine /\ imm = {}
      BY <2>1, <3>1, OptionValues DEF Phases, Using
    <3>3. mem \subseteq Writes(AppendedRecords'[db'.logfile])
      <4>1. CASE db.logfile = 0
        <5>1. mem = {}
          BY <2>1, <4>1 DEF Recovery, Recovering
        <5> QED BY <5>1
      <4>2. CASE db.logfile # 0
        <5>1. UNCHANGED <<logs, db>>
          BY <1>4, <4>2, OpenNewLogDoes
        <5>2. db.logfile \in DOMAIN logs /\ mem \subseteq Writes(logs[db.logfile].records)
          BY <2>1, <4>2 DEF Recovery, Recovering
        <5> QED BY <5>1, <5>2 DEF AppendedRecords
      <4> QED BY <4>1, <4>2
    <3>4. ImmWrites' = {} /\ db.files \cup opening.added = db.files
      BY <2>1, <3>1, <3>2 DEF ImmWrites
    <3>5. Covers(acked', AppendedRecords', tables', db', ImmWrites', mem', Read')
      <4> DEFINE q == AppendedRecords'
                 f == Read'
      <4>1. Covers(acked, q, tables, db', {}, mem, f)
        <5>1. acked \subseteq Entries(tables, db'.files) \cup mem
                /\ mem \subseteq Writes(q[db'.logfile])
          BY <2>1, <3>1, <3>3, <3>4
        <5> HIDE DEF q, f
        <5> QED BY <5>1, CoversMemtable
      <4> QED BY <2>1, <3>4, <4>1
    <3>6. \A s \in Entries(tables', db'.files) \cup ImmWrites' \cup mem' : s <= db'.last
      BY <2>1, <3>1, <3>4
    <3>7. ~options'.machine
      BY <2>1, <3>2
    <3> QED BY <3>5, <3>6, <3>7 DEF Memory
  <2> QED BY <2>2, <2>3
<1>5. CASE OpenManifest
  <2>1. /\ phase = "manifest" /\ UNCHANGED <<options, logs, tables, mem, imm, acked, synced>>
        /\ db'.files = db.files \cup opening.added /\ db'.last = db.last
          /\ db'.logfile = db.logfile
    BY <1>5, OpenManifestDoes
  <2>2. /\ opening.todo = {} /\ (~options.reuseLogs => mem = {})
        /\ \A s \in Entries(tables, db.files \cup opening.added) \cup mem : s <= db.last
        /\ acked \subseteq Entries(tables, db.files \cup opening.added) \cup mem
        /\ mem \subseteq Writes(logs[db.logfile].records) /\ db.logfile \in DOMAIN logs
    BY <2>1 DEF Recovery, Recovering
  <2>3. ImmWrites' = {}
    BY <2>1 DEF ImmWrites, Phases, Using
  <2>4. AppendedRecords'[db'.logfile] = logs[db.logfile].records
    BY <2>1, <2>2 DEF AppendedRecords
  <2>5. Covers(acked', AppendedRecords', tables', db', ImmWrites', mem', Read')
    <3> DEFINE q == AppendedRecords'
               f == Read'
    <3>1. Covers(acked, q, tables, db', {}, mem, f)
      <4>1. acked \subseteq Entries(tables, db'.files) \cup mem
              /\ mem \subseteq Writes(q[db'.logfile])
        BY <2>1, <2>2, <2>4
      <4> HIDE DEF q, f
      <4> QED BY <4>1, CoversMemtable
    <3> QED BY <2>1, <2>3, <3>1
  <2>6. ASSUME options'.machine
        PROVE Covers(synced', SyncedRecords', tables', db', ImmWrites', mem', Read')
    <3>1. mem = {}
      BY <2>1, <2>2, <2>6, OptionValues
    <3>2. synced \subseteq Entries(tables, db'.files)
      BY <2>1, <2>2, <3>1 DEF WriteTypes
    <3> DEFINE q == SyncedRecords'
               f == Read'
    <3>3. Covers(synced, q, tables, db', {}, {}, f)
      <4> HIDE DEF q, f
      <4> QED BY <3>2, NoMemtables
    <3> QED BY <2>1, <2>3, <3>1, <3>3
  <2>7. \A s \in Entries(tables', db'.files) \cup ImmWrites' \cup mem' : s <= db'.last
    BY <2>1, <2>2, <2>3
  <2> QED BY <2>5, <2>6, <2>7 DEF Memory
<1>6. CASE SetCurrentFile
  <2>1. /\ phase \in Using /\ UNCHANGED <<options, logs, tables, manifests, mem, imm, db, acked,
                                          synced>>
    BY <1>6 DEF SetCurrentFile, disk, history, Using
  <2>2. -1 \notin db.files /\ \A edits \in Read : -1 \notin FilesOf(edits)
    <3>1. \A edits \in Read : FilesOf(edits) \in SUBSET Nat
      BY <2>1, ReadFits
    <3> QED BY <3>1 DEF DbTypes
  <2> QED BY <2>1, <2>2, MemoryWithTable
<1>7. CASE Opened
  <2>1. /\ phase = "ready" /\ UNCHANGED <<options, mem, imm, db, acked, synced>>
        /\ DeleteObsoleteFiles(db, {}, manifests)
    BY <1>7 DEF Opened, history
  <2>2. phase \in Using /\ imm = {} /\ db.logNumber \in Nat
    BY <2>1 DEF Using, Phases, DbTypes
  <2>3. Entries(tables', db'.files) = Entries(tables, db.files)
    <3>1. \A n \in db.files : n \in DOMAIN tables
      BY <2>2, LivingIs DEF Versions, Using
    <3>2. \A n \in db.files : n \in DOMAIN tables /\ n \in DOMAIN tables'
            /\ tables'[n] = tables[n]
      BY <2>1, <3>1, Collected
    <3> QED BY <2>1, <3>2, EntriesKept
  <2>4. KeepsLogs(db.logNumber)
    <3>1. \A n \in DOMAIN logs : n >= db.logNumber => n \in DOMAIN logs' /\ logs'[n] = logs[n]
      BY <2>1, Collected
    <3> QED BY <2>2, <3>1, LogsFrom
  <2>5. ImmWrites = {}
    BY <2>2 DEF ImmWrites
  <2> QED BY <2>1, <2>2, <2>3, <2>4, <2>5, MemoryStays
<1>8. ASSUME NEW w \in Writers, SwitchMemtable(w) PROVE Memory'
  <2>1. /\ phase \in Using /\ imm = {} /\ logs' = Put(logs, db.next, NewLog)
        /\ imm' = {mem} /\ mem' = {} /\ UNCHANGED <<options, tables, manifests, acked, synced>>
        /\ db'.files = db.files /\ db'.last = db.last /\ db'.logNumber = db.logNumber
        /\ db'.manifest = db.manifest
    BY <1>8, SwitchMemtableDoes DEF Using
  <2>2. Read' = Read
    BY <2>1, ReadKept
  <2>3. ImmWrites' = mem /\ ImmWrites = {}
    BY <2>1 DEF ImmWrites
  <2>4. /\ db.logfile \in DOMAIN logs /\ db.logfile >= db.logNumber
        /\ db.next \notin DOMAIN logs
    BY <2>1, LogfileIsThere DEF LogsGood, LogTypes, DbTypes
  <2>5. \A edits \in Read : db.logfile >= LogOf(edits)
    BY <2>1, ReadFits DEF DbTypes
  <2>6. \A n \in DOMAIN logs : n \in DOMAIN logs' /\ logs'[n] = logs[n]
    BY <2>1, <2>4 DEF Put
  <2>7. /\ db.logfile \in DOMAIN AppendedRecords /\ db.logfile \in DOMAIN SyncedRecords
        /\ \A n \in DOMAIN AppendedRecords : /\ n \in DOMAIN AppendedRecords'
                                             /\ AppendedRecords'[n] = AppendedRecords[n]
        /\ \A n \in DOMAIN SyncedRecords : /\ n \in DOMAIN SyncedRecords'
                                           /\ SyncedRecords'[n] = SyncedRecords[n]
    BY <2>4, <2>6 DEF AppendedRecords, SyncedRecords
  <2>8. Covers(acked', AppendedRecords', tables', db', ImmWrites', mem', Read')
    <3>1. Covers(acked, AppendedRecords, tables, db, {}, mem, Read)
      BY <2>1, <2>3 DEF Memory
    <3> DEFINE r == AppendedRecords
               q == AppendedRecords'
    <3>2. Covers(acked, q, tables, db', mem, {}, Read)
      <4>1. /\ db.logfile \in DOMAIN r /\ \A n \in DOMAIN r : n \in DOMAIN q /\ q[n] = r[n]
            /\ Covers(acked, r, tables, db, {}, mem, Read)
        BY <2>7, <3>1
      <4> HIDE DEF r, q
      <4> QED BY <2>1, <2>4, <2>5, <4>1, CoversSwitched
    <3> QED BY <2>1, <2>2, <2>3, <3>2
  <2>9. options'.machine
          => Covers(synced', SyncedRecords', tables', db', ImmWrites', mem', Read')
    <3>1. options.machine => Covers(synced, SyncedRecords, tables, db, {}, mem, Read)
      BY <2>1, <2>3 DEF Memory
    <3> DEFINE r == SyncedRecords
               q == SyncedRecords'
    <3>2. options.machine => Covers(synced, q, tables, db', mem, {}, Read)
      <4>1. /\ db.logfile \in DOMAIN r /\ \A n \in DOMAIN r : n \in DOMAIN q /\ q[n] = r[n]
            /\ options.machine => Covers(synced, r, tables, db, {}, mem, Read)
        BY <2>7, <3>1
      <4> HIDE DEF r, q
      <4> QED BY <2>1, <2>4, <2>5, <4>1, CoversSwitched
    <3> QED BY <2>1, <2>2, <2>3, <3>2
  <2>10. \A s \in Entries(tables', db'.files) \cup ImmWrites' \cup mem' : s <= db'.last
    BY <2>1, <2>3 DEF Memory
  <2> QED BY <2>8, <2>9, <2>10 DEF Memory
<1>9. CASE AppendRecord
  <2>1. /\ commit # None /\ UNCHANGED <<options, db, tables, manifests, mem, imm, acked,
                                        synced>>
    BY <1>9 DEF AppendRecord, history
  <2>2. phase \in Using /\ db.logfile \in DOMAIN logs
    BY <2>1, InBackground, LogfileIsThere DEF Using
  <2>3. /\ logs[db.logfile].records \in Seq(Records) /\ logs[db.logfile].synced \in Nat
        /\ logs[db.logfile].synced <= Len(logs[db.logfile].records)
    BY <2>2, RecordsOf
  <2>4. /\ DOMAIN logs' = DOMAIN logs /\ \A n \in DOMAIN logs : n # db.logfile
          => logs'[n] = logs[n]
        /\ logs'[db.logfile] = AddRecord(logs[db.logfile], commit.seqs)
    BY <1>9, <2>2 DEF AppendRecord
  <2>5. commit.seqs \in Records
    BY <2>1 DEF CommitTypes, Records
  <2>6. /\ AppendedRecords[db.logfile] = logs[db.logfile].records
        /\ AppendedRecords'[db.logfile] = Append(logs[db.logfile].records, commit.seqs)
    BY <2>2, <2>4 DEF AppendedRecords, AddRecord
  <2>7. Writes(AppendedRecords[db.logfile]) \subseteq Writes(AppendedRecords'[db.logfile])
    BY <2>3, <2>5, <2>6, WritesGrow
  <2>8. SyncedRecords'[db.logfile] = SyncedRecords[db.logfile]
    <3>1. SyncedRecords'[db.logfile] = SubSeq(Append(logs[db.logfile].records, commit.seqs), 1, logs[db.logfile].synced)
      <4>1. /\ db.logfile \in DOMAIN logs' /\ logs'[db.logfile].synced = logs[db.logfile].synced
            /\ logs'[db.logfile].records = Append(logs[db.logfile].records, commit.seqs)
        BY <2>2, <2>4 DEF AddRecord
      <4>2. SyncedRecords'[db.logfile] = SubSeq(logs'[db.logfile].records, 1, logs'[db.logfile].synced)
        BY <4>1, SyncedAreThen
      <4> QED BY <4>1, <4>2
    <3>2. SyncedRecords[db.logfile] = SubSeq(logs[db.logfile].records, 1, logs[db.logfile].synced)
      BY <2>2, SyncedAre
    <3> QED BY <2>3, <2>5, <3>1, <3>2, PrefixOfAppended
  <2>9. \A from : KeepsLogs(from)
    <3>1. \A n \in DOMAIN logs :
            /\ Writes(AppendedRecords[n]) \subseteq Writes(AppendedRecords'[n])
                                /\ Writes(SyncedRecords[n]) \subseteq Writes(SyncedRecords'[n])
      <4> TAKE n \in DOMAIN logs
      <4>1. CASE n = db.logfile
        BY <2>2, <4>1, <2>7, <2>8
      <4>2. CASE n # db.logfile
        BY <2>4, <4>2 DEF AppendedRecords, SyncedRecords
      <4> QED BY <4>1, <4>2
    <3>2. /\ DOMAIN AppendedRecords = DOMAIN logs /\ DOMAIN SyncedRecords = DOMAIN logs
          /\ DOMAIN AppendedRecords' = DOMAIN logs /\ DOMAIN SyncedRecords' = DOMAIN logs
      BY <2>4 DEF AppendedRecords, SyncedRecords
    <3> QED BY <3>1, <3>2 DEF KeepsLogs, Grown
  <2>10. Read' = Read
    BY <2>1, ReadKept
  <2> QED BY <2>1, <2>2, <2>9, <2>10, MemoryStays
<1>10. CASE SyncLog
  <2>1. /\ commit # None /\ UNCHANGED <<options, db, tables, manifests, mem, imm, acked,
                                        synced>>
    BY <1>10 DEF SyncLog, history
  <2>2. phase \in Using /\ db.logfile \in DOMAIN logs
    BY <2>1, InBackground, LogfileIsThere DEF Using
  <2>3. /\ logs[db.logfile].records \in Seq(Records) /\ logs[db.logfile].synced \in Nat
        /\ logs[db.logfile].synced <= Len(logs[db.logfile].records)
    BY <2>2, RecordsOf
  <2>4. /\ DOMAIN logs' = DOMAIN logs /\ \A n \in DOMAIN logs : n # db.logfile
          => logs'[n] = logs[n]
        /\ logs'[db.logfile] = Sync(logs[db.logfile])
    BY <1>10, <2>2 DEF SyncLog
  <2>5. AppendedRecords'[db.logfile] = AppendedRecords[db.logfile]
    BY <2>2, <2>4 DEF AppendedRecords, Sync
  <2>6. Writes(SyncedRecords[db.logfile]) \subseteq Writes(SyncedRecords'[db.logfile])
    <3>1. SyncedRecords'[db.logfile] = SubSeq(logs[db.logfile].records, 1, Len(logs[db.logfile].records))
      BY <2>2, <2>4, SyncedAreThen DEF Sync
    <3>2. SyncedRecords'[db.logfile] = logs[db.logfile].records
      BY <2>3, <3>1, WholePrefix
    <3>3. SyncedRecords[db.logfile] = SubSeq(logs[db.logfile].records, 1, logs[db.logfile].synced)
      BY <2>2, SyncedAre
    <3> QED BY <2>3, <3>2, <3>3, WritesOfPrefix
  <2>7. \A from : KeepsLogs(from)
    <3>1. \A n \in DOMAIN logs :
            /\ Writes(AppendedRecords[n]) \subseteq Writes(AppendedRecords'[n])
                                /\ Writes(SyncedRecords[n]) \subseteq Writes(SyncedRecords'[n])
      <4> TAKE n \in DOMAIN logs
      <4>1. CASE n = db.logfile
        BY <2>2, <4>1, <2>5, <2>6
      <4>2. CASE n # db.logfile
        BY <2>4, <4>2 DEF AppendedRecords, SyncedRecords
      <4> QED BY <4>1, <4>2
    <3>2. /\ DOMAIN AppendedRecords = DOMAIN logs /\ DOMAIN SyncedRecords = DOMAIN logs
          /\ DOMAIN AppendedRecords' = DOMAIN logs /\ DOMAIN SyncedRecords' = DOMAIN logs
      BY <2>4 DEF AppendedRecords, SyncedRecords
    <3> QED BY <3>1, <3>2 DEF KeepsLogs, Grown
  <2>8. Read' = Read
    BY <2>1, ReadKept
  <2> QED BY <2>1, <2>2, <2>7, <2>8, MemoryStays
<1>11. CASE FinishCommit
  <2>1. /\ commit # None /\ UNCHANGED <<options, logs, tables, manifests, imm, phase>>
        /\ mem' = (IF commit.stage = "insert" THEN mem \cup commit.seqs ELSE mem)
        /\ acked' = (IF commit.stage = "insert" THEN acked \cup commit.seqs ELSE acked)
        /\ synced' = (IF commit.stage = "insert" THEN synced \cup commit.promised ELSE synced)
    BY <1>11 DEF FinishCommit, disk
  <2>2. /\ db'.last \in Nat /\ db.last <= db'.last /\ \A s \in commit.seqs : s <= db'.last
        /\ db'.files = db.files /\ db'.logNumber = db.logNumber /\ db'.logfile = db.logfile
        /\ db'.manifest = db.manifest
    BY <1>11, CommitFinished
  <2>3. phase \in Using
    BY <2>1, InBackground DEF Using
  <2>4. /\ Read' = Read /\ ImmWrites' = ImmWrites
        /\ AppendedRecords' = AppendedRecords /\ SyncedRecords' = SyncedRecords
    BY <2>1, <2>2, ReadKept DEF ImmWrites, AppendedRecords, SyncedRecords
  <2>5. \A s \in Entries(tables, db.files) \cup ImmWrites \cup mem : s \in Nat /\ s <= db.last
    <3>1. \A s \in Entries(tables, db.files) \cup ImmWrites \cup mem : s \in Nat
      <4>1. ImmWrites \cup mem \subseteq Nat
        BY DEF ImmWrites, WriteTypes
      <4>2. Entries(tables, db.files) \subseteq Nat
        BY DEF Entries, TableTypes
      <4> QED BY <4>1, <4>2
    <3> QED BY <2>3, <3>1 DEF Memory
  <2>6. commit.seqs \in SUBSET Nat /\ commit.promised \subseteq commit.seqs /\ db.last \in Nat
        /\ \A s \in commit.seqs : db.last < s
    BY <2>1 DEF CommitTypes, CommitGood, DbTypes
  <2>7. \A s \in Entries(tables, db.files) \cup ImmWrites \cup mem : s \notin commit.seqs
    <3> HIDE DEF ImmWrites
    <3> TAKE s \in Entries(tables, db.files) \cup ImmWrites \cup mem
    <3>1. s \in Nat /\ s <= db.last
      BY <2>5
    <3>2. s \in commit.seqs => db.last < s
      BY <2>6
    <3> QED BY <2>6, <3>1, <3>2
  <2>8. \A s \in Entries(tables', db'.files) \cup ImmWrites' \cup mem' : s <= db'.last
    <3>1. ASSUME NEW s \in Entries(tables, db.files) \cup ImmWrites \cup mem PROVE s <= db'.last
      BY <2>2, <2>5, <2>6, <3>1
    <3> QED BY <2>1, <2>2, <2>4, <3>1
  <2>9. Covers(acked, AppendedRecords, tables, db, ImmWrites, mem, Read)
        /\ (options.machine => Covers(synced, SyncedRecords, tables, db, ImmWrites, mem, Read))
    BY <2>3 DEF Memory
  <2>10. CASE commit.stage = "insert"
    <3>1. /\ commit.seqs \subseteq Writes(AppendedRecords[db.logfile])
          /\ options.machine => commit.promised \subseteq Writes(SyncedRecords[db.logfile])
      <4>1. db.logfile \in DOMAIN logs
        BY <2>3, LogfileIsThere
      <4> QED BY <2>1, <2>10, <4>1 DEF CommitGood, AppendedRecords
    <3>2. Covers(acked \cup commit.seqs, AppendedRecords, tables, db', ImmWrites, mem \cup commit.seqs, Read)
      BY <2>2, <2>7, <2>9, <3>1, CoversCommitted
    <3>3. options.machine =>
            Covers(synced \cup commit.promised, SyncedRecords, tables, db', ImmWrites, mem \cup commit.seqs, Read)
      BY <2>2, <2>6, <2>7, <2>9, <3>1, CoversCommitted
    <3> QED BY <2>1, <2>4, <2>8, <2>10, <3>2, <3>3 DEF Memory
  <2>11. CASE commit.stage # "insert"
    <3>1. /\ Covers(acked, AppendedRecords, tables, db', ImmWrites, mem, Read)
          /\ options.machine => Covers(synced, SyncedRecords, tables, db', ImmWrites, mem, Read)
      BY <2>2, <2>9 DEF Covers
    <3> QED BY <2>1, <2>4, <2>8, <2>11, <3>1 DEF Memory
  <2> QED BY <2>10, <2>11
<1>12. CASE AppendFails
  <2>1. UNCHANGED <<options, logs, tables, manifests, db, mem, imm, phase, acked, synced>>
    BY <1>12, OptionValues DEF AppendFails
  <2> QED BY <2>1 DEF Memory, Covers, Read, Readings, ImmWrites, AppendedRecords, SyncedRecords
<1>13. CASE BeginFlush
  <2>1. /\ phase \in Using /\ UNCHANGED <<options, logs, manifests, mem, imm, acked, synced>>
        /\ db'.files = db.files /\ db'.logfile = db.logfile /\ db'.logNumber = db.logNumber
        /\ db'.last = db.last /\ db'.manifest = db.manifest
        /\ tables' = (IF ImmWrites = {} THEN tables ELSE Put(tables, db.next, {}))
    BY <1>13, BeginFlushDoes DEF Using
  <2>2. \A n \in DOMAIN tables : n # db.next => n \in DOMAIN tables' /\ tables'[n] = tables[n]
    BY <2>1 DEF Put
  <2>3. db.next \notin db.files
    BY <2>1, LivingAreOld, LivingIs DEF Using
  <2>4. \A edits \in Read : db.next \notin FilesOf(edits)
    BY <2>1, ReadFits
  <2> QED BY <2>1, <2>2, <2>3, <2>4, MemoryWithTable
<1>14. CASE FlushBuilt
  <2>1. /\ UNCHANGED <<options, logs, manifests, mem, imm, acked, synced>>
        /\ flush # None /\ flush.stage = "build"
        /\ db'.files = db.files /\ db'.logfile = db.logfile /\ db'.logNumber = db.logNumber
        /\ db'.last = db.last /\ db'.manifest = db.manifest
    BY <1>14, FlushBuiltDoes
  <2>2. phase \in Using
    BY <2>1, InBackground DEF Using
  <2>3. \A n \in DOMAIN tables : n # flush.number
          => n \in DOMAIN tables' /\ tables'[n] = tables[n]
    BY <1>14, FlushBuiltDoes
  <2>4. flush.number \notin db.files
    BY <2>1, LivingIs DEF FlushGood
  <2>5. \A edits \in Read : flush.number \notin FilesOf(edits)
    BY <2>1, <2>2, ReadFits DEF Fits, FitsFlush
  <2> QED BY <2>1, <2>2, <2>3, <2>4, <2>5, MemoryWithTable
<1>15. CASE BuildFails
  <2>1. /\ UNCHANGED <<options, logs, manifests, mem, imm, acked, synced>>
        /\ flush # None /\ flush.stage = "build"
        /\ db'.files = db.files /\ db'.logfile = db.logfile /\ db'.logNumber = db.logNumber
        /\ db'.last = db.last /\ db'.manifest = db.manifest
    BY <1>15, BuildFailsDoes
  <2>2. phase \in Using
    BY <2>1, InBackground DEF Using
  <2>3. \A n \in DOMAIN tables : n # flush.number
          => n \in DOMAIN tables' /\ tables'[n] = tables[n]
    BY <1>15, BuildFailsDoes DEF Restrict
  <2>4. flush.number \notin db.files
    BY <2>1, LivingIs DEF FlushGood
  <2>5. \A edits \in Read : flush.number \notin FilesOf(edits)
    BY <2>1, <2>2, ReadFits DEF Fits, FitsFlush
  <2> QED BY <2>1, <2>2, <2>3, <2>4, <2>5, MemoryWithTable
<1>16. CASE FlushApply
  <2>1. /\ UNCHANGED <<options, logs, tables, mem, imm, acked, synced>>
        /\ flush # None /\ flush.stage = "apply"
          /\ (UNCHANGED manifests \/ WriteEdit(flush.edit) \/ AppendEdit(flush.edit))
        /\ db'.files = db.files /\ db'.logfile = db.logfile /\ db'.logNumber = db.logNumber
        /\ db'.last = db.last /\ db'.manifest = db.manifest
    BY <1>16, FlushApplyDoes
  <2>2. phase \in {"open", "closing"}
    BY <2>1, InBackground
  <2>3. flush.edit \in FullEdits
    BY <2>1 DEF FlushTypes
  <2>4. Entries(tables, flush.edit.added) = ImmWrites
    BY <2>1 DEF FlushGood
  <2> QED BY <2>1, <2>2, <2>3, <2>4, MemoryWithEdit
<1>17. CASE FlushApplyFails
  <2>1. /\ UNCHANGED <<options, logs, tables, mem, imm, acked, synced>>
        /\ flush # None /\ flush.stage = "apply"
          /\ (UNCHANGED manifests \/ WriteEdit(flush.edit) \/ AppendEdit(flush.edit))
        /\ db'.files = db.files /\ db'.logfile = db.logfile /\ db'.logNumber = db.logNumber
        /\ db'.last = db.last /\ db'.manifest = db.manifest
    BY <1>17, FlushApplyFailsDoes
  <2>2. phase \in {"open", "closing"}
    BY <2>1, InBackground
  <2>3. flush.edit \in FullEdits
    BY <2>1 DEF FlushTypes
  <2>4. Entries(tables, flush.edit.added) = ImmWrites
    BY <2>1 DEF FlushGood
  <2> QED BY <2>1, <2>2, <2>3, <2>4, MemoryWithEdit
<1>18. CASE FlushInstall
  <2>1. /\ flush # None /\ flush.stage = "install" /\ UNCHANGED <<options, mem, acked, synced>>
        /\ imm' = {} /\ DeleteObsoleteFiles(db', LiveVersions, manifests)
        /\ db'.files = db.files \cup flush.edit.added /\ db'.last = db.last
        /\ db'.logNumber = flush.edit.log /\ db'.logfile = db.logfile
    BY <1>18, FlushInstallDoes
  <2>2. phase \in Using
    BY <2>1, InBackground DEF Using
  <2>3. /\ db'.logNumber = db.logfile /\ flush.edit.added \subseteq DOMAIN tables
        /\ Entries(tables, flush.edit.added) = ImmWrites
    BY <2>1 DEF FlushGood
  <2>4. \A n \in db.files : n \in DOMAIN tables
    BY <2>2, LivingIs DEF Versions, Using
  <2>5. Entries(tables', db'.files) = Entries(tables, db.files) \cup ImmWrites
    <3>1. \A n \in db'.files : n \in DOMAIN tables /\ n \in DOMAIN tables'
            /\ tables'[n] = tables[n]
      BY <2>1, <2>3, <2>4, Collected
    <3>2. Entries(tables', db'.files) = Entries(tables, db'.files)
      BY <3>1, EntriesKept
    <3> QED BY <2>1, <2>3, <3>2, EntriesOfMore
  <2>6. ImmWrites' = {}
    BY <2>1 DEF ImmWrites
  <2>7. db.logfile \in DOMAIN logs
    BY <2>2, LogfileIsThere
  <2>8. db.logfile \in DOMAIN logs' /\ logs'[db.logfile] = logs[db.logfile]
    <3>1. db.logfile >= db'.logNumber
      BY <2>3 DEF DbTypes
    <3> QED BY <2>1, <2>7, <3>1, Collected
  <2>9. /\ AppendedRecords'[db'.logfile] = AppendedRecords[db.logfile]
        /\ SyncedRecords'[db'.logfile] = SyncedRecords[db.logfile]
    <3> DEFINE n == db.logfile
    <3>1. n \in DOMAIN logs /\ n \in DOMAIN logs' /\ logs'[n] = logs[n] /\ db'.logfile = n
      BY <2>1, <2>7, <2>8
    <3> HIDE DEF n
    <3>2. SyncedRecords'[n] = SyncedRecords[n] /\ AppendedRecords'[n] = AppendedRecords[n]
      BY <3>1 DEF SyncedRecords, AppendedRecords
    <3> QED BY <3>1, <3>2 DEF n
  <2>10. Covers(acked', AppendedRecords', tables', db', ImmWrites', mem', Read')
    <3>1. Covers(acked, AppendedRecords, tables, db, ImmWrites, mem, Read)
      BY <2>2 DEF Memory
    <3> DEFINE r == AppendedRecords
               q == AppendedRecords'
               f == Read'
    <3>2. Covers(acked, q, tables', db', {}, mem, f)
      <4>1. q[db'.logfile] = r[db.logfile] /\ Covers(acked, r, tables, db, ImmWrites, mem, Read)
        BY <2>9, <3>1
      <4> HIDE DEF r, q, f
      <4> QED BY <2>5, <4>1, CoversFlushed
    <3> QED BY <2>1, <2>6, <3>2
  <2>11. options'.machine
           => Covers(synced', SyncedRecords', tables', db', ImmWrites', mem', Read')
    <3>1. options.machine => Covers(synced, SyncedRecords, tables, db, ImmWrites, mem, Read)
      BY <2>2 DEF Memory
    <3> DEFINE r == SyncedRecords
               q == SyncedRecords'
               f == Read'
    <3>2. options.machine => Covers(synced, q, tables', db', {}, mem, f)
      <4>1. /\ q[db'.logfile] = r[db.logfile]
            /\ options.machine => Covers(synced, r, tables, db, ImmWrites, mem, Read)
        BY <2>9, <3>1
      <4> HIDE DEF r, q, f
      <4> QED BY <2>5, <4>1, CoversFlushed
    <3> QED BY <2>1, <2>6, <3>2
  <2>12. \A s \in Entries(tables', db'.files) \cup ImmWrites' \cup mem' : s <= db'.last
    BY <2>1, <2>2, <2>5, <2>6 DEF Memory
  <2> QED BY <2>10, <2>11, <2>12 DEF Memory
<1>19. CASE OpenOutput
  <2>1. /\ UNCHANGED <<options, logs, manifests, mem, imm, acked, synced>> /\ work # None
        /\ db'.files = db.files /\ db'.logfile = db.logfile /\ db'.logNumber = db.logNumber
        /\ db'.last = db.last /\ db'.manifest = db.manifest
          /\ tables' = Put(tables, db.next, {})
    BY <1>19, OpenOutputDoes
  <2>2. phase \in Using
    BY <2>1, InBackground DEF Using
  <2>3. \A n \in DOMAIN tables : n # db.next => n \in DOMAIN tables' /\ tables'[n] = tables[n]
    BY <2>1 DEF Put
  <2>4. db.next \notin db.files
    BY <2>2, LivingAreOld, LivingIs DEF Using
  <2>5. \A edits \in Read : db.next \notin FilesOf(edits)
    BY <2>2, ReadFits
  <2> QED BY <2>1, <2>2, <2>3, <2>4, <2>5, MemoryWithTable
<1>20. CASE OutputBuilt
  <2>1. /\ UNCHANGED <<options, logs, manifests, mem, imm, db, acked, synced>>
        /\ work # None /\ work.stage = "merge" /\ work.number # None
        /\ tables' = [tables EXCEPT ![work.number] = UNION {tables[n] : n \in work.inputs}]
    BY <1>20, OutputBuiltDoes
  <2>2. phase \in Using
    BY <2>1, InBackground DEF Using
  <2>3. \A n \in DOMAIN tables : n # work.number
          => n \in DOMAIN tables' /\ tables'[n] = tables[n]
    BY <2>1
  <2>4. work.number \notin db.files
    BY <2>1, LivingIs DEF WorkGood
  <2>5. \A edits \in Read : work.number \notin FilesOf(edits)
    BY <2>1, <2>2, ReadFits DEF Fits, FitsWork
  <2> QED BY <2>1, <2>2, <2>3, <2>4, <2>5, MemoryWithTable
<1>21. CASE CompactionApply
  <2>1. /\ UNCHANGED <<options, logs, tables, mem, imm, acked, synced>>
        /\ work # None /\ work.stage = "apply"
          /\ (UNCHANGED manifests \/ WriteEdit(work.edit) \/ AppendEdit(work.edit))
        /\ db'.files = db.files /\ db'.logfile = db.logfile /\ db'.logNumber = db.logNumber
        /\ db'.last = db.last /\ db'.manifest = db.manifest
    BY <1>21, CompactionApplyDoes
  <2>2. phase \in {"open", "closing"}
    BY <2>1, InBackground
  <2>3. work.edit \in FullEdits
    BY <2>1 DEF WorkTypes
  <2>4. work.edit.log = db.logNumber
    BY <2>1 DEF WorkGood
  <2> QED BY <2>1, <2>2, <2>3, <2>4, MemoryWithEdit
<1>22. CASE CompactionInstall
  <2>1. /\ work # None /\ work.stage = "install"
        /\ UNCHANGED <<options, mem, imm, acked, synced>>
        /\ DeleteObsoleteFiles(db', held, manifests)
        /\ db'.bgError = db.bgError
          /\ db'.files = (db.files \ work.edit.deleted) \cup work.edit.added
        /\ db'.last = db.last /\ db'.logNumber = work.edit.log /\ db'.logfile = db.logfile
        /\ db'.manifest = db.manifest
    BY <1>22, CompactionInstallDoes
  <2>2. phase \in Using /\ flush = None
    BY <2>1, InBackground DEF Using, Phases
  <2>3. /\ db'.logNumber = db.logNumber /\ work.edit.added = {work.number}
          /\ work.number \in DOMAIN tables
        /\ work.edit.deleted \subseteq db.files
        /\ tables[work.number] = Entries(tables, work.edit.deleted)
    BY <2>1 DEF WorkGood
  <2>4. \A n \in db.files : n \in DOMAIN tables
    BY <2>2, LivingIs DEF Versions, Using
  <2>5. Entries(tables', db'.files) = Entries(tables, db.files)
    <3>1. \A n \in db'.files : n \in DOMAIN tables /\ n \in DOMAIN tables'
            /\ tables'[n] = tables[n]
      BY <2>1, <2>3, <2>4, Collected
    <3>2. Entries(tables', db'.files) = Entries(tables, db'.files)
      BY <3>1, EntriesKept
    <3>3. Entries(tables, {work.number}) = tables[work.number]
      BY <2>3 DEF Entries
    <3>4. Entries(tables, db'.files) = Entries(tables, db.files \ work.edit.deleted) \cup Entries(tables, work.edit.deleted)
      BY <2>1, <2>3, <3>3, EntriesOfMore
    <3>5. db.files = (db.files \ work.edit.deleted) \cup work.edit.deleted
      BY <2>3
    <3>6. Entries(tables, db.files) = Entries(tables, db.files \ work.edit.deleted) \cup Entries(tables, work.edit.deleted)
      BY <3>5, EntriesOfMore
    <3> QED BY <3>2, <3>4, <3>6
  <2>6. db.logNumber \in Nat
    BY DEF DbTypes
  <2>7. KeepsLogs(db.logNumber)
    <3>1. \A n \in DOMAIN logs : n >= db.logNumber => n \in DOMAIN logs' /\ logs'[n] = logs[n]
      BY <2>1, <2>3, Collected
    <3> QED BY <2>6, <3>1, LogsFrom
  <2>8. Read' = Read
    BY <2>1, <2>2, ManifestStays, ReadKept
  <2>9. ASSUME NEW edits \in Read
        PROVE /\ KeepsLogs(LogOf(edits))
              /\ Entries(tables, FilesOf(edits)) \subseteq Entries(tables', FilesOf(edits))
    <3>1. Fits(edits) /\ FilesOf(edits) \subseteq DOMAIN tables
      BY <2>2, ReadFits
    <3>2. CASE db.bgError
      <4>1. UNCHANGED <<logs, tables>>
        BY <2>1, <3>2 DEF DeleteObsoleteFiles
      <4> QED BY <4>1, LogsUnchanged
    <3>3. CASE ~db.bgError
      <4>1. LogOf(edits) = PendingLog /\ FilesOf(edits) \subseteq PendingFiles
        BY <3>1, <3>3 DEF Fits, Installed
      <4>2. LogOf(edits) = db.logNumber /\ FilesOf(edits) \subseteq db'.files
        BY <2>1, <2>2, <4>1 DEF PendingLog, PendingFiles
      <4>3. \A n \in FilesOf(edits) : n \in DOMAIN tables /\ n \in DOMAIN tables'
              /\ tables'[n] = tables[n]
        BY <2>1, <3>1, <4>2, Collected
      <4>4. Entries(tables', FilesOf(edits)) = Entries(tables, FilesOf(edits))
        BY <4>3, EntriesKept
      <4> QED BY <2>7, <4>2, <4>4
    <3> QED BY <3>2, <3>3
  <2> QED BY <2>1, <2>2, <2>3, <2>5, <2>7, <2>8, <2>9, MemoryStays
<1>23. CASE CompactionFails
  <2>1. /\ UNCHANGED <<options, logs, tables, mem, imm, acked, synced>>
        /\ work # None /\ (UNCHANGED manifests \/ (work.stage = "apply"
          /\ AppendEdit(work.edit)))
        /\ db'.files = db.files /\ db'.logfile = db.logfile /\ db'.logNumber = db.logNumber
        /\ db'.last = db.last /\ db'.manifest = db.manifest
    BY <1>23, CompactionFailsDoes
  <2>2. phase \in {"open", "closing"}
    BY <2>1, InBackground
  <2>3. CASE work.stage = "apply" /\ AppendEdit(work.edit)
    <3>1. work.edit \in FullEdits
      BY <2>1, <2>3 DEF WorkTypes
    <3>2. work.edit.log = db.logNumber
      BY <2>1, <2>3 DEF WorkGood
    <3> QED BY <2>1, <2>2, <2>3, <3>1, <3>2, MemoryWithEdit
  <2>4. CASE UNCHANGED manifests
    <3>1. phase \in Using
      BY <2>2 DEF Using
    <3>2. Read' = Read
      BY <2>1, <2>4, ReadKept
    <3>3. \A from : KeepsLogs(from)
      BY <2>1, LogsUnchanged
    <3>4. Entries(tables', db'.files) = Entries(tables, db.files)
      BY <2>1
    <3> QED BY <2>1, <3>1, <3>2, <3>3, <3>4, MemoryStays
  <2> QED BY <2>1, <2>3, <2>4
<1>24. CASE OpenFails
  <2>1. phase' \notin Using
    BY <1>24 DEF OpenFails, Forget, Using
  <2> QED BY <2>1 DEF Memory
<1>25. CASE Close
  <2>1. /\ phase \in Using /\ UNCHANGED <<options, logs, tables, manifests, mem, imm, db, acked,
                                          synced>>
    BY <1>25 DEF Close, disk, history, Using
  <2>2. -1 \notin db.files /\ \A edits \in Read : -1 \notin FilesOf(edits)
    <3>1. \A edits \in Read : FilesOf(edits) \in SUBSET Nat
      BY <2>1, ReadFits
    <3> QED BY <3>1 DEF DbTypes
  <2> QED BY <2>1, <2>2, MemoryWithTable
<1>26. CASE Closing
  <2>1. phase' \notin Using
    BY <1>26 DEF Closing, Forget, disk, Using
  <2> QED BY <2>1 DEF Memory
<1>27. ASSUME NEW machine \in BOOLEAN, Stop(machine) PROVE Memory'
  <2>1. phase' \notin Using
    BY <1>27 DEF Stop, Forget, Using
  <2> QED BY <2>1 DEF Memory
<1>28. CASE UNCHANGED <<options, logs, tables, manifests, db, mem, imm, phase, acked, synced>>
  BY <1>28 DEF Memory, Read, Readings, ImmWrites, AppendedRecords, SyncedRecords
<1>29. CASE Opening
  BY <1>29, <1>1, <1>2, <1>3, <1>4, <1>5, <1>6, <1>7 DEF Opening
<1>30. ASSUME NEW w \in Writers, Writing(w) PROVE Memory'
  BY <1>30, <1>8, <1>28 DEF Writing, WriteRefused, WaitForRoom, SwitchFails,
     NothingToWrite, BeginCommit, disk, history, idle, memory
<1>31. CASE Committing
  BY <1>31, <1>9, <1>10, <1>11, <1>12, <1>28 DEF Committing, SyncFails, disk,
     history, idle, memory
<1>32. CASE Background
  BY <1>32, <1>13, <1>14, <1>15, <1>16, <1>17, <1>18, <1>19, <1>20, <1>21, <1>22,
     <1>23, <1>28 DEF Background, NothingToDo, BeginCompaction, disk, history, idle,
     memory
<1> QED BY <1>29, <1>30, <1>31, <1>32, <1>24, <1>25, <1>26, <1>27, <1>28 DEF StoreNext,
   CallWrite, NewIterator, ReleaseIterator, storeVars, disk, memory, history

\* What the MANIFEST in use has stays enough for an open.
LEMMA StoredStays ==
  ASSUME ManifestTypes, DbTypes, DbTypes', Manifest, phase \in Using, NEW edits \in Read,
         db'.manifest = db.manifest, NextOf(edits) <= NextOf(manifests'[db.manifest].edits),
         db.next <= db'.next, db.last <= db'.last, db.logfile <= db'.logfile,
         \A n \in FilesOf(edits) : n \in DOMAIN tables' /\ tables'[n] = tables[n],
         Entries(tables', db'.files) \subseteq Entries(tables, FilesOf(edits))
  PROVE Stored(edits)'
<1>1. Fits(edits) /\ FilesOf(edits) \subseteq DOMAIN tables
  BY ReadFits
<1>2. Entries(tables', FilesOf(edits)) = Entries(tables, FilesOf(edits))
  <2>1. \A n \in FilesOf(edits) : n \in DOMAIN tables /\ n \in DOMAIN tables'
          /\ tables'[n] = tables[n]
    BY <1>1
  <2> QED BY <2>1, EntriesKept
<1>3. /\ NextOf(edits) \in Nat /\ LogOf(edits) \in Nat /\ LastOf(edits) \in Nat
      /\ LogOf(edits) < NextOf(edits) /\ db.manifest < NextOf(edits)
      /\ \A f \in FilesOf(edits) : f < NextOf(edits)
      /\ \A s \in Entries(tables, FilesOf(edits)) : s <= LastOf(edits)
      /\ NextOf(edits) <= db.next /\ LastOf(edits) <= db.last /\ LogOf(edits) <= db.logfile
  BY <1>1 DEF Fits, Stored, Sound
<1>4. NextOf(edits) <= db'.next /\ LastOf(edits) <= db'.last /\ LogOf(edits) <= db'.logfile
  BY <1>3 DEF DbTypes
<1>5. FilesOf(edits) \subseteq DOMAIN tables'
  OBVIOUS
<1> QED BY <1>2, <1>3, <1>4, <1>5 DEF Stored, Sound

\* And with an edit that was added to it.
LEMMA StoredWithEdit ==
  ASSUME ManifestTypes, DbTypes, TableTypes, Manifest, phase \in Using, UNCHANGED tables,
         NEW old, old = manifests[db.manifest].edits, NEW e \in FullEdits,
         db'.manifest = db.manifest, manifests'[db.manifest].edits = Append(old, e),
         db'.next = db.next, db'.last = db.last, db'.logfile = db.logfile, db'.files = db.files,
         NextOf(old) <= e.next, LastOf(old) <= e.last,
         e.log <= db.logfile, e.log < e.next, e.next <= db.next, e.last <= db.last,
         e.added \subseteq DOMAIN tables, \A n \in e.added : n < e.next,
         \A s \in Entries(tables, e.added) : s <= e.last,
         Entries(tables, e.deleted) \subseteq Entries(tables, e.added)
  PROVE Stored(Append(old, e))'
<1> DEFINE new == Append(old, e)
<1>1. e \in Edits /\ e.next # None /\ e.log # None /\ e.last # None
  BY FullIsEdit, StoreAssumption DEF FullEdits
<1>2. old \in Read
  BY ReadIs
<1>3. old \in Seq(Edits) /\ Fits(old)
  BY <1>2, ReadFits
<1>4. /\ NextOf(new) = e.next /\ LogOf(new) = e.log /\ LastOf(new) = e.last
      /\ FilesOf(new) = (FilesOf(old) \ e.deleted) \cup e.added
  BY <1>1, <1>3, NumbersAppended, FilesAppended
<1> HIDE DEF new
<1>5. /\ NextOf(old) \in Nat /\ LastOf(old) \in Nat /\ db.manifest < NextOf(old)
      /\ FilesOf(old) \subseteq DOMAIN tables
      /\ \A f \in FilesOf(old) : f < NextOf(old)
      /\ \A s \in Entries(tables, FilesOf(old)) : s <= LastOf(old)
      /\ Entries(tables, db.files) \subseteq Entries(tables, FilesOf(old))
  BY <1>3 DEF Fits, Stored, Sound
<1>6. e.next \in Nat /\ e.log \in Nat /\ e.last \in Nat /\ db.manifest \in Nat
  BY DEF FullEdits, DbTypes
<1>7. FilesOf(new) \subseteq DOMAIN tables
  BY <1>4, <1>5
<1>8. \A f \in FilesOf(new) : f < e.next
  <2> TAKE f \in FilesOf(new)
  <2>1. f \in Nat
    BY <1>7 DEF TableTypes
  <2>2. f < NextOf(old) \/ f < e.next
    BY <1>4, <1>5
  <2> QED BY <1>5, <1>6, <2>1, <2>2
<1>9. ASSUME NEW s \in Entries(tables, FilesOf(new)) PROVE s <= e.last
  <2>1. s \in Entries(tables, FilesOf(old)) \/ s \in Entries(tables, e.added)
    BY <1>4, EntriesAre
  <2>2. s \in Nat
    <3>1. PICK n \in FilesOf(new) : n \in DOMAIN tables /\ s \in tables[n]
      BY EntriesAre
    <3> QED BY <3>1 DEF TableTypes
  <2> QED BY <1>5, <1>6, <2>1, <2>2
<1>10. Entries(tables, FilesOf(old)) \subseteq Entries(tables, FilesOf(new))
  <2> SUFFICES ASSUME NEW s \in Entries(tables, FilesOf(old))
               PROVE s \in Entries(tables, FilesOf(new))
    OBVIOUS
  <2>1. PICK n \in FilesOf(old) : n \in DOMAIN tables /\ s \in tables[n]
    BY EntriesAre
  <2>2. CASE n \notin e.deleted
    BY <1>4, <2>1, <2>2, EntriesAre
  <2>3. CASE n \in e.deleted
    <3>1. s \in Entries(tables, e.deleted)
      BY <2>1, <2>3, EntriesAre
    <3>2. e.added \subseteq FilesOf(new)
      BY <1>4
    <3>3. Entries(tables, e.added) \subseteq Entries(tables, FilesOf(new))
      BY <3>2, EntriesOfMore
    <3> QED BY <3>1, <3>3
  <2> QED BY <2>2, <2>3
<1>11. db.manifest < e.next
  BY <1>5, <1>6
<1>12. /\ NextOf(manifests'[db'.manifest].edits) = e.next /\ e.next <= e.next
  BY <1>4, <1>6 DEF new
<1>13. Sound(new, db.manifest)'
  BY <1>4, <1>6, <1>7, <1>8, <1>9, <1>11, <1>12 DEF Sound
<1>14. Entries(tables', db'.files) \subseteq Entries(tables', FilesOf(new))
  BY <1>5, <1>10
<1> QED BY <1>4, <1>13, <1>14 DEF Stored, new

\* The MANIFEST stays as it is.
LEMMA ManifestGoesOn ==
  ASSUME ManifestTypes, DbTypes, DbTypes', Manifest, phase \in Using,
         phase' = "current" <=> phase = "current",
         UNCHANGED <<options, CURRENT>>, db'.manifest = db.manifest,
         db.manifest \in DOMAIN manifests', manifests'[db.manifest] = manifests[db.manifest],
         db.next <= db'.next, db.last <= db'.last, db.logfile <= db'.logfile,
         \A edits \in Read :
           /\ \A n \in FilesOf(edits) : n \in DOMAIN tables' /\ tables'[n] = tables[n]
           /\ Entries(tables', db'.files) \subseteq Entries(tables, FilesOf(edits))
           /\ Installed(edits)' /\ FitsFlush(edits)' /\ FitsWork(edits)'
  PROVE Manifest'
<1>1. Read' = Read
  BY ReadKept
<1>2. ASSUME NEW edits \in Read PROVE Fits(edits)'
  <2>1. NextOf(edits) <= NextOf(manifests'[db.manifest].edits)
    BY ReadFits DEF Fits, Stored, Sound
  <2>2. Stored(edits)'
    BY <2>1, StoredStays
  <2> QED BY <2>2 DEF Fits
<1>3. \A edits \in Read' : Fits(edits)'
  BY <1>1, <1>2
<1>4. phase' = "current" <=> CURRENT' # db'.manifest
  BY DEF Manifest
<1> QED BY <1>3, <1>4 DEF Manifest

\* So does the version, while a table that none names may change.
LEMMA ManifestWithTable ==
  ASSUME ManifestTypes, DbTypes, DbTypes', Versions, Manifest, phase \in Using,
         phase' = "current" <=> phase = "current",
         UNCHANGED <<options, CURRENT, manifests>>, db'.manifest = db.manifest, db'.files =
                     db.files,
         db.next <= db'.next, db.last <= db'.last, db.logfile <= db'.logfile,
         NEW k, \A n \in DOMAIN tables : n # k
           => n \in DOMAIN tables' /\ tables'[n] = tables[n],
         k \notin db.files, \A edits \in Read : k \notin FilesOf(edits),
         \A edits \in Read : Installed(edits)' /\ FitsFlush(edits)' /\ FitsWork(edits)'
  PROVE Manifest'
<1>1. Entries(tables', db'.files) = Entries(tables, db.files)
  <2>1. \A n \in db.files : n \in DOMAIN tables
    BY LivingIs DEF Versions, Using
  <2>2. \A n \in db.files : n \in DOMAIN tables /\ n \in DOMAIN tables'
          /\ tables'[n] = tables[n]
    BY <2>1
  <2> QED BY <2>2, EntriesKept
<1>2. ASSUME NEW edits \in Read
      PROVE /\ \A n \in FilesOf(edits) : n \in DOMAIN tables' /\ tables'[n] = tables[n]
            /\ Entries(tables', db'.files) \subseteq Entries(tables, FilesOf(edits))
  BY <1>1, ReadFits DEF Fits, Stored
<1>3. db.manifest \in DOMAIN manifests' /\ manifests'[db.manifest] = manifests[db.manifest]
  BY DEF Manifest
<1> QED BY <1>2, <1>3, ManifestGoesOn

\* The version is still behind the MANIFEST.
LEMMA InstalledStays ==
  ASSUME Manifest, phase \in Using, UNCHANGED <<flush, work>>, db'.logNumber = db.logNumber,
         db'.files = db.files, db'.bgError = db.bgError \/ db'.bgError
  PROVE \A edits \in Read : Installed(edits)'
<1>1. PendingLog' = PendingLog /\ PendingFiles' = PendingFiles
  BY DEF PendingLog, PendingFiles
<1> QED BY <1>1 DEF Manifest, Fits, Installed

\* The MANIFEST still fits the memtable compaction,
LEMMA FlushFitsStill ==
  ASSUME Manifest, phase \in Using, UNCHANGED flush \/ flush' = None
  PROVE \A edits \in Read : FitsFlush(edits)'
BY DEF Manifest, Fits, FitsFlush

\* and the table compaction.
LEMMA WorkFitsStill ==
  ASSUME Manifest, phase \in Using, UNCHANGED work \/ work' = None
  PROVE \A edits \in Read : FitsWork(edits)'
BY DEF Manifest, Fits, FitsWork

\* Nothing that the MANIFEST is compared with gets less.
LEMMA NumbersGrow ==
  ASSUME DbTypes, DbTypes', LogTypes, LogsGood, phase \in Using,
         db'.next = db.next \/ db'.next = db.next + 1, db'.last = db.last,
         db'.logfile = db.logfile \/ db'.logfile = db.next
  PROVE db.next <= db'.next /\ db.last <= db'.last /\ db.logfile <= db'.logfile
<1>1. db.logfile < db.next
  BY LogIsOld
<1> QED BY <1>1 DEF DbTypes

\* The numbers of a full edit are the last given.
LEMMA EditIsLast ==
  ASSUME ManifestTypes, CURRENT = db.manifest, CURRENT \in DOMAIN manifests,
         UNCHANGED <<options,
                                                                                         CURRENT>>,
         db'.manifest = db.manifest, NEW e \in Edits, WriteEdit(e) \/ AppendEdit(e)
  PROVE /\ db.manifest \in DOMAIN manifests'
        /\ manifests'[db.manifest].edits = Append(manifests[db.manifest].edits, e)
BY DEF WriteEdit, AppendEdit

\* An edit that is synced is what every open reads.
LEMMA EditIsRead ==
  ASSUME ManifestTypes, CURRENT = db.manifest, CURRENT \in DOMAIN manifests,
         UNCHANGED <<options,
                                                                                         CURRENT>>,
         db'.manifest = db.manifest, NEW e \in Edits, WriteEdit(e)
  PROVE \A edits \in Read' : edits = Append(manifests[db.manifest].edits, e)
<1> DEFINE new == Append(manifests[db.manifest].edits, e)
<1>1. /\ manifests'[db'.manifest].edits = new
      /\ manifests'[db'.manifest].synced = Len(manifests[db.manifest].edits) + 1
  BY DEF WriteEdit
<1>2. new \in Seq(Edits) /\ Len(new) = Len(manifests[db.manifest].edits) + 1
  BY EditsHave
<1> HIDE DEF new
<1>3. SubSeq(new, 1, Len(manifests[db.manifest].edits) + 1) = new
  BY <1>2, WholePrefix
<1>4. \A edits \in Read' : edits = new
  BY <1>1, <1>3, ReadThen
<1> QED BY <1>4 DEF new

\* The edit of a memtable compaction fits the MANIFEST,
LEMMA FlushEditFits ==
  ASSUME ManifestTypes, DbTypes, TableTypes, Manifest, FlushTypes, FlushGood, WorkTypes,
         WorkGood, Phases,
         phase \in Using, flush # None, flush.stage = "apply", UNCHANGED <<tables, work>>,
         NEW new, new = Append(manifests[db.manifest].edits, flush.edit),
         db'.manifest = db.manifest, manifests'[db.manifest].edits = new,
         db'.next = db.next, db'.last = db.last, db'.logfile = db.logfile, db'.files = db.files
  PROVE /\ Stored(new)' /\ FitsWork(new)'
        /\ LogOf(new) = flush.edit.log /\ NextOf(new) = flush.edit.next
        /\ FilesOf(new) = FilesOf(manifests[db.manifest].edits) \cup flush.edit.added
<1> DEFINE old == manifests[db.manifest].edits
<1>1. old \in Read /\ Fits(old) /\ old \in Seq(Edits)
  BY ReadIs, ReadFits
<1>2. /\ flush.edit \in FullEdits /\ flush.edit.deleted = {}
      /\ flush.edit.added \subseteq DOMAIN tables
      /\ \A n \in flush.edit.added : n < flush.edit.next
      /\ flush.edit.next <= db.next /\ flush.edit.last <= db.last
      /\ flush.edit.log = db.logfile /\ flush.edit.log < flush.edit.next
      /\ Entries(tables, flush.edit.added) = ImmWrites
      /\ \A s \in ImmWrites : s <= flush.edit.last
  BY DEF FlushTypes, FlushGood
<1>3. NextOf(old) <= flush.edit.next /\ LastOf(old) <= flush.edit.last
  BY <1>1 DEF Fits, FitsFlush
<1>4. flush.edit \in Edits /\ flush.edit.next # None /\ flush.edit.log # None
  BY <1>2, FullIsEdit, StoreAssumption DEF FullEdits
<1>5. /\ LogOf(new) = flush.edit.log /\ NextOf(new) = flush.edit.next
      /\ FilesOf(new) = FilesOf(old) \cup flush.edit.added
  <2> HIDE DEF old
  <2>1. new = Append(old, flush.edit)
    BY DEF old
  <2>2. FilesOf(new) = (FilesOf(old) \ flush.edit.deleted) \cup flush.edit.added
    BY <1>1, <1>4, <2>1, FilesAppended
  <2> QED BY <1>1, <1>2, <1>4, <2>1, <2>2, NumbersAppended
<1>6. Stored(new)'
  <2>1. flush.edit.log <= db.logfile
    BY <1>2 DEF DbTypes
  <2>2. Entries(tables, flush.edit.deleted) \subseteq Entries(tables, flush.edit.added)
    BY <1>2, EntriesOfMore
  <2> QED BY <1>2, <1>3, <2>1, <2>2, StoredWithEdit
<1>7. FitsWork(new)'
  <2> SUFFICES ASSUME work # None PROVE FitsWork(new)'
    BY DEF FitsWork
  <2>1. work.stage = "merge"
    BY DEF Phases
  <2>2. work.number \notin FilesOf(old)
    BY <1>1, <2>1 DEF Fits, FitsWork
  <2>3. work.number \notin flush.edit.added
    <3>1. CASE work.number = None
      BY <1>2, <3>1, StoreAssumption DEF FullEdits
    <3>2. CASE work.number # None
      BY <2>1, <3>2 DEF WorkGood
    <3> QED BY <3>1, <3>2
  <2> QED BY <1>5, <2>1, <2>2, <2>3 DEF FitsWork
<1> QED BY <1>5, <1>6, <1>7

\* and that of a table compaction, which is not under way then.
LEMMA WorkEditFits ==
  ASSUME ManifestTypes, DbTypes, TableTypes, Manifest, WorkTypes, WorkGood, LogTypes, LogsGood,
         phase \in Using, work # None, work.stage = "apply", UNCHANGED tables,
         NEW new, new = Append(manifests[db.manifest].edits, work.edit),
         db'.manifest = db.manifest, manifests'[db.manifest].edits = new,
         db'.next = db.next, db'.last = db.last, db'.logfile = db.logfile, db'.files = db.files
  PROVE /\ Stored(new)' /\ LogOf(new) = work.edit.log /\ NextOf(new) = work.edit.next
        /\ FilesOf(new) = (FilesOf(manifests[db.manifest].edits) \ work.edit.deleted) \cup {work.number}
<1> DEFINE old == manifests[db.manifest].edits
<1>1. old \in Read /\ Fits(old) /\ old \in Seq(Edits)
  BY ReadIs, ReadFits
<1>2. /\ work.edit \in FullEdits /\ work.edit.added = {work.number}
        /\ work.number \in DOMAIN tables
      /\ work.number < work.edit.next
      /\ work.edit.next <= db.next /\ work.edit.last <= db.last
      /\ work.edit.log = db.logNumber /\ work.edit.log < work.edit.next
      /\ tables[work.number] = Entries(tables, work.edit.deleted)
      /\ \A s \in tables[work.number] : s <= work.edit.last
  BY DEF WorkTypes, WorkGood
<1>3. NextOf(old) <= work.edit.next /\ LastOf(old) <= work.edit.last
  BY <1>1 DEF Fits, FitsWork
<1>4. work.edit \in Edits /\ work.edit.next # None /\ work.edit.log # None
  BY <1>2, FullIsEdit, StoreAssumption DEF FullEdits
<1>5. /\ LogOf(new) = work.edit.log /\ NextOf(new) = work.edit.next
      /\ FilesOf(new) = (FilesOf(old) \ work.edit.deleted) \cup work.edit.added
  <2> HIDE DEF old
  <2>1. new = Append(old, work.edit)
    BY DEF old
  <2> QED BY <1>1, <1>4, <2>1, NumbersAppended, FilesAppended
<1>6. Stored(new)'
  <2>1. work.edit.log <= db.logfile
    BY <1>2, LogIsOld
  <2>2. Entries(tables, work.edit.added) = tables[work.number]
    BY <1>2 DEF Entries
  <2>3. Entries(tables, work.edit.deleted) \subseteq Entries(tables, work.edit.added)
    BY <1>2, <2>2
  <2>4. /\ work.edit.added \subseteq DOMAIN tables
          /\ \A n \in work.edit.added : n < work.edit.next
        /\ \A s \in Entries(tables, work.edit.added) : s <= work.edit.last
    BY <1>2, <2>2
  <2> QED BY <1>2, <1>3, <2>1, <2>3, <2>4, StoredWithEdit
<1> QED BY <1>2, <1>5, <1>6

\* An append that fails leaves the old readings or the new one.
LEMMA ReadAfterFailure ==
  ASSUME ManifestTypes, DbTypes, DbTypes', Manifest, phase \in {"open", "closing"},
         UNCHANGED <<options, CURRENT, tables, phase>>,
         db'.manifest = db.manifest, db'.next = db.next, db'.last = db.last,
         db'.logfile = db.logfile, db'.files = db.files, db'.bgError = TRUE,
         UNCHANGED flush \/ flush' = None, UNCHANGED work \/ work' = None,
         NEW e, manifests' = manifests \/ (e \in Edits /\ AppendEdit(e)),
         NEW new, new = Append(manifests[db.manifest].edits, e),
         manifests' # manifests =>
           /\ Stored(new)' /\ FitsFlush(new)' /\ FitsWork(new)'
           /\ \A edits \in Read : NextOf(edits) <= NextOf(new)
  PROVE Manifest'
<1>1. phase \in Using /\ CURRENT = db.manifest /\ CURRENT \in DOMAIN manifests
  BY CurrentIsUsed DEF Using
<1>2. /\ \A edits \in Read' : edits \in Read \/ (manifests' # manifests /\ edits = new)
      /\ db.manifest \in DOMAIN manifests'
      /\ manifests'[db.manifest].edits = IF manifests' = manifests THEN manifests[db.manifest].edits ELSE new
  <2>1. CASE manifests' = manifests
    <3>1. Read' = Read
      BY <2>1, ReadKept
    <3> QED BY <1>1, <2>1, <3>1
  <2>2. CASE manifests' # manifests
    <3>1. e \in Edits /\ AppendEdit(e)
      BY <2>2
    <3>2. \A edits \in Read' : edits \in Read \/ edits = new
      BY <1>1, <3>1, EditWritten
    <3> QED BY <1>1, <2>2, <3>1, <3>2, EditIsLast
  <2> QED BY <2>1, <2>2
<1>3. ASSUME NEW edits \in Read PROVE Fits(edits)'
  <2>1. NextOf(edits) <= NextOf(manifests'[db.manifest].edits)
    <3>1. NextOf(edits) <= NextOf(manifests[db.manifest].edits)
      BY <1>1, ReadFits DEF Fits, Stored, Sound
    <3> QED BY <1>2, <3>1
  <2>2. db.next <= db'.next /\ db.last <= db'.last /\ db.logfile <= db'.logfile
    BY DEF DbTypes
  <2>3. /\ \A n \in FilesOf(edits) : n \in DOMAIN tables' /\ tables'[n] = tables[n]
        /\ Entries(tables', db'.files) \subseteq Entries(tables, FilesOf(edits))
    BY <1>1, ReadFits DEF Fits, Stored
  <2>4. Stored(edits)'
    BY <1>1, <2>1, <2>2, <2>3, StoredStays
  <2>5. FitsFlush(edits)' /\ FitsWork(edits)'
    BY <1>1, FlushFitsStill, WorkFitsStill
  <2>6. Installed(edits)'
    BY DEF Installed
  <2> QED BY <2>4, <2>5, <2>6 DEF Fits
<1>4. manifests' # manifests => Fits(new)'
  <2>1. Installed(new)'
    BY DEF Installed
  <2> QED BY <2>1 DEF Fits
<1>5. phase' # "current" /\ CURRENT' = db'.manifest /\ db'.manifest \in DOMAIN manifests'
  BY <1>1, <1>2
<1>6. \A edits \in Read' : Fits(edits)'
  BY <1>2, <1>3, <1>4
<1> QED BY <1>5, <1>6 DEF Manifest

\* What the next open would be told while this one recovers.
LEMMA RecoveryReads ==
  ASSUME ManifestTypes, DbTypes, Phases, Closedness, Recovery, phase \in Recovering
  PROVE /\ Sound(AllEdits, CURRENT) /\ AllEdits \in Seq(Edits)
        /\ CURRENT \in DOMAIN manifests /\ CURRENT \in Nat
        /\ db.files = FilesOf(AllEdits) /\ db.logNumber = LogOf(AllEdits)
        /\ NextOf(AllEdits) \in Nat /\ LogOf(AllEdits) \in Nat /\ LastOf(AllEdits) \in Nat
        /\ LogOf(AllEdits) < NextOf(AllEdits) /\ CURRENT < NextOf(AllEdits)
        /\ NextOf(AllEdits) < db.next /\ LastOf(AllEdits) <= db.last
        /\ flush = None /\ work = None /\ opening # None
<1>1. AllEdits \in Readings(CURRENT)
  BY DEF Readings, AllEdits
<1>2. CURRENT # None /\ Complete(AllEdits)
  BY DEF Recovery
<1>3. Sound(AllEdits, CURRENT)
  BY <1>1, <1>2 DEF Closedness, Reopenable, Recovering
<1>4. CURRENT \in DOMAIN manifests /\ CURRENT \in Nat
  BY <1>2 DEF ManifestTypes
<1>5. AllEdits \in Seq(Edits)
  BY <1>4, EditsHave DEF AllEdits
<1> QED BY <1>3, <1>4, <1>5 DEF Sound, Recovery, Phases, Recovering, Using

\* Whatever is lost of the MANIFEST in use, it is at most one edit ahead of the version:
\* the edit whose installation is under way, or after an error, and every table it
\* names is there.
LEMMA ManifestKept ==
  ASSUME Manifest, DbTypes, DbTypes', TableTypes, LogTypes, OptionTypes,
           ManifestTypes, ManifestTypes', OpeningTypes, FlushTypes, WorkTypes, CommitTypes,
           CommitGood, FlushGood, WorkGood, LogsGood, Phases, Versions, Recovery,
           Closedness, Memory, [StoreNext]_storeVars
  PROVE Manifest'
<1>1. CASE NewDB
  <2>1. phase' \notin Using
    BY <1>1 DEF NewDB, memory, Using
  <2> QED BY <2>1 DEF Manifest
<1>2. CASE RecoverManifest
  <2>1. phase' \notin Using
    BY <1>2 DEF RecoverManifest, Using
  <2> QED BY <2>1 DEF Manifest
<1>3. CASE RecoverLogFile
  <2>1. phase' \notin Using
    BY <1>3 DEF RecoverLogFile, Using
  <2> QED BY <2>1 DEF Manifest
<1>4. CASE OpenNewLog
  <2>1. /\ phase = "logs" /\ phase' = (IF opening.save THEN "manifest" ELSE "ready")
        /\ (db.logfile # 0 /\ db' = db) \/ (db.logfile = 0 /\ db'.logfile = db.next
          /\ db'.next = db.next + 1)
        /\ db'.bgError = db.bgError /\ db'.files = db.files
        /\ db'.last = db.last /\ db'.logNumber = db.logNumber /\ db'.manifest = db.manifest
        /\ UNCHANGED <<options, tables, manifests, CURRENT, flush, work>>
    BY <1>4, OpenNewLogDoes
  <2>2. CASE opening.save
    BY <2>1, <2>2 DEF Manifest, Using
  <2>3. CASE ~opening.save
    <3>1. phase \in Recovering
      BY <2>1 DEF Recovering
    <3>2. options.reuseLogs /\ db.manifest = CURRENT
      BY <2>3, <3>1 DEF Recovery
    <3>3. ~options.machine
      BY <3>2, OptionValues
    <3>4. PICK edits : edits = AllEdits
      OBVIOUS
    <3>5. \A e \in Read' : e = edits
      BY <2>1, <3>2, <3>3, <3>4 DEF Read, Readings, AllEdits
    <3>6. /\ Sound(edits, CURRENT) /\ CURRENT \in DOMAIN manifests
          /\ db.files = FilesOf(edits) /\ db.logNumber = LogOf(edits)
          /\ NextOf(edits) \in Nat /\ LogOf(edits) \in Nat /\ LastOf(edits) \in Nat
          /\ LogOf(edits) < NextOf(edits) /\ NextOf(edits) < db.next /\ LastOf(edits) <= db.last
          /\ flush = None /\ work = None
      BY <3>1, <3>4, RecoveryReads
    <3>7. Sound(edits, db.manifest)'
      BY <2>1, <3>2, <3>6 DEF Sound
    <3>8. NextOf(edits) <= db'.next /\ LastOf(edits) <= db'.last
      BY <2>1, <3>6 DEF DbTypes
    <3>9. LogOf(edits) <= db'.logfile
      <4>1. CASE db.logfile = 0
        BY <2>1, <3>6, <4>1 DEF DbTypes
      <4>2. CASE db.logfile # 0
        BY <2>1, <3>1, <3>6, <4>2 DEF Recovery
      <4> QED BY <4>1, <4>2
    <3>10. Stored(edits)'
      BY <2>1, <3>6, <3>7, <3>8, <3>9 DEF Stored
    <3>11. Installed(edits)' /\ FitsFlush(edits)' /\ FitsWork(edits)'
      BY <2>1, <3>6 DEF Installed, FitsFlush, FitsWork, PendingLog, PendingFiles
    <3>12. phase' # "current" /\ CURRENT' = db'.manifest /\ db'.manifest \in DOMAIN manifests'
      BY <2>1, <2>3, <3>2, <3>6
    <3> QED BY <3>5, <3>10, <3>11, <3>12 DEF Manifest, Fits
  <2> QED BY <2>2, <2>3
<1>5. CASE OpenManifest
  <2>n. PICK before : before = (IF options.reuseLogs THEN AllEdits ELSE <<WriteSnapshot(db)>>)
    OBVIOUS
  <2>e. PICK edit : edit = Edit(opening.added, {}, db.logfile, db.next, db.last)
    OBVIOUS
  <2>f. PICK new : new = Append(before, edit)
    OBVIOUS
  <2>1. /\ phase = "manifest" /\ phase' = (IF options.reuseLogs THEN "ready" ELSE "current")
        /\ manifests' = Put(manifests, db.manifest, [edits |-> new, synced |-> Len(before) + 1])
        /\ db'.bgError = db.bgError /\ db'.files = db.files \cup opening.added
          /\ db'.next = db.next
        /\ db'.last = db.last /\ db'.logNumber = db.logfile /\ db'.logfile = db.logfile
        /\ db'.manifest = db.manifest
        /\ UNCHANGED <<options, tables, CURRENT, flush, work>>
    BY <1>5, <2>n, <2>e, <2>f, OpenManifestDoes
  <2>2. phase \in Recovering /\ phase # "closed"
    BY <2>1 DEF Recovering
  <2>3. /\ AllEdits \in Seq(Edits) /\ CURRENT \in DOMAIN manifests /\ CURRENT \in Nat
        /\ db.files = FilesOf(AllEdits)
        /\ NextOf(AllEdits) \in Nat /\ CURRENT < NextOf(AllEdits) /\ NextOf(AllEdits) < db.next
        /\ flush = None /\ work = None /\ opening # None
    BY <2>2, RecoveryReads
  <2>4. edit \in FullEdits /\ edit \in Edits /\ edit.next # None /\ edit.log # None
          /\ edit.last # None
    <3>1. opening.added \in SUBSET Nat
      BY <2>3 DEF OpeningTypes, Openings
    <3>2. edit \in FullEdits
      BY <2>e, <3>1 DEF Edit, FullEdits, DbTypes
    <3> QED BY <3>2, FullIsEdit, StoreAssumption DEF FullEdits
  <2>5. before \in Seq(Edits) /\ FilesOf(before) = db.files
    <3>1. CASE options.reuseLogs
      BY <2>n, <2>3, <3>1
    <3>2. CASE ~options.reuseLogs
      <4>1. WriteSnapshot(db) \in Edits /\ WriteSnapshot(db).deleted = {}
              /\ WriteSnapshot(db).added = db.files
        BY DEF WriteSnapshot, Edit, Edits, Numbers, DbTypes
      <4>2. << >> \in Seq(Edits) /\ before = Append(<< >>, WriteSnapshot(db))
        BY <2>n, <3>2
      <4>3. FilesOf(before) = (FilesOf(<< >>) \ WriteSnapshot(db).deleted) \cup WriteSnapshot(db).added
        BY <4>1, <4>2, FilesAppended
      <4>4. FilesOf(before) = db.files
        BY <4>1, <4>3, NothingGiven
      <4>5. before \in Seq(Edits)
        BY <4>1, <4>2
      <4> QED BY <4>4, <4>5
    <3> QED BY <3>1, <3>2
  <2>6. /\ NextOf(new) = db.next /\ LogOf(new) = db.logfile /\ LastOf(new) = db.last
        /\ FilesOf(new) = db.files \cup opening.added /\ new \in Seq(Edits)
          /\ Len(new) = Len(before) + 1
    <3>1. /\ edit.next = db.next /\ edit.log = db.logfile /\ edit.last = db.last
          /\ edit.added = opening.added /\ edit.deleted = {}
      BY <2>e DEF Edit
    <3>2. /\ NextOf(new) = edit.next /\ LogOf(new) = edit.log /\ LastOf(new) = edit.last
          /\ FilesOf(new) = (FilesOf(before) \ edit.deleted) \cup edit.added
      BY <2>f, <2>4, <2>5, NumbersAppended, FilesAppended
    <3>3. new \in Seq(Edits) /\ Len(new) = Len(before) + 1
      BY <2>f, <2>4, <2>5
    <3> QED BY <2>5, <3>1, <3>2, <3>3
  <2>7. /\ db.manifest \in DOMAIN manifests' /\ manifests'[db.manifest].edits = new
        /\ manifests'[db.manifest].synced = Len(before) + 1
    BY <2>1 DEF Put
  <2>8. \A e \in Read' : e = new
    <3>1. SubSeq(new, 1, Len(before) + 1) = new
      BY <2>6, WholePrefix
    <3> QED BY <2>1, <2>7, <3>1, ReadThen
  <2>9. /\ db.logfile \in DOMAIN logs /\ opening.todo = {} /\ \A n \in DOMAIN logs : n < db.next
        /\ db.manifest = IF options.reuseLogs THEN CURRENT ELSE NextOf(AllEdits)
        /\ \A s \in Entries(tables, db.files \cup opening.added) : s <= db.last
    BY <2>1, <2>2 DEF Recovery
  <2>10. db.manifest < db.next
    BY <2>3, <2>9 DEF DbTypes
  <2>11. \A f \in FilesOf(new) : f \in DOMAIN tables /\ f < db.next
    BY <2>2, <2>3, <2>6, LivingIs DEF Versions
  <2>12. Stored(new)'
    <3>1. NextOf(new) \in Nat /\ LogOf(new) \in Nat /\ LastOf(new) \in Nat
            /\ db.logfile < db.next
      BY <2>6, <2>9 DEF DbTypes
    <3>2. NextOf(new) <= db.next /\ LogOf(new) <= db.logfile /\ LastOf(new) <= db.last
      BY <2>6 DEF DbTypes
    <3>3. Sound(new, db.manifest)'
      BY <2>1, <2>6, <2>7, <2>9, <2>10, <2>11, <3>1, <3>2 DEF Sound
    <3> QED BY <2>1, <2>6, <3>2, <3>3 DEF Stored
  <2>13. Installed(new)' /\ FitsFlush(new)' /\ FitsWork(new)'
    BY <2>1, <2>3, <2>6 DEF Installed, FitsFlush, FitsWork, PendingLog, PendingFiles
  <2>14. phase' = "current" <=> CURRENT' # db'.manifest
    <3>1. CASE options.reuseLogs
      BY <2>1, <2>9, <3>1
    <3>2. CASE ~options.reuseLogs
      BY <2>1, <2>3, <2>9, <3>2
    <3> QED BY <3>1, <3>2
  <2>15. db'.manifest \in DOMAIN manifests'
    BY <2>1, <2>7
  <2> QED BY <2>8, <2>12, <2>13, <2>14, <2>15 DEF Manifest, Fits
<1>6. CASE SetCurrentFile
  <2>1. /\ phase = "current" /\ phase' = "ready" /\ CURRENT' = db.manifest
        /\ UNCHANGED <<options, tables, manifests, db, flush, work>>
    BY <1>6 DEF SetCurrentFile, idle
  <2>2. phase \in Using /\ Read' = Read
    BY <2>1, ReadKept DEF Using
  <2>3. \A edits \in Read : Fits(edits)'
    BY <2>1, <2>2 DEF Manifest, Fits, Stored, Sound, Installed, FitsFlush, FitsWork, PendingLog,
       PendingFiles
  <2> QED BY <2>1, <2>2, <2>3 DEF Manifest
<1>7. CASE Opened
  <2>1. /\ phase = "ready" /\ phase' = "open" /\ DeleteObsoleteFiles(db, {}, manifests)
        /\ UNCHANGED <<options, CURRENT, db, flush, work>>
    BY <1>7 DEF Opened, idle
  <2>2. phase \in Using /\ flush = None /\ work = None /\ ~db.bgError
    BY <2>1 DEF Using, Phases
  <2>3. db.manifest \in DOMAIN manifests' /\ manifests'[db.manifest] = manifests[db.manifest]
    BY <2>1, <2>2, ManifestStays
  <2>4. PendingLog' = PendingLog /\ PendingFiles' = PendingFiles /\ PendingFiles = db.files
    BY <2>1, <2>2 DEF PendingLog, PendingFiles
  <2>5. ASSUME NEW edits \in Read
        PROVE /\ \A n \in FilesOf(edits) : n \in DOMAIN tables' /\ tables'[n] = tables[n]
              /\ Entries(tables', db'.files) \subseteq Entries(tables, FilesOf(edits))
              /\ Installed(edits)' /\ FitsFlush(edits)' /\ FitsWork(edits)'
    <3>1. Fits(edits) /\ FilesOf(edits) \subseteq DOMAIN tables
      BY <2>2, ReadFits
    <3>2. /\ \A n \in DOMAIN tables' : n \in DOMAIN tables /\ tables'[n] = tables[n]
          /\ \A n \in DOMAIN tables : n \in db.files => n \in DOMAIN tables'
      BY <2>1, Collected
    <3>3. FilesOf(edits) \subseteq db.files
      BY <2>2, <2>4, <3>1 DEF Fits, Installed
    <3>4. \A n \in FilesOf(edits) : n \in DOMAIN tables' /\ tables'[n] = tables[n]
      BY <3>1, <3>2, <3>3
    <3>5. Entries(tables', db.files) \subseteq Entries(tables, db.files)
      BY <3>2, EntriesAre
    <3>6. Entries(tables', db'.files) \subseteq Entries(tables, FilesOf(edits))
      BY <2>1, <3>1, <3>5 DEF Fits, Stored
    <3>7. Installed(edits)'
      BY <2>1, <2>4, <3>1 DEF Fits, Installed
    <3>8. FitsFlush(edits)' /\ FitsWork(edits)'
      BY <2>1, <2>2, FlushFitsStill, WorkFitsStill
    <3> QED BY <3>4, <3>6, <3>7, <3>8
  <2>6. db.next <= db'.next /\ db.last <= db'.last /\ db.logfile <= db'.logfile
    BY <2>1 DEF DbTypes
  <2>7. phase' = "current" <=> phase = "current"
    BY <2>1
  <2> QED BY <2>1, <2>2, <2>3, <2>5, <2>6, <2>7, ManifestGoesOn
<1>8. ASSUME NEW w \in Writers, SwitchMemtable(w) PROVE Manifest'
  <2>1. /\ phase \in Using /\ phase' = phase /\ db'.next = db.next + 1 /\ db'.last = db.last
        /\ db'.logfile = db.next /\ db'.logNumber = db.logNumber /\ db'.files = db.files
        /\ db'.bgError = db.bgError /\ db'.manifest = db.manifest
        /\ UNCHANGED <<options, CURRENT, tables, manifests, flush, work>>
    BY <1>8, SwitchMemtableDoes DEF Using
  <2>2. db.next <= db'.next /\ db.last <= db'.last /\ db.logfile <= db'.logfile
    BY <2>1, NumbersGrow
  <2>3. -1 \notin db.files /\ \A edits \in Read : -1 \notin FilesOf(edits)
    <3>1. \A edits \in Read : FilesOf(edits) \in SUBSET Nat
      BY <2>1, ReadFits
    <3> QED BY <3>1 DEF DbTypes
  <2>4. \A edits \in Read : Installed(edits)' /\ FitsFlush(edits)' /\ FitsWork(edits)'
    BY <2>1, InstalledStays, FlushFitsStill, WorkFitsStill
  <2> QED BY <2>1, <2>2, <2>3, <2>4, ManifestWithTable
<1>9. CASE FinishCommit
  <2>1. /\ commit # None /\ phase' = phase
        /\ UNCHANGED <<options, CURRENT, tables, manifests, flush, work>>
    BY <1>9 DEF FinishCommit, disk
  <2>2. /\ db'.next = db.next /\ db.last <= db'.last /\ db'.logfile = db.logfile
        /\ db'.logNumber = db.logNumber /\ db'.files = db.files
        /\ db'.bgError = (db.bgError \/ commit.stage = "unsynced") /\ db'.manifest = db.manifest
    BY <1>9, CommitFinished
  <2>3. phase \in Using
    BY <2>1, InBackground DEF Using
  <2>4. db.next <= db'.next /\ db.logfile <= db'.logfile
    BY <2>2 DEF DbTypes
  <2>5. -1 \notin db.files /\ \A edits \in Read : -1 \notin FilesOf(edits)
    <3>1. \A edits \in Read : FilesOf(edits) \in SUBSET Nat
      BY <2>3, ReadFits
    <3> QED BY <3>1 DEF DbTypes
  <2>6. \A edits \in Read : Installed(edits)' /\ FitsFlush(edits)' /\ FitsWork(edits)'
    <3>1. db'.bgError = db.bgError \/ db'.bgError
      BY <2>2 DEF DbTypes
    <3> QED BY <2>1, <2>2, <2>3, <3>1, InstalledStays, FlushFitsStill, WorkFitsStill
  <2> QED BY <2>1, <2>2, <2>3, <2>4, <2>5, <2>6, ManifestWithTable
<1>10. CASE BeginFlush
  <2>1. /\ phase \in Using /\ phase' = phase /\ db'.next = db.next + 1 /\ db'.last = db.last
        /\ db'.logfile = db.logfile /\ db'.logNumber = db.logNumber /\ db'.files = db.files
        /\ db'.bgError = db.bgError /\ db'.manifest = db.manifest
        /\ flush = None /\ (work = None \/ work.stage = "merge")
        /\ flush' = [stage |-> "build", number |-> db.next]
        /\ tables' = (IF ImmWrites = {} THEN tables ELSE Put(tables, db.next, {}))
        /\ UNCHANGED <<options, CURRENT, manifests, work>>
    BY <1>10, BeginFlushDoes DEF Using
  <2>2. db.next <= db'.next /\ db.last <= db'.last /\ db.logfile <= db'.logfile
    BY <2>1, NumbersGrow
  <2>3. \A n \in DOMAIN tables : n # db.next => n \in DOMAIN tables' /\ tables'[n] = tables[n]
    BY <2>1 DEF Put
  <2>4. db.next \notin db.files
    BY <2>1, LivingAreOld, LivingIs DEF Using
  <2>5. \A edits \in Read : db.next \notin FilesOf(edits)
    BY <2>1, ReadFits
  <2>6. \A edits \in Read : Installed(edits)'
    <3>1. PendingLog' = PendingLog /\ PendingFiles' = PendingFiles
      BY <2>1 DEF PendingLog, PendingFiles
    <3> QED BY <2>1, <3>1 DEF Manifest, Fits, Installed
  <2>7. \A edits \in Read : FitsFlush(edits)'
    <3>1. flush'.stage = "build" /\ flush'.number = db.next
      BY <2>1
    <3> QED BY <2>5, <3>1 DEF FitsFlush
  <2>8. \A edits \in Read : FitsWork(edits)'
    BY <2>1, WorkFitsStill
  <2> QED BY <2>1, <2>2, <2>3, <2>4, <2>5, <2>6, <2>7, <2>8, ManifestWithTable
<1>11. CASE FlushBuilt
  <2>1. /\ phase \in Using /\ phase' = phase /\ db'.next = db.next /\ db'.last = db.last
        /\ db'.logfile = db.logfile /\ db'.logNumber = db.logNumber /\ db'.files = db.files
        /\ db'.bgError = db.bgError /\ db'.manifest = db.manifest
        /\ flush # None /\ flush.stage = "build"
        /\ UNCHANGED <<options, CURRENT, manifests, work>>
    BY <1>11, FlushBuiltDoes DEF Using
  <2>2. db.next <= db'.next /\ db.last <= db'.last /\ db.logfile <= db'.logfile
    BY <2>1, NumbersGrow
  <2>3. \A n \in DOMAIN tables : n # flush.number
          => n \in DOMAIN tables' /\ tables'[n] = tables[n]
    BY <1>11, FlushBuiltDoes
  <2>4. flush.number \notin db.files
    BY <2>1, LivingIs DEF FlushGood
  <2>5. \A edits \in Read : flush.number \notin FilesOf(edits)
    BY <2>1, ReadFits DEF Fits, FitsFlush
  <2>6. flush'.stage = "apply" /\ flush'.edit.next = db.next /\ flush'.edit.last = db.last
    BY <1>11, FlushBuiltDoes DEF Edit
  <2>7. \A edits \in Read : Installed(edits)'
    <3>1. PendingLog' = PendingLog /\ PendingFiles' = PendingFiles
      BY <2>1, <2>6 DEF PendingLog, PendingFiles
    <3> QED BY <2>1, <3>1 DEF Manifest, Fits, Installed
  <2>8. \A edits \in Read : FitsFlush(edits)'
    BY <2>1, <2>6, ReadFits DEF FitsFlush
  <2>9. \A edits \in Read : FitsWork(edits)'
    BY <2>1, WorkFitsStill
  <2> QED BY <2>1, <2>2, <2>3, <2>4, <2>5, <2>7, <2>8, <2>9, ManifestWithTable
<1>12. CASE BuildFails
  <2>1. /\ phase' = phase /\ db'.next = db.next /\ db'.last = db.last
        /\ db'.logfile = db.logfile /\ db'.logNumber = db.logNumber /\ db'.files = db.files
        /\ db'.bgError = TRUE /\ db'.manifest = db.manifest
        /\ flush # None /\ flush.stage = "build"
        /\ UNCHANGED <<options, CURRENT, manifests, work>>
        /\ flush' = None
    BY <1>12, BuildFailsDoes
  <2>2. phase \in Using
    BY <2>1, InBackground DEF Using
  <2>3. db.next <= db'.next /\ db.last <= db'.last /\ db.logfile <= db'.logfile
    BY <2>1, <2>2, NumbersGrow
  <2>4. \A n \in DOMAIN tables : n # flush.number
          => n \in DOMAIN tables' /\ tables'[n] = tables[n]
    BY <1>12, BuildFailsDoes DEF Restrict
  <2>5. flush.number \notin db.files
    BY <2>1, LivingIs DEF FlushGood
  <2>6. \A edits \in Read : flush.number \notin FilesOf(edits)
    BY <2>1, <2>2, ReadFits DEF Fits, FitsFlush
  <2>7. \A edits \in Read : Installed(edits)'
    BY <2>1 DEF Installed
  <2>8. \A edits \in Read : FitsFlush(edits)' /\ FitsWork(edits)'
    BY <2>1, <2>2, FlushFitsStill, WorkFitsStill
  <2> QED BY <2>1, <2>2, <2>3, <2>4, <2>5, <2>6, <2>7, <2>8, ManifestWithTable
<1>13. CASE FlushApply
  <2>1. /\ flush # None /\ flush.stage = "apply" /\ WriteEdit(flush.edit)
        /\ flush' = [stage |-> "install", edit |-> flush.edit]
        /\ UNCHANGED <<options, CURRENT, tables, db, phase, work>>
    BY <1>13, FlushApplyDoes
  <2>2. phase \in {"open", "closing"} /\ phase \in Using
    BY <2>1, InBackground DEF Using
  <2>3. CURRENT = db.manifest /\ CURRENT \in DOMAIN manifests
    BY <2>2, CurrentIsUsed
  <2>4. flush.edit \in Edits
    BY <2>1, FullIsEdit DEF FlushTypes
  <2>o. PICK old : old = manifests[db.manifest].edits
    OBVIOUS
  <2>n. PICK new : new = Append(manifests[db.manifest].edits, flush.edit)
    OBVIOUS
  <2>5. /\ \A edits \in Read' : edits = new
        /\ db.manifest \in DOMAIN manifests' /\ manifests'[db.manifest].edits = new
    BY <2>1, <2>3, <2>4, <2>n, EditIsRead, EditIsLast
  <2>6. /\ Stored(new)' /\ FitsWork(new)' /\ LogOf(new) = flush.edit.log
        /\ FilesOf(new) = FilesOf(old) \cup flush.edit.added
    BY <2>1, <2>2, <2>5, <2>o, <2>n, FlushEditFits
  <2>7. old \in Read /\ Fits(old)
    BY <2>2, <2>o, ReadIs, ReadFits
  <2>8. flush' # None /\ flush'.stage = "install" /\ flush'.edit = flush.edit
    <3>1. flush.edit \in FullEdits
      BY <2>1 DEF FlushTypes
    <3>2. flush' \in Flushes
      BY <2>1, <3>1 DEF Flushes
    <3> QED BY <2>1, <3>2, StoreAssumption
  <2>9. Installed(new)'
    <3>1. PendingLog' = flush.edit.log /\ PendingFiles' = db.files \cup flush.edit.added
      BY <2>1, <2>8 DEF PendingLog, PendingFiles
    <3>2. PendingFiles = db.files
      BY <2>1 DEF PendingFiles, Phases
    <3>3. ~db.bgError => FilesOf(old) \subseteq db.files
      BY <2>7, <3>2 DEF Fits, Installed
    <3> QED BY <2>1, <2>6, <3>1, <3>3 DEF Installed
  <2>10. FitsFlush(new)'
    BY <2>6, <2>8 DEF FitsFlush
  <2>11. phase' # "current" /\ CURRENT' = db'.manifest /\ db'.manifest \in DOMAIN manifests'
    BY <2>1, <2>2, <2>3, <2>5
  <2> QED BY <2>5, <2>6, <2>9, <2>10, <2>11 DEF Manifest, Fits
<1>14. CASE FlushApplyFails
  <2>1. /\ flush # None /\ flush.stage = "apply" /\ flush' = None
        /\ (manifests' = manifests \/ AppendEdit(flush.edit))
        /\ db'.bgError = TRUE /\ db'.files = db.files /\ db'.next = db.next
          /\ db'.last = db.last
        /\ db'.logfile = db.logfile /\ db'.manifest = db.manifest
        /\ UNCHANGED <<options, CURRENT, tables, phase, work>>
    BY <1>14, FlushApplyFailsDoes
  <2>2. phase \in {"open", "closing"} /\ phase \in Using
    BY <2>1, InBackground DEF Using
  <2>3. CURRENT = db.manifest /\ CURRENT \in DOMAIN manifests
    BY <2>2, CurrentIsUsed
  <2>4. flush.edit \in Edits
    BY <2>1, FullIsEdit DEF FlushTypes
  <2>n. PICK new : new = Append(manifests[db.manifest].edits, flush.edit)
    OBVIOUS
  <2>5. ASSUME manifests' # manifests
        PROVE /\ Stored(new)' /\ FitsFlush(new)' /\ FitsWork(new)'
              /\ \A edits \in Read : NextOf(edits) <= NextOf(new)
    <3>1. manifests'[db.manifest].edits = new
      BY <2>1, <2>3, <2>4, <2>5, <2>n, EditIsLast
    <3>2. Stored(new)' /\ FitsWork(new)' /\ NextOf(new) = flush.edit.next
      BY <2>1, <2>2, <2>n, <3>1, FlushEditFits
    <3>3. \A edits \in Read : NextOf(edits) <= flush.edit.next
      BY <2>1, <2>2, ReadFits DEF Fits, FitsFlush
    <3>4. FitsFlush(new)'
      BY <2>1 DEF FitsFlush
    <3> QED BY <3>2, <3>3, <3>4
  <2> QED BY <2>1, <2>2, <2>4, <2>5, <2>n, ReadAfterFailure
<1>15. CASE FlushInstall
  <2>1. /\ flush # None /\ flush.stage = "install" /\ flush' = None
        /\ DeleteObsoleteFiles(db', LiveVersions, manifests)
        /\ db'.bgError = db.bgError /\ db'.files = db.files \cup flush.edit.added
        /\ db'.next = db.next /\ db'.last = db.last /\ db'.logNumber = flush.edit.log
        /\ db'.logfile = db.logfile /\ db'.manifest = db.manifest
        /\ UNCHANGED <<options, CURRENT, phase, work>>
    BY <1>15, FlushInstallDoes
  <2>2. phase \in {"open", "closing"} /\ phase \in Using
    BY <2>1, InBackground DEF Using
  <2>3. db.manifest \in DOMAIN manifests' /\ manifests'[db.manifest] = manifests[db.manifest]
    BY <2>1, <2>2, ManifestStays
  <2>4. PendingLog = flush.edit.log /\ PendingFiles = db.files \cup flush.edit.added
    BY <2>1 DEF PendingLog, PendingFiles
  <2>5. PendingLog' = flush.edit.log /\ PendingFiles' = db.files \cup flush.edit.added
    BY <2>1 DEF PendingLog, PendingFiles, Phases
  <2>6. ASSUME NEW edits \in Read
        PROVE /\ \A n \in FilesOf(edits) : n \in DOMAIN tables' /\ tables'[n] = tables[n]
              /\ Entries(tables', db'.files) \subseteq Entries(tables, FilesOf(edits))
              /\ Installed(edits)' /\ FitsFlush(edits)' /\ FitsWork(edits)'
    <3>1. Fits(edits) /\ FilesOf(edits) \subseteq DOMAIN tables
      BY <2>2, ReadFits
    <3>2. /\ \A n \in DOMAIN tables' : n \in DOMAIN tables /\ tables'[n] = tables[n]
          /\ \A n \in DOMAIN tables : n \in db'.files => n \in DOMAIN tables'
      BY <2>1, Collected
    <3>3. \A n \in FilesOf(edits) : n \in DOMAIN tables' /\ tables'[n] = tables[n]
      <4>1. CASE db.bgError
        BY <2>1, <3>1, <4>1 DEF DeleteObsoleteFiles
      <4>2. CASE ~db.bgError
        <5>1. FilesOf(edits) \subseteq db'.files
          BY <2>1, <2>4, <3>1, <4>2 DEF Fits, Installed
        <5> QED BY <3>1, <3>2, <5>1
      <4> QED BY <4>1, <4>2
    <3>4. Entries(tables', db'.files) \subseteq Entries(tables, FilesOf(edits))
      <4>1. Entries(tables', db'.files) \subseteq Entries(tables, db.files) \cup Entries(tables, flush.edit.added)
        BY <2>1, <3>2, EntriesAre
      <4>2. Entries(tables, db.files) \subseteq Entries(tables, FilesOf(edits))
        BY <3>1 DEF Fits, Stored
      <4>3. flush.edit.added \subseteq FilesOf(edits)
        BY <2>1, <3>1 DEF Fits, FitsFlush
      <4>4. Entries(tables, flush.edit.added) \subseteq Entries(tables, FilesOf(edits))
        BY <4>3, EntriesOfMore
      <4> QED BY <4>1, <4>2, <4>4
    <3>5. Installed(edits)'
      BY <2>1, <2>4, <2>5, <3>1 DEF Fits, Installed
    <3>6. FitsFlush(edits)' /\ FitsWork(edits)'
      BY <2>1, <2>2, FlushFitsStill, WorkFitsStill
    <3> QED BY <3>3, <3>4, <3>5, <3>6
  <2>7. db.next <= db'.next /\ db.last <= db'.last /\ db.logfile <= db'.logfile
    BY <2>1 DEF DbTypes
  <2> QED BY <2>1, <2>2, <2>3, <2>6, <2>7, ManifestGoesOn
<1>16. ASSUME NEW inputs \in SUBSET db.files, BeginCompaction(inputs) PROVE Manifest'
  <2>1. /\ phase \in Using /\ phase' = phase /\ UNCHANGED <<options, CURRENT, manifests, tables,
                                                            db, flush>>
        /\ bg = "scheduled"
        /\ work' = [stage |-> "merge", base |-> db.files, inputs |-> inputs, number |-> None]
    BY <1>16, BeginCompactionDoes DEF Using
  <2>2. flush = None /\ work = None
    BY <2>1 DEF Phases
  <2>3. db.next <= db'.next /\ db.last <= db'.last /\ db.logfile <= db'.logfile
    BY <2>1, NumbersGrow
  <2>4. -1 \notin db.files /\ \A edits \in Read : -1 \notin FilesOf(edits)
          /\ None \notin FilesOf(edits)
    <3>1. \A edits \in Read : FilesOf(edits) \in SUBSET Nat
      BY <2>1, ReadFits
    <3> QED BY <3>1, StoreAssumption DEF DbTypes
  <2>5. \A edits \in Read : Installed(edits)'
    <3>1. PendingLog' = PendingLog /\ PendingFiles' = PendingFiles
      BY <2>1, <2>2 DEF PendingLog, PendingFiles
    <3> QED BY <2>1, <3>1 DEF Manifest, Fits, Installed
  <2>6. \A edits \in Read : FitsWork(edits)'
    <3>1. work'.stage = "merge" /\ work'.number = None
      BY <2>1
    <3> QED BY <2>4, <3>1 DEF FitsWork
  <2>7. \A edits \in Read : FitsFlush(edits)'
    BY <2>1, FlushFitsStill
  <2> QED BY <2>1, <2>3, <2>4, <2>5, <2>6, <2>7, ManifestWithTable
<1>17. CASE OpenOutput
  <2>1. /\ phase' = phase /\ db'.next = db.next + 1 /\ db'.last = db.last
        /\ db'.logfile = db.logfile /\ db'.logNumber = db.logNumber /\ db'.files = db.files
        /\ db'.bgError = db.bgError /\ db'.manifest = db.manifest
        /\ flush = None /\ work # None /\ work.stage = "merge"
        /\ work' = [stage |-> "merge", base |-> work.base, inputs |-> work.inputs, number |-> db.next]
        /\ tables' = Put(tables, db.next, {})
        /\ UNCHANGED <<options, CURRENT, manifests, flush>>
    BY <1>17, OpenOutputDoes
  <2>2. phase \in Using
    BY <2>1, InBackground DEF Using
  <2>3. db.next <= db'.next /\ db.last <= db'.last /\ db.logfile <= db'.logfile
    BY <2>1, <2>2, NumbersGrow
  <2>4. \A n \in DOMAIN tables : n # db.next => n \in DOMAIN tables' /\ tables'[n] = tables[n]
    BY <2>1 DEF Put
  <2>5. db.next \notin db.files
    BY <2>2, LivingAreOld, LivingIs DEF Using
  <2>6. \A edits \in Read : db.next \notin FilesOf(edits)
    BY <2>2, ReadFits
  <2>7. \A edits \in Read : Installed(edits)'
    <3>1. PendingLog' = PendingLog /\ PendingFiles' = PendingFiles
      BY <2>1 DEF PendingLog, PendingFiles
    <3> QED BY <2>1, <2>2, <3>1 DEF Manifest, Fits, Installed
  <2>8. \A edits \in Read : FitsWork(edits)'
    <3>1. work'.stage = "merge" /\ work'.number = db.next
      BY <2>1
    <3> QED BY <2>6, <3>1 DEF FitsWork
  <2>9. \A edits \in Read : FitsFlush(edits)'
    BY <2>1, <2>2, FlushFitsStill
  <2> QED BY <2>1, <2>2, <2>3, <2>4, <2>5, <2>6, <2>7, <2>8, <2>9, ManifestWithTable
<1>18. CASE OutputBuilt
  <2>1. /\ phase' = phase /\ UNCHANGED <<options, CURRENT, manifests, db, flush>>
        /\ flush = None /\ work # None /\ work.stage = "merge" /\ work.number # None
        /\ tables' = [tables EXCEPT ![work.number] = UNION {tables[n] : n \in work.inputs}]
        /\ work' = [stage |-> "apply", base |-> work.base, number |-> work.number,
                    edit |-> Edit({work.number}, work.inputs, db.logNumber, db.next, db.last)]
    BY <1>18, OutputBuiltDoes
  <2>2. phase \in Using
    BY <2>1, InBackground DEF Using
  <2>3. db.next <= db'.next /\ db.last <= db'.last /\ db.logfile <= db'.logfile
    BY <2>1, <2>2, NumbersGrow
  <2>4. \A n \in DOMAIN tables : n # work.number
          => n \in DOMAIN tables' /\ tables'[n] = tables[n]
    BY <2>1
  <2>5. work.number \notin db.files
    BY <2>1, LivingIs DEF WorkGood
  <2>6. \A edits \in Read : work.number \notin FilesOf(edits)
    BY <2>1, <2>2, ReadFits DEF Fits, FitsWork
  <2>7. work'.stage = "apply" /\ work'.edit.next = db.next /\ work'.edit.last = db.last
    BY <2>1 DEF Edit
  <2>8. \A edits \in Read : Installed(edits)'
    <3>1. PendingLog' = PendingLog /\ PendingFiles' = PendingFiles
      BY <2>1, <2>7 DEF PendingLog, PendingFiles
    <3> QED BY <2>1, <2>2, <3>1 DEF Manifest, Fits, Installed
  <2>9. \A edits \in Read : FitsWork(edits)'
    BY <2>2, <2>7, ReadFits DEF FitsWork
  <2>10. \A edits \in Read : FitsFlush(edits)'
    BY <2>1, <2>2, FlushFitsStill
  <2> QED BY <2>1, <2>2, <2>3, <2>4, <2>5, <2>6, <2>8, <2>9, <2>10, ManifestWithTable
<1>19. CASE CompactionApply
  <2>1. /\ work # None /\ work.stage = "apply" /\ WriteEdit(work.edit)
        /\ work' = [stage |-> "install", base |-> work.base, number |-> work.number, edit |-> work.edit]
        /\ UNCHANGED <<options, CURRENT, tables, db, phase, flush>>
    BY <1>19, CompactionApplyDoes
  <2>2. phase \in {"open", "closing"} /\ phase \in Using /\ flush = None
    BY <2>1, InBackground DEF Using, Phases
  <2>3. CURRENT = db.manifest /\ CURRENT \in DOMAIN manifests
    BY <2>2, CurrentIsUsed
  <2>4. work.edit \in Edits
    BY <2>1, FullIsEdit DEF WorkTypes
  <2>o. PICK old : old = manifests[db.manifest].edits
    OBVIOUS
  <2>n. PICK new : new = Append(manifests[db.manifest].edits, work.edit)
    OBVIOUS
  <2>5. /\ \A edits \in Read' : edits = new
        /\ db.manifest \in DOMAIN manifests' /\ manifests'[db.manifest].edits = new
    BY <2>1, <2>3, <2>4, <2>n, EditIsRead, EditIsLast
  <2>6. /\ Stored(new)' /\ LogOf(new) = work.edit.log
        /\ FilesOf(new) = (FilesOf(old) \ work.edit.deleted) \cup {work.number}
    BY <2>1, <2>2, <2>5, <2>o, <2>n, WorkEditFits
  <2>7. old \in Read /\ Fits(old)
    BY <2>2, <2>o, ReadIs, ReadFits
  <2>8. /\ work' # None /\ work'.stage = "install" /\ work'.edit = work.edit
        /\ work'.number = work.number
    <3>1. work.edit \in FullEdits /\ work.base \in SUBSET Nat /\ work.number \in Nat
      BY <2>1 DEF WorkTypes
    <3>2. work' \in Compactions
      BY <2>1, <3>1 DEF Compactions
    <3> QED BY <2>1, <3>2, StoreAssumption
  <2>9. Installed(new)'
    <3>1. PendingLog' = db.logNumber
      BY <2>1, <2>2 DEF PendingLog
    <3>2. PendingFiles' = (db.files \ work.edit.deleted) \cup {work.number}
      BY <2>1, <2>2, <2>8 DEF PendingFiles, WorkGood
    <3>3. PendingFiles = db.files
      BY <2>1, <2>2 DEF PendingFiles
    <3>4. ~db.bgError => FilesOf(old) \subseteq db.files
      BY <2>7, <3>3 DEF Fits, Installed
    <3>5. work.edit.log = db.logNumber
      BY <2>1 DEF WorkGood
    <3> QED BY <2>1, <2>6, <3>1, <3>2, <3>4, <3>5 DEF Installed
  <2>10. FitsWork(new)' /\ FitsFlush(new)'
    BY <2>1, <2>2, <2>6, <2>8 DEF FitsWork, FitsFlush
  <2>11. phase' # "current" /\ CURRENT' = db'.manifest /\ db'.manifest \in DOMAIN manifests'
    BY <2>1, <2>2, <2>3, <2>5
  <2> QED BY <2>5, <2>6, <2>9, <2>10, <2>11 DEF Manifest, Fits
<1>20. CASE CompactionInstall
  <2>1. /\ work # None /\ work.stage = "install" /\ work' = None
        /\ DeleteObsoleteFiles(db', held, manifests)
        /\ db'.bgError = db.bgError
          /\ db'.files = (db.files \ work.edit.deleted) \cup work.edit.added
        /\ db'.next = db.next /\ db'.last = db.last /\ db'.logNumber = work.edit.log
        /\ db'.logfile = db.logfile /\ db'.manifest = db.manifest
        /\ UNCHANGED <<options, CURRENT, phase, flush>>
    BY <1>20, CompactionInstallDoes
  <2>2. phase \in {"open", "closing"} /\ phase \in Using /\ flush = None
    BY <2>1, InBackground DEF Using, Phases
  <2>3. db.manifest \in DOMAIN manifests' /\ manifests'[db.manifest] = manifests[db.manifest]
    BY <2>1, <2>2, ManifestStays
  <2>4. PendingLog = db.logNumber /\ work.edit.log = db.logNumber
          /\ work.edit.added = {work.number}
    BY <2>1, <2>2 DEF PendingLog, WorkGood
  <2>5. PendingFiles = db'.files
    BY <2>1, <2>2 DEF PendingFiles
  <2>6. PendingLog' = db.logNumber /\ PendingFiles' = db'.files
    BY <2>1, <2>2, <2>4 DEF PendingLog, PendingFiles
  <2>7. ASSUME NEW edits \in Read
        PROVE /\ \A n \in FilesOf(edits) : n \in DOMAIN tables' /\ tables'[n] = tables[n]
              /\ Entries(tables', db'.files) \subseteq Entries(tables, FilesOf(edits))
              /\ Installed(edits)' /\ FitsFlush(edits)' /\ FitsWork(edits)'
    <3>1. Fits(edits) /\ FilesOf(edits) \subseteq DOMAIN tables
      BY <2>2, ReadFits
    <3>2. /\ \A n \in DOMAIN tables' : n \in DOMAIN tables /\ tables'[n] = tables[n]
          /\ \A n \in DOMAIN tables : n \in db'.files => n \in DOMAIN tables'
      BY <2>1, Collected
    <3>3. \A n \in FilesOf(edits) : n \in DOMAIN tables' /\ tables'[n] = tables[n]
      <4>1. CASE db.bgError
        BY <2>1, <3>1, <4>1 DEF DeleteObsoleteFiles
      <4>2. CASE ~db.bgError
        <5>1. FilesOf(edits) \subseteq db'.files
          BY <2>1, <2>5, <3>1, <4>2 DEF Fits, Installed
        <5> QED BY <3>1, <3>2, <5>1
      <4> QED BY <4>1, <4>2
    <3>4. Entries(tables', db'.files) \subseteq Entries(tables, FilesOf(edits))
      <4>1. Entries(tables', db'.files) \subseteq Entries(tables, db.files) \cup Entries(tables, {work.number})
        BY <2>1, <2>4, <3>2, EntriesAre
      <4>2. Entries(tables, db.files) \subseteq Entries(tables, FilesOf(edits))
        BY <3>1 DEF Fits, Stored
      <4>3. {work.number} \subseteq FilesOf(edits)
        BY <2>1, <3>1 DEF Fits, FitsWork
      <4>4. Entries(tables, {work.number}) \subseteq Entries(tables, FilesOf(edits))
        BY <4>3, EntriesOfMore
      <4> QED BY <4>1, <4>2, <4>4
    <3>5. Installed(edits)'
      BY <2>1, <2>4, <2>5, <2>6, <3>1 DEF Fits, Installed
    <3>6. FitsFlush(edits)' /\ FitsWork(edits)'
      BY <2>1, <2>2, FlushFitsStill, WorkFitsStill
    <3> QED BY <3>3, <3>4, <3>5, <3>6
  <2>8. db.next <= db'.next /\ db.last <= db'.last /\ db.logfile <= db'.logfile
    BY <2>1 DEF DbTypes
  <2> QED BY <2>1, <2>2, <2>3, <2>7, <2>8, ManifestGoesOn
<1>21. CASE CompactionFails
  <2>1. /\ work # None /\ work' = None
        /\ (manifests' = manifests \/ (work.stage = "apply" /\ AppendEdit(work.edit)))
        /\ db'.bgError = TRUE /\ db'.files = db.files /\ db'.next = db.next
          /\ db'.last = db.last
        /\ db'.logfile = db.logfile /\ db'.manifest = db.manifest
        /\ UNCHANGED <<options, CURRENT, tables, phase, flush>>
    BY <1>21, CompactionFailsDoes
  <2>2. phase \in {"open", "closing"} /\ phase \in Using
    BY <2>1, InBackground DEF Using
  <2>3. CURRENT = db.manifest /\ CURRENT \in DOMAIN manifests
    BY <2>2, CurrentIsUsed
  <2>4. work.stage = "apply" => work.edit \in Edits
    BY <2>1, FullIsEdit DEF WorkTypes
  <2>n. PICK new : new = Append(manifests[db.manifest].edits, work.edit)
    OBVIOUS
  <2>5. ASSUME manifests' # manifests
        PROVE /\ Stored(new)' /\ FitsFlush(new)' /\ FitsWork(new)'
              /\ \A edits \in Read : NextOf(edits) <= NextOf(new)
    <3>1. work.stage = "apply" /\ AppendEdit(work.edit) /\ work.edit \in Edits
      BY <2>1, <2>4, <2>5
    <3>2. manifests'[db.manifest].edits = new
      BY <2>1, <2>3, <2>n, <3>1, EditIsLast
    <3>3. Stored(new)' /\ NextOf(new) = work.edit.next
      BY <2>1, <2>2, <2>n, <3>1, <3>2, WorkEditFits
    <3>4. \A edits \in Read : NextOf(edits) <= work.edit.next
      BY <2>1, <2>2, <3>1, ReadFits DEF Fits, FitsWork
    <3>5. FitsWork(new)'
      BY <2>1 DEF FitsWork
    <3>6. flush = None
      BY <2>1, <3>1 DEF Phases
    <3>7. FitsFlush(new)'
      BY <2>1, <3>6 DEF FitsFlush
    <3> QED BY <3>3, <3>4, <3>5, <3>7
  <2>6. manifests' = manifests \/ (work.edit \in Edits /\ AppendEdit(work.edit))
    BY <2>1, <2>4
  <2> QED BY <2>1, <2>2, <2>5, <2>6, <2>n, ReadAfterFailure
<1>22. CASE OpenFails
  <2>1. phase' \notin Using
    BY <1>22 DEF OpenFails, Forget, Using
  <2> QED BY <2>1 DEF Manifest
<1>23. CASE Close
  <2>1. /\ phase = "open" /\ phase' = "closing"
        /\ UNCHANGED <<options, CURRENT, tables, manifests, db, flush, work>>
    BY <1>23 DEF Close, disk
  <2>2. phase \in Using /\ db'.next = db.next /\ db'.last = db.last /\ db'.logfile = db.logfile
        /\ (phase' = "current" <=> phase = "current")
    BY <2>1 DEF Using
  <2>3. db.next <= db'.next /\ db.last <= db'.last /\ db.logfile <= db'.logfile
    BY <2>2, NumbersGrow
  <2>4. -1 \notin db.files /\ \A edits \in Read : -1 \notin FilesOf(edits)
    <3>1. \A edits \in Read : FilesOf(edits) \in SUBSET Nat
      BY <2>2, ReadFits
    <3> QED BY <3>1 DEF DbTypes
  <2>5. \A edits \in Read : Installed(edits)' /\ FitsFlush(edits)' /\ FitsWork(edits)'
    BY <2>1, <2>2, InstalledStays, FlushFitsStill, WorkFitsStill
  <2> QED BY <2>1, <2>2, <2>3, <2>4, <2>5, ManifestWithTable
<1>24. CASE Closing
  <2>1. phase' \notin Using
    BY <1>24 DEF Closing, Forget, Using
  <2> QED BY <2>1 DEF Manifest
<1>25. ASSUME NEW machine \in BOOLEAN, Stop(machine) PROVE Manifest'
  <2>1. phase' \notin Using
    BY <1>25 DEF Stop, Forget, Using
  <2> QED BY <2>1 DEF Manifest
<1>26. CASE UNCHANGED <<options, tables, manifests, CURRENT, db, phase, flush, work>>
  BY <1>26 DEF Manifest, Fits, Stored, Sound, Installed, FitsFlush, FitsWork,
     PendingLog, PendingFiles, Read, Readings
<1>27. CASE Opening
  BY <1>27, <1>1, <1>2, <1>3, <1>4, <1>5, <1>6, <1>7 DEF Opening
<1>28. ASSUME NEW w \in Writers, Writing(w) PROVE Manifest'
  BY <1>28, <1>8, <1>26 DEF Writing, WriteRefused, WaitForRoom, SwitchFails,
     NothingToWrite, BeginCommit, disk, history, idle, memory
<1>29. CASE Committing
  BY <1>29, <1>9, <1>26 DEF Committing, AppendRecord, SyncLog, AppendFails,
     SyncFails, AddRecord, Sync, disk, history, idle, memory
<1>30. CASE Background
  BY <1>30, <1>10, <1>11, <1>12, <1>13, <1>14, <1>15, <1>16, <1>17, <1>18, <1>19,
     <1>20, <1>21, <1>26 DEF Background, NothingToDo, disk, history, idle, memory
<1> QED BY <1>27, <1>28, <1>29, <1>30, <1>22, <1>23, <1>24, <1>25, <1>26 DEF StoreNext,
   CallWrite, NewIterator, ReleaseIterator, storeVars, disk, memory, history

\* While DB::Open recovers, every write that returned is in a table it has read or made, in
\* its memtable, or in a log it will read.
LEMMA RecoveryKept ==
  ASSUME Recovery, DbTypes, TableTypes, LogTypes, OptionTypes, ManifestTypes,
           OpeningTypes, CommitTypes, CommitGood, FlushTypes, WorkTypes, LogsGood, Phases,
           Versions, Closedness, Bounded, [StoreNext]_storeVars
  PROVE Recovery'
<1>1. CASE NewDB
  BY <1>1 DEF NewDB, memory, Recovery, Recovering
<1>2. CASE RecoverManifest
  <2>1. PICK edits : edits = AllEdits
    OBVIOUS
  <2>2. /\ NextOf(edits) \in Nat /\ LogOf(edits) \in Nat /\ LastOf(edits) \in Nat
        /\ Sound(edits, CURRENT) /\ CURRENT \in DOMAIN manifests
    BY <1>2, <2>1, RecoveredNumbers
  <2>3. /\ phase = "closed" /\ CURRENT # None /\ Complete(edits) /\ phase' = "logs"
        /\ opening' = [todo |-> {n \in DOMAIN logs : n >= LogOf(edits)}, added |-> {},
                       save |-> ~options.reuseLogs]
        /\ UNCHANGED <<options, logs, tables, manifests, CURRENT, mem, acked>>
    BY <1>2, <2>1 DEF RecoverManifest, disk, history
  <2>4. /\ db'.files = FilesOf(edits) /\ db'.next = NextOf(edits) + 1
          /\ db'.last = LastOf(edits)
        /\ db'.logNumber = LogOf(edits) /\ db'.logfile = 0
        /\ db'.manifest = IF options.reuseLogs THEN CURRENT ELSE NextOf(edits)
    BY <1>2, <2>1, DbRecovered
  <2>5. AllEdits' = edits
    BY <2>1, <2>3 DEF AllEdits
  <2>6. mem' = {} /\ opening'.added = {}
          /\ opening'.todo = {n \in DOMAIN logs : n >= LogOf(edits)}
          /\ opening'.save = ~options.reuseLogs
    BY <2>3 DEF Phases
  <2>7. NextOf(edits) < db'.next /\ LastOf(edits) <= db'.last
    BY <2>2, <2>4
  <2>8. \A n \in DOMAIN logs' \ opening'.todo : n < db'.next
    <3>1. LogOf(edits) < NextOf(edits)
      BY <2>2 DEF Sound
    <3> QED BY <2>2, <2>3, <2>4, <2>6, <3>1 DEF LogTypes
  <2>9. \A s \in Entries(tables', db'.files \cup opening'.added) \cup mem' : s <= db'.last
    BY <2>2, <2>3, <2>4, <2>6 DEF Sound
  <2>10. acked' \subseteq Entries(tables', db'.files \cup opening'.added) \cup mem'
                           \cup UNION {Writes(logs'[n].records) : n \in opening'.todo}
    <3>1. Complete(AllEdits) => acked \subseteq Recoverable(AllEdits, AppendedRecords)
      BY <2>3 DEF Closedness, Reopenable
    <3>2. acked \subseteq Entries(tables, FilesOf(edits)) \cup Logged(AppendedRecords, LogOf(edits))
      BY <2>1, <2>3, <3>1 DEF Recoverable
    <3>3. Logged(AppendedRecords, LogOf(edits)) = UNION {Writes(logs[n].records) :
            n \in opening'.todo}
      BY <2>6 DEF Logged, AppendedRecords
    <3> QED BY <2>3, <2>4, <2>6, <3>2, <3>3
  <2> QED BY <2>2, <2>3, <2>4, <2>5, <2>6, <2>7, <2>8, <2>9, <2>10 DEF Recovery
<1>3. CASE RecoverLogFile
  <2>1. PICK number \in opening.todo, made \in SUBSET Nat, reused \in BOOLEAN :
          /\ reused => options.reuseLogs /\ opening.todo = {number} /\ made = {}
          /\ \A n \in made : db.next <= n /\ n < db'.next
          /\ \A n \in DOMAIN tables \ made : tables'[n] = tables[n]
          /\ DOMAIN tables' = DOMAIN tables \cup made
          /\ ~reused => Entries(tables', made) = Writes(logs[number].records)
          /\ opening' = [todo |-> opening.todo \ {number}, added |-> opening.added \cup made,
                         save |-> opening.save \/ made # {}]
          /\ mem' = IF reused THEN Writes(logs[number].records) ELSE mem
          /\ db'.next \in Nat /\ db'.next >= db.next /\ db'.next > number
          /\ db'.last \in Nat /\ db'.last >= db.last
          /\ \A s \in Writes(logs[number].records) : s <= db'.last
          /\ db' = [db EXCEPT !.next = db'.next, !.last = db'.last,
                              !.logfile = IF reused THEN number ELSE @]
    <3>1. PICK number \in opening.todo, made \in SUBSET Nat, reused \in BOOLEAN :
            /\ reused => options.reuseLogs /\ opening.todo = {number} /\ made = {}
            /\ \A n \in made : db.next <= n /\ n < db'.next
            /\ tables' = [n \in DOMAIN tables \cup made |-> tables'[n]]
            /\ \A n \in DOMAIN tables \ made : tables'[n] = tables[n]
            /\ ~reused => Entries(tables', made) = Writes(logs[number].records)
            /\ opening' = [todo |-> opening.todo \ {number}, added |-> opening.added \cup made,
                           save |-> opening.save \/ made # {}]
            /\ mem' = IF reused THEN Writes(logs[number].records) ELSE mem
            /\ db'.next \in Nat /\ db'.next >= db.next /\ db'.next > number
            /\ db'.last \in Nat /\ db'.last >= db.last
            /\ \A s \in Writes(logs[number].records) : s <= db'.last
            /\ db' = [db EXCEPT !.next = db'.next, !.last = db'.last,
                                !.logfile = IF reused THEN number ELSE @]
      BY <1>3, LogRecovered
    <3>2. DOMAIN tables' = DOMAIN tables \cup made
      BY <3>1
    <3> QED BY <3>1, <3>2
  <2>2. /\ phase = "logs" /\ phase' = "logs" /\ opening.todo # {} /\ phase \in Recovering
          /\ phase # "closed"
        /\ UNCHANGED <<options, logs, manifests, CURRENT, acked>>
    BY <1>3 DEF RecoverLogFile, history, Recovering
  <2>3. /\ db'.files = db.files /\ db'.logNumber = db.logNumber /\ db'.manifest = db.manifest
        /\ db'.logfile = IF reused THEN number ELSE db.logfile
    BY <2>1 DEF DbTypes
  <2>4. /\ opening'.todo = opening.todo \ {number} /\ opening'.added = opening.added \cup made
        /\ opening'.save = (opening.save \/ made # {}) /\ opening # None
    BY <2>1, <2>2, InBackground
  <2>5. /\ CURRENT # None /\ Complete(AllEdits) /\ db.files = FilesOf(AllEdits)
        /\ db.logNumber = LogOf(AllEdits)
        /\ NextOf(AllEdits) < db.next /\ LastOf(AllEdits) <= db.last
        /\ db.manifest = IF options.reuseLogs THEN CURRENT ELSE NextOf(AllEdits)
        /\ opening.todo \subseteq DOMAIN logs /\ \A n \in opening.todo : db.logNumber <= n
        /\ \A n \in DOMAIN logs \ opening.todo : n < db.next
        /\ db.logfile = 0 /\ mem = {}
    BY <2>2 DEF Recovery
  <2>6. NextOf(AllEdits) \in Nat /\ LastOf(AllEdits) \in Nat
    BY <2>2, RecoveryReads
  <2>7. AllEdits' = AllEdits
    BY <2>2 DEF AllEdits
  <2>8. NextOf(AllEdits) < db'.next /\ LastOf(AllEdits) <= db'.last
    BY <2>1, <2>5, <2>6 DEF DbTypes
  <2>9. /\ ~options.reuseLogs => opening'.save /\ mem' = {}
        /\ ~opening'.save => opening'.added = {}
    <3>1. /\ ~options.reuseLogs => opening.save
          /\ ~opening.save => opening.added = {}
      BY <2>2 DEF Recovery
    <3> QED BY <2>1, <2>4, <2>5, <3>1
  <2>10. \A n \in DOMAIN logs' \ opening'.todo : n < db'.next
    <3> SUFFICES ASSUME NEW n \in DOMAIN logs \ opening'.todo PROVE n < db'.next
      BY <2>2
    <3>1. n \in Nat
      BY DEF LogTypes
    <3>2. n = number \/ n < db.next
      BY <2>4, <2>5
    <3> QED BY <2>1, <3>1, <3>2 DEF DbTypes
  <2>11. db'.logfile = 0 => mem' = {}
    <3>1. number # 0
      BY <2>1, <2>5 DEF LogTypes
    <3> QED BY <2>1, <2>3, <2>5, <3>1
  <2>12. db'.logfile # 0 =>
           /\ opening'.todo = {} /\ db'.logfile \in DOMAIN logs' /\ db'.logNumber <= db'.logfile
           /\ Untorn(logs'[db'.logfile].records)
           /\ mem' \subseteq Writes(logs'[db'.logfile].records)
    BY <2>1, <2>2, <2>3, <2>4, <2>5 DEF LogsGood
  <2>13. Entries(tables', db.files \cup opening.added) = Entries(tables, db.files \cup opening.added)
    <3>1. \A n \in db.files \cup opening.added : n \in DOMAIN tables /\ n < db.next /\ n \in Nat
      BY <2>2, <2>4, LivingAreOld, LivingIs
    <3>2. \A n \in db.files \cup opening.added : n \notin made
      BY <2>1, <3>1 DEF DbTypes
    <3>3. \A n \in db.files \cup opening.added : n \in DOMAIN tables /\ n \in DOMAIN tables'
            /\ tables'[n] = tables[n]
      BY <2>1, <3>1, <3>2
    <3> QED BY <3>3, EntriesKept
  <2>14. Entries(tables', db'.files \cup opening'.added)
           = Entries(tables, db.files \cup opening.added) \cup Entries(tables', made)
    <3>1. db'.files \cup opening'.added = (db.files \cup opening.added) \cup made
      BY <2>3, <2>4
    <3> QED BY <2>13, <3>1, EntriesOfMore
  <2>15. reused => Entries(tables', made) = {}
    BY <2>1, EntriesOfMore
  <2>16. ASSUME NEW s \in Entries(tables', db'.files \cup opening'.added) \cup mem'
         PROVE s <= db'.last
    <3>1. s \in Entries(tables, db.files \cup opening.added) \/ s \in Writes(logs[number].records)
      BY <2>1, <2>5, <2>14, <2>15
    <3>2. CASE s \in Writes(logs[number].records)
      BY <2>1, <3>2
    <3>3. CASE s \in Entries(tables, db.files \cup opening.added)
      <4>1. s <= db.last
        BY <2>2, <3>3 DEF Recovery
      <4>2. s \in Nat
        BY <3>3, EntriesAre DEF TableTypes
      <4> QED BY <2>1, <4>1, <4>2 DEF DbTypes
    <3> QED BY <3>1, <3>2, <3>3
  <2>17. acked' \subseteq Entries(tables', db'.files \cup opening'.added) \cup mem'
                           \cup UNION {Writes(logs'[n].records) : n \in opening'.todo}
    <3> SUFFICES ASSUME NEW s \in acked
                 PROVE \/ s \in Entries(tables', db'.files \cup opening'.added) \cup mem'
                       \/ \E n \in opening'.todo : s \in Writes(logs[n].records)
      BY <2>2
    <3>1. \/ s \in Entries(tables, db.files \cup opening.added) \cup mem
          \/ \E n \in opening.todo : s \in Writes(logs[n].records)
      BY <2>2 DEF Recovery
    <3>2. Writes(logs[number].records) \subseteq Entries(tables', made) \cup mem'
      BY <2>1
    <3> QED BY <2>4, <2>5, <2>14, <3>1, <3>2
  <2>18. opening'.todo \subseteq DOMAIN logs' /\ \A n \in opening'.todo : db'.logNumber <= n
    BY <2>2, <2>3, <2>4, <2>5
  <2>19. /\ CURRENT' # None /\ Complete(AllEdits)' /\ db'.files = FilesOf(AllEdits')
         /\ db'.logNumber = LogOf(AllEdits')
         /\ db'.manifest = IF options'.reuseLogs THEN CURRENT' ELSE NextOf(AllEdits')
    BY <2>2, <2>3, <2>5, <2>7
  <2>20. NextOf(AllEdits') < db'.next /\ LastOf(AllEdits') <= db'.last
    BY <2>7, <2>8
  <2> HIDE <2>1, <2>7
  <2> QED BY <2>2, <2>9, <2>10, <2>11, <2>12, <2>16, <2>17, <2>18, <2>19, <2>20 DEF Recovery
<1>4. CASE OpenNewLog
  <2>1. /\ phase = "logs" /\ opening.todo = {} /\ phase \in Recovering /\ phase # "closed"
        /\ phase' = (IF opening.save THEN "manifest" ELSE "ready")
        /\ \/ db.logfile # 0 /\ logs' = logs /\ db' = db
           \/ /\ db.logfile = 0 /\ logs' = Put(logs, db.next, NewLog)
              /\ db'.logfile = db.next /\ db'.next = db.next + 1
        /\ db'.files = db.files
        /\ db'.last = db.last /\ db'.logNumber = db.logNumber /\ db'.manifest = db.manifest
        /\ UNCHANGED <<options, tables, manifests, CURRENT, opening, mem, acked>>
    BY <1>4, OpenNewLogDoes DEF Recovering
  <2>2. AllEdits' = AllEdits
    BY <2>1 DEF AllEdits
  <2>3. CASE db.logfile # 0
    <3>1. logs' = logs /\ db' = db
      BY <2>1, <2>3
    <3> QED BY <2>1, <2>2, <2>3, <3>1 DEF Recovery
  <2>4. CASE db.logfile = 0
    <3>1. /\ logs' = Put(logs, db.next, NewLog) /\ db'.logfile = db.next
            /\ db'.next = db.next + 1
          /\ mem = {} /\ mem' = {} /\ db.next > 0 /\ db.next \in Nat
      BY <2>1, <2>4 DEF Recovery, Versions, DbTypes
    <3>2. DOMAIN logs' = DOMAIN logs \cup {db.next} /\ logs'[db.next] = NewLog
      BY <3>1 DEF Put
    <3>3. \A n \in DOMAIN logs : n < db.next /\ n \in Nat
      BY <2>1 DEF Recovery, LogTypes
    <3>4. /\ db.logNumber = LogOf(AllEdits) /\ LogOf(AllEdits) \in Nat
            /\ NextOf(AllEdits) \in Nat
          /\ LogOf(AllEdits) < NextOf(AllEdits) /\ NextOf(AllEdits) < db.next
      BY <2>1, RecoveryReads
    <3>5. db'.logNumber <= db'.logfile
      BY <2>1, <3>1, <3>4
    <3>6. Untorn(logs'[db'.logfile].records)
      BY <3>1, <3>2, EmptyLog DEF Untorn
    <3>7. \A n \in DOMAIN logs' : n < db'.next
      BY <3>1, <3>2, <3>3
    <3>8. db'.logfile # 0 /\ db'.logfile \in DOMAIN logs'
      BY <3>1, <3>2
    <3>9. NextOf(AllEdits') < db'.next
      BY <2>2, <3>1, <3>4
    <3> HIDE <3>1, <3>2, <3>3
    <3>10. mem' = {} /\ mem = {}
      BY <3>1
    <3> QED BY <2>1, <2>2, <3>5, <3>6, <3>7, <3>8, <3>9, <3>10 DEF Recovery
  <2> QED BY <2>3, <2>4
<1>5. CASE OpenManifest
  BY <1>5 DEF OpenManifest, Recovery, Recovering
<1>6. CASE SetCurrentFile
  BY <1>6 DEF SetCurrentFile, Recovery, Recovering
<1>7. CASE Opened
  BY <1>7 DEF Opened, Recovery, Recovering
<1>8. ASSUME NEW w \in Writers, SwitchMemtable(w) PROVE Recovery'
  BY <1>8 DEF SwitchMemtable, NeedsSwitch, HasRoom, CanGoOn, Recovery, Recovering
<1>9. CASE AppendRecord
  BY <1>9, InBackground DEF AppendRecord, Recovery, Recovering
<1>10. CASE SyncLog
  BY <1>10, InBackground DEF SyncLog, Recovery, Recovering
<1>11. CASE FinishCommit
  BY <1>11, InBackground DEF FinishCommit, Recovery, Recovering
<1>12. CASE AppendFails
  BY <1>12, InBackground DEF AppendFails, Recovery, Recovering
<1>13. CASE BeginFlush
  BY <1>13, InBackground, BeginFlushDoes DEF Recovery, Recovering
<1>14. CASE FlushBuilt
  BY <1>14, InBackground, FlushBuiltDoes DEF Recovery, Recovering
<1>15. CASE BuildFails
  BY <1>15, InBackground, BuildFailsDoes DEF Recovery, Recovering
<1>16. CASE FlushApply
  BY <1>16, InBackground, FlushApplyDoes DEF Recovery, Recovering
<1>17. CASE FlushApplyFails
  BY <1>17, InBackground, FlushApplyFailsDoes DEF Recovery, Recovering
<1>18. CASE FlushInstall
  BY <1>18, InBackground, FlushInstallDoes DEF Recovery, Recovering
<1>19. CASE OpenOutput
  BY <1>19, InBackground, OpenOutputDoes DEF Recovery, Recovering
<1>20. CASE OutputBuilt
  BY <1>20, InBackground, OutputBuiltDoes DEF Recovery, Recovering
<1>21. CASE CompactionApply
  BY <1>21, InBackground, CompactionApplyDoes DEF Recovery, Recovering
<1>22. CASE CompactionInstall
  BY <1>22, InBackground, CompactionInstallDoes DEF Recovery, Recovering
<1>23. CASE CompactionFails
  BY <1>23, InBackground, CompactionFailsDoes DEF Recovery, Recovering
<1>24. CASE OpenFails
  BY <1>24 DEF OpenFails, Forget, Recovery, Recovering
<1>25. CASE Close
  BY <1>25 DEF Close, Recovery, Recovering
<1>26. CASE Closing
  BY <1>26 DEF Closing, Forget, Recovery, Recovering
<1>27. ASSUME NEW machine \in BOOLEAN, Stop(machine) PROVE Recovery'
  BY <1>27 DEF Stop, Forget, Recovery, Recovering
<1>28. CASE UNCHANGED <<phase, CURRENT, manifests, db, opening, mem, options, logs, tables,
                        acked>>
  <2>1. AllEdits' = AllEdits
    BY <1>28 DEF AllEdits
  <2> QED BY <1>28, <2>1 DEF Recovery
<1>29. CASE Opening
  BY <1>29, <1>1, <1>2, <1>3, <1>4, <1>5, <1>6, <1>7 DEF Opening
<1>30. ASSUME NEW w \in Writers, Writing(w) PROVE Recovery'
  BY <1>30, <1>8, <1>28 DEF Writing, WriteRefused, WaitForRoom, SwitchFails,
     NothingToWrite, BeginCommit, disk, history, idle, memory
<1>31. CASE Committing
  BY <1>31, <1>9, <1>10, <1>11, <1>12, <1>28 DEF Committing, SyncFails, disk,
     history, idle, memory
<1>32. CASE Background
  BY <1>32, <1>13, <1>14, <1>15, <1>16, <1>17, <1>18, <1>19, <1>20, <1>21, <1>22,
     <1>23, <1>28 DEF Background, NothingToDo, BeginCompaction, disk, history, idle,
     memory
<1> QED BY <1>29, <1>30, <1>31, <1>32, <1>24, <1>25, <1>26, <1>27, <1>28 DEF StoreNext,
   CallWrite, NewIterator, ReleaseIterator, storeVars, disk, memory, history

-----------------------------------------------------------------------------
(* What the files give an open, whatever the database is doing.            *)

LEMMA CoversRecovered ==
  ASSUME NEW S, NEW r, NEW ts, NEW d, NEW im, NEW m, NEW readings, NEW edits \in readings,
         Covers(S, r, ts, d, im, m, readings), d.logfile \in DOMAIN r,
         LogOf(edits) <= d.logfile,
         Entries(ts, d.files) \subseteq Entries(ts, FilesOf(edits))
  PROVE S \subseteq Entries(ts, FilesOf(edits)) \cup Logged(r, LogOf(edits))
<1>1. Writes(r[d.logfile]) \subseteq Logged(r, LogOf(edits))
  BY LoggedAre
<1> QED BY <1>1 DEF Covers

\* While the database is used, the MANIFEST in use names what is needed.
LEMMA UsedIsReopenable ==
  ASSUME ManifestTypes, DbTypes, LogTypes, LogsGood, Manifest, Memory, phase \in {"ready",
         "open", "closing"}
  PROVE Reopenable
<1>1. phase \in Using
  BY DEF Using
<1>2. CURRENT = db.manifest /\ CURRENT \in DOMAIN manifests
  BY CurrentIsUsed
<1>3. Readings(CURRENT) = Read /\ AllEdits = manifests[db.manifest].edits
  BY <1>2 DEF Read, AllEdits
<1>4. \A edits \in Read : Fits(edits) /\ Complete(edits) /\ Sound(edits, CURRENT)
  <2> TAKE edits \in Read
  <2>1. Fits(edits) /\ NextOf(edits) \in Nat
    BY <1>1, ReadFits
  <2> QED BY <1>2, <2>1, StoreAssumption DEF Fits, Stored, Complete
<1>5. Complete(AllEdits) /\ AllEdits \in Read
  BY <1>3, <1>4, ReadIs
<1>6. /\ db.logfile \in DOMAIN logs /\ db.logfile \in DOMAIN AppendedRecords
      /\ db.logfile \in DOMAIN SyncedRecords
  BY <1>1 DEF LogsGood, AppendedRecords, SyncedRecords
<1>7. ASSUME NEW S, NEW r, Covers(S, r, tables, db, ImmWrites, mem, Read),
             db.logfile \in DOMAIN r
      PROVE \A edits \in Read : S \subseteq Recoverable(edits, r)
  <2> TAKE edits \in Read
  <2>1. /\ LogOf(edits) <= db.logfile
        /\ Entries(tables, db.files) \subseteq Entries(tables, FilesOf(edits))
    BY <1>4 DEF Fits, Stored
  <2>2. S \subseteq Entries(tables, FilesOf(edits)) \cup Logged(r, LogOf(edits))
    BY <1>7, <2>1, CoversRecovered
  <2> QED BY <2>2 DEF Recoverable
<1>8. \A edits \in Read : acked \subseteq Recoverable(edits, AppendedRecords)
  BY <1>1, <1>6, <1>7 DEF Memory
<1>9. options.machine => \A edits \in Read : synced \subseteq Recoverable(edits, SyncedRecords)
  BY <1>1, <1>6, <1>7 DEF Memory
<1> QED BY <1>3, <1>4, <1>5, <1>8, <1>9 DEF Reopenable

\* What an open needs, at every moment.
LEMMA AlwaysReopenable ==
  ASSUME ManifestTypes, DbTypes, LogTypes, LogsGood, Manifest, Memory, Closedness
  PROVE IF CURRENT = None THEN acked = {} /\ phase = "closed" ELSE Reopenable
<1>1. CASE phase \in {"ready", "open", "closing"}
  <2>1. CURRENT # None
    BY <1>1, CurrentIsUsed, StoreAssumption
  <2> QED BY <1>1, <2>1, UsedIsReopenable
<1>2. CASE phase \notin {"ready", "open", "closing"}
  BY <1>2 DEF Closedness
<1> QED BY <1>1, <1>2

-----------------------------------------------------------------------------
\* What a reading names stays there.
LEMMA SoundStays ==
  ASSUME NEW edits, NEW n, Sound(edits, n),
         NextOf(edits) <= NextOf(manifests'[n].edits),
         \A f \in FilesOf(edits) : f \in DOMAIN tables' /\ tables'[f] = tables[f]
  PROVE Sound(edits, n)' /\ Entries(tables', FilesOf(edits)) = Entries(tables, FilesOf(edits))
<1>1. \A f \in FilesOf(edits) : f \in DOMAIN tables
  BY DEF Sound
<1>2. Entries(tables', FilesOf(edits)) = Entries(tables, FilesOf(edits))
  BY <1>1, EntriesKept
<1> QED BY <1>2 DEF Sound

\* A step that leaves the MANIFEST, older tables and the logs leaves it.
LEMMA ReopenableStays ==
  ASSUME ManifestTypes, TableTypes, CURRENT \in DOMAIN manifests, Reopenable,
         UNCHANGED <<options, CURRENT, acked, synced>>, manifests'[CURRENT] =
                     manifests[CURRENT],
         Complete(AllEdits) => \A f \in DOMAIN tables : f < NextOf(AllEdits)
           => f \in DOMAIN tables' /\ tables'[f] = tables[f],
         \A from : KeepsLogs(from)
  PROVE Reopenable'
<1>1. Readings(CURRENT)' = Readings(CURRENT) /\ AllEdits' = AllEdits
  BY DEF Readings, AllEdits
<1>2. \A edits \in Readings(CURRENT) :
        \/ edits = AllEdits
        \/ options.machine /\ edits = SubSeq(AllEdits, 1, manifests[CURRENT].synced)
  BY DEF Readings, AllEdits
<1>3. ASSUME NEW edits \in Readings(CURRENT), Complete(edits)
      PROVE /\ Sound(edits, CURRENT)'
              /\ Entries(tables', FilesOf(edits)) = Entries(tables, FilesOf(edits))
            /\ NextOf(edits) <= NextOf(AllEdits) /\ Complete(AllEdits)
  <2>1. Sound(edits, CURRENT) /\ Complete(AllEdits)
    BY <1>3 DEF Reopenable
  <2>2. NextOf(edits) <= NextOf(AllEdits) /\ NextOf(edits) \in Nat
    BY <2>1 DEF Sound, AllEdits
  <2>3. AllEdits \in Readings(CURRENT)
    BY DEF Readings, AllEdits
  <2>4. NextOf(AllEdits) \in Nat
    BY <2>1, <2>3 DEF Reopenable, Sound
  <2>5. ASSUME NEW f \in FilesOf(edits) PROVE f \in DOMAIN tables' /\ tables'[f] = tables[f]
    <3>1. f \in DOMAIN tables /\ f < NextOf(edits)
      BY <2>1 DEF Sound
    <3>2. f \in Nat
      BY <3>1 DEF TableTypes
    <3>3. f < NextOf(AllEdits)
      BY <2>2, <2>4, <3>1, <3>2
    <3> QED BY <2>1, <3>1, <3>3
  <2>6. NextOf(edits) <= NextOf(manifests'[CURRENT].edits)
    BY <2>2 DEF AllEdits
  <2>7. Sound(edits, CURRENT)'
          /\ Entries(tables', FilesOf(edits)) = Entries(tables, FilesOf(edits))
    <3>1. PICK n : n = CURRENT
      OBVIOUS
    <3>2. Sound(edits, n)' /\ Entries(tables', FilesOf(edits)) = Entries(tables, FilesOf(edits))
      BY <2>1, <2>5, <2>6, <3>1, SoundStays
    <3> QED BY <3>1, <3>2
  <2> QED BY <2>1, <2>2, <2>7
<1>4. ASSUME NEW edits
      PROVE /\ Logged(AppendedRecords, LogOf(edits)) \subseteq Logged(AppendedRecords', LogOf(edits))
            /\ Logged(SyncedRecords, LogOf(edits)) \subseteq Logged(SyncedRecords', LogOf(edits))
  BY LoggedGrow DEF KeepsLogs
<1>5. ASSUME NEW edits \in Readings(CURRENT), Complete(edits)
      PROVE /\ Recoverable(edits, AppendedRecords) \subseteq Recoverable(edits, AppendedRecords)'
            /\ Recoverable(edits, SyncedRecords) \subseteq Recoverable(edits, SyncedRecords)'
  BY <1>3, <1>4, <1>5 DEF Recoverable
<1>6. ASSUME NEW edits \in Readings(CURRENT)
      PROVE /\ Complete(edits) => Sound(edits, CURRENT)' /\ Complete(AllEdits)
            /\ acked # {} => Complete(edits)
            /\ Complete(edits) /\ options.machine
              => synced \subseteq Recoverable(edits, SyncedRecords)'
  BY <1>3, <1>5, <1>6 DEF Reopenable
<1>7. Complete(AllEdits) => acked \subseteq Recoverable(AllEdits, AppendedRecords)'
  <2> SUFFICES ASSUME Complete(AllEdits) PROVE acked \subseteq Recoverable(AllEdits, AppendedRecords)'
    OBVIOUS
  <2>1. AllEdits \in Readings(CURRENT)
    BY DEF Readings, AllEdits
  <2>2. PICK edits \in Readings(CURRENT) : edits = AllEdits
    BY <2>1
  <2>3. acked \subseteq Recoverable(edits, AppendedRecords)'
    BY <1>5, <2>2 DEF Reopenable
  <2> QED BY <1>1, <2>2, <2>3
<1>8. Complete(AllEdits)' <=> Complete(AllEdits)
  BY <1>1 DEF Complete
<1>9. \A edits \in Readings(CURRENT)' :
        /\ Complete(edits)' => Sound(edits, CURRENT)' /\ Complete(AllEdits)'
        /\ acked' # {} => Complete(edits)'
        /\ Complete(edits)' /\ options'.machine
          => synced' \subseteq Recoverable(edits, SyncedRecords)'
  BY <1>1, <1>6, <1>8 DEF Complete
<1>10. Complete(AllEdits)' => acked' \subseteq Recoverable(AllEdits, AppendedRecords)'
  BY <1>7, <1>8
<1> QED BY <1>9, <1>10 DEF Reopenable

-----------------------------------------------------------------------------
(* What a stop leaves.                                                     *)
LEMMA LogsAfterStop ==
  ASSUME LogTypes, NEW machine \in BOOLEAN, Stop(machine)
  PROVE \A from : /\ Grown(SyncedRecords, SyncedRecords', from)
                  /\ Grown(SyncedRecords, AppendedRecords', from)
                  /\ ~machine => Grown(AppendedRecords, AppendedRecords', from)
<1>1. DOMAIN logs' = DOMAIN logs
  BY LogsStopped
<1>2. ASSUME NEW n \in DOMAIN logs
      PROVE /\ Writes(SyncedRecords[n]) \subseteq Writes(SyncedRecords'[n])
            /\ Writes(SyncedRecords[n]) \subseteq Writes(AppendedRecords'[n])
            /\ ~machine => Writes(AppendedRecords[n]) \subseteq Writes(AppendedRecords'[n])
  <2> DEFINE r == logs[n].records
             k == logs[n].synced
             q == logs'[n].records
  <2>1. r \in Seq(Records) /\ k \in Nat /\ k <= Len(r) /\ Len(r) \in Nat
    BY RecordsOf
  <2>2. /\ q = r \/ q = Append(r, Torn) \/ (machine /\ q = SubSeq(r, 1, k))
        /\ IF machine THEN logs'[n].synced = Len(q) ELSE logs'[n].synced = k
    BY LogsStopped
  <2>3. /\ SyncedRecords[n] = SubSeq(r, 1, k) /\ AppendedRecords[n] = r
        /\ AppendedRecords'[n] = q
        /\ SyncedRecords'[n] = SubSeq(q, 1, IF machine THEN Len(q) ELSE k)
    BY <1>1, <2>2, SyncedAre, SyncedAreThen DEF AppendedRecords
  <2> HIDE DEF r, k, q
  <2>4. Torn \in Records
    BY DEF Records
  <2>5. Writes(SubSeq(r, 1, k)) \subseteq Writes(r)
          /\ Writes(r) \subseteq Writes(Append(r, Torn))
    BY <2>1, <2>4, WritesOfPrefix, WritesGrow
  <2>6. q \in Seq(Records)
    <3>1. SubSeq(r, 1, k) \in Seq(Records)
      BY <2>1, PrefixType
    <3>2. Append(r, Torn) \in Seq(Records)
      BY <2>1, <2>4
    <3>3. q = r \/ q = Append(r, Torn) \/ q = SubSeq(r, 1, k)
      BY <2>2
    <3> QED BY <2>1, <3>1, <3>2, <3>3
  <2>7. Writes(SubSeq(r, 1, k)) \subseteq Writes(q) /\ (~machine
          => Writes(r) \subseteq Writes(q))
    BY <2>2, <2>5
  <2>8. CASE machine
    <3>1. SubSeq(q, 1, Len(q)) = q
      BY <2>6, WholePrefix
    <3> QED BY <2>3, <2>7, <2>8, <3>1
  <2>9. CASE ~machine
    <3>1. SubSeq(q, 1, k) = SubSeq(r, 1, k)
      BY <2>1, <2>2, <2>4, <2>9, PrefixOfAppended
    <3> QED BY <2>3, <2>7, <2>9, <3>1
  <2> QED BY <2>8, <2>9
<1>3. /\ DOMAIN SyncedRecords = DOMAIN logs /\ DOMAIN AppendedRecords = DOMAIN logs
      /\ DOMAIN SyncedRecords' = DOMAIN logs /\ DOMAIN AppendedRecords' = DOMAIN logs
  BY <1>1 DEF SyncedRecords, AppendedRecords
<1> QED BY <1>2, <1>3 DEF Grown

\* A stop of the machine leaves one of the readings; that of the process, the MANIFEST.
LEMMA ManifestAfterStop ==
  ASSUME ManifestTypes, CURRENT \in DOMAIN manifests, NEW machine \in BOOLEAN, Stop(machine)
  PROVE /\ ~machine => manifests'[CURRENT] = manifests[CURRENT]
        /\ machine => \E edits \in Readings(CURRENT) :
                        AllEdits' = edits /\ \A r \in Readings(CURRENT)' : r = edits
<1> DEFINE m == manifests[CURRENT]
<1>1. PICK lost \in SUBSET (DOMAIN manifests) :
        /\ machine \/ lost = {}
        /\ manifests' = [n \in DOMAIN manifests |->
             LET f == manifests[n]
             IN  [edits |-> IF n \in lost THEN SubSeq(f.edits, 1, f.synced) ELSE f.edits,
                  synced |-> IF ~machine \/ n \in lost THEN f.synced ELSE Len(f.edits)]]
  BY DEF Stop
<1>2. /\ CURRENT' = CURRENT /\ options' = options /\ (machine => options.machine)
  BY DEF Stop
<1>3. /\ manifests'[CURRENT].edits = IF CURRENT \in lost THEN SubSeq(m.edits, 1, m.synced) ELSE m.edits
      /\ manifests'[CURRENT].synced = IF ~machine \/ CURRENT \in lost THEN m.synced ELSE Len(m.edits)
      /\ ~machine => manifests'[CURRENT] = [edits |-> m.edits, synced |-> m.synced]
  BY <1>1
<1>4. /\ m \in ManifestFiles /\ m.edits \in Seq(Edits) /\ m.synced \in Nat
        /\ m.synced <= Len(m.edits)
  BY EditsHave DEF ManifestTypes
<1>5. Readings(CURRENT)' = {manifests'[CURRENT].edits} \cup
        IF options.machine THEN {SubSeq(manifests'[CURRENT].edits, 1, manifests'[CURRENT].synced)} ELSE {}
  BY <1>2 DEF Readings
<1>6. /\ m.edits \in Readings(CURRENT)
      /\ machine => SubSeq(m.edits, 1, m.synced) \in Readings(CURRENT)
  BY <1>2 DEF Readings
<1>7. AllEdits' = manifests'[CURRENT].edits
  BY <1>2 DEF AllEdits
<1>8. ~machine => manifests'[CURRENT] = m
  BY <1>3, <1>4 DEF ManifestFiles
<1>9. ASSUME machine
      PROVE \E edits \in Readings(CURRENT) : AllEdits' = edits
              /\ \A r \in Readings(CURRENT)' : r = edits
  <2>1. PICK e, k : e = m.edits /\ k = m.synced
    OBVIOUS
  <2>2. e \in Seq(Edits) /\ k \in Nat /\ k <= Len(e)
    BY <1>4, <2>1
  <2>3. SubSeq(SubSeq(e, 1, k), 1, k) = SubSeq(e, 1, k) /\ SubSeq(e, 1, Len(e)) = e
    BY <2>2, PrefixOfPrefix, WholePrefix
  <2>4. CASE CURRENT \in lost
    <3>1. manifests'[CURRENT].edits = SubSeq(e, 1, k) /\ manifests'[CURRENT].synced = k
      BY <1>3, <2>1, <2>4
    <3>2. \A r \in Readings(CURRENT)' : r = SubSeq(e, 1, k)
      BY <1>5, <2>3, <3>1
    <3> QED BY <1>6, <1>7, <1>9, <2>1, <3>1, <3>2
  <2>5. CASE CURRENT \notin lost
    <3>1. manifests'[CURRENT].edits = e /\ manifests'[CURRENT].synced = Len(e)
      BY <1>3, <1>9, <2>1, <2>5
    <3>2. \A r \in Readings(CURRENT)' : r = e
      BY <1>5, <2>3, <3>1
    <3> QED BY <1>6, <1>7, <2>1, <3>1, <3>2
  <2> QED BY <2>4, <2>5
<1> QED BY <1>8, <1>9

\* A stop of either leaves what an open needs.
LEMMA ReopenableAfterStop ==
  ASSUME ManifestTypes, TableTypes, LogTypes, WriteTypes, CURRENT \in DOMAIN manifests,
         Reopenable,
         NEW machine \in BOOLEAN, Stop(machine)
  PROVE Reopenable'
<1>1. /\ UNCHANGED <<options, CURRENT, tables, synced>> /\ acked' = IF machine THEN synced ELSE
                     acked
      /\ machine => options.machine
  BY DEF Stop
<1>2. \A from : /\ Grown(SyncedRecords, SyncedRecords', from)
                /\ Grown(SyncedRecords, AppendedRecords', from)
                /\ ~machine => Grown(AppendedRecords, AppendedRecords', from)
  BY LogsAfterStop
<1>3. CASE ~machine
  <2>1. manifests'[CURRENT] = manifests[CURRENT]
    BY <1>3, ManifestAfterStop
  <2>2. \A from : KeepsLogs(from)
    BY <1>2, <1>3 DEF KeepsLogs
  <2> QED BY <1>1, <1>3, <2>1, <2>2, ReopenableStays
<1>4. CASE machine
  <2>1. PICK edits \in Readings(CURRENT) : AllEdits' = edits
          /\ \A r \in Readings(CURRENT)' : r = edits
    BY <1>4, ManifestAfterStop
  <2>2. /\ Complete(edits) => Sound(edits, CURRENT)
        /\ acked # {} => Complete(edits)
        /\ Complete(edits) => synced \subseteq Recoverable(edits, SyncedRecords)
    BY <1>1, <1>4 DEF Reopenable
  <2>3. Complete(edits) => Sound(edits, CURRENT)'
    <3>1. PICK n : n = CURRENT
      OBVIOUS
    <3>2. manifests'[n].edits = edits
      BY <1>1, <2>1, <3>1 DEF AllEdits
    <3>3. ASSUME Complete(edits) PROVE Sound(edits, n)'
      <4>1. Sound(edits, n)
        BY <2>2, <3>1, <3>3
      <4>2. NextOf(edits) <= NextOf(manifests'[n].edits)
        BY <3>2, <4>1 DEF Sound
      <4>3. \A f \in FilesOf(edits) : f \in DOMAIN tables' /\ tables'[f] = tables[f]
        BY <1>1, <4>1 DEF Sound
      <4> QED BY <4>1, <4>2, <4>3, SoundStays
    <3> QED BY <1>1, <3>1, <3>3
  <2>4. /\ Recoverable(edits, SyncedRecords) \subseteq Recoverable(edits, SyncedRecords)'
        /\ Recoverable(edits, SyncedRecords) \subseteq Recoverable(edits, AppendedRecords)'
    <3>1. /\ Logged(SyncedRecords, LogOf(edits)) \subseteq Logged(SyncedRecords', LogOf(edits))
          /\ Logged(SyncedRecords, LogOf(edits)) \subseteq Logged(AppendedRecords', LogOf(edits))
      BY <1>2, LoggedGrow
    <3> QED BY <1>1, <3>1 DEF Recoverable
  <2>5. acked' = synced /\ synced' = synced /\ synced \subseteq acked
    BY <1>1, <1>4 DEF WriteTypes
  <2>6. Complete(AllEdits)' <=> Complete(edits)
    BY <2>1 DEF Complete
  <2>7. \A r \in Readings(CURRENT)' :
          /\ Complete(r)' => Sound(r, CURRENT)' /\ Complete(AllEdits)'
          /\ acked' # {} => Complete(r)'
          /\ Complete(r)' /\ options'.machine
            => synced' \subseteq Recoverable(r, SyncedRecords)'
    BY <2>1, <2>2, <2>3, <2>4, <2>5, <2>6 DEF Complete
  <2>8. Complete(AllEdits)' => acked' \subseteq Recoverable(AllEdits, AppendedRecords)'
    <3>1. Complete(edits) => acked' \subseteq Recoverable(edits, AppendedRecords)'
      BY <2>2, <2>4, <2>5
    <3> QED BY <2>1, <2>6, <3>1
  <2> QED BY <2>7, <2>8 DEF Reopenable
<1> QED BY <1>3, <1>4

\* While the files are not in use, they have what the next open needs, through opens
\* that fail or stop as well.
LEMMA ClosednessKept ==
  ASSUME Closedness, Recovery, Manifest, Memory, DbTypes, TableTypes, LogTypes,
           OptionTypes, ManifestTypes, WriteTypes, OpeningTypes, CommitTypes, CommitGood,
           FlushTypes, WorkTypes, LogsGood, Phases, Versions, Bounded,
           [StoreNext]_storeVars
  PROVE Closedness'
<1>1. CASE NewDB
  <2> DEFINE e == Edit({}, {}, 0, 2, 0)
  <2>1. /\ phase = "closed" /\ CURRENT = None /\ CURRENT' = 1
        /\ manifests' = Put(manifests, 1, [edits |-> <<e>>, synced |-> 0])
        /\ UNCHANGED <<options, tables, logs, acked, synced>>
    BY <1>1 DEF NewDB, history
  <2>2. acked = {} /\ synced = {}
    BY <2>1 DEF Closedness, WriteTypes
  <2>3. /\ e \in Edits /\ e.next = 2 /\ e.log = 0 /\ e.last = 0 /\ e.added = {}
          /\ e.deleted = {}
    BY DEF Edit, Edits, Numbers
  <2> HIDE DEF e
  <2>4. << >> \in Seq(Edits) /\ <<e>> = Append(<< >>, e)
    OBVIOUS
  <2>5. /\ NextOf(<<e>>) = 2 /\ LogOf(<<e>>) = 0 /\ LastOf(<<e>>) = 0 /\ FilesOf(<<e>>) = {}
    <3>1. 2 # None /\ 0 # None
      BY StoreAssumption
    <3>2. /\ NextOf(<<e>>) = e.next /\ LogOf(<<e>>) = e.log /\ LastOf(<<e>>) = e.last
          /\ FilesOf(<<e>>) = (FilesOf(<< >>) \ e.deleted) \cup e.added
      BY <2>3, <2>4, <3>1, NumbersAppended, FilesAppended
    <3> QED BY <2>3, <3>2, NothingGiven
  <2>6. manifests'[1].edits = <<e>> /\ manifests'[1].synced = 0
    BY <2>1 DEF Put
  <2>7. SubSeq(<<e>>, 1, 0) = << >> /\ ~Complete(<< >>)
    BY NothingGiven DEF Complete
  <2>8. \A r \in Readings(CURRENT)' : r = <<e>> \/ r = << >>
    BY <2>1, <2>6, <2>7 DEF Readings
  <2>9. AllEdits' = <<e>> /\ Complete(<<e>>)
    BY <2>1, <2>5, <2>6, StoreAssumption DEF AllEdits, Complete
  <2>10. Sound(<<e>>, CURRENT)'
    <3>1. Entries(tables', {}) = {}
      BY EntriesOfMore
    <3> QED BY <2>1, <2>5, <2>6, <3>1 DEF Sound
  <2>11. \A r \in Readings(CURRENT)' :
           /\ Complete(r)' => Sound(r, CURRENT)' /\ Complete(AllEdits)'
           /\ acked' # {} => Complete(r)'
           /\ Complete(r)' /\ options'.machine
             => synced' \subseteq Recoverable(r, SyncedRecords)'
    BY <2>1, <2>2, <2>7, <2>8, <2>9, <2>10 DEF Complete
  <2>12. Complete(AllEdits)' => acked' \subseteq Recoverable(AllEdits, AppendedRecords)'
    BY <2>1, <2>2
  <2>13. Reopenable'
    BY <2>11, <2>12 DEF Reopenable
  <2>14. CURRENT' # None
    BY <2>1, StoreAssumption
  <2> QED BY <2>13, <2>14 DEF Closedness
<1>2. CASE RecoverManifest
  <2>1. /\ phase = "closed" /\ CURRENT # None
        /\ UNCHANGED <<options, CURRENT, acked, synced, manifests, tables, logs>>
    BY <1>2 DEF RecoverManifest, disk, history
  <2>2. CURRENT \in DOMAIN manifests /\ Reopenable
    BY <2>1 DEF ManifestTypes, Closedness
  <2>3. Reopenable'
    BY <2>1, <2>2, LogsUnchanged, ReopenableStays
  <2> QED BY <2>1, <2>3 DEF Closedness
<1>3. CASE RecoverLogFile
  <2>1. /\ phase = "logs" /\ phase \in Recovering
        /\ UNCHANGED <<options, CURRENT, acked, synced, manifests, logs>>
    BY <1>3 DEF RecoverLogFile, history, Recovering
  <2>2. PICK made \in SUBSET Nat :
          /\ \A n \in made : db.next <= n
          /\ DOMAIN tables' = DOMAIN tables \cup made
          /\ \A n \in DOMAIN tables \ made : tables'[n] = tables[n]
    <3>1. PICK number \in opening.todo, made \in SUBSET Nat :
            /\ \A n \in made : db.next <= n
            /\ tables' = [n \in DOMAIN tables \cup made |-> tables'[n]]
            /\ \A n \in DOMAIN tables \ made : tables'[n] = tables[n]
      BY <1>3, LogRecovered
    <3>2. DOMAIN tables' = DOMAIN tables \cup made
      BY <3>1
    <3> QED BY <3>1, <3>2
  <2>3. CURRENT \in DOMAIN manifests /\ CURRENT # None /\ Reopenable
    BY <2>1, RecoveryReads, StoreAssumption DEF Closedness
  <2>4. NextOf(AllEdits) \in Nat /\ NextOf(AllEdits) < db.next
    BY <2>1, RecoveryReads
  <2>5. ASSUME NEW f \in DOMAIN tables, f < NextOf(AllEdits)
        PROVE f \in DOMAIN tables' /\ tables'[f] = tables[f]
    <3>1. f \in Nat
      BY DEF TableTypes
    <3>2. f \notin made
      BY <2>2, <2>4, <2>5, <3>1 DEF DbTypes
    <3> QED BY <2>2, <3>2
  <2>6. Reopenable'
    BY <2>1, <2>3, <2>5, LogsUnchanged, ReopenableStays
  <2> QED BY <2>1, <2>3, <2>6 DEF Closedness
<1>4. CASE OpenNewLog
  <2>1. /\ phase = "logs" /\ phase \in Recovering /\ opening.todo = {}
        /\ (logs' = logs \/ logs' = Put(logs, db.next, NewLog))
        /\ UNCHANGED <<options, CURRENT, acked, synced, manifests, tables>>
    BY <1>4, OpenNewLogDoes DEF Recovering
  <2>2. CURRENT \in DOMAIN manifests /\ CURRENT # None /\ Reopenable
    BY <2>1, RecoveryReads, StoreAssumption DEF Closedness
  <2>3. \A n \in DOMAIN logs : n < db.next /\ n \in Nat
    BY <2>1 DEF Recovery, LogTypes
  <2>4. \A n \in DOMAIN logs : n \in DOMAIN logs' /\ logs'[n] = logs[n]
    <3>1. \A n \in DOMAIN logs : n # db.next
      BY <2>3 DEF DbTypes
    <3> QED BY <2>1, <3>1 DEF Put
  <2>5. \A from : KeepsLogs(from)
    BY <2>4 DEF KeepsLogs, Grown, AppendedRecords, SyncedRecords
  <2>6. Reopenable'
    BY <2>1, <2>2, <2>5, ReopenableStays
  <2> QED BY <2>1, <2>2, <2>6 DEF Closedness
<1>5. CASE OpenManifest
  <2>n. PICK f :
          f = (LET before == IF options.reuseLogs THEN AllEdits ELSE <<WriteSnapshot(db)>>
                          edit == Edit(opening.added, {}, db.logfile, db.next, db.last)
                      IN  [edits |-> Append(before, edit), synced |-> Len(before) + 1])
    OBVIOUS
  <2>1. /\ phase = "manifest" /\ phase \in Recovering
        /\ manifests' = Put(manifests, db.manifest, f)
        /\ phase' = (IF options.reuseLogs THEN "ready" ELSE "current")
        /\ UNCHANGED <<options, CURRENT, acked, synced, tables, logs>>
    BY <1>5, <2>n, OpenManifestDoes DEF Recovering
  <2>2. CASE options.reuseLogs
    BY <2>1, <2>2 DEF Closedness
  <2>3. CASE ~options.reuseLogs
    <3>1. /\ CURRENT \in DOMAIN manifests /\ CURRENT # None /\ Reopenable
          /\ CURRENT \in Nat /\ NextOf(AllEdits) \in Nat /\ CURRENT < NextOf(AllEdits)
      BY <2>1, RecoveryReads, StoreAssumption DEF Closedness
    <3>2. db.manifest = NextOf(AllEdits)
      BY <2>1, <2>3 DEF Recovery
    <3>3. manifests'[CURRENT] = manifests[CURRENT]
      <4>1. CURRENT # db.manifest
        BY <3>1, <3>2
      <4> QED BY <2>1, <3>1, <4>1 DEF Put
    <3>4. Reopenable'
      BY <2>1, <3>1, <3>3, LogsUnchanged, ReopenableStays
    <3> QED BY <2>1, <3>1, <3>4 DEF Closedness
  <2> QED BY <2>2, <2>3
<1>6. CASE SetCurrentFile
  <2>1. phase' \in {"ready", "open", "closing"}
    BY <1>6 DEF SetCurrentFile
  <2> QED BY <2>1 DEF Closedness
<1>7. CASE Opened
  <2>1. phase' \in {"ready", "open", "closing"}
    BY <1>7 DEF Opened
  <2> QED BY <2>1 DEF Closedness
<1>8. ASSUME NEW w \in Writers, SwitchMemtable(w) PROVE Closedness'
  <2>1. phase' \in {"ready", "open", "closing"}
    BY <1>8 DEF SwitchMemtable, NeedsSwitch, HasRoom, CanGoOn
  <2> QED BY <2>1 DEF Closedness
<1>9. CASE AppendRecord
  <2>1. phase' \in {"ready", "open", "closing"}
    BY <1>9, InBackground DEF AppendRecord
  <2> QED BY <2>1 DEF Closedness
<1>10. CASE SyncLog
  <2>1. phase' \in {"ready", "open", "closing"}
    BY <1>10, InBackground DEF SyncLog
  <2> QED BY <2>1 DEF Closedness
<1>11. CASE FinishCommit
  <2>1. phase' \in {"ready", "open", "closing"}
    BY <1>11, InBackground DEF FinishCommit
  <2> QED BY <2>1 DEF Closedness
<1>12. CASE AppendFails
  <2>1. phase' \in {"ready", "open", "closing"}
    BY <1>12, InBackground DEF AppendFails
  <2> QED BY <2>1 DEF Closedness
<1>13. CASE BeginFlush
  <2>1. phase' \in {"ready", "open", "closing"}
    BY <1>13, InBackground, BeginFlushDoes
  <2> QED BY <2>1 DEF Closedness
<1>14. CASE FlushBuilt
  <2>1. phase' \in {"ready", "open", "closing"}
    BY <1>14, InBackground, FlushBuiltDoes
  <2> QED BY <2>1 DEF Closedness
<1>15. CASE BuildFails
  <2>1. phase' \in {"ready", "open", "closing"}
    BY <1>15, InBackground, BuildFailsDoes
  <2> QED BY <2>1 DEF Closedness
<1>16. CASE FlushApply
  <2>1. phase' \in {"ready", "open", "closing"}
    BY <1>16, InBackground, FlushApplyDoes
  <2> QED BY <2>1 DEF Closedness
<1>17. CASE FlushApplyFails
  <2>1. phase' \in {"ready", "open", "closing"}
    BY <1>17, InBackground, FlushApplyFailsDoes
  <2> QED BY <2>1 DEF Closedness
<1>18. CASE FlushInstall
  <2>1. phase' \in {"ready", "open", "closing"}
    BY <1>18, InBackground, FlushInstallDoes
  <2> QED BY <2>1 DEF Closedness
<1>19. CASE OpenOutput
  <2>1. phase' \in {"ready", "open", "closing"}
    BY <1>19, InBackground, OpenOutputDoes
  <2> QED BY <2>1 DEF Closedness
<1>20. CASE OutputBuilt
  <2>1. phase' \in {"ready", "open", "closing"}
    BY <1>20, InBackground, OutputBuiltDoes
  <2> QED BY <2>1 DEF Closedness
<1>21. CASE CompactionApply
  <2>1. phase' \in {"ready", "open", "closing"}
    BY <1>21, InBackground, CompactionApplyDoes
  <2> QED BY <2>1 DEF Closedness
<1>22. CASE CompactionInstall
  <2>1. phase' \in {"ready", "open", "closing"}
    BY <1>22, InBackground, CompactionInstallDoes
  <2> QED BY <2>1 DEF Closedness
<1>23. CASE CompactionFails
  <2>1. phase' \in {"ready", "open", "closing"}
    BY <1>23, InBackground, CompactionFailsDoes
  <2> QED BY <2>1 DEF Closedness
<1>24. CASE OpenFails
  <2>1. /\ phase \in {"logs", "manifest", "current"} /\ phase # "closed"
        /\ manifests' = (IF phase = "current" THEN Restrict(manifests, DOMAIN manifests \ {db.manifest})
                         ELSE manifests)
        /\ UNCHANGED <<options, CURRENT, acked, synced, tables, logs>>
    BY <1>24 DEF OpenFails
  <2>2. CURRENT # None /\ CURRENT \in DOMAIN manifests /\ Reopenable
    BY <2>1 DEF Closedness, ManifestTypes
  <2>3. phase = "current" => CURRENT # db.manifest
    BY DEF Manifest, Using
  <2>4. manifests'[CURRENT] = manifests[CURRENT]
    BY <2>1, <2>2, <2>3 DEF Restrict
  <2>5. Reopenable'
    BY <2>1, <2>2, <2>4, LogsUnchanged, ReopenableStays
  <2> QED BY <2>1, <2>2, <2>5 DEF Closedness
<1>25. CASE Close
  <2>1. phase' \in {"ready", "open", "closing"}
    BY <1>25 DEF Close
  <2> QED BY <2>1 DEF Closedness
<1>26. CASE Closing
  <2>1. phase = "closing" /\ UNCHANGED <<options, CURRENT, acked, synced, tables, logs,
                                         manifests>>
    BY <1>26 DEF Closing, disk, history
  <2>2. CURRENT \in DOMAIN manifests /\ Reopenable /\ CURRENT # None
    BY <2>1, CurrentIsUsed, UsedIsReopenable, StoreAssumption
  <2>3. Reopenable'
    BY <2>1, <2>2, LogsUnchanged, ReopenableStays
  <2> QED BY <2>1, <2>2, <2>3 DEF Closedness
<1>27. ASSUME NEW machine \in BOOLEAN, Stop(machine) PROVE Closedness'
  <2>1. phase # "closed" /\ CURRENT' = CURRENT
    BY <1>27 DEF Stop
  <2>2. CURRENT # None /\ CURRENT \in DOMAIN manifests /\ Reopenable
    BY <2>1, AlwaysReopenable DEF ManifestTypes
  <2>3. Reopenable'
    BY <1>27, <2>2, ReopenableAfterStop
  <2> QED BY <2>1, <2>2, <2>3 DEF Closedness
<1>28. CASE UNCHANGED <<phase, CURRENT, manifests, options, logs, tables, acked, synced>>
  BY <1>28 DEF Closedness, Reopenable, Readings, AllEdits, Sound, Recoverable,
     SyncedRecords, AppendedRecords
<1>29. CASE Opening
  BY <1>29, <1>1, <1>2, <1>3, <1>4, <1>5, <1>6, <1>7 DEF Opening
<1>30. ASSUME NEW w \in Writers, Writing(w) PROVE Closedness'
  BY <1>30, <1>8, <1>28 DEF Writing, WriteRefused, WaitForRoom, SwitchFails,
     NothingToWrite, BeginCommit, disk, history, idle, memory
<1>31. CASE Committing
  BY <1>31, <1>9, <1>10, <1>11, <1>12, <1>28 DEF Committing, SyncFails, disk,
     history, idle, memory
<1>32. CASE Background
  BY <1>32, <1>13, <1>14, <1>15, <1>16, <1>17, <1>18, <1>19, <1>20, <1>21, <1>22,
     <1>23, <1>28 DEF Background, NothingToDo, BeginCompaction, disk, history, idle,
     memory
<1> QED BY <1>29, <1>30, <1>31, <1>32, <1>24, <1>25, <1>26, <1>27, <1>28 DEF StoreNext,
   CallWrite, NewIterator, ReleaseIterator, storeVars, disk, memory, history

-----------------------------------------------------------------------------
(* The invariant.                                                          *)
LEMMA Initially == StoreInit => IInv
<1> SUFFICES ASSUME StoreInit PROVE IInv
  OBVIOUS
<1> USE DEF StoreInit
<1>1. OptionTypes /\ WriteTypes /\ OpeningTypes /\ CommitTypes /\ FlushTypes /\ WorkTypes
  BY DEF OptionTypes, WriteTypes, OpeningTypes, CommitTypes, FlushTypes, WorkTypes
<1>2. LogTypes /\ TableTypes /\ ManifestTypes
  BY DEF LogTypes, TableTypes, ManifestTypes
<1>3. DbTypes
  BY DEF DbTypes, Closed
<1>4. QueueTypes /\ Queue
  <2>1. op \in [Writers -> Calls \cup {None}]
    OBVIOUS
  <2> QED BY <2>1 DEF QueueTypes, Queue
<1>5. Phases
  BY DEF Phases, Using, Recovering, Closed
<1>6. Versions /\ FlushGood /\ WorkGood /\ Recovery /\ Manifest /\ Memory /\ CommitGood
  BY
  DEF Versions, FlushGood, WorkGood, Recovery, Recovering, Manifest, Memory, Using, CommitGood
<1>7. LogsGood /\ Bounded
  BY DEF LogsGood, Using, Bounded
<1>8. Closedness
  BY DEF Closedness
<1> QED BY <1>1, <1>2, <1>3, <1>4, <1>5, <1>6, <1>7, <1>8 DEF IInv, TypeOK

\* The invariant is kept by every step, whatever stops.
LEMMA Invariant == StoreSpec => []IInv
<1>1. IInv /\ [StoreNext]_storeVars => IInv'
  <2> SUFFICES ASSUME IInv, [StoreNext]_storeVars PROVE IInv'
    OBVIOUS
  <2>1. /\ OptionTypes /\ LogTypes /\ TableTypes /\ ManifestTypes /\ DbTypes /\ WriteTypes
          /\ OpeningTypes
        /\ CommitTypes /\ FlushTypes /\ WorkTypes /\ QueueTypes
        /\ Queue /\ Phases /\ Versions /\ FlushGood /\ WorkGood /\ LogsGood
        /\ Bounded /\ Closedness /\ Recovery /\ Manifest /\ Memory /\ CommitGood
    BY DEF IInv, TypeOK
  <2>2. OptionTypes' /\ LogTypes' /\ TableTypes'
    BY <2>1, OptionTypesKept, LogTypesKept, TableTypesKept
  <2>3. ManifestTypes' /\ DbTypes' /\ WriteTypes'
    BY <2>1, ManifestTypesKept, DbTypesKept, WriteTypesKept
  <2>4. OpeningTypes' /\ CommitTypes' /\ FlushTypes' /\ WorkTypes'
    BY <2>1, OpeningTypesKept, CommitTypesKept, FlushTypesKept, WorkTypesKept
  <2>5. QueueTypes' /\ Queue' /\ Phases'
    BY <2>1, QueueTypesKept, QueueKept, PhasesKept
  <2>6. Versions' /\ FlushGood' /\ WorkGood'
    BY <2>1, <2>3, VersionsKept, FlushGoodKept, WorkGoodKept
  <2>7. LogsGood' /\ Bounded' /\ Closedness' /\ Recovery'
    BY <2>1, LogsGoodKept, BoundedKept, ClosednessKept, RecoveryKept
  <2>8. Manifest' /\ Memory' /\ CommitGood'
    BY <2>1, <2>3, ManifestKept, MemoryKept, CommitGoodKept
  <2> QED BY <2>2, <2>3, <2>4, <2>5, <2>6, <2>7, <2>8 DEF IInv, TypeOK
<1> QED BY <1>1, Initially, PTL DEF StoreSpec

\* The state of DBImpl, VersionSet and the files has its types.
THEOREM TypeCorrect == StoreSpec => []TypeOK
<1>1. IInv => TypeOK
  BY DEF IInv, TypeOK
<1> QED BY <1>1, Invariant, PTL

\* No write that returned OK is lost (options.h, WriteOptions::sync): readers find it
\* while the process lives (DBImpl::Get), and at every moment an open would find it
\* in the tables and logs (DBImpl::Recover), wherever the process stops.
THEOREM AckedWritesLast == StoreSpec => []NoAckedWriteIsLost
<1>1. IInv => NoAckedWriteIsLost
  <2> SUFFICES ASSUME IInv PROVE AckedWritesSurvive /\ ReadersSeeAckedWrites
    BY DEF NoAckedWriteIsLost
  <2>1. IF CURRENT = None THEN acked = {} /\ phase = "closed" ELSE Reopenable
    BY AlwaysReopenable DEF IInv, TypeOK
  <2>2. AckedWritesSurvive
    <3> SUFFICES ASSUME acked # {} PROVE acked \subseteq Recoverable(AllEdits, AppendedRecords)
      BY DEF AckedWritesSurvive
    <3>1. AllEdits \in Readings(CURRENT)
      BY DEF AllEdits, Readings
    <3> QED BY <2>1, <3>1 DEF Reopenable
  <2>3. ReadersSeeAckedWrites
    <3> SUFFICES ASSUME phase = "open"
                 PROVE LET found == mem \cup ImmWrites \cup Entries(tables, db.files)
                       IN  acked \subseteq found /\ \A s \in found : s <= db.last
      BY DEF ReadersSeeAckedWrites
    <3>1. Memory /\ phase \in Using
      BY DEF IInv, TypeOK, Using
    <3> QED BY <3>1 DEF Memory, Covers
  <2> QED BY <2>2, <2>3
<1> QED BY <1>1, Invariant, PTL

\* A write with sync == true is found after the machine stopped, at any point and
\* whatever is gone of the ends of the files that were not synced.
THEOREM SyncedWritesLast == StoreSpec => []SyncedWritesSurvive
<1>1. IInv => SyncedWritesSurvive
  <2> SUFFICES ASSUME IInv, synced # {}, options.machine, NEW edits \in {SyncedEdits, AllEdits}
               PROVE synced \subseteq Recoverable(edits, SyncedRecords)
    BY DEF SyncedWritesSurvive
  <2>1. acked # {}
    BY DEF IInv, TypeOK, WriteTypes
  <2>2. Reopenable
    BY <2>1, AlwaysReopenable DEF IInv, TypeOK
  <2>3. edits \in Readings(CURRENT)
    BY DEF SyncedEdits, AllEdits, Readings
  <2> QED BY <2>1, <2>2, <2>3 DEF Reopenable
<1> QED BY <1>1, Invariant, PTL

\* DeleteObsoleteFiles deletes no file that a reader, an iterator, a background step
\* or the next open needs (VersionSet::Recover, "missing files").
THEOREM NeededFilesExist == StoreSpec => []FilesAreThere
<1>1. IInv => FilesAreThere
  <2> SUFFICES ASSUME IInv PROVE NamedTablesExist /\ FilesInUseExist
    BY DEF FilesAreThere
  <2>1. NamedTablesExist
    <3> SUFFICES ASSUME acked # {},
                        NEW edits \in {AllEdits} \cup (IF options.machine THEN {SyncedEdits} ELSE {})
                 PROVE Complete(edits) /\ FilesOf(edits) \subseteq DOMAIN tables
      BY DEF NamedTablesExist
    <3>1. Reopenable
      BY AlwaysReopenable DEF IInv, TypeOK
    <3>2. edits \in Readings(CURRENT)
      BY DEF SyncedEdits, AllEdits, Readings
    <3> QED BY <3>1, <3>2 DEF Reopenable, Sound
  <2>2. FilesInUseExist
    <3> SUFFICES ASSUME phase \in {"open", "closing"}
                 PROVE /\ db.files \cup (UNION LiveVersions) \subseteq DOMAIN tables
                       /\ db.logfile \in DOMAIN logs
                       /\ work # None => work.number \in DOMAIN tables \cup {None}
      BY DEF FilesInUseExist
    <3>1. db.files \cup (UNION LiveVersions) \subseteq DOMAIN tables
      BY DEF IInv, TypeOK, Versions, Living
    <3>2. db.logfile \in DOMAIN logs
      BY DEF IInv, TypeOK, LogsGood, Using
    <3>3. work # None => work.number \in DOMAIN tables \cup {None}
      BY DEF IInv, TypeOK, WorkGood
    <3> QED BY <3>1, <3>2, <3>3
  <2> QED BY <2>1, <2>2
<1> QED BY <1>1, Invariant, PTL

-----------------------------------------------------------------------------
(* The tables that are needed.                                             *)
TablesStay ==
  \A n \in NeededTables \cap DOMAIN tables \cap DOMAIN tables' : tables'[n] = tables[n]

\* The tables that are needed: those that are read and those the MANIFEST names.
LEMMA NeededAre ==
  \A n : n \in NeededTables <=> n \in Living \/ (CURRENT # None /\ n \in FilesOf(AllEdits))
BY DEF NeededTables, Living

\* No number that is handed out, and none of a table being built, is that of a table
\* that is needed.
LEMMA NeededAreOld ==
  ASSUME ManifestTypes, TableTypes, DbTypes, FlushTypes, WorkTypes, Phases, Closedness,
         Recovery,
         Manifest, Versions, FlushGood, WorkGood,
         phase \in Recovering \cup {"ready", "open", "closing"}
  PROVE /\ \A n \in NeededTables : n \in Nat /\ n < db.next
        /\ flush # None /\ flush.stage = "build" => flush.number \notin NeededTables
        /\ work # None /\ work.stage = "merge" => work.number \notin NeededTables
<1>1. \A n \in Living : n \in Nat /\ n < db.next
  BY LivingAreOld DEF Recovering
<1>2. CASE phase \in Recovering
  <2>1. FilesOf(AllEdits) = db.files /\ flush = None /\ work = None
    BY <1>2, RecoveryReads
  <2>2. \A n \in NeededTables : n \in Living
    BY <2>1, NeededAre DEF Living
  <2> QED BY <1>1, <2>1, <2>2
<1>3. CASE phase \in {"ready", "open", "closing"}
  <2>1. phase \in Using
    BY <1>3 DEF Using
  <2>2. CURRENT = db.manifest
    BY <1>3, CurrentIsUsed
  <2>3. PICK edits \in Read : edits = AllEdits
    BY <2>2, ReadIs DEF AllEdits
  <2>4. Fits(edits) /\ FilesOf(edits) \in SUBSET Nat /\ \A n \in FilesOf(edits) : n < db.next
    BY <2>1, ReadFits
  <2>5. \A n \in NeededTables : n \in Living \/ n \in FilesOf(edits)
    BY <2>3, NeededAre
  <2>6. flush # None /\ flush.stage = "build" => flush.number \notin Living
    BY DEF FlushGood
  <2>7. work # None /\ work.stage = "merge" => work.number \notin Living
    BY <1>1, StoreAssumption DEF WorkGood
  <2>8. /\ flush # None /\ flush.stage = "build" => flush.number \notin FilesOf(edits)
        /\ work # None /\ work.stage = "merge" => work.number \notin FilesOf(edits)
    BY <2>4 DEF Fits, FitsFlush, FitsWork
  <2> QED BY <1>1, <2>4, <2>5, <2>6, <2>7, <2>8
<1> QED BY <1>2, <1>3

\* So no step writes to one.
LEMMA TablesStayNow ==
  ASSUME LogTypes, TableTypes, ManifestTypes, DbTypes, OpeningTypes, FlushTypes, WorkTypes,
         Phases, Versions, FlushGood, WorkGood, Bounded, Closedness, Recovery, Manifest,
         [StoreNext]_storeVars
  PROVE TablesStay
<1>1. CASE RecoverLogFile
  <2>1. phase \in Recovering
    BY <1>1 DEF RecoverLogFile, Recovering
  <2>2. PICK made \in SUBSET Nat :
          /\ \A n \in made : db.next <= n
          /\ \A n \in DOMAIN tables \ made : tables'[n] = tables[n]
    BY <1>1, LogRecovered
  <2>3. \A n \in NeededTables : n \in Nat /\ n < db.next
    BY <2>1, NeededAreOld
  <2>4. \A n \in NeededTables : n \notin made
    BY <2>2, <2>3 DEF DbTypes
  <2> QED BY <2>2, <2>4 DEF TablesStay
<1>2. CASE Opened
  BY <1>2, Collected DEF Opened, TablesStay
<1>3. CASE BeginFlush
  <2>1. phase = "open" /\ (tables' = tables \/ tables' = Put(tables, db.next, {}))
    BY <1>3, BeginFlushDoes
  <2>2. \A n \in NeededTables : n # db.next
    BY <2>1, NeededAreOld DEF DbTypes
  <2> QED BY <2>1, <2>2 DEF Put, TablesStay
<1>4. CASE FlushBuilt
  <2>1. /\ phase = "open" /\ flush # None /\ flush.stage = "build"
        /\ \A n \in DOMAIN tables : n # flush.number => tables'[n] = tables[n]
    BY <1>4, FlushBuiltDoes
  <2>2. flush.number \notin NeededTables
    BY <2>1, NeededAreOld
  <2> QED BY <2>1, <2>2 DEF TablesStay
<1>5. CASE BuildFails
  BY <1>5, BuildFailsDoes DEF Restrict, TablesStay
<1>6. CASE FlushInstall
  BY <1>6, FlushInstallDoes, Collected DEF TablesStay
<1>7. CASE OpenOutput
  <2>1. phase \in {"open", "closing"} /\ tables' = Put(tables, db.next, {})
    BY <1>7, OpenOutputDoes, InBackground
  <2>2. \A n \in NeededTables : n # db.next
    BY <2>1, NeededAreOld DEF DbTypes
  <2> QED BY <2>1, <2>2 DEF Put, TablesStay
<1>8. CASE OutputBuilt
  <2>1. /\ phase = "open" /\ work # None /\ work.stage = "merge"
        /\ \A n \in DOMAIN tables : n # work.number => tables'[n] = tables[n]
    BY <1>8, OutputBuiltDoes
  <2>2. work.number \notin NeededTables
    BY <2>1, NeededAreOld
  <2> QED BY <2>1, <2>2 DEF TablesStay
<1>9. CASE CompactionInstall
  BY <1>9, CompactionInstallDoes, Collected DEF TablesStay
<1>10. CASE UNCHANGED tables
  BY <1>10 DEF TablesStay
<1>11. CASE Opening
  BY <1>11, <1>1, <1>2, <1>10 DEF Opening, NewDB, RecoverManifest, OpenNewLog, OpenManifest,
     SetCurrentFile, disk, history, idle, memory
<1>12. ASSUME NEW w \in Writers, Writing(w) PROVE TablesStay
  BY <1>12, <1>10 DEF Writing, WriteRefused, WaitForRoom, SwitchMemtable, SwitchFails,
     NothingToWrite, BeginCommit, disk, history, idle, memory
<1>13. CASE Committing
  BY <1>13, <1>10 DEF Committing, AppendRecord, SyncLog, FinishCommit, AppendFails, SyncFails,
     disk, history, idle, memory
<1>14. CASE Background
  BY <1>14, <1>3, <1>4, <1>5, <1>6, <1>7, <1>8, <1>9, <1>10 DEF Background, NothingToDo,
     FlushApply, FlushApplyFails, BeginCompaction, CompactionApply, CompactionFails, disk,
     history, idle, memory
<1> QED BY <1>11, <1>12, <1>13, <1>14, <1>10 DEF StoreNext, OpenFails, CallWrite, NewIterator,
   ReleaseIterator, Close, Closing, Stop, storeVars, disk, memory, history

\* A table that a reader or an open needs is never written again: NewFileNumber gives
\* no number twice, across stops, failed opens and edits that were lost.
THEOREM NeededTablesStay == StoreSpec => TablesNeverChange
<1>1. IInv /\ [StoreNext]_storeVars =>
        [\A n \in NeededTables \cap DOMAIN tables \cap DOMAIN tables' :
          tables'[n] = tables[n]]_storeVars
  BY TablesStayNow DEF IInv, TypeOK, TablesStay
<1> QED BY <1>1, Invariant, PTL DEF StoreSpec, TablesNeverChange
==============================================================================
