------------------------- MODULE GameCatalogProofs --------------------------
(***************************************************************************)
(* Proofs about GameCatalog, for any number of phones, games, launches and *)
(* days: the type invariant, that every copy of a game is of an announced   *)
(* game, and that the list in Firebase implements AnnouncedCatalog.         *)
(***************************************************************************)
EXTENDS GameCatalog, TLAPS

(***************************************************************************)
(* Lemmas on the helpers.                                                  *)
(***************************************************************************)

\* A merge keeps the rows of a game rows, and at most one of them one.
LEMMA MergedRows ==
  ASSUME NEW rows \in Seq(Record), NEW record \in MaybeRecord
  PROVE  /\ Merged(rows, record) \in Seq(Record)
         /\ Merged(rows, record) # <<>> => (rows # <<>> \/ record # NoGame)
<1>1. CASE record = NoGame
  BY <1>1 DEF Merged
<1>2. CASE record # NoGame /\ rows # <<>>
  <2>1. record \in Record
    BY <1>2 DEF MaybeRecord
  <2>2. Len(rows) \in DOMAIN rows /\ rows[Len(rows)] \in Record
    BY <1>2
  <2>3. [rows EXCEPT ![Len(rows)].info = record.info] \in Seq(Record)
    <3>1. [rows[Len(rows)] EXCEPT !.info = record.info] \in Record
      BY <2>1, <2>2 DEF Record
    <3>2. [rows EXCEPT ![Len(rows)] = [@ EXCEPT !.info = record.info]]
            \in Seq(Record)
      BY <2>2, <3>1
    <3> QED
      BY <3>2
  <2> QED
    BY <1>2, <2>3 DEF Merged
<1>3. CASE record # NoGame /\ rows = <<>>
  <2>1. record \in Record
    BY <1>3 DEF MaybeRecord
  <2> QED
    BY <1>3, <2>1 DEF Merged
<1> QED
  BY <1>1, <1>2, <1>3

\* What a phone reads under a key is a record or nothing.
LEMMA SeenType ==
  ASSUME TypeOK, NEW d \in Devices, NEW g \in Games
  PROVE  Seen(d, g) \in MaybeRecord
BY DEF TypeOK, Seen

\* A sync asks for at most one more read, and touches nothing else.
LEMMA SyncType ==
  ASSUME TypeOK, NEW d \in Devices, SyncLocalDatabase(d)
  PROVE  /\ reads' \in [Devices -> Nat]
         /\ snapshots' = snapshots
         /\ coreData' = coreData
<1>1. reads \in [Devices -> Nat]
  BY DEF TypeOK
<1>2. reads' = [reads EXCEPT ![d] = @ + 1] \/ reads' = reads
  BY DEF SyncLocalDatabase
<1>3. reads' \in [Devices -> Nat]
  BY <1>1, <1>2
<1> QED
  BY <1>3 DEF SyncLocalDatabase

\* The games a feed updates are games of valid teams, with records.
LEMMA AcceptedType ==
  ASSUME NEW feed \in Feeds
  PROVE  /\ Accepted(feed) \subseteq ValidGames
         /\ Accepted(feed) \subseteq Games
         /\ \A g \in Accepted(feed) : feed[g] \in Record
<1>1. PICK S \in SUBSET Games : feed \in [S -> FeedItem]
  BY DEF Feeds
<1>2. \A g \in Accepted(feed) : g \in S /\ g \in ValidGames
                                 /\ feed[g].ts # Unconfirmed
  BY <1>1 DEF Accepted
<1>3. ASSUME NEW g \in Accepted(feed)
      PROVE  feed[g] \in Record
  <2>1. feed[g] \in FeedItem
    BY <1>1, <1>2
  <2> QED
    BY <1>2, <2>1 DEF FeedItem, Record
<1> QED
  BY <1>1, <1>2, <1>3

(***************************************************************************)
(* Types.                                                                  *)
(***************************************************************************)

LEMMA InitTypeOK == Init => TypeOK
<1> SUFFICES ASSUME Init PROVE TypeOK
  OBVIOUS
<1> USE CatalogAssumption
<1>1. [g \in Games |-> NoGame] \in [Games -> MaybeRecord]
  BY DEF MaybeRecord
<1>2. gamesRef \in [Games -> MaybeRecord]
  BY DEF Init
<1> QED
  BY <1>1, <1>2 DEF Init, TypeOK

\* A step of a phone or of the calendar keeps the types.
LEMMA NextTypeOK == TypeOK /\ [Next]_vars => TypeOK'
<1> SUFFICES ASSUME TypeOK, [Next]_vars PROVE TypeOK'
  OBVIOUS
<1> USE CatalogAssumption
<1>1. ASSUME NEW d \in Devices, Launch(d) PROVE TypeOK'
  <2>1. launches[d] + 1 \in 0 .. MaxLaunches
    BY <1>1 DEF Launch, TypeOK
  <2> QED
    BY <1>1, <2>1 DEF Launch, TypeOK, syncVars, pushVars
<1>2. ASSUME NEW d \in Devices, NEW feed \in Feeds, Refresh(d, feed)
      PROVE  TypeOK'
  <2>1. [g \in Games |-> IF g \in Accepted(feed) THEN feed[g] ELSE NoGame]
          \in [Games -> MaybeRecord]
    BY AcceptedType DEF MaybeRecord
  <2>2. SyncLocalDatabase(d)
    BY <1>2 DEF Refresh
  <2>3. updatedGames' \in [Devices -> [Games -> MaybeRecord]]
    BY <1>2, <2>1 DEF Refresh, TypeOK
  <2>4. unchecked' \in [Devices -> SUBSET Games]
    BY <1>2, AcceptedType DEF Refresh, TypeOK
  <2> QED
    BY <1>2, <2>2, <2>3, <2>4, SyncType DEF Refresh, TypeOK, pushVars
<1>3. ASSUME NEW d \in Devices, RefreshWithoutData(d) PROVE TypeOK'
  <2>1. SyncLocalDatabase(d)
    BY <1>3 DEF RefreshWithoutData
  <2> QED
    BY <1>3, <2>1, SyncType DEF RefreshWithoutData, TypeOK, pushVars
<1>4. ASSUME NEW d \in Devices, NEW g \in Games, CheckGame(d, g) PROVE TypeOK'
  <2>1. /\ asked' \subseteq Games
        /\ undated' \subseteq Games
    BY <1>4 DEF CheckGame, ScheduleReminders, TypeOK, pushVars
  <2>2. scheduled' = scheduled \/ scheduled' = [scheduled EXCEPT ![g] = @ + 1]
    BY <1>4 DEF CheckGame, ScheduleReminders, pushVars
  <2>3. scheduled' \in [Games -> Nat]
    <3>1. scheduled \in [Games -> Nat] /\ scheduled[g] + 1 \in Nat
      BY DEF TypeOK
    <3> QED
      BY <2>2, <3>1
  <2> QED
    BY <1>4, <2>1, <2>3 DEF CheckGame, TypeOK, syncVars
<1>5. ASSUME NEW d \in Devices, NEW g \in Games, Deliver(d, g) PROVE TypeOK'
  BY <1>5 DEF Deliver, TypeOK, deviceVars, syncVars, pushVars
<1>6. ASSUME NEW d \in Devices, Publish(d) PROVE TypeOK'
  <2>1. Published(d) \in [Games -> MaybeRecord \cup {NoWrite}]
    <3>1. /\ updatedGames[d] \in [Games -> MaybeRecord]
          /\ outbox[d] \in [Games -> MaybeRecord \cup {NoWrite}]
      BY DEF TypeOK
    <3> QED
      BY <3>1 DEF Published
  <2>2. SyncLocalDatabase(d)
    BY <1>6 DEF Publish
  <2> QED
    BY <1>6, <2>1, <2>2, SyncType DEF Publish, TypeOK, pushVars
<1>7. ASSUME NEW d \in Devices, AnswerRead(d) PROVE TypeOK'
  <2>1. [g \in Games |-> Seen(d, g)] \in [Games -> MaybeRecord]
    BY SeenType
  <2> QED
    BY <1>7, <2>1 DEF AnswerRead, TypeOK, deviceVars, pushVars
<1>8. ASSUME NEW d \in Devices, ApplySync(d) PROVE TypeOK'
  <2>1. /\ Head(snapshots[d]) \in [Games -> MaybeRecord]
        /\ Tail(snapshots[d]) \in Seq([Games -> MaybeRecord])
    BY <1>8 DEF ApplySync, TypeOK
  <2>2. [g \in Games |-> Merged(coreData[d][g], Head(snapshots[d])[g])]
          \in [Games -> Seq(Record)]
    <3>1. coreData[d] \in [Games -> Seq(Record)]
      BY DEF TypeOK
    <3>2. \A g \in Games :
            Merged(coreData[d][g], Head(snapshots[d])[g]) \in Seq(Record)
      BY <2>1, <3>1, MergedRows
    <3> QED
      BY <3>2
  <2> QED
    BY <1>8, <2>1, <2>2 DEF ApplySync, TypeOK, deviceVars, pushVars
<1>9. ASSUME NEW d \in Devices, FinishLoading(d) PROVE TypeOK'
  <2>1. [g \in Games |-> IF g \in Obsolete(d) THEN NoGame ELSE outbox[d][g]]
          \in [Games -> MaybeRecord \cup {NoWrite}]
    BY DEF TypeOK, MaybeRecord
  <2>2. [g \in Games |-> IF g \in Obsolete(d) THEN <<>> ELSE coreData[d][g]]
          \in [Games -> Seq(Record)]
    BY DEF TypeOK
  <2> QED
    BY <1>9, <2>1, <2>2 DEF FinishLoading, TypeOK, pushVars
<1>10. ASSUME NEW d \in Devices, Quit(d) PROVE TypeOK'
  BY <1>10 DEF Quit, TypeOK, MaybeRecord, pushVars
<1>11. CASE NextDay
  BY <1>11 DEF NextDay, TypeOK, deviceVars, syncVars, pushVars
<1>12. CASE UNCHANGED vars
  BY <1>12 DEF vars, TypeOK
<1> QED
  BY <1>1, <1>2, <1>3, <1>4, <1>5, <1>6, <1>7, <1>8, <1>9, <1>10, <1>11, <1>12
     DEF Next

\* The variables keep their types in every behaviour.
THEOREM TypeCorrect == Spec => []TypeOK
BY InitTypeOK, NextTypeOK, PTL DEF Spec

(***************************************************************************)
(* Every copy of a valid game is of an announced game.                     *)
(***************************************************************************)

\* Where a phone can see a valid game, the game has been announced.
LEMMA SeenAnnounced ==
  ASSUME TypeOK, CopiesAnnounced, NEW d \in Devices, NEW g \in ValidGames,
         Seen(d, g) # NoGame
  PROVE  g \in Announced
<1> USE CatalogAssumption
<1>1. CASE outbox[d][g] = NoWrite
  BY <1>1 DEF Seen, CopiesAnnounced, ListedWasAnnounced
<1>2. CASE outbox[d][g] # NoWrite
  <2>1. outbox[d][g] \in Record
    BY <1>2 DEF Seen, TypeOK, MaybeRecord
  <2> QED
    BY <2>1 DEF CopiesAnnounced, PutsAnnounced
<1> QED
  BY <1>1, <1>2

LEMMA InitCopiesAnnounced == Init => CopiesAnnounced
BY CatalogAssumption, SentinelAssumption
   DEF Init, CopiesAnnounced, ListedWasAnnounced, StoredWasAnnounced,
       PutsAnnounced, RemovalsExpired, CheckedAnnounced, SnapshotsAnnounced

\* What was announced or expired stays so.
LEMMA Monotone ==
  ASSUME TypeOK, [Next]_vars
  PROVE  Announced \subseteq Announced' /\ Expired \subseteq Expired'
<1> USE CatalogAssumption
<1>1. /\ asked \subseteq asked'
      /\ undated \subseteq undated'
      /\ today' = today \/ today' = today + 1
  BY DEF Next, vars, pushVars, Launch, Refresh, RefreshWithoutData, CheckGame,
         ScheduleReminders, Deliver, Publish, AnswerRead, ApplySync,
         FinishLoading, Quit, NextDay
<1>2. today \in Nat
  BY DEF TypeOK
<1> QED
  BY <1>1, <1>2 DEF Announced, Expired

\* A step keeps every copy announced.
LEMMA NextCopiesAnnounced ==
  TypeOK /\ TypeOK' /\ CopiesAnnounced /\ [Next]_vars => CopiesAnnounced'
<1> SUFFICES ASSUME TypeOK, TypeOK', CopiesAnnounced, [Next]_vars
             PROVE  CopiesAnnounced'
  OBVIOUS
<1> USE CatalogAssumption, SentinelAssumption
<1> USE DEF CopiesAnnounced
<1> DEFINE Kept == /\ Announced \subseteq Announced'
                   /\ Expired \subseteq Expired'
<1>0. Kept
  BY Monotone
<1> HIDE DEF Kept
<1>a. ASSUME NEW d \in Devices, Launch(d) PROVE CopiesAnnounced'
  BY <1>a, <1>0
     DEF Kept, Launch, syncVars, ListedWasAnnounced, StoredWasAnnounced,
         PutsAnnounced, RemovalsExpired, CheckedAnnounced, SnapshotsAnnounced
<1>b. ASSUME NEW d \in Devices, NEW feed \in Feeds, Refresh(d, feed)
      PROVE  CopiesAnnounced'
  <2>1. CheckedAnnounced'
    BY <1>b, <1>0, AcceptedType
       DEF Kept, Refresh, CheckedAnnounced, TypeOK
  <2> QED
    BY <1>b, <1>0, <2>1
       DEF Kept, Refresh, SyncLocalDatabase, ListedWasAnnounced,
           StoredWasAnnounced, PutsAnnounced, RemovalsExpired,
           SnapshotsAnnounced
<1>c. ASSUME NEW d \in Devices, RefreshWithoutData(d) PROVE CopiesAnnounced'
  BY <1>c, <1>0
     DEF Kept, RefreshWithoutData, SyncLocalDatabase, ListedWasAnnounced,
         StoredWasAnnounced, PutsAnnounced, RemovalsExpired, CheckedAnnounced,
         SnapshotsAnnounced
<1>d. ASSUME NEW d \in Devices, NEW g \in Games, CheckGame(d, g)
      PROVE  CopiesAnnounced'
  <2>1. g \in ValidGames => g \in Announced'
    BY <1>d, <1>0, SeenAnnounced
       DEF Kept, CheckGame, ScheduleReminders, Announced
  <2>2. CheckedAnnounced'
    BY <1>d, <1>0, <2>1 DEF Kept, CheckGame, CheckedAnnounced, TypeOK
  <2> QED
    BY <1>d, <1>0, <2>2
       DEF Kept, CheckGame, syncVars, ListedWasAnnounced, StoredWasAnnounced,
           PutsAnnounced, RemovalsExpired, SnapshotsAnnounced
<1>e. ASSUME NEW d \in Devices, NEW g \in Games, Deliver(d, g)
      PROVE  CopiesAnnounced'
  <2>1. ListedWasAnnounced'
    <3>1. gamesRef' = [gamesRef EXCEPT ![g] = outbox[d][g]]
          /\ outbox[d][g] \in MaybeRecord
      BY <1>e DEF Deliver, TypeOK
    <3>2. (g \in ValidGames /\ outbox[d][g] # NoGame) => g \in Announced
      BY <3>1 DEF PutsAnnounced, MaybeRecord
    <3> QED
      BY <1>0, <3>1, <3>2 DEF Kept, ListedWasAnnounced, TypeOK
  <2>2. \A e \in Devices, h \in Games :
          outbox'[e][h] = outbox[e][h] \/ outbox'[e][h] = NoWrite
    BY <1>e DEF Deliver, TypeOK
  <2>3. PutsAnnounced' /\ RemovalsExpired'
    BY <1>0, <2>2 DEF Kept, PutsAnnounced, RemovalsExpired
  <2> QED
    BY <1>e, <1>0, <2>1, <2>3
       DEF Kept, Deliver, deviceVars, syncVars, StoredWasAnnounced,
           CheckedAnnounced, SnapshotsAnnounced
<1>f. ASSUME NEW d \in Devices, Publish(d) PROVE CopiesAnnounced'
  <2>1. \A e \in Devices, h \in Games :
          \/ outbox'[e][h] = outbox[e][h]
          \/ e = d /\ updatedGames[d][h] # NoGame
             /\ outbox'[e][h] = updatedGames[d][h]
    BY <1>f DEF Publish, Published, TypeOK
  <2>2. \A h \in ValidGames : updatedGames[d][h] # NoGame => h \in Announced
    BY <1>f DEF Publish, CheckedAnnounced
  <2>3. PutsAnnounced' /\ RemovalsExpired'
    BY <1>0, <2>1, <2>2 DEF Kept, PutsAnnounced, RemovalsExpired
  <2> QED
    BY <1>f, <1>0, <2>3
       DEF Kept, Publish, SyncLocalDatabase, ListedWasAnnounced,
           StoredWasAnnounced, CheckedAnnounced, SnapshotsAnnounced
<1>g. ASSUME NEW d \in Devices, AnswerRead(d) PROVE CopiesAnnounced'
  <2>1. SnapshotsAnnounced'
    <3> SUFFICES ASSUME NEW e \in Devices, NEW g \in ValidGames,
                        NEW i \in DOMAIN snapshots'[e],
                        snapshots'[e][i][g] # NoGame
                 PROVE  g \in Announced'
      BY DEF SnapshotsAnnounced
    <3> DEFINE answer == [h \in Games |-> Seen(d, h)]
    <3>1. /\ snapshots \in [Devices -> Seq([Games -> MaybeRecord])]
          /\ answer \in [Games -> MaybeRecord]
      BY SeenType DEF TypeOK
    <3>2. snapshots' = [snapshots EXCEPT ![d] = Append(@, answer)]
      BY <1>g DEF AnswerRead
    <3>3. CASE e = d /\ i = Len(snapshots[d]) + 1
      <4>1. snapshots'[e][i] = answer
        BY <3>1, <3>2, <3>3
      <4> QED
        BY <1>0, <4>1, SeenAnnounced DEF Kept
    <3>4. CASE ~(e = d /\ i = Len(snapshots[d]) + 1)
      <4>1. i \in DOMAIN snapshots[e] /\ snapshots'[e][i] = snapshots[e][i]
        BY <3>1, <3>2, <3>4
      <4> QED
        BY <1>0, <4>1 DEF Kept, SnapshotsAnnounced
    <3> QED
      BY <3>3, <3>4
  <2> QED
    BY <1>g, <1>0, <2>1
       DEF Kept, AnswerRead, deviceVars, ListedWasAnnounced,
           StoredWasAnnounced, PutsAnnounced, RemovalsExpired, CheckedAnnounced
<1>h. ASSUME NEW d \in Devices, ApplySync(d) PROVE CopiesAnnounced'
  <2>1. /\ snapshots[d] \in Seq([Games -> MaybeRecord])
        /\ snapshots[d] # <<>>
        /\ coreData[d] \in [Games -> Seq(Record)]
    BY <1>h DEF ApplySync, TypeOK
  <2>2. StoredWasAnnounced'
    <3> SUFFICES ASSUME NEW e \in Devices, NEW g \in ValidGames,
                        coreData'[e][g] # <<>>
                 PROVE  g \in Announced'
      BY DEF StoredWasAnnounced
    <3>1. CASE e # d
      BY <1>h, <1>0, <3>1 DEF Kept, ApplySync, StoredWasAnnounced, TypeOK
    <3>2. CASE e = d
      <4>1. coreData'[d][g] = Merged(coreData[d][g], Head(snapshots[d])[g])
        BY <1>h DEF ApplySync, TypeOK
      <4>2. Head(snapshots[d])[g] \in MaybeRecord /\ 1 \in DOMAIN snapshots[d]
            /\ Head(snapshots[d]) = snapshots[d][1]
        BY <2>1
      <4>3. coreData[d][g] # <<>> \/ Head(snapshots[d])[g] # NoGame
        BY <2>1, <3>2, <4>1, <4>2, MergedRows
      <4> QED
        BY <1>0, <4>2, <4>3 DEF Kept, StoredWasAnnounced, SnapshotsAnnounced
    <3> QED
      BY <3>1, <3>2
  <2>3. SnapshotsAnnounced'
    <3> SUFFICES ASSUME NEW e \in Devices, NEW g \in ValidGames,
                        NEW i \in DOMAIN snapshots'[e],
                        snapshots'[e][i][g] # NoGame
                 PROVE  g \in Announced'
      BY DEF SnapshotsAnnounced
    <3>1. snapshots' = [snapshots EXCEPT ![d] = Tail(@)]
      BY <1>h DEF ApplySync
    <3>2. CASE e # d
      <4>1. snapshots'[e] = snapshots[e]
        BY <3>1, <3>2 DEF TypeOK
      <4> QED
        BY <1>0, <4>1 DEF Kept, SnapshotsAnnounced
    <3>3. CASE e = d
      <4>1. snapshots'[e] = Tail(snapshots[e])
        BY <3>1, <3>3 DEF TypeOK
      <4>2. i + 1 \in DOMAIN snapshots[e]
            /\ snapshots'[e][i] = snapshots[e][i + 1]
        BY <2>1, <3>3, <4>1
      <4> QED
        BY <1>0, <4>2 DEF Kept, SnapshotsAnnounced
    <3> QED
      BY <3>2, <3>3
  <2> QED
    BY <1>h, <1>0, <2>2, <2>3
       DEF Kept, ApplySync, deviceVars, ListedWasAnnounced, PutsAnnounced,
           RemovalsExpired, CheckedAnnounced
<1>i. ASSUME NEW d \in Devices, FinishLoading(d) PROVE CopiesAnnounced'
  <2>1. \A e \in Devices, h \in Games :
          \/ outbox'[e][h] = outbox[e][h]
          \/ h \in Obsolete(d) /\ outbox'[e][h] = NoGame
    BY <1>i DEF FinishLoading, TypeOK
  <2>2. \A h \in ValidGames : h \in Obsolete(d) => h \in Expired
    BY DEF Obsolete, TooOld, Expired
  <2>3. PutsAnnounced' /\ RemovalsExpired'
    BY <1>0, <2>1, <2>2 DEF Kept, PutsAnnounced, RemovalsExpired, Record
  <2>4. \A e \in Devices, h \in Games :
          coreData'[e][h] = coreData[e][h] \/ coreData'[e][h] = <<>>
    BY <1>i DEF FinishLoading, TypeOK
  <2>5. StoredWasAnnounced'
    BY <1>0, <2>4 DEF Kept, StoredWasAnnounced
  <2> QED
    BY <1>i, <1>0, <2>3, <2>5
       DEF Kept, FinishLoading, ListedWasAnnounced, CheckedAnnounced,
           SnapshotsAnnounced
<1>j. ASSUME NEW d \in Devices, Quit(d) PROVE CopiesAnnounced'
  <2>1. \A e \in Devices, h \in Games :
          outbox'[e][h] = outbox[e][h] \/ outbox'[e][h] = NoWrite
    BY <1>j DEF Quit, TypeOK
  <2>2. PutsAnnounced' /\ RemovalsExpired'
    BY <1>0, <2>1 DEF Kept, PutsAnnounced, RemovalsExpired
  <2>3. CheckedAnnounced'
    BY <1>j, <1>0 DEF Kept, Quit, CheckedAnnounced, TypeOK
  <2>4. \A e \in Devices : snapshots'[e] = snapshots[e] \/ snapshots'[e] = <<>>
    BY <1>j DEF Quit, TypeOK
  <2>5. SnapshotsAnnounced'
    BY <1>0, <2>4 DEF Kept, SnapshotsAnnounced
  <2> QED
    BY <1>j, <1>0, <2>2, <2>3, <2>5
       DEF Kept, Quit, ListedWasAnnounced, StoredWasAnnounced
<1>k. CASE NextDay
  BY <1>k, <1>0
     DEF Kept, NextDay, deviceVars, syncVars, ListedWasAnnounced,
         StoredWasAnnounced, PutsAnnounced, RemovalsExpired, CheckedAnnounced,
         SnapshotsAnnounced
<1>l. CASE UNCHANGED vars
  BY <1>l, <1>0
     DEF Kept, vars, ListedWasAnnounced, StoredWasAnnounced, PutsAnnounced,
         RemovalsExpired, CheckedAnnounced, SnapshotsAnnounced
<1> QED
  BY <1>a, <1>b, <1>c, <1>d, <1>e, <1>f, <1>g, <1>h, <1>i, <1>j, <1>k, <1>l
     DEF Next

\* Every copy of a valid game, in Firebase, under way or on a phone, is of an
\* announced game, for any number of phones, games and launches.
THEOREM CopiesAreAnnounced == Spec => []CopiesAnnounced
BY InitTypeOK, NextTypeOK, InitCopiesAnnounced, NextCopiesAnnounced, PTL
   DEF Spec

\* In particular no game is in Firebase, and none is on a phone, that nobody
\* has dealt with.
THEOREM ListedAndStoredAnnounced ==
  Spec => [](ListedWasAnnounced /\ StoredWasAnnounced)
<1>1. CopiesAnnounced => ListedWasAnnounced /\ StoredWasAnnounced
  BY DEF CopiesAnnounced
<1> QED
  BY <1>1, CopiesAreAnnounced, PTL

(***************************************************************************)
(* A game has at most one row on a phone.                                  *)
(***************************************************************************)

LEMMA NextOneRowPerGame ==
  TypeOK /\ OneRowPerGame /\ [Next]_vars => OneRowPerGame'
<1> SUFFICES ASSUME TypeOK, OneRowPerGame, [Next]_vars PROVE OneRowPerGame'
  OBVIOUS
<1>1. ASSUME NEW d \in Devices, ApplySync(d) PROVE OneRowPerGame'
  <2> SUFFICES ASSUME NEW e \in Devices, NEW g \in Games
               PROVE  Len(coreData'[e][g]) <= 1
    BY DEF OneRowPerGame
  <2>1. CASE e # d
    BY <1>1, <2>1 DEF ApplySync, OneRowPerGame, TypeOK
  <2>2. CASE e = d
    <3> DEFINE rows == coreData[d][g]
               record == Head(snapshots[d])[g]
    <3>1. /\ rows \in Seq(Record) /\ Len(rows) <= 1
          /\ coreData'[e][g] = Merged(rows, record)
      BY <1>1, <2>2 DEF ApplySync, OneRowPerGame, TypeOK
    <3> HIDE DEF rows, record
    <3>2. CASE rows = <<>>
      BY <3>1, <3>2 DEF Merged
    <3>3. CASE rows # <<>>
      BY <3>1, <3>3 DEF Merged
    <3> QED
      BY <3>2, <3>3
  <2> QED
    BY <2>1, <2>2
<1>2. ASSUME NEW d \in Devices, FinishLoading(d) PROVE OneRowPerGame'
  <2>1. \A e \in Devices, h \in Games :
          coreData'[e][h] = coreData[e][h] \/ coreData'[e][h] = <<>>
    BY <1>2 DEF FinishLoading, TypeOK
  <2> QED
    BY <2>1 DEF OneRowPerGame
<1>3. CASE UNCHANGED coreData
  BY <1>3 DEF OneRowPerGame
<1>4. CASE ~UNCHANGED coreData
  BY <1>1, <1>2, <1>4
     DEF Next, vars, syncVars, Launch, Refresh, RefreshWithoutData, CheckGame,
         SyncLocalDatabase, Deliver, Publish, AnswerRead, Quit, NextDay
<1> QED
  BY <1>3, <1>4

\* The syncs and prunes of a phone, in any order, never store a game twice.
THEOREM OneRow == Spec => []OneRowPerGame
<1>1. Init => OneRowPerGame
  BY DEF Init, OneRowPerGame
<1> QED
  BY <1>1, InitTypeOK, NextTypeOK, NextOneRowPerGame, PTL DEF Spec

(***************************************************************************)
(* The list in Firebase implements AnnouncedCatalog.                       *)
(***************************************************************************)

LEMMA InitRefines == Init => Abstract!Init
BY CatalogAssumption
   DEF Init, Abstract!Init, Announced, Listed, Expired

\* Every step announces a game, lists one, takes one off, lets time pass, or
\* changes nothing of the promise.
LEMMA NextRefines ==
  TypeOK /\ CopiesAnnounced /\ [Next]_vars => [Abstract!Next]_(Abstract!vars)
<1> SUFFICES ASSUME TypeOK, CopiesAnnounced, [Next]_vars
             PROVE  [Abstract!Next]_(Abstract!vars)
  OBVIOUS
<1> USE CatalogAssumption, SentinelAssumption
<1>1. ASSUME NEW d \in Devices, NEW g \in Games, CheckGame(d, g)
      PROVE  [Abstract!Next]_(Abstract!vars)
  <2>1. /\ Announced' = Announced \/ Announced' = Announced \cup {g}
        /\ Listed' = Listed
        /\ Expired' = Expired
    BY <1>1 DEF CheckGame, ScheduleReminders, pushVars, Announced, Listed,
                Expired
  <2>2. CASE Announced' \cap ValidGames = Announced \cap ValidGames
    BY <2>1, <2>2 DEF Abstract!vars
  <2>3. CASE Announced' \cap ValidGames # Announced \cap ValidGames
    <3>1. /\ g \in ValidGames
          /\ Announced' \cap ValidGames = (Announced \cap ValidGames) \cup {g}
      BY <2>1, <2>3
    <3> QED
      BY <2>1, <3>1 DEF Abstract!Next, Abstract!Announce
  <2> QED
    BY <2>2, <2>3
<1>2. ASSUME NEW d \in Devices, NEW g \in Games, Deliver(d, g)
      PROVE  [Abstract!Next]_(Abstract!vars)
  <2>1. /\ gamesRef' = [gamesRef EXCEPT ![g] = outbox[d][g]]
        /\ outbox[d][g] \in MaybeRecord
        /\ Announced' = Announced
        /\ Expired' = Expired
    BY <1>2 DEF Deliver, TypeOK, pushVars, Announced, Expired
  <2>2. gamesRef \in [Games -> MaybeRecord]
    BY DEF TypeOK
  <2>3. CASE g \notin ValidGames
    BY <2>1, <2>2, <2>3 DEF Listed, Abstract!vars
  <2>4. CASE g \in ValidGames /\ outbox[d][g] = NoGame
    <3>1. g \in Expired
      BY <2>4 DEF CopiesAnnounced, RemovalsExpired
    <3>2. Listed' = Listed \ {g}
      BY <2>1, <2>2, <2>4 DEF Listed
    <3> QED
      BY <2>1, <2>4, <3>1, <3>2 DEF Abstract!Next, Abstract!Unlist
  <2>5. CASE g \in ValidGames /\ outbox[d][g] # NoGame
    <3>1. g \in Announced
      BY <2>1, <2>5 DEF CopiesAnnounced, PutsAnnounced, MaybeRecord
    <3>2. Listed' = Listed \cup {g}
      BY <2>1, <2>2, <2>5 DEF Listed
    <3> QED
      BY <2>1, <2>5, <3>1, <3>2 DEF Abstract!Next, Abstract!List
  <2> QED
    BY <2>3, <2>4, <2>5
<1>3. CASE NextDay
  <2>1. Expired \subseteq Expired' /\ Expired' \subseteq ValidGames
    BY Monotone DEF Expired
  <2>2. Announced' = Announced /\ Listed' = Listed
    BY <1>3 DEF NextDay, pushVars, Announced, Listed
  <2> QED
    BY <2>1, <2>2 DEF Abstract!Next, Abstract!Expire
<1>4. CASE UNCHANGED <<asked, undated, gamesRef, today>>
  BY <1>4 DEF Announced, Listed, Expired, Abstract!vars
<1>5. CASE ~UNCHANGED <<asked, undated, gamesRef, today>>
  BY <1>1, <1>2, <1>3, <1>5
     DEF Next, vars, pushVars, Launch, Refresh, RefreshWithoutData, Publish,
         AnswerRead, ApplySync, FinishLoading, Quit
<1> QED
  BY <1>4, <1>5

\* All phones together list a game only after it was announced and remove it
\* only after it has expired.
THEOREM CatalogImplementsPromise == Spec => ImplementsAnnouncedCatalog
<1>1. Spec => Abstract!Init /\ [][Abstract!Next]_(Abstract!vars)
  BY InitRefines, NextRefines, TypeCorrect, CopiesAreAnnounced, PTL DEF Spec
<1> QED
  BY <1>1 DEF ImplementsAnnouncedCatalog, Abstract!Spec
=============================================================================
