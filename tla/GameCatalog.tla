---------------------------- MODULE GameCatalog -----------------------------
(***************************************************************************)
(* How the list of games is kept: every phone that runs the app downloads  *)
(* the feed, asks Firebase game by game what is new, has OneSignal schedule *)
(* the team reminders of each new game, publishes the feed to Firebase,     *)
(* copies Firebase into its own database and removes what is too old.       *)
(*                                                                         *)
(* Sources: ApiCaller.ApiCall and syncLocalDatabase, SoccerGame.insert,     *)
(* LoadingVC.finishLoading, ReminderService.scheduleAllPushNotification-    *)
(* Reminders.  A step of a phone is one block of its main queue; Firebase   *)
(* and the other phones run in between.                                     *)
(***************************************************************************)
EXTENDS Naturals, Sequences

CONSTANTS
  Devices,      \* phones running the app
  Games,        \* game keys (title + date)
  ValidGames,   \* those whose team isTeamValid accepts
  Day,          \* Day[g]: the day in the key of g
  Kickoffs,     \* kickoff times of a day
  NoTimestamp,  \* what an unparsable time becomes
  Unconfirmed,  \* a "TBA" or "TBD" time, or a channel still to be confirmed
  Infos,        \* versions of the venue and the stations
  NoVenue,      \* the version that has no venue
  NoGame,       \* no record under a key
  NoWrite,      \* no write under way to a key
  KeepDays,     \* days a game is kept after its kickoff (two)
  MaxLaunches,  \* bound: launches of each phone
  LastDay       \* bound: the last day

ASSUME CatalogAssumption ==
  /\ ValidGames \subseteq Games
  /\ Day \in [Games -> Nat]
  /\ KeepDays \in Nat /\ MaxLaunches \in Nat /\ LastDay \in Nat
  /\ NoTimestamp \notin Kickoffs /\ Unconfirmed \notin Kickoffs
  /\ Unconfirmed # NoTimestamp
  /\ NoVenue \in Infos

(***************************************************************************)
(* A record of a game: its timestamp, and the rest of its fields.          *)
(***************************************************************************)
Record == [ts : Kickoffs \cup {NoTimestamp}, info : Infos]
MaybeRecord == Record \cup {NoGame}

ASSUME SentinelAssumption ==
  /\ NoGame \notin Record /\ NoWrite \notin Record /\ NoGame # NoWrite

VARIABLES
  phase,        \* how far the refresh of a launch has come
  isLoadingData,
  launches,     \* launches so far
  updatedGames, \* updatedGamesFromAPIArray, by key
  unchecked,    \* games the dispatch group still waits for
  outbox,       \* Firebase writes issued and not yet at the server, by key
  reads,        \* reads of all games under way, not yet answered
  snapshots,    \* answers that wait for their block on the main queue
  coreData,     \* the rows of the local database, by key
  gamesRef,     \* the games in Firebase, by key
  asked,        \* games whose team reminders some phone asked OneSignal for
  undated,      \* games found new while their kickoff could not be parsed
  scheduled,    \* how often OneSignal took the reminders of a game
  today         \* days gone by

deviceVars == <<phase, isLoadingData, launches, updatedGames, unchecked>>
syncVars   == <<reads, snapshots, coreData>>
pushVars   == <<asked, undated, scheduled>>
vars == <<phase, isLoadingData, launches, updatedGames, unchecked, outbox,
          reads, snapshots, coreData, gamesRef, asked, undated, scheduled, today>>

(***************************************************************************)
(* A game of a team that an older version of the app knew is in Firebase   *)
(* from the start: that is what the test of the team in finishLoading is    *)
(* for.                                                                     *)
(***************************************************************************)
LegacyRecords ==
  {r \in Record : r.ts \in Kickoffs /\ r.info # NoVenue}

Init ==
  /\ phase = [d \in Devices |-> "off"]
  /\ isLoadingData = [d \in Devices |-> TRUE]
  /\ launches = [d \in Devices |-> 0]
  /\ updatedGames = [d \in Devices |-> [g \in Games |-> NoGame]]
  /\ unchecked = [d \in Devices |-> {}]
  /\ outbox = [d \in Devices |-> [g \in Games |-> NoWrite]]
  /\ reads = [d \in Devices |-> 0]
  /\ snapshots = [d \in Devices |-> <<>>]
  /\ coreData = [d \in Devices |-> [g \in Games |-> <<>>]]
  /\ gamesRef \in [Games -> MaybeRecord]
  /\ \A g \in Games : IF g \in ValidGames
                        THEN gamesRef[g] = NoGame
                        ELSE gamesRef[g] \in LegacyRecords
  /\ asked = {}
  /\ undated = {}
  /\ scheduled = [g \in Games |-> 0]
  /\ today = 0

(***************************************************************************)
(* Helpers.                                                                *)
(***************************************************************************)

\* What device d reads under key g: its own writes count at once.
Seen(d, g) == IF outbox[d][g] = NoWrite THEN gamesRef[g] ELSE outbox[d][g]

\* A feed gives some of the games a time and the other fields.
FeedItem == [ts : Kickoffs \cup {NoTimestamp, Unconfirmed}, info : Infos]
Feeds == UNION {[S -> FeedItem] : S \in SUBSET Games}

\* MUTANT of Accepted: games to be confirmed are not skipped.
AcceptedUnconfirmed(feed) == {g \in DOMAIN feed : g \in ValidGames}

\* The games of a feed that no "continue" skips.
Accepted(feed) ==
  {g \in DOMAIN feed : g \in ValidGames /\ feed[g].ts # Unconfirmed}

\* syncLocalDatabase: read all games, when the phone is online.
SyncLocalDatabase(d) ==
  /\ \/ reads' = [reads EXCEPT ![d] = @ + 1]
     \/ UNCHANGED reads
  /\ UNCHANGED <<snapshots, coreData>>

(***************************************************************************)
(* A launch, and the refresh of the games it starts.                       *)
(***************************************************************************)

Launch(d) ==
  /\ phase[d] = "off"
  /\ launches[d] < MaxLaunches
  /\ launches' = [launches EXCEPT ![d] = @ + 1]
  /\ phase' = [phase EXCEPT ![d] = "waiting"]
  /\ isLoadingData' = [isLoadingData EXCEPT ![d] = TRUE]
  /\ UNCHANGED <<updatedGames, unchecked, outbox, syncVars, gamesRef,
                 pushVars, today>>

\* The feed has arrived: sync a first time, and look each game of it up.
Refresh(d, feed) ==
  /\ phase[d] = "waiting"
  /\ phase' = [phase EXCEPT ![d] = "checking"]
  /\ SyncLocalDatabase(d)
  /\ updatedGames' = [updatedGames EXCEPT ![d] =
       [g \in Games |-> IF g \in Accepted(feed) THEN feed[g] ELSE NoGame]]
  /\ unchecked' = [unchecked EXCEPT ![d] = Accepted(feed)]
  /\ UNCHANGED <<isLoadingData, launches, outbox, gamesRef, pushVars, today>>

\* The answer has no "Data": only sync.
RefreshWithoutData(d) ==
  /\ phase[d] = "waiting"
  /\ phase' = [phase EXCEPT ![d] = "done"]
  /\ SyncLocalDatabase(d)
  /\ UNCHANGED <<isLoadingData, launches, updatedGames, unchecked, outbox,
                 gamesRef, pushVars, today>>

\* scheduleAllPushNotificationReminders: the requests are sent off and their
\* failure is only printed.
ScheduleReminders(g) ==
  /\ asked' = asked \cup {g}
  /\ \/ scheduled' = [scheduled EXCEPT ![g] = @ + 1]
     \/ UNCHANGED scheduled
  /\ UNCHANGED undated

\* Firebase answers whether game g exists; a new game's reminders are sent
\* off, unless its kickoff could not be parsed.
CheckGame(d, g) ==
  /\ g \in unchecked[d]
  /\ unchecked' = [unchecked EXCEPT ![d] = @ \ {g}]
  /\ \/ /\ Seen(d, g) # NoGame
        /\ UNCHANGED pushVars
     \/ /\ Seen(d, g) = NoGame
        /\ updatedGames[d][g].ts # NoTimestamp
        /\ ScheduleReminders(g)
     \/ /\ Seen(d, g) = NoGame
        /\ updatedGames[d][g].ts = NoTimestamp
        /\ undated' = undated \cup {g}
        /\ UNCHANGED <<asked, scheduled>>
  /\ UNCHANGED <<phase, isLoadingData, launches, updatedGames, outbox,
                 syncVars, gamesRef, today>>

\* The writes a publication issues: one update per game of the feed.
Published(d) ==
  [g \in Games |-> IF updatedGames[d][g] = NoGame
                     THEN outbox[d][g] ELSE updatedGames[d][g]]

\* MUTANT of Publish: the feed is published before every game is checked.
PublishUnchecked(d) ==
  /\ phase[d] = "checking"
  /\ phase' = [phase EXCEPT ![d] = "done"]
  /\ outbox' = [outbox EXCEPT ![d] = Published(d)]
  /\ SyncLocalDatabase(d)
  /\ UNCHANGED <<isLoadingData, launches, updatedGames, unchecked, gamesRef,
                 pushVars, today>>

\* Every game has been checked: publish the feed, and sync again.
Publish(d) ==
  /\ phase[d] = "checking"
  /\ unchecked[d] = {}
  /\ phase' = [phase EXCEPT ![d] = "done"]
  /\ outbox' = [outbox EXCEPT ![d] = Published(d)]
  /\ SyncLocalDatabase(d)
  /\ UNCHANGED <<isLoadingData, launches, updatedGames, unchecked, gamesRef,
                 pushVars, today>>

(***************************************************************************)
(* Firebase: a write reaches the server, a read is answered.               *)
(***************************************************************************)

Deliver(d, g) ==
  /\ outbox[d][g] # NoWrite
  /\ gamesRef' = [gamesRef EXCEPT ![g] = outbox[d][g]]
  /\ outbox' = [outbox EXCEPT ![d][g] = NoWrite]
  /\ UNCHANGED <<deviceVars, syncVars, pushVars, today>>

AnswerRead(d) ==
  /\ reads[d] > 0
  /\ reads' = [reads EXCEPT ![d] = @ - 1]
  /\ snapshots' = [snapshots EXCEPT ![d] =
                     Append(@, [g \in Games |-> Seen(d, g)])]
  /\ UNCHANGED <<deviceVars, outbox, coreData, gamesRef, pushVars, today>>

(***************************************************************************)
(* The local database.                                                     *)
(***************************************************************************)

\* MUTANT of Merged: the game is inserted without being looked up.
MergedBlindly(rows, record) ==
  IF record = NoGame \/ record.info = NoVenue THEN rows
  ELSE Append(rows, record)

\* The rows of a game after a sync: an existing game gets the new venue and
\* stations and keeps its timestamp, a new one is inserted if it is complete.
Merged(rows, record) ==
  IF record = NoGame THEN rows
  ELSE IF rows # <<>> THEN [rows EXCEPT ![Len(rows)].info = record.info]
  ELSE IF record.info = NoVenue THEN rows
  ELSE Append(rows, record)

\* The block of a sync on the main queue.
ApplySync(d) ==
  /\ snapshots[d] # <<>>
  /\ snapshots' = [snapshots EXCEPT ![d] = Tail(@)]
  /\ coreData' = [coreData EXCEPT ![d] =
       [g \in Games |-> Merged(coreData[d][g], Head(snapshots[d])[g])]]
  /\ UNCHANGED <<deviceVars, outbox, reads, gamesRef, pushVars, today>>

\* MUTANT of TooOld: an off-by-one in the age.
TooOldEarly(g, row) == row.ts # NoTimestamp /\ Day[g] + KeepDays <= today

TooOld(g, row) == row.ts # NoTimestamp /\ Day[g] + KeepDays < today

\* Games that finishLoading removes from Firebase and from the phone.
Obsolete(d) ==
  {g \in Games : \E i \in DOMAIN coreData[d][g] :
                    g \notin ValidGames \/ TooOld(g, coreData[d][g][i])}

\* finishLoading, once per launch: the refresh may be at any point, as the
\* timeout calls it too.
FinishLoading(d) ==
  /\ phase[d] # "off"
  /\ isLoadingData[d]
  /\ isLoadingData' = [isLoadingData EXCEPT ![d] = FALSE]
  /\ outbox' = [outbox EXCEPT ![d] =
       [g \in Games |-> IF g \in Obsolete(d) THEN NoGame ELSE outbox[d][g]]]
  /\ coreData' = [coreData EXCEPT ![d] =
       [g \in Games |-> IF g \in Obsolete(d) THEN <<>> ELSE coreData[d][g]]]
  /\ UNCHANGED <<phase, launches, updatedGames, unchecked, reads, snapshots,
                 gamesRef, pushVars, today>>

\* iOS ends the app: all but the local database is lost, with the writes
\* Firebase has not sent.
Quit(d) ==
  /\ phase[d] # "off"
  /\ phase' = [phase EXCEPT ![d] = "off"]
  /\ updatedGames' = [updatedGames EXCEPT ![d] = [g \in Games |-> NoGame]]
  /\ unchecked' = [unchecked EXCEPT ![d] = {}]
  /\ outbox' = [outbox EXCEPT ![d] = [g \in Games |-> NoWrite]]
  /\ reads' = [reads EXCEPT ![d] = 0]
  /\ snapshots' = [snapshots EXCEPT ![d] = <<>>]
  /\ UNCHANGED <<isLoadingData, launches, coreData, gamesRef, pushVars, today>>

NextDay ==
  /\ today < LastDay
  /\ today' = today + 1
  /\ UNCHANGED <<deviceVars, outbox, syncVars, gamesRef, pushVars>>

Next ==
  \/ \E d \in Devices :
       \/ Launch(d)
       \/ \E feed \in Feeds : Refresh(d, feed)
       \/ RefreshWithoutData(d)
       \/ \E g \in Games : CheckGame(d, g) \/ Deliver(d, g)
       \/ Publish(d)
       \/ AnswerRead(d)
       \/ ApplySync(d)
       \/ FinishLoading(d)
       \/ Quit(d)
  \/ NextDay

Spec == Init /\ [][Next]_vars

(***************************************************************************)
(* Properties.                                                             *)
(***************************************************************************)

\* Every variable has its type.
TypeOK ==
  /\ phase \in [Devices -> {"off", "waiting", "checking", "done"}]
  /\ isLoadingData \in [Devices -> BOOLEAN]
  /\ launches \in [Devices -> 0 .. MaxLaunches]
  /\ updatedGames \in [Devices -> [Games -> MaybeRecord]]
  /\ unchecked \in [Devices -> SUBSET Games]
  /\ outbox \in [Devices -> [Games -> MaybeRecord \cup {NoWrite}]]
  /\ reads \in [Devices -> Nat]
  /\ snapshots \in [Devices -> Seq([Games -> MaybeRecord])]
  /\ coreData \in [Devices -> [Games -> Seq(Record)]]
  /\ gamesRef \in [Games -> MaybeRecord]
  /\ asked \subseteq Games
  /\ undated \subseteq Games
  /\ scheduled \in [Games -> Nat]
  /\ today \in 0 .. LastDay

\* Somebody asked for the reminders of the game, or found it had no kickoff.
Announced == asked \cup undated

\* A valid game is in Firebase only after somebody has dealt with its
\* reminders: for a game in Firebase no phone will ever again ask for them
\* (ApiCaller.ApiCall), so publishing one too early would silence it for all.
ListedWasAnnounced ==
  \A g \in ValidGames : gamesRef[g] # NoGame => g \in Announced

\* The same of every game a phone shows, however old its copy is.
StoredWasAnnounced ==
  \A d \in Devices, g \in ValidGames : coreData[d][g] # <<>> => g \in Announced

\* The two syncs of a launch, applied in any order with the prune between
\* them, leave a game at most one row (syncLocalDatabase).
OneRowPerGame ==
  \A d \in Devices, g \in Games : Len(coreData[d][g]) <= 1

\* The list in Firebase implements the promise of AnnouncedCatalog: all
\* phones together list only what was announced and remove only what is old.
Listed == {g \in ValidGames : gamesRef[g] # NoGame}
Expired == {g \in ValidGames : Day[g] + KeepDays < today}
Abstract == INSTANCE AnnouncedCatalog
              WITH Games <- ValidGames, announced <- Announced \cap ValidGames,
                   listed <- Listed, expired <- Expired
ImplementsAnnouncedCatalog == Abstract!Spec

(***************************************************************************)
(* The inductive invariant: whatever holds a copy of a valid game (a write  *)
(* on its way, a checked item of the feed, an answer, a row) got it after   *)
(* somebody dealt with its reminders, and removals concern expired games.   *)
(***************************************************************************)

PutsAnnounced ==
  \A d \in Devices, g \in ValidGames :
    outbox[d][g] \in Record => g \in Announced

RemovalsExpired ==
  \A d \in Devices, g \in ValidGames : outbox[d][g] = NoGame => g \in Expired

CheckedAnnounced ==
  \A d \in Devices, g \in ValidGames :
    (updatedGames[d][g] # NoGame /\ g \notin unchecked[d]) => g \in Announced

SnapshotsAnnounced ==
  \A d \in Devices, g \in ValidGames : \A i \in DOMAIN snapshots[d] :
    snapshots[d][i][g] # NoGame => g \in Announced

\* Every copy of a valid game, in Firebase, under way or on a phone, is of an
\* announced game, and no removal under way is of a game that is not old.
CopiesAnnounced ==
  /\ ListedWasAnnounced
  /\ StoredWasAnnounced
  /\ PutsAnnounced
  /\ RemovalsExpired
  /\ CheckedAnnounced
  /\ SnapshotsAnnounced

(***************************************************************************)
(* What the comments of the code say and the code does not do.             *)
(***************************************************************************)

\* "scheduled from the app to OneSignal upon creating the game ... as many
\* notifications scheduled as there are reminder options"
\* (OneSignalExtension.swift): a game is never scheduled twice.
ScheduledOnce == \A g \in Games : scheduled[g] <= 1
=============================================================================
