# USA Soccer: specifications of the app and of the libraries it stores data with

USA Soccer is an iOS app. It lists the games of the US national teams, keeps the
list in a Firebase database that all phones share, and reminds its users of games
through OneSignal pushes and local notifications. There is no server of its own:
each phone that is launched does the work for all of them.

The repository holds two kinds of code:

* the app, `src/USSoccer/` (2800 lines of Swift), without tests: the comments, the
  force unwraps and the messages to the user are the only statements of what it
  should do;
* the libraries it is built with, under `src/Pods` and `src/------Pods`. Most are
  binaries and headers. Two come as C and C++ source and are modelled too:
  **LevelDB** 1.18 (the store FirebaseDatabase writes to when persistence is
  enabled) and **nanopb** (the Protocol Buffers of Firebase's core and analytics).
  They are what of the app is compiled from C here, they have real concurrency,
  recovery and formats, and their headers and comments promise something.

Paths of the app are relative to `src/USSoccer/`, those of LevelDB to
`src/------Pods/leveldb-library/`, those of nanopb to `src/------Pods/nanopb/`.

## 1. Inventory

### The app

| Component | State | Operations | Interacts through | Hard behaviour | What makes it correct |
|---|---|---|---|---|---|
| Shared game list (`Model/ApiCaller.swift`, `Controller/LoadingVC.swift`, `Model/SoccerGame.swift`) | Firebase `games`; per phone: games of the feed, checks under way, writes under way, rows of Core Data | refresh (feed, checks, publication), sync, prune | Firebase reads and writes, OneSignal POSTs | several phones; check, then write; late answers; the app ended between two steps; unacknowledged requests | a game is announced before it is listed, once; one row per game; copies are current; only old games go |
| Launch gate and navigation (`ApiCaller`, `LoadingVC`, `Utilities/NavigationService.swift`, `UIViewControllerExtension`, `AppDelegate`) | `isLoadingData`, timer, main queue, what is presented, pending taps | ApiCall and its retries, timeout, alerts, `finishLoading`, segue, taps, sign-in | completion closure, main queue, `asyncAfter` | timer against answers, retries, blocks put on the queue for later, a refused segue | one way in, taken once; nobody waits for ever; no tap is lost |
| Reminders (`Model/ReminderService.swift`, `Controller/NotificationMenuView.swift`, `HomeVC`, `Utilities/OneSignalExtension.swift`) | `NotificationMenuView_selectedTeams`, interval toggles, Core Data rows, Firebase `following` and `notificationSettings`, tags, scheduled notifications | load of the menu, team clicked, bell clicked, switch set, `updateSubsription` | callbacks of Firebase, of the notification center, of the main queue | five copies of one truth, written by callbacks in any order; values captured before a hop | the copies agree when all is quiet; a bell that is on rings; no reminder comes twice |
| Home list (`SoccerGame.order`, `LoadingVC.finishLoading`, `HomeVC.setupTeamPicker`) | `sortedGames`, `pickerTeamsArray`, `filterValue`, team rows, stored placeholders | sort, prune, group, placeholders, turn of the picker | Core Data rows, segue | time that goes by, placeholders stored as games, the doubled timestamp | next game on top, every game reachable, placeholders alone |
| Feed parsing (`ApiCaller.ApiCall`, `timezoneFromTimeString`, `Uitility`) | none | station texts, skip rules, time zones | | zones, "TBA" and "TBD" | an unconfirmed game is skipped; the kickoff is right |
| Local database (`Model/CoreDataModel.swift`, `Team`, `Person`) | rows | fetch, save, delete | all of the above | rows read again after a hop | |
| Notification service and its extension | OneSignal observers | hand over a tap | `NavigationService` | | |
| Screens (`GameDetailVC`, `InfoVC`, cells, menu and banner animations) | views | layout | | force unwraps of a stored game | |

### The libraries

| Component | State | Operations | Interacts through | Hard behaviour | What makes it correct |
|---|---|---|---|---|---|
| LevelDB versions and compaction (`db/version_set.cc`, `db/db_impl.cc`) | memtable, immutable memtable, files of each level, snapshots, the compaction under way | write, Get, snapshot, flush, compaction by size, seeks or range, install | the mutex, let go while a compaction merges | flushes and reads meanwhile; deletions dropped; levels chosen by one version, installed in another | a map with snapshots; the first answer of a Get is the newest |
| LevelDB write path and recovery (`db/db_impl.cc`, `db/version_set.cc`, `db/builder.cc`) | queue of writers, log, memtables, MANIFEST, CURRENT, files | Write, group commit, switch, flush, compaction, deletion of files, Open, close | mutex, condition variables, the background thread, files | stops of process or machine at any point, failures of any call | acknowledged writes survive; files in use exist; every write returns |
| Memtable and arena (`db/skiplist.h`, `db/memtable.cc`, `util/arena.cc`) | links of a skip list; blocks | insert, search, step; allocate | loads and stores without a lock | readers between two stores of the writer | searches are safe and miss nothing; pieces of memory are apart |
| Table cache (`util/cache.cc`, `db/table_cache.cc`) | shards: LRU list, hash table, references | find, insert, release, erase, prune | threads of reads and compactions | eviction and growth under users | a table is open while used, closed once |
| POSIX environment (`util/env_posix.cc`) | queue of work, limits, lock table | schedule, open and close files, lock | threads, processes | check outside the mutex; signal before the push | each item run once, in order; limits kept; one holder |
| Repair (`db/repair.cc`) | the directory | RepairDB | files | stops and failures between any two calls | nothing readable is destroyed |
| Formats (`db/log_*.cc`, `db/filename.cc`, `util/coding.cc`, `util/logging.cc`, `db/write_batch.cc`, `db/version_edit.cc`) | bytes | encode, decode | the files | torn and damaged ends, block boundaries, overflow | reads back; a cut or damage is noticed |
| Tables and iterators (`table/*.cc`, `db/db_iter.cc`, `util/bloom.cc`, `util/comparator.cc`) | blocks, index, filter; positions | build, seek, step both ways, Get | each other | prefixes, turns of direction, unreadable blocks | an iterator shows the map at its snapshot |
| nanopb (`pb_encode.c`, `pb_decode.c`, `pb_common.c`) | streams | encode, decode, delimited, extensions | streams | small buffers, cut, damaged, merged and unknown fields | what was encoded is decoded, damage is contained |
| C binding, dump tool, histogram (`db/c.cc`, `db/dumpfile.cc`, ...) | | | | | forwards or prints |
| other Pods | | | | | binaries and headers |

`PROJECT.json` lists the same components with their status, and under "hazards"
each place where the code is hard to test, with the properties about it.

## 2. The modules

### GameCatalog (with AnnouncedCatalog and GameCatalogProofs)

Several phones and Firebase. A step of a phone is one block of its main queue.

| Code | Module |
|---|---|
| `isLoadingData`, `updatedGamesFromAPIArray`, the dispatch group's games still waited for | `isLoadingData`, `updatedGames`, `unchecked` |
| feed arrives, `LastAPIUpdate` answered, loop over the items, first sync | `Refresh` |
| a game's `observeSingleEvent`, `scheduleAllPushNotificationReminders` | `CheckGame` |
| `dispatchGroup.notify`: write all games, second sync | `Publish` |
| a Firebase write in memory, then at the server | `outbox`, `Deliver` |
| `gamesRef.observeSingleEvent`, answered, then its block on the main queue | `reads`, `snapshots`, `AnswerRead`, `ApplySync` |
| `finishLoading`: old games and games of unknown teams removed | `FinishLoading` |
| app ended, launched, a day | `Quit`, `Launch`, `NextDay` |

A phone reads its own unsent writes (`Seen`), as the Firebase client does. The
rest of a game is abstracted to what the steps tell apart: its kickoff (or that
it could not be parsed, or is not confirmed) and a version of its venue and
stations, one of which lacks the venue. The days a game's key names are fixed:
a game moved to another day is another game, as in `gameKey`. `today` is the
same on all phones. `FinishLoading` may come at any time of a launch because the
timeout calls it too; `Launch` (the module) says when it really does.

`AnnouncedCatalog` is the abstract promise of the whole list: a game is listed
only if it is announced and unlisted only if it has expired. `GameCatalog`
implements it under the mapping of `Abstract` (announced: its reminders were
asked for, or it was found without a kickoff).

### Launch (with LaunchProofs)

One launch up to the home screen. The main thread is explicit: `mainQueue` holds
its blocks, `asleep` is `finishLoading`'s `sleep(1)`, and a block is one action
(`NoResult`, `Alert`, `NoData`, `Data`, `LastUpdate`, `Checked`, `Synced`,
`FinishLoading`, `Segue`, `HandleTap`). The network answers, late or never
(`Answer`), each of its requests; the user closes alerts (`TapOK`, a retry) and
taps notifications. `Complete` is the closure `viewDidAppear` gives to `ApiCall`.
`presented` is what LoadingVC presents, which is what makes UIKit refuse the
segue. The tests of the connection are free choices at each place. `crashed` is
the failed `currentUser!`.

### Reminders (with RemindersProofs)

One phone. `Load` starts the three reads of a launch (menu, rows, settings), each
answered team by team and, for the menu and the settings, applied in a later
block: the hop is in the model because a click may come in between.
`UpdateSubscription` copies the selection; `FetchRequests` is the notification
center's answer; `RunUpdate` is the callback, with every order in which the
dictionary may enumerate the teams. A local notification is identified by a
name and an interval, the name being the game's title or the team's, as in
`key(team:timeInterval:)`; `Mentions` says whose name is part of which title
(the substring test). `untold` and `overtaken` are history: the intervals
changed by a handler that does not tell OneSignal, and the teams clicked while an
older answer waited.

### HomeList (with Filtering, FilteringProofs and HomeListProofs)

The rows of one phone over several launches, the clock, the lists, the picker and
the placeholders `setupTeamPicker` stores. `SortGames` is what `finishLoading` does
with the lists, `Launch`'s `FinishLoading` is its place on the main queue. `Sync`
stores a game at any time, also
after the sort, as the second sync does. `Filter` (module `Filtering`) is Swift's
`filter` by a set of elements: `SelectSeq`, whose definition in the library is
recursive in a form nothing can be proved about, as a recursive function.

### Levels (with InternalKeys, KeyValueMap and LevelsProofs)

The data of an open database. A file is the set of its entries, an entry its
internal key (user key, sequence number, type); sizes are numbers of entries.

| Code | Module |
|---|---|
| `Write` into the memtable, the switch to a new one in `MakeRoomForWrite` | `WriteEntry`, `SwitchMemTable` |
| `GetSnapshot`, `ReleaseSnapshot` | the actions of these names |
| `CompactMemTable`, `PickLevelForMemTableOutput` | `CompactMemTable` |
| `PickCompaction`, `SetupOtherInputs`, `AddInputDeletions`, trivial moves | `BeginCompaction` |
| `CompactRange`, `TEST_CompactRange` and the part of `BackgroundCompaction` for it | `CompactRange`, `PostManualCompaction`, `BeginManualCompaction` |
| the loop of `DoCompactionWork`, with `ShouldStopBefore`, `IsBaseLevelForKey` and its `level_ptrs_`, and the smallest snapshot | `CompactEntry` (`AdvancedLevelPtrs`), applied to one entry of the merged inputs after the other (`CompactionOutputs`) |
| `InstallCompactionResults`, `Builder::SaveTo` | `FinishCompaction`, `Apply`; each added file goes before the first file after it (`Merged`, `UpperBound`) |
| `Get`, its seek charges, `RecordReadSample` and `UpdateStats` | `Get` (an operator), `ChargeGet`, `RecordReadSample` |

A compaction is two steps: the inputs are chosen under the mutex, the results are
installed later, and flushes, writes and reads come between. `KeyValueMap` is
what `db.h` promises: a map and snapshots of it. `Levels` implements it under
`KV`, whose contents are what `Get` answers now and at each snapshot (`Contents`).

### Store (with StoreProofs)

How writes last. A write is its sequence number. An action is what one thread
does between two points where it lets the mutex go, or one unlocked write to a
file: `CallWrite`, `WaitForRoom`, `SwitchMemtable`, `BeginCommit` (the group is
chosen), `AppendRecord`, `SyncLog`, `FinishCommit`; for the background thread
`BeginFlush`, `FlushBuilt`, `FlushApply`, `FlushInstall`, `BeginCompaction`,
`OpenOutput`, `OutputBuilt`, `CompactionApply`, `CompactionInstall`; for
`DB::Open` `NewDB`, `RecoverManifest`, `RecoverLogFile` (log by log),
`OpenNewLog`, `OpenManifest`, `SetCurrentFile`, `Opened`. Each has its failure.
`Stop(machine)` ends the process at any point; with the machine, the unsynced
ends of any files are lost too. Obsolete files are deleted inside the actions
where the code deletes them. `OptionSets` are the options a database may be opened
with and what may go wrong; `OptionsAssumption` says what must not, for the reasons
given under "In LevelDB 1.18" below.

### MemTable, Arena, TableCache, PosixEnv, Repair (with LevelDBPartsProofs)

`MemTable`: one step is one load or store of a shared pointer; `maxHeight` has no
barrier, so a reader takes any height the list ever had. `Arena`: addresses are a
block and an offset. `TableCache`: a call of the cache is one step (it holds the
mutex of its shard); opening a table between two calls is another, so that two
threads may open one table. A bucket is the set of its handles, as nobody sees the
order of a chain, and a new handle takes the lowest free address. `PosixEnv` has
three small specifications: the queue of the background thread, the limits on
mapped and open files (tested without the mutex first), and the lock of a
directory with the kernel's rule that a process loses its lock when it closes
*any* descriptor of the file. `Repair`: the steps of `RepairDB`, each of which may
fail, over a directory of logs, tables and manifests; it may stop and be run
again.

### LogFormat, FileNames, Coding, Iterators, SSTable, Nanopb

(`LevelDBPartsProofs` has the proof of `FileNames`.) What is written and how it is
read again. Each is a writer, something that befalls what was written (nothing, a
cut, a changed cell, an unreadable block), and the reader's functions, which are
pure operators, recursive ones but for `FileNames`, which has recursive functions.
Their properties compare what is read with a definition that does not know the
encoding. Numbers keep a width (`Width32`, `kMaxUint64`, `Bits`), as no width is a
multiple of the 7 bits of a varint's group in the code either. `Iterators` has the
merging iterator and the one of the database, compared with the map at the
snapshot in every sequence of moves; `SSTable` the builder, the blocks with their
restarts and shared prefixes, the index, the filter and the two-level iterator.
`Nanopb` reads the code as the Pods build it (`PB_FIELD_32BIT`, without
`PB_ENABLE_MALLOC`).

### MC modules

Each extends its module and gives values to the constants that a `.cfg` cannot
write. No definition is overridden. `MCLaunch`, `MCLevelDBParts` and `MCFormats`
each hold several modules that share no state: a behaviour picks one part, and the
variables of the others keep their first values. `MCLetIn` is `Launch` alone.

## 3. The runs

| Run | Question | Bounds |
|---|---|---|
| `catalog_phones` | do two phones at once keep the list right? | 2 phones, 1 game with 1 kickoff or none, with or without a venue, 1 launch each, 2 days, a game kept for its day |
| `catalog_relaunch` | does a phone that is ended anywhere? | 1 phone, 3 launches, a valid and a legacy game, 3 days, a game kept one day more |
| `launch` | gate, alerts, taps, liveness; order, reachability, placeholders of the lists | 3 calls of ApiCall, 2 taps, every answer; 5 games, 4 teams, 2 launches, 5 instants |
| `reminders_relaunch` | do the copies agree after two clicks over two launches, ended anywhere? | MNT and ALL TEAMS, 1 game, 2 intervals |
| `ldb_levels` | do the levels answer as the map does? | 2 keys, 4 levels, 3 or 4 writes; a snapshot, or ranges compacted by hand, or outputs split after every entry |
| `ldb_store` | do writes last, and does every write return? | 2 writers, memtables of one update, up to 4 writes, 2 stops, 1 failure or 1 iterator, with and without `reuse_logs`, torn logs and stops of the machine |
| `ldb_parts` | what threads and restarts share below the database | 3 entries and 1 reader; 3 blocks; 4 tables, 2 shards, 2 threads; 4 items; 3 files, limits of 1; 2 processes of 2 threads; 2 directories, 2 runs of the repair, 1 failure |
| `formats` | is what is written read back? | logs of 4 records in blocks of 7 cells; names of up to 3 digits; batches of 2, edits of 3 fields; up to 4 entries of 3 keys; tables of up to 4 of 7 keys; 5 message types, 2 messages one after the other |
| `scheduled_once`, `no_double_reminders`, `let_in`, `ldb_gap` | what a comment says and the code does not do; violated | small instances of `GameCatalog`, `Reminders`, `Launch`, `Levels` |

Why these are enough. Phones meet only in Firebase's value of one key, so two
phones and one game show every race of check and write; the proofs cover any
number. Three launches let a game be published, be lost, be listed again and
expire. Three calls of ApiCall give a first attempt and two overlapping
retries; two taps give one before and one after the gate. The two days the code
keeps a game (`KeepDays`) are shortened: only whether a day lies beyond them
matters. In Reminders a team, ALL TEAMS and two intervals (the one of the odd
switch and another) give every branch of the handlers; two clicks give on and off
again of one thing, or one each of any two, in either order and with a launch
between them.

In `Levels` two keys are what an order and an overlap need, four levels hold an
input, an output, a grandparent and a level for `IsBaseLevelForKey` to look at
(`MaxMemCompactLevel` is 2, as in the code), and four writes put an entry of a key
in a memtable, in level 0 and in two levels below. In `Store` a memtable is full
after one update, so that a second write makes a log, a flush and, after two of
them, a compaction, into which a third flush falls; two stops give a recovery of a
recovery. The option sets of `MCStore` share these bounds out, since all at once
are beyond TLC; `StoreProofs` needs none of them. In the formats, blocks of 7
cells are cut by every record longer than 4, and a header fits at the end of one,
exactly or not at all; the widths of integers let a varint have one group too
many. In the skip list three entries are one before, one at and one after a
target; the proofs cover any number, and any number of readers and levels. In the
cache four tables of two shards collide in the hash table, which begins with one
bucket and grows.

Runs over bounded launches, calls, writes and days end in states without a
successor, hence `CHECK_DEADLOCK FALSE`; that nobody hangs is a property
(`NeverWaitsForever`, `WritesReturn`, `WorkIsRun`).

### What holds: the app

* Every game in Firebase or on a phone, in a check, in a write on its way or in a
  snapshot was dealt with first (`CopiesAnnounced`), because the publication waits
  for every check; and `ImplementsAnnouncedCatalog`.
* `OneRowPerGame`, whatever the order of two syncs and a prune.
* `EnteredOnce`: of the timer, the syncs and the retries one ends the loading,
  once. `NobodyIsStranded`, and with fairness `NeverWaitsForever`: home is presented,
  or an alert the user does not close, as long as nothing is presented when the
  segue comes (what happens otherwise is `let_in`).
* `PendingTapsAreHandled`: taps during the loading are dealt with, even when the
  segue is refused, since its preparation is not.
* `FollowingAgrees`: menu, Core Data and Firebase agree when all is quiet, but
  for a team clicked between an answer and its block. `TagsMatchMenu`,
  `LocalOnlyForClickedBells`, `BellsAreScheduled` (of games whose
  title names one team: the turn of another it mentions may cancel them).
* `UpcomingFirst`: doubling the past serves the order while the clock is less
  than twice what it was (`HomeListAssumption`). `EveryGameHasItsPlace`,
  `PlaceholdersAlone`.

### What holds: LevelDB and nanopb

* `ImplementsKeyValueMap`: whatever is flushed, moved and merged, and whichever
  snapshots are held, Get answers as the map of `db.h` does. `EntriesNeverHop` is
  the comment of `version_set.cc:346`, why the first answer is the right one.
  `NoOverlapInLevels` holds while no memtable is written below level 0 between the
  inputs of a compaction under way; the other case is `ldb_gap`.
  `InputsStayInPlace`: the results of a compaction replace files that are there, in
  either case.
* `NoAckedWriteIsLost`: at every moment the files give an open all writes that
  returned OK, and readers find them. `SyncedWritesSurvive` the same of synced
  writes, whatever the machine loses. `FilesAreThere`: what the MANIFEST names,
  an iterator holds or a compaction writes is not deleted. `TablesNeverChange`: no
  file number is used twice. `WritesReturn`, with failures too.
* `SearchesAreSafe` and `ReadsFindWhatWasThere`: a reader between any two stores of
  the writer follows only stored links and misses no entry that was there.
  `AllocationsAreSound`, `CacheKeepsWhatIsUsed`, `WorkIsRun`, `PlacesAreKept`,
  `OneHolderPerProcess`.
* `RepairSavesWhatIsThere`: what could be read is in the directory or in `lost` at
  every moment, and a repair without a failure has it all in its new version.
* `LogIsRead`, `NamesAreKnown`, `UpdatesReadBack`, `TableIsRead`, `IteratorsAgree`,
  `PbDecodes`, `PbEncodingFits`: what was written is read back, what is cut or
  damaged is refused or loses what the damage touches, and nothing is made up.

### What the comments say and the code does not do

Four have a run that shows them; `PROJECT.json` "findings" quotes the lines:

* pushes are scheduled twice when two phones find a new game at once
  (`ScheduledOnce`);
* a game is reminded of by a push and locally, after two overlapping updates
  (`NoDoubleReminders`);
* a user who should just be let in stays on the loading screen: a segue refused
  because an alert is up is not tried again (`LoadingVC.swift:106`), and the retry
  of the closed alert finds the gate shut (`UserIsLetIn`);
* two files of a LevelDB level overlap: a memtable flushed below level 0 while a
  manual compaction merges lands between its inputs (`ldb_gap`,
  `NoOverlapInLevels`). The assertion that would tell is off in a release build.

More was met while modelling and is stated here without a run. In the app:

* a game without a timestamp or a venue is published, synced and stored, and
  opening it fails on an unwrap (`GameDetailVC.swift:58`, `:68`);
* `currentUser!` is read before the sign-in of a first launch has answered
  (`HomeVC.swift:132`);
* turning a bell off cancels under the team's name what was scheduled under the
  title (`ReminderService.swift:139`, `:209`), and cancelling by a substring takes
  the bells of youth teams with it (`:159`);
* a lost POST leaves a listed game without pushes for ever
  (`OneSignalExtension.swift:61` only prints the error);
* a sync that "updates the existing game" (`ApiCaller.swift:283`) copies two fields
  and keeps the old kickoff (`Merged`);
* the switch of a day, and settings that arrive late, do not reach OneSignal until
  another handler tells it (`untold`; `NotificationMenuView.swift:190`);
* the comment of `order()`, "the higher the number, the more to the top"
  (`SoccerGame.swift:118`), is the reverse of the ascending sort
  (`LoadingVC.swift:47`); the code's way round is the one `UpcomingFirst` needs.

In LevelDB 1.18 (several were mended in later releases):

* entries of one user key that a snapshot keeps apart may be split over two files
  of a level; compacting one of them leaves an older entry above a newer one
  (`version_set.cc:1345-1380`). `SafeOptions` of `MCLevels` keeps snapshots and
  split outputs apart; with `SplitOptions` for `OptionSets` TLC finds
  `EntriesNeverHop` violated;
* a log record that fails half way leaves a torn tail; later acknowledged records
  of that log are lost at the next open (`tornOnError` of `Store`, which
  `OptionsAssumption` leaves out). `reuse_logs`, off by default, appends after a
  torn tail, too, and to a first MANIFEST that was not synced: with it, the
  assumption has no torn tails and no stops of the machine;
* a refused open closes its descriptor of the lock file and thereby drops the lock
  its process holds (`env_posix.cc:464-484`); `env.h` promises that other
  processes are kept out. `OneHolderPerProcess` is about one process;
* the first MANIFEST and the directory entry of a new log are not synced;
* repair numbers converted logs in the order of the directory and puts all tables
  into level 0, so that a Get may answer with an older entry; its copies and its
  MANIFEST are not synced, so `Repair` has stops of the process only; a comment
  says checksums are verified where the code passes false (`repair.cc:189`); a
  table dropped at `repair.cc:328` is not archived, as the comment of `:317` says;
* an iteration over a damaged batch calls the handler before the count is checked;
  `VersionEdit::Clear` keeps compaction pointers (`UpdatesReadBack` says so).

In nanopb: a proto3 submessage whose first item or whose fields are zero bytes is
not sent (`pb_encode.c:205-266`); a type with 32 required fields shifts a word by
its width (`pb_decode.c:947`; `NanopbAssumption` leaves such types out); a tag cut
in the middle is taken for the end of the message (`pb_decode.h:118`).

### Fairness

`Launch`: weak fairness of the blocks of the main queue, of the armed timer, of
the end of `sleep(1)` and of the delayed handler: the run loop takes its next
block or due timer when it is idle. None of the network, the sign-in or the user.
`MCLaunch` runs `Launch` and `HomeList` one at a time under the fairness of `Launch`,
which a behaviour of the lists, in which the launch stands still, cannot meet: the
temporal properties of `launch` are about launches, the invariants about both.
`Store`: weak fairness of the commit under way, of the background thread and of
the writers as a whole: a thread that can run does, in the end. None of callers,
iterators, closing and stops. `PosixEnv`: weak fairness of the background thread's
two steps; a waiting thread need not wake without a signal.

## 4. The proofs

Eight modules hold theorems; all are of the form `Spec => []Inv`, of an action
property or of a refinement, for every value of the constants.

**`GameCatalogProofs`**, for every set of phones and games and every bound:

* `TypeCorrect`: `Spec => []TypeOK`, by `InitTypeOK` and `NextTypeOK`.
* `CopiesAreAnnounced`: `Spec => []CopiesAnnounced`. That listed games are announced
  is not inductive alone: a write may be on its way, and a phone may hold a checked
  item or an answered read. `CopiesAnnounced` adds these, and that a removal on its
  way is of an expired game. The announced games only grow, which is why a copy
  stays good however late it arrives. `ListedAndStoredAnnounced` follows.
* `OneRow`: `Spec => []OneRowPerGame`.
* `CatalogImplementsPromise`: every step is an announcement, a listing, an
  unlisting or an expiry of `AnnouncedCatalog`, or leaves it alone; the invariant
  gives the guards of the last three.

**`LaunchProofs`**, for every number of calls of ApiCall and of taps: `TypeCorrect`,
`EntersOnce` and `NobodyStranded`. The invariant counts: the blocks of
`finishLoading` and of the segue on the main queue, the thread asleep in
`finishLoading` and the segue that was made are together at most one, and none
while the gate `isLoadingData` is up; the taps on the queue and the ones kept for
later are no more than were tapped. While the app loads, LoadingVC presents
nothing or the alert, nothing lies on top of it, and no tap waits for the delayed
handler. Without the first part two syncs could each pass the gate.

**`RemindersProofs`**, for every set of teams, games and intervals, every relation
of names and every order of enumeration: `TypeCorrect`, `FollowingAlwaysAgrees`,
`TagsAlwaysMatch`, `LocalAlwaysClicked` and `BellsAlwaysScheduled`. What holds when
all is quiet is not inductive; the invariant says what the steps on the way will
do to it. An answer not yet applied is what Firebase says, or its team was
overtaken (`Agreement`); the last update on the queue, or none, has the selection
of the menu (`LastUpdateIsCurrent`), so that the tags are or will be those of the
menu (`TagsAreCurrent`), and each bell is scheduled or in the part of an update
still to run (`BellsAreCurrent`, `WaitingBellsAreClicked`).

**`HomeListProofs`**, for every set of games, teams and times of the clock within
`HomeListAssumption`, and any number of launches: `UpcomingAlwaysFirst`,
`GamesAlwaysPlaced` and `PlaceholdersAlwaysAlone`. The invariant `HomeInv` says that
a list is sorted by `order()` as of the time it was sorted at, that every row the
sort saw is in the lists of its teams, and that what the picker shows is stored.
`UpcomingAlwaysFirst` then compares two games at the later time of the screen: here
the doubled timestamp needs the clock's bound.

**`FilteringProofs`**: what `Filter` returns (its members, their order, where each
came from). Its lemma `InductionUpTo` is induction over the first numbers, from the
least element of a set of numbers, and carries every proof here about a recursive
function; `Sequencing` gives such functions their values.

**`LevelDBPartsProofs`**, whose sections share no state:

* *MemTable*, for every set of entries, every height, every number of readers and
  every interleaving: `SearchesAlwaysSafe` and `ReadsAlwaysFind`. The invariant
  `MemInv` says of the list that links lead upwards to the *next* node of their
  level and that each level is within the one below, but for the node being
  inserted, whose own links are ahead of its being linked; of the insertion that the
  places it found are still the places of its key; of a reader that its position is
  before its target and on the level it searches, and that no entry it must find
  lies behind it. The last part is what makes a search end at the right node: going
  down keeps it, and so does every store of the writer, since nodes are never
  removed.
* *Arena*: `ArenaIsSound`, for every block size, alignment and sequence of requests.
  The invariant adds that what is left of the present block lies after every piece
  cut from it.
* *TableCache*, for every set of tables and threads, every hash and capacity:
  `TablesStayOpen`, with both invariants and the action property of
  `CacheKeepsWhatIsUsed`. The invariant `CacheInv` says of each shard, one at a
  time, that its hash table leads to exactly its cached handles, each in the bucket
  of its hash however often the table has grown, that each handle is on the list its
  count says, and that the count is the number of its users, plus one while it is
  cached; so an address is always free for the next insertion (`AddressFree`). A
  call changes the handles of its shard only (`Kept`).
* *PosixEnv*: `WorkRunsOnceInOrder`, `LimitsHoldAlways` and `OneThreadHoldsTheLock`,
  for every number of items, files, processes and threads. The limit's invariant
  counts the files in each place; a place is taken before the file is opened and is
  given back by whoever fails. The lock's invariant is that a thread between
  `Insert` and `Remove` has its process in the table.
* *Repair*: `RepairIsSafe`, for every directory it may begin with and any number of
  failures and runs. A repair may stop anywhere, so `RepairInv` has two layers: what
  holds of the files at rest too (`Saved`), and what one run knows (`Scanned`,
  `Copied`, `Covered`, `Described`): each source it found is still in a file of the
  directory, or in the table being copied. What was found is counted per run: a
  second run gives numbers again, and may replace in `lost` a table that the first
  one archived ("some data may be lost", says `db.h`). TLC checked `RepairInv` on
  1.2 million states, of two runs with two failures, before it was proved.
* *FileNames*: `NamesAlwaysKnown`, for every base, every largest number of the
  type and every set of numbers: a name that was made is read as the file it was
  made for, and no other name as the file of another number. Both loops are recursive functions: the
  digits made are those of the number (`DigitsAreOfTheNumber`) and reading them
  keeps below the bound at which `ConsumeDecimalNumber` refuses (`NumberIsRead`).

**`LevelsProofs`**: `InputsAlwaysInPlace`, for every set of options, triggers,
numbers of levels and ranges, the options of `ldb_gap` included. The invariant
`LevelsInv` says that a version's levels are sequences of files, that the inputs
of the compaction under way are in the version and above its last level
(`InPlace`), that the file charged with too many seeks is in its level and that
level is not the last (`ChargedFileThere`; the file charged is the first of two
that were read, and the last level is read last and once, `ReadsFacts`), and that
a range is compacted above its last level only (`RangeAboveLastLevel`). Underneath
are what the steps compute: a level with the best score exists
(`CompactionLevelFacts`) and has files once the score is 1 (`PickFacts`), the
inputs set up are files of their levels (`SetupFacts`), the merge of an edit keeps
each file (`MergedFiles`), the outputs are finite files (`OutputFacts`).

**`StoreProofs`**, for every number of writers, memtables and
groups of every size, every trigger, every set of options within
`OptionsAssumption`, and any number of writes, stops, failures and iterators:

* `TypeCorrect`;
* `AckedWritesLast`: no write that returned OK is lost, for readers or for an open
  that begins after a stop at any point (`NoAckedWriteIsLost`);
* `SyncedWritesLast`: nor a synced one with the machine (`SyncedWritesSurvive`);
* `NeededFilesExist`: no needed file is deleted (`FilesAreThere`);
* `NeededTablesStay`: no needed table is written again (`TablesNeverChange`).

None of these is inductive, because each speaks of the state of rest: in between,
an edit is on disk and not in the version, or a log has been read and its table
not been named yet. The invariant `IInv` says for every place a write may be in
where an open would find it (`Memory`: what is in the memtable is in the present
log, what is in `imm_` is in logs or tables that the MANIFEST still needs), and for
whatever an open could read of the MANIFEST in use, with or without its unsynced
end (`Read`), that it names tables that exist and is at most one edit away from
the version (`Manifest`: the edit of the flush or compaction that is at
`"install"`, or one that failed, after which `bg_error_` keeps everything from
being deleted). While no MANIFEST of this process is in force, `Closedness` says
that of the files alone, and `Recovery` follows an open through the logs: what
returned is in tables it read or made, in its memtable, or in a log still to be
read. `FlushGood`, `WorkGood`, `CommitGood` and `LogsGood` say what is under way:
the table being written has a number of its own that nobody reads yet, the edit
holds what `imm_` or the inputs hold, the group is in the log as far as its stage
says, and nothing is appended behind a torn record. The module begins with the
invariant, the lemmas about MANIFESTs, logs and tables (what an appended edit or
record changes of what is read), what each step does, and the types; one lemma for
each further part follows, with one step for each action, and the theorems.
TLC checked `IInv` with its parts on the option sets of `MCStore` before it was
proved; several parts (that the edit's numbers are not above the ones handed out
since, that logs still to be read are not before `log_number_`) came from
counterexamples and from steps that failed.

They rest on the named assumptions of their modules (`CatalogAssumption`,
`SentinelAssumption`, `LaunchAssumption`, `RemindersAssumption`,
`HomeListAssumption`, `PlaceholdersAssumption`, `MemTableAssumption`,
`ArenaAssumption`, `CacheAssumption`, `NoHandleAssumption`, `EnvAssumption`,
`RepairAssumption`, `NamesAssumption`, `LevelsAssumption`, `StoreAssumption`,
`OptionsAssumption`), which say what the constants are; TLC evaluates them in the
runs of modules that extend them. Two leave out something the code can meet, and
name it: `OptionsAssumption`, without which `AckedWritesLast` is false, and
`HomeListAssumption`, which keeps the clock below twice the earliest kickoff.

Model-checked only:

* of `Levels`, `EntriesNeverHop`, `NoOverlapInLevels` and `ImplementsKeyValueMap`:
  they are false for some options (`ldb_gap`, and entries that a snapshot keeps
  apart in two files), so a proof would need an assumption on interleavings rather
  than on constants;
* `LogIsRead`, `UpdatesReadBack`, `IteratorsAgree`, `TableIsRead`, `PbDecodes` and
  `PbEncodingFits`: their readers are RECURSIVE operators, about which the prover
  has no rules. Written as recursive functions, as `FileNames` is, they could be
  reasoned about by `InductionUpTo`; what is left is the size of the proofs;
* liveness (`NeverWaitsForever`, `PendingTapsAreHandled`, `WritesReturn`,
  `WorkIsRun`): the prover has no rule for `ENABLED`.

## 5. Not modelled, and why

* App: layout, animations, the flags that show a tutorial once, the wording; the
  parsing of titles, stations and zones (`GameCatalog` abstracts an item to what
  the steps tell apart).
* `Reminders`: Firebase writes arrive at once and tags in order, because nothing
  in the code writes again what was lost; notifications never fire and go by;
  every team has its row; the phone is online, signed in and authorized, except
  for the one handler that acts without authorization.
* `Launch`: the games themselves; a tapped notification of a game that is not
  stored does nothing.
* `GameCatalog`: the clocks of phones agree, and a day is the unit of age.
* LevelDB: compression, statistics, logging, the C binding, the dump tool and the
  histogram; the block cache above the tables (the cache itself is `TableCache`);
  the file system beyond what `Store` and `Repair` say of it: creating, renaming
  and deleting take effect at once. `Store` does not look into a write, `Levels`
  not at files on disk.
* nanopb: pointer fields and `pb_release`, which the build leaves out.
* The other Pods, of which there are only binaries, headers or code the app does
  not reach; Firebase and OneSignal are modelled from how the app uses them.
