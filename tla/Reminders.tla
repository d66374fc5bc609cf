----------------------------- MODULE Reminders ------------------------------
(***************************************************************************)
(* How a phone is reminded of games.  A followed team is a set of OneSignal *)
(* tags, one per reminder interval, that select the pushes of its games; a  *)
(* game whose bell is on has local notifications, unless its team is        *)
(* followed.  The team list of the menu, the bells, the interval switches,  *)
(* the copies of all this in Firebase and in Core Data, and the            *)
(* notifications already scheduled are kept in step by callbacks.           *)
(*                                                                         *)
(* Sources: ReminderService, NotificationMenuView, HomeVC.refreshSettings,  *)
(* HomeVC.handleNotifications, ApiCaller.updateLocalTeamsNotification-      *)
(* Settings, OneSignal.promptPushNotificationAlert.  A step is a block of   *)
(* the main queue or of the callback queue of the notification center.  The *)
(* phone is online, its user signed in and notifications are authorized:    *)
(* otherwise the handlers only show a message, except one (SwitchOneDay).    *)
(***************************************************************************)
EXTENDS Naturals, Sequences, FiniteSets, Functions

CONSTANTS
  Teams,        \* rows of the menu
  AllTeams,     \* the row "ALL TEAMS"
  Games,        \* titles of the games of the table
  Team,         \* Team[g]: usTeam of g
  Mentions,     \* pairs of a game and a team whose name its title contains
  Intervals,    \* reminder intervals
  OneDay,       \* the one with a switch of its own kind
  TwoHours,     \* the one that is on by default
  MaxClicks,    \* bound: clicks and switches of the user
  MaxLaunches   \* bound: launches

ASSUME RemindersAssumption ==
  /\ AllTeams \in Teams
  /\ Team \in [Games -> Teams \ {AllTeams}]
  /\ Mentions \subseteq Games \X Teams
  /\ \A g \in Games : <<g, Team[g]>> \in Mentions /\ <<g, AllTeams>> \notin Mentions
  /\ Games \cap Teams = {}
  /\ TwoHours \in Intervals
  /\ MaxClicks \in Nat /\ MaxLaunches \in Nat

\* Values a three-state store has: not there yet, or a Boolean.
Unknown == "unknown"
No == "no"
Yes == "yes"
Maybe == {Unknown, No, Yes}
Bool(b) == IF b THEN Yes ELSE No

VARIABLES
  running,        \* HomeVC is loaded
  following,      \* followingRef: the teams this user follows
  settings,       \* notificationSettings in Firebase: the intervals that are on
  notifications,  \* teams whose row in Core Data has notifications set
  bell,           \* game.notification in Core Data
  prompted,       \* the permission prompt has been answered
  selected,       \* NotificationMenuView_selectedTeams
  toggles,        \* the intervals that are on in ReminderService
  menuReads,      \* teams whose following awakeFromNib still reads
  menuAnswers,    \* answers of these that wait for the main queue
  menuLoaded,     \* the group of these reads has been notified
  rowReads,       \* teams whose following updateLocalTeams... still reads
  settingsRead,   \* the read of refreshSettings: none, asked, or its answer
  bellReads,      \* games whose bell waits for the following of the team
  updates,        \* calls of updateSubsription not yet called back
  localPending,   \* identifiers of the scheduled local notifications
  tags,           \* pairs of a team and an interval tagged in OneSignal
  clicks,         \* clicks so far
  launches,       \* launches so far
  untold,         \* intervals changed since an update last read the toggles
  overtaken       \* teams clicked while an older answer was waiting

stores   == <<following, settings, notifications, bell, prompted>>
reads    == <<menuReads, menuAnswers, menuLoaded, rowReads, settingsRead>>
menu     == <<selected, toggles>>
bounds   == <<clicks, launches>>
history  == <<untold, overtaken>>
outside  == <<localPending, tags>>
vars == <<running, following, settings, notifications, bell, prompted,
          selected, toggles, menuReads, menuAnswers, menuLoaded, rowReads,
          settingsRead, bellReads, updates, localPending, tags, clicks,
          launches, untold, overtaken>>

\* A settings read: none, asked, or the answer that waits for the main queue.
NoRead == [state |-> "none"]
Asked == [state |-> "asked"]
Answered(on) == [state |-> "answered", on |-> on]

Init ==
  /\ running = FALSE
  /\ following = {}
  /\ settings = {TwoHours}      \* the default when nothing is stored
  /\ notifications = {}
  /\ bell = [g \in Games |-> Unknown]
  /\ prompted = FALSE
  /\ selected = [t \in Teams |-> Unknown]
  /\ toggles = {TwoHours}
  /\ menuReads = {}
  /\ menuAnswers = [t \in Teams |-> Unknown]
  /\ menuLoaded = FALSE
  /\ rowReads = {}
  /\ settingsRead = NoRead
  /\ bellReads = {}
  /\ updates = <<>>
  /\ localPending = {}
  /\ tags = {}
  /\ clicks = 0
  /\ launches = 0
  /\ untold = {}
  /\ overtaken = {}

(***************************************************************************)
(* ReminderService.                                                        *)
(***************************************************************************)

\* The identifier of a local notification: what precedes the seconds in
\* key(team:timeInterval:), and the interval.
Key(name, i) == <<name, i>>

\* scheduleAllLocalNotifications names them after the title of the game.
LocalNotifications(g) == {Key(g, i) : i \in toggles}

\* cancelAllSchduledLocalNotifications(ofGame:) names them after the team.
CancelledByBell(g) == {Key(Team[g], i) : i \in Intervals}

\* MUTANT of ScheduledAgain: every game of the team is scheduled.
ScheduledAgainAll(update) ==
  UNION {LocalNotifications(g) :
           g \in {h \in Games : update.selected[Team[h]] = No}}

\* MUTANT of ScheduledAgain: nothing is scheduled again.
ScheduledAgainNone(update) == {}

\* The local notifications an update schedules: of the games whose bell is on
\* and whose team is known not to be followed.
ScheduledAgain(update) ==
  UNION {LocalNotifications(g) :
           g \in {h \in Games : update.selected[Team[h]] = No /\ bell[h] = Yes}}

\* cancelAllScheduledLocalNotifications(ofTeam:): those the notification
\* center had reported whose identifier contains the name of the team.
Cancelled(update, t) ==
  {k \in update.requests : <<k[1], t>> \in Mentions}

\* The teams an update is about, and the orders in which the dictionary may
\* enumerate them.
Told(update) == {t \in Teams : update.selected[t] # Unknown}
Orders == {rank \in [Teams -> 1 .. Cardinality(Teams)] : IsInjective(rank)}

\* What remains scheduled: a team's games are scheduled again in its turn, and
\* a team whose turn comes later may cancel them.
Rescheduled(update, rank) ==
  LET again == ScheduledAgain(update)
  IN  {k \in again :
         \A t \in Told(update) :
           rank[t] > rank[Team[k[1]]] => k \notin Cancelled(update, t)}
      \cup {k \in localPending \ again :
              \A t \in Told(update) : k \notin Cancelled(update, t)}

\* updateSubsription is called: the selection is copied, the requests are
\* asked for.
UpdateSubscription(selection) ==
  updates' = Append(updates, [selected |-> selection, fetched |-> FALSE,
                              requests |-> {}])

\* The notification center answers with the requests pending now.
FetchRequests(n) ==
  /\ n \in DOMAIN updates
  /\ ~updates[n].fetched
  /\ \A m \in 1 .. n - 1 : updates[m].fetched
  /\ updates' = [updates EXCEPT ![n] = [selected |-> @.selected,
                                          fetched |-> TRUE,
                                          requests |-> localPending]]
  /\ UNCHANGED <<running, stores, menu, reads, bellReads, outside, bounds,
                 history>>

\* MUTANT of NewTags: the tags of a team no longer followed are left alone.
NewTagsKept(update) ==
  tags \cup ({t \in Teams : update.selected[t] = Yes} \X toggles)

\* The tags of the teams an update is about are set or cleared.
NewTags(update) ==
  {k \in tags : update.selected[k[1]] = Unknown}
    \cup ({t \in Teams : update.selected[t] = Yes} \X toggles)

\* The callback of updateSubsription.
RunUpdate ==
  /\ updates # <<>>
  /\ Head(updates).fetched
  /\ updates' = Tail(updates)
  /\ \E rank \in Orders : localPending' = Rescheduled(Head(updates), rank)
  /\ tags' = NewTags(Head(updates))
  /\ untold' = {}
  /\ UNCHANGED <<running, stores, menu, reads, bellReads, bounds, overtaken>>

(***************************************************************************)
(* A launch: HomeVC and its menu load, and start three kinds of reads.     *)
(***************************************************************************)

Load ==
  /\ ~running
  /\ launches < MaxLaunches
  /\ launches' = launches + 1
  /\ running' = TRUE
  /\ menuReads' = Teams
  /\ rowReads' = Teams
  /\ settingsRead' = Asked
  /\ UNCHANGED <<stores, menu, menuAnswers, menuLoaded, bellReads, updates,
                 outside, clicks, history>>

\* iOS ends the app: what is in memory is lost; Firebase, Core Data, OneSignal
\* and the scheduled notifications stay.
Quit ==
  /\ running
  /\ running' = FALSE
  /\ selected' = [t \in Teams |-> Unknown]
  /\ toggles' = {TwoHours}
  /\ menuReads' = {}
  /\ menuAnswers' = [t \in Teams |-> Unknown]
  /\ menuLoaded' = FALSE
  /\ rowReads' = {}
  /\ settingsRead' = NoRead
  /\ bellReads' = {}
  /\ updates' = <<>>
  /\ untold' = {}
  /\ overtaken' = {}
  /\ UNCHANGED <<stores, outside, bounds>>

\* awakeFromNib: Firebase answers, and a block is put on the main queue.
AnswerMenuRead(t) ==
  /\ t \in menuReads
  /\ menuReads' = menuReads \ {t}
  /\ menuAnswers' = [menuAnswers EXCEPT ![t] = Bool(t \in following)]
  /\ UNCHANGED <<running, stores, menu, menuLoaded, rowReads, settingsRead,
                 bellReads, updates, outside, bounds, history>>

\* MUTANT of Select: Core Data keeps what is no longer selected.
SelectOnly(t, select) ==
  /\ selected' = [selected EXCEPT ![t] = Bool(select)]
  /\ notifications' = IF select THEN notifications \cup {t} ELSE notifications

\* select(select:team:).
Select(t, select) ==
  /\ selected' = [selected EXCEPT ![t] = Bool(select)]
  /\ notifications' = IF select THEN notifications \cup {t}
                                ELSE notifications \ {t}

\* The block of awakeFromNib.
SelectAnswer(t) ==
  /\ menuAnswers[t] # Unknown
  /\ Select(t, menuAnswers[t] = Yes)
  /\ menuAnswers' = [menuAnswers EXCEPT ![t] = Unknown]
  /\ UNCHANGED <<running, following, settings, bell, prompted, toggles,
                 menuReads, menuLoaded, rowReads, settingsRead, bellReads,
                 updates, outside, bounds, history>>

\* All teams have been read: tell OneSignal.
MenuLoaded ==
  /\ running
  /\ ~menuLoaded
  /\ menuReads = {} /\ \A t \in Teams : menuAnswers[t] = Unknown
  /\ menuLoaded' = TRUE
  /\ UpdateSubscription(selected)
  /\ UNCHANGED <<running, stores, menu, menuReads, menuAnswers, rowReads,
                 settingsRead, bellReads, outside, bounds, history>>

\* updateLocalTeamsNotificationSettings: a team not followed has no value.
AnswerRowRead(t) ==
  /\ t \in rowReads
  /\ rowReads' = rowReads \ {t}
  /\ notifications' = IF t \in following THEN notifications \cup {t}
                                         ELSE notifications
  /\ UNCHANGED <<running, following, settings, bell, prompted, menu, menuReads,
                 menuAnswers, menuLoaded, settingsRead, bellReads, updates,
                 outside, bounds, history>>

\* refreshSettings: Firebase answers, and a block is put on the main queue.
AnswerSettingsRead ==
  /\ settingsRead = Asked
  /\ settingsRead' = Answered(settings)
  /\ UNCHANGED <<running, stores, menu, menuReads, menuAnswers, menuLoaded,
                 rowReads, bellReads, updates, outside, bounds, history>>

\* The block of refreshSettings.
RefreshSettings ==
  /\ settingsRead.state = "answered"
  /\ toggles' = settingsRead.on
  /\ settingsRead' = NoRead
  /\ untold' = untold \cup {i \in Intervals : (i \in toggles) # (i \in toggles')}
  /\ UNCHANGED <<running, stores, selected, menuReads, menuAnswers, menuLoaded,
                 rowReads, bellReads, updates, outside, bounds, overtaken>>

\* The first permission prompt is answered (promptPushNotificationAlert): the
\* default settings are stored, and the following of the rows.
AnswerPrompt ==
  /\ running
  /\ ~prompted
  /\ prompted' = TRUE
  /\ settings' = {TwoHours}
  /\ following' = notifications
  /\ UNCHANGED <<running, notifications, bell, menu, reads, bellReads, updates,
                 outside, bounds, untold>>
  /\ overtaken' = overtaken \cup {t \in Teams : (t \in following) # (t \in following')}

(***************************************************************************)
(* The user.                                                               *)
(***************************************************************************)

Click ==
  /\ running
  /\ clicks < MaxClicks
  /\ clicks' = clicks + 1

\* A team of the menu is clicked (didSelectRowAt).
ClickTeam(t) ==
  /\ Click
  /\ Select(t, selected[t] # Yes)
  /\ UpdateSubscription(selected')
  /\ following' = IF selected[t] # Yes THEN following \cup {t}
                                       ELSE following \ {t}
  /\ overtaken' = IF menuAnswers[t] = Unknown THEN overtaken
                                              ELSE overtaken \cup {t}
  /\ UNCHANGED <<running, settings, bell, prompted, toggles, reads, bellReads,
                 outside, launches, untold>>

\* The switch of an interval is set; the one of a day does not tell OneSignal.
SwitchTo(i, on) ==
  /\ toggles' = IF on THEN toggles \cup {i} ELSE toggles \ {i}
  /\ settings' = IF on THEN settings \cup {i} ELSE settings \ {i}
  /\ UNCHANGED <<running, following, notifications, bell, prompted, selected,
                 reads, bellReads, outside, launches, overtaken>>

Switch(i, on) ==
  /\ Click
  /\ i # OneDay
  /\ SwitchTo(i, on)
  /\ UpdateSubscription(selected)
  /\ UNCHANGED untold

SwitchOneDay(on) ==
  /\ Click
  /\ OneDay \in Intervals
  /\ SwitchTo(OneDay, on)
  /\ untold' = IF (OneDay \in toggles) # on THEN untold \cup {OneDay} ELSE untold
  /\ UNCHANGED updates

\* Without the permission the switch of a day falls back, and OneSignal is told.
SwitchOneDayDenied ==
  /\ Click
  /\ UpdateSubscription(selected)
  /\ UNCHANGED <<running, stores, menu, reads, bellReads, outside, launches,
                 history>>

\* isGameSelectedForNotifications.
IsGameSelected(g) ==
  \/ bell[g] = Yes
  \/ bell[g] = Unknown /\ {Team[g], AllTeams} \cap notifications # {}

\* A bell is clicked (handleNotifications): off at once, on after the following
\* of the team has been read.
ClickBell(g) ==
  /\ Click
  /\ bell' = [bell EXCEPT ![g] = Bool(~IsGameSelected(g))]
  /\ \/ /\ IsGameSelected(g)
        /\ localPending' = localPending \ CancelledByBell(g)
        /\ UNCHANGED bellReads
     \/ /\ ~IsGameSelected(g)
        /\ bellReads' = bellReads \cup {g}
        /\ UNCHANGED localPending
  /\ UNCHANGED <<running, following, settings, notifications, prompted, menu,
                 reads, updates, tags, launches, history>>

\* Its team is not followed: schedule the game.
AnswerBellRead(g) ==
  /\ g \in bellReads
  /\ bellReads' = bellReads \ {g}
  /\ localPending' = IF Team[g] \in following THEN localPending
                       ELSE localPending \cup LocalNotifications(g)
  /\ UNCHANGED <<running, stores, menu, reads, updates, tags, bounds, history>>

Next ==
  \/ Load \/ Quit
  \/ \E t \in Teams :
       AnswerMenuRead(t) \/ SelectAnswer(t) \/ AnswerRowRead(t) \/ ClickTeam(t)
  \/ MenuLoaded
  \/ AnswerSettingsRead \/ RefreshSettings
  \/ AnswerPrompt
  \/ \E i \in Intervals, on \in BOOLEAN : Switch(i, on)
  \/ \E on \in BOOLEAN : SwitchOneDay(on)
  \/ SwitchOneDayDenied
  \/ \E g \in Games : ClickBell(g) \/ AnswerBellRead(g)
  \/ \E n \in DOMAIN updates : FetchRequests(n)
  \/ RunUpdate

Spec == Init /\ [][Next]_vars

(***************************************************************************)
(* Properties.                                                             *)
(***************************************************************************)

\* Every variable has its type; a scheduled notification is named after a game.
Update == [selected : [Teams -> Maybe], fetched : BOOLEAN,
           requests : SUBSET (Games \X Intervals)]

TypeOK ==
  /\ running \in BOOLEAN /\ prompted \in BOOLEAN /\ menuLoaded \in BOOLEAN
  /\ following \subseteq Teams /\ notifications \subseteq Teams
  /\ overtaken \subseteq Teams
  /\ menuReads \subseteq Teams /\ rowReads \subseteq Teams
  /\ selected \in [Teams -> Maybe] /\ menuAnswers \in [Teams -> Maybe]
  /\ settings \subseteq Intervals /\ toggles \subseteq Intervals
  /\ untold \subseteq Intervals
  /\ settingsRead \in {NoRead, Asked} \cup {Answered(on) : on \in SUBSET Intervals}
  /\ bell \in [Games -> Maybe] /\ bellReads \subseteq Games
  /\ updates \in Seq(Update)
  /\ localPending \subseteq Games \X Intervals
  /\ tags \subseteq Teams \X Intervals
  /\ clicks \in 0 .. MaxClicks /\ launches \in 0 .. MaxLaunches

\* HomeVC has loaded and no callback is due.
Quiet ==
  /\ running /\ menuLoaded
  /\ rowReads = {} /\ bellReads = {}
  /\ settingsRead = NoRead
  /\ updates = <<>>

\* The menu, Core Data and Firebase agree on the teams that are followed, once
\* all is quiet, unless a click overtook an answer already on its way: the
\* three reads of a launch and the clicks write them in any other order.
FollowingAgrees ==
  Quiet => \A t \in Teams \ overtaken :
             /\ (selected[t] = Yes) <=> (t \in following)
             /\ (t \in notifications) <=> (t \in following)

\* Once all is quiet OneSignal tags the user with exactly the selected teams
\* and the intervals that are on, but for the intervals changed by the two
\* handlers that do not tell it (oneDaySwitch, refreshSettings).
TagsMatchMenu ==
  Quiet => \A t \in Teams, i \in Intervals \ untold :
             <<t, i>> \in tags <=> (selected[t] = Yes /\ i \in toggles)

\* Only a game whose bell the user has clicked is ever scheduled on the phone,
\* whatever updates reschedule (scheduleLocalNotificationsForAllSelectedGames
\* asks for the bell, not for isGameSelectedForNotifications).
LocalOnlyForClickedBells ==
  \A g \in Games, i \in Intervals : Key(g, i) \in localPending => bell[g] # Unknown

\* The title of a game contains the name of no other team ("U-20 MNT" contains
\* "MNT").
NamesOneTeam(g) == \A t \in Teams : <<g, t>> \in Mentions => t = Team[g]

\* "When it's ticked off again, the local notifications for the games that are
\* supposed to be followed are schedled again" (OneSignalExtension.swift): once
\* all is quiet, a game whose bell is on and whose team is not followed is
\* scheduled at every interval that is on, except one OneSignal was not told of,
\* and except a game that may be cancelled with another team's.
BellsAreScheduled ==
  Quiet => \A g \in Games, i \in toggles \ untold :
             (/\ bell[g] = Yes /\ NamesOneTeam(g)
              /\ Team[g] \notin following \cup overtaken)
               => Key(g, i) \in localPending

(***************************************************************************)
(* What a comment of the code says and the code does not do.               *)
(***************************************************************************)

(* "We want to prevent double notifications" (HomeVC.handleNotifications):  *)
(* once all is quiet no reminder of a game is both scheduled on the phone   *)
(* and pushed to the tag of the game's own team.                            *)
NoDoubleReminders ==
  Quiet => \A g \in Games, i \in Intervals :
             ~(Key(g, i) \in localPending /\ <<Team[g], i>> \in tags)
=============================================================================
