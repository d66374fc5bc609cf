--------------------------- MODULE RemindersProofs ---------------------------
(***************************************************************************)
(* Proofs about Reminders, for any teams, games and intervals: once all is *)
(* quiet the menu, Core Data, Firebase, OneSignal and the scheduled        *)
(* notifications agree.                                                    *)
(***************************************************************************)
EXTENDS Reminders, SequenceTheorems, TLAPS

(***************************************************************************)
(* The inductive invariant.                                                *)
(***************************************************************************)

\* The following of a team has been read in this launch, and its answer dealt
\* with.
IsRead(t) == running /\ t \notin menuReads /\ menuAnswers[t] = Unknown

\* What Quit leaves to the next launch.
Ended ==
  ~running => /\ menuReads = {} /\ rowReads = {} /\ bellReads = {}
              /\ updates = <<>> /\ ~menuLoaded
              /\ \A t \in Teams : menuAnswers[t] = Unknown

\* The group of the reads is notified after the last of them, and the
\* selection of a team that has been read is known.
ReadsAreGrouped ==
  /\ menuLoaded => /\ menuReads = {}
                   /\ \A t \in Teams : menuAnswers[t] = Unknown
  /\ \A t \in Teams : IsRead(t) => selected[t] # Unknown

\* An answer on its way is what Firebase says, and so is the selection of a
\* team that has been read, unless a click overtook the answer.
Agreement ==
  \A t \in Teams \ overtaken :
    /\ menuAnswers[t] # Unknown => (menuAnswers[t] = Yes <=> t \in following)
    /\ IsRead(t) => /\ (selected[t] = Yes) <=> (t \in following)
                    /\ (t \in notifications) <=> (t \in following)

\* Whoever changes the selection of a loaded menu asks for an update.
LastUpdateIsCurrent ==
  (menuLoaded /\ updates # <<>>) => updates[Len(updates)].selected = selected

\* Between updates the tags are those of the menu, but for what it did not
\* tell OneSignal.
TagsAreCurrent ==
  (menuLoaded /\ updates = <<>>) =>
    \A t \in Teams, i \in Intervals \ untold :
      <<t, i>> \in tags <=> (selected[t] = Yes /\ i \in toggles)

\* Between updates the bells that wait for no answer are scheduled.
BellsAreCurrent ==
  (menuLoaded /\ updates = <<>>) =>
    \A g \in Games \ bellReads, i \in toggles \ untold :
      (/\ bell[g] = Yes /\ NamesOneTeam(g)
       /\ Team[g] \notin following \cup overtaken)
         => Key(g, i) \in localPending

\* A bell that waits for the following of its team has been clicked.
WaitingBellsAreClicked == \A g \in bellReads : bell[g] # Unknown

IInv ==
  /\ TypeOK
  /\ Ended /\ ReadsAreGrouped /\ Agreement
  /\ LastUpdateIsCurrent /\ TagsAreCurrent
  /\ BellsAreCurrent /\ WaitingBellsAreClicked /\ LocalOnlyForClickedBells

LEMMA InitIInv == Init => IInv
<1> SUFFICES ASSUME Init PROVE IInv
  OBVIOUS
<1>1. TypeOK
  <2>1. /\ running \in BOOLEAN /\ prompted \in BOOLEAN
          /\ menuLoaded \in BOOLEAN
        /\ following \subseteq Teams /\ notifications \subseteq Teams
        /\ overtaken \subseteq Teams
        /\ menuReads \subseteq Teams /\ rowReads \subseteq Teams
    BY DEF Init
  <2>2. /\ selected \in [Teams -> Maybe] /\ menuAnswers \in [Teams -> Maybe]
        /\ bell \in [Games -> Maybe] /\ bellReads \subseteq Games
    BY DEF Init, Maybe
  <2>3. /\ settings \subseteq Intervals /\ toggles \subseteq Intervals
        /\ untold \subseteq Intervals
    BY RemindersAssumption DEF Init
  <2>4. /\ updates \in Seq(Update)
        /\ localPending \subseteq Games \X Intervals
        /\ tags \subseteq Teams \X Intervals
    BY DEF Init
  <2>5. /\ clicks \in 0 .. MaxClicks /\ launches \in 0 .. MaxLaunches
        /\ settingsRead \in {NoRead}
    BY RemindersAssumption DEF Init
  <2> QED BY <2>1, <2>2, <2>3, <2>4, <2>5 DEF TypeOK
<1>2. Ended /\ ReadsAreGrouped /\ Agreement
  BY DEF Init, Ended, ReadsAreGrouped, Agreement, IsRead
<1>3. LastUpdateIsCurrent /\ TagsAreCurrent /\ BellsAreCurrent
  BY DEF Init, LastUpdateIsCurrent, TagsAreCurrent, BellsAreCurrent
<1>4. WaitingBellsAreClicked /\ LocalOnlyForClickedBells
  BY DEF Init, WaitingBellsAreClicked, LocalOnlyForClickedBells
<1> QED BY <1>1, <1>2, <1>3, <1>4 DEF IInv

(***************************************************************************)
(* The types.                                                              *)
(***************************************************************************)

LEMMA TypesOfTheStores ==
  /\ Unknown \in Maybe /\ Yes \in Maybe /\ No \in Maybe
  /\ \A b : Bool(b) \in Maybe
BY DEF Maybe, Bool, Unknown, Yes, No

\* An update asked for is put at the end; the one that runs is the first.
LEMMA UpdateAppended ==
  ASSUME NEW s \in [Teams -> Maybe], updates \in Seq(Update),
         UpdateSubscription(s)
  PROVE  /\ updates' \in Seq(Update)
         /\ updates' # <<>>
         /\ updates'[Len(updates')].selected = s
BY DEF UpdateSubscription, Update

LEMMA RequestsFetched ==
  ASSUME TypeOK, NEW n \in DOMAIN updates, FetchRequests(n)
  PROVE  /\ updates' \in Seq(Update)
         /\ updates' # <<>>
         /\ Len(updates') = Len(updates)
         /\ \A m \in DOMAIN updates :
           updates'[m].selected = updates[m].selected
<1>1. localPending \in SUBSET (Games \X Intervals) /\ updates \in Seq(Update)
  BY DEF TypeOK
<1>2. \A u \in Update :
        [selected |-> u.selected, fetched |-> TRUE, requests |-> localPending]
          \in Update
  BY <1>1 DEF Update
<1>3. updates' = [updates EXCEPT ![n] = [selected |-> updates[n].selected,
                                           fetched |-> TRUE,
                                           requests |-> localPending]]
  BY DEF FetchRequests
<1>4. n \in 1 .. Len(updates) /\ updates[n] \in Update
  BY <1>1
<1>5. \A m \in 1 .. Len(updates) :
        updates'[m] = IF m = n
                      THEN [selected |-> updates[n].selected, fetched |-> TRUE,
                            requests |-> localPending]
                      ELSE updates[m]
  BY <1>1, <1>3
<1>6. updates' \in [1 .. Len(updates) -> Update] /\ Len(updates) \in Nat
  BY <1>1, <1>2, <1>3, <1>4
<1>7. updates' \in Seq(Update) /\ Len(updates') = Len(updates)
  BY <1>6
<1>8. \A m \in DOMAIN updates : updates'[m].selected = updates[m].selected
  BY <1>1, <1>2, <1>4, <1>5
<1>9. updates' # <<>>
  BY <1>1, <1>4, <1>7
<1> QED BY <1>7, <1>8, <1>9

LEMMA UpdateTaken ==
  ASSUME TypeOK, RunUpdate
  PROVE  /\ Head(updates) \in Update
         /\ updates' \in Seq(Update)
BY DEF TypeOK, RunUpdate

LEMMA LastTaken ==
  ASSUME TypeOK, RunUpdate, updates' = <<>>
  PROVE  updates # <<>> /\ Head(updates) = updates[Len(updates)]
<1>1. updates \in Seq(Update) /\ updates # <<>> /\ Tail(updates) = <<>>
  BY DEF TypeOK, RunUpdate
<1>2. Len(Tail(updates)) = Len(updates) - 1 /\ Len(updates) \in Nat
  BY <1>1
<1>3. Len(Tail(updates)) = 0
  <2>1. \A q : q = <<>> => Len(q) = 0
    OBVIOUS
  <2> QED BY <1>1, <2>1
<1>4. Len(updates) = 1
  BY <1>2, <1>3
<1> QED BY <1>1, <1>4

LEMMA KeysScheduled ==
  ASSUME TypeOK, NEW u \in Update
  PROVE  /\ ScheduledAgain(u) \subseteq Games \X Intervals
         /\ \A rank : Rescheduled(u, rank) \subseteq Games \X Intervals
BY DEF TypeOK, ScheduledAgain, LocalNotifications, Key, Rescheduled

\* TypeOK, in parts a step changes together.
Flags ==
  running \in BOOLEAN /\ prompted \in BOOLEAN /\ menuLoaded \in BOOLEAN
TeamSets ==
  /\ following \subseteq Teams /\ notifications \subseteq Teams
  /\ overtaken \subseteq Teams
  /\ menuReads \subseteq Teams /\ rowReads \subseteq Teams
Selections ==
  selected \in [Teams -> Maybe] /\ menuAnswers \in [Teams -> Maybe]
IntervalSets ==
  /\ settings \subseteq Intervals /\ toggles \subseteq Intervals
  /\ untold \subseteq Intervals
  /\ settingsRead \in {NoRead, Asked}
                       \cup {Answered(on) : on \in SUBSET Intervals}
Bells ==
  bell \in [Games -> Maybe] /\ bellReads \subseteq Games
Updates ==
  updates \in Seq(Update)
Outside ==
  localPending \subseteq Games \X Intervals
    /\ tags \subseteq Teams \X Intervals
Counters ==
  clicks \in 0 .. MaxClicks /\ launches \in 0 .. MaxLaunches

LEMMA TypeParts == TypeOK <=> Flags /\ TeamSets /\ Selections /\ IntervalSets
                     /\ Bells /\ Updates /\ Outside /\ Counters
BY
DEF TypeOK, Flags, TeamSets, Selections, IntervalSets, Bells, Updates, Outside,
    Counters

LEMMA NextFlags ==
  ASSUME Flags, [Next]_vars
  PROVE  Flags'
<1>1. ASSUME Load PROVE Flags'
  BY <1>1 DEF Flags, Load, stores, reads, menu, bounds, history, outside
<1>2. ASSUME Quit PROVE Flags'
  BY <1>2 DEF Flags, Quit, stores, reads, menu, bounds, history, outside
<1>3. ASSUME MenuLoaded PROVE Flags'
  BY <1>3
  DEF Flags, MenuLoaded, UpdateSubscription, stores, reads, menu, bounds,
      history, outside
<1>4. ASSUME AnswerPrompt PROVE Flags'
  BY <1>4
  DEF Flags, AnswerPrompt, stores, reads, menu, bounds, history, outside
<1>5. CASE UNCHANGED <<running, prompted, menuLoaded>>
  BY <1>5 DEF Flags
<1> QED
  BY <1>1, <1>2, <1>3, <1>4, <1>5
  DEF Next, vars, stores, reads, menu, bounds, history, outside,
      AnswerMenuRead, SelectAnswer, Select, AnswerRowRead, ClickTeam, Click,
      UpdateSubscription, AnswerSettingsRead, RefreshSettings, Switch,
      SwitchTo, SwitchOneDay, SwitchOneDayDenied, ClickBell, AnswerBellRead,
      FetchRequests, RunUpdate

LEMMA NextTeamSets ==
  ASSUME TeamSets, [Next]_vars
  PROVE  TeamSets'
<1>1. ASSUME Load PROVE TeamSets'
  BY <1>1 DEF TeamSets, Load, stores, reads, menu, bounds, history, outside
<1>2. ASSUME Quit PROVE TeamSets'
  BY <1>2 DEF TeamSets, Quit, stores, reads, menu, bounds, history, outside
<1>3. ASSUME NEW t \in Teams, AnswerMenuRead(t) PROVE TeamSets'
  BY <1>3
  DEF TeamSets, AnswerMenuRead, stores, reads, menu, bounds, history, outside
<1>4. ASSUME NEW t \in Teams, SelectAnswer(t) PROVE TeamSets'
  BY <1>4
  DEF TeamSets, SelectAnswer, Select, stores, reads, menu, bounds, history,
      outside
<1>5. ASSUME NEW t \in Teams, AnswerRowRead(t) PROVE TeamSets'
  BY <1>5
  DEF TeamSets, AnswerRowRead, stores, reads, menu, bounds, history, outside
<1>6. ASSUME NEW t \in Teams, ClickTeam(t) PROVE TeamSets'
  BY <1>6
  DEF TeamSets, ClickTeam, Click, Select, UpdateSubscription, stores, reads,
      menu, bounds, history, outside
<1>7. ASSUME AnswerPrompt PROVE TeamSets'
  BY <1>7
  DEF TeamSets, AnswerPrompt, stores, reads, menu, bounds, history, outside
<1>8. CASE UNCHANGED <<following, notifications, overtaken, menuReads,
                       rowReads>>
  BY <1>8 DEF TeamSets
<1> QED
  BY <1>1, <1>2, <1>3, <1>4, <1>5, <1>6, <1>7, <1>8
  DEF Next, vars, stores, reads, menu, bounds, history, outside, MenuLoaded,
      UpdateSubscription, AnswerSettingsRead, RefreshSettings, Switch, Click,
      SwitchTo, SwitchOneDay, SwitchOneDayDenied, ClickBell, AnswerBellRead,
      FetchRequests, RunUpdate

LEMMA NextSelections ==
  ASSUME Selections, [Next]_vars
  PROVE  Selections'
<1>1. ASSUME Quit PROVE Selections'
  BY <1>1, TypesOfTheStores
  DEF Selections, Quit, stores, reads, menu, bounds, history, outside
<1>2. ASSUME NEW t \in Teams, AnswerMenuRead(t) PROVE Selections'
  BY <1>2, TypesOfTheStores
  DEF Selections, AnswerMenuRead, stores, reads, menu, bounds, history, outside
<1>3. ASSUME NEW t \in Teams, SelectAnswer(t) PROVE Selections'
  BY <1>3, TypesOfTheStores
  DEF Selections, SelectAnswer, Select, stores, reads, menu, bounds, history,
      outside
<1>4. ASSUME NEW t \in Teams, ClickTeam(t) PROVE Selections'
  BY <1>4, TypesOfTheStores
  DEF Selections, ClickTeam, Click, Select, UpdateSubscription, stores, reads,
      menu, bounds, history, outside
<1>5. CASE UNCHANGED <<selected, menuAnswers>>
  BY <1>5, TypesOfTheStores DEF Selections
<1> QED
  BY <1>1, <1>2, <1>3, <1>4, <1>5
  DEF Next, vars, stores, reads, menu, bounds, history, outside, Load,
      AnswerRowRead, MenuLoaded, UpdateSubscription, AnswerSettingsRead,
      RefreshSettings, AnswerPrompt, Switch, Click, SwitchTo, SwitchOneDay,
      SwitchOneDayDenied, ClickBell, AnswerBellRead, FetchRequests, RunUpdate

LEMMA NextIntervalSets ==
  ASSUME IntervalSets, Flags, [Next]_vars
  PROVE  IntervalSets'
<1>1. ASSUME Load PROVE IntervalSets'
  BY <1>1, RemindersAssumption
  DEF IntervalSets, Load, stores, reads, menu, bounds, history, outside
<1>2. ASSUME Quit PROVE IntervalSets'
  BY <1>2, RemindersAssumption
  DEF IntervalSets, Quit, stores, reads, menu, bounds, history, outside
<1>3. ASSUME AnswerSettingsRead PROVE IntervalSets'
  BY <1>3, RemindersAssumption
  DEF IntervalSets, AnswerSettingsRead, stores, reads, menu, bounds, history,
      outside
<1>4. ASSUME RefreshSettings PROVE IntervalSets'
  <2>1. PICK on \in SUBSET Intervals : settingsRead = Answered(on)
    BY <1>4 DEF IntervalSets, RefreshSettings, NoRead, Asked
  <2>2. toggles' = on /\ settings' = settings /\ settingsRead' = NoRead
    BY <1>4, <2>1
    DEF RefreshSettings, Answered, stores, reads, menu, bounds, history,
        outside
  <2>3. untold' \subseteq Intervals
    BY <1>4 DEF IntervalSets, RefreshSettings
  <2> QED BY <2>2, <2>3 DEF IntervalSets
<1>5. ASSUME AnswerPrompt PROVE IntervalSets'
  BY <1>5, RemindersAssumption
  DEF IntervalSets, AnswerPrompt, stores, reads, menu, bounds, history, outside
<1>6. ASSUME NEW i \in Intervals, NEW on \in BOOLEAN, Switch(i, on)
      PROVE IntervalSets'
  BY <1>6, RemindersAssumption
  DEF IntervalSets, Switch, Click, SwitchTo, UpdateSubscription, stores, reads,
      menu, bounds, history, outside
<1>7. ASSUME NEW on \in BOOLEAN, SwitchOneDay(on) PROVE IntervalSets'
  BY <1>7, RemindersAssumption
  DEF IntervalSets, SwitchOneDay, Click, SwitchTo, stores, reads, menu, bounds,
      history, outside
<1>8. ASSUME RunUpdate PROVE IntervalSets'
  BY <1>8, RemindersAssumption
  DEF IntervalSets, RunUpdate, stores, reads, menu, bounds, history, outside
<1>9. CASE UNCHANGED <<settings, toggles, untold, settingsRead>>
  BY <1>9, RemindersAssumption DEF IntervalSets
<1> QED
  BY <1>1, <1>2, <1>3, <1>4, <1>5, <1>6, <1>7, <1>8, <1>9
  DEF Next, vars, stores, reads, menu, bounds, history, outside,
      AnswerMenuRead, SelectAnswer, Select, AnswerRowRead, ClickTeam, Click,
      UpdateSubscription, MenuLoaded, SwitchOneDayDenied, ClickBell,
      AnswerBellRead, FetchRequests

LEMMA NextBells ==
  ASSUME Bells, [Next]_vars
  PROVE  Bells'
<1>1. ASSUME Quit PROVE Bells'
  BY <1>1, TypesOfTheStores, RemindersAssumption
  DEF Bells, Quit, stores, reads, menu, bounds, history, outside
<1>2. ASSUME NEW g \in Games, ClickBell(g) PROVE Bells'
  BY <1>2, TypesOfTheStores, RemindersAssumption
  DEF Bells, ClickBell, Click, stores, reads, menu, bounds, history, outside
<1>3. ASSUME NEW g \in Games, AnswerBellRead(g) PROVE Bells'
  BY <1>3, TypesOfTheStores, RemindersAssumption
  DEF Bells, AnswerBellRead, stores, reads, menu, bounds, history, outside
<1>4. CASE UNCHANGED <<bell, bellReads>>
  BY <1>4, TypesOfTheStores, RemindersAssumption DEF Bells
<1> QED
  BY <1>1, <1>2, <1>3, <1>4
  DEF Next, vars, stores, reads, menu, bounds, history, outside, Load,
      AnswerMenuRead, SelectAnswer, Select, AnswerRowRead, ClickTeam, Click,
      UpdateSubscription, MenuLoaded, AnswerSettingsRead, RefreshSettings,
      AnswerPrompt, Switch, SwitchTo, SwitchOneDay, SwitchOneDayDenied,
      FetchRequests, RunUpdate

LEMMA NextUpdates ==
  ASSUME TypeOK, Updates, [Next]_vars
  PROVE  Updates'
<1>1. ASSUME Quit PROVE Updates'
  BY <1>1 DEF Updates, Quit, stores, reads, menu, bounds, history, outside
<1>2. ASSUME NEW t \in Teams, ClickTeam(t) PROVE Updates'
  BY <1>2, TypesOfTheStores
  DEF TypeOK, Update, Updates, ClickTeam, Click, Select, UpdateSubscription,
      stores, reads, menu, bounds, history, outside
<1>3. ASSUME MenuLoaded PROVE Updates'
  BY <1>3, TypesOfTheStores
  DEF TypeOK, Update, Updates, MenuLoaded, UpdateSubscription, stores, reads,
      menu, bounds, history, outside
<1>4. ASSUME NEW i \in Intervals, NEW on \in BOOLEAN, Switch(i, on)
      PROVE Updates'
  BY <1>4, TypesOfTheStores
  DEF TypeOK, Update, Updates, Switch, Click, SwitchTo, UpdateSubscription,
      stores, reads, menu, bounds, history, outside
<1>5. ASSUME SwitchOneDayDenied PROVE Updates'
  BY <1>5, TypesOfTheStores
  DEF TypeOK, Update, Updates, SwitchOneDayDenied, Click, UpdateSubscription,
      stores, reads, menu, bounds, history, outside
<1>6. ASSUME NEW n \in DOMAIN updates, FetchRequests(n) PROVE Updates'
  BY <1>6, RequestsFetched DEF Updates
<1>7. ASSUME RunUpdate PROVE Updates'
  BY <1>7, UpdateTaken DEF Updates
<1>8. CASE UNCHANGED <<updates>>
  BY <1>8 DEF Updates
<1> QED
  BY <1>1, <1>2, <1>3, <1>4, <1>5, <1>6, <1>7, <1>8
  DEF Next, vars, stores, reads, menu, bounds, history, outside, Load,
      AnswerMenuRead, SelectAnswer, Select, AnswerRowRead, AnswerSettingsRead,
      RefreshSettings, AnswerPrompt, SwitchOneDay, Click, SwitchTo, ClickBell,
      AnswerBellRead

LEMMA NextOutside ==
  ASSUME TypeOK, Outside, IntervalSets, Bells, [Next]_vars
  PROVE  Outside'
<1>1. ASSUME NEW g \in Games, ClickBell(g) PROVE Outside'
  BY <1>1
  DEF Outside, ClickBell, Click, stores, reads, menu, bounds, history, outside,
      LocalNotifications, Key, IntervalSets
<1>2. ASSUME NEW g \in Games, AnswerBellRead(g) PROVE Outside'
  BY <1>2
  DEF Outside, AnswerBellRead, stores, reads, menu, bounds, history, outside,
      LocalNotifications, Key, IntervalSets
<1>3. ASSUME RunUpdate PROVE Outside'
  <2>1. localPending' \subseteq Games \X Intervals
    BY <1>3, UpdateTaken, KeysScheduled DEF RunUpdate
  <2>2. tags' \subseteq Teams \X Intervals
    BY <1>3 DEF Outside, IntervalSets, RunUpdate, NewTags
  <2> QED BY <2>1, <2>2 DEF Outside
<1>4. CASE UNCHANGED <<localPending, tags>>
  BY <1>4 DEF Outside
<1> QED
  BY <1>1, <1>2, <1>3, <1>4
  DEF Next, vars, stores, reads, menu, bounds, history, outside, Load, Quit,
      AnswerMenuRead, SelectAnswer, Select, AnswerRowRead, ClickTeam, Click,
      UpdateSubscription, MenuLoaded, AnswerSettingsRead, RefreshSettings,
      AnswerPrompt, Switch, SwitchTo, SwitchOneDay, SwitchOneDayDenied,
      FetchRequests

LEMMA NextCounters ==
  ASSUME Counters, [Next]_vars
  PROVE  Counters'
<1>1. ASSUME Load PROVE Counters'
  BY <1>1, RemindersAssumption
  DEF Counters, Load, stores, reads, menu, bounds, history, outside
<1>2. ASSUME NEW t \in Teams, ClickTeam(t) PROVE Counters'
  BY <1>2, RemindersAssumption
  DEF Counters, ClickTeam, Click, Select, UpdateSubscription, stores, reads,
      menu, bounds, history, outside
<1>3. ASSUME NEW i \in Intervals, NEW on \in BOOLEAN, Switch(i, on)
      PROVE Counters'
  BY <1>3, RemindersAssumption
  DEF Counters, Switch, Click, SwitchTo, UpdateSubscription, stores, reads,
      menu, bounds, history, outside
<1>4. ASSUME NEW on \in BOOLEAN, SwitchOneDay(on) PROVE Counters'
  BY <1>4, RemindersAssumption
  DEF Counters, SwitchOneDay, Click, SwitchTo, stores, reads, menu, bounds,
      history, outside
<1>5. ASSUME SwitchOneDayDenied PROVE Counters'
  BY <1>5, RemindersAssumption
  DEF Counters, SwitchOneDayDenied, Click, UpdateSubscription, stores, reads,
      menu, bounds, history, outside
<1>6. ASSUME NEW g \in Games, ClickBell(g) PROVE Counters'
  BY <1>6, RemindersAssumption
  DEF Counters, ClickBell, Click, stores, reads, menu, bounds, history, outside
<1>7. CASE UNCHANGED <<clicks, launches>>
  BY <1>7, RemindersAssumption DEF Counters
<1> QED
  BY <1>1, <1>2, <1>3, <1>4, <1>5, <1>6, <1>7
  DEF Next, vars, stores, reads, menu, bounds, history, outside, Quit,
      AnswerMenuRead, SelectAnswer, Select, AnswerRowRead, MenuLoaded,
      UpdateSubscription, AnswerSettingsRead, RefreshSettings, AnswerPrompt,
      AnswerBellRead, FetchRequests, RunUpdate

LEMMA NextTypeOK ==
  ASSUME TypeOK, [Next]_vars
  PROVE  TypeOK'
BY NextFlags, NextTeamSets, NextSelections, NextIntervalSets, NextBells,
   NextUpdates, NextOutside, NextCounters
DEF TypeOK, Flags, TeamSets, Selections, IntervalSets, Bells, Updates, Outside,
    Counters

(***************************************************************************)
(* The rest of the invariant, part by part.                                *)
(***************************************************************************)

LEMMA NextEnded ==
  ASSUME Flags, Ended, [Next]_vars
  PROVE  Ended'
<1>1. ASSUME Load PROVE Ended'
  BY <1>1 DEF Flags, Ended, Load, stores, reads, menu, bounds, history, outside
<1>2. ASSUME Quit PROVE Ended'
  BY <1>2 DEF Flags, Ended, Quit, stores, reads, menu, bounds, history, outside
<1>3. ASSUME NEW t \in Teams, AnswerMenuRead(t) PROVE Ended'
  BY <1>3
  DEF Flags, Ended, AnswerMenuRead, stores, reads, menu, bounds, history,
      outside
<1>4. ASSUME NEW t \in Teams, SelectAnswer(t) PROVE Ended'
  BY <1>4
  DEF Flags, Ended, SelectAnswer, Select, stores, reads, menu, bounds, history,
      outside
<1>5. ASSUME NEW t \in Teams, AnswerRowRead(t) PROVE Ended'
  BY <1>5
  DEF Flags, Ended, AnswerRowRead, stores, reads, menu, bounds, history,
      outside
<1>6. ASSUME NEW t \in Teams, ClickTeam(t) PROVE Ended'
  BY <1>6
  DEF Flags, Ended, ClickTeam, Click, Select, UpdateSubscription, stores,
      reads, menu, bounds, history, outside
<1>7. ASSUME MenuLoaded PROVE Ended'
  BY <1>7
  DEF Flags, Ended, MenuLoaded, UpdateSubscription, stores, reads, menu,
      bounds, history, outside
<1>8. ASSUME NEW i \in Intervals, NEW on \in BOOLEAN, Switch(i, on)
      PROVE Ended'
  BY <1>8
  DEF Flags, Ended, Switch, Click, SwitchTo, UpdateSubscription, stores, reads,
      menu, bounds, history, outside
<1>9. ASSUME SwitchOneDayDenied PROVE Ended'
  BY <1>9
  DEF Flags, Ended, SwitchOneDayDenied, Click, UpdateSubscription, stores,
      reads, menu, bounds, history, outside
<1>10. ASSUME NEW g \in Games, ClickBell(g) PROVE Ended'
  BY <1>10
  DEF Flags, Ended, ClickBell, Click, stores, reads, menu, bounds, history,
      outside
<1>11. ASSUME NEW g \in Games, AnswerBellRead(g) PROVE Ended'
  BY <1>11
  DEF Flags, Ended, AnswerBellRead, stores, reads, menu, bounds, history,
      outside
<1>12. ASSUME NEW n \in DOMAIN updates, FetchRequests(n) PROVE Ended'
  BY <1>12
  DEF Flags, Ended, FetchRequests, stores, reads, menu, bounds, history,
      outside
<1>13. ASSUME RunUpdate PROVE Ended'
  BY <1>13
  DEF Flags, Ended, RunUpdate, stores, reads, menu, bounds, history, outside
<1>14. CASE UNCHANGED <<running, menuReads, rowReads, bellReads, updates,
                        menuLoaded, menuAnswers>>
  BY <1>14 DEF Flags, Ended
<1> QED
  BY <1>1, <1>2, <1>3, <1>4, <1>5, <1>6, <1>7, <1>8, <1>9, <1>10, <1>11, <1>12,
      <1>13, <1>14
  DEF Next, vars, stores, reads, menu, bounds, history, outside,
      AnswerSettingsRead, RefreshSettings, AnswerPrompt, SwitchOneDay, Click,
      SwitchTo

LEMMA NextReadsAreGrouped ==
  ASSUME Flags, Selections, Ended, ReadsAreGrouped, [Next]_vars
  PROVE  ReadsAreGrouped'
<1>1. ASSUME Load PROVE ReadsAreGrouped'
  BY <1>1, TypesOfTheStores
  DEF Flags, Selections, Ended, ReadsAreGrouped, IsRead, Bool, Unknown, Yes,
      No, Load, stores, reads, menu, bounds, history, outside
<1>2. ASSUME Quit PROVE ReadsAreGrouped'
  BY <1>2, TypesOfTheStores
  DEF Flags, Selections, Ended, ReadsAreGrouped, IsRead, Bool, Unknown, Yes,
      No, Quit, stores, reads, menu, bounds, history, outside
<1>3. ASSUME NEW t \in Teams, AnswerMenuRead(t) PROVE ReadsAreGrouped'
  BY <1>3, TypesOfTheStores
  DEF Flags, Selections, Ended, ReadsAreGrouped, IsRead, Bool, Unknown, Yes,
      No, AnswerMenuRead, stores, reads, menu, bounds, history, outside
<1>4. ASSUME NEW t \in Teams, SelectAnswer(t) PROVE ReadsAreGrouped'
  BY <1>4, TypesOfTheStores
  DEF Flags, Selections, Ended, ReadsAreGrouped, IsRead, Bool, Unknown, Yes,
      No, SelectAnswer, Select, stores, reads, menu, bounds, history, outside
<1>5. ASSUME NEW t \in Teams, ClickTeam(t) PROVE ReadsAreGrouped'
  BY <1>5, TypesOfTheStores
  DEF Flags, Selections, Ended, ReadsAreGrouped, IsRead, Bool, Unknown, Yes,
      No, ClickTeam, Click, Select, UpdateSubscription, stores, reads, menu,
      bounds, history, outside
<1>6. ASSUME MenuLoaded PROVE ReadsAreGrouped'
  BY <1>6, TypesOfTheStores
  DEF Flags, Selections, Ended, ReadsAreGrouped, IsRead, Bool, Unknown, Yes,
      No, MenuLoaded, UpdateSubscription, stores, reads, menu, bounds, history,
      outside
<1>7. CASE UNCHANGED <<running, menuReads, menuAnswers, menuLoaded, selected>>
  BY <1>7, TypesOfTheStores
  DEF Flags, Selections, Ended, ReadsAreGrouped, IsRead, Bool, Unknown, Yes, No
<1> QED
  BY <1>1, <1>2, <1>3, <1>4, <1>5, <1>6, <1>7
  DEF Next, vars, stores, reads, menu, bounds, history, outside, AnswerRowRead,
      AnswerSettingsRead, RefreshSettings, AnswerPrompt, Switch, Click,
      SwitchTo, UpdateSubscription, SwitchOneDay, SwitchOneDayDenied,
      ClickBell, AnswerBellRead, FetchRequests, RunUpdate

LEMMA NextAgreement ==
  ASSUME Flags, Selections, TeamSets, Ended, Agreement, [Next]_vars
  PROVE  Agreement'
<1>1. ASSUME Load PROVE Agreement'
  BY <1>1
  DEF Flags, Selections, TeamSets, Ended, Agreement, IsRead, Bool, Unknown,
      Yes, No, Load, stores, reads, menu, bounds, history, outside
<1>2. ASSUME Quit PROVE Agreement'
  BY <1>2
  DEF Flags, Selections, TeamSets, Ended, Agreement, IsRead, Bool, Unknown,
      Yes, No, Quit, stores, reads, menu, bounds, history, outside
<1>3. ASSUME NEW t \in Teams, AnswerMenuRead(t) PROVE Agreement'
  BY <1>3
  DEF Flags, Selections, TeamSets, Ended, Agreement, IsRead, Bool, Unknown,
      Yes, No, AnswerMenuRead, stores, reads, menu, bounds, history, outside
<1>4. ASSUME NEW t \in Teams, SelectAnswer(t) PROVE Agreement'
  BY <1>4
  DEF Flags, Selections, TeamSets, Ended, Agreement, IsRead, Bool, Unknown,
      Yes, No, SelectAnswer, Select, stores, reads, menu, bounds, history,
      outside
<1>5. ASSUME NEW t \in Teams, AnswerRowRead(t) PROVE Agreement'
  BY <1>5
  DEF Flags, Selections, TeamSets, Ended, Agreement, IsRead, Bool, Unknown,
      Yes, No, AnswerRowRead, stores, reads, menu, bounds, history, outside
<1>6. ASSUME NEW t \in Teams, ClickTeam(t) PROVE Agreement'
  BY <1>6
  DEF Flags, Selections, TeamSets, Ended, Agreement, IsRead, Bool, Unknown,
      Yes, No, ClickTeam, Click, Select, UpdateSubscription, stores, reads,
      menu, bounds, history, outside
<1>7. ASSUME AnswerPrompt PROVE Agreement'
  BY <1>7
  DEF Flags, Selections, TeamSets, Ended, Agreement, IsRead, Bool, Unknown,
      Yes, No, AnswerPrompt, stores, reads, menu, bounds, history, outside
<1>8. CASE UNCHANGED <<running, menuReads, menuAnswers, selected, following,
                       notifications, overtaken>>
  BY <1>8
  DEF Flags, Selections, TeamSets, Ended, Agreement, IsRead, Bool, Unknown,
      Yes, No
<1> QED
  BY <1>1, <1>2, <1>3, <1>4, <1>5, <1>6, <1>7, <1>8
  DEF Next, vars, stores, reads, menu, bounds, history, outside, MenuLoaded,
      UpdateSubscription, AnswerSettingsRead, RefreshSettings, Switch, Click,
      SwitchTo, SwitchOneDay, SwitchOneDayDenied, ClickBell, AnswerBellRead,
      FetchRequests, RunUpdate

LEMMA NextLastUpdate ==
  ASSUME TypeOK, ReadsAreGrouped, LastUpdateIsCurrent, [Next]_vars
  PROVE  LastUpdateIsCurrent'
<1>1. ASSUME Quit PROVE LastUpdateIsCurrent'
  BY <1>1
  DEF LastUpdateIsCurrent, Quit, stores, reads, menu, bounds, history, outside
<1>2. ASSUME NEW t \in Teams, SelectAnswer(t) PROVE LastUpdateIsCurrent'
  BY <1>2
  DEF ReadsAreGrouped, LastUpdateIsCurrent, SelectAnswer, Select, stores,
      reads, menu, bounds, history, outside
<1>3. ASSUME NEW t \in Teams, ClickTeam(t) PROVE LastUpdateIsCurrent'
  <2>1. UpdateSubscription(selected') /\ selected' \in [Teams -> Maybe]
    BY <1>3, NextTypeOK
    DEF TypeOK, ClickTeam, Click, Select, stores, reads, menu, bounds, history,
        outside
  <2> QED BY <2>1, UpdateAppended DEF TypeOK, LastUpdateIsCurrent
<1>4. ASSUME MenuLoaded PROVE LastUpdateIsCurrent'
  <2>1. UpdateSubscription(selected) /\ selected \in [Teams -> Maybe]
          /\ selected' = selected
    BY <1>4, NextTypeOK
    DEF TypeOK, MenuLoaded, stores, reads, menu, bounds, history, outside
  <2> QED BY <2>1, UpdateAppended DEF TypeOK, LastUpdateIsCurrent
<1>5. ASSUME NEW i \in Intervals, NEW on \in BOOLEAN, Switch(i, on)
      PROVE LastUpdateIsCurrent'
  <2>1. UpdateSubscription(selected) /\ selected \in [Teams -> Maybe]
          /\ selected' = selected
    BY <1>5, NextTypeOK
    DEF TypeOK, Switch, Click, SwitchTo, stores, reads, menu, bounds, history,
        outside
  <2> QED BY <2>1, UpdateAppended DEF TypeOK, LastUpdateIsCurrent
<1>6. ASSUME SwitchOneDayDenied PROVE LastUpdateIsCurrent'
  <2>1. UpdateSubscription(selected) /\ selected \in [Teams -> Maybe]
          /\ selected' = selected
    BY <1>6, NextTypeOK
    DEF TypeOK, SwitchOneDayDenied, Click, stores, reads, menu, bounds,
        history, outside
  <2> QED BY <2>1, UpdateAppended DEF TypeOK, LastUpdateIsCurrent
<1>7. ASSUME NEW n \in DOMAIN updates, FetchRequests(n)
      PROVE LastUpdateIsCurrent'
  <2>1. selected' = selected /\ menuLoaded' = menuLoaded
    BY <1>7 DEF FetchRequests, stores, reads, menu, bounds, history, outside
  <2>2. /\ updates # <<>> /\ Len(updates') = Len(updates)
        /\ Len(updates) \in DOMAIN updates
        /\ \A m \in DOMAIN updates : updates'[m].selected = updates[m].selected
    BY <1>7, RequestsFetched DEF TypeOK
  <2> QED BY <2>1, <2>2 DEF LastUpdateIsCurrent
<1>8. ASSUME RunUpdate PROVE LastUpdateIsCurrent'
  <2>1. selected' = selected /\ menuLoaded' = menuLoaded
    BY <1>8 DEF RunUpdate, stores, reads, menu, bounds, history, outside
  <2>2. updates' # <<>> => updates'[Len(updates')] = updates[Len(updates)]
    BY <1>8 DEF TypeOK, RunUpdate
  <2>3. updates # <<>>
    BY <1>8 DEF RunUpdate
  <2> QED BY <2>1, <2>2, <2>3 DEF LastUpdateIsCurrent
<1>9. CASE UNCHANGED <<menuLoaded, updates, selected>>
  BY <1>9 DEF LastUpdateIsCurrent
<1> QED
  BY <1>1, <1>2, <1>3, <1>4, <1>5, <1>6, <1>7, <1>8, <1>9
  DEF Next, vars, stores, reads, menu, bounds, history, outside, Load,
      AnswerMenuRead, AnswerRowRead, AnswerSettingsRead, RefreshSettings,
      AnswerPrompt, SwitchOneDay, Click, SwitchTo, ClickBell, AnswerBellRead

LEMMA NextTags ==
  ASSUME TypeOK, Ended, ReadsAreGrouped, LastUpdateIsCurrent, TagsAreCurrent,
         [Next]_vars
  PROVE  TagsAreCurrent'
<1>1. ASSUME Quit PROVE TagsAreCurrent'
  BY <1>1
  DEF TagsAreCurrent, TypeOK, Quit, stores, reads, menu, bounds, history,
      outside
<1>2. ASSUME NEW t \in Teams, SelectAnswer(t) PROVE TagsAreCurrent'
  BY <1>2
  DEF ReadsAreGrouped, TagsAreCurrent, SelectAnswer, Select, stores, reads,
      menu, bounds, history, outside
<1>3. ASSUME NEW t \in Teams, ClickTeam(t) PROVE TagsAreCurrent'
  <2>1. updates' # <<>>
    BY <1>3, UpdateAppended, NextTypeOK
    DEF TypeOK, UpdateSubscription, ClickTeam, Click, Select,
        UpdateSubscription, stores, reads, menu, bounds, history, outside
  <2> QED BY <2>1 DEF TagsAreCurrent
<1>4. ASSUME MenuLoaded PROVE TagsAreCurrent'
  <2>1. updates' # <<>>
    BY <1>4, UpdateAppended, NextTypeOK
    DEF TypeOK, UpdateSubscription, MenuLoaded, UpdateSubscription, stores,
        reads, menu, bounds, history, outside
  <2> QED BY <2>1 DEF TagsAreCurrent
<1>5. ASSUME RefreshSettings PROVE TagsAreCurrent'
  BY <1>5
  DEF TagsAreCurrent, TypeOK, RefreshSettings, stores, reads, menu, bounds,
      history, outside
<1>6. ASSUME NEW i \in Intervals, NEW on \in BOOLEAN, Switch(i, on)
      PROVE TagsAreCurrent'
  <2>1. updates' # <<>>
    BY <1>6, UpdateAppended, NextTypeOK
    DEF TypeOK, UpdateSubscription, Switch, Click, SwitchTo,
        UpdateSubscription, stores, reads, menu, bounds, history, outside
  <2> QED BY <2>1 DEF TagsAreCurrent
<1>7. ASSUME NEW on \in BOOLEAN, SwitchOneDay(on) PROVE TagsAreCurrent'
  BY <1>7
  DEF TagsAreCurrent, TypeOK, SwitchOneDay, Click, SwitchTo, stores, reads,
      menu, bounds, history, outside
<1>8. ASSUME SwitchOneDayDenied PROVE TagsAreCurrent'
  <2>1. updates' # <<>>
    BY <1>8, UpdateAppended, NextTypeOK
    DEF TypeOK, UpdateSubscription, SwitchOneDayDenied, Click,
        UpdateSubscription, stores, reads, menu, bounds, history, outside
  <2> QED BY <2>1 DEF TagsAreCurrent
<1>9. ASSUME NEW n \in DOMAIN updates, FetchRequests(n) PROVE TagsAreCurrent'
  BY <1>9, RequestsFetched DEF TagsAreCurrent
<1>10. ASSUME RunUpdate PROVE TagsAreCurrent'
  <2> SUFFICES ASSUME menuLoaded', updates' = <<>>,
                      NEW t \in Teams, NEW i \in Intervals
               PROVE  <<t, i>> \in tags'
                        <=> (selected'[t] = Yes /\ i \in toggles')
    BY DEF TagsAreCurrent
  <2>1. menuLoaded /\ selected' = selected /\ toggles' = toggles
    BY <1>10 DEF RunUpdate, stores, reads, menu, bounds, history, outside
  <2>2. Head(updates) = updates[Len(updates)] /\ updates # <<>>
    BY <1>10, LastTaken
  <2>3. Head(updates).selected = selected
    BY <2>1, <2>2 DEF LastUpdateIsCurrent
  <2>4. selected[t] # Unknown
    BY <2>1 DEF ReadsAreGrouped, Ended, IsRead
  <2>5. tags' = {k \in tags : selected[k[1]] = Unknown}
                   \cup ({u \in Teams : selected[u] = Yes} \X toggles)
    BY <1>10, <2>3 DEF RunUpdate, NewTags
  <2> QED BY <2>1, <2>4, <2>5
<1>11. CASE UNCHANGED <<menuLoaded, updates, selected, toggles, tags, untold>>
  BY <1>11 DEF TagsAreCurrent, TypeOK
<1> QED
  BY <1>1, <1>2, <1>3, <1>4, <1>5, <1>6, <1>7, <1>8, <1>9, <1>10, <1>11
  DEF Next, vars, stores, reads, menu, bounds, history, outside, Load,
      AnswerMenuRead, AnswerRowRead, AnswerSettingsRead, AnswerPrompt,
      ClickBell, Click, AnswerBellRead

LEMMA NextBellsScheduled ==
  ASSUME TypeOK, Ended, ReadsAreGrouped, Agreement, LastUpdateIsCurrent,
         BellsAreCurrent, [Next]_vars
  PROVE  BellsAreCurrent'
<1>1. ASSUME Quit PROVE BellsAreCurrent'
  BY <1>1
  DEF BellsAreCurrent, TypeOK, NamesOneTeam, Quit, stores, reads, menu, bounds,
      history, outside
<1>2. ASSUME NEW t \in Teams, ClickTeam(t) PROVE BellsAreCurrent'
  <2>1. updates' # <<>>
    BY <1>2, UpdateAppended, NextTypeOK
    DEF TypeOK, UpdateSubscription, ClickTeam, Click, Select,
        UpdateSubscription, stores, reads, menu, bounds, history, outside
  <2> QED BY <2>1 DEF BellsAreCurrent
<1>3. ASSUME MenuLoaded PROVE BellsAreCurrent'
  <2>1. updates' # <<>>
    BY <1>3, UpdateAppended, NextTypeOK
    DEF TypeOK, UpdateSubscription, MenuLoaded, UpdateSubscription, stores,
        reads, menu, bounds, history, outside
  <2> QED BY <2>1 DEF BellsAreCurrent
<1>4. ASSUME RefreshSettings PROVE BellsAreCurrent'
  <2>1. toggles' \ untold' \subseteq toggles \ untold
    BY <1>4, NextTypeOK DEF TypeOK, RefreshSettings
  <2>2. /\ menuLoaded' = menuLoaded /\ updates' = updates /\ bell' = bell
        /\ bellReads' = bellReads /\ following' = following
        /\ overtaken' = overtaken /\ localPending' = localPending
    BY <1>4 DEF RefreshSettings, stores, reads, menu, bounds, history, outside
  <2> QED BY <2>1, <2>2 DEF BellsAreCurrent, NamesOneTeam
<1>5. ASSUME AnswerPrompt PROVE BellsAreCurrent'
  BY <1>5
  DEF BellsAreCurrent, TypeOK, NamesOneTeam, AnswerPrompt, stores, reads, menu,
      bounds, history, outside
<1>6. ASSUME NEW i \in Intervals, NEW on \in BOOLEAN, Switch(i, on)
      PROVE BellsAreCurrent'
  <2>1. updates' # <<>>
    BY <1>6, UpdateAppended, NextTypeOK
    DEF TypeOK, UpdateSubscription, Switch, Click, SwitchTo,
        UpdateSubscription, stores, reads, menu, bounds, history, outside
  <2> QED BY <2>1 DEF BellsAreCurrent
<1>7. ASSUME NEW on \in BOOLEAN, SwitchOneDay(on) PROVE BellsAreCurrent'
  BY <1>7
  DEF BellsAreCurrent, TypeOK, NamesOneTeam, SwitchOneDay, Click, SwitchTo,
      stores, reads, menu, bounds, history, outside
<1>8. ASSUME SwitchOneDayDenied PROVE BellsAreCurrent'
  <2>1. updates' # <<>>
    BY <1>8, UpdateAppended, NextTypeOK
    DEF TypeOK, UpdateSubscription, SwitchOneDayDenied, Click,
        UpdateSubscription, stores, reads, menu, bounds, history, outside
  <2> QED BY <2>1 DEF BellsAreCurrent
<1>9. ASSUME NEW g \in Games, ClickBell(g) PROVE BellsAreCurrent'
  <2>1. /\ menuLoaded' = menuLoaded /\ updates' = updates /\ untold' = untold
        /\ toggles' = toggles /\ following' = following
        /\ overtaken' = overtaken
    BY <1>9 DEF ClickBell, Click, stores, reads, menu, bounds, history, outside
  <2>2. \A h \in Games \ {g} : bell'[h] = bell[h]
          /\ (h \in bellReads <=> h \in bellReads')
    BY <1>9
    DEF TypeOK, ClickBell, Click, stores, reads, menu, bounds, history, outside
  <2>3. \A h \in Games, i \in Intervals : Key(h, i) \in localPending
          => Key(h, i) \in localPending'
    BY <1>9, RemindersAssumption
    DEF CancelledByBell, Key, ClickBell, Click, stores, reads, menu, bounds,
        history, outside
  <2>4. g \in bellReads' \/ bell'[g] # Yes
    BY <1>9
    DEF TypeOK, Bool, Yes, No, ClickBell, Click, stores, reads, menu, bounds,
        history, outside
  <2> QED BY <2>1, <2>2, <2>3, <2>4 DEF BellsAreCurrent, TypeOK, NamesOneTeam
<1>10. ASSUME NEW g \in Games, AnswerBellRead(g) PROVE BellsAreCurrent'
  <2>1. /\ menuLoaded' = menuLoaded /\ updates' = updates /\ untold' = untold
        /\ toggles' = toggles /\ following' = following
        /\ overtaken' = overtaken
        /\ bell' = bell /\ bellReads' = bellReads \ {g}
    BY <1>10 DEF AnswerBellRead, stores, reads, menu, bounds, history, outside
  <2>2. localPending \subseteq localPending'
    BY <1>10 DEF AnswerBellRead
  <2>3. Team[g] \notin following
          => \A i \in toggles : Key(g, i) \in localPending'
    BY <1>10 DEF AnswerBellRead, LocalNotifications
  <2> QED BY <2>1, <2>2, <2>3 DEF BellsAreCurrent, NamesOneTeam
<1>11. ASSUME NEW n \in DOMAIN updates, FetchRequests(n) PROVE BellsAreCurrent'
  BY <1>11, RequestsFetched DEF BellsAreCurrent
<1>12. ASSUME RunUpdate PROVE BellsAreCurrent'
  <2> SUFFICES ASSUME menuLoaded', updates' = <<>>,
                      NEW g \in Games, NEW i \in toggles',
                      bell'[g] = Yes, NamesOneTeam(g),
                      Team[g] \notin following' \cup overtaken'
               PROVE  Key(g, i) \in localPending'
    BY DEF BellsAreCurrent
  <2>1. /\ menuLoaded /\ selected' = selected /\ toggles' = toggles
        /\ bell' = bell /\ following' = following /\ overtaken' = overtaken
    BY <1>12 DEF RunUpdate, stores, reads, menu, bounds, history, outside
  <2>2. Head(updates) = updates[Len(updates)] /\ updates # <<>>
    BY <1>12, LastTaken
  <2>3. Head(updates).selected = selected
    BY <2>1, <2>2 DEF LastUpdateIsCurrent
  <2>4. Team[g] \in Teams
    BY RemindersAssumption
  <2>5. selected[Team[g]] = No
    BY <2>1, <2>4 DEF Agreement, ReadsAreGrouped, Ended, IsRead, TypeOK, Maybe
  <2>6. PICK rank \in Orders : localPending' = Rescheduled(Head(updates), rank)
    BY <1>12 DEF RunUpdate
  <2>7. Key(g, i) \in ScheduledAgain(Head(updates))
    BY <2>1, <2>3, <2>5 DEF ScheduledAgain, LocalNotifications
  <2>8. ASSUME NEW t \in Teams, Key(g, i) \in Cancelled(Head(updates), t)
        PROVE  t = Team[g]
    BY <2>8 DEF Cancelled, Key, NamesOneTeam
  <2>9. ASSUME NEW t \in Teams, rank[t] > rank[Team[g]]
        PROVE  Key(g, i) \notin Cancelled(Head(updates), t)
    <3>1. rank[Team[g]] \in Nat
      BY <2>4 DEF Orders
    <3>2. t # Team[g]
      BY <2>9, <3>1
    <3> QED BY <2>8, <3>2
  <2> QED
    BY <2>6, <2>7, <2>9 DEF Rescheduled, Told, Key
<1>13. CASE UNCHANGED <<menuLoaded, updates, toggles, untold, bellReads, bell,
                        following, overtaken, localPending>>
  BY <1>13 DEF BellsAreCurrent, TypeOK, NamesOneTeam
<1> QED
  BY <1>1, <1>2, <1>3, <1>4, <1>5, <1>6, <1>7, <1>8, <1>9, <1>10, <1>11, <1>12,
      <1>13
  DEF Next, vars, stores, reads, menu, bounds, history, outside, Load,
      AnswerMenuRead, SelectAnswer, Select, AnswerRowRead, AnswerSettingsRead

LEMMA NextWaitingBells ==
  ASSUME TypeOK, WaitingBellsAreClicked, [Next]_vars
  PROVE  WaitingBellsAreClicked'
<1>1. ASSUME Quit PROVE WaitingBellsAreClicked'
  BY <1>1
  DEF TypeOK, WaitingBellsAreClicked, Bool, Unknown, Yes, No, Quit, stores,
      reads, menu, bounds, history, outside
<1>2. ASSUME NEW g \in Games, ClickBell(g) PROVE WaitingBellsAreClicked'
  BY <1>2
  DEF TypeOK, WaitingBellsAreClicked, Bool, Unknown, Yes, No, ClickBell, Click,
      stores, reads, menu, bounds, history, outside
<1>3. ASSUME NEW g \in Games, AnswerBellRead(g) PROVE WaitingBellsAreClicked'
  BY <1>3
  DEF TypeOK, WaitingBellsAreClicked, Bool, Unknown, Yes, No, AnswerBellRead,
      stores, reads, menu, bounds, history, outside
<1>4. CASE UNCHANGED <<bell, bellReads>>
  BY <1>4 DEF TypeOK, WaitingBellsAreClicked, Bool, Unknown, Yes, No
<1> QED
  BY <1>1, <1>2, <1>3, <1>4
  DEF Next, vars, stores, reads, menu, bounds, history, outside, Load,
      AnswerMenuRead, SelectAnswer, Select, AnswerRowRead, ClickTeam, Click,
      UpdateSubscription, MenuLoaded, AnswerSettingsRead, RefreshSettings,
      AnswerPrompt, Switch, SwitchTo, SwitchOneDay, SwitchOneDayDenied,
      FetchRequests, RunUpdate

LEMMA NextLocal ==
  ASSUME TypeOK, WaitingBellsAreClicked, LocalOnlyForClickedBells, [Next]_vars
  PROVE  LocalOnlyForClickedBells'
<1>1. ASSUME NEW g \in Games, ClickBell(g) PROVE LocalOnlyForClickedBells'
  BY <1>1
  DEF TypeOK, LocalOnlyForClickedBells, Bool, Unknown, Yes, No, ClickBell,
      Click, stores, reads, menu, bounds, history, outside
<1>2. ASSUME NEW g \in Games, AnswerBellRead(g) PROVE LocalOnlyForClickedBells'
  <2>1. bell' = bell /\ bell[g] # Unknown
    BY <1>2
    DEF WaitingBellsAreClicked, AnswerBellRead, stores, reads, menu, bounds,
        history, outside
  <2>2. \A h \in Games, j \in Intervals :
          Key(h, j) \in localPending' => Key(h, j) \in localPending \/ h = g
    BY <1>2 DEF LocalNotifications, Key, AnswerBellRead
  <2> QED BY <2>1, <2>2 DEF LocalOnlyForClickedBells
<1>3. ASSUME RunUpdate PROVE LocalOnlyForClickedBells'
  <2>1. PICK rank \in Orders : localPending' = Rescheduled(Head(updates), rank)
    BY <1>3 DEF RunUpdate
  <2>2. \A k \in ScheduledAgain(Head(updates)) :
          \E h \in Games, j \in toggles : k = Key(h, j) /\ bell[h] = Yes
    BY DEF ScheduledAgain, LocalNotifications
  <2>3. \A h \in Games, j \in Intervals :
          Key(h, j) \in ScheduledAgain(Head(updates)) => bell[h] = Yes
    BY <2>2 DEF Key
  <2>4. bell' = bell
    BY <1>3 DEF RunUpdate, stores, reads, menu, bounds, history, outside
  <2> QED
    BY <2>1, <2>3, <2>4
    DEF Rescheduled, LocalOnlyForClickedBells, Yes, Unknown
<1>4. CASE UNCHANGED <<bell, localPending>>
  BY <1>4 DEF TypeOK, LocalOnlyForClickedBells, Bool, Unknown, Yes, No
<1> QED
  BY <1>1, <1>2, <1>3, <1>4
  DEF Next, vars, stores, reads, menu, bounds, history, outside, Load, Quit,
      AnswerMenuRead, SelectAnswer, Select, AnswerRowRead, ClickTeam, Click,
      UpdateSubscription, MenuLoaded, AnswerSettingsRead, RefreshSettings,
      AnswerPrompt, Switch, SwitchTo, SwitchOneDay, SwitchOneDayDenied,
      FetchRequests

LEMMA NextIInv ==
  ASSUME IInv, [Next]_vars
  PROVE  IInv'
<1>1. Flags /\ Selections /\ TeamSets
  BY DEF IInv, TypeOK, Flags, Selections, TeamSets
<1> QED
  BY <1>1, NextTypeOK, NextEnded, NextReadsAreGrouped, NextAgreement,
     NextLastUpdate, NextTags, NextBellsScheduled, NextWaitingBells, NextLocal
  DEF IInv

(***************************************************************************)
(* The theorems.                                                           *)
(***************************************************************************)

LEMMA Invariant == Spec => []IInv
<1>1. IInv /\ [Next]_vars => IInv'
  BY NextIInv
<1> QED BY InitIInv, <1>1, PTL DEF Spec

\* Every variable has its type; what is scheduled on the phone is named after a
\* game and an interval.
THEOREM TypeCorrect == Spec => []TypeOK
<1>1. IInv => TypeOK
  BY DEF IInv
<1> QED BY Invariant, <1>1, PTL

\* Once all is quiet the menu, Core Data and Firebase agree on every team no
\* click of which overtook an answer.
THEOREM FollowingAlwaysAgrees == Spec => []FollowingAgrees
<1>1. IInv => FollowingAgrees
  BY
  DEF IInv, Ended, ReadsAreGrouped, Agreement, IsRead, Quiet, FollowingAgrees
<1> QED BY Invariant, <1>1, PTL

\* Once all is quiet OneSignal has the tags of the menu, but for the intervals
\* it was not told of.
THEOREM TagsAlwaysMatch == Spec => []TagsMatchMenu
<1>1. IInv => TagsMatchMenu
  BY DEF IInv, TagsAreCurrent, Quiet, TagsMatchMenu
<1> QED BY Invariant, <1>1, PTL

\* Nothing is ever scheduled on the phone for a game whose bell was not
\* clicked.
THEOREM LocalAlwaysClicked == Spec => []LocalOnlyForClickedBells
<1>1. IInv => LocalOnlyForClickedBells
  BY DEF IInv
<1> QED BY Invariant, <1>1, PTL

\* Once all is quiet a game whose bell is on, whose team is not followed and
\* whose title names no other team is scheduled at every interval OneSignal was
\* told of, in whatever order the updates enumerate the teams.
THEOREM BellsAlwaysScheduled == Spec => []BellsAreScheduled
<1>1. IInv => BellsAreScheduled
  BY DEF IInv, BellsAreCurrent, Quiet, BellsAreScheduled
<1> QED BY Invariant, <1>1, PTL
==============================================================================
