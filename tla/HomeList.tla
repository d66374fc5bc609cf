------------------------------ MODULE HomeList ------------------------------
(***************************************************************************)
(* From the local database to the table: LoadingVC.finishLoading sorts the  *)
(* stored games with SoccerGame.order, removes the old ones and groups them *)
(* by team; HomeVC.setupTeamPicker adds placeholders to the empty lists,    *)
(* storing them as games, and sees to a row for every team of the picker.   *)
(*                                                                         *)
(* Time is the Unix time.  Firebase's side of the prune is in GameCatalog.  *)
(***************************************************************************)
EXTENDS Filtering, SequencesExt, FiniteSets

CONSTANTS
  PickerTeams,  \* the teams of the picker, in its order
  AllTeams,     \* its entry for all of them
  Always,       \* teams that stay in the picker without a game: MNT, WNT
  Games,        \* games a sync may store
  Team,         \* Team[g]: usTeam of g
  Kickoff,      \* Kickoff[g]: its timestamp
  NoTimestamp,  \* it has none
  TwoDays,      \* age at which a game is removed
  FirstTime,    \* the time at the start
  LastTime,     \* bound: the last time
  MaxLaunches   \* bound: launches

ValidTeams == Range(PickerTeams)

\* The past is shorter than what lies behind it: this is what order() needs
\* of the Unix time.
ASSUME HomeListAssumption ==
  /\ PickerTeams \in Seq(ValidTeams) /\ IsFiniteSet(Games) /\ DOMAIN Team = Games
  /\ AllTeams \in ValidTeams /\ Always \subseteq ValidTeams \ {AllTeams}
  /\ AllTeams \notin Range(Team)
  /\ FirstTime \in Nat /\ TwoDays \in Nat /\ LastTime \in Nat
  /\ \A g \in Games : Kickoff[g] = NoTimestamp
                        \/ Kickoff[g] \in FirstTime - TwoDays .. LastTime
  /\ LastTime < 2 * (FirstTime - TwoDays)

\* The game HomeVC puts into an empty list of team t.
Placeholder(t) == IF t = AllTeams THEN "Internet Access Required!"
                                  ELSE "No Upcoming Games"
Placeholders == {Placeholder(t) : t \in ValidTeams}

ASSUME PlaceholdersAssumption == Games \cap Placeholders = {}

VARIABLES
  screen,       \* off, loading, sorted (the segue is due) or home
  now,
  rows,         \* the games of the local database
  padding,      \* its placeholders: how many of each
  teamRows,     \* the teams of the local database
  sortedGames,  \* the list of each team
  picker,       \* pickerTeamsArray
  filterValue,
  sortedAt,     \* when the games were sorted
  launches      \* launches so far

homeVars == <<screen, now, rows, padding, teamRows, sortedGames, picker,
          filterValue, sortedAt, launches>>

NoLists == [t \in ValidTeams |-> <<>>]

HomeInit ==
  /\ screen = "off"
  /\ now = FirstTime
  /\ rows = {}
  /\ padding = [p \in Placeholders |-> 0]
  /\ teamRows = {}
  /\ sortedGames = NoLists
  /\ picker = PickerTeams
  /\ filterValue = AllTeams
  /\ sortedAt = FirstTime
  /\ launches = 0

(***************************************************************************)
(* SoccerGame.                                                             *)
(***************************************************************************)

\* MUTANT of Order: the past is not moved.
OrderPlain(g) == IF Kickoff[g] = NoTimestamp THEN 0 ELSE Kickoff[g]

\* order(): the timestamp, doubled if it is in the past.
Order(g) ==
  IF g \in Placeholders \/ Kickoff[g] = NoTimestamp THEN 0
  ELSE IF Kickoff[g] < now THEN 2 * Kickoff[g]
  ELSE Kickoff[g]

(***************************************************************************)
(* A launch.                                                               *)
(***************************************************************************)

StartLoading ==
  /\ screen = "off"
  /\ launches < MaxLaunches
  /\ launches' = launches + 1
  /\ screen' = "loading"
  /\ sortedGames' = NoLists
  /\ picker' = PickerTeams
  /\ UNCHANGED <<now, rows, padding, teamRows, filterValue, sortedAt>>

\* A sync stores a game, at any time of the launch.
Sync(g) ==
  /\ screen # "off"
  /\ g \notin rows
  /\ rows' = rows \cup {g}
  /\ UNCHANGED <<screen, now, padding, teamRows, sortedGames, picker,
                 filterValue, sortedAt, launches>>

TooOld(g) == Kickoff[g] # NoTimestamp /\ Kickoff[g] < now - TwoDays

\* The stored games that are removed.
Obsolete == {g \in rows : TooOld(g) \/ Team[g] \notin ValidTeams}

\* MUTANT of Shown: the placeholders of earlier launches are kept.
ShownWithPlaceholders == (rows \ Obsolete) \cup {p \in Placeholders : padding[p] > 0}

\* What is left to show: neither these nor the placeholders of earlier
\* launches, which stay in the database.
Shown == rows \ Obsolete

\* The orders the sort may leave the games in.
Sorted(S) ==
  {s \in SetToSeqs(S) :
     \A i, j \in DOMAIN s : i < j => Order(s[i]) <= Order(s[j])}

\* MUTANT of PickerTeamsWithGames: the teams of the games are not inserted.
PickerTeamsFixed ==
  Filter(PickerTeams, {AllTeams} \cup Always)

\* The picker keeps the teams that have games.
PickerTeamsWithGames ==
  LET existingKeys == {AllTeams} \cup Always \cup {Team[g] : g \in rows \ Obsolete}
  IN  Filter(PickerTeams, existingKeys)

\* The lists of the teams; a placeholder has no team.
GamesOf(t) == IF t = AllTeams THEN Games \cup Placeholders ELSE {g \in Games : Team[g] = t}
Grouped(all) == [t \in ValidTeams |-> Filter(all, GamesOf(t))]

SortGames ==
  /\ screen = "loading"
  /\ screen' = "sorted"
  /\ \E all \in Sorted(Shown) : sortedGames' = Grouped(all)
  /\ picker' = PickerTeamsWithGames
  /\ rows' = rows \ Obsolete
  /\ sortedAt' = now
  /\ UNCHANGED <<now, padding, teamRows, filterValue, launches>>

\* The lists that get a placeholder.
Empty == {t \in {AllTeams} \cup Always : sortedGames[t] = <<>>}

\* setupTeamPicker: each placeholder is a new row of the database.
SetupTeamPicker ==
  /\ screen = "sorted"
  /\ screen' = "home"
  /\ teamRows' = teamRows \cup Range(picker)
  /\ sortedGames' = [t \in ValidTeams |->
       IF t \in Empty THEN <<Placeholder(t)>> ELSE sortedGames[t]]
  /\ padding' = [p \in Placeholders |->
       padding[p] + Cardinality({t \in Empty : Placeholder(t) = p})]
  /\ filterValue' = AllTeams
  /\ UNCHANGED <<now, rows, picker, sortedAt, launches>>

\* The user turns the picker; the table shows the list of filterValue.
SelectRow(row) ==
  /\ screen = "home"
  /\ filterValue' = picker[row]
  /\ UNCHANGED <<screen, now, rows, padding, teamRows, sortedGames, picker,
                 sortedAt, launches>>

SoccerGames == sortedGames[filterValue]

Quit ==
  /\ screen # "off"
  /\ screen' = "off"
  /\ UNCHANGED <<now, rows, padding, teamRows, sortedGames, picker,
                 filterValue, sortedAt, launches>>

Tick ==
  /\ now < LastTime
  /\ now' = now + 1
  /\ UNCHANGED <<screen, rows, padding, teamRows, sortedGames, picker,
                 filterValue, sortedAt, launches>>

HomeNext ==
  \/ StartLoading
  \/ \E g \in Games : Sync(g)
  \/ SortGames
  \/ SetupTeamPicker
  \/ \E row \in DOMAIN picker : SelectRow(row)
  \/ Quit
  \/ Tick

HomeSpec == HomeInit /\ [][HomeNext]_homeVars

(***************************************************************************)
(* Properties.                                                             *)
(***************************************************************************)

\* What the table shows of games with a kickoff.
Dated(s) == Filter(s, {g \in Games : Kickoff[g] # NoTimestamp})
Played(g) == Kickoff[g] < sortedAt

\* order() doubles what has passed so that one ascending sort serves both: at
\* the time of the sort the table has the games to come first, the next one on
\* top, and those played below them.
UpcomingFirst ==
  screen = "home" =>
    LET s == Dated(SoccerGames)
    IN  \A i, j \in DOMAIN s : i < j =>
          /\ Played(s[i]) => Played(s[j])
          /\ (Played(s[i]) <=> Played(s[j])) => Kickoff[s[i]] <= Kickoff[s[j]]

\* Each game of the whole list is in the list of an entry of the picker, and
\* that team has a row in the database: team(forGame:) and the switch of its
\* reminders depend on it, whatever earlier launches had in their pickers.
EveryGameHasItsPlace ==
  screen = "home" =>
    \A i \in DOMAIN sortedGames[AllTeams] :
      LET g == sortedGames[AllTeams][i]
      IN  g \in Games => /\ Team[g] \in Range(picker) \cap teamRows
                         /\ g \in Range(sortedGames[Team[g]])

\* The placeholders that every launch stores never come back among games: a
\* table has one placeholder and nothing else, or none.
PlaceholdersAlone ==
  screen = "home" =>
    (Range(SoccerGames) \cap Placeholders # {} => Len(SoccerGames) = 1)
=============================================================================
