--------------------------- MODULE HomeListProofs ---------------------------
(***************************************************************************)
(* Proofs about HomeList, for any games, teams, times and number of        *)
(* launches: the games to come are shown first, every game has its place,  *)
(* and a placeholder is alone.                                             *)
(***************************************************************************)
EXTENDS HomeList, FilteringProofs, FiniteSetTheorems

GameLists == Seq(Games)

(* order() of a game at a time.                                            *)
OrderAt(g, time) ==
  IF Kickoff[g] = NoTimestamp THEN 0
  ELSE IF Kickoff[g] < time THEN 2 * Kickoff[g]
  ELSE Kickoff[g]

HomeType ==
  /\ screen \in {"off", "loading", "sorted", "home"}
  /\ now \in Nat /\ sortedAt \in Nat
  /\ rows \subseteq Games
  /\ picker \in Seq(ValidTeams) /\ filterValue \in ValidTeams
  /\ sortedGames \in [ValidTeams -> GameLists \cup {<<p>> : p \in Placeholders}]

(* A list of games is in the order of the sort.                            *)
ListsSorted ==
  \A t \in ValidTeams : sortedGames[t] \in GameLists =>
    \A i, j \in DOMAIN sortedGames[t] :
      i < j => OrderAt(sortedGames[t][i], sortedAt) <= OrderAt(sortedGames[t][j], sortedAt)

(* Before the placeholders come, the lists are of games only.              *)
ListsOfGames == screen = "sorted" => \A t \in ValidTeams : sortedGames[t] \in GameLists

(* The games of the whole list, and where they are beside it.              *)
Placed ==
  screen \in {"sorted", "home"} =>
    \A i \in DOMAIN sortedGames[AllTeams] :
      LET g == sortedGames[AllTeams][i]
      IN  g \in Games => /\ Team[g] \in Range(picker) /\ Team[g] \in ValidTeams
                         /\ g \in Range(sortedGames[Team[g]])

RowsStored == screen = "home" => Range(picker) \subseteq teamRows

HomeInv == HomeType /\ ListsSorted /\ ListsOfGames /\ Placed /\ RowsStored

\* What is in a filtered sequence.
LEMMA FilterRange ==
  ASSUME NEW S, NEW s \in Seq(S), NEW T
  PROVE  Range(Filter(s, T)) = Range(s) \cap T
<1>1. /\ \A a \in DOMAIN Filter(s, T) : Filter(s, T)[a] \in T
      /\ \A i \in DOMAIN s : s[i] \in T => \E a \in DOMAIN Filter(s, T) : Filter(s, T)[a] = s[i]
      /\ \A a \in DOMAIN Filter(s, T) : \E i \in DOMAIN s : Filter(s, T)[a] = s[i]
  BY FilterFacts
<1> HIDE DEF Filter
<1> QED BY <1>1 DEF Range

\* The sort leaves a sequence of the games that are shown.
LEMMA SortedFacts ==
  ASSUME NEW S \in SUBSET Games, NEW all \in Sorted(S)
  PROVE  /\ all \in Seq(Games) /\ Range(all) \subseteq S
         /\ \A i, j \in DOMAIN all : i < j => Order(all[i]) <= Order(all[j])
<1> DEFINE n == Cardinality(S)
<1>1. all \in [1 .. n -> S] /\ \A i, j \in DOMAIN all : i < j => Order(all[i]) <= Order(all[j])
  BY DEF Sorted, SetToSeqs
<1>2. n \in Nat
  BY HomeListAssumption, FS_Subset, FS_CardinalityType
<1>3. Range(all) \subseteq S
  BY <1>1 DEF Range
<1> HIDE DEF n
<1>4. all \in Seq(Games)
  <2>1. \A a \in 1 .. n : all[a] \in Games
    BY <1>1
  <2> QED BY <1>1, <1>2, <2>1, IsASeq
<1> QED BY <1>1, <1>3, <1>4

\* The types of the constants.
LEMMA Constants ==
  /\ AllTeams \in ValidTeams /\ ValidTeams = Range(PickerTeams)
  /\ \A g \in Games : Team[g] \in Range(Team)
  /\ Placeholders \cap Games = {} /\ \A t \in ValidTeams : Placeholder(t) \in Placeholders
  /\ GameLists \cap {<<p>> : p \in Placeholders} = {}
<1>1. ASSUME NEW p \in Placeholders, <<p>> \in GameLists PROVE FALSE
  <2>1. <<p>>[1] \in Games
    BY <1>1 DEF GameLists
  <2> QED BY <2>1, PlaceholdersAssumption
<1>2. GameLists \cap {<<p>> : p \in Placeholders} = {}
  BY <1>1
<1>3. \A g \in Games : Team[g] \in Range(Team)
  BY HomeListAssumption DEF Range
<1> QED BY <1>2, <1>3, HomeListAssumption, PlaceholdersAssumption DEF ValidTeams, Placeholders

\* The invariant holds at the start.
LEMMA InitInv == HomeInit => HomeInv
<1> SUFFICES ASSUME HomeInit PROVE HomeInv
  OBVIOUS
<1>1. HomeType
  <2>1. <<>> \in GameLists
    BY DEF GameLists
  <2> QED BY <2>1, HomeListAssumption, Constants DEF HomeInit, HomeType, NoLists
<1>2. ListsSorted
  BY DEF HomeInit, NoLists, ListsSorted
<1> QED BY <1>1, <1>2 DEF HomeInit, HomeInv, ListsOfGames, Placed, RowsStored

\* A launch begins with empty lists and the whole picker.
LEMMA StartLoadingKeepsInv ==
  ASSUME HomeInv, StartLoading
  PROVE  HomeInv'
<1>1. <<>> \in GameLists /\ PickerTeams \in Seq(ValidTeams)
  BY HomeListAssumption DEF GameLists
<1>2. HomeType'
  BY <1>1 DEF HomeInv, HomeType, StartLoading, NoLists
<1>3. ListsSorted'
  BY DEF ListsSorted, StartLoading, NoLists
<1> QED BY <1>2, <1>3 DEF HomeInv, StartLoading, ListsOfGames, Placed, RowsStored

\* finishLoading: the lists are filtered from one sorted sequence of the games
\* left, and the picker keeps every team of one of them.
LEMMA SortGamesKeepsInv ==
  ASSUME HomeInv, SortGames
  PROVE  HomeInv'
<1>1. PICK all \in Sorted(Shown) : sortedGames' = Grouped(all)
  BY DEF SortGames
<1>2. Shown \in SUBSET Games
  BY DEF HomeInv, HomeType, Shown
<1>3. /\ all \in Seq(Games) /\ Range(all) \subseteq Shown
      /\ \A i, j \in DOMAIN all : i < j => Order(all[i]) <= Order(all[j])
  BY <1>2, SortedFacts
<1>4. \A t \in ValidTeams : sortedGames'[t] = Filter(all, GamesOf(t))
  BY <1>1 DEF Grouped
<1>5. \A t \in ValidTeams : sortedGames'[t] \in GameLists
  BY <1>3, <1>4, FilterFacts DEF GameLists
<1>6. screen' = "sorted" /\ sortedAt' = now /\ picker' = PickerTeamsWithGames
  BY DEF SortGames
<1>7. HomeType'
  <2>1. picker' \in Seq(ValidTeams)
    BY <1>6, HomeListAssumption, FilterFacts DEF PickerTeamsWithGames
  <2>2. sortedGames' = [t \in ValidTeams |-> sortedGames'[t]]
    BY <1>1 DEF Grouped
  <2>3. sortedGames' \in [ValidTeams -> GameLists \cup {<<p>> : p \in Placeholders}]
    BY <1>5, <2>2
  <2> QED BY <2>1, <2>3 DEF HomeInv, HomeType, SortGames
<1>8. ListsSorted'
  <2> SUFFICES ASSUME NEW t \in ValidTeams,
                      NEW i \in DOMAIN sortedGames'[t], NEW j \in DOMAIN sortedGames'[t], i < j
               PROVE  OrderAt(sortedGames'[t][i], sortedAt') <= OrderAt(sortedGames'[t][j], sortedAt')
    BY DEF ListsSorted
  <2>1. PICK from \in [DOMAIN sortedGames'[t] -> DOMAIN all] :
          /\ \A a \in DOMAIN sortedGames'[t] : sortedGames'[t][a] = all[from[a]]
          /\ \A a, b \in DOMAIN sortedGames'[t] : a < b => from[a] < from[b]
    BY <1>3, <1>4, FilterFacts
  <2>2. Order(sortedGames'[t][i]) <= Order(sortedGames'[t][j])
    BY <1>3, <2>1
  <2>3. sortedGames'[t][i] \in Games /\ sortedGames'[t][j] \in Games
    BY <1>5, LenProperties DEF GameLists
  <2>4. \A g \in Games : g \notin Placeholders
    BY PlaceholdersAssumption
  <2> QED BY <1>6, <2>2, <2>3, <2>4 DEF Order, OrderAt
<1>9. Placed'
  <2> SUFFICES ASSUME NEW i \in DOMAIN sortedGames'[AllTeams]
               PROVE  LET g == sortedGames'[AllTeams][i]
                      IN  /\ Team[g] \in Range(picker') /\ Team[g] \in ValidTeams
                          /\ g \in Range(sortedGames'[Team[g]])
    BY DEF Placed
  <2> DEFINE g == sortedGames'[AllTeams][i]
  <2>1. g \in Range(sortedGames'[AllTeams])
    BY DEF Range
  <2>2. g \in Range(all) /\ g \in Shown /\ g \in Games
    BY <1>2, <1>3, <1>4, <2>1, Constants, FilterRange
  <2>3. Team[g] \in ValidTeams
    BY <2>2 DEF Shown, Obsolete
  <2>4. Team[g] \in Range(picker')
    <3> DEFINE keys == {AllTeams} \cup Always \cup {Team[h] : h \in rows \ Obsolete}
    <3>1. Team[g] \in keys
      BY <2>2 DEF Shown
    <3>2. picker' = Filter(PickerTeams, keys)
      BY <1>6 DEF PickerTeamsWithGames
    <3>3. Range(picker') = Range(PickerTeams) \cap keys
      <4> HIDE DEF keys
      <4> QED BY <3>2, FilterRange, HomeListAssumption
    <3> QED BY <2>3, <3>1, <3>3 DEF ValidTeams
  <2>5. g \in Range(sortedGames'[Team[g]])
    <3>1. g \in GamesOf(Team[g])
      BY <2>2 DEF GamesOf
    <3>2. Range(sortedGames'[Team[g]]) = Range(all) \cap GamesOf(Team[g])
      BY <1>3, <1>4, <2>3, FilterRange
    <3> QED BY <2>2, <3>1, <3>2
  <2> QED BY <2>3, <2>4, <2>5
<1> QED BY <1>5, <1>6, <1>7, <1>8, <1>9 DEF HomeInv, ListsOfGames, RowsStored

\* setupTeamPicker: a list with a game in it is left as it is.
LEMMA SetupTeamPickerKeepsInv ==
  ASSUME HomeInv, SetupTeamPicker
  PROVE  HomeInv'
<1>1. /\ screen = "sorted" /\ screen' = "home" /\ picker' = picker /\ sortedAt' = sortedAt
      /\ \A t \in ValidTeams : sortedGames'[t] = IF t \in Empty THEN <<Placeholder(t)>> ELSE sortedGames[t]
      /\ sortedGames' = [t \in ValidTeams |-> sortedGames'[t]]
      /\ Range(picker') \subseteq teamRows'
  BY DEF SetupTeamPicker
<1>2. \A t \in ValidTeams : sortedGames[t] \in GameLists
  BY <1>1 DEF HomeInv, ListsOfGames
<1>3. \A t \in ValidTeams : t \in Empty => sortedGames'[t] \in {<<p>> : p \in Placeholders}
  BY <1>1, Constants
<1>4. HomeType'
  <2>1. \A t \in ValidTeams : sortedGames'[t] \in GameLists \cup {<<p>> : p \in Placeholders}
    BY <1>1, <1>2, <1>3
  <2>2. AllTeams \in ValidTeams
    BY Constants
  <2> QED BY <1>1, <2>1, <2>2 DEF HomeInv, HomeType, SetupTeamPicker
<1>5. ListsSorted'
  BY <1>1, <1>3, Constants DEF HomeInv, ListsSorted, OrderAt
<1>6. Placed'
  <2> SUFFICES ASSUME NEW i \in DOMAIN sortedGames'[AllTeams], sortedGames'[AllTeams][i] \in Games
               PROVE  LET g == sortedGames'[AllTeams][i]
                      IN  /\ Team[g] \in Range(picker') /\ Team[g] \in ValidTeams
                          /\ g \in Range(sortedGames'[Team[g]])
    BY DEF Placed
  <2> DEFINE g == sortedGames'[AllTeams][i]
  <2>1. AllTeams \notin Empty
    <3>1. ASSUME AllTeams \in Empty PROVE FALSE
      <4>1. sortedGames'[AllTeams] = <<Placeholder(AllTeams)>>
        BY <1>1, <3>1, Constants
      <4>2. i = 1 /\ g = Placeholder(AllTeams)
        BY <4>1
      <4> QED BY <4>2, Constants
    <3> QED BY <3>1
  <2>2. sortedGames'[AllTeams] = sortedGames[AllTeams]
    BY <1>1, <2>1, Constants
  <2>3. Team[g] \in Range(picker) /\ Team[g] \in ValidTeams /\ g \in Range(sortedGames[Team[g]])
    BY <1>1, <2>2 DEF HomeInv, Placed
  <2>4. sortedGames[Team[g]] # <<>>
    BY <2>3 DEF Range
  <2>5. sortedGames'[Team[g]] = sortedGames[Team[g]]
    BY <1>1, <2>3, <2>4 DEF Empty
  <2> QED BY <1>1, <2>3, <2>5
<1> QED BY <1>1, <1>4, <1>5, <1>6 DEF HomeInv, ListsOfGames, RowsStored

\* Every other step leaves the lists and the order they are in.
LEMMA OthersKeepInv ==
  ASSUME HomeInv,
         (\E g \in Games : Sync(g)) \/ (\E row \in DOMAIN picker : SelectRow(row)) \/ Quit \/ Tick
           \/ UNCHANGED homeVars
  PROVE  HomeInv'
<1>1. /\ screen' \in {screen, "off"} /\ picker' = picker /\ sortedGames' = sortedGames
      /\ teamRows' = teamRows /\ sortedAt' = sortedAt
  BY DEF Sync, SelectRow, Quit, Tick, homeVars
<1>2. HomeType'
  <2>1. \A row \in DOMAIN picker : picker[row] \in ValidTeams
    BY LenProperties DEF HomeInv, HomeType
  <2>2. now' \in Nat /\ rows' \subseteq Games /\ filterValue' \in ValidTeams
    BY <2>1 DEF HomeInv, HomeType, Sync, SelectRow, Quit, Tick, homeVars
  <2> QED BY <1>1, <2>2 DEF HomeInv, HomeType
<1> QED BY <1>1, <1>2 DEF HomeInv, ListsSorted, ListsOfGames, Placed, RowsStored

\* The invariant of the list.
LEMMA HomeInvHolds == HomeSpec => []HomeInv
<1>1. HomeInv /\ [HomeNext]_homeVars => HomeInv'
  BY StartLoadingKeepsInv, SortGamesKeepsInv, SetupTeamPickerKeepsInv, OthersKeepInv DEF HomeNext
<1> QED BY <1>1, InitInv, PTL DEF HomeSpec

\* LoadingVC.finishLoading, HomeVC: each game of the whole list is in the list of
\* an entry of the picker, and that team has a row in the database.
THEOREM GamesAlwaysPlaced == HomeSpec => []EveryGameHasItsPlace
<1>1. HomeInv => EveryGameHasItsPlace
  BY DEF HomeInv, Placed, RowsStored, EveryGameHasItsPlace
<1> QED BY <1>1, HomeInvHolds, PTL

\* HomeVC.setupTeamPicker: a placeholder is alone in its table, and those of
\* earlier launches do not come back.
THEOREM PlaceholdersAlwaysAlone == HomeSpec => []PlaceholdersAlone
<1>1. ASSUME HomeInv PROVE PlaceholdersAlone
  <2>1. SoccerGames \in GameLists \cup {<<p>> : p \in Placeholders}
    BY <1>1 DEF HomeInv, HomeType, SoccerGames
  <2>2. CASE SoccerGames \in GameLists
    <3>1. Range(SoccerGames) \subseteq Games
      BY <2>2, LenProperties DEF GameLists, Range
    <3> QED BY <3>1, PlaceholdersAssumption DEF PlaceholdersAlone
  <2>3. CASE \E p \in Placeholders : SoccerGames = <<p>>
    BY <2>3 DEF PlaceholdersAlone
  <2> QED BY <2>1, <2>2, <2>3
<1> QED BY <1>1, HomeInvHolds, PTL

\* SoccerGame.order(): the games to come are on top, the next one first, and
\* those played below them, in the list of every team.
THEOREM UpcomingAlwaysFirst == HomeSpec => []UpcomingFirst
<1>1. ASSUME HomeInv PROVE UpcomingFirst
  <2> DEFINE s == SoccerGames
             d == Dated(s)
  <2> SUFFICES ASSUME NEW i \in DOMAIN d, NEW j \in DOMAIN d, i < j
               PROVE  /\ Played(d[i]) => Played(d[j])
                      /\ (Played(d[i]) <=> Played(d[j])) => Kickoff[d[i]] <= Kickoff[d[j]]
    BY DEF UpcomingFirst
  <2>1. s \in GameLists \/ \E p \in Placeholders : s = <<p>>
    BY <1>1 DEF HomeInv, HomeType, SoccerGames
  <2>2. s \in Seq(Games \cup Placeholders)
    <3>1. CASE s \in GameLists
      BY <3>1, SeqDef DEF GameLists
    <3>2. ASSUME NEW p \in Placeholders, s = <<p>> PROVE s \in Seq(Games \cup Placeholders)
      BY <3>2
    <3> QED BY <2>1, <3>1, <3>2
  <2>3. PICK from \in [DOMAIN d -> DOMAIN s] :
          /\ \A a \in DOMAIN d : d[a] = s[from[a]] /\ d[a] \in Games /\ Kickoff[d[a]] # NoTimestamp
          /\ \A a, b \in DOMAIN d : a < b => from[a] < from[b]
    <3> DEFINE T == {g \in Games : Kickoff[g] # NoTimestamp}
    <3>1. d = Filter(s, T)
      BY DEF Dated
    <3> DEFINE U == Games \cup Placeholders
    <3>u. s \in Seq(U)
      BY <2>2
    <3> HIDE DEF s, d, T, U
    <3>f. \A a \in DOMAIN Filter(s, T) : Filter(s, T)[a] \in T
      BY <3>u, FilterFacts
    <3>g. \E from : Embeds(from, Filter(s, T), s)
      BY <3>u, FilterEmbeds
    <3>2. /\ \A a \in DOMAIN d : d[a] \in T
          /\ \E from \in [DOMAIN d -> DOMAIN s] :
              /\ \A a \in DOMAIN d : d[a] = s[from[a]]
              /\ \A a, b \in DOMAIN d : a < b => from[a] < from[b]
      BY <3>1, <3>f, <3>g DEF Embeds
    <3> QED BY <3>2 DEF T
  <2>4. s \in GameLists
    <3>1. ASSUME NEW p \in Placeholders, s = <<p>> PROVE FALSE
      <4>1. from[i] = 1 /\ from[j] = 1 /\ from[i] < from[j]
        <5> HIDE DEF d
        <5> QED BY <2>3, <3>1
      <4> QED BY <4>1
    <3> QED BY <2>1, <3>1
  <2>5. OrderAt(d[i], sortedAt) <= OrderAt(d[j], sortedAt)
    <3>1. filterValue \in ValidTeams /\ s = sortedGames[filterValue]
      BY <1>1 DEF HomeInv, HomeType, SoccerGames
    <3>2. \A a, b \in DOMAIN s : a < b => OrderAt(s[a], sortedAt) <= OrderAt(s[b], sortedAt)
      <4> HIDE DEF s, d
      <4> QED BY <1>1, <2>4, <3>1 DEF HomeInv, ListsSorted
    <3> HIDE DEF s, d
    <3> QED BY <2>3, <3>2
  <2>6. /\ d[i] \in Games /\ Kickoff[d[i]] # NoTimestamp
        /\ d[j] \in Games /\ Kickoff[d[j]] # NoTimestamp
    BY <2>3
  <2> HIDE DEF d
  <2>7. /\ Kickoff[d[i]] \in FirstTime - TwoDays .. LastTime
        /\ Kickoff[d[j]] \in FirstTime - TwoDays .. LastTime
        /\ FirstTime \in Nat /\ TwoDays \in Nat /\ LastTime \in Nat /\ LastTime < 2 * (FirstTime - TwoDays)
        /\ sortedAt \in Nat
    BY <1>1, <2>6, HomeListAssumption DEF HomeInv, HomeType
  <2> QED BY <2>5, <2>6, <2>7 DEF OrderAt, Played
<1> QED BY <1>1, HomeInvHolds, PTL
=============================================================================
