------------------------------ MODULE MCLaunch ------------------------------
(***************************************************************************)
(* What a phone does from the icon to the table of games, one part at a    *)
(* time: the launch, or the lists over several launches.  The variables of *)
(* the other part keep their first values.                                 *)
(***************************************************************************)
EXTENDS Launch, HomeList

VARIABLE part
partVars == <<vars, homeVars, part>>

\* A picker of four, five games: two of the men, one of a youth team, one
\* without a kickoff and one of a team the app no longer has.
MCPickerTeams == <<"U-15 MNT", "MNT", "ALL TEAMS", "WNT">>
MCGames == {"m1", "m2", "u15", "undated", "legacy"}
MCTeam == [g \in MCGames |->
             CASE g = "u15" -> "U-15 MNT" [] g = "legacy" -> "PDL"
               [] g = "undated" -> "WNT" [] OTHER -> "MNT"]
MCKickoff == [g \in MCGames |->
                CASE g = "m1" -> 10 [] g = "m2" -> 12 [] g = "u15" -> 11
                  [] g = "legacy" -> 12 [] OTHER -> NoTimestamp]

PartsInit ==
  /\ part \in {"launch", "lists"}
  /\ Init /\ HomeInit
  /\ part = "lists" => stored /\ signedIn

PartsNext ==
  /\ UNCHANGED part
  /\ \/ part = "launch" /\ Next /\ UNCHANGED homeVars
     \/ part = "lists" /\ HomeNext /\ UNCHANGED vars

\* The fairness is the launch's: what it allows is the behaviours of that part,
\* and they are what the temporal properties are about.
PartsSpec == PartsInit /\ [][PartsNext]_partVars /\ Fairness
=============================================================================
