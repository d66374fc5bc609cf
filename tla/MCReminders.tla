---------------------------- MODULE MCReminders -----------------------------
(***************************************************************************)
(* Reminders on a small instance: the men's team and one of its games.      *)
(***************************************************************************)
EXTENDS Reminders

MenTeams == {"ALL TEAMS", "MNT"}
MenGames == {"MNT vs Peru"}
MenMentions == {<<"MNT vs Peru", "MNT">>}

TeamOf == [g \in Games |-> "MNT"]
=============================================================================
