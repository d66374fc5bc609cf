-------------------------- MODULE AnnouncedCatalog --------------------------
(***************************************************************************)
(* What the shared list of games promises the people who follow a team: a  *)
(* game is listed only after somebody has announced it (has asked OneSignal *)
(* to push its reminders, or found that it has no kickoff to remind of),    *)
(* and a listed game is taken off the list only after it has expired.       *)
(*                                                                         *)
(* GameCatalog, where several phones check, announce, publish and prune     *)
(* without coordination, implements this module.                            *)
(***************************************************************************)

CONSTANT Games

VARIABLES
  announced,    \* games whose reminders were dealt with, for good
  listed,       \* games on the shared list
  expired       \* games that are old enough to be taken off

vars == <<announced, listed, expired>>

Init ==
  /\ announced = {}
  /\ listed = {}
  /\ expired \in SUBSET Games

Announce(g) ==
  /\ announced' = announced \cup {g}
  /\ UNCHANGED <<listed, expired>>

List(g) ==
  /\ g \in announced
  /\ listed' = listed \cup {g}
  /\ UNCHANGED <<announced, expired>>

Unlist(g) ==
  /\ g \in expired
  /\ listed' = listed \ {g}
  /\ UNCHANGED <<announced, expired>>

Expire ==
  /\ expired' \in SUBSET Games
  /\ expired \subseteq expired'
  /\ UNCHANGED <<announced, listed>>

Next ==
  \/ \E g \in Games : Announce(g) \/ List(g) \/ Unlist(g)
  \/ Expire

Spec == Init /\ [][Next]_vars
=============================================================================
