--------------------------- MODULE MCGameCatalog ----------------------------
(***************************************************************************)
(* GameCatalog on small instances: the key "mnt" is a game of a team the   *)
(* app knows, "legacy" is one of a team it has forgotten.                  *)
(***************************************************************************)
EXTENDS GameCatalog, TLC

CONSTANTS d1, d2

Phones == Permutations({d1, d2})

OneGame == {"mnt"}
WithLegacy == {"mnt", "legacy"}
FirstDay == [g \in Games |-> 0]

=============================================================================
