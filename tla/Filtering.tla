----------------------------- MODULE Filtering ------------------------------
(***************************************************************************)
(* SelectSeq by a set instead of a test, as a recursive function: what is  *)
(* left of a sequence when only the members of T are kept.                 *)
(***************************************************************************)
EXTENDS Integers, Sequences

Filter(s, T) ==
  LET kept[i \in 0 .. Len(s)] ==
        IF i = 0 THEN <<>>
        ELSE IF s[i] \in T THEN Append(kept[i - 1], s[i])
        ELSE kept[i - 1]
  IN  kept[Len(s)]
=============================================================================
