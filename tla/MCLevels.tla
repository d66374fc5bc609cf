------------------------------ MODULE MCLevels ------------------------------
(***************************************************************************)
(* Levels for TLC.  Sizes are numbers of entries: an option set with large *)
(* files keeps each compaction's output in one file, one with files of one *)
(* entry splits every output and meets the limit on grandparents.          *)
(***************************************************************************)
EXTENDS Levels

Options(buffer, file, grandParent, writes, snaps, ranges) ==
  [writeBufferSize |-> buffer, maxFileSize |-> file, grandParentOverlap |-> grandParent,
   expandedLimit |-> 25 * file, writes |-> writes, snapshots |-> snaps, ranges |-> ranges]

\* snapshots over whole outputs, with and without CompactRange; split outputs
\* without snapshots
SafeOptions == {Options(1, 10, 100, 4, 1, 0), Options(1, 10, 100, 2, 1, 2),
                Options(1, 10, 100, 3, 0, 2),
                Options(2, 1, 0, 4, 0, 1), Options(2, 1, 0, 3, 0, 2)}
\* snapshots over split outputs
SplitOptions == {Options(1, 1, 10, 4, 1, 0)}
\* what is flushed during a compaction of several files
GapOptions == {Options(1, 10, 100, 6, 0, 9)}

WholeRange == {<<None, None>>}

(* A database after k1, k1, k3 and k3 were written and each was flushed: in *)
(* both levels there is a file of k1 and a file of k3, and none for k2.     *)
GapInit ==
  /\ options \in GapOptions
  /\ LET file(n, k) == NewFile(n, {IKey(k, n, kTypeValue)})
     IN  levels = [l \in Level |-> CASE l = 0 -> <<file(2, 1), file(4, 3)>>
                                     [] l = 1 -> <<file(1, 1), file(3, 3)>>
                                     [] OTHER -> << >>]
  /\ mem = {} /\ imm = None /\ lastSeq = 4 /\ snapshots = << >> /\ nextFile = 5
  /\ compactPointer = [l \in Level |-> None]
  /\ fileToCompact = None /\ manual = None /\ compaction = None
GapSpec == GapInit /\ [][LevelsNext]_levelsVars
=============================================================================
