------------------------------- MODULE Arena -------------------------------
(***************************************************************************)
(* The memory of a memtable (util/arena.cc): its keys and nodes are cut    *)
(* from blocks, of which only the last one is filled, and all live until   *)
(* the memtable goes.  An address is a block and an offset in it; the      *)
(* blocks that operator new returns are apart and begin aligned.           *)
(***************************************************************************)
EXTENDS Integers, Sequences

CONSTANTS
  kArenaBlock,   \* kBlockSize
  kAlign,        \* the alignment of a pointer
  ArenaSizes,    \* numbers of bytes asked for
  MaxBlocks      \* bound: blocks an arena has

ASSUME ArenaAssumption ==
  /\ kArenaBlock \in Nat \ {0}
  /\ kAlign \in Nat \ {0}
  /\ ArenaSizes \subseteq Nat \ {0}
  /\ MaxBlocks \in Nat

VARIABLES
  blocks,     \* the size of each block there is
  allocPtr,   \* alloc_ptr_: the block being filled, 0 before the first, and an offset
  remaining,  \* alloc_bytes_remaining_
  allocated   \* history: what was handed out

arenaVars == <<blocks, allocPtr, remaining, allocated>>

ArenaInit ==
  /\ blocks = << >>
  /\ allocPtr = [block |-> 0, at |-> 0] /\ remaining = 0
  /\ allocated = << >>

\* bytes handed out from an offset in a block, and whether they had to be aligned
Piece(block, at, bytes, aligned) ==
  [block |-> block, from |-> at, to |-> at + bytes, aligned |-> aligned]
-----------------------------------------------------------------------------
AllocateNewBlock(bytes) ==
  /\ Len(blocks) < MaxBlocks
  /\ blocks' = Append(blocks, bytes)

(* AllocateFallback: a large object gets a block of its own and the one    *)
(* being filled stays; for another one a new block is begun.               *)
AllocateFallback(bytes, aligned) ==
  /\ allocated' = Append(allocated, Piece(Len(blocks) + 1, 0, bytes, aligned))
  /\ IF 4 * bytes > kArenaBlock
     THEN /\ AllocateNewBlock(bytes)
          /\ UNCHANGED <<allocPtr, remaining>>
     ELSE /\ AllocateNewBlock(kArenaBlock)
          /\ allocPtr' = [block |-> Len(blocks) + 1, at |-> bytes]
          /\ remaining' = kArenaBlock - bytes

(* What fits is cut from the block being filled, after bytes left out.     *)
Cut(slop, bytes, aligned) ==
  /\ allocated' = Append(allocated, Piece(allocPtr.block, allocPtr.at + slop, bytes, aligned))
  /\ allocPtr' = [allocPtr EXCEPT !.at = @ + slop + bytes]
  /\ remaining' = remaining - (slop + bytes)
  /\ UNCHANGED blocks

Allocate(bytes) ==
  IF bytes <= remaining THEN Cut(0, bytes, FALSE) ELSE AllocateFallback(bytes, FALSE)

\* bytes to leave out up to the next aligned place
Slop(at) == IF at % kAlign = 0 THEN 0 ELSE kAlign - (at % kAlign)

\* MUTANT of AllocateAligned: the bytes left out are not counted.
AllocateAlignedUncounted(bytes) ==
  LET slop == Slop(allocPtr.at)
  IN  IF bytes + slop <= remaining
      THEN /\ allocated' = Append(allocated, Piece(allocPtr.block, allocPtr.at + slop, bytes, TRUE))
           /\ allocPtr' = [allocPtr EXCEPT !.at = @ + bytes]
           /\ remaining' = remaining - bytes
           /\ UNCHANGED blocks
      ELSE AllocateFallback(bytes, TRUE)

AllocateAligned(bytes) ==
  LET slop == Slop(allocPtr.at)
  IN  IF bytes + slop <= remaining THEN Cut(slop, bytes, TRUE)
      ELSE AllocateFallback(bytes, TRUE)

ArenaNext == \E bytes \in ArenaSizes : Allocate(bytes) \/ AllocateAligned(bytes)

ArenaSpec == ArenaInit /\ [][ArenaNext]_arenaVars
-----------------------------------------------------------------------------
Overlap(p, q) == p.block = q.block /\ p.from < q.to /\ q.from < p.to

(* arena.h: what is handed out lies in a block there is and shares no byte *)
(* with anything handed out before, or a later key overwrites an earlier   *)
(* one that readers look at.                                               *)
PiecesAreApart ==
  /\ \A i \in DOMAIN allocated :
       /\ allocated[i].block \in DOMAIN blocks
       /\ allocated[i].to <= blocks[allocated[i].block]
  /\ \A i, j \in DOMAIN allocated : i # j => ~Overlap(allocated[i], allocated[j])

(* arena.cc, the assertion at the end of AllocateAligned: a node begins at *)
(* a multiple of the size of a pointer, as its atomic links need.          *)
NodesAreAligned ==
  \A i \in DOMAIN allocated : allocated[i].aligned => allocated[i].from % kAlign = 0

(* What is handed out lies in the arena, apart from all else, and a node   *)
(* where its atomic links can be.                                          *)
AllocationsAreSound == PiecesAreApart /\ NodesAreAligned
=============================================================================
