--------------------------- MODULE PhysicalMemory ---------------------------
(***************************************************************************)
(* The physical memory manager (mmngr_phys.cpp): a bitmap with one bit for *)
(* each block of memory, and a count of the blocks in use.  The operators  *)
(* take a memory and return what the calls leave of it.                    *)
(***************************************************************************)
EXTENDS Integers, FiniteSets

CONSTANTS
  MaxBlocks,   (* mmngr_max_blocks                                         *)
  Word         (* the bits of a word of the bitmap, 32                     *)

ASSUME PhysicalMemoryAssumption == MaxBlocks \in Nat \ {0} /\ Word \in Nat \ {0}

Block == 0 .. MaxBlocks - 1

\* A memory is a record of mmngr_bitmap, as the set of the blocks whose bit is
\* set, and mmngr_used_blocks.

\* pmmngr_init: everything is in use.
PmmngrInit == [bitmap |-> Block, used |-> MaxBlocks]

\* The blocks from base on, up to the first one that is not in B: both region
\* calls stay at that block for the rest of the region.
Run(base, length, B) == {b \in base .. base + length - 1 : base .. b \subseteq B}

\* pmmngr_free_region; block 0 is never available.
FreeRegion(m, base, length) ==
  LET freed == Run(base, length, m.bitmap)
      rest  == m.bitmap \ freed
  IN  [bitmap |-> rest \cup {0},
       used   |-> m.used - Cardinality(freed) + Cardinality({0} \ rest)]

\* pmmngr_reserve_region
ReserveRegion(m, base, length) ==
  LET taken == Run(base, length, Block \ m.bitmap)
  IN  [bitmap |-> m.bitmap \cup taken, used |-> m.used + Cardinality(taken)]

\* mmap_first_free looks at whole words; 0 is "out of memory".
FirstFree(m) ==
  LET free == (0 .. (MaxBlocks \div Word) * Word - 1) \ m.bitmap
  IN  IF free = {} THEN 0 ELSE CHOOSE b \in free : \A c \in free : b <= c

\* The block pmmngr_alloc_block returns, 0 when there is none.
NextBlock(m) == IF m.used = MaxBlocks THEN 0 ELSE FirstFree(m)

\* What pmmngr_alloc_block leaves.
Allocated(m) ==
  IF NextBlock(m) = 0 THEN m
  ELSE [bitmap |-> m.bitmap \cup {NextBlock(m)}, used |-> m.used + 1]

\* pmmngr_free_block
Freed(m, b) ==
  IF b \in m.bitmap THEN [bitmap |-> m.bitmap \ {b}, used |-> m.used - 1] ELSE m
=============================================================================
