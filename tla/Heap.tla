-------------------------------- MODULE Heap --------------------------------
(***************************************************************************)
(* The kernel heap (mmngr_heap.cpp) as malloc, free and realloc use it     *)
(* (memory.cpp 10-51, one call at a time under the critlock).              *)
(*                                                                         *)
(* The list of block headers is in address order and starts at the heap's  *)
(* start address, so that the headers' addresses and used flags are the    *)
(* whole of it: the next block of b is the first header above b, and a     *)
(* block with no next reaches to the end of the heap.  Addresses count     *)
(* from the heap's start address.                                          *)
(***************************************************************************)
EXTENDS Integers, FiniteSets, FiniteSetsExt, Functions

CONSTANTS
  Size,      (* heap.size                                                  *)
  H,         (* sizeof(heap_block)                                         *)
  Requests   (* the sizes the callers ask for                              *)

ASSUME HeapAssumption ==
  /\ H \in Nat \ {0} /\ Size \in Nat /\ Size > H /\ Requests \subseteq Nat \ {0}

VARIABLES
  used,            (* header address -> heap_block.used                    *)
  current_blocks,  (* heap.current_blocks                                  *)
  held             (* history: address the callers hold -> size asked for  *)

heapVars == <<used, current_blocks, held>>

Header == DOMAIN used

-----------------------------------------------------------------------------
\* The ends a block may have: the headers above it and the end of the heap.
Ends(b) == {e \in Header \cup {Size} : e > b}

End(b) == Min(Ends(b))

\* heap_block_size, had b its end at e.
Room(b, e) == e - b - H

\* The ends block b may get by merging the unused blocks that follow it.
Reach(b) == {e \in Ends(b) : \A h \in Header : b < h /\ h < e => ~used[h]}

\* The search of heap_alloc merges as it goes, so that it stops only at the
\* first block of each run of unused ones.
RunStarts == {b \in Header : ~used[b] /\ \A h \in Header : End(h) = b => used[h]}

\* heap_front_merge_size_fit succeeds for these starts.
Fitting(r) == {b \in RunStarts : \E e \in Reach(b) : Room(b, e) >= r}

\* The headers the search leaves below address limit: those of used blocks and
\* of the runs it has merged.
Searched(limit) == {h \in Header : h < limit /\ (used[h] \/ h \in RunStarts)}

\* Where the merging for r stops.
FitEnd(b, r) == Min({e \in Reach(b) : Room(b, e) >= r})

\* heap_alloc squeezes a block into what is left when there is place for it.
Split(b, r, e) == r + H < Room(b, e)

-----------------------------------------------------------------------------
\* What a successful heap_alloc of r makes of the headers.
Allotted(r) ==
  LET b == Min(Fitting(r))
      e == FitEnd(b, r)
      kept == Searched(b + 1) \cup {h \in Header : h >= e}
      new  == IF Split(b, r, e) THEN {b + H + r} ELSE {}
  IN  [h \in kept \cup new |-> IF h = b THEN TRUE
                               ELSE IF h \in new THEN FALSE ELSE used[h]]

\* What heap_alloc of r leaves; a failed search has merged every run.
AfterAlloc(r) ==
  IF Fitting(r) = {} THEN Restrict(used, Searched(Size)) ELSE Allotted(r)

\* The header that follows b among the headers of u, if any
Following(u, b) == {h \in DOMAIN u : h > b /\ \A g \in DOMAIN u : g > b => h <= g}

\* Faulty form of AfterFree: what follows is merged although it is used.
AfterFreeMerging(u, b) ==
  [h \in DOMAIN u \ Following(u, b) |-> h # b /\ u[h]]

\* What heap_free of block b makes of the headers u: b is merged with its next
\* block if that is unused, with no other.
AfterFree(u, b) ==
  [h \in DOMAIN u \ {h \in Following(u, b) : ~u[h]} |-> h # b /\ u[h]]

\* heap_block_create adds one to current_blocks, every merge takes one away.
Recount(u) ==
  current_blocks + Cardinality(DOMAIN u \ Header) - Cardinality(Header \ DOMAIN u)

-----------------------------------------------------------------------------
\* heap_create
HeapInit ==
  /\ used = [h \in {0} |-> FALSE]
  /\ current_blocks = 1
  /\ held = <<>>

\* What is held once address a is, with size r
Taken(hl, a, r) == [x \in DOMAIN hl \cup {a} |-> IF x = a THEN r ELSE hl[x]]

HeapBecomes(u) == used' = u /\ current_blocks' = Recount(u)

\* malloc; 0 is returned when nothing fits.
Malloc(r) ==
  /\ HeapBecomes(AfterAlloc(r))
  /\ held' = IF Fitting(r) = {} THEN held ELSE Taken(held, Min(Fitting(r)) + H, r)

\* free of an address malloc returned
Free(a) ==
  /\ HeapBecomes(AfterFree(used, a - H))
  /\ held' = Restrict(held, DOMAIN held \ {a})

\* realloc: the same address when the block has that very size, else a new
\* block and the old one is freed; without memory the old one stays.
Realloc(a, r) ==
  /\ Room(a - H, End(a - H)) # r
  /\ IF Fitting(r) = {}
     THEN HeapBecomes(AfterAlloc(r)) /\ UNCHANGED held
     ELSE LET new == Min(Fitting(r)) + H
          IN  /\ HeapBecomes(AfterFree(Allotted(r), a - H))
              /\ held' = Taken(Restrict(held, DOMAIN held \ {a}), new, r)

ReallocSame(a, r) ==
  /\ Room(a - H, End(a - H)) = r
  /\ held' = [held EXCEPT ![a] = r]
  /\ UNCHANGED <<used, current_blocks>>

\* heap_defrag
Defrag == HeapBecomes(Restrict(used, Searched(Size))) /\ UNCHANGED held

HeapNext ==
  \/ \E r \in Requests : Malloc(r)
  \/ \E a \in DOMAIN held : Free(a) \/ \E r \in Requests : Realloc(a, r) \/ ReallocSame(a, r)
  \/ Defrag

HeapSpec == HeapInit /\ [][HeapNext]_heapVars

-----------------------------------------------------------------------------
\* The bytes from a on
Bytes(a, n) == a .. a + n - 1

\* What a caller holds lies in the heap, apart from what any other caller holds
\* and from every block header, whatever merges and splits have been made
\* (heap_alloc 93-107, heap_free 132-137).
AllocationsApart ==
  \A a \in DOMAIN held :
    /\ Bytes(a, held[a]) \subseteq 0 .. Size - 1
    /\ \A b \in DOMAIN held \ {a} : Bytes(a, held[a]) \cap Bytes(b, held[b]) = {}
    /\ \A h \in Header : Bytes(a, held[a]) \cap Bytes(h, H) = {}

\* The used blocks are those the callers hold: none is lost to them by a failed
\* realloc or given twice (heap_realloc 191-199).
UsedBlocksAreHeld == {h \in Header : used[h]} = {a - H : a \in DOMAIN held}

\* heap.current_blocks counts the blocks of the list after every merge and
\* split (h->current_blocks++ and -- at 23, 40, 136 and 219).
CountsBlocks == current_blocks = Cardinality(Header)

\* malloc fails only when no r bytes and a header lie together outside the used
\* blocks: the merging search misses no place (heap_front_merge_size_fit 47-58).
FindsEveryPlace ==
  \A r \in Requests :
    (\E x \in 0 .. Size - H - r :
       \A h \in Header : used[h] => (h .. End(h) - 1) \cap Bytes(x, H + r) = {})
      => Fitting(r) # {}

\* Through every sequence of calls, failed reallocations included: allocations
\* apart, no block lost to its owner, the right count, and every place found
\* (mmngr_heap.cpp).
HeapSound == AllocationsApart /\ UsedBlocksAreHeld /\ CountsBlocks /\ FindsEveryPlace
=============================================================================
