---------------------------- MODULE AddressSpace ----------------------------
(***************************************************************************)
(* The address space of a process: its memory contract, its page directory *)
(* and tables (mmngr_virtual.cpp) and the buffers of the page cache that   *)
(* live in it (page_cache.cpp), with the physical memory all of them use.  *)
(* One thread runs: every call below is a whole one.                       *)
(*                                                                         *)
(* Areas are private and anonymous.  Addresses are page numbers; the pages *)
(* of [Mmio, High) and those of the areas that map a page to itself (the   *)
(* memory of the screen) stand for memory-mapped devices, above all blocks.*)
(***************************************************************************)
EXTENDS PhysicalMemory, VmContract, FiniteSetsExt

CONSTANTS
  Mmio,            (* first page of the memory-mapped devices, 0xF0000000  *)
  TablePages,      (* the pages of a page table, 1024                      *)
  Areas,           (* the areas vfs_mmap is asked for                      *)
  CacheStart,      (* first page of the page cache                         *)
  CacheBuffers,    (* no_buffers of page_cache_init                        *)
  FreeStart, FreeLength,         (* the region the BIOS reports as free    *)
  KernelStart, KernelLength      (* the blocks of the kernel's image       *)

ASSUME AddressSpaceAssumption ==
  /\ Mmio \in Low .. High - 1 /\ MaxBlocks <= Mmio /\ TablePages \in Nat \ {0}
  /\ Flag = {"access", "write", "immediate", "identity"}
  /\ Areas \subseteq Area
  /\ CacheStart \in Nat /\ CacheBuffers \in Nat \ {0}
  /\ CacheStart .. CacheStart + CacheBuffers - 1 \subseteq Low .. Mmio - 1
  /\ {FreeStart, FreeLength, KernelStart, KernelLength} \subseteq Nat

\* The areas that are mapped to themselves are the devices' (kernel.cpp 474,
\* screen_gfx.cpp 98), and the page cache's is another.
ASSUME IdentityAssumption ==
  \A a \in Areas : "identity" \in a.flags =>
    /\ a.start >= MaxBlocks
    /\ \A p \in CacheStart .. CacheStart + CacheBuffers - 1 : ~(a.start <= p /\ p < a.end)

VARIABLES
  contract,           (* memory_contract                                   *)
  contract_spinlock,  (* 1 while taken                                     *)
  memory,             (* the bitmap and the count of used blocks           *)
  directory,          (* table -> its frame, 0 when not present            *)
  page_table,         (* page -> its entry                                 *)
  alloced_bitmap,     (* the buffers of the page cache in use              *)
  panicked,
  leaked,             (* history: blocks no entry was given for            *)
  mapFailed           (* history: vfs_mmap has been refused an area        *)

pagingVars == <<contract, contract_spinlock, memory, directory, page_table,
          alloced_bitmap, panicked, leaked, mapFailed>>
paging == <<memory, directory, page_table, leaked>>

Page == Low .. High - 1
TableOf(p) == p \div TablePages
Buffer == 0 .. CacheBuffers - 1

\* The part of the state the paging functions work on.
Space == [memory |-> memory, directory |-> directory,
          page_table |-> page_table, leaked |-> leaked]

Becomes(s) ==
  /\ memory' = s.memory /\ directory' = s.directory
  /\ page_table' = s.page_table /\ leaked' = s.leaked

-----------------------------------------------------------------------------
\* vmmngr_map_page: the table of p is made when it is missing
\* (vmmngr_create_table); nothing happens when there is no block for it.
MapPage(s, p, frame) ==
  LET t == TableOf(p)
      table == IF s.directory[t] # 0 THEN s.directory[t] ELSE NextBlock(s.memory)
      now == IF s.directory[t] # 0 THEN s.memory ELSE Allocated(s.memory)
  IN  IF table = 0 THEN s
      ELSE [s EXCEPT !.memory = now, !.directory[t] = table,
                     !.page_table[p] = [present |-> TRUE, frame |-> frame]]

\* A page that takes a new block; the block is lost when the table cannot be
\* made.
MapNewBlock(s, p) ==
  LET frame  == NextBlock(s.memory)
      mapped == MapPage([s EXCEPT !.memory = Allocated(@)], p, frame)
  IN  IF frame = 0 THEN s
      ELSE IF mapped.page_table[p].present THEN mapped
      ELSE [mapped EXCEPT !.leaked = @ \cup {frame}]

\* vmmngr_alloc_page_f
AllocPageF(s, p) ==
  IF s.page_table[p].present THEN MapPage(s, p, s.page_table[p].frame)
  ELSE IF p < Mmio THEN MapNewBlock(s, p) ELSE MapPage(s, p, p)

\* vmmngr_free_page: the entry keeps its frame.
FreePage(s, p) ==
  [s EXCEPT !.memory = IF s.page_table[p].frame = 0 THEN @
                       ELSE Freed(@, s.page_table[p].frame),
            !.page_table[p].present = FALSE]

\* page_fault_alloc_page; what the calls return is not looked at.
ServePage(s, area, p) ==
  IF "identity" \in area.flags THEN MapPage(s, p, p) ELSE AllocPageF(s, p)

\* The mapping part of page_fault_bottom: the whole area when it is to be
\* allocated at once, page after page, else the page of the fault.
Served(s, area, p) ==
  IF "immediate" \in area.flags
  THEN LET after[n \in 0 .. area.end - area.start] ==
             IF n = 0 THEN s ELSE ServePage(after[n - 1], area, area.start + n - 1)
       IN  after[area.end - area.start]
  ELSE ServePage(s, area, p)

\* The tests of page_fault_bottom that do not end in PANIC
Legal(p, write) ==
  LET area == FindArea(contract, p)
  IN  /\ area # NoArea
      /\ "access" \in area.flags
      /\ write => "write" \in area.flags

-----------------------------------------------------------------------------
\* At boot (kernel.cpp 902-923) all blocks are in use, the free region is
\* given back and the kernel's own blocks are taken again, then the page
\* directory takes a block.
BootMemory ==
  ReserveRegion(FreeRegion(PmmngrInit, FreeStart, FreeLength), KernelStart, KernelLength)

PagingInit ==
  /\ contract = ContractInit
  /\ contract_spinlock = 0
  /\ memory = Allocated(BootMemory)
  /\ directory = [t \in {TableOf(p) : p \in Page} |-> 0]
  /\ page_table = [p \in Page |-> [present |-> FALSE, frame |-> 0]]
  /\ alloced_bitmap = {CacheBuffers - 1}    \* the bitmap's own buffer
  /\ panicked = FALSE /\ leaked = {} /\ mapFailed = FALSE

\* Faulty form of Mmap: the lock stays taken on success as well.
MmapKeepsLock(a) ==
  /\ ~panicked /\ contract_spinlock = 0
  /\ contract_spinlock' = 1
  /\ contract' = IF MayAdd(contract, a) THEN Inserted(contract, a) ELSE contract
  /\ mapFailed' = (mapFailed \/ ~MayAdd(contract, a))
  /\ UNCHANGED <<memory, directory, page_table, alloced_bitmap, panicked, leaked>>

\* vfs_mmap_p: it waits for the lock, and leaves it taken when the area is
\* refused.
Mmap(a) ==
  /\ ~panicked /\ contract_spinlock = 0
  /\ IF MayAdd(contract, a)
     THEN /\ contract' = Inserted(contract, a)
          /\ UNCHANGED <<contract_spinlock, mapFailed>>
     ELSE /\ contract_spinlock' = 1 /\ mapFailed' = TRUE
          /\ UNCHANGED contract
  /\ UNCHANGED <<paging, alloced_bitmap, panicked>>

\* page_fault_bottom for a page that is not present
Fault(p, write) ==
  /\ ~panicked /\ ~page_table[p].present
  /\ IF contract_spinlock = 0 /\ Legal(p, write)
     THEN Becomes(Served(Space, FindArea(contract, p), p)) /\ UNCHANGED panicked
     ELSE panicked' = TRUE /\ UNCHANGED paging
  /\ UNCHANGED <<contract, contract_spinlock, alloced_bitmap, mapFailed>>

\* page_cache_reserve_anonymous: the first free buffer gets a page; its mark
\* is taken back when there is no memory.
ReserveAnonymous ==
  /\ ~panicked /\ Buffer \ alloced_bitmap # {}
  /\ LET b == Min(Buffer \ alloced_bitmap)
         p == CacheStart + b
         s == AllocPageF(Space, p)
     IN  /\ Becomes(s)
         /\ alloced_bitmap' = IF s.page_table[p].present THEN alloced_bitmap \cup {b}
                                                         ELSE alloced_bitmap
  /\ UNCHANGED <<contract, contract_spinlock, panicked, mapFailed>>

\* page_cache_release_anonymous of a buffer a caller has reserved
ReleaseAnonymous(b) ==
  /\ ~panicked /\ b \in alloced_bitmap \ {CacheBuffers - 1}
  /\ alloced_bitmap' = alloced_bitmap \ {b}
  /\ Becomes(FreePage(Space, CacheStart + b))
  /\ UNCHANGED <<contract, contract_spinlock, panicked, mapFailed>>

PagingNext ==
  \/ \E a \in Areas : Mmap(a)
  \/ \E p \in Page, write \in BOOLEAN : Fault(p, write)
  \/ ReserveAnonymous
  \/ \E b \in Buffer : ReleaseAnonymous(b)

PagingSpec == PagingInit /\ [][PagingNext]_pagingVars

-----------------------------------------------------------------------------
Present == {p \in Page : page_table[p].present}
DevicePage == {p \in Page : p >= Mmio \/ "identity" \in FindArea(contract, p).flags}
Backed == Present \ DevicePage
TableFrames == {directory[t] : t \in DOMAIN directory} \ {0}
BootBlocks == Allocated(BootMemory).bitmap

\* The areas of the contract are in order and apart, and the binary searches
\* agree with them (vm_contract_add_area 66-100, vm_contract_find_area).
AreasInOrder == ContractInOrder(contract)

\* A block backs one page or one table, and neither a device's page nor what
\* the kernel was loaded to (pmmngr_alloc_block 197-216, vmmngr_alloc_page_f).
FramesExclusive ==
  /\ \A p, q \in Backed : p # q => page_table[p].frame # page_table[q].frame
  /\ \A t, u \in DOMAIN directory : t # u => directory[t] = 0 \/ directory[t] # directory[u]
  /\ \A p \in Backed : page_table[p].frame \notin TableFrames \cup BootBlocks \cup leaked
  /\ \A p \in Present \cap DevicePage : page_table[p].frame = p /\ p \notin Block

\* The count of used blocks is right, and every block in use is one of the
\* kernel's, of a table, of a page or one lost for want of a table: nothing
\* else is lost by faults, reservations and releases, failed ones included
\* (vmmngr_alloc_page_f 272-302, page_cache_reserve_anonymous 156-160).
FramesAccounted ==
  /\ memory.used = Cardinality(memory.bitmap)
  /\ memory.bitmap = BootBlocks \cup TableFrames \cup leaked
                       \cup {page_table[p].frame : p \in Backed}

\* What every sequence of mappings, faults, reservations and releases keeps,
\* those included that fail half way for want of a block.
AddressSpaceSound == AreasInOrder /\ FramesExclusive /\ FramesAccounted

\* A page fault on a page of an area that allows it brings the page in and does
\* not end in PANIC, unless memory runs out meanwhile or vfs_mmap has left the
\* contract's lock taken (page_fault_bottom 95-152).
LegalFaultsServed ==
  [][\A p \in Page, write \in BOOLEAN :
       ~mapFailed /\ Legal(p, write) /\ Fault(p, write)
         => ~panicked' /\ (page_table'[p].present \/ NextBlock(memory') = 0)]_pagingVars
=============================================================================
