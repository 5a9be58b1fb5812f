----------------------------- MODULE Processes -----------------------------
(***************************************************************************)
(* Processes and the threads in them (process.cpp, kernel_stack.cpp): page *)
(* directories that are copies of the kernel's, kernel stacks from the     *)
(* buffers of the page cache, and thread_create, which loads the directory *)
(* of the new thread's process to write its stack while the scheduler loads*)
(* the directory of whatever thread it runs.  Blocks are those of          *)
(* PhysicalMemory; identifiers, which are only printed, are left out.      *)
(***************************************************************************)
EXTENDS PhysicalMemory, Sequences

CONSTANTS
  Creator,       (* the threads that create others                         *)
  Home,          (* the process each creator belongs to: 1 is the kernel   *)
  Table,         (* page tables a directory has room for                   *)
  CacheTable,    (* the one of the page cache, made before any process     *)
  StackBuffer,   (* the buffers of the page cache that are free by then    *)
  MaxProcesses, MaxThreads     (* bounds                                   *)

ASSUME ProcessesAssumption ==
  /\ Home \in [Creator -> 1 .. MaxProcesses] /\ \E c \in Creator : Home[c] = 1
  /\ CacheTable \in Table /\ StackBuffer \subseteq Nat \ {0}
  /\ MaxProcesses \in Nat \ {0} /\ MaxThreads \in Nat
  /\ MaxBlocks > 3

NoBuffer == 0            \* what an uninitialised TCB has for a stack here

VARIABLES
  blocks,        (* the bitmap of physical memory and its count             *)
  dirs,          (* directory -> (table -> its block, 0 when not present)   *)
  tables,        (* table's block -> (buffer -> the block of its page, 0)   *)
  procs,         (* the PCBs: their directory and the stacks of their TCBs  *)
  cr3,           (* the directory that is loaded                            *)
  running,       (* the creator that runs                                   *)
  doing,         (* creator -> where it is in creating a thread             *)
  alloced,       (* the marked buffers of the page cache                    *)
  holds,         (* history: block -> the thread whose stack was written    *)
  overlapped     (* history: a creation began while another was under way   *)

processVars == <<blocks, dirs, tables, procs, cr3, running, doing, alloced, holds, overlapped>>

Idle == [at |-> "idle"]
Directory(p) == procs[p].page_dir

\* vmmngr_switch_directory: no directory is an error nobody looks at.
Switched(d) == IF d = 0 THEN cr3 ELSE d

\* What directory d gives for the page of buffer b, 0 for a page fault.
PageOf(d, b) == IF dirs[d][CacheTable] = 0 THEN 0 ELSE tables[dirs[d][CacheTable]][b]

Runs(c, label) == running = c /\ doing[c].at = label
Moves(c, step) == doing' = [doing EXCEPT ![c] = step]

-----------------------------------------------------------------------------
\* Faulty form of CopyOf: the new directory starts empty.
CopyEmpty(d) == [t \in Table |-> 0]

\* vmmngr_map_kernel_space: the entries the kernel's directory has by now.
CopyOf(d) == dirs[d]

\* process_create with no directory given.  Without memory for one the process
\* is left with none.
process_create(c) ==
  /\ Runs(c, "idle") /\ Len(procs) < MaxProcesses
  /\ LET d == NextBlock(blocks)
     IN  /\ blocks' = Allocated(blocks)
         /\ dirs' = IF d = 0 THEN dirs
                    ELSE [e \in DOMAIN dirs \cup {d} |-> IF e = d THEN CopyOf(Directory(1)) ELSE dirs[e]]
         /\ procs' = Append(procs, [page_dir |-> d, threads |-> <<>>])
  /\ UNCHANGED <<tables, cr3, running, doing, alloced, holds, overlapped>>

\* A page fault of the running thread brings in the first page of a table, in
\* the directory that is loaded only (vmmngr_create_table).
TableFault(c, t) ==
  /\ running = c /\ dirs[cr3][t] = 0
  /\ LET b == NextBlock(blocks)
     IN  /\ b # 0
         /\ blocks' = Allocated(blocks)
         /\ dirs' = [dirs EXCEPT ![cr3][t] = b]
         /\ tables' = [e \in DOMAIN tables \cup {b} |-> IF e = b THEN [x \in StackBuffer |-> 0] ELSE tables[e]]
  /\ UNCHANGED <<procs, cr3, running, doing, alloced, holds, overlapped>>

-----------------------------------------------------------------------------
(* thread_create for process p, after kernel_stack_reserve *)

FreeStacks == StackBuffer \ alloced
FirstFreeBuffer == CHOOSE b \in FreeStacks : \A x \in FreeStacks : b <= x

\* The first free buffer is looked for...
FindStack(c, p) ==
  /\ Runs(c, "idle") /\ p \in DOMAIN procs
  /\ \A q \in DOMAIN procs : Len(procs[q].threads) < MaxThreads
  /\ overlapped' = (overlapped \/ \E d \in Creator : doing[d] # Idle)
  /\ IF FreeStacks = {} THEN UNCHANGED doing
     ELSE Moves(c, [at |-> "mark", proc |-> p, stack |-> FirstFreeBuffer])
  /\ UNCHANGED <<blocks, dirs, tables, procs, cr3, running, alloced, holds>>

\* ... and marked, and gets a page if it has none.  No page, no thread.
ReserveStack(c) ==
  /\ Runs(c, "mark")
  /\ LET b == doing[c].stack
         page == IF PageOf(cr3, b) # 0 THEN PageOf(cr3, b) ELSE NextBlock(blocks)
     IN  /\ blocks' = IF PageOf(cr3, b) # 0 THEN blocks ELSE Allocated(blocks)
         /\ IF page = 0
              THEN Moves(c, Idle) /\ UNCHANGED <<tables, alloced>>
              ELSE /\ alloced' = alloced \cup {b}
                   /\ tables' = [tables EXCEPT ![dirs[cr3][CacheTable]][b] = page]
                   /\ Moves(c, [doing[c] EXCEPT !.at = "insert"])
  /\ UNCHANGED <<dirs, procs, cr3, running, holds, overlapped>>

\* An uninitialised TCB is put at the end of the process's queue...
InsertThread(c) ==
  /\ Runs(c, "insert")
  /\ procs' = [procs EXCEPT ![doing[c].proc].threads = Append(@, NoBuffer)]
  /\ Moves(c, [doing[c] EXCEPT !.at = "tail"])
  /\ UNCHANGED <<blocks, dirs, tables, cr3, running, alloced, holds, overlapped>>

\* ... and the one that is last by now is filled in.  The directory that is
\* loaded is kept for later.
FillThread(c) ==
  /\ Runs(c, "tail")
  /\ LET p == doing[c].proc
         t == Len(procs[p].threads)
     IN  /\ procs' = [procs EXCEPT ![p].threads[t] = doing[c].stack]
         /\ Moves(c, [at |-> "switch", proc |-> p, stack |-> doing[c].stack, tcb |-> t, old_dir |-> cr3])
  /\ UNCHANGED <<blocks, dirs, tables, cr3, running, alloced, holds, overlapped>>

LoadDirectory(c) ==
  /\ Runs(c, "switch")
  /\ cr3' = Switched(Directory(doing[c].proc))
  /\ Moves(c, [doing[c] EXCEPT !.at = "write"])
  /\ UNCHANGED <<blocks, dirs, tables, procs, running, alloced, holds, overlapped>>

\* The parameters and the trap frame are written (thread_add_parameter,
\* thread_setup_execution_stack), with whatever directory is loaded now.
WriteStack(c) ==
  /\ Runs(c, "write")
  /\ LET page == PageOf(cr3, doing[c].stack)
     IN  holds' = IF page = 0 THEN holds ELSE [holds EXCEPT ![page] = <<doing[c].proc, doing[c].tcb>>]
  /\ Moves(c, [doing[c] EXCEPT !.at = "restore"])
  /\ UNCHANGED <<blocks, dirs, tables, procs, cr3, running, alloced, overlapped>>

RestoreDirectory(c) ==
  /\ Runs(c, "restore")
  /\ cr3' = Switched(doing[c].old_dir)
  /\ Moves(c, Idle)
  /\ UNCHANGED <<blocks, dirs, tables, procs, running, alloced, holds, overlapped>>

\* A timer interrupt: another creator runs, with the directory of its own
\* process, and so does the first one when it is back.
Preempt(c) ==
  /\ c # running /\ Home[c] \in DOMAIN procs
  /\ Home[c] = 1 \/ procs[Home[c]].threads # <<>>
  /\ running' = c
  /\ cr3' = Switched(Directory(Home[c]))
  /\ UNCHANGED <<blocks, dirs, tables, procs, doing, alloced, holds, overlapped>>

-----------------------------------------------------------------------------
\* kmain and proc_init_thread up to the first process: the kernel's directory is
\* block 1, the page cache's table block 2.
ProcessesInit ==
  /\ blocks = [bitmap |-> {0, 1, 2}, used |-> 3]
  /\ dirs = [d \in {1} |-> [t \in Table |-> IF t = CacheTable THEN 2 ELSE 0]]
  /\ tables = [b \in {2} |-> [x \in StackBuffer |-> 0]]
  /\ procs = <<[page_dir |-> 1, threads |-> <<>>]>>
  /\ cr3 = 1
  /\ running = CHOOSE c \in Creator : Home[c] = 1
  /\ doing = [c \in Creator |-> Idle]
  /\ alloced = {} /\ holds = [b \in Block |-> <<>>] /\ overlapped = FALSE

ThreadStep(c) ==
  \/ ReserveStack(c) \/ InsertThread(c) \/ FillThread(c)
  \/ LoadDirectory(c) \/ WriteStack(c) \/ RestoreDirectory(c)

ProcessesNext ==
  \E c \in Creator :
    \/ ThreadStep(c) \/ Preempt(c) \/ process_create(c)
    \/ \E p \in 1 .. MaxProcesses : FindStack(c, p)
    \/ \E t \in Table : TableFault(c, t)

ProcessesSpec == ProcessesInit /\ [][ProcessesNext]_processVars

-----------------------------------------------------------------------------
(* Properties *)

\* However the scheduler switches directories while thread_create has another
\* one loaded, and whatever tables processes add meanwhile, a new thread finds
\* its own trap frame at the top of its stack when its process's directory is
\* loaded.  Creations do not overlap: the search for a buffer and the tail of
\* the queue are not protected.
Created == {pt \in (DOMAIN procs) \X (1 .. MaxThreads) :
  /\ pt[2] \in DOMAIN procs[pt[1]].threads
  /\ \A c \in Creator : doing[c] # Idle => doing[c].proc # pt[1] \/ pt[2] < Len(procs[pt[1]].threads)}
StartsOnOwnStack ==
  ~overlapped => \A pt \in Created :
    Directory(pt[1]) # 0 =>
      holds[PageOf(Directory(pt[1]), procs[pt[1]].threads[pt[2]])] = pt
=============================================================================
