---------------------------- MODULE MCStructures ----------------------------
(***************************************************************************)
(* Instances for TLC of the modules that share nothing with each other: in *)
(* a behaviour one part of them moves and the rest stay as they were       *)
(* created.  The rings have three places, so that they wrap and fill; the  *)
(* heap takes up to six blocks, and the requests fit exactly, leave place  *)
(* for a header only, or leave more; memory runs out while an area is      *)
(* being brought in, and comes back when a buffer is released.             *)
(***************************************************************************)
EXTENDS Containers, QueueSpsc, Pipe, Heap, AddressSpace, Processes

CONSTANTS value1, value2, writer, reader, slotsSem, messagesSem, creator1, creator2

VARIABLE part      (* the part that moves                                  *)

MCElement == {value1, value2}
MCValue == slotsSem :> 3 @@ messagesSem :> 0

Private(start, end, flagSet) == [start |-> start, end |-> end, flags |-> flagSet]
MCAreas ==
  { Private(1, 3, {"access", "write"}),                \* a program's area
    Private(2, 5, {"access"}),                         \* overlaps two others
    Private(4, 6, {"access", "write", "immediate"}),   \* the kernel heap
    Private(6, 8, {"access", "write"}),                \* the page cache
    Private(8, 9, {"access", "write", "immediate", "identity"}),    \* the screen
    Private(9, 10, {"access", "write", "identity"}) }  \* other devices

MCHome == creator1 :> 1 @@ creator2 :> 2

Parts == {"lists", "vector", "ordered", "mpmc", "queue", "pipe", "heap", "paging", "processes"}

structureVars == <<part, containerVars, vars, pipeVars, heapVars, pagingVars, processVars>>

StructuresInit ==
  /\ part \in Parts
  /\ ContainersInit /\ Init /\ HeapInit /\ PagingInit /\ ProcessesInit
  /\ PipeInit
  /\ part = "pipe" \/ (data = [p \in Place |-> value1] /\ char = [t \in Client |-> value1])

ContainersMove ==
  /\ \/ part = "lists" /\ ListStep
     \/ part = "vector" /\ VectorStep
     \/ part = "ordered" /\ OrderedStep
     \/ part = "mpmc" /\ RingStep
  /\ UNCHANGED <<part, vars, pipeVars, heapVars, pagingVars, processVars>>
QueueMoves ==
  /\ part = "queue" /\ Next
  /\ UNCHANGED <<part, containerVars, pipeVars, heapVars, pagingVars, processVars>>

AllButPipe == <<part, containerVars, vars, heapVars, pagingVars, processVars>>
PipeMoves == part = "pipe" /\ PipeNext /\ UNCHANGED AllButPipe

HeapMoves ==
  /\ part = "heap" /\ HeapNext
  /\ UNCHANGED <<part, containerVars, vars, pipeVars, pagingVars, processVars>>
PagingMoves ==
  /\ part = "paging" /\ PagingNext
  /\ UNCHANGED <<part, containerVars, vars, pipeVars, heapVars, processVars>>
ProcessesMove ==
  /\ part = "processes" /\ ProcessesNext
  /\ UNCHANGED <<part, containerVars, vars, pipeVars, heapVars, pagingVars>>
StructuresNext ==
  \/ ContainersMove \/ QueueMoves \/ PipeMoves \/ HeapMoves \/ PagingMoves
  \/ ProcessesMove

\* The fairness is that of PipeFairSpec.
StructuresFairSpec ==
  /\ StructuresInit /\ [][StructuresNext]_structureVars
  /\ \A w \in Writer : WF_structureVars(part = "pipe" /\ WriterStep(w) /\ UNCHANGED AllButPipe)
  /\ \A r \in Reader : WF_structureVars(part = "pipe" /\ ReaderStep(r) /\ UNCHANGED AllButPipe)
=============================================================================
