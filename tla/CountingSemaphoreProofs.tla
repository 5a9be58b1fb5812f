---------------------- MODULE CountingSemaphoreProofs ----------------------
(***************************************************************************)
(* What the semaphore calls do to the counts and the lines, for every set  *)
(* of clients, and that the line of a semaphore is empty while it has a    *)
(* permit to give.                                                         *)
(***************************************************************************)
EXTENDS CountingSemaphore, KernelListsProofs

SemaphoreTypeOK ==
  /\ value \in [Semaphore -> Nat]
  /\ queue \in [Semaphore -> Seq(Client)]

LEMMA EmptyLine == Nodes(<<>>) = {}
  BY DEF Nodes

\* Only the count or the line of the semaphore changes, by one.
LEMMA WaitEffect ==
  ASSUME SemaphoreTypeOK, NEW s \in Semaphore, NEW c \in Client, Wait(c, s)
  PROVE  /\ SemaphoreTypeOK'
         /\ \A t \in Semaphore : t # s => value'[t] = value[t] /\ queue'[t] = queue[t]
         /\ \/ value[s] > 0 /\ value'[s] = value[s] - 1 /\ queue'[s] = queue[s]
            \/ value[s] = 0 /\ value'[s] = 0 /\ queue'[s] = InsertBackNode(queue[s], c)
<1>1. CASE value[s] > 0 /\ value' = [value EXCEPT ![s] = @ - 1] /\ UNCHANGED queue
  BY <1>1 DEF SemaphoreTypeOK
<1>2. CASE value[s] = 0 /\ queue' = [queue EXCEPT ![s] = InsertBackNode(@, c)] /\ UNCHANGED value
  <2>1. InsertBackNode(queue[s], c) \in Seq(Client)
    BY DEF SemaphoreTypeOK, InsertBackNode
  <2> QED BY <1>2, <2>1 DEF SemaphoreTypeOK
<1> QED BY <1>1, <1>2 DEF Wait

LEMMA SignalEffect ==
  ASSUME SemaphoreTypeOK, NEW s \in Semaphore, Signal(s)
  PROVE  /\ SemaphoreTypeOK'
         /\ \A t \in Semaphore : t # s => value'[t] = value[t] /\ queue'[t] = queue[t]
         /\ \/ queue[s] # <<>> /\ queue'[s] = RemoveFrontNode(queue[s]) /\ value'[s] = value[s]
            \/ queue[s] = <<>> /\ queue'[s] = <<>> /\ value'[s] = value[s] + 1
<1>1. CASE queue[s] # <<>> /\ queue' = [queue EXCEPT ![s] = RemoveFrontNode(@)] /\ UNCHANGED value
  <2>1. RemoveFrontNode(queue[s]) \in Seq(Client)
    BY <1>1 DEF SemaphoreTypeOK, RemoveFrontNode
  <2> QED BY <1>1, <2>1 DEF SemaphoreTypeOK
<1>2. CASE queue[s] = <<>> /\ value' = [value EXCEPT ![s] = @ + 1] /\ UNCHANGED queue
  BY <1>2 DEF SemaphoreTypeOK
<1> QED BY <1>1, <1>2 DEF Signal

-----------------------------------------------------------------------------
\* Nobody waits while there is a permit, and who waits is in one line, once.
NoIdlePermit == \A s \in Semaphore : value[s] > 0 => queue[s] = <<>>
LinedUpOnce ==
  /\ \A s \in Semaphore : NoDuplicates(queue[s])
  /\ \A s, t \in Semaphore : s # t => Nodes(queue[s]) \cap Nodes(queue[t]) = {}

LinesInv == SemaphoreTypeOK /\ NoIdlePermit /\ LinedUpOnce

LEMMA WaitKeepsLines ==
  ASSUME LinesInv, NEW s \in Semaphore, NEW c \in Client, Wait(c, s)
  PROVE  LinesInv'
<1>1. /\ SemaphoreTypeOK /\ SemaphoreTypeOK'
      /\ \A t \in Semaphore : t # s => value'[t] = value[t] /\ queue'[t] = queue[t]
      /\ \/ value[s] > 0 /\ value'[s] = value[s] - 1 /\ queue'[s] = queue[s]
         \/ value[s] = 0 /\ value'[s] = 0 /\ queue'[s] = InsertBackNode(queue[s], c)
  BY WaitEffect DEF LinesInv
<1>2. \A t \in Semaphore : c \notin Nodes(queue[t])
  BY DEF Wait, Queued
<1>3. queue[s] \in Seq(Client) /\ NoDuplicates(queue[s])
  BY DEF LinesInv, SemaphoreTypeOK, LinedUpOnce
<1>4. NoDuplicates(queue'[s]) /\ Nodes(queue'[s]) \subseteq Nodes(queue[s]) \cup {c}
  BY <1>1, <1>2, <1>3, InsertBackNodeFacts
<1>5. NoIdlePermit'
  BY <1>1 DEF LinesInv, NoIdlePermit, SemaphoreTypeOK
<1>6. LinedUpOnce'
  BY <1>1, <1>2, <1>4 DEF LinesInv, LinedUpOnce
<1> QED BY <1>1, <1>5, <1>6 DEF LinesInv

LEMMA SignalKeepsLines ==
  ASSUME LinesInv, NEW s \in Semaphore, Signal(s)
  PROVE  LinesInv'
<1>1. /\ SemaphoreTypeOK /\ SemaphoreTypeOK'
      /\ \A t \in Semaphore : t # s => value'[t] = value[t] /\ queue'[t] = queue[t]
      /\ \/ queue[s] # <<>> /\ queue'[s] = RemoveFrontNode(queue[s]) /\ value'[s] = value[s]
         \/ queue[s] = <<>> /\ queue'[s] = <<>> /\ value'[s] = value[s] + 1
  BY SignalEffect DEF LinesInv
<1>2. queue[s] \in Seq(Client) /\ NoDuplicates(queue[s])
  BY DEF LinesInv, SemaphoreTypeOK, LinedUpOnce
<1>3. NoDuplicates(queue'[s]) /\ Nodes(queue'[s]) \subseteq Nodes(queue[s])
  BY <1>1, <1>2, RemoveFrontNodeFacts, EmptyLine DEF NoDuplicates
<1>4. NoIdlePermit'
  BY <1>1 DEF LinesInv, NoIdlePermit, SemaphoreTypeOK
<1>5. LinedUpOnce'
  BY <1>1, <1>3 DEF LinesInv, LinedUpOnce
<1> QED BY <1>1, <1>4, <1>5 DEF LinesInv

\* A counting semaphore keeps no permit while a client waits for it, and lines
\* a client up once: what every user of semaphore.cpp relies on.
THEOREM NoPermitIsIdle == SemaphoreSpec => [](NoIdlePermit /\ LinedUpOnce)
<1>1. SemaphoreInit => LinesInv
  BY CountingSemaphoreAssumption, EmptyLine
     DEF SemaphoreInit, LinesInv, SemaphoreTypeOK, NoIdlePermit, LinedUpOnce, NoDuplicates
<1>2. LinesInv /\ [SemaphoreNext]_<<value, queue>> => LinesInv'
  <2> SUFFICES ASSUME LinesInv, [SemaphoreNext]_<<value, queue>> PROVE LinesInv'
    OBVIOUS
  <2>1. ASSUME UNCHANGED <<value, queue>> PROVE LinesInv'
    BY <2>1 DEF LinesInv, SemaphoreTypeOK, NoIdlePermit, LinedUpOnce
  <2> QED BY <2>1, WaitKeepsLines, SignalKeepsLines DEF SemaphoreNext
<1>3. LinesInv => NoIdlePermit /\ LinedUpOnce
  BY DEF LinesInv
<1> QED BY <1>1, <1>2, <1>3, PTL DEF SemaphoreSpec
=============================================================================
