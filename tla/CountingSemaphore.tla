------------------------- MODULE CountingSemaphore -------------------------
(***************************************************************************)
(* What a semaphore promises, without threads or a scheduler: a count of   *)
(* permits and a line of clients.  A client is queued only when there is   *)
(* no permit, a signal is handed to the first client in line, and a queued *)
(* client does nothing until then.                                         *)
(***************************************************************************)
EXTENDS KernelLists

CONSTANTS
  Client,        (* who waits                                            *)
  Semaphore,     (* the semaphores                                       *)
  InitialValue   (* semaphore_init's initial_value of each               *)

ASSUME CountingSemaphoreAssumption == InitialValue \in [Semaphore -> Nat]

VARIABLES
  value,         (* permits nobody has taken                             *)
  queue          (* the clients in line for each semaphore               *)

Queued == UNION {Nodes(queue[s]) : s \in Semaphore}

\* Client c takes a permit or gets in line.
Wait(c, s) ==
  /\ c \notin Queued
  /\ \/ /\ value[s] > 0
        /\ value' = [value EXCEPT ![s] = @ - 1]
        /\ UNCHANGED queue
     \/ /\ value[s] = 0
        /\ queue' = [queue EXCEPT ![s] = InsertBackNode(@, c)]
        /\ UNCHANGED value

\* Faulty form of Signal: the permit is given to the last in line.
SignalLast(s) ==
  \/ /\ queue[s] # <<>>
     /\ queue' = [queue EXCEPT ![s] = SubSeq(@, 1, Len(@) - 1)]
     /\ UNCHANGED value
  \/ /\ queue[s] = <<>>
     /\ value' = [value EXCEPT ![s] = @ + 1]
     /\ UNCHANGED queue

\* A permit is given to the first in line, or kept.
Signal(s) ==
  \/ /\ queue[s] # <<>>
     /\ queue' = [queue EXCEPT ![s] = RemoveFrontNode(@)]
     /\ UNCHANGED value
  \/ /\ queue[s] = <<>>
     /\ value' = [value EXCEPT ![s] = @ + 1]
     /\ UNCHANGED queue

SemaphoreInit ==
  /\ value = InitialValue
  /\ queue = [s \in Semaphore |-> <<>>]

SemaphoreNext == \E s \in Semaphore : Signal(s) \/ \E c \in Client : Wait(c, s)

SemaphoreSpec == SemaphoreInit /\ [][SemaphoreNext]_<<value, queue>>

=============================================================================
