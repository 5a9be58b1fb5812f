--------------------------- MODULE MCSemaphores ---------------------------
(* Instances of Semaphores for TLC: a mutex and a semaphore signalled by a   *)
(* device, used by three threads.                                            *)
EXTENDS Semaphores, TLC

CONSTANTS idle, init, worker1, worker2, mutex, completion

Workers == {worker1, worker2}
MCThread == {idle, init} \cup Workers

\* The workers share a priority; the idle thread has the lowest.
MCPrio == [t \in MCThread |-> IF t = idle THEN 2 ELSE IF t = init THEN 0 ELSE 1]
MCFlatPrio == [t \in MCThread |-> IF t = idle THEN 1 ELSE 0]

MCInitialValue == mutex :> 1 @@ completion :> 0
MCMutexValue == mutex :> 1

MCSymmetry == Permutations(Workers)
=============================================================================
