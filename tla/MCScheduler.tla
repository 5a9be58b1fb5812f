---------------------------- MODULE MCScheduler ----------------------------
(* Instances of Scheduler for TLC: the idle thread, the initial thread, a   *)
(* daemon of higher priority and two workers of the initial thread's.       *)
EXTENDS Scheduler, TLC

CONSTANTS idle, init, worker1, worker2, daemon

Workers == {worker1, worker2}
MCThread == {idle, init, daemon} \cup Workers

\* Three of the eight priorities: the daemon's, the workers', the idle one.
MCPrio == daemon :> 0 @@ init :> 1 @@ idle :> 2 @@ [w \in Workers |-> 1]

\* The workers run the same code.
MCSymmetry == Permutations(Workers)
=============================================================================
