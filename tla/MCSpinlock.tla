---------------------------- MODULE MCSpinlock ----------------------------
(* Instances of Spinlock for TLC: two or three threads of one priority.      *)
EXTENDS Spinlock, TLC

CONSTANTS idle, init, worker

MCThread == {idle, init, worker}
MCPrio == [t \in MCThread |-> IF t = idle THEN 1 ELSE 0]
=============================================================================
