---------------------------- MODULE MCKeyboard ----------------------------
(* Instances of Keyboard for TLC: the daemon, the reader and the idle thread *)
(* with the order of their priorities in the kernel (1, 3 and 7).            *)
EXTENDS Keyboard, TLC

CONSTANTS idle, init, daemon, press, release

MCThread == {idle, init, daemon}
MCPrio == daemon :> 0 @@ init :> 1 @@ idle :> 2
=============================================================================
