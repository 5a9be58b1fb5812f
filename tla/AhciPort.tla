----------------------------- MODULE AhciPort -----------------------------
(***************************************************************************)
(* The AHCI driver of AHCI.cpp: threads that transfer sectors through one  *)
(* port, the device that carries the commands out, and the interrupt       *)
(* handler.  One semaphore admits a transfer at a time, the other tells    *)
(* the thread that started it that the device has answered.                *)
(***************************************************************************)
EXTENDS CountingSemaphore

CONSTANTS
  request, callback,   (* ahci_request_sem, ahci_callback_sem              *)
  Slot,                (* the last command slot of the port                *)
  Count,               (* how many sectors a transfer may ask for          *)
  MaxSignals           (* bound on the permits of callback                 *)

ASSUME AhciPortAssumption ==
  /\ Semaphore = {request, callback} /\ request # callback
  /\ InitialValue[request] = 1 /\ InitialValue[callback] = 0
  /\ Slot \in Nat \ {0, 1} /\ Count \subseteq Nat \ {0}
  /\ MaxSignals \in Nat

NoCommand == [client |-> "nobody"]

VARIABLES
  stage,       (* where each client is in ahci_data_transfer                   *)
  count,    (* the sectors it asked for                                     *)
  ci,       (* port->ci: the commands issued and not completed, by slot     *)
  is,       (* port->is: an interrupt is pending                            *)
  moved,    (* history: the sectors the device moved for the client         *)
  gaveUp,   (* history: a transfer returned because the port stayed busy    *)
  surplus   (* history: the device interrupted with no command completed    *)

semaphores == <<value, queue>>
faults == <<gaveUp, surplus>>
ahciVars == <<semaphores, stage, count, ci, is, moved, faults>>

MoveTo(c, label) == stage' = [stage EXCEPT ![c] = label]

\* Client c is at a label and not in line for a semaphore.
At(c, label) == stage[c] = label /\ c \notin Queued

Commands == {s \in 0 .. Slot : ci[s] # NoCommand}

-----------------------------------------------------------------------------
(* ahci_data_transfer *)

\* It waits for its turn.
AwaitRequest(c, n) ==
  /\ At(c, "idle")
  /\ Wait(c, request)
  /\ count' = [count EXCEPT ![c] = n]
  /\ moved' = [moved EXCEPT ![c] = 0]
  /\ MoveTo(c, "clear")
  /\ UNCHANGED <<ci, is, faults>>

\* It clears the interrupts of the port.
ClearInterrupts(c) ==
  /\ At(c, "clear")
  /\ is' = FALSE
  /\ MoveTo(c, "issue")
  /\ UNCHANGED <<semaphores, count, ci, moved, faults>>

\* The first slot that is free, and the one after it, which is used.
EmptySlot == CHOOSE s \in 0 .. Slot :
               /\ s \notin Commands
               /\ \A r \in 0 .. s - 1 : r \in Commands

\* 16 sectors for each entry of the PRDT but the last.
Prdtl(n) == ((n - 1) \div 16) + 1
LastEntry(n) == n - 16 * (Prdtl(n) - 1)

\* The command goes out.  By then count holds the sectors of the last entry.
Issue(c) ==
  /\ At(c, "issue")
  /\ ci' = [ci EXCEPT ![EmptySlot + 1] =
              [client |-> c, sectors |-> LastEntry(count[c])]]
  /\ MoveTo(c, "wait")
  /\ UNCHANGED <<semaphores, count, is, moved, faults>>

\* The port is busy for 500 ms: an error is returned at once.
GiveUp(c) ==
  /\ At(c, "issue")
  /\ MoveTo(c, "idle")
  /\ gaveUp' = TRUE
  /\ UNCHANGED <<semaphores, count, ci, is, moved, surplus>>

\* It waits for the interrupt handler.
AwaitCallback(c) ==
  /\ At(c, "wait")
  /\ Wait(c, callback)
  /\ MoveTo(c, "done")
  /\ UNCHANGED <<count, ci, is, moved, faults>>

\* Faulty form of Finish: the next transfer is not let in.
FinishSilently(c) ==
  /\ At(c, "done")
  /\ MoveTo(c, "idle")
  /\ UNCHANGED <<semaphores, count, ci, is, moved, faults>>

\* It lets the next transfer in.
Finish(c) ==
  /\ At(c, "done")
  /\ Signal(request)
  /\ MoveTo(c, "idle")
  /\ UNCHANGED <<count, ci, is, moved, faults>>

-----------------------------------------------------------------------------
(* The device, and ahci_callback *)

\* A command completes, and the device interrupts.
Complete(s) ==
  /\ s \in Commands
  /\ moved' = [moved EXCEPT ![ci[s].client] = ci[s].sectors]
  /\ ci' = [ci EXCEPT ![s] = NoCommand]
  /\ is' = TRUE
  /\ UNCHANGED <<semaphores, stage, count, faults>>

\* The device interrupts for another cause: port->ie enables every one.
Interrupt ==
  /\ ~is
  /\ is' = TRUE
  /\ surplus' = TRUE
  /\ UNCHANGED <<semaphores, stage, count, ci, moved, gaveUp>>

\* Faulty form of Callback: the pending interrupt is not cleared.
CallbackAgain ==
  /\ is /\ value[callback] < MaxSignals
  /\ Signal(callback)
  /\ UNCHANGED <<stage, count, ci, is, moved, faults>>

\* ahci_callback: the pending interrupt is cleared and the client told.
Callback ==
  /\ is /\ value[callback] < MaxSignals
  /\ is' = FALSE
  /\ Signal(callback)
  /\ UNCHANGED <<stage, count, ci, moved, faults>>

-----------------------------------------------------------------------------
\* init_ahci
AhciInit ==
  /\ SemaphoreInit
  /\ stage = [c \in Client |-> "idle"]
  /\ count = [c \in Client |-> 0]
  /\ ci = [s \in 0 .. Slot |-> NoCommand]
  /\ is = FALSE
  /\ moved = [c \in Client |-> 0]
  /\ gaveUp = FALSE /\ surplus = FALSE

Transfer(c) ==
  \/ ClearInterrupts(c) \/ Issue(c) \/ AwaitCallback(c) \/ Finish(c)

Device == Interrupt \/ \E s \in 0 .. Slot : Complete(s)

AhciNext ==
  \/ Device \/ Callback
  \/ \E c \in Client : \/ Transfer(c) \/ GiveUp(c)
                       \/ \E n \in Count : AwaitRequest(c, n)

AhciSpec == AhciInit /\ [][AhciNext]_ahciVars

\* The device answers every command, its interrupt is served, and a client no
\* semaphore holds goes on.
AhciFairSpec ==
  /\ AhciSpec
  /\ \A s \in 0 .. Slot : WF_ahciVars(Complete(s))
  /\ WF_ahciVars(Callback)
  /\ \A c \in Client : WF_ahciVars(Transfer(c))

-----------------------------------------------------------------------------
(* Properties *)

(***************************************************************************)
(* Two clients never program the port at the same time, whatever the       *)
(* device does and however transfers fail: the permit of                   *)
(* ahci_request_sem is free, or with one client in its transfer, or was    *)
(* kept by a transfer that gave up on a busy port.                         *)
(***************************************************************************)
InTransfer == {c \in Client : stage[c] # "idle" /\ ~(stage[c] = "clear" /\ c \in Queued)}
OneRequest ==
  value[request] + Cardinality(InTransfer) = (IF gaveUp THEN 0 ELSE 1)

\* "the client must always wait for the callback to happen": as long as the
\* device interrupts for completed commands only, it has carried a command out
\* before its client goes on to use the data, and has moved the sectors that
\* ahci_fs_read reports as read if they fit one PRDT entry.
WaitsForDevice ==
  ~surplus => \A c \in Client : At(c, "done") =>
                /\ \A s \in Commands : ci[s].client # c
                /\ count[c] <= 16 => moved[c] = count[c]

\* A transfer that was asked for ends, unless an earlier one gave up.
TransfersEnd == \A c \in Client : stage[c] = "clear" ~> stage[c] = "idle" \/ gaveUp
=============================================================================
