----------------------------- MODULE MCDisk --------------------------------
(***************************************************************************)
(* Instances of DiskStart and AhciPort for TLC: the disk controller while  *)
(* it is found and started, and a port of it in use.  They share nothing   *)
(* that changes: one moves and the other stays as it was initialised.      *)
(* Three clients use the port; of two controllers one has no drive, and    *)
(* ports 1, 15 and 31 are at ends of ranges.                               *)
(***************************************************************************)
EXTENDS AhciPort, DiskStart

CONSTANTS client1, client2, client3, requestSem, callbackSem

VARIABLE part      (* the part that moves                                  *)

MCInitialValue == requestSem :> 1 @@ callbackSem :> 0

MCFound ==
  <<0, 0, 0>> :> "other" @@ <<0, 1, 0>> :> "empty" @@ <<0, 1, 2>> :> "nic"
    @@ <<0, 2, 0>> :> "full" @@ <<1, 0, 0>> :> "full"
MCAttached ==
  "empty" :> (0 :> "none" @@ 1 :> "atapi")
    @@ "full" :> (0 :> "sata" @@ 1 :> "atapi" @@ 15 :> "sata" @@ 31 :> "sata")

diskVars == <<part, ahciVars, startVars>>

DiskInit ==
  /\ part \in {"port", "start"}
  /\ AhciInit /\ StartInit

AllButPort == <<part, startVars>>

DiskNext ==
  \/ part = "port" /\ AhciNext /\ UNCHANGED AllButPort
  \/ part = "start" /\ StartNext /\ UNCHANGED <<part, ahciVars>>

\* The fairness is that of AhciFairSpec.
DiskFairSpec ==
  /\ DiskInit /\ [][DiskNext]_diskVars
  /\ \A s \in 0 .. Slot : WF_diskVars(part = "port" /\ Complete(s) /\ UNCHANGED AllButPort)
  /\ WF_diskVars(part = "port" /\ Callback /\ UNCHANGED AllButPort)
  /\ \A c \in Client : WF_diskVars(part = "port" /\ Transfer(c) /\ UNCHANGED AllButPort)
=============================================================================
