----------------------------- MODULE DiskStart -----------------------------
(***************************************************************************)
(* How the kernel finds the disk controller and starts it: the walk over   *)
(* the PCI bus (PCI.cpp) and init_ahci (AHCI.cpp), port by port, while the *)
(* device stops, starts, answers the identify command and interrupts in    *)
(* its own time.  Interrupts are unmasked here, whatever kernel.cpp:501    *)
(* says: vmmngr_alloc_page flushes a TLB entry and that ends with sti.     *)
(***************************************************************************)
EXTENDS Integers, FiniteSets, TLC

CONSTANTS
  Buses, Devices,      (* how many there are: 256 and 32                   *)
  Functions,           (* how many functions a device has: 8               *)
  Found,               (* <<bus, device, function>> -> what answers there  *)
  Attached,            (* Controller -> (implemented port -> what is there)*)
  AHCI_BASE, TopOfDma, (* the memory between them is for the controller    *)
  CommandSlots         (* 32                                               *)

Controller == DOMAIN Attached
Drive == {"sata", "atapi", "semb", "multiplier", "none"}
NoController == "none"

ASSUME DiskStartAssumption ==
  /\ {Buses, Devices, Functions, CommandSlots} \subseteq Nat \ {0}
  /\ \A at \in DOMAIN Found : Found[at] \in Controller \cup {"nic", "other"}
  /\ \A c \in Controller : \A p \in DOMAIN Attached[c] : p \in 0..31 /\ Attached[c][p] \in Drive
  /\ CommandSlots <= 32
  /\ AHCI_BASE \in Nat /\ TopOfDma \in Nat /\ TopOfDma >= AHCI_BASE + 296 * 1024

VARIABLES
  at,            (* <<bus, device, function>>: where the walk is            *)
  ab,            (* the controller that was found                           *)
  nics,          (* how often e1000_start was called                        *)
  phase, port,   (* where init_ahci is, and the port it is at             *)
  cmd,           (* port -> the bits of port->cmd: ST, CR, FRE, FR          *)
  areas,         (* port -> the memory its registers and headers name       *)
  port_ok,       (* the ports ready for use                                 *)
  nodes,         (* the ports with a device node                            *)
  pending,       (* the ports with an interrupt pending                     *)
  enabled,       (* GHC.IE                                                  *)
  permits        (* the count of ahci_callback_sem                          *)

probeVars == <<at, ab, nics>>
portVars == <<cmd, areas, port_ok, nodes, pending>>
startVars == <<probeVars, portVars, phase, port, enabled, permits>>

-----------------------------------------------------------------------------
(* PCI.cpp *)

\* PCIReadRegister: an absent function reads as ones.
Answers(a) == a \in DOMAIN Found

\* check_type and CheckAHCIType: the first SATA drive makes the controller ours.
HasDisk(c) == \E p \in DOMAIN Attached[c] : Attached[c][p] = "sata"

\* check: a later controller with a drive replaces an earlier one.
Check(a) ==
  /\ ab' = IF Answers(a) /\ Found[a] \in Controller /\ HasDisk(Found[a]) THEN Found[a] ELSE ab
  /\ nics' = IF Answers(a) /\ Found[a] = "nic" THEN nics + 1 ELSE nics

\* The header type of function 0 says whether the device has others.
Multifunction(a) == \E f \in 1 .. Functions - 1 : Answers(<<a[1], a[2], f>>)

\* The device counter is not reset: the buses after the first are not visited.
NextPlace(a) ==
  IF a[3] + 1 < Functions /\ (a[3] > 0 \/ Multifunction(a)) THEN <<a[1], a[2], a[3] + 1>>
  ELSE IF a[2] + 1 < Devices THEN <<a[1], a[2] + 1, 0>>
  ELSE <<Buses, Devices, 0>>

\* PCIFindAHCI
Probe ==
  /\ phase = "probe" /\ at[1] < Buses
  /\ Check(at)
  /\ at' = NextPlace(at)
  /\ UNCHANGED <<portVars, phase, port, enabled, permits>>

-----------------------------------------------------------------------------
(* init_ahci *)

\* ahci_get_no_ports takes four bits of the five: at most 16 ports are looked at.
Ports == DOMAIN Attached[ab]
NoPorts == ((CHOOSE p \in Ports : \A q \in Ports : q <= p) % 16) + 1
Implemented == {p \in Ports : p < NoPorts}

\* The next implemented port after p, or 32.
PortAfter(p) ==
  LET Rest == {q \in Implemented : q > p} IN IF Rest = {} THEN 32 ELSE CHOOSE q \in Rest : \A r \in Rest : q <= r

\* No controller is a PANIC.  Ports may run, as the loader left them.
Begin ==
  /\ phase = "probe" /\ at[1] = Buses
  /\ IF ab = NoController
       THEN /\ phase' = "panic" /\ UNCHANGED <<port, cmd>>
       ELSE /\ phase' = "port" /\ port' = PortAfter(-1)
            /\ \E Running \in SUBSET Implemented :
                 cmd' = [p \in Implemented |->
                           IF p \in Running THEN {"ST", "CR", "FRE", "FR"} ELSE {}]
  /\ UNCHANGED <<probeVars, areas, port_ok, nodes, pending, enabled, permits>>

\* ahci_stop_cmd: ST and FRE are cleared.  The loops that should wait for CR
\* and FR compare a high bit with 1 and never do.
Stop ==
  /\ phase = "port" /\ port < 32
  /\ cmd' = [cmd EXCEPT ![port] = @ \ {"ST", "FRE"}]
  /\ phase' = "rebase"
  /\ UNCHANGED <<probeVars, areas, port_ok, nodes, pending, port, enabled, permits>>

\* The command list, the received FIS and the command tables of port p.
Area(base, size) == [base |-> base, size |-> size]

\* Faulty form of Layout: the command lists are half as far apart.
LayoutHalf(p) ==
  {Area(AHCI_BASE + p * 512, 1024), Area(AHCI_BASE + 32 * 1024 + p * 256, 256)}
    \cup {Area(AHCI_BASE + 40 * 1024 + p * 8192 + i * 256, 256) : i \in 0 .. CommandSlots - 1}

Layout(p) ==
  {Area(AHCI_BASE + p * 1024, 1024), Area(AHCI_BASE + 32 * 1024 + p * 256, 256)}
    \cup {Area(AHCI_BASE + 40 * 1024 + p * 8192 + i * 256, 256) : i \in 0 .. CommandSlots - 1}

\* The rest of ahci_port_rebase up to ahci_start_cmd, which first looks whether
\* the port has stopped.
Rebase ==
  /\ phase = "rebase"
  /\ areas' = [areas EXCEPT ![port] = Layout(port)]
  /\ IF cmd[port] # {}
       THEN phase' = "panic" /\ UNCHANGED cmd
       ELSE phase' = "spin" /\ cmd' = [cmd EXCEPT ![port] = {"FRE"}]
  /\ UNCHANGED <<probeVars, port_ok, nodes, pending, port, enabled, permits>>

\* The drive reports in time, and the port starts...
Start ==
  /\ phase = "spin" /\ Attached[ab][port] # "none"
  /\ cmd' = [cmd EXCEPT ![port] = @ \cup {"ST"}]
  /\ port_ok' = port_ok \cup {port}
  /\ phase' = "identify"
  /\ UNCHANGED <<probeVars, areas, nodes, pending, port, enabled, permits>>

\* ... or there is none, or it is busy for a second: init_ahci returns an error,
\* which its caller ignores, and leaves the semaphores as they were defined.
Fail ==
  /\ phase \in {"spin", "identify"}
  /\ phase' = "failed"
  /\ UNCHANGED <<probeVars, portVars, port, enabled, permits>>

\* ahci_send_identify polls until the command is done; the interrupt the
\* device raised for it stays pending.
Identify ==
  /\ phase = "identify" /\ "CR" \in cmd[port]
  /\ nodes' = nodes \cup {port}
  /\ \E raised \in BOOLEAN : pending' = IF raised THEN pending \cup {port} ELSE pending \ {port}
  /\ phase' = "port" /\ port' = PortAfter(port)
  /\ UNCHANGED <<probeVars, cmd, areas, port_ok, enabled, permits>>

\* The semaphores are initialised, the handler registered and interrupts enabled.
Enable ==
  /\ phase = "port" /\ port = 32
  /\ permits' = 0 /\ enabled' = TRUE
  /\ phase' = "done"
  /\ UNCHANGED <<probeVars, portVars, port>>

\* ahci_callback takes what is pending by then for completed transfers.
StartCallback ==
  /\ enabled /\ pending \cap port_ok # {}
  /\ permits' = permits + Cardinality(pending \cap port_ok)
  /\ pending' = pending \ port_ok
  /\ UNCHANGED <<probeVars, cmd, areas, port_ok, nodes, phase, port, enabled>>

\* The device follows ST and FRE in its own time.
Settle(p) ==
  /\ cmd' = [cmd EXCEPT ![p] = (@ \cap {"ST", "FRE"})
               \cup (IF "ST" \in @ THEN {"CR"} ELSE {}) \cup (IF "FRE" \in @ THEN {"FR"} ELSE {})]
  /\ cmd' # cmd
  /\ UNCHANGED <<probeVars, areas, port_ok, nodes, pending, phase, port, enabled, permits>>

-----------------------------------------------------------------------------
StartInit ==
  /\ at = <<0, 0, 0>> /\ ab = NoController /\ nics = 0
  /\ phase = "probe" /\ port = -1
  /\ cmd = <<>>
  /\ areas = [p \in 0..31 |-> {}]
  /\ port_ok = {} /\ nodes = {} /\ pending = {}
  /\ enabled = FALSE /\ permits = 1

StartNext ==
  \/ Probe \/ Begin \/ Stop \/ Rebase \/ Start \/ Fail \/ Identify \/ Enable
  \/ StartCallback
  \/ \E p \in DOMAIN cmd : Settle(p)

StartSpec == StartInit /\ [][StartNext]_startVars

-----------------------------------------------------------------------------
(* Properties *)

\* What the controller is told to write to belongs to one port and one purpose,
\* and stays in the memory that is kept for it.
Apart(x, y) == x.base + x.size <= y.base \/ y.base + y.size <= x.base
StructuresApart ==
  \A p \in 0..31 : \A x \in areas[p] :
    /\ AHCI_BASE <= x.base /\ x.base + x.size <= TopOfDma
    /\ \A q \in 0..31 : \A y \in areas[q] : <<p, x>> # <<q, y>> => Apart(x, y)
=============================================================================
