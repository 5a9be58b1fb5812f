-------------------------------- MODULE Net --------------------------------
(***************************************************************************)
(* The network card of i217.cpp and the protocols that run over it: frames *)
(* the card writes to the ring of receive descriptors, the interrupt that  *)
(* queues their indices, the daemon that copies each frame to a buffer and *)
(* answers address requests (ethernet.cpp, arp.cpp, sock_buf.cpp), and the *)
(* ring it sends them through.                                             *)
(***************************************************************************)
EXTENDS Naturals, Sequences, FiniteSets, Functions

CONSTANTS
  Packet,              (* what may arrive                                 *)
  Eeprom,              (* the three words the card keeps its address in   *)
  my_ip, mac_broadcast,
  E1000_NUM_RX_DESC, E1000_NUM_TX_DESC,  (* 32 and 8 in the code          *)
  QueueSize,           (* of recv_queue: 32 in the code                   *)
  MaxArrivals          (* bound: frames that arrive                       *)

Nothing == [type |-> "nothing", dest |-> <<>>]

ASSUME NetAssumption ==
  /\ {E1000_NUM_RX_DESC, E1000_NUM_TX_DESC, QueueSize} \subseteq Nat \ {0}
  /\ MaxArrivals \in Nat

Descriptor == 0 .. E1000_NUM_RX_DESC - 1

VARIABLES
  mac,                 (* e1000: the address, <<>> before e1000_start     *)
  rx, rx_cur,          (* frames in the receive descriptors               *)
  rx_head, rx_left,    (* the card's place, and how many it may fill      *)
  icr,                 (* the card signals a frame                        *)
  recv_queue,          (* indices for the daemon                          *)
  tx, tx_cur, tx_tail, tx_head,  (* buffer and status of what is sent     *)
  daemon,              (* what e1000_recv_defered is doing                *)
  buffer,              (* its sock_buf                                    *)
  arrived, handled, wire,        (* history: frames in, done with, out    *)
  spoiled              (* history: frames overwritten, merged or dropped, *)
                       (* or for which there was no memory                *)

receive == <<rx, rx_cur, rx_head, rx_left, icr, recv_queue>>
transmit == <<tx, tx_cur, tx_tail, tx_head>>
netVars == <<mac, receive, transmit, daemon, buffer, arrived, handled, wire, spoiled>>

At(place) == daemon.at = place
Goto(place) == daemon' = [daemon EXCEPT !.at = place]

-----------------------------------------------------------------------------
(* Start *)

\* e1000_read_mac_address: each word holds two bytes, the low one first.
MacOf(words) ==
  <<words[1] % 256, words[1] \div 256, words[2] % 256, words[2] \div 256, words[3] % 256, words[3] \div 256>>

\* e1000_start, with interrupts masked: rx_init gives the card all descriptors
\* but the last; tx_init sets a tail past the ring.
Start ==
  /\ mac = <<>>
  /\ mac' = MacOf(Eeprom)
  /\ rx_left' = E1000_NUM_RX_DESC - 1
  /\ tx_tail' = E1000_NUM_TX_DESC
  /\ Goto("poll")
  /\ UNCHANGED <<rx, rx_cur, rx_head, icr, recv_queue, tx, tx_cur, tx_head, buffer, arrived, handled, wire, spoiled>>

-----------------------------------------------------------------------------
(* Receiving *)

Waiting(i) == i \in Range(recv_queue) \/ (At("copy") /\ daemon.index = i)

\* The card stores a frame; a second one before the interrupt merges with the
\* first, and one in a descriptor still to be copied overwrites it.
Arrive(f) ==
  /\ mac # <<>> /\ rx_left > 0 /\ Len(arrived) < MaxArrivals
  /\ rx' = [rx EXCEPT ![rx_head] = f]
  /\ rx_head' = (rx_head + 1) % E1000_NUM_RX_DESC
  /\ rx_left' = rx_left - 1
  /\ icr' = TRUE
  /\ arrived' = Append(arrived, f)
  /\ spoiled' = spoiled \cup (IF icr THEN {"merged"} ELSE {}) \cup (IF Waiting(rx_head) THEN {"overwritten"} ELSE {})
  /\ UNCHANGED <<mac, rx_cur, recv_queue, transmit, daemon, buffer, handled, wire>>

\* What the card may fill once the tail is written; all when it is at the tail.
Room(tail) ==
  LET n == (tail + E1000_NUM_RX_DESC - rx_head) % E1000_NUM_RX_DESC
  IN IF n = 0 THEN E1000_NUM_RX_DESC ELSE n

\* Faulty form of recv_index: read after the ring moved on.
LateIndex == (rx_cur + 1) % E1000_NUM_RX_DESC
recv_index == rx_cur

\* e1000_callback and e1000_recv_packet: one frame for an interrupt.
Callback ==
  /\ icr
  /\ icr' = FALSE
  /\ rx_cur' = (rx_cur + 1) % E1000_NUM_RX_DESC
  /\ rx_left' = Room(rx_cur')
  /\ IF Len(recv_queue) < QueueSize - 1
     THEN recv_queue' = Append(recv_queue, recv_index) /\ UNCHANGED spoiled
     ELSE spoiled' = spoiled \cup {"dropped"} /\ UNCHANGED recv_queue
  /\ UNCHANGED <<mac, rx, rx_head, transmit, daemon, buffer, arrived, handled, wire>>

-----------------------------------------------------------------------------
(* The daemon *)

\* The index leaves the queue before the frame is looked at.
Take ==
  /\ At("poll") /\ recv_queue # <<>>
  /\ daemon' = [daemon EXCEPT !.at = "copy", !.index = Head(recv_queue)]
  /\ recv_queue' = Tail(recv_queue)
  /\ UNCHANGED <<mac, rx, rx_cur, rx_head, rx_left, icr, transmit, buffer, arrived, handled, wire, spoiled>>

\* sock_buf_init_recv
Copy ==
  /\ At("copy")
  /\ buffer' = rx[daemon.index]
  /\ Goto("receive")
  /\ UNCHANGED <<mac, receive, transmit, arrived, handled, wire, spoiled>>

\* Without memory for it that is only reported: eth_recv works on the sock_buf as
\* the stack has it, which points to garbage or to a frame given back before.
CopyFails ==
  /\ At("copy")
  /\ buffer' \in {Nothing} \cup Range(SubSeq(arrived, 1, handled))
  /\ Goto("receive")
  /\ spoiled' = spoiled \cup {"unbuffered"}
  /\ UNCHANGED <<mac, receive, transmit, arrived, handled, wire>>

\* eth_create and arp_create write a reply over the frame, from the addresses
\* that eth_recv and arp_receive_ipv4 saved of it.
Reply(f) ==
  [type |-> "ARP", dest |-> f.src, src |-> mac, hw_type |-> "ETHER", prot_type |-> "IPv4", prot_len |-> 4,
   opcode |-> "REP", src_mac |-> mac, src_ip |-> f.dest_ip, dest_mac |-> f.src, dest_ip |-> f.src_ip]

\* eth_recv
ForUs(f) == f.dest \in {mac, mac_broadcast}
\* arp_recv
Understood(f) == f.type = "ARP" /\ f.hw_type = "ETHER" /\ f.prot_type = "IPv4" /\ f.prot_len = 4
\* arp_receive_ipv4
Wanted(f) == ForUs(f) /\ Understood(f) /\ f.dest_ip = my_ip /\ f.opcode = "REQ"

Receive ==
  /\ At("receive")
  /\ IF Wanted(buffer) THEN buffer' = Reply(buffer) /\ Goto("send")
     ELSE UNCHANGED buffer /\ Goto("release")
  /\ UNCHANGED <<mac, receive, transmit, arrived, handled, wire, spoiled>>

\* e1000_send, up to the tail...
Send ==
  /\ At("send")
  /\ tx' = [tx EXCEPT ![tx_cur] = "ready"]
  /\ tx_cur' = (tx_cur + 1) % E1000_NUM_TX_DESC
  /\ tx_tail' = tx_cur'
  /\ daemon' = [daemon EXCEPT !.at = "wait", !.index = tx_cur]
  /\ UNCHANGED <<mac, receive, tx_head, buffer, arrived, handled, wire, spoiled>>

\* The card takes what the descriptor points to, which is the buffer itself.
Transmit ==
  /\ tx_head # tx_tail % E1000_NUM_TX_DESC
  /\ tx' = [tx EXCEPT ![tx_head] = "done"]
  /\ tx_head' = (tx_head + 1) % E1000_NUM_TX_DESC
  /\ wire' = Append(wire, buffer)
  /\ UNCHANGED <<mac, receive, tx_cur, tx_tail, daemon, buffer, arrived, handled, spoiled>>

\* ... and until the card is done with the descriptor.
\* Faulty form of Sent: the daemon does not wait.
SentAtOnce ==
  /\ At("wait")
  /\ Goto("release")
  /\ UNCHANGED <<mac, receive, transmit, buffer, arrived, handled, wire, spoiled>>
Sent ==
  /\ At("wait") /\ tx[daemon.index] = "done"
  /\ Goto("release")
  /\ UNCHANGED <<mac, receive, transmit, buffer, arrived, handled, wire, spoiled>>

\* sock_buf_release
ReleaseBuffer ==
  /\ At("release")
  /\ buffer' = Nothing
  /\ handled' = handled + 1
  /\ Goto("poll")
  /\ UNCHANGED <<mac, receive, transmit, arrived, wire, spoiled>>

-----------------------------------------------------------------------------
NetInit ==
  /\ mac = <<>>
  /\ rx = [i \in Descriptor |-> Nothing] /\ rx_cur = 0 /\ rx_head = 0 /\ rx_left = 0
  /\ icr = FALSE /\ recv_queue = <<>>
  /\ tx = [i \in 0 .. E1000_NUM_TX_DESC - 1 |-> "unused"] /\ tx_cur = 0 /\ tx_tail = 0 /\ tx_head = 0
  /\ daemon = [at |-> "off", index |-> 0] /\ buffer = Nothing
  /\ arrived = <<>> /\ handled = 0 /\ wire = <<>> /\ spoiled = {}

Daemon == Take \/ Copy \/ CopyFails \/ Receive \/ Send \/ Sent \/ ReleaseBuffer
NetNext == Start \/ (\E f \in Packet : Arrive(f)) \/ Callback \/ Daemon \/ Transmit

NetFairness == WF_netVars(Callback) /\ WF_netVars(Daemon) /\ WF_netVars(Transmit)
NetSpec == NetInit /\ [][NetNext]_netVars /\ NetFairness

-----------------------------------------------------------------------------
(* Properties *)

\* Each frame out answers a request for our address that came in, in the order
\* they came and once each, and tells who asked that the address is ours: no
\* frame is taken twice, left out, or sent from a buffer already given back.
IsReplyTo(r, f) == r.opcode = "REP" /\ r.dest = f.src_mac /\ r.src_mac = mac /\ r.src_ip = my_ip /\ r.dest_ip = f.src_ip
InHand == IF daemon.at \in {"off", "poll"} THEN 0 ELSE 1

\* The requests among the first n frames that came in; the i-th is answered by
\* the i-th frame out.
Requests(n) == {k \in 1..n : Wanted(arrived[k])}
AnswerTo(k) == wire[Cardinality(Requests(k))]
RepliesAnswer ==
  spoiled = {} =>
    /\ Cardinality(Requests(handled)) <= Len(wire)
    /\ Len(wire) <= Cardinality(Requests(handled + InHand))
    /\ \A k \in Requests(handled + InHand) :
         Cardinality(Requests(k)) <= Len(wire) => AnswerTo(k) # Nothing /\ IsReplyTo(AnswerTo(k), arrived[k])

\* Every request for our address that came in is answered, as long as the
\* interrupts and the daemon keep up with the card.
RequestsAnswered ==
  \A n \in 1..MaxArrivals :
    (Len(arrived) >= n) ~> (spoiled # {} \/ Len(wire) >= Cardinality(Requests(IF n <= Len(arrived) THEN n ELSE 0)))
=============================================================================
