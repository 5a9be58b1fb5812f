------------------------------- MODULE MCNet -------------------------------
(* Rings of three and two descriptors; two hosts ask for our address, and    *)
(* frames come that nobody here answers.                                     *)
EXTENDS Net

Words == <<4608, 22068, 39544>>
Us == MacOf(Words)
Host(n) == <<2, 0, 0, 0, 0, n>>
Broadcast == <<255, 255, 255, 255, 255, 255>>
Ip(n) == <<192, 168, 1, n>>

Request(from, to) ==
  [type |-> "ARP", dest |-> Broadcast, src |-> Host(from), hw_type |-> "ETHER", prot_type |-> "IPv4", prot_len |-> 4,
   opcode |-> "REQ", src_mac |-> Host(from), src_ip |-> Ip(from), dest_mac |-> <<0, 0, 0, 0, 0, 0>>, dest_ip |-> Ip(to)]
Frames ==
  {Request(1, 30), [Request(2, 30) EXCEPT !.dest = Us], [Request(1, 30) EXCEPT !.dest = Host(2)],
   Request(2, 1), [Request(2, 30) EXCEPT !.opcode = "REP", !.prot_len = 6]}
OurIp == Ip(30)
=============================================================================
