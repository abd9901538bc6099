-------------------------------- MODULE MCNet ---------------------------------
(* Instances of Net for TLC. *)
EXTENDS Net, TLC

CONSTANTS t1, t2

\* One frame for each way through net_rx(): padded datagrams for two sockets,
\* an IP length that goes below zero, a payload longer than the frame, an ARP
\* request, and a frame that fails a test.
F(type, len, good, ip_len, ulen, to) ==
    [type |-> type, len |-> len, good |-> good, ip_len |-> ip_len, ulen |-> ulen,
     to |-> to]

Frames ==
    { F("ip", 5, TRUE, 3, 2, t1),
      F("ip", 5, TRUE, 3, 2, t2),
      F("ip", 5, TRUE, 0, 7, t1),
      F("ip", 3, TRUE, 3, 2, t1),
      F("arp", 2, TRUE, 0, 0, t1),
      F("other", 0, FALSE, 0, 0, t1) }

Symmetry == Permutations(Mbuf)
=============================================================================
