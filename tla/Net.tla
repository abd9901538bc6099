--------------------------------- MODULE Net ----------------------------------
(***************************************************************************)
(* kernel/sysnet.c and kernel/net.c: sockets and the UDP/IP stack, on top  *)
(* of the rings of E1000.  net_rx() runs in the receive interrupt, between *)
(* e1000_recv() and the refill of the descriptor; processes connect, read, *)
(* write and close.                                                        *)
(*                                                                         *)
(* A socket is a page of kalloc()'s like an mbuf, and is named by it.  A   *)
(* step is a critical section of the socket table lock, of one socket's    *)
(* lock, or of e1000_lock.  A frame is what net_rx() looks at: its length, *)
(* the lengths its headers claim, and the outcome of the tests on the other*)
(* header fields.  Each header is one unit long and uint16s are taken      *)
(* modulo W, so that the subtractions of net.c can go below zero.          *)
(***************************************************************************)
EXTENDS E1000

CONSTANTS
    Proc,
    Triple,     \* raddr, lport and rport of a socket
    Frame,      \* the frames that may arrive
    W,          \* uint16 arithmetic is modulo this
    Victim,     \* processes that kill() may choose
    MaxConn,    \* bound: sockets connected
    MaxWrite    \* bound: packets processes start to send

ASSUME NetAssumption ==
    /\ W \in Nat \ {0}
    /\ Frame \subseteq [type : {"ip", "arp", "other"}, len : 0 .. W - 1,
                        good : BOOLEAN,     \* IP header, or ARP request, for us
                        ip_len : 0 .. W - 1, ulen : 0 .. W - 1, to : Triple]
    /\ Victim \subseteq Proc
    /\ {MaxConn, MaxWrite} \subseteq Nat
    /\ {"no", "sent"} \cap Mbuf = {}

VARIABLES
    sockets,    \* the list, newest first
    triple,     \* of each socket
    rxq,        \* of each socket: a queue of [m |-> mbuf, len |-> its length]
    pc, fd,     \* of each process: where it is, and its socket
    hand,       \* of each process: the mbuf it holds
    killed,
    reply,      \* net_rx_arp(): the reply's mbuf, "no" before it is taken
                \*   and "sent" after
    frames,     \* history: the frames, in order of arrival
    since,      \* history: the packet that was next when the socket was listed
    got,        \* history: what the readers of a socket took, as <<packet, length>>
    conns, writes

sockvars == <<sockets, triple, rxq, fd, since, got, conns>>
procvars == <<pc, hand, killed, writes>>
netvars  == <<sockvars, procvars, reply, frames>>
allvars  == <<vars, netvars>>

NetInit ==
    /\ Init
    /\ sockets = <<>>
    /\ triple = [s \in Mbuf |-> None]
    /\ rxq = [s \in Mbuf |-> <<>>]
    /\ pc = [p \in Proc |-> "user"]
    /\ fd = [p \in Proc |-> None]
    /\ hand = [p \in Proc |-> None]
    /\ killed = [p \in Proc |-> FALSE]
    /\ reply = "no"
    /\ frames = <<>>
    /\ since = [s \in Mbuf |-> 0]
    /\ got = [s \in Mbuf |-> <<>>]
    /\ conns = 0 /\ writes = 0

Go(p, l) == pc' = [pc EXCEPT ![p] = l]
Listed(s) == \E i \in DOMAIN sockets : sockets[i] = s

\* Somebody holds s->lock: only sockread() keeps it from one step to another.
Locked(s) == \E p \in Proc : pc[p] = "sleep" /\ fd[p] = s

-----------------------------------------------------------------------------
(***************************************************************************)
(* net.c, receive side.                                                    *)
(***************************************************************************)

ETH == 1
IP  == 1
UDP == 1

Drop == -1

\* Mutant: the length in the UDP header is compared with the whole packet's.
net_rx_udp_off(f, m, len) ==
    LET left == m - UDP
        plen == (len - UDP) % W
    IN  IF m < UDP \/ f.ulen # len \/ plen > m THEN Drop ELSE plen

\* net_rx_udp(): m bytes are left in the mbuf, len is what the IP header says
\* is left.  The length the mbuf is trimmed to, or Drop.
net_rx_udp(f, m, len) ==
    LET left == m - UDP
        plen == (len - UDP) % W
    IN  IF m < UDP \/ f.ulen # len \/ plen > left THEN Drop ELSE plen

\* net_rx_ip().
net_rx_ip(f, m) ==
    IF m < IP \/ ~f.good THEN Drop
    ELSE net_rx_udp(f, m - IP, (f.ip_len - IP) % W)

\* net_rx(), except for ARP: the length of the datagram, or Drop.
net_rx(f) ==
    IF f.len < ETH \/ f.type # "ip" THEN Drop ELSE net_rx_ip(f, f.len - ETH)

\* The frame in rxm.
InHand == frames[data[rxm]]
IsRequest(f) == f.type = "arp" /\ f.len > ETH /\ f.good

\* The sockets a datagram is for, and the first of them in the list.
SocketFor(t) == {i \in DOMAIN sockets : triple[sockets[i]] = t}
First(S) == CHOOSE i \in S : \A j \in S : i <= j

\* A queue of mbufs, with the length of what is left of each.
mbufq_pushtail(q, m, len) == Append(q, [m |-> m, len |-> len])
mbufq_pophead(q) == Tail(q)
mbufq_empty(q) == q = <<>>

\* Mutant: sockrecvudp() queues without a wakeup.
sockrecvudp_nowake(m, plen, t) ==
    LET s == sockets[First(SocketFor(t))]
    IN  /\ ~Locked(s)
        /\ rxq' = [rxq EXCEPT ![s] = mbufq_pushtail(@, m, plen)]
        /\ UNCHANGED <<owner, data, pc>>

\* sockrecvudp() for a socket that is listed: queue it and wake the readers.
sockrecvudp(m, plen, t) ==
    LET s == sockets[First(SocketFor(t))]
    IN  /\ ~Locked(s)
        /\ rxq' = [rxq EXCEPT ![s] = mbufq_pushtail(@, m, plen)]
        /\ pc' = [p \in Proc |-> IF pc[p] = "asleep" /\ fd[p] = s
                                 THEN "read" ELSE pc[p]]
        /\ UNCHANGED <<owner, data>>

\* Return to e1000_recv().
Return ==
    /\ intr' = "refill"
    /\ rxm' = None
    /\ UNCHANGED <<rx_dd, rx_mbufs, RDH, RDT, ICR, panicked, arrived, delivered, tx>>

\* net_rx() with a datagram some socket is connected for.
net_rx_deliver ==
    /\ intr = "net_rx" /\ ~panicked
    /\ net_rx(InHand) # Drop
    /\ SocketFor(InHand.to) # {}
    /\ sockrecvudp(rxm, net_rx(InHand), InHand.to)
    /\ Return
    /\ UNCHANGED <<sockets, triple, fd, since, got, conns, hand, killed, writes,
                   reply, frames>>

\* Mutant: a datagram with bad lengths is not freed.
net_rx_drop_leak ==
    /\ intr = "net_rx" /\ ~panicked
    /\ \/ net_rx(InHand) = Drop /\ ~IsRequest(InHand)
       \/ net_rx(InHand) # Drop /\ SocketFor(InHand.to) = {}
       \/ IsRequest(InHand) /\ reply = "sent"
    /\ owner' = IF InHand.type = "ip" /\ InHand.good THEN owner
                ELSE [owner EXCEPT ![rxm] = "free"]
    /\ data' = [data EXCEPT ![rxm] = 0]
    /\ Return
    /\ reply' = "no"
    /\ UNCHANGED <<sockvars, procvars, frames>>

\* The paths of net_rx() that end in mbuffree(): a frame that fails a test, a
\* datagram for no socket, and an ARP request once it has its answer.
net_rx_drop ==
    /\ intr = "net_rx" /\ ~panicked
    /\ \/ net_rx(InHand) = Drop /\ ~IsRequest(InHand)
       \/ net_rx(InHand) # Drop /\ SocketFor(InHand.to) = {}
       \/ IsRequest(InHand) /\ reply = "sent"
    /\ owner' = [owner EXCEPT ![rxm] = "free"]
    /\ data' = [data EXCEPT ![rxm] = 0]
    /\ Return
    /\ reply' = "no"
    /\ UNCHANGED <<sockvars, procvars, frames>>

\* net_rx_arp() answers a request: net_tx_arp() takes an mbuf, if there is
\* one, ...
net_tx_arp ==
    /\ intr = "net_rx" /\ ~panicked
    /\ IsRequest(InHand) /\ reply = "no"
    /\ \/ /\ \A b \in Mbuf : owner[b] # "free"
          /\ reply' = "sent"
          /\ UNCHANGED vars
       \/ \E b \in Mbuf : mbufalloc(b) /\ reply' = b
    /\ UNCHANGED <<sockvars, procvars, frames>>

\* ... and sends it.
net_tx_arp_eth ==
    /\ reply \in Mbuf
    /\ e1000_transmit(reply)
    /\ reply' = "sent"
    /\ UNCHANGED <<sockvars, procvars, frames>>

-----------------------------------------------------------------------------
(***************************************************************************)
(* sysnet.c.                                                               *)
(***************************************************************************)

\* sockalloc(), the socket's page.  Assumed of the callers: no two sockets
\* with one triple at a time.
sockalloc(p, t) ==
    /\ pc[p] = "user" /\ fd[p] = None /\ ~killed[p]
    /\ conns < MaxConn
    /\ \A q \in Proc : fd[q] # None => triple[fd[q]] # t
    /\ \E s \in Mbuf :
        /\ mbufalloc(s)
        /\ triple' = [triple EXCEPT ![s] = t]
        /\ rxq' = [rxq EXCEPT ![s] = <<>>]
        /\ fd' = [fd EXCEPT ![p] = s]
    /\ Go(p, "list")
    /\ conns' = conns + 1
    /\ UNCHANGED <<sockets, since, got, hand, killed, writes, reply, frames>>

\* sockalloc(), under the table's lock.
sockalloc_list(p) ==
    /\ pc[p] = "list" /\ ~panicked
    /\ sockets' = <<fd[p]>> \o sockets
    /\ since' = [since EXCEPT ![fd[p]] =
                    IF intr = "net_rx" THEN Len(delivered) ELSE Len(delivered) + 1]
    /\ Go(p, "user")
    /\ UNCHANGED <<vars, triple, rxq, fd, got, conns, hand, killed, writes,
                   reply, frames>>

\* fork(): the child has the socket too.
fork(p, q) ==
    /\ pc[p] = "user" /\ fd[p] # None /\ ~killed[p] /\ ~panicked
    /\ pc[q] = "user" /\ fd[q] = None
    /\ fd' = [fd EXCEPT ![q] = fd[p]]
    /\ UNCHANGED <<vars, sockets, triple, rxq, since, got, conns, procvars, reply,
                   frames>>

\* Mutant: sockread() leaves the packet in the queue.
sockread_nopop(p) ==
    /\ pc[p] = "read" \/ (pc[p] = "user" /\ fd[p] # None /\ ~killed[p])
    /\ ~Locked(fd[p]) /\ ~panicked
    /\ LET q == rxq[fd[p]]
       IN  \/ /\ killed[p]
              /\ Go(p, "user")
              /\ UNCHANGED <<rxq, got, hand>>
           \/ /\ ~killed[p] /\ mbufq_empty(q)
              /\ Go(p, "sleep")
              /\ UNCHANGED <<rxq, got, hand>>
           \/ /\ ~killed[p] /\ ~mbufq_empty(q)
              /\ hand' = [hand EXCEPT ![p] = Head(q).m]
              /\ got' = [got EXCEPT ![fd[p]] = Append(@, <<data[Head(q).m], Head(q).len>>)]
              /\ Go(p, "copyout")
              /\ UNCHANGED rxq
    /\ UNCHANGED <<vars, sockets, triple, fd, since, conns, killed, writes, reply,
                   frames>>

\* sockread() with s->lock just taken, at the start of the call or in sleep():
\* up to the next sleep(), or to the release.
sockread(p) ==
    /\ pc[p] = "read" \/ (pc[p] = "user" /\ fd[p] # None /\ ~killed[p])
    /\ ~Locked(fd[p]) /\ ~panicked
    /\ LET q == rxq[fd[p]]
       IN  \/ /\ killed[p]
              /\ Go(p, "user")
              /\ UNCHANGED <<rxq, got, hand>>
           \/ /\ ~killed[p] /\ mbufq_empty(q)
              /\ Go(p, "sleep")
              /\ UNCHANGED <<rxq, got, hand>>
           \/ /\ ~killed[p] /\ ~mbufq_empty(q)
              /\ hand' = [hand EXCEPT ![p] = Head(q).m]
              /\ rxq' = [rxq EXCEPT ![fd[p]] = mbufq_pophead(q)]
              /\ got' = [got EXCEPT ![fd[p]] = Append(@, <<data[Head(q).m], Head(q).len>>)]
              /\ Go(p, "copyout")
    /\ UNCHANGED <<vars, sockets, triple, fd, since, conns, killed, writes, reply,
                   frames>>

\* sleep() gives up s->lock and sleeps in one step.
sleep(p) ==
    /\ pc[p] = "sleep" /\ ~panicked
    /\ Go(p, "asleep")
    /\ UNCHANGED <<vars, sockvars, hand, killed, writes, reply, frames>>

\* The end of sockread(): copyout(), which may fail, and mbuffree().
sockread_copyout(p) ==
    /\ pc[p] = "copyout"
    /\ mbuffree(hand[p])
    /\ hand' = [hand EXCEPT ![p] = None]
    /\ Go(p, "user")
    /\ UNCHANGED <<sockvars, killed, writes, reply, frames>>

\* sockwrite() takes an mbuf; with none left it returns -1.
sockwrite(p) ==
    /\ pc[p] = "user" /\ fd[p] # None /\ ~killed[p]
    /\ writes < MaxWrite
    /\ \E b \in Mbuf : mbufalloc(b) /\ hand' = [hand EXCEPT ![p] = b]
    /\ Go(p, "copyin")
    /\ writes' = writes + 1
    /\ UNCHANGED <<sockvars, killed, reply, frames>>

\* The rest of sockwrite(): copyin() fails, or the packet goes down through
\* net_tx_udp(), net_tx_ip() and net_tx_eth().
sockwrite_copyin(p) ==
    /\ pc[p] = "copyin"
    /\ mbuffree(hand[p]) \/ e1000_transmit(hand[p])
    /\ hand' = [hand EXCEPT ![p] = None]
    /\ Go(p, "user")
    /\ UNCHANGED <<sockvars, killed, writes, reply, frames>>

\* fileclose(): sockclose() is called with the last reference.
fileclose(p) ==
    /\ pc[p] = "user" /\ fd[p] # None /\ ~panicked
    /\ IF \E q \in Proc \ {p} : fd[q] = fd[p]
       THEN /\ fd' = [fd EXCEPT ![p] = None]
            /\ UNCHANGED pc
       ELSE /\ Go(p, "unlist")
            /\ UNCHANGED fd
    /\ UNCHANGED <<vars, sockets, triple, rxq, since, got, conns, hand, killed,
                   writes, reply, frames>>

\* The list without the socket at place i.
Unlink(i) == [j \in 1 .. Len(sockets) - 1 |-> sockets[IF j < i THEN j ELSE j + 1]]

\* sockclose(): out of the list, under the table's lock; ...
sockclose(p) ==
    /\ pc[p] = "unlist" /\ ~panicked
    /\ sockets' = IF Listed(fd[p])
                  THEN Unlink(First({i \in DOMAIN sockets : sockets[i] = fd[p]}))
                  ELSE sockets
    /\ Go(p, "drain")
    /\ UNCHANGED <<vars, triple, rxq, fd, since, got, conns, hand, killed, writes,
                   reply, frames>>

\* ... then every mbuf that waits, and at last the socket, without a lock.
sockclose_drain(p) ==
    /\ pc[p] = "drain"
    /\ LET q == rxq[fd[p]]
       IN  IF ~mbufq_empty(q)
           THEN /\ mbuffree(Head(q).m)
                /\ rxq' = [rxq EXCEPT ![fd[p]] = mbufq_pophead(q)]
                /\ UNCHANGED <<triple, since, got, fd, pc>>
           ELSE /\ mbuffree(fd[p])
                /\ triple' = [triple EXCEPT ![fd[p]] = None]
                /\ since' = [since EXCEPT ![fd[p]] = 0]
                /\ got' = [got EXCEPT ![fd[p]] = <<>>]
                /\ fd' = [fd EXCEPT ![p] = None]
                /\ Go(p, "user")
                /\ UNCHANGED rxq
    /\ UNCHANGED <<sockets, conns, hand, killed, writes, reply, frames>>

\* kill() marks its victim and wakes it if it sleeps.  It takes no socket lock.
kill(p) ==
    /\ p \in Victim /\ ~killed[p] /\ ~panicked
    /\ killed' = [killed EXCEPT ![p] = TRUE]
    /\ Go(p, IF pc[p] = "asleep" THEN "read" ELSE pc[p])
    /\ UNCHANGED <<vars, sockvars, hand, writes, reply, frames>>

-----------------------------------------------------------------------------
\* A frame arrives.
card_frame ==
    /\ card_receive
    /\ \E f \in Frame : frames' = Append(frames, f)
    /\ UNCHANGED <<sockvars, procvars, reply>>

\* The driver and the card.
Driver ==
    /\ card_transmit \/ e1000_recv \/ e1000_recv_refill \/ e1000_intr
    /\ UNCHANGED netvars

NetNext ==
    \/ Driver
    \/ card_frame
    \/ net_rx_deliver
    \/ net_rx_drop
    \/ net_tx_arp
    \/ net_tx_arp_eth
    \/ \E p \in Proc :
        \/ \E t \in Triple : sockalloc(p, t)
        \/ \E q \in Proc : fork(p, q)
        \/ sockalloc_list(p)
        \/ sockread(p)
        \/ sleep(p)
        \/ sockread_copyout(p)
        \/ sockwrite(p)
        \/ sockwrite_copyin(p)
        \/ fileclose(p)
        \/ sockclose(p)
        \/ sockclose_drain(p)
        \/ kill(p)

NetSpec == NetInit /\ [][NetNext]_allvars

-----------------------------------------------------------------------------
(***************************************************************************)
(* Properties.                                                             *)
(***************************************************************************)

\* The stack keeps to what the driver expects of it (the environment of
\* E1000): it sends and frees only pages it owns, and each of them once.
RefinesE1000 == Spec

\* The places a page of the stack's may be in.
Held ==
    (IF intr = "net_rx" THEN {<<"rx", rxm>>} ELSE {})
    \cup (IF reply \in Mbuf THEN {<<"arp", reply>>} ELSE {})
    \cup {<<p, hand[p]>> : p \in {p \in Proc : hand[p] # None}}
    \cup {<<"sock", fd[p]>> : p \in {p \in Proc : fd[p] # None}}
    \cup UNION {{<<s, i, rxq[s][i].m>> : i \in DOMAIN rxq[s]} :
                s \in {fd[p] : p \in Proc} \ {None}}

\* Every path through net.c and sysnet.c accounts for its pages: a page of the
\* stack's is in one place, and one that is in no place has been freed.
PagesAccounted ==
    ~panicked =>
        /\ \A h, g \in Held : h[Len(h)] = g[Len(g)] => h = g
        /\ {b \in Mbuf : owner[b] = "stack"} = {h[Len(h)] : h \in Held}

\* What a datagram for triple t looks like, from the formats: room for three
\* headers and the payload, and lengths that agree.
IsDatagram(f, t) ==
    /\ f.type = "ip" /\ f.good /\ f.to = t
    /\ f.ulen >= UDP
    /\ f.ip_len = f.ulen + IP
    /\ f.len >= f.ip_len + ETH

\* The packets net_rx() is done with are the first ones delivered.
Handled == IF intr = "net_rx" THEN Len(delivered) - 1 ELSE Len(delivered)

\* The packets of a socket, as <<packet, length>>: those its readers took, and
\* then those in its queue.
Packets(s) ==
    got[s] \o [k \in DOMAIN rxq[s] |-> <<data[rxq[s][k].m], rxq[s][k].len>>]

\* The readers of a socket get, and its queue holds, the datagrams for its
\* triple that were handled since it was listed: all of them and nothing else,
\* once, in the order of their arrival, and cut to the payload.
SockFifo ==
    \A i \in DOMAIN sockets :
        LET s == sockets[i]
            q == Packets(s)
        IN  /\ {q[j][1] : j \in DOMAIN q} =
                  {k \in {delivered[n] : n \in since[s] .. Handled} :
                      IsDatagram(frames[k], triple[s])}
            /\ \A j, k \in DOMAIN q : j < k => q[j][1] < q[k][1]
            /\ \A j \in DOMAIN q : q[j][2] = frames[q[j][1]].ulen - UDP

\* No reader sleeps beside a packet in its socket's queue.
NoLostWakeup ==
    \A p \in Proc : pc[p] = "asleep" => rxq[fd[p]] = <<>>
=============================================================================
