------------------------------- MODULE E1000 --------------------------------
(***************************************************************************)
(* kernel/e1000.c: the transmit and receive rings shared by the driver and *)
(* the network card.  A driver step is a critical section of e1000_lock or *)
(* e1000_lock2, or the read of the interrupt cause register: the card only *)
(* touches descriptors between its head and the tail register, which the   *)
(* driver moves last, so its steps commute with the rest.                  *)
(*                                                                         *)
(* desc->addr always points into the mbuf remembered in tx_mbufs[] or      *)
(* rx_mbufs[], and is not modelled apart from it.  A packet is a number,   *)
(* in the order of its sending or its arrival.                             *)
(*                                                                         *)
(* The network stack is the environment here: it takes pages from kalloc(),*)
(* gives mbufs back, sends, and returns from net_rx() having kept or freed *)
(* the mbuf.  Net says what the stack does and implements this module.     *)
(***************************************************************************)
EXTENDS Integers, Sequences, FiniteSets

CONSTANTS
    N,          \* TX_RING_SIZE, RX_RING_SIZE
    Mbuf,       \* the pages kalloc() has for mbufs and sockets
    None,       \* null pointer
    TxLag,      \* assumed: the card is at most this many packets behind
    MaxTx,      \* bound: packets sent
    MaxRx       \* bound: packets that arrive

ASSUME E1000Assumption ==
    /\ N \in Nat \ {0, 1}
    /\ None \notin Mbuf
    /\ {TxLag, MaxTx, MaxRx} \subseteq Nat

VARIABLES
    tx_dd, tx_mbufs,    \* tx_ring[i].status & DD, tx_mbufs[i]
    TDH, TDT,           \* transmit head (the card's) and tail (the driver's)
    rx_dd, rx_mbufs,    \* rx_ring[i].status & DD, rx_mbufs[i]
    RDH, RDT,           \* receive head (the card's) and tail (the driver's)
    ICR,                \* interrupt cause: a received packet
    intr,               \* e1000_intr(): "idle", "net_rx", "refill" or "recvd"
    rxm,                \* the mbuf net_rx() is called with
    owner,              \* of each page: "free", "driver" or "stack"
    data,               \* the packet in each mbuf, 0 for none
    panicked,
    sent, wire,         \* history: packets accepted, packets on the wire
    arrived, delivered, \* history: packets stored by the card, given to net_rx()
    done                \* history: the card has finished with descriptor i

tx   == <<tx_dd, tx_mbufs, TDH, TDT, sent, wire, done>>
rx   == <<rx_dd, rx_mbufs, RDH, RDT, ICR, intr, rxm, panicked, arrived, delivered>>
vars == <<tx, rx, owner, data>>

Ring == 0 .. N - 1
Succ(i) == (i + 1) % N

\* e1000_init(): every transmit descriptor is done, every receive descriptor
\* has an mbuf, and all but one of them belong to the card.
Init ==
    /\ tx_dd = [i \in Ring |-> TRUE]
    /\ tx_mbufs = [i \in Ring |-> None]
    /\ TDH = 0 /\ TDT = 0
    /\ rx_dd = [i \in Ring |-> FALSE]
    /\ \E f \in [Ring -> Mbuf] :
        /\ \A i, j \in Ring : i # j => f[i] # f[j]
        /\ rx_mbufs = f
        /\ owner = [b \in Mbuf |-> IF \E i \in Ring : f[i] = b
                                   THEN "driver" ELSE "free"]
    /\ RDH = 0 /\ RDT = N - 1
    /\ ICR = FALSE /\ intr = "idle" /\ rxm = None
    /\ data = [b \in Mbuf |-> 0]
    /\ panicked = FALSE
    /\ sent = <<>> /\ wire = <<>> /\ arrived = <<>> /\ delivered = <<>>
    /\ done = [i \in Ring |-> TRUE]

-----------------------------------------------------------------------------
(***************************************************************************)
(* Transmit.                                                               *)
(***************************************************************************)

\* mbufalloc(): a page of kalloc()'s, for an mbuf or a socket.  Its contents
\* went when it was freed.
mbufalloc(b) ==
    /\ owner[b] = "free" /\ ~panicked
    /\ owner' = [owner EXCEPT ![b] = "stack"]
    /\ UNCHANGED <<tx, rx, data>>

\* The card's descriptors, oldest first.
InFlight == {(TDH + k) % N : k \in 0 .. ((TDT - TDH + N) % N) - 1}

\* mbuffree(tx_mbufs[i]) if there is one; the driver keeps b.
Replace(old, b) ==
    [c \in Mbuf |-> IF c = b THEN "driver" ELSE IF c = old THEN "free" ELSE owner[c]]

\* Bound on packets, and the assumption that the card keeps up.
MaySend == ~panicked /\ Len(sent) < MaxTx /\ Cardinality({i \in Ring : ~done[i]}) < TxLag

\* Mutant: the mbuf is freed as soon as it is queued.
e1000_transmit_free(b) ==
    /\ MaySend
    /\ data' = [data EXCEPT ![b] = Len(sent) + 1]
    /\ owner' = [owner EXCEPT ![b] = "free"]
    /\ tx_mbufs' = [tx_mbufs EXCEPT ![TDT] = b]
    /\ done' = [done EXCEPT ![TDT] = FALSE]
    /\ sent' = Append(sent, Len(sent) + 1)
    /\ TDT' = Succ(TDT)
    /\ UNCHANGED <<tx_dd, TDH, wire, rx>>

\* Mutant: the tail register is not moved.
e1000_transmit_notail(b) ==
    /\ MaySend
    /\ data' = [data EXCEPT ![b] = Len(sent) + 1]
    /\ owner' = Replace(tx_mbufs[TDT], b)
    /\ tx_mbufs' = [tx_mbufs EXCEPT ![TDT] = b]
    /\ sent' = Append(sent, Len(sent) + 1)
    /\ UNCHANGED <<tx_dd, TDH, TDT, wire, done, rx>>

\* e1000_transmit() as net_tx_eth() calls it: with the descriptor at the tail
\* not done it fails, and net_tx_eth() frees b and drops the packet.
e1000_transmit(b) ==
    /\ MaySend
    /\ IF ~tx_dd[TDT]
       THEN /\ owner' = [owner EXCEPT ![b] = "free"]
            /\ UNCHANGED <<data, tx_mbufs, done, sent, TDT>>
       ELSE /\ owner' = Replace(tx_mbufs[TDT], b)
            /\ data' = [c \in Mbuf |-> CASE c = b -> Len(sent) + 1
                                         [] c = tx_mbufs[TDT] -> 0
                                         [] OTHER -> data[c]]
            /\ tx_mbufs' = [tx_mbufs EXCEPT ![TDT] = b]
            /\ done' = [done EXCEPT ![TDT] = FALSE]
            /\ sent' = Append(sent, Len(sent) + 1)
            /\ TDT' = Succ(TDT)
    /\ UNCHANGED <<tx_dd, TDH, wire, rx>>

\* The card sends the packet at its head and, as RS asks, reports it done.
card_transmit ==
    /\ TDH # TDT
    /\ wire' = Append(wire, data[tx_mbufs[TDH]])
    /\ tx_dd' = [tx_dd EXCEPT ![TDH] = TRUE]
    /\ done' = [done EXCEPT ![TDH] = TRUE]
    /\ TDH' = Succ(TDH)
    /\ UNCHANGED <<tx_mbufs, TDT, sent, rx, owner, data>>

-----------------------------------------------------------------------------
(***************************************************************************)
(* Receive.                                                                *)
(***************************************************************************)

\* The card stores a packet and asks for an interrupt.  With no descriptor
\* of its own left (RDH = RDT) it would drop it.
card_receive ==
    /\ Len(arrived) < MaxRx
    /\ RDH # RDT
    /\ data' = [data EXCEPT ![rx_mbufs[RDH]] = Len(arrived) + 1]
    /\ arrived' = Append(arrived, Len(arrived) + 1)
    /\ rx_dd' = [rx_dd EXCEPT ![RDH] = TRUE]
    /\ RDH' = Succ(RDH)
    /\ ICR' = TRUE
    /\ UNCHANGED <<rx_mbufs, RDT, intr, rxm, panicked, delivered, tx, owner>>

\* e1000_recv(), called by e1000_intr(): at most one packet, and if there is
\* one its mbuf goes to net_rx().
e1000_recv ==
    /\ intr = "idle" /\ ICR /\ ~panicked
    /\ LET i == Succ(RDT)
       IN  IF ~rx_dd[i]
           THEN /\ intr' = "recvd"
                /\ UNCHANGED <<owner, delivered, rxm>>
           ELSE /\ intr' = "net_rx"
                /\ rxm' = rx_mbufs[i]
                /\ owner' = [owner EXCEPT ![rxm'] = "stack"]
                /\ delivered' = Append(delivered, data[rxm'])
    /\ UNCHANGED <<rx_dd, rx_mbufs, RDH, RDT, ICR, panicked, arrived, data, tx>>

\* net_rx() returns; the stack has kept the mbuf or freed it.
net_rx_return ==
    /\ intr = "net_rx" /\ ~panicked
    /\ \/ UNCHANGED <<owner, data>>
       \/ /\ owner' = [owner EXCEPT ![rxm] = "free"]
          /\ data' = [data EXCEPT ![rxm] = 0]
    /\ intr' = "refill"
    /\ rxm' = None
    /\ UNCHANGED <<rx_dd, rx_mbufs, RDH, RDT, ICR, panicked, arrived, delivered, tx>>

\* Mutant: the tail register is moved past the descriptor.
e1000_recv_refill_past ==
    /\ intr = "refill" /\ ~panicked
    /\ LET i == Succ(RDT)
       IN  \E b \in {b \in Mbuf : owner[b] = "free"} :
            /\ owner' = [owner EXCEPT ![b] = "driver"]
            /\ rx_mbufs' = [rx_mbufs EXCEPT ![i] = b]
            /\ rx_dd' = [rx_dd EXCEPT ![i] = FALSE]
            /\ RDT' = Succ(i)
    /\ intr' = "recvd"
    /\ UNCHANGED <<RDH, ICR, rxm, panicked, arrived, delivered, data, tx>>

\* The rest of e1000_recv(): a fresh mbuf takes the place of the one that
\* went; none left is a panic.
e1000_recv_refill ==
    /\ intr = "refill" /\ ~panicked
    /\ LET i == Succ(RDT)
           Fresh == {b \in Mbuf : owner[b] = "free"}
       IN  \/ /\ Fresh = {}
              /\ panicked' = TRUE
              /\ UNCHANGED <<rx_dd, rx_mbufs, RDT, owner>>
           \/ /\ \E b \in Fresh :
                  /\ owner' = [owner EXCEPT ![b] = "driver"]
                  /\ rx_mbufs' = [rx_mbufs EXCEPT ![i] = b]
              /\ rx_dd' = [rx_dd EXCEPT ![i] = FALSE]
              /\ RDT' = i
              /\ UNCHANGED panicked
    /\ intr' = "recvd"
    /\ UNCHANGED <<RDH, ICR, rxm, arrived, delivered, data, tx>>

\* e1000_intr() reads the cause register, which clears it.
e1000_intr ==
    /\ intr = "recvd" /\ ~panicked
    /\ intr' = "idle"
    /\ ICR' = FALSE
    /\ UNCHANGED <<rx_dd, rx_mbufs, RDH, RDT, rxm, panicked, arrived, delivered,
                   tx, owner, data>>

\* The network stack gives a page back.
mbuffree(b) ==
    /\ ~panicked
    /\ owner' = [owner EXCEPT ![b] = "free"]
    /\ data' = [data EXCEPT ![b] = 0]
    /\ UNCHANGED <<tx, rx>>

\* What the stack may send or give back: its pages, but for the mbuf that
\* e1000_recv() waits for.
StackPages == {b \in Mbuf : owner[b] = "stack" /\ b # rxm}

Next ==
    \/ \E b \in Mbuf : mbufalloc(b)
    \/ \E b \in StackPages : e1000_transmit(b) \/ mbuffree(b)
    \/ card_transmit
    \/ card_receive
    \/ e1000_recv
    \/ net_rx_return
    \/ e1000_recv_refill
    \/ e1000_intr

Spec == Init /\ [][Next]_vars

-----------------------------------------------------------------------------
(***************************************************************************)
(* Properties.                                                             *)
(***************************************************************************)

\* Type invariant.
TypeOK ==
    /\ tx_dd \in [Ring -> BOOLEAN] /\ rx_dd \in [Ring -> BOOLEAN] /\ done \in [Ring -> BOOLEAN]
    /\ tx_mbufs \in [Ring -> Mbuf \cup {None}]
    /\ rx_mbufs \in [Ring -> Mbuf]
    /\ TDH \in Ring /\ TDT \in Ring /\ RDH \in Ring /\ RDT \in Ring
    /\ ICR \in BOOLEAN /\ panicked \in BOOLEAN
    /\ intr \in {"idle", "net_rx", "refill", "recvd"}
    /\ rxm \in Mbuf \cup {None}
    /\ owner \in [Mbuf -> {"free", "driver", "stack"}]
    /\ data \in [Mbuf -> Nat]
    /\ sent \in Seq(Nat) /\ wire \in Seq(Nat)
    /\ arrived \in Seq(Nat) /\ delivered \in Seq(Nat)

\* The contents of k ring slots from h on.
Contents(mbufs, h, k) == [j \in 1 .. k |-> data[mbufs[(h + j - 1) % N]]]

\* What is on the wire, and then what the card still has in its ring, is
\* what e1000_transmit() accepted: no packet is lost, repeated, reordered or
\* overwritten by a reuse of its mbuf.
TxFifo ==
    wire \o Contents(tx_mbufs, TDH, (TDT - TDH + N) % N) = sent

\* What net_rx() was given, and then the filled descriptors after the tail,
\* is what the card stored.
RxFifo ==
    LET taken == IF intr \in {"net_rx", "refill"} THEN 1 ELSE 0
    IN  ~panicked =>
          delivered \o Contents(rx_mbufs, Succ(RDT) + taken,
                                ((RDH - RDT - 1 + N) % N) - taken) = arrived

\* An mbuf the card may read or write is in one ring slot only and is not
\* free or in use by the stack.
NoAlias ==
    LET Tx == {<<"tx", i>> : i \in InFlight}
        Rx == {<<"rx", i>> : i \in Ring \ (IF intr \in {"net_rx", "refill"}
                                            THEN {Succ(RDT)} ELSE {})}
        Buf(s) == IF s[1] = "tx" THEN tx_mbufs[s[2]] ELSE rx_mbufs[s[2]]
    IN  ~panicked =>
          /\ \A s \in Tx \cup Rx : owner[Buf(s)] = "driver"
          /\ \A s, t \in Tx \cup Rx : Buf(s) = Buf(t) => s = t

\* "interrupt after every received packet": with the interrupt handled and
\* none pending, no received packet is left in the ring.
RxDrained ==
    intr = "idle" /\ ~ICR /\ ~panicked => ~rx_dd[Succ(RDT)]
=============================================================================
