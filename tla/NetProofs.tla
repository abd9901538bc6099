------------------------------ MODULE NetProofs -----------------------------
(***************************************************************************)
(* Proofs about modules E1000 and Net, for rings of any size.              *)
(***************************************************************************)
EXTENDS Net, CommonLemmas, FiniteSetTheorems

-----------------------------------------------------------------------------
(***************************************************************************)
(* The inductive invariant of the rings.  It counts packets in Nat; the    *)
(* registers are the counts modulo the size of the ring.                   *)
(***************************************************************************)
\* e1000_recv() has given an mbuf to net_rx() and has not replaced it.
Away == intr \in {"net_rx", "refill"} \/ panicked

\* The number of receive descriptors given back to the card, and the slot that
\* is without an mbuf.
Refilled == IF Away THEN Len(delivered) - 1 ELSE Len(delivered)
Hole == IF Away THEN {Succ(RDT)} ELSE {}

\* The transmit ring: the packets from the head on are in their slots.
TxInv ==
    LET S == Len(sent)
        H == Len(wire)
    IN  /\ H <= S /\ S <= H + N - 1
        /\ TDH = H % N /\ TDT = S % N
        /\ \A k \in 1 .. S : sent[k] = k
        /\ \A k \in 1 .. H : wire[k] = k
        /\ \A k \in H .. S - 1 :
              /\ ~done[k % N]
              /\ tx_mbufs[k % N] \in Mbuf
              /\ data[tx_mbufs[k % N]] = k + 1

\* DD is never cleared.
DDInv == \A i \in Ring : tx_dd[i]

\* The receive ring: filled descriptors from the tail to the head, and those of
\* the card from the head on.
RxInv ==
    LET A == Len(arrived)
        D == Len(delivered)
        R == Refilled
    IN  /\ R \in Nat /\ D <= A /\ A <= R + N - 1
        /\ RDH = A % N /\ RDT = (R + N - 1) % N
        /\ \A k \in 1 .. A : arrived[k] = k
        /\ \A k \in 1 .. D : delivered[k] = k
        /\ \A k \in D .. A - 1 : data[rx_mbufs[k % N]] = k + 1
        /\ \A k \in A .. R + N - 1 : ~rx_dd[k % N]

\* The mbufs of both rings are the driver's and in one slot each; the one given
\* to net_rx() is the stack's.
OwnInv ==
    /\ \A i \in Ring : tx_mbufs[i] # None => owner[tx_mbufs[i]] = "driver"
    /\ \A i, j \in Ring : tx_mbufs[i] # None /\ tx_mbufs[i] = tx_mbufs[j] => i = j
    /\ \A i \in Ring \ Hole : owner[rx_mbufs[i]] = "driver"
    /\ \A i, j \in Ring \ Hole : rx_mbufs[i] = rx_mbufs[j] => i = j
    /\ \A i \in Ring \ Hole, j \in Ring : rx_mbufs[i] # tx_mbufs[j]
    /\ rxm # None <=> intr = "net_rx"
    /\ rxm # None => owner[rxm] = "stack"
    /\ panicked => intr = "recvd"

RingsInv == TypeOK /\ TxInv /\ DDInv /\ RxInv /\ OwnInv

-----------------------------------------------------------------------------
(***************************************************************************)
(* The registers, for whoever looks at them.                               *)
(***************************************************************************)

\* The ring and its size.
LEMMA RingSize ==
    /\ N \in Nat \ {0} /\ N > 1 /\ Ring = 0 .. N - 1 /\ None \notin Mbuf
    /\ \A k \in Int : k % N \in Ring
  BY E1000Assumption DEF Ring

\* What the transmit registers say of the counts.
LEMMA TxCounts ==
    ASSUME TypeOK, TxInv
    PROVE  /\ Len(sent) \in Nat /\ Len(wire) \in Nat
           /\ Succ(TDT) = (Len(sent) + 1) % N
           /\ Succ(TDH) = (Len(wire) + 1) % N
           /\ TDH = TDT <=> Len(wire) = Len(sent)
           /\ \A k \in Len(wire) .. Len(sent) - 1 : k % N # TDT
<1>. DEFINE S == Len(sent)
            H == Len(wire)
<1>1. S \in Nat /\ H \in Nat
  BY LenProperties DEF TypeOK
<1>2. H <= S /\ S <= H + N - 1 /\ TDH = H % N /\ TDT = S % N
  BY DEF TxInv
<1>. HIDE DEF S, H
<1>3. N \in Nat \ {0} /\ S \in Int /\ H \in Int /\ 1 \in Int
  BY <1>1, RingSize
<1>4. Succ(TDT) = (S + 1) % N /\ Succ(TDH) = (H + 1) % N
  BY <1>2, <1>3, ModAdd DEF Succ
<1>5. ASSUME H % N = S % N PROVE H = S
  <2>1. H - N < S /\ S < H + N
    BY <1>1, <1>2, <1>3
  <2>. QED
    BY <1>3, <1>5, <2>1, ModInj
<1>6. ASSUME NEW k \in H .. S - 1, k % N = S % N PROVE FALSE
  <2>1. k \in Int /\ k - N < S /\ S < k + N
    BY <1>1, <1>2, <1>3
  <2>2. k = S
    BY <1>3, <1>6, <2>1, ModInj
  <2>. QED
    BY <1>1, <2>2
<1>. QED
  BY <1>1, <1>2, <1>4, <1>5, <1>6 DEF S, H

\* What the receive registers say of them: the slots from the head to the tail
\* have mbufs.
LEMMA RxCounts ==
    ASSUME TypeOK, RxInv
    PROVE  /\ Len(arrived) \in Nat /\ Len(delivered) \in Nat /\ Refilled \in Nat
           /\ Succ(RDT) = Refilled % N
           /\ Succ(RDH) = (Len(arrived) + 1) % N
           /\ RDH = RDT <=> Len(arrived) = Refilled + N - 1
           /\ \A k \in Len(delivered) .. Refilled + N - 1 : k % N \in Ring \ Hole
<1>. DEFINE A == Len(arrived)
            D == Len(delivered)
            R == Refilled
            Q == R + N - 1
<1>1. A \in Nat /\ D \in Nat
  BY LenProperties DEF TypeOK
<1>2. /\ R \in Nat /\ D <= A /\ A <= R + N - 1 /\ RDH = A % N /\ RDT = Q % N
      /\ (Away => D = R + 1) /\ (~Away => D = R)
  BY <1>1 DEF RxInv, Refilled
<1>. HIDE DEF A, D, R
<1>3. N \in Nat \ {0} /\ N > 1 /\ A \in Int /\ D \in Int /\ R \in Int /\ 1 \in Int /\ Q \in Int
  BY <1>1, <1>2, RingSize
<1>4. Succ(RDH) = (A + 1) % N
  BY <1>2, <1>3, ModAdd DEF Succ
<1>5. Succ(RDT) = R % N
  <2>1. Succ(RDT) = (Q + 1) % N
    <3>. HIDE DEF Q
    <3>. QED  BY <1>2, <1>3, ModAdd DEF Succ
  <2>2. Q + 1 = R + 1 * N
    BY <1>3
  <2>3. (R + 1 * N) % N = R % N
    BY <1>3, ModShift
  <2>4. (Q + 1) % N = R % N
    <3>. HIDE DEF Q
    <3>. QED  BY <2>2, <2>3, Zenon
  <2>. QED
    BY <2>1, <2>4, Zenon
<1>6. ASSUME A % N = Q % N PROVE A = Q
  <2>1. A - N < Q /\ Q < A + N
    BY <1>1, <1>2, <1>3
  <2>. HIDE DEF Q
  <2>. QED
    BY <1>3, <1>6, <2>1, ModInj
<1>7. ASSUME NEW k \in D .. R + N - 1 PROVE k % N \in Ring \ Hole
  <2>0. k \in Int
    BY <1>3
  <2>1. k \in Int /\ k % N \in Ring
    BY <2>0, RingSize, Zenon
  <2>2. ASSUME Away, k % N = R % N PROVE FALSE
    <3>1. D = R + 1
      BY <1>2, <2>2
    <3>2. k - N < R /\ R < k + N /\ R < k
      BY <1>3, <3>1
    <3>3. k = R
      BY <1>3, <2>1, <2>2, <3>2, ModInj
    <3>. QED
      BY <1>3, <3>2, <3>3
  <2>. QED
    BY <1>5, <2>1, <2>2 DEF Hole
<1>. QED
  BY <1>1, <1>2, <1>4, <1>5, <1>6, <1>7 DEF A, D, R

-----------------------------------------------------------------------------
(***************************************************************************)
(* The rings, when a step does not touch them.                             *)
(***************************************************************************)

\* The transmit ring is not touched, nor an mbuf in it.
LEMMA TxKept ==
    ASSUME TypeOK, TxInv, UNCHANGED <<tx_mbufs, TDH, TDT, sent, wire, done>>,
           \A i \in Ring : tx_mbufs[i] # None => data'[tx_mbufs[i]] = data[tx_mbufs[i]]
    PROVE  TxInv'
<1>1. Len(sent) \in Nat /\ Len(wire) \in Nat
  BY TxCounts
<1>2. \A k \in Len(wire) .. Len(sent) - 1 : k % N \in Ring
  BY <1>1, RingSize
<1>3. \A k \in Len(wire) .. Len(sent) - 1 :
        /\ ~done[k % N]
        /\ tx_mbufs[k % N] \in Mbuf
        /\ data'[tx_mbufs[k % N]] = k + 1
  BY <1>2, RingSize DEF TxInv
<1>. QED
  BY <1>3 DEF TxInv

\* The receive ring is not touched, nor an mbuf in it.
LEMMA RxKept ==
    ASSUME TypeOK, RxInv, UNCHANGED <<rx_dd, rx_mbufs, RDH, RDT, arrived, delivered>>,
           Away' <=> Away,
           \A i \in Ring \ Hole : data'[rx_mbufs[i]] = data[rx_mbufs[i]]
    PROVE  RxInv'
<1>1. Refilled' = Refilled
  BY DEF Refilled
<1>2. \A k \in Len(delivered) .. Len(arrived) - 1 : k % N \in Ring \ Hole
  <2>1. Len(arrived) - 1 <= Refilled + N - 1
    BY RxCounts, RingSize DEF RxInv
  <2>2. \A k \in Len(delivered) .. Len(arrived) - 1 : k \in Len(delivered) .. Refilled + N - 1
    BY <2>1, RxCounts, RingSize
  <2>. QED
    BY <2>2, RxCounts
<1>3. \A k \in Len(delivered) .. Len(arrived) - 1 : data'[rx_mbufs[k % N]] = k + 1
  BY <1>2 DEF RxInv
<1>. QED
  BY <1>1, <1>3 DEF RxInv

-----------------------------------------------------------------------------
(***************************************************************************)
(* Every step keeps the invariant of the rings.                            *)
(***************************************************************************)

\* e1000_init().
LEMMA RingsInit == Init => RingsInv
<1>. SUFFICES ASSUME Init PROVE RingsInv
  OBVIOUS
<1>. USE RingSize
<1>1. TypeOK
  <2>1. 0 \in Ring /\ N - 1 \in Ring /\ <<>> \in Seq(Nat)
    OBVIOUS
  <2>. QED
    BY <2>1 DEF Init, TypeOK
<1>2. Len(<<>>) = 0 /\ 0 % N = 0 /\ (0 + N - 1) % N = N - 1
  <2>1. 0 \in 0 .. N - 1 /\ N - 1 \in 0 .. N - 1 /\ 0 + N - 1 = N - 1
    OBVIOUS
  <2>. QED
    BY <2>1, ModSmall
<1>3. TxInv /\ DDInv
  BY <1>2 DEF Init, TxInv, DDInv
<1>4. ~Away /\ Refilled = 0 /\ Hole = {}
  BY <1>2 DEF Init, Away, Refilled, Hole
<1>5. RxInv
  <2>1. \A k \in 0 .. 0 + N - 1 : ~rx_dd[k % N]
    <3>0. \A k \in 0 .. 0 + N - 1 : k \in Int
      OBVIOUS
    <3>1. \A k \in 0 .. 0 + N - 1 : k % N \in Ring
      BY <3>0, RingSize, Zenon
    <3>. QED
      BY <3>1 DEF Init
  <2>2. Len(arrived) = 0 /\ Len(delivered) = 0 /\ RDH = 0 /\ RDT = N - 1
    BY <1>2 DEF Init
  <2>3. 0 <= 0 + N - 1 /\ 0 .. 0 - 1 = {} /\ 1 .. 0 = {}
    OBVIOUS
  <2>. QED
    BY <1>2, <1>4, <2>1, <2>2, <2>3 DEF RxInv
<1>6. OwnInv
  <2>1. \A i \in Ring : owner[rx_mbufs[i]] = "driver"
    BY DEF Init
  <2>2. \A i, j \in Ring : rx_mbufs[i] = rx_mbufs[j] => i = j
    BY DEF Init
  <2>3. \A i \in Ring : tx_mbufs[i] = None /\ rx_mbufs[i] # None
    BY DEF Init
  <2>4. rxm = None /\ intr = "idle" /\ ~panicked
    BY DEF Init
  <2>. QED
    BY <1>4, <2>1, <2>2, <2>3, <2>4 DEF OwnInv
<1>. QED
  BY <1>1, <1>3, <1>5, <1>6 DEF RingsInv

\* A step that only moves a page between kalloc() and the stack.
LEMMA StackStep ==
    ASSUME RingsInv, NEW b \in Mbuf, b # rxm, owner[b] # "driver",
           NEW o \in {"free", "stack"}, owner' = [owner EXCEPT ![b] = o],
           data' = data \/ data' = [data EXCEPT ![b] = 0],
           UNCHANGED <<tx, rx>>
    PROVE  RingsInv'
<1>. USE RingSize DEF tx, rx
<1>1. TypeOK'
  <2>0. owner \in [Mbuf -> {"free", "driver", "stack"}] /\ data \in [Mbuf -> Nat]
    BY DEF RingsInv, TypeOK
  <2>2. [data EXCEPT ![b] = 0] \in [Mbuf -> Nat]
    BY <2>0, 0 \in Nat
  <2>3. [owner EXCEPT ![b] = o] \in [Mbuf -> {"free", "driver", "stack"}]
    BY <2>0
  <2>1. owner' \in [Mbuf -> {"free", "driver", "stack"}] /\ data' \in [Mbuf -> Nat]
    BY <2>0, <2>2, <2>3
  <2>. QED
    BY <2>1 DEF RingsInv, TypeOK
<1>2. Away' <=> Away
  BY DEF Away
<1>3. Hole' = Hole
  BY <1>2 DEF Hole, Succ
<1>4. \A c \in Mbuf : owner[c] = "driver" => data'[c] = data[c] /\ owner'[c] = "driver"
  BY DEF RingsInv, TypeOK
<1>5. \A i \in Ring : tx_mbufs[i] \in Mbuf \cup {None} /\ rx_mbufs[i] \in Mbuf
  BY DEF RingsInv, TypeOK
<1>6. TxInv'
  <2>1. \A i \in Ring : tx_mbufs[i] # None => data'[tx_mbufs[i]] = data[tx_mbufs[i]]
    BY <1>4, <1>5 DEF RingsInv, OwnInv
  <2>. QED
    BY <2>1, TxKept DEF RingsInv
<1>7. RxInv'
  <2>1. \A i \in Ring \ Hole : data'[rx_mbufs[i]] = data[rx_mbufs[i]]
    BY <1>4, <1>5 DEF RingsInv, OwnInv
  <2>. QED
    BY <1>2, <2>1, RxKept DEF RingsInv
<1>8. DDInv'
  BY DEF RingsInv, DDInv
<1>9. OwnInv'
  <2>1. rxm' # None => owner'[rxm'] = "stack"
    BY DEF RingsInv, OwnInv, TypeOK
  <2>2. \A i \in Ring : tx_mbufs'[i] # None => owner'[tx_mbufs'[i]] = "driver"
    BY <1>4, <1>5 DEF RingsInv, OwnInv
  <2>3. \A i \in Ring \ Hole' : owner'[rx_mbufs'[i]] = "driver"
    BY <1>3, <1>4, <1>5 DEF RingsInv, OwnInv
  <2>. QED
    BY <1>3, <2>1, <2>2, <2>3 DEF RingsInv, OwnInv
<1>. QED
  BY <1>1, <1>6, <1>7, <1>8, <1>9 DEF RingsInv

\* mbufalloc() takes a page that is in neither ring.
LEMMA RingsAlloc ==
    ASSUME RingsInv, NEW b \in Mbuf, mbufalloc(b)
    PROVE  RingsInv'
<1>1. b # rxm
  BY RingSize DEF RingsInv, OwnInv, mbufalloc
<1>. QED
  BY <1>1, StackStep DEF mbufalloc

\* mbuffree() gives back a page of the stack's.
LEMMA RingsFree ==
    ASSUME RingsInv, NEW b \in StackPages, mbuffree(b)
    PROVE  RingsInv'
<1>1. b \in Mbuf /\ b # rxm /\ owner[b] # "driver"
  BY DEF StackPages
<1>. QED
  BY <1>1, StackStep DEF mbuffree

\* The return of net_rx(), which has kept or freed its mbuf.
LEMMA RingsReturn ==
    ASSUME RingsInv, net_rx_return
    PROVE  RingsInv'
<1>. USE RingSize DEF tx
<1>0. rxm \in Mbuf /\ owner[rxm] = "stack"
  BY DEF RingsInv, OwnInv, TypeOK, net_rx_return
<1>1. TypeOK'
  <2>0. owner \in [Mbuf -> {"free", "driver", "stack"}] /\ data \in [Mbuf -> Nat]
    BY DEF RingsInv, TypeOK
  <2>2. [data EXCEPT ![rxm] = 0] \in [Mbuf -> Nat]
    BY <2>0, 0 \in Nat
  <2>3. [owner EXCEPT ![rxm] = "free"] \in [Mbuf -> {"free", "driver", "stack"}]
    BY <2>0, <1>0
  <2>1. owner' \in [Mbuf -> {"free", "driver", "stack"}] /\ data' \in [Mbuf -> Nat]
    BY <2>0, <2>2, <2>3 DEF net_rx_return
  <2>. QED
    BY <2>1 DEF RingsInv, TypeOK, net_rx_return
<1>2. Away' /\ Away /\ ~panicked
  BY DEF Away, net_rx_return
<1>3. Hole' = Hole
  BY <1>2 DEF Hole, Succ, net_rx_return
<1>4. \A c \in Mbuf : owner[c] = "driver" => data'[c] = data[c] /\ owner'[c] = "driver"
  BY <1>0 DEF RingsInv, TypeOK, net_rx_return
<1>5. \A i \in Ring : tx_mbufs[i] \in Mbuf \cup {None} /\ rx_mbufs[i] \in Mbuf
  BY DEF RingsInv, TypeOK
<1>6. TxInv'
  <2>1. \A i \in Ring : tx_mbufs[i] # None => data'[tx_mbufs[i]] = data[tx_mbufs[i]]
    BY <1>4, <1>5 DEF RingsInv, OwnInv
  <2>. QED
    BY <2>1, TxKept DEF RingsInv, net_rx_return
<1>7. RxInv'
  <2>1. \A i \in Ring \ Hole : data'[rx_mbufs[i]] = data[rx_mbufs[i]]
    BY <1>4, <1>5 DEF RingsInv, OwnInv
  <2>. QED
    BY <1>2, <2>1, RxKept DEF RingsInv, net_rx_return
<1>8. DDInv'
  BY DEF RingsInv, DDInv, net_rx_return
<1>9. OwnInv'
  <2>1. \A i \in Ring : tx_mbufs'[i] # None => owner'[tx_mbufs'[i]] = "driver"
    BY <1>4, <1>5 DEF RingsInv, OwnInv, net_rx_return
  <2>2. \A i \in Ring \ Hole' : owner'[rx_mbufs'[i]] = "driver"
    BY <1>3, <1>4, <1>5 DEF RingsInv, OwnInv, net_rx_return
  <2>3. rxm' = None /\ intr' = "refill" /\ ~panicked'
    BY DEF net_rx_return
  <2>. QED
    BY <1>3, <2>1, <2>2, <2>3 DEF RingsInv, OwnInv, net_rx_return
<1>. QED
  BY <1>1, <1>6, <1>7, <1>8, <1>9 DEF RingsInv

\* The read of the cause register.
LEMMA RingsIntr ==
    ASSUME RingsInv, e1000_intr
    PROVE  RingsInv'
<1>. USE DEF tx
<1>1. TypeOK'
  BY DEF RingsInv, TypeOK, e1000_intr
<1>2. ~Away' /\ ~Away
  BY DEF Away, e1000_intr
<1>3. Hole' = Hole
  BY <1>2 DEF Hole
<1>4. TxInv'
  BY TxKept DEF RingsInv, e1000_intr
<1>5. RxInv'
  BY <1>2, RxKept DEF RingsInv, e1000_intr
<1>6. DDInv' /\ OwnInv'
  BY <1>3 DEF RingsInv, DDInv, OwnInv, e1000_intr
<1>. QED
  BY <1>1, <1>4, <1>5, <1>6 DEF RingsInv

\* The card keeps up, so there is a slot between the tail and the head for
\* e1000_transmit().
LEMMA RoomToSend ==
    ASSUME RingsInv, TxLag < N, MaySend
    PROVE  Len(sent) < Len(wire) + N - 1
<1>. DEFINE S == Len(sent)
            H == Len(wire)
            Busy == {i \in Ring : ~done[i]}
<1>1. S \in Nat /\ H \in Nat /\ S <= H + N - 1 /\ TDT = S % N /\ N \in Nat \ {0} /\ N > 1
  BY TxCounts, RingSize DEF RingsInv, TxInv
<1>2. \A k \in H .. S - 1 : ~done[k % N]
  BY DEF RingsInv, TxInv
<1>. SUFFICES ASSUME S = H + N - 1 PROVE FALSE
  <2>. HIDE DEF S, H
  <2>1. S < H + N - 1 \/ S = H + N - 1
    BY <1>1
  <2>. QED
    BY <2>1 DEF S, H
<1>. HIDE DEF S, H
<1>3. ASSUME NEW i \in Ring, i # TDT PROVE i \in Busy
  <2>1. PICK k \in H .. H + N - 1 : k % N = i
    <3>1. i \in 0 .. N - 1 /\ H \in Int
      BY <1>1, RingSize
    <3>. QED
      BY <1>1, <3>1, RingCover
  <2>2. k # S
    BY <1>1, <1>3, <2>1
  <2>3. k \in H .. S - 1
    BY <1>1, <2>2
  <2>. QED
    BY <1>2, <2>1, <2>3
<1>4. IsFiniteSet(Ring) /\ Cardinality(Ring) = N
  <2>1. 0 \in Int /\ N - 1 \in Int /\ ~(0 > N - 1) /\ N - 1 - 0 + 1 = N
    BY <1>1
  <2>2. IsFiniteSet(0 .. N - 1) /\ Cardinality(0 .. N - 1) = N - 1 - 0 + 1
    BY <2>1, FS_Interval
  <2>. QED
    BY <2>1, <2>2, RingSize
<1>5. TDT \in Ring
  BY DEF RingsInv, TypeOK
<1>6. IsFiniteSet(Ring \ {TDT}) /\ Cardinality(Ring \ {TDT}) = N - 1
  BY <1>4, <1>5, FS_RemoveElement
<1>7. IsFiniteSet(Busy)
  BY <1>4, FS_Subset
<1>8. Cardinality(Ring \ {TDT}) <= Cardinality(Busy)
  <2>1. Ring \ {TDT} \subseteq Busy
    BY <1>3
  <2>. QED
    BY <1>7, <2>1, FS_Subset
<1>9. Cardinality(Busy) < TxLag
  BY DEF MaySend
<1>10. Cardinality(Busy) \in Nat /\ TxLag \in Nat
  BY <1>7, FS_CardinalityType, E1000Assumption
<1>11. Cardinality(Busy) = N - 1 => FALSE
  <2>. SUFFICES ASSUME Cardinality(Busy) = N - 1 PROVE FALSE
    OBVIOUS
  <2>. QED
    BY <1>1, <1>9, <1>10
<1>. QED
  BY <1>1, <1>6, <1>8, <1>9, <1>10

\* e1000_transmit().
LEMMA RingsTransmit ==
    ASSUME RingsInv, TxLag < N, NEW b \in StackPages, e1000_transmit(b)
    PROVE  RingsInv'
<1>. DEFINE S == Len(sent)
            H == Len(wire)
<1>. USE DEF rx
<1>0. b \in Mbuf /\ owner[b] = "stack" /\ b # rxm /\ tx_dd[TDT] /\ TDT \in Ring
  BY DEF StackPages, RingsInv, DDInv, TypeOK
<1>1. /\ owner' = Replace(tx_mbufs[TDT], b)
      /\ data' = [c \in Mbuf |-> CASE c = b -> Len(sent) + 1
                                   [] c = tx_mbufs[TDT] -> 0
                                   [] OTHER -> data[c]]
      /\ tx_mbufs' = [tx_mbufs EXCEPT ![TDT] = b]
      /\ done' = [done EXCEPT ![TDT] = FALSE]
      /\ sent' = Append(sent, Len(sent) + 1)
      /\ TDT' = Succ(TDT)
      /\ UNCHANGED <<tx_dd, TDH, wire, rx_dd, rx_mbufs, RDH, RDT, ICR, intr, rxm, panicked,
                     arrived, delivered>>
  BY <1>0 DEF e1000_transmit
<1>2. S \in Nat /\ H \in Nat /\ S + 1 \in Nat
  BY TxCounts DEF RingsInv
<1>3. /\ \A i \in Ring : tx_mbufs[i] \in Mbuf \cup {None} /\ rx_mbufs[i] \in Mbuf
      /\ owner \in [Mbuf -> {"free", "driver", "stack"}] /\ data \in [Mbuf -> Nat]
      /\ sent \in Seq(Nat) /\ done \in [Ring -> BOOLEAN]
      /\ tx_mbufs \in [Ring -> Mbuf \cup {None}]
  BY DEF RingsInv, TypeOK
<1>4. \A c \in Mbuf : c # b /\ c # tx_mbufs[TDT] => data'[c] = data[c] /\ owner'[c] = owner[c]
  BY <1>1 DEF Replace
<1>5. data'[b] = S + 1 /\ owner'[b] = "driver"
  <2>1. b # tx_mbufs[TDT]
    BY <1>0, RingSize DEF RingsInv, OwnInv
  <2>2. owner'[b] = "driver"
    BY <1>0, <1>1 DEF Replace
  <2>. QED
    BY <1>0, <1>1, <2>1, <2>2
<1>6. TypeOK'
  <2>1. Succ(TDT) \in Ring
    <3>1. Succ(TDT) = (S + 1) % N /\ S + 1 \in Int
      BY <1>2, TxCounts DEF RingsInv
    <3>. QED
      BY <3>1, RingSize, Zenon
  <2>2. \A c \in Mbuf : data'[c] \in Nat
    <3>1. \A c \in Mbuf : c = tx_mbufs[TDT] /\ c # b => data'[c] = 0
      BY <1>1
    <3>. QED
      BY <1>2, <1>3, <1>4, <1>5, <3>1
  <2>3. data' \in [Mbuf -> Nat]
    BY <1>1, <2>2
  <2>4. owner' \in [Mbuf -> {"free", "driver", "stack"}]
    BY <1>1, <1>3 DEF Replace
  <2>5. sent' \in Seq(Nat)
    BY <1>1, <1>2, <1>3
  <2>6. tx_mbufs' \in [Ring -> Mbuf \cup {None}] /\ done' \in [Ring -> BOOLEAN]
    BY <1>0, <1>1, <1>3
  <2>. QED
    BY <1>1, <2>1, <2>3, <2>4, <2>5, <2>6 DEF RingsInv, TypeOK
<1>7. \A i \in Ring \ Hole : data'[rx_mbufs[i]] = data[rx_mbufs[i]] /\ owner'[rx_mbufs[i]] = owner[rx_mbufs[i]]
  <2>1. \A i \in Ring \ Hole : rx_mbufs[i] # b /\ rx_mbufs[i] # tx_mbufs[TDT]
    BY <1>0 DEF RingsInv, OwnInv
  <2>. QED
    BY <1>3, <1>4, <2>1
<1>8. \A i \in Ring : i # TDT /\ tx_mbufs[i] # None =>
        data'[tx_mbufs[i]] = data[tx_mbufs[i]] /\ owner'[tx_mbufs[i]] = "driver"
  <2>1. \A i \in Ring : i # TDT /\ tx_mbufs[i] # None => tx_mbufs[i] # b /\ tx_mbufs[i] # tx_mbufs[TDT]
    BY <1>0 DEF RingsInv, OwnInv
  <2>. QED
    BY <1>3, <1>4, <2>1 DEF RingsInv, OwnInv
<1>9. TxInv'
  <2>1. Len(sent') = S + 1 /\ sent' \in Seq(Nat) /\ \A k \in 1 .. S + 1 : sent'[k] = k
    <3>1. sent' = Append(sent, S + 1) /\ \A k \in 1 .. S : sent[k] = k
      BY <1>1 DEF RingsInv, TxInv
    <3>. QED
      BY <1>2, <1>3, <3>1, AppendProperties
  <2>2. S + 1 <= H + N - 1 /\ H <= S
    <3>1. S < H + N - 1
      BY RoomToSend DEF e1000_transmit
    <3>2. H <= S
      BY DEF RingsInv, TxInv
    <3>. HIDE DEF S, H
    <3>. QED
      BY <1>2, <3>1, <3>2, RingSize
  <2>3. TDH' = H % N /\ TDT' = (S + 1) % N
    BY <1>1, TxCounts DEF RingsInv, TxInv
  <2>4. ASSUME NEW k \in H .. S + 1 - 1
        PROVE  ~done'[k % N] /\ tx_mbufs'[k % N] \in Mbuf /\ data'[tx_mbufs'[k % N]] = k + 1
    <3>1. CASE k = S
      <4>1. k % N = TDT
        BY <3>1 DEF RingsInv, TxInv
      <4>. QED
        BY <1>0, <1>1, <1>3, <1>5, <3>1, <4>1
    <3>2. CASE k # S
      <4>1. k \in H .. S - 1
        <5>. HIDE DEF S, H
        <5>. QED  BY <1>2, <3>2
      <4>2. k % N # TDT /\ k % N \in Ring
        BY <1>2, <4>1, TxCounts, RingSize DEF RingsInv
      <4>3. ~done[k % N] /\ tx_mbufs[k % N] \in Mbuf /\ data[tx_mbufs[k % N]] = k + 1
        BY <4>1 DEF RingsInv, TxInv
      <4>4. done'[k % N] = done[k % N] /\ tx_mbufs'[k % N] = tx_mbufs[k % N]
        BY <1>0, <1>1, <1>3, <4>2
      <4>5. data'[tx_mbufs[k % N]] = data[tx_mbufs[k % N]]
        BY <1>8, <4>2, <4>3, RingSize
      <4>. QED
        BY <4>3, <4>4, <4>5
    <3>. QED
      BY <3>1, <3>2
  <2>5. wire' = wire /\ \A k \in 1 .. H : wire[k] = k
    BY <1>1 DEF RingsInv, TxInv
  <2>. QED
    BY <2>1, <2>2, <2>3, <2>4, <2>5 DEF TxInv
<1>10. Away' <=> Away
  BY <1>1 DEF Away
<1>11. Hole' = Hole
  BY <1>1, <1>10 DEF Hole, Succ
<1>12. RxInv'
  BY <1>1, <1>7, <1>10, RxKept DEF RingsInv
<1>13. OwnInv'
  <2>1. \A i \in Ring : tx_mbufs'[i] # None => owner'[tx_mbufs'[i]] = "driver"
    BY <1>0, <1>1, <1>3, <1>5, <1>8
  <2>2. \A i, j \in Ring : tx_mbufs'[i] # None /\ tx_mbufs'[i] = tx_mbufs'[j] => i = j
    <3>1. \A i \in Ring : tx_mbufs[i] # b
      BY <1>0, RingSize DEF RingsInv, OwnInv
    <3>2. \A i \in Ring : tx_mbufs'[i] = IF i = TDT THEN b ELSE tx_mbufs[i]
      BY <1>0, <1>1, <1>3
    <3>3. \A i, j \in Ring : tx_mbufs[i] # None /\ tx_mbufs[i] = tx_mbufs[j] => i = j
      BY DEF RingsInv, OwnInv
    <3>. QED
      BY <3>1, <3>2, <3>3
  <2>3. \A i \in Ring \ Hole' : owner'[rx_mbufs'[i]] = "driver"
    BY <1>1, <1>7, <1>11 DEF RingsInv, OwnInv
  <2>4. \A i, j \in Ring \ Hole' : rx_mbufs'[i] = rx_mbufs'[j] => i = j
    BY <1>1, <1>11 DEF RingsInv, OwnInv
  <2>5. \A i \in Ring \ Hole', j \in Ring : rx_mbufs'[i] # tx_mbufs'[j]
    <3>1. \A i \in Ring \ Hole : rx_mbufs[i] # b
      BY <1>0 DEF RingsInv, OwnInv
    <3>2. \A i \in Ring : tx_mbufs'[i] = IF i = TDT THEN b ELSE tx_mbufs[i]
      BY <1>0, <1>1, <1>3
    <3>3. \A i \in Ring \ Hole, j \in Ring : rx_mbufs[i] # tx_mbufs[j]
      BY DEF RingsInv, OwnInv
    <3>. QED
      BY <1>1, <1>11, <3>1, <3>2, <3>3
  <2>6. rxm # None => rxm \in Mbuf /\ rxm # tx_mbufs[TDT] /\ owner[rxm] = "stack"
    BY <1>0 DEF RingsInv, OwnInv, TypeOK
  <2>7. rxm' # None => owner'[rxm'] = "stack"
    BY <1>0, <1>1, <1>4, <2>6
  <2>8. (rxm' # None <=> intr' = "net_rx") /\ (panicked' => intr' = "recvd")
    BY <1>1 DEF RingsInv, OwnInv
  <2>. QED
    BY <2>1, <2>2, <2>3, <2>4, <2>5, <2>7, <2>8 DEF OwnInv
<1>14. DDInv'
  BY <1>1 DEF RingsInv, DDInv
<1>. QED
  BY <1>6, <1>9, <1>12, <1>13, <1>14 DEF RingsInv

\* The card sends.
LEMMA RingsCardTx ==
    ASSUME RingsInv, card_transmit
    PROVE  RingsInv'
<1>. DEFINE S == Len(sent)
            H == Len(wire)
<1>. USE DEF rx
<1>1. S \in Nat /\ H \in Nat /\ H < S /\ TDH = H % N /\ TDH \in Ring /\ S <= H + N - 1
  <2>1. S \in Nat /\ H \in Nat /\ TDH = H % N /\ H <= S /\ S <= H + N - 1 /\ H # S /\ TDH \in Ring
    BY TxCounts DEF RingsInv, TxInv, TypeOK, card_transmit
  <2>. HIDE DEF S, H
  <2>. QED
    BY <2>1
<1>2. data[tx_mbufs[TDH]] = H + 1
  <2>1. H \in H .. S - 1
    <3>. HIDE DEF S, H
    <3>. QED  BY <1>1
  <2>. QED
    BY <1>1, <2>1 DEF RingsInv, TxInv
<1>3. wire \in Seq(Nat) /\ tx_dd \in [Ring -> BOOLEAN] /\ done \in [Ring -> BOOLEAN]
  BY DEF RingsInv, TypeOK
<1>4. Len(wire') = H + 1 /\ wire' \in Seq(Nat) /\ \A k \in 1 .. H + 1 : wire'[k] = k
  <2>1. wire' = Append(wire, H + 1) /\ \A k \in 1 .. H : wire[k] = k
    BY <1>2 DEF RingsInv, TxInv, card_transmit
  <2>2. H + 1 \in Nat
    BY <1>1
  <2>. QED
    BY <1>1, <1>3, <2>1, <2>2, AppendProperties
<1>5. TDH' = (H + 1) % N /\ TDH' \in Ring
  <2>1. TDH' = (H + 1) % N /\ H + 1 \in Int
    BY <1>1, TxCounts DEF RingsInv, card_transmit
  <2>. QED
    BY <2>1, RingSize, Zenon
<1>6. TypeOK'
  <2>1. tx_dd' \in [Ring -> BOOLEAN] /\ done' \in [Ring -> BOOLEAN]
    BY <1>1, <1>3 DEF card_transmit
  <2>. QED
    BY <1>4, <1>5, <2>1 DEF RingsInv, TypeOK, card_transmit
<1>7. TxInv'
  <2>1. ASSUME NEW k \in H + 1 .. S - 1
        PROVE  ~done'[k % N] /\ tx_mbufs'[k % N] \in Mbuf /\ data'[tx_mbufs'[k % N]] = k + 1
    <3>1. k \in H .. S - 1 /\ k \in Int /\ H \in Int /\ k # H /\ k - N < H /\ H < k + N
      <4>. HIDE DEF S, H
      <4>. QED  BY <1>1, RingSize
    <3>2. k % N # H % N
      <4>. HIDE DEF H
      <4>. QED  BY <3>1, ModInj, RingSize
    <3>3. k % N \in Ring
      BY <3>1, RingSize
    <3>4. ~done[k % N] /\ tx_mbufs[k % N] \in Mbuf /\ data[tx_mbufs[k % N]] = k + 1
      BY <3>1 DEF RingsInv, TxInv
    <3>5. done'[k % N] = done[k % N]
      BY <1>1, <1>3, <3>2, <3>3 DEF card_transmit
    <3>. QED
      BY <3>4, <3>5 DEF card_transmit
  <2>2. H + 1 <= S /\ S <= H + 1 + N - 1
    <3>. HIDE DEF S, H
    <3>. QED  BY <1>1, RingSize
  <2>3. sent' = sent /\ TDT' = S % N /\ \A k \in 1 .. S : sent[k] = k
    BY DEF RingsInv, TxInv, card_transmit
  <2>. QED
    BY <1>4, <1>5, <2>1, <2>2, <2>3 DEF TxInv
<1>8. Away' <=> Away
  BY DEF Away, card_transmit
<1>9. Hole' = Hole
  BY <1>8 DEF Hole, Succ, card_transmit
<1>10. RxInv'
  BY <1>8, RxKept DEF RingsInv, card_transmit
<1>11. OwnInv'
  BY <1>9 DEF RingsInv, OwnInv, card_transmit
<1>12. DDInv'
  BY <1>1, <1>3 DEF RingsInv, DDInv, card_transmit
<1>. QED
  BY <1>6, <1>7, <1>10, <1>11, <1>12 DEF RingsInv

\* The card receives.
LEMMA RingsCardRx ==
    ASSUME RingsInv, card_receive
    PROVE  RingsInv'
<1>. DEFINE A == Len(arrived)
            D == Len(delivered)
            R == Refilled
<1>. USE DEF tx
<1>1. /\ A \in Nat /\ D \in Nat /\ R \in Nat /\ D <= A /\ A < R + N - 1 /\ R <= D
      /\ RDH = A % N /\ A % N \in Ring \ Hole /\ N \in Nat \ {0}
  <2>1. /\ A \in Nat /\ D \in Nat /\ R \in Nat /\ D <= A /\ A <= R + N - 1 /\ R <= D
        /\ RDH = A % N /\ A # R + N - 1 /\ N \in Nat \ {0}
    <3>1. A \in Nat /\ D \in Nat /\ R \in Nat /\ A # R + N - 1 /\ N \in Nat \ {0}
      BY RxCounts, RingSize DEF RingsInv, card_receive
    <3>2. D <= A /\ A <= R + N - 1 /\ RDH = A % N
      BY DEF RingsInv, RxInv
    <3>3. R = D - 1 \/ R = D
      BY DEF Refilled
    <3>. HIDE DEF A, D, R
    <3>. QED
      BY <3>1, <3>2, <3>3
  <2>2. \A k \in D .. R + N - 1 : k % N \in Ring \ Hole
    BY RxCounts DEF RingsInv
  <2>. HIDE DEF A, D, R
  <2>3. A \in D .. R + N - 1 /\ A < R + N - 1
    BY <2>1
  <2>. QED
    BY <2>1, <2>2, <2>3
<1>2. /\ \A i \in Ring : tx_mbufs[i] \in Mbuf \cup {None} /\ rx_mbufs[i] \in Mbuf
      /\ data \in [Mbuf -> Nat] /\ arrived \in Seq(Nat) /\ rx_dd \in [Ring -> BOOLEAN]
  BY DEF RingsInv, TypeOK
<1>3. data'[rx_mbufs[RDH]] = A + 1 /\ \A c \in Mbuf : c # rx_mbufs[RDH] => data'[c] = data[c]
  BY <1>1, <1>2 DEF card_receive
<1>4. \A i \in Ring : tx_mbufs[i] # None => data'[tx_mbufs[i]] = data[tx_mbufs[i]]
  <2>1. \A i \in Ring : tx_mbufs[i] # rx_mbufs[RDH]
    BY <1>1 DEF RingsInv, OwnInv
  <2>. QED
    BY <1>2, <1>3, <2>1
<1>5. \A i \in Ring \ Hole : i # RDH => data'[rx_mbufs[i]] = data[rx_mbufs[i]]
  <2>1. \A i \in Ring \ Hole : i # RDH => rx_mbufs[i] # rx_mbufs[RDH]
    BY <1>1 DEF RingsInv, OwnInv
  <2>. QED
    BY <1>2, <1>3, <2>1
<1>6. Len(arrived') = A + 1 /\ arrived' \in Seq(Nat) /\ \A k \in 1 .. A + 1 : arrived'[k] = k
  <2>1. arrived' = Append(arrived, A + 1) /\ \A k \in 1 .. A : arrived[k] = k
    BY DEF RingsInv, RxInv, card_receive
  <2>2. A + 1 \in Nat
    BY <1>1
  <2>. QED
    BY <1>1, <1>2, <2>1, <2>2, AppendProperties
<1>7. RDH' = (A + 1) % N /\ RDH' \in Ring
  <2>1. RDH' = (A + 1) % N /\ A + 1 \in Int
    BY <1>1, RxCounts DEF RingsInv, card_receive
  <2>. QED
    BY <2>1, RingSize, Zenon
<1>8. TypeOK'
  <2>1. A + 1 \in Nat /\ rx_mbufs[RDH] \in Mbuf /\ RDH \in Ring
    BY <1>1, <1>2
  <2>2. data' \in [Mbuf -> Nat] /\ rx_dd' \in [Ring -> BOOLEAN]
    BY <1>2, <2>1 DEF card_receive
  <2>. QED
    BY <1>6, <1>7, <2>2 DEF RingsInv, TypeOK, card_receive
<1>9. (Away' <=> Away) /\ Hole' = Hole /\ Refilled' = R
  <2>1. Away' <=> Away
    BY DEF Away, card_receive
  <2>. QED
    BY <2>1 DEF Hole, Succ, Refilled, card_receive
<1>10. TxInv'
  BY <1>4, TxKept DEF RingsInv, card_receive
<1>11. RxInv'
  <2>1. ASSUME NEW k \in D .. R + N - 1, k # A
        PROVE  k % N \in Ring \ Hole /\ k % N # RDH
    <3>1. k % N \in Ring \ Hole
      BY RxCounts DEF RingsInv
    <3>2. k \in Int /\ A \in Int /\ k - N < A /\ A < k + N
      <4>. HIDE DEF A, D, R
      <4>. QED  BY <1>1
    <3>3. k % N # A % N
      <4>. HIDE DEF A, D, R
      <4>. QED  BY <1>1, <2>1, <3>2, ModInj
    <3>. QED
      BY <1>1, <3>1, <3>3
  <2>2. ASSUME NEW k \in D .. A + 1 - 1 PROVE data'[rx_mbufs[k % N]] = k + 1
    <3>1. CASE k = A
      BY <1>1, <1>3, <3>1
    <3>2. CASE k # A
      <4>1. k \in D .. A - 1 /\ k \in D .. R + N - 1
        <5>. HIDE DEF A, D, R
        <5>. QED  BY <1>1, <3>2
      <4>2. data[rx_mbufs[k % N]] = k + 1
        BY <4>1 DEF RingsInv, RxInv
      <4>. QED
        BY <1>5, <2>1, <3>2, <4>1, <4>2
    <3>. QED
      BY <3>1, <3>2
  <2>3. ASSUME NEW k \in A + 1 .. R + N - 1 PROVE ~rx_dd'[k % N]
    <3>1. k \in A .. R + N - 1 /\ k \in D .. R + N - 1 /\ k # A
      <4>. HIDE DEF A, D, R
      <4>. QED  BY <1>1
    <3>2. ~rx_dd[k % N]
      BY <3>1 DEF RingsInv, RxInv
    <3>3. k % N \in Ring /\ k % N # RDH
      BY <2>1, <3>1
    <3>. QED
      BY <1>1, <1>2, <3>2, <3>3 DEF card_receive
  <2>4. D <= A + 1 /\ A + 1 <= R + N - 1
    <3>. HIDE DEF A, D, R
    <3>. QED  BY <1>1
  <2>5. /\ RDT' = (R + N - 1) % N /\ delivered' = delivered /\ rx_mbufs' = rx_mbufs
        /\ \A k \in 1 .. D : delivered[k] = k
    BY DEF RingsInv, RxInv, card_receive
  <2>6. \A k \in D .. A + 1 - 1 : data'[rx_mbufs'[k % N]] = k + 1
    BY <2>2, <2>5
  <2>. HIDE DEF R
  <2>7. R \in Nat /\ Refilled' = R /\ Len(delivered') = D /\ Len(arrived') = A + 1
    BY <1>1, <1>6, <1>9, <2>5
  <2>. QED
    BY <1>6, <1>7, <2>3, <2>4, <2>5, <2>6, <2>7 DEF RxInv
<1>12. OwnInv'
  BY <1>9 DEF RingsInv, OwnInv, card_receive
<1>13. DDInv'
  BY DEF RingsInv, DDInv, card_receive
<1>. QED
  BY <1>8, <1>10, <1>11, <1>12, <1>13 DEF RingsInv

\* e1000_recv() up to the call of net_rx().
LEMMA RingsRecv ==
    ASSUME RingsInv, e1000_recv
    PROVE  RingsInv'
<1>. DEFINE A == Len(arrived)
            D == Len(delivered)
            i == Succ(RDT)
<1>. USE DEF tx
<1>1. ~Away /\ Refilled = D /\ Hole = {} /\ intr = "idle" /\ ~panicked /\ rxm = None
  BY DEF Away, Refilled, Hole, e1000_recv, RingsInv, OwnInv
<1>2. A \in Nat /\ D \in Nat /\ D <= A /\ A <= D + N - 1 /\ i = D % N /\ i \in Ring /\ N \in Nat \ {0}
  <2>1. A \in Nat /\ D \in Nat /\ D <= A /\ A <= D + N - 1 /\ i = D % N /\ N \in Nat \ {0}
    BY <1>1, RxCounts, RingSize DEF RingsInv, RxInv
  <2>2. D \in Int
    BY <2>1
  <2>. HIDE DEF A, D, i
  <2>. QED
    BY <2>1, <2>2, RingSize, Zenon
<1>3. TxInv' /\ DDInv'
  BY TxKept DEF RingsInv, DDInv, e1000_recv
<1>4. CASE ~rx_dd[i]
  <2>1. intr' = "recvd" /\ UNCHANGED <<owner, delivered, rxm>>
    BY <1>4 DEF e1000_recv
  <2>2. ~Away'
    BY <2>1 DEF Away, e1000_recv
  <2>3. Hole' = {}
    BY <2>2 DEF Hole
  <2>4. RxInv'
    BY <1>1, <2>1, <2>2, RxKept DEF RingsInv, e1000_recv
  <2>5. TypeOK'
    BY <2>1 DEF RingsInv, TypeOK, e1000_recv
  <2>6. OwnInv'
    BY <1>1, <2>1, <2>3 DEF RingsInv, OwnInv, e1000_recv
  <2>. QED
    BY <1>3, <2>4, <2>5, <2>6 DEF RingsInv
<1>5. CASE rx_dd[i]
  <2>. DEFINE m == rx_mbufs[i]
  <2>1. /\ intr' = "net_rx" /\ rxm' = m /\ owner' = [owner EXCEPT ![m] = "stack"]
        /\ delivered' = Append(delivered, data[m])
        /\ UNCHANGED <<rx_dd, rx_mbufs, RDH, RDT, ICR, panicked, arrived, data>>
    BY <1>5 DEF e1000_recv
  <2>2. D < A
    <3>1. ASSUME D = A PROVE FALSE
      <4>1. A \in A .. D + N - 1
        <5>. HIDE DEF A, D
        <5>. QED  BY <1>2
      <4>2. ~rx_dd[A % N]
        BY <1>1, <4>1 DEF RingsInv, RxInv
      <4>3. A % N = i
        BY <1>2, <3>1
      <4>. QED
        BY <1>5, <4>2, <4>3
    <3>. HIDE DEF A, D
    <3>. QED
      BY <1>2, <3>1
  <2>3. data[m] = D + 1
    <3>1. D \in D .. A - 1
      <4>. HIDE DEF A, D
      <4>. QED  BY <1>2, <2>2
    <3>. QED
      BY <1>1, <1>2, <3>1 DEF RingsInv, RxInv
  <2>4. /\ m \in Mbuf /\ owner \in [Mbuf -> {"free", "driver", "stack"}] /\ delivered \in Seq(Nat)
        /\ \A j \in Ring : rx_mbufs[j] \in Mbuf /\ tx_mbufs[j] \in Mbuf \cup {None}
    BY <1>2 DEF RingsInv, TypeOK
  <2>5. /\ Len(delivered') = D + 1 /\ delivered' \in Seq(Nat)
        /\ \A k \in 1 .. D + 1 : delivered'[k] = k
    <3>1. delivered' = Append(delivered, D + 1) /\ \A k \in 1 .. D : delivered[k] = k
      BY <2>1, <2>3 DEF RingsInv, RxInv
    <3>2. D + 1 \in Nat
      BY <1>2
    <3>. QED
      BY <1>2, <2>4, <3>1, <3>2, AppendProperties
  <2>6. Away' /\ Hole' = {i} /\ Refilled' = D
    <3>1. Away'
      BY <2>1 DEF Away
    <3>2. Hole' = {i}
      BY <2>1, <3>1 DEF Hole, Succ
    <3>3. Refilled' = D + 1 - 1
      BY <2>5, <3>1 DEF Refilled
    <3>. QED
      BY <1>2, <3>1, <3>2, <3>3
  <2>7. TypeOK'
    <3>1. owner' \in [Mbuf -> {"free", "driver", "stack"}]
      BY <2>1, <2>4
    <3>2. rxm' \in Mbuf \cup {None}
      BY <2>1, <2>4
    <3>. QED
      BY <2>1, <2>5, <3>1, <3>2 DEF RingsInv, TypeOK, e1000_recv
  <2>8. RxInv'
    <3>1. D + 1 <= A /\ A <= D + N - 1
      <4>. HIDE DEF A, D
      <4>. QED  BY <1>2, <2>2
    <3>2. \A k \in D + 1 .. A - 1 : data[rx_mbufs[k % N]] = k + 1
      <4>1. \A k \in D .. A - 1 : data[rx_mbufs[k % N]] = k + 1
        BY DEF RingsInv, RxInv
      <4>2. \A k \in D + 1 .. A - 1 : k \in D .. A - 1
        <5>. HIDE DEF A, D
        <5>. QED  BY <1>2
      <4>. QED
        BY <4>1, <4>2
    <3>3. /\ RDH = A % N /\ RDT = (D + N - 1) % N /\ \A k \in 1 .. A : arrived[k] = k
          /\ \A k \in A .. D + N - 1 : ~rx_dd[k % N]
      BY <1>1 DEF RingsInv, RxInv
    <3>. HIDE DEF D, i
    <3>. QED
      BY <1>2, <2>1, <2>5, <2>6, <3>1, <3>2, <3>3 DEF RxInv
  <2>9. OwnInv'
    <3>1. \A j \in Ring : owner[rx_mbufs[j]] = "driver"
      BY <1>1 DEF RingsInv, OwnInv
    <3>2. \A j, k \in Ring : rx_mbufs[j] = rx_mbufs[k] => j = k
      BY <1>1 DEF RingsInv, OwnInv
    <3>3. \A j, k \in Ring : rx_mbufs[j] # tx_mbufs[k]
      BY <1>1 DEF RingsInv, OwnInv
    <3>4. \A j \in Ring : tx_mbufs[j] # None => owner[tx_mbufs[j]] = "driver" /\ tx_mbufs[j] # m
      BY <1>2, <3>3 DEF RingsInv, OwnInv
    <3>5. \A c \in Mbuf : owner'[c] = IF c = m THEN "stack" ELSE owner[c]
      BY <2>1, <2>4
    <3>6. tx_mbufs' = tx_mbufs
      BY DEF e1000_recv
    <3>7. \A j \in Ring : tx_mbufs'[j] # None => owner'[tx_mbufs'[j]] = "driver"
      BY <2>4, <3>4, <3>5, <3>6
    <3>8. \A j \in Ring \ Hole' : owner'[rx_mbufs'[j]] = "driver"
      BY <1>2, <2>1, <2>4, <2>6, <3>1, <3>2, <3>5
    <3>9. \A j, k \in Ring : tx_mbufs[j] # None /\ tx_mbufs[j] = tx_mbufs[k] => j = k
      BY DEF RingsInv, OwnInv
    <3>10. rxm' # None /\ owner'[rxm'] = "stack" /\ intr' = "net_rx" /\ ~panicked'
      BY <1>1, <2>1, <2>4, <3>5, RingSize
    <3>. HIDE DEF m, i
    <3>. QED
      BY <2>1, <3>2, <3>3, <3>6, <3>7, <3>8, <3>9, <3>10 DEF OwnInv
  <2>. QED
    BY <1>3, <2>7, <2>8, <2>9 DEF RingsInv
<1>. QED
  BY <1>4, <1>5

\* The refill of the descriptor, or the panic.
LEMMA RingsRefill ==
    ASSUME RingsInv, e1000_recv_refill
    PROVE  RingsInv'
<1>. DEFINE A == Len(arrived)
            D == Len(delivered)
            R == Refilled
            i == Succ(RDT)
<1>. USE DEF tx
<1>1. Away /\ Hole = {i} /\ intr = "refill" /\ ~panicked /\ rxm = None /\ R = D - 1
  BY DEF Away, Refilled, Hole, e1000_recv_refill, RingsInv, OwnInv
<1>2. /\ A \in Nat /\ D \in Nat /\ R \in Nat /\ D <= A /\ A <= R + N - 1 /\ D = R + 1
      /\ i = R % N /\ i \in Ring /\ N \in Nat \ {0}
  <2>1. A \in Nat /\ D \in Nat /\ R \in Nat /\ D <= A /\ A <= R + N - 1 /\ i = R % N /\ N \in Nat \ {0}
    BY RxCounts, RingSize DEF RingsInv, RxInv
  <2>2. R \in Int /\ D = R + 1
    BY <1>1, <2>1
  <2>. HIDE DEF A, D, R, i
  <2>. QED
    BY <2>1, <2>2, RingSize, Zenon
<1>3. TxInv' /\ DDInv'
  BY TxKept DEF RingsInv, DDInv, e1000_recv_refill
<1>4. /\ intr' = "recvd"
      /\ UNCHANGED <<RDH, ICR, rxm, arrived, delivered, data, tx_dd, tx_mbufs, TDH, TDT, sent, wire, done>>
  BY DEF e1000_recv_refill
<1>5. CASE panicked' = TRUE /\ UNCHANGED <<rx_dd, rx_mbufs, RDT, owner>>
  <2>1. Away'
    BY <1>5 DEF Away
  <2>2. Hole' = Hole
    BY <1>1, <1>5, <2>1 DEF Hole, Succ
  <2>3. RxInv'
    BY <1>1, <1>4, <1>5, <2>1, RxKept DEF RingsInv
  <2>4. TypeOK'
    BY <1>4, <1>5 DEF RingsInv, TypeOK
  <2>5. OwnInv'
    BY <1>1, <1>4, <1>5, <2>2 DEF RingsInv, OwnInv
  <2>. QED
    BY <1>3, <2>3, <2>4, <2>5 DEF RingsInv
<1>6. ASSUME NEW b \in Mbuf, owner[b] = "free",
             owner' = [owner EXCEPT ![b] = "driver"],
             rx_mbufs' = [rx_mbufs EXCEPT ![i] = b],
             rx_dd' = [rx_dd EXCEPT ![i] = FALSE],
             RDT' = i, panicked' = panicked
      PROVE  RingsInv'
  <2>1. ~Away' /\ Hole' = {} /\ Refilled' = R + 1
    <3>1. ~Away'
      BY <1>1, <1>4, <1>6 DEF Away
    <3>2. Refilled' = D
      BY <1>4, <3>1 DEF Refilled
    <3>. QED
      BY <1>2, <3>1, <3>2 DEF Hole
  <2>2. /\ owner \in [Mbuf -> {"free", "driver", "stack"}]
        /\ rx_mbufs \in [Ring -> Mbuf] /\ rx_dd \in [Ring -> BOOLEAN]
        /\ \A j \in Ring : tx_mbufs[j] \in Mbuf \cup {None}
    BY DEF RingsInv, TypeOK
  <2>3. TypeOK'
    <3>1. /\ owner' \in [Mbuf -> {"free", "driver", "stack"}]
          /\ rx_mbufs' \in [Ring -> Mbuf] /\ rx_dd' \in [Ring -> BOOLEAN]
      BY <1>2, <1>6, <2>2
    <3>. QED
      BY <1>2, <1>4, <1>6, <3>1 DEF RingsInv, TypeOK
  <2>4. ASSUME NEW k \in D .. R + N - 1
        PROVE  /\ rx_mbufs'[k % N] = rx_mbufs[k % N]
               /\ rx_dd'[k % N] = rx_dd[k % N]
    <3>1. k % N \in Ring \ {i}
      BY <1>1, RxCounts DEF RingsInv
    <3>. QED
      BY <1>2, <1>6, <2>2, <3>1
  <2>5. RxInv'
    <3>1. ASSUME NEW k \in D .. A - 1 PROVE data'[rx_mbufs'[k % N]] = k + 1
      <4>1. k \in D .. R + N - 1
        <5>. HIDE DEF A, D, R
        <5>. QED  BY <1>2
      <4>2. data[rx_mbufs[k % N]] = k + 1
        BY DEF RingsInv, RxInv
      <4>. QED
        BY <1>4, <2>4, <4>1, <4>2
    <3>2. (R + N) % N = R % N
      <4>1. R \in Int /\ 1 \in Int /\ R + 1 * N = R + N
        BY <1>2
      <4>. HIDE DEF R
      <4>2. (R + 1 * N) % N = R % N
        BY <1>2, <4>1, ModShift
      <4>. QED
        BY <4>1, <4>2
    <3>3. ASSUME NEW k \in A .. R + 1 + N - 1 PROVE ~rx_dd'[k % N]
      <4>1. CASE k = R + N
        <5>1. k % N = i
          BY <1>2, <3>2, <4>1
        <5>. QED
          BY <1>2, <1>6, <2>2, <5>1
      <4>2. CASE k # R + N
        <5>1. k \in D .. R + N - 1 /\ k \in A .. R + N - 1
          <6>. HIDE DEF A, D, R
          <6>. QED  BY <1>2, <4>2
        <5>2. ~rx_dd[k % N]
          BY <5>1 DEF RingsInv, RxInv
        <5>. QED
          BY <2>4, <5>1, <5>2
      <4>. QED
        BY <4>1, <4>2
    <3>4. R + 1 \in Nat /\ A <= R + 1 + N - 1 /\ R + 1 + N - 1 = R + N
      <4>. HIDE DEF A, D, R
      <4>. QED  BY <1>2
    <3>5. RDT' = (R + 1 + N - 1) % N
      BY <1>2, <1>6, <3>2, <3>4
    <3>6. RDH' = A % N /\ (\A k \in 1 .. A : arrived[k] = k) /\ (\A k \in 1 .. D : delivered[k] = k)
      BY <1>4 DEF RingsInv, RxInv
    <3>. HIDE DEF R, i
    <3>. QED
      BY <1>2, <1>4, <2>1, <3>1, <3>3, <3>4, <3>5, <3>6 DEF RxInv
  <2>6. OwnInv'
    <3>1. \A j \in Ring \ {i} : owner[rx_mbufs[j]] = "driver"
      BY <1>1 DEF RingsInv, OwnInv
    <3>2. \A j, k \in Ring \ {i} : rx_mbufs[j] = rx_mbufs[k] => j = k
      BY <1>1 DEF RingsInv, OwnInv
    <3>3. \A j \in Ring \ {i}, k \in Ring : rx_mbufs[j] # tx_mbufs[k]
      BY <1>1 DEF RingsInv, OwnInv
    <3>4. \A j \in Ring : tx_mbufs[j] # b
      BY <1>6, RingSize DEF RingsInv, OwnInv
    <3>5. \A c \in Mbuf : owner'[c] = IF c = b THEN "driver" ELSE owner[c]
      BY <1>6, <2>2
    <3>6. \A j \in Ring : rx_mbufs'[j] = IF j = i THEN b ELSE rx_mbufs[j]
      BY <1>2, <1>6, <2>2
    <3>7. \A j \in Ring \ {i} : rx_mbufs[j] # b
      BY <1>6, <3>1
    <3>8. \A j \in Ring : tx_mbufs'[j] # None => owner'[tx_mbufs'[j]] = "driver"
      BY <1>4, <2>2, <3>5 DEF RingsInv, OwnInv
    <3>9. \A j, k \in Ring : tx_mbufs'[j] # None /\ tx_mbufs'[j] = tx_mbufs'[k] => j = k
      BY <1>4 DEF RingsInv, OwnInv
    <3>. HIDE DEF i
    <3>10. \A j \in Ring : owner'[rx_mbufs'[j]] = "driver"
      <4>1. \A j \in Ring : rx_mbufs[j] \in Mbuf
        BY <2>2
      <4>. QED
        BY <3>1, <3>5, <3>6, <4>1
    <3>11. \A j, k \in Ring : rx_mbufs'[j] = rx_mbufs'[k] => j = k
      BY <3>2, <3>6, <3>7
    <3>12. \A j, k \in Ring : rx_mbufs'[j] # tx_mbufs'[k]
      BY <1>4, <3>3, <3>4, <3>6
    <3>13. rxm' = None /\ intr' = "recvd"
      BY <1>1, <1>4
    <3>. QED
      BY <2>1, <3>8, <3>9, <3>10, <3>11, <3>12, <3>13 DEF OwnInv
  <2>. QED
    BY <1>3, <2>3, <2>5, <2>6 DEF RingsInv
<1>. QED
  BY <1>5, <1>6 DEF e1000_recv_refill

\* A step of the driver, the card or the stack.
LEMMA RingsNext ==
    ASSUME TxLag < N, RingsInv, [Next]_vars
    PROVE  RingsInv'
<1>1. CASE Next
  <2>1. ASSUME NEW b \in Mbuf, mbufalloc(b) PROVE RingsInv'
    BY <2>1, RingsAlloc
  <2>2. ASSUME NEW b \in StackPages, e1000_transmit(b) PROVE RingsInv'
    BY <2>2, RingsTransmit
  <2>3. ASSUME NEW b \in StackPages, mbuffree(b) PROVE RingsInv'
    BY <2>3, RingsFree
  <2>. QED
    BY <1>1, <2>1, <2>2, <2>3, RingsCardTx, RingsCardRx, RingsRecv, RingsReturn,
       RingsRefill, RingsIntr DEF Next
<1>2. CASE UNCHANGED vars
  <2>1. UNCHANGED <<Away, Refilled, Hole>>
    BY <1>2 DEF vars, rx, Away, Refilled, Hole, Succ
  <2>2. TypeOK' /\ TxInv' /\ DDInv'
    BY <1>2 DEF vars, rx, tx, RingsInv, TypeOK, TxInv, DDInv
  <2>3. RxInv' /\ OwnInv'
    BY <1>2, <2>1 DEF vars, rx, tx, RingsInv, RxInv, OwnInv
  <2>. QED
    BY <2>2, <2>3 DEF RingsInv
<1>. QED
  BY <1>1, <1>2

-----------------------------------------------------------------------------
(***************************************************************************)
(* What the invariant says of the contents of the rings.                   *)
(***************************************************************************)

\* The number of packets in flight, from the registers, and their slots.
LEMMA TxWindow ==
    ASSUME RingsInv
    PROVE  /\ (TDT - TDH + N) % N = Len(sent) - Len(wire)
           /\ Len(sent) - Len(wire) \in 0 .. N - 1
           /\ \A j \in Int : (TDH + j) % N = (Len(wire) + j) % N
<1>. DEFINE S == Len(sent)
            H == Len(wire)
<1>1. /\ S \in Nat /\ H \in Nat /\ H <= S /\ S <= H + N - 1 /\ TDH = H % N /\ TDT = S % N
      /\ N \in Nat \ {0} /\ TDH \in Int /\ TDT \in Int
  <2>1. S \in Nat /\ H \in Nat /\ N \in Nat \ {0} /\ TDH \in Int /\ TDT \in Int
    <3>1. S \in Nat /\ H \in Nat
      BY TxCounts DEF RingsInv
    <3>2. TDH \in Ring /\ TDT \in Ring
      BY DEF RingsInv, TypeOK
    <3>. QED
      BY <3>1, <3>2, RingSize
  <2>. QED
    BY <2>1 DEF RingsInv, TxInv
<1>. HIDE DEF S, H
<1>2. S - H \in 0 .. N - 1 /\ S \in Int /\ H \in Int /\ 1 \in Int
  BY <1>1
<1>3. (TDT - TDH) % N = (S - H) % N
  BY <1>1, <1>2, ModSub
<1>. DEFINE x == TDT - TDH
<1>4. x \in Int /\ TDT - TDH + N = x + 1 * N
  BY <1>1
<1>5. (x + 1 * N) % N = x % N
  <2>. HIDE DEF x
  <2>. QED  BY <1>1, <1>2, <1>4, ModShift
<1>6. (S - H) % N = S - H
  <2>. DEFINE d == S - H
  <2>1. d \in 0 .. N - 1
    BY <1>2
  <2>. HIDE DEF d
  <2>2. d % N = d
    BY <1>1, <2>1, ModSmall
  <2>. QED
    BY <2>2 DEF d
<1>7. (TDT - TDH + N) % N = S - H
  BY <1>3, <1>4, <1>5, <1>6
<1>8. \A j \in Int : (TDH + j) % N = (H + j) % N
  BY <1>1, <1>2, ModAdd
<1>. QED
  BY <1>2, <1>7, <1>8 DEF S, H

\* What net_rx() has still to be given, from the registers.
LEMMA RxWindow ==
    ASSUME RingsInv
    PROVE  /\ (RDH - RDT - 1 + N) % N = Len(arrived) - Refilled
           /\ \A j \in Int : (Succ(RDT) + j) % N = (Refilled + j) % N
<1>. DEFINE A == Len(arrived)
            R == Refilled
            Q == R + N - 1
<1>1. /\ A \in Nat /\ R \in Nat /\ N \in Nat \ {0} /\ RDH = A % N /\ RDT = Q % N
      /\ Succ(RDT) = R % N /\ RDH \in Int /\ RDT \in Int
  <2>1. A \in Nat /\ R \in Nat /\ N \in Nat \ {0} /\ Succ(RDT) = R % N /\ RDH \in Int /\ RDT \in Int
    <3>1. A \in Nat /\ R \in Nat /\ Succ(RDT) = R % N
      BY RxCounts DEF RingsInv
    <3>2. RDH \in Ring /\ RDT \in Ring
      BY DEF RingsInv, TypeOK
    <3>. QED
      BY <3>1, <3>2, RingSize
  <2>. QED
    BY <2>1 DEF RingsInv, RxInv
<1>2. R <= A /\ A <= Q
  <2>1. Len(delivered) \in Nat /\ Len(delivered) <= A /\ A <= Q
    BY RxCounts DEF RingsInv, RxInv
  <2>2. R = Len(delivered) \/ R = Len(delivered) - 1
    BY DEF Refilled
  <2>. HIDE DEF A, R, Q
  <2>. QED
    BY <1>1, <2>1, <2>2
<1>. HIDE DEF A, R
<1>. DEFINE x == RDH - RDT
            y == A - Q
            n == N - 1
<1>3. A \in Int /\ R \in Int /\ Q \in Int /\ x \in Int /\ y \in Int /\ n \in Int
  BY <1>1
<1>4. x % N = y % N
  <2>. HIDE DEF Q
  <2>. QED  BY <1>1, <1>3, ModSub
<1>5. (x + n) % N = (y + n) % N
  <2>. HIDE DEF x, y, n
  <2>1. ((x % N) + n) % N = (x + n) % N /\ ((y % N) + n) % N = (y + n) % N
    BY <1>1, <1>3, ModAdd
  <2>. QED
    BY <1>4, <2>1
<1>6. x + n = RDH - RDT - 1 + N /\ y + n = A - R
  BY <1>1, <1>3
<1>7. (A - R) % N = A - R
  <2>. DEFINE d == A - R
  <2>1. d \in 0 .. N - 1
    BY <1>1, <1>2
  <2>. HIDE DEF d
  <2>2. d % N = d
    BY <1>1, <2>1, ModSmall
  <2>. QED
    BY <2>2 DEF d
<1>8. (RDH - RDT - 1 + N) % N = A - R
  BY <1>5, <1>6, <1>7, Zenon
<1>9. \A j \in Int : (Succ(RDT) + j) % N = (R + j) % N
  <2>. SUFFICES ASSUME NEW j \in Int PROVE (Succ(RDT) + j) % N = (R + j) % N
    OBVIOUS
  <2>1. ((R % N) + j) % N = (R + j) % N
    BY <1>1, <1>3, ModAdd
  <2>. QED
    BY <1>1, <2>1, Zenon
<1>. QED
  BY <1>8, <1>9 DEF A, R

\* The transmit ring.
LEMMA TxFifoLemma == RingsInv => TxFifo
<1>. SUFFICES ASSUME RingsInv PROVE TxFifo
  OBVIOUS
<1>. DEFINE S == Len(sent)
            H == Len(wire)
            n == (TDT - TDH + N) % N
            f == Contents(tx_mbufs, TDH, n)
<1>1. /\ S \in Nat /\ H \in Nat /\ H <= S /\ sent \in Seq(Nat) /\ wire \in Seq(Nat)
      /\ TDH \in Int /\ data \in [Mbuf -> Nat]
  <2>1. S \in Nat /\ H \in Nat
    BY TxCounts DEF RingsInv
  <2>2. TDH \in Ring /\ data \in [Mbuf -> Nat] /\ sent \in Seq(Nat) /\ wire \in Seq(Nat)
    BY DEF RingsInv, TypeOK
  <2>. QED
    BY <2>1, <2>2, RingSize DEF RingsInv, TxInv
<1>2. n = S - H /\ n \in Nat
  BY <1>1, TxWindow
<1>3. ASSUME NEW j \in 1 .. n PROVE f[j] = H + j
  <2>1. j - 1 \in Int /\ H + (j - 1) \in H .. S - 1 /\ TDH + j - 1 = TDH + (j - 1) /\ H + (j - 1) + 1 = H + j
    <3>. HIDE DEF S, H, n
    <3>. QED  BY <1>1, <1>2
  <2>2. (TDH + j - 1) % N = (H + (j - 1)) % N
    BY <2>1, TxWindow
  <2>3. data[tx_mbufs[(H + (j - 1)) % N]] = H + (j - 1) + 1
    BY <2>1 DEF RingsInv, TxInv
  <2>4. f[j] = data[tx_mbufs[(TDH + j - 1) % N]]
    BY DEF Contents
  <2>. QED
    BY <2>1, <2>2, <2>3, <2>4
<1>4. f \in Seq(Nat) /\ Len(f) = S - H
  <2>1. \A j \in 1 .. n : f[j] \in Nat
    <3>. HIDE DEF S, H, n, f
    <3>. QED  BY <1>1, <1>2, <1>3
  <2>2. f = [j \in 1 .. n |-> f[j]]
    BY DEF Contents
  <2>. HIDE DEF f, n, S, H
  <2>. QED
    BY <1>2, <2>1, <2>2
<1>5. \A j \in 1 .. S - H : f[j] = H + j
  BY <1>2, <1>3
<1>6. (\A k \in 1 .. S : sent[k] = k) /\ (\A k \in 1 .. H : wire[k] = k)
  BY DEF RingsInv, TxInv
<1>7. wire \o f = sent
  <2>. HIDE DEF f
  <2>. QED  BY <1>1, <1>4, <1>5, <1>6, NumberedConcat
<1>. QED
  BY <1>7 DEF TxFifo

\* The receive ring.
LEMMA RxFifoLemma == RingsInv => RxFifo
<1>. DEFINE taken == IF intr \in {"net_rx", "refill"} THEN 1 ELSE 0
            n == ((RDH - RDT - 1 + N) % N) - taken
            f == Contents(rx_mbufs, Succ(RDT) + taken, n)
            A == Len(arrived)
            D == Len(delivered)
            R == Refilled
<1>. SUFFICES ASSUME RingsInv, ~panicked PROVE delivered \o f = arrived
  BY DEF RxFifo
<1>1. /\ A \in Nat /\ D \in Nat /\ R \in Nat /\ D <= A /\ arrived \in Seq(Nat) /\ delivered \in Seq(Nat)
      /\ Succ(RDT) = R % N /\ N \in Nat \ {0}
  <2>1. A \in Nat /\ D \in Nat /\ R \in Nat /\ Succ(RDT) = R % N /\ N \in Nat \ {0}
    BY RxCounts, RingSize DEF RingsInv
  <2>. QED
    BY <2>1 DEF RingsInv, RxInv, TypeOK
<1>2. taken \in Nat /\ D = R + taken
  <2>1. CASE intr \in {"net_rx", "refill"}
    <3>1. Away /\ taken = 1
      BY <2>1 DEF Away
    <3>2. R = D - 1
      BY <3>1 DEF Refilled
    <3>. QED
      BY <1>1, <3>1, <3>2
  <2>2. CASE intr \notin {"net_rx", "refill"}
    <3>1. ~Away /\ taken = 0
      BY <2>2 DEF Away
    <3>2. R = D
      BY <3>1 DEF Refilled
    <3>. QED
      BY <1>1, <3>1, <3>2
  <2>. QED
    BY <2>1, <2>2
<1>3. n = A - D /\ n \in Nat
  <2>1. n = A - R - taken
    BY RxWindow
  <2>. HIDE DEF n, taken, A, D, R
  <2>. QED
    BY <1>1, <1>2, <2>1
<1>4. Succ(RDT) \in Int
  BY <1>1, ModType
<1>5. ASSUME NEW j \in 1 .. n PROVE f[j] = D + j
  <2>. DEFINE t == taken + (j - 1)
  <2>1. /\ t \in Int /\ D + (j - 1) \in D .. A - 1 /\ Succ(RDT) + taken + j - 1 = Succ(RDT) + t
        /\ R + t = D + (j - 1) /\ D + (j - 1) + 1 = D + j
    <3>. HIDE DEF taken, A, D, R, n
    <3>. QED  BY <1>1, <1>2, <1>3, <1>4
  <2>2. (Succ(RDT) + t) % N = (R + t) % N
    BY <2>1, RxWindow
  <2>3. data[rx_mbufs[(D + (j - 1)) % N]] = D + (j - 1) + 1
    BY <2>1 DEF RingsInv, RxInv
  <2>4. f[j] = data[rx_mbufs[(Succ(RDT) + taken + j - 1) % N]]
    BY DEF Contents
  <2>. HIDE DEF taken, t, f, R
  <2>. QED
    BY <2>1, <2>2, <2>3, <2>4
<1>6. f \in Seq(Nat) /\ Len(f) = A - D
  <2>1. \A j \in 1 .. n : f[j] \in Nat
    <3>. HIDE DEF A, D, n, f
    <3>. QED  BY <1>1, <1>3, <1>5
  <2>2. f = [j \in 1 .. n |-> f[j]]
    BY DEF Contents
  <2>. HIDE DEF f, n, A, D
  <2>. QED
    BY <1>3, <2>1, <2>2
<1>7. \A j \in 1 .. A - D : f[j] = D + j
  <2>. HIDE DEF f, n
  <2>. QED  BY <1>3, <1>5
<1>8. (\A k \in 1 .. A : arrived[k] = k) /\ (\A k \in 1 .. D : delivered[k] = k)
  BY DEF RingsInv, RxInv
<1>. HIDE DEF f
<1>. QED
  BY <1>1, <1>6, <1>7, <1>8, NumberedConcat

\* The mbufs of both rings.
LEMMA NoAliasLemma == RingsInv => NoAlias
<1>. DEFINE hole == IF intr \in {"net_rx", "refill"} THEN {Succ(RDT)} ELSE {}
            Tx == {<<"tx", i>> : i \in InFlight}
            Rx == {<<"rx", i>> : i \in Ring \ hole}
            Buf(s) == IF s[1] = "tx" THEN tx_mbufs[s[2]] ELSE rx_mbufs[s[2]]
<1>. SUFFICES ASSUME RingsInv, ~panicked
              PROVE  /\ \A s \in Tx \cup Rx : owner[Buf(s)] = "driver"
                     /\ \A s, t \in Tx \cup Rx : Buf(s) = Buf(t) => s = t
  BY DEF NoAlias
<1>1. hole = Hole
  BY DEF Hole, Away
<1>2. \A i \in InFlight : i \in Ring /\ tx_mbufs[i] # None
  <2>. SUFFICES ASSUME NEW k \in 0 .. ((TDT - TDH + N) % N) - 1
                PROVE  (TDH + k) % N \in Ring /\ tx_mbufs[(TDH + k) % N] # None
    BY DEF InFlight
  <2>1. Len(wire) \in Nat /\ Len(sent) \in Nat /\ k \in 0 .. Len(sent) - Len(wire) - 1
    BY TxCounts, TxWindow DEF RingsInv
  <2>2. k \in Int /\ Len(wire) + k \in Len(wire) .. Len(sent) - 1 /\ Len(wire) + k \in Int
    BY <2>1
  <2>3. (TDH + k) % N = (Len(wire) + k) % N
    BY <2>2, TxWindow
  <2>4. tx_mbufs[(Len(wire) + k) % N] \in Mbuf
    BY <2>2 DEF RingsInv, TxInv
  <2>5. (Len(wire) + k) % N \in Ring
    BY <2>2, RingSize, Zenon
  <2>. QED
    BY <2>3, <2>4, <2>5, RingSize, Zenon
<1>3. ASSUME NEW s \in Tx \cup Rx
      PROVE  \/ \E i \in Ring : s = <<"tx", i>> /\ tx_mbufs[i] # None /\ Buf(s) = tx_mbufs[i]
             \/ \E i \in Ring \ Hole : s = <<"rx", i>> /\ Buf(s) = rx_mbufs[i]
  BY <1>1, <1>2
<1>. HIDE DEF Buf, Tx, Rx
<1>4. ASSUME NEW s \in Tx \cup Rx PROVE owner[Buf(s)] = "driver"
  BY <1>3 DEF RingsInv, OwnInv
<1>5. ASSUME NEW s \in Tx \cup Rx, NEW t \in Tx \cup Rx, Buf(s) = Buf(t) PROVE s = t
  BY <1>3, <1>5 DEF RingsInv, OwnInv
<1>. QED
  BY <1>4, <1>5

-----------------------------------------------------------------------------
(***************************************************************************)
(* The rings, with any network stack on top of them.  The card may be any  *)
(* number of packets behind, as long as it is less than the ring: with the *)
(* DD bit never cleared, nothing in e1000_transmit() says so.              *)
(***************************************************************************)

\* The types, and the rings' invariant, of any run of the driver.
THEOREM E1000TypeCorrect ==
    ASSUME TxLag < N
    PROVE  Spec => []TypeOK
<1>1. Init => RingsInv
  BY RingsInit
<1>2. RingsInv /\ [Next]_vars => RingsInv'
  BY RingsNext
<1>3. RingsInv => TypeOK
  BY DEF RingsInv
<1>. QED
  BY <1>1, <1>2, <1>3, PTL DEF Spec

\* e1000_transmit() and the card lose, repeat and reorder nothing, and no packet
\* is overwritten before it is sent: for every size of the ring.
THEOREM E1000TxFifo ==
    ASSUME TxLag < N
    PROVE  Spec => []TxFifo
<1>1. Init => RingsInv
  BY RingsInit
<1>2. RingsInv /\ [Next]_vars => RingsInv'
  BY RingsNext
<1>. QED
  BY <1>1, <1>2, TxFifoLemma, PTL DEF Spec

\* e1000_recv() gives net_rx() the packets the card stored, once and in order,
\* whatever the card does between net_rx() and the refill.
THEOREM E1000RxFifo ==
    ASSUME TxLag < N
    PROVE  Spec => []RxFifo
<1>1. Init => RingsInv
  BY RingsInit
<1>2. RingsInv /\ [Next]_vars => RingsInv'
  BY RingsNext
<1>. QED
  BY <1>1, <1>2, RxFifoLemma, PTL DEF Spec

\* No mbuf the card may touch is in two slots, free, or the stack's.
THEOREM E1000NoAlias ==
    ASSUME TxLag < N
    PROVE  Spec => []NoAlias
<1>1. Init => RingsInv
  BY RingsInit
<1>2. RingsInv /\ [Next]_vars => RingsInv'
  BY RingsNext
<1>. QED
  BY <1>1, <1>2, NoAliasLemma, PTL DEF Spec

-----------------------------------------------------------------------------
(***************************************************************************)
(* The inductive invariant of the stack.  It says of every page of the     *)
(* stack's which variable it is in.                                        *)
(***************************************************************************)
NetPCs == {"user", "list", "read", "sleep", "asleep", "copyout", "copyin", "unlist", "drain"}

NetTypeOK ==
    /\ sockets \in Seq(Mbuf)
    /\ rxq \in [Mbuf -> Seq([m : Mbuf, len : Int])]
    /\ pc \in [Proc -> NetPCs]
    /\ fd \in [Proc -> Mbuf \cup {None}]
    /\ hand \in [Proc -> Mbuf \cup {None}]
    /\ killed \in [Proc -> BOOLEAN]
    /\ reply \in Mbuf \cup {"no", "sent"}

\* net_rx() looks at a frame that arrived: the last one e1000_recv() took.
FrameInv ==
    /\ frames \in Seq(Frame)
    /\ Len(frames) = Len(arrived)
    /\ intr = "net_rx" => data[rxm] = Len(delivered)

\* net_rx_arp() is at work on a request.
ReplyInv == reply # "no" => intr = "net_rx" /\ IsRequest(InHand)

\* A process in a call has a socket; a listed socket is somebody's, and listed
\* once; who lists a socket or closes it is the only one to have it.
Opened == {s \in Mbuf : \E p \in Proc : fd[p] = s}
InList == {s \in Mbuf : Listed(s)}
SockInv ==
    /\ \A p \in Proc : pc[p] # "user" => fd[p] # None
    /\ \A i \in DOMAIN sockets : sockets[i] \in Opened
    /\ \A i, j \in DOMAIN sockets : sockets[i] = sockets[j] => i = j
    /\ \A p \in Proc : pc[p] \in {"list", "drain"} => fd[p] \notin InList
    /\ \A p \in Proc : pc[p] \in {"list", "unlist", "drain"} =>
            \A q \in Proc : fd[q] = fd[p] => q = p

\* A process holds an mbuf from its mbufalloc() or mbufq_pophead() to its
\* mbuffree() or e1000_transmit().
HandInv == \A p \in Proc : hand[p] # None <=> pc[p] \in {"copyout", "copyin"}

\* The stack's pages, and those in socket queues.
Stack == {b \in Mbuf : owner[b] = "stack"}
InQueue(b, s, i) == s \in Opened /\ i \in DOMAIN rxq[s] /\ rxq[s][i].m = b

\* Whatever the stack has a pointer to is its own, and in one place only.
OneHolder ==
    /\ reply \in Mbuf => reply \in Stack /\ reply # rxm
    /\ \A p \in Proc : hand[p] # None => hand[p] \in Stack /\ hand[p] \notin {rxm, reply}
    /\ \A p, q \in Proc : hand[p] # None /\ hand[p] = hand[q] => p = q
    /\ \A p \in Proc : fd[p] # None => fd[p] \in Stack /\ fd[p] \notin {rxm, reply}
    /\ \A p, q \in Proc : fd[p] # None => fd[p] # hand[q]
OneQueue ==
    \A b, s \in Mbuf : \A i \in Nat : InQueue(b, s, i) =>
        /\ b \in Stack /\ b \notin {rxm, reply}
        /\ \A p \in Proc : b # hand[p] /\ b # fd[p]
        /\ \A t \in Mbuf : \A j \in Nat : InQueue(b, t, j) => t = s /\ j = i

\* And a page of the stack's is in some place.
NoLeak ==
    \A b \in Stack :
        \/ b = rxm \/ b = reply
        \/ \E p \in Proc : b = hand[p] \/ b = fd[p]
        \/ \E s \in Mbuf : \E i \in Nat : InQueue(b, s, i)

\* A reader sleeps, or is about to, beside an empty queue.
WakeInv == \A p \in Proc : pc[p] \in {"sleep", "asleep"} => rxq[fd[p]] = <<>>

Pages == OneHolder /\ OneQueue /\ NoLeak
StackInv == NetTypeOK /\ FrameInv /\ ReplyInv /\ SockInv /\ HandInv /\ Pages /\ WakeInv
NetInv == RingsInv /\ StackInv

-----------------------------------------------------------------------------
(***************************************************************************)
(* What the steps of E1000 do to the stack's pages.                        *)
(***************************************************************************)

\* The mbuf that net_rx() works on.
LEMMA RxmIs ==
    ASSUME RingsInv
    PROVE  /\ rxm # None <=> intr = "net_rx"
           /\ rxm # None => rxm \in Stack
           /\ Stack \subseteq Mbuf /\ None \notin Stack /\ None \notin Mbuf
           /\ \A b : b \in StackPages <=> b \in Stack /\ b # rxm
  BY RingSize DEF RingsInv, OwnInv, TypeOK, Stack, StackPages

\* What the steps of the stack leave alone of the receive ring.
RxSame == UNCHANGED <<rxm, intr, panicked, arrived, delivered>> /\ (rxm # None => data'[rxm] = data[rxm])

\* mbufalloc() gives the stack a page it did not have.
LEMMA AllocEffect ==
    ASSUME RingsInv, NEW b \in Mbuf, mbufalloc(b)
    PROVE  b \notin Stack /\ b # rxm /\ Stack' = Stack \cup {b} /\ RxSame
<1>1. owner \in [Mbuf -> {"free", "driver", "stack"}]
  BY DEF RingsInv, TypeOK
<1>2. \A c \in Mbuf : owner'[c] = IF c = b THEN "stack" ELSE owner[c]
  BY <1>1 DEF mbufalloc
<1>3. b \notin Stack /\ Stack' = Stack \cup {b}
  BY <1>2 DEF Stack, mbufalloc
<1>. QED
  BY <1>3, RxmIs DEF mbufalloc, RxSame, rx

\* mbuffree() takes it away.
LEMMA FreeEffect ==
    ASSUME RingsInv, NEW b \in Stack, b # rxm, mbuffree(b)
    PROVE  Stack' = Stack \ {b} /\ RxSame /\ b \in StackPages
<1>1. owner \in [Mbuf -> {"free", "driver", "stack"}] /\ data \in [Mbuf -> Nat] /\ b \in Mbuf
  BY DEF RingsInv, TypeOK, Stack
<1>2. \A c \in Mbuf : owner'[c] = IF c = b THEN "free" ELSE owner[c]
  BY <1>1 DEF mbuffree
<1>3. Stack' = Stack \ {b}
  BY <1>2 DEF Stack
<1>4. rxm # None => data'[rxm] = data[rxm]
  BY <1>1, RxmIs DEF mbuffree
<1>5. UNCHANGED <<rxm, intr, panicked, arrived, delivered>>
  BY DEF mbuffree, rx
<1>. QED
  BY <1>3, <1>4, <1>5, RxmIs DEF RxSame

\* So does e1000_transmit(), and the mbuf it frees is not the stack's.
LEMMA TransmitEffect ==
    ASSUME RingsInv, NEW b \in Stack, b # rxm, e1000_transmit(b)
    PROVE  Stack' = Stack \ {b} /\ RxSame /\ b \in StackPages
<1>1. /\ owner \in [Mbuf -> {"free", "driver", "stack"}] /\ data \in [Mbuf -> Nat] /\ b \in Mbuf
      /\ TDT \in Ring
  BY DEF RingsInv, TypeOK, Stack
<1>2. tx_mbufs[TDT] \notin Stack
  BY <1>1, RxmIs DEF RingsInv, OwnInv, Stack
<1>3. UNCHANGED <<rxm, intr, panicked, arrived, delivered>>
  BY DEF e1000_transmit, rx
<1>4. tx_dd[TDT]
  BY <1>1 DEF RingsInv, DDInv
<1>5. /\ owner' = Replace(tx_mbufs[TDT], b)
      /\ data' = [c \in Mbuf |-> CASE c = b -> Len(sent) + 1
                                   [] c = tx_mbufs[TDT] -> 0
                                   [] OTHER -> data[c]]
  BY <1>4 DEF e1000_transmit
<1>6. \A c \in Mbuf : owner'[c] = IF c = b THEN "driver" ELSE IF c = tx_mbufs[TDT] THEN "free" ELSE owner[c]
  BY <1>5 DEF Replace
<1>7. Stack' = Stack \ {b}
  BY <1>2, <1>6 DEF Stack
<1>8. rxm # None => data'[rxm] = data[rxm]
  <2>. SUFFICES ASSUME rxm # None PROVE data'[rxm] = data[rxm]
    OBVIOUS
  <2>1. rxm \in Mbuf /\ rxm # b /\ rxm # tx_mbufs[TDT]
    BY <1>2, RxmIs
  <2>. QED
    BY <1>5, <2>1
<1>. QED
  BY <1>3, <1>7, <1>8, RxmIs DEF RxSame

\* e1000_recv() gives the stack an mbuf, or does nothing.
LEMMA RecvEffect ==
    ASSUME RingsInv, e1000_recv
    PROVE  /\ intr = "idle" /\ rxm = None
           /\ \/ /\ intr' = "recvd" /\ rxm' = None
                 /\ Stack' = Stack
              \/ /\ intr' = "net_rx" /\ rxm' \in Mbuf \ Stack
                 /\ Stack' = Stack \cup {rxm'}
                 /\ data'[rxm'] = Len(delivered')
           /\ UNCHANGED arrived
<1>1. intr = "idle" /\ rxm = None /\ UNCHANGED <<arrived, data>> /\ Hole = {} /\ ~Away
  BY RxmIs DEF e1000_recv, Hole, Away
<1>. DEFINE i == Succ(RDT)
<1>2. RingsInv'
  BY RingsRecv
<1>3. CASE ~rx_dd[i]
  <2>1. intr' = "recvd" /\ rxm' = rxm /\ owner' = owner
    BY <1>3 DEF e1000_recv
  <2>. QED
    BY <1>1, <2>1 DEF Stack
<1>4. CASE rx_dd[i]
  <2>1. /\ intr' = "net_rx" /\ rxm' = rx_mbufs[i] /\ owner' = [owner EXCEPT ![rxm'] = "stack"]
        /\ delivered' = Append(delivered, data[rxm'])
    BY <1>4 DEF e1000_recv
  <2>2. i \in Ring /\ rx_mbufs[i] \in Mbuf /\ owner \in [Mbuf -> {"free", "driver", "stack"}]
    <3>1. i = Refilled % N /\ Refilled \in Int
      BY RxCounts DEF RingsInv
    <3>2. i \in Ring
      BY <3>1, RingSize, Zenon
    <3>. QED
      BY <3>2 DEF RingsInv, TypeOK
  <2>3. owner[rx_mbufs[i]] = "driver"
    BY <1>1, <2>2 DEF RingsInv, OwnInv
  <2>4. \A c \in Mbuf : owner'[c] = IF c = rxm' THEN "stack" ELSE owner[c]
    BY <2>1, <2>2
  <2>5. rxm' \in Mbuf \ Stack /\ Stack' = Stack \cup {rxm'}
    BY <2>1, <2>2, <2>3, <2>4 DEF Stack
  <2>6. delivered \in Seq(Nat) /\ delivered' \in Seq(Nat) /\ Len(delivered) \in Nat
    BY <1>2 DEF RingsInv, TypeOK
  <2>7. data \in [Mbuf -> Nat] /\ data[rxm'] \in Nat
    BY <2>5 DEF RingsInv, TypeOK
  <2>8. Len(delivered') = Len(delivered) + 1 /\ delivered'[Len(delivered')] = data[rxm']
    BY <2>1, <2>6, <2>7, AppendProperties
  <2>9. Len(delivered') \in 1 .. Len(delivered')
    BY <2>6, <2>8
  <2>10. delivered'[Len(delivered')] = Len(delivered')
    BY <1>2, <2>9 DEF RingsInv, RxInv
  <2>. QED
    BY <1>1, <2>1, <2>5, <2>8, <2>10
<1>. QED
  BY <1>3, <1>4

\* The steps of the card and the rest of e1000_intr() leave the stack alone.
LEMMA RestEffect ==
    ASSUME RingsInv, card_transmit \/ card_receive \/ e1000_recv_refill \/ e1000_intr
    PROVE  /\ Stack' = Stack /\ rxm' = rxm /\ delivered' = delivered
           /\ intr = "net_rx" <=> intr' = "net_rx"
           /\ rxm # None => data'[rxm] = data[rxm]
           /\ ~card_receive => arrived' = arrived
<1>1. owner \in [Mbuf -> {"free", "driver", "stack"}] /\ data \in [Mbuf -> Nat]
  BY DEF RingsInv, TypeOK
<1>2. CASE card_transmit
  BY <1>2 DEF card_transmit, rx, Stack
<1>3. CASE e1000_intr
  BY <1>3 DEF e1000_intr, tx, Stack
<1>4. CASE e1000_recv_refill
  <2>1. Stack' = Stack
    <3>1. owner' = owner \/ \E b \in Mbuf : owner[b] = "free" /\ owner' = [owner EXCEPT ![b] = "driver"]
      BY <1>4 DEF e1000_recv_refill
    <3>2. \A c \in Mbuf : owner'[c] = "stack" <=> owner[c] = "stack"
      BY <1>1, <3>1
    <3>. QED
      BY <3>2 DEF Stack
  <2>. QED
    BY <1>4, <2>1 DEF e1000_recv_refill, tx
<1>5. CASE card_receive
  <2>1. RDH \in Ring /\ RDH \notin Hole
    <3>1. RDH = Len(arrived) % N /\ Len(arrived) \in Len(delivered) .. Refilled + N - 1
      BY RxCounts, RingSize DEF RingsInv, RxInv
    <3>. QED
      BY <3>1, RxCounts DEF RingsInv
  <2>2. rx_mbufs[RDH] \notin Stack
    BY <2>1 DEF RingsInv, OwnInv, Stack
  <2>3. rx_mbufs[RDH] \in Mbuf
    BY <2>1 DEF RingsInv, TypeOK
  <2>4. rxm # None => data'[rxm] = data[rxm]
    BY <1>1, <1>5, <2>2, <2>3, RxmIs DEF card_receive
  <2>. QED
    BY <1>5, <2>4 DEF card_receive, Stack
<1>. QED
  BY <1>2, <1>3, <1>4, <1>5

-----------------------------------------------------------------------------
(***************************************************************************)
(* The parts of the invariant, when a step does not touch them.            *)
(***************************************************************************)

\* The frame net_rx() works on stays the same.
LEMMA FrameKept ==
    ASSUME RingsInv, FrameInv, ReplyInv, RxSame, frames' = frames
    PROVE  /\ FrameInv'
           /\ reply' = reply => ReplyInv'
           /\ intr = "net_rx" => InHand' = InHand
<1>1. intr = "net_rx" => data'[rxm] = data[rxm]
  BY RxmIs DEF RxSame
<1>2. intr = "net_rx" => InHand' = InHand
  BY <1>1 DEF InHand, RxSame
<1>3. FrameInv'
  BY <1>1 DEF FrameInv, RxSame
<1>4. ASSUME reply' = reply, reply # "no" PROVE intr' = "net_rx" /\ IsRequest(InHand)'
  <2>1. intr = "net_rx" /\ IsRequest(InHand)
    BY <1>4 DEF ReplyInv
  <2>. QED
    BY <1>2, <2>1 DEF RxSame, IsRequest
<1>. QED
  BY <1>2, <1>3, <1>4 DEF ReplyInv

\* The pages stay where they are.
LEMMA PagesKept ==
    ASSUME Pages, UNCHANGED <<reply, hand, rxq, rxm>>, Stack' = Stack,
           fd \in [Proc -> Mbuf \cup {None}], fd' \in [Proc -> Mbuf \cup {None}],
           Opened' = Opened
    PROVE  Pages'
<1>1. \A p \in Proc : fd'[p] # None => \E q \in Proc : fd[q] = fd'[p]
  BY DEF Opened
<1>2. \A p \in Proc : fd[p] # None => \E q \in Proc : fd'[q] = fd[p]
  BY DEF Opened
<1>3. OneHolder'
  BY <1>1 DEF Pages, OneHolder
<1>4. \A b, s \in Mbuf : \A i \in Nat : InQueue(b, s, i)' <=> InQueue(b, s, i)
  BY DEF InQueue
<1>5. OneQueue'
  <2>. SUFFICES ASSUME NEW b \in Mbuf, NEW s \in Mbuf, NEW i \in Nat, InQueue(b, s, i)
                PROVE  /\ b \in Stack /\ b \notin {rxm, reply}
                       /\ \A p \in Proc : b # hand[p] /\ b # fd'[p]
                       /\ \A t \in Mbuf : \A j \in Nat : InQueue(b, t, j) => t = s /\ j = i
    BY <1>4 DEF OneQueue
  <2>1. /\ b \in Stack /\ b \notin {rxm, reply}
        /\ \A p \in Proc : b # hand[p] /\ b # fd[p]
        /\ \A t \in Mbuf : \A j \in Nat : InQueue(b, t, j) => t = s /\ j = i
    BY DEF Pages, OneQueue
  <2>2. \A p \in Proc : b # fd'[p]
    <3>. SUFFICES ASSUME NEW p \in Proc, b = fd'[p] PROVE FALSE
      OBVIOUS
    <3>1. b \in Opened'
      BY DEF Opened
    <3>2. b \in Opened
      BY <3>1
    <3>. QED
      BY <2>1, <3>2 DEF Opened
  <2>. QED
    BY <2>1, <2>2
<1>6. NoLeak'
  <2>. SUFFICES ASSUME NEW b \in Stack'
                PROVE  \/ b = rxm' \/ b = reply'
                       \/ \E p \in Proc : b = hand'[p] \/ b = fd'[p]
                       \/ \E s \in Mbuf : \E i \in Nat : InQueue(b, s, i)'
    BY DEF NoLeak
  <2>1. \/ b = rxm \/ b = reply
        \/ \E p \in Proc : b = hand[p] \/ b = fd[p]
        \/ \E s \in Mbuf : \E i \in Nat : InQueue(b, s, i)
    BY DEF Pages, NoLeak
  <2>2. b \in Mbuf
    BY DEF Stack
  <2>3. (\E p \in Proc : b = fd[p]) => \E p \in Proc : b = fd'[p]
    BY <2>2 DEF Opened
  <2>4. (\E s \in Mbuf : \E i \in Nat : InQueue(b, s, i))
            => \E s \in Mbuf : \E i \in Nat : InQueue(b, s, i)'
    BY <1>4, <2>2
  <2>. QED
    BY <2>1, <2>3, <2>4
<1>. QED
  BY <1>3, <1>5, <1>6 DEF Pages

-----------------------------------------------------------------------------
(***************************************************************************)
(* Every step of the stack is a step of E1000 and keeps the invariant.     *)
(***************************************************************************)

\* The processes' variables, for a step that only changes pc[p].
LEMMA UnchangedRings ==
    ASSUME UNCHANGED vars
    PROVE  RxSame /\ Stack' = Stack /\ UNCHANGED <<rxm, intr, panicked, delivered>>
  BY DEF vars, rx, RxSame, Stack

\* sleep(), in sockread().
LEMMA StepSleep ==
    ASSUME NetInv, NEW p \in Proc, sleep(p)
    PROVE  [Next]_vars /\ StackInv'
<1>. USE DEF NetInv, StackInv, sockvars
<1>1. pc[p] = "sleep" /\ pc' = [pc EXCEPT ![p] = "asleep"]
      /\ UNCHANGED <<vars, sockets, rxq, fd, hand, killed, reply, frames>>
  BY DEF sleep, Go
<1>2. NetTypeOK'
  BY <1>1 DEF NetTypeOK, NetPCs
<1>3. FrameInv' /\ ReplyInv'
  BY <1>1, FrameKept, UnchangedRings
<1>4. \A q \in Proc : pc'[q] = IF q = p THEN "asleep" ELSE pc[q]
  BY <1>1 DEF NetTypeOK
<1>5. Opened' = Opened /\ InList' = InList
  BY <1>1 DEF Opened, InList, Listed
<1>6. SockInv' /\ HandInv'
  BY <1>1, <1>4, <1>5 DEF SockInv, HandInv
<1>7. Pages'
  BY <1>1, <1>5, UnchangedRings, PagesKept DEF NetTypeOK
<1>8. WakeInv'
  BY <1>1, <1>4 DEF WakeInv
<1>. QED
  BY <1>1, <1>2, <1>3, <1>6, <1>7, <1>8

\* kill().
LEMMA StepKill ==
    ASSUME NetInv, NEW p \in Proc, kill(p)
    PROVE  [Next]_vars /\ StackInv'
<1>. USE DEF NetInv, StackInv, sockvars
<1>. DEFINE l == IF pc[p] = "asleep" THEN "read" ELSE pc[p]
<1>1. pc' = [pc EXCEPT ![p] = l] /\ killed' = [killed EXCEPT ![p] = TRUE]
      /\ UNCHANGED <<vars, sockets, rxq, fd, hand, reply, frames>>
  BY DEF kill, Go
<1>2. NetTypeOK'
  <2>1. pc[p] \in NetPCs /\ pc \in [Proc -> NetPCs] /\ killed \in [Proc -> BOOLEAN]
    BY DEF NetTypeOK
  <2>2. l \in NetPCs
    BY <2>1 DEF NetPCs
  <2>3. pc' \in [Proc -> NetPCs]
    BY <1>1, <2>1, <2>2
  <2>4. killed' \in [Proc -> BOOLEAN]
    BY <1>1, <2>1
  <2>. QED
    BY <1>1, <2>3, <2>4 DEF NetTypeOK
<1>3. FrameInv' /\ ReplyInv'
  BY <1>1, FrameKept, UnchangedRings
<1>4. \A q \in Proc : pc'[q] = pc[q] \/ (pc[q] = "asleep" /\ pc'[q] = "read")
  BY <1>1 DEF NetTypeOK
<1>5. Opened' = Opened /\ InList' = InList
  BY <1>1 DEF Opened, InList, Listed
<1>6. SockInv' /\ HandInv'
  <2>1. \A q \in Proc : pc'[q] # "user" => fd[q] # None
    BY <1>4 DEF SockInv
  <2>2. \A q \in Proc : pc'[q] \in {"list", "unlist", "drain", "copyout", "copyin"} => pc'[q] = pc[q]
    BY <1>4
  <2>3. \A q \in Proc : pc[q] \in {"list", "unlist", "drain", "copyout", "copyin"} => pc'[q] = pc[q]
    BY <1>4
  <2>4. SockInv'
    BY <1>1, <1>5, <2>1, <2>2 DEF SockInv
  <2>. QED
    BY <1>1, <2>2, <2>3, <2>4 DEF HandInv
<1>7. Pages'
  BY <1>1, <1>5, UnchangedRings, PagesKept DEF NetTypeOK
<1>8. WakeInv'
  BY <1>1, <1>4 DEF WakeInv
<1>. QED
  BY <1>1, <1>2, <1>3, <1>6, <1>7, <1>8

\* sockalloc() puts the socket at the head of the list.
LEMMA StepList ==
    ASSUME NetInv, NEW p \in Proc, sockalloc_list(p)
    PROVE  [Next]_vars /\ StackInv'
<1>. USE DEF NetInv, StackInv
<1>1. /\ pc[p] = "list" /\ pc' = [pc EXCEPT ![p] = "user"]
      /\ sockets' = <<fd[p]>> \o sockets
      /\ UNCHANGED <<vars, rxq, fd, hand, killed, reply, frames>>
  BY DEF sockalloc_list, Go
<1>2. fd[p] \in Mbuf /\ sockets \in Seq(Mbuf) /\ fd[p] \notin InList
  BY <1>1 DEF SockInv, NetTypeOK
<1>. DEFINE n == Len(sockets)
<1>3. /\ sockets' \in Seq(Mbuf) /\ DOMAIN sockets' = 1 .. n + 1 /\ DOMAIN sockets = 1 .. n
      /\ sockets'[1] = fd[p] /\ \A i \in 2 .. n + 1 : sockets'[i] = sockets[i - 1]
  <2>1. <<fd[p]>> \in Seq(Mbuf) /\ Len(<<fd[p]>>) = 1 /\ <<fd[p]>>[1] = fd[p] /\ n \in Nat
    BY <1>2
  <2>2. /\ sockets' \in Seq(Mbuf) /\ Len(sockets') = 1 + n
        /\ \A i \in 1 .. 1 + n : sockets'[i] = IF i <= 1 THEN <<fd[p]>>[i] ELSE sockets[i - 1]
    BY <1>1, <1>2, <2>1, ConcatProperties
  <2>3. DOMAIN sockets' = 1 .. n + 1 /\ DOMAIN sockets = 1 .. n
    BY <1>2, <2>1, <2>2
  <2>4. sockets'[1] = fd[p] /\ \A i \in 2 .. n + 1 : sockets'[i] = sockets[i - 1]
    BY <2>1, <2>2
  <2>. QED
    BY <2>2, <2>3, <2>4
<1>4. \A q \in Proc : pc'[q] = IF q = p THEN "user" ELSE pc[q]
  BY <1>1 DEF NetTypeOK
<1>5. Opened' = Opened
  BY <1>1 DEF Opened
<1>6. InList' \subseteq InList \cup {fd[p]}
  BY <1>2, <1>3 DEF InList, Listed
<1>7. NetTypeOK'
  BY <1>1, <1>3 DEF NetTypeOK, NetPCs
<1>8. FrameInv' /\ ReplyInv'
  BY <1>1, FrameKept, UnchangedRings
<1>9. SockInv'
  <2>1. \A i \in DOMAIN sockets' : sockets'[i] \in Opened'
    <3>. SUFFICES ASSUME NEW i \in DOMAIN sockets' PROVE sockets'[i] \in Opened
      BY <1>5
    <3>1. CASE i = 1
      BY <1>2, <1>3, <3>1 DEF Opened
    <3>2. CASE i # 1
      <4>1. i \in 2 .. n + 1 /\ i - 1 \in DOMAIN sockets
        BY <1>2, <1>3, <3>2
      <4>. QED
        BY <1>3, <4>1 DEF SockInv
    <3>. QED
      BY <3>1, <3>2
  <2>2. \A i, j \in DOMAIN sockets' : sockets'[i] = sockets'[j] => i = j
    <3>. SUFFICES ASSUME NEW i \in DOMAIN sockets', NEW j \in DOMAIN sockets', sockets'[i] = sockets'[j]
                  PROVE  i = j
      OBVIOUS
    <3>1. \A k \in DOMAIN sockets' : k # 1 => k \in 2 .. n + 1 /\ k - 1 \in DOMAIN sockets /\ k \in Int
      BY <1>2, <1>3
    <3>2. \A k \in DOMAIN sockets' : k # 1 => sockets'[k] = sockets[k - 1] /\ sockets[k - 1] # fd[p]
      BY <1>2, <1>3, <3>1 DEF InList, Listed, NetTypeOK
    <3>3. CASE i # 1 /\ j # 1
      <4>1. i - 1 = j - 1
        BY <3>1, <3>2, <3>3 DEF SockInv
      <4>. QED
        BY <3>1, <3>3, <4>1
    <3>. QED
      BY <1>3, <3>2, <3>3
  <2>3. \A q \in Proc : pc'[q] # "user" => fd[q] # None
    BY <1>4 DEF SockInv
  <2>4. \A q \in Proc : pc'[q] \in {"list", "unlist", "drain"} =>
            pc[q] = pc'[q] /\ q # p /\ \A r \in Proc : fd[r] = fd[q] => r = q
    BY <1>4 DEF SockInv
  <2>5. \A q \in Proc : pc'[q] \in {"list", "drain"} => fd[q] \notin InList'
    <3>1. \A q \in Proc : pc'[q] \in {"list", "drain"} => fd[q] # fd[p] /\ fd[q] \notin InList
      BY <2>4 DEF SockInv
    <3>. QED
      BY <1>1, <1>6, <3>1
  <2>. QED
    BY <1>1, <2>1, <2>2, <2>3, <2>4, <2>5 DEF SockInv
<1>10. HandInv'
  BY <1>1, <1>4 DEF HandInv
<1>11. Pages'
  BY <1>1, <1>5, UnchangedRings, PagesKept DEF NetTypeOK
<1>12. WakeInv'
  BY <1>1, <1>4 DEF WakeInv
<1>. QED
  BY <1>1, <1>7, <1>8, <1>9, <1>10, <1>11, <1>12

\* fork(): one more process with the socket.
LEMMA StepFork ==
    ASSUME NetInv, NEW p \in Proc, NEW q \in Proc, fork(p, q)
    PROVE  [Next]_vars /\ StackInv'
<1>. USE DEF NetInv, StackInv, procvars
<1>1. /\ pc[p] = "user" /\ fd[p] # None /\ pc[q] = "user" /\ fd[q] = None
      /\ fd' = [fd EXCEPT ![q] = fd[p]]
      /\ UNCHANGED <<vars, sockets, rxq, pc, hand, killed, reply, frames>>
  BY DEF fork
<1>2. \A r \in Proc : fd'[r] = IF r = q THEN fd[p] ELSE fd[r]
  BY <1>1 DEF NetTypeOK
<1>3. NetTypeOK'
  BY <1>1 DEF NetTypeOK
<1>4. FrameInv' /\ ReplyInv'
  BY <1>1, FrameKept, UnchangedRings
<1>5. Opened' = Opened
  BY <1>1, <1>2, RxmIs DEF Opened
<1>6. InList' = InList
  BY <1>1 DEF InList, Listed
<1>7. SockInv'
  <2>1. \A r \in Proc : pc[r] \in {"list", "unlist", "drain"} => fd[r] # fd[p] /\ fd[r] # None /\ fd'[r] = fd[r]
    BY <1>1, <1>2 DEF SockInv
  <2>3. \A r \in Proc : pc[r] \in {"list", "unlist", "drain"} => \A t \in Proc : fd'[t] = fd'[r] => t = r
    BY <1>1, <1>2, <2>1 DEF SockInv
  <2>4. \A r \in Proc : pc[r] # "user" => fd'[r] # None
    BY <1>1, <1>2 DEF SockInv
  <2>5. \A r \in Proc : pc[r] \in {"list", "drain"} => fd'[r] \notin InList'
    BY <1>6, <2>1 DEF SockInv
  <2>. QED
    BY <1>1, <1>5, <2>3, <2>4, <2>5 DEF SockInv
<1>8. HandInv'
  BY <1>1 DEF HandInv
<1>9. Pages'
  BY <1>1, <1>3, <1>5, UnchangedRings, PagesKept DEF NetTypeOK
<1>10. WakeInv'
  <2>1. \A r \in Proc : pc[r] \in {"sleep", "asleep"} => fd'[r] = fd[r]
    BY <1>1, <1>2
  <2>. QED
    BY <1>1, <2>1 DEF WakeInv
<1>. QED
  BY <1>1, <1>3, <1>4, <1>7, <1>8, <1>9, <1>10

\* fileclose(): one process less, or the start of sockclose().
LEMMA StepClose ==
    ASSUME NetInv, NEW p \in Proc, fileclose(p)
    PROVE  [Next]_vars /\ StackInv'
<1>. USE DEF NetInv, StackInv
<1>1. /\ pc[p] = "user" /\ fd[p] # None
      /\ UNCHANGED <<vars, sockets, rxq, hand, killed, reply, frames>>
      /\ \/ /\ \E q \in Proc \ {p} : fd[q] = fd[p]
            /\ fd' = [fd EXCEPT ![p] = None] /\ pc' = pc
         \/ /\ ~\E q \in Proc \ {p} : fd[q] = fd[p]
            /\ pc' = [pc EXCEPT ![p] = "unlist"] /\ fd' = fd
  BY DEF fileclose, Go
<1>2. FrameInv' /\ ReplyInv'
  BY <1>1, FrameKept, UnchangedRings
<1>3. InList' = InList
  BY <1>1 DEF InList, Listed
<1>4. CASE (\E q \in Proc \ {p} : fd[q] = fd[p]) /\ fd' = [fd EXCEPT ![p] = None] /\ pc' = pc
  <2>1. \A r \in Proc : fd'[r] = IF r = p THEN None ELSE fd[r]
    BY <1>4 DEF NetTypeOK
  <2>2. NetTypeOK'
    BY <1>1, <1>4 DEF NetTypeOK
  <2>3. Opened' = Opened
    BY <1>1, <1>4, <2>1, RxmIs DEF Opened
  <2>4. SockInv'
    <3>1. \A r \in Proc : pc[r] # "user" => fd'[r] = fd[r] /\ fd[r] # None
      BY <1>1, <2>1 DEF SockInv
    <3>3. \A r \in Proc : pc[r] \in {"list", "unlist", "drain"} => \A t \in Proc : fd'[t] = fd'[r] => t = r
      BY <2>1, <3>1 DEF SockInv
    <3>4. \A r \in Proc : pc[r] \in {"list", "drain"} => fd'[r] \notin InList'
      BY <1>3, <3>1 DEF SockInv
    <3>. QED
      BY <1>1, <1>4, <2>3, <3>1, <3>3, <3>4 DEF SockInv
  <2>5. HandInv'
    BY <1>1, <1>4 DEF HandInv
  <2>6. Pages'
    BY <1>1, <2>2, <2>3, UnchangedRings, PagesKept DEF NetTypeOK
  <2>7. WakeInv'
    <3>1. \A r \in Proc : pc[r] \in {"sleep", "asleep"} => fd'[r] = fd[r]
      BY <1>1, <2>1
    <3>. QED
      BY <1>1, <1>4, <3>1 DEF WakeInv
  <2>. QED
    BY <1>1, <1>2, <2>2, <2>4, <2>5, <2>6, <2>7
<1>5. CASE (~\E q \in Proc \ {p} : fd[q] = fd[p]) /\ pc' = [pc EXCEPT ![p] = "unlist"] /\ fd' = fd
  <2>1. \A r \in Proc : pc'[r] = IF r = p THEN "unlist" ELSE pc[r]
    BY <1>5 DEF NetTypeOK
  <2>2. NetTypeOK'
    BY <1>1, <1>5 DEF NetTypeOK, NetPCs
  <2>3. Opened' = Opened
    BY <1>5 DEF Opened
  <2>4. SockInv'
    <3>1. \A r \in Proc : pc'[r] # "user" => fd[r] # None
      BY <1>1, <2>1 DEF SockInv
    <3>2. \A r \in Proc : pc'[r] \in {"list", "unlist", "drain"} => \A t \in Proc : fd[t] = fd[r] => t = r
      BY <1>5, <2>1 DEF SockInv
    <3>3. \A r \in Proc : pc'[r] \in {"list", "drain"} => fd[r] \notin InList'
      BY <1>3, <2>1 DEF SockInv
    <3>. QED
      BY <1>1, <1>5, <2>3, <3>1, <3>2, <3>3 DEF SockInv
  <2>5. HandInv'
    BY <1>1, <2>1 DEF HandInv
  <2>6. Pages'
    BY <1>1, <1>5, <2>3, UnchangedRings, PagesKept DEF NetTypeOK
  <2>7. WakeInv'
    BY <1>1, <1>5, <2>1 DEF WakeInv
  <2>. QED
    BY <1>1, <1>2, <2>2, <2>4, <2>5, <2>6, <2>7
<1>. QED
  BY <1>1, <1>4, <1>5

\* The first of some places in a list.
LEMMA FirstIs ==
    ASSUME NEW S \in SUBSET Nat, S # {}
    PROVE  First(S) \in S
<1>1. \E i \in S : \A j \in S : i <= j
  BY Least
<1>. QED
  BY <1>1 DEF First

\* sockclose() takes the socket out of the list.
LEMMA StepUnlist ==
    ASSUME NetInv, NEW p \in Proc, sockclose(p)
    PROVE  [Next]_vars /\ StackInv'
<1>. USE DEF NetInv, StackInv
<1>. DEFINE n == Len(sockets)
            F == {i \in DOMAIN sockets : sockets[i] = fd[p]}
            f == First(F)
<1>1. /\ pc[p] = "unlist" /\ pc' = [pc EXCEPT ![p] = "drain"]
      /\ sockets' = IF Listed(fd[p]) THEN Unlink(f) ELSE sockets
      /\ UNCHANGED <<vars, rxq, fd, hand, killed, reply, frames>>
  BY DEF sockclose, Go
<1>2. /\ fd[p] \in Mbuf /\ sockets \in Seq(Mbuf) /\ n \in Nat /\ DOMAIN sockets = 1 .. n
      /\ \A i \in 1 .. n : sockets[i] \in Mbuf
  BY <1>1 DEF SockInv, NetTypeOK
<1>3. \A q \in Proc : pc'[q] = IF q = p THEN "drain" ELSE pc[q]
  BY <1>1 DEF NetTypeOK
<1>4. Opened' = Opened
  BY <1>1 DEF Opened
<1>5. /\ sockets' \in Seq(Mbuf)
      /\ \A i \in DOMAIN sockets' : sockets'[i] \in Opened /\ sockets'[i] # fd[p]
                                     /\ sockets'[i] \in InList
      /\ \A i, j \in DOMAIN sockets' : sockets'[i] = sockets'[j] => i = j
  <2>1. CASE ~Listed(fd[p])
    <3>1. sockets' = sockets
      BY <1>1, <2>1
    <3>. QED
      BY <1>2, <2>1, <3>1 DEF Listed, InList, SockInv
  <2>2. CASE Listed(fd[p])
    <3>1. f \in 1 .. n /\ sockets[f] = fd[p]
      <4>1. F \in SUBSET Nat /\ F # {}
        BY <1>2, <2>2 DEF Listed
      <4>2. f \in F
        <5>. HIDE DEF F
        <5>. QED  BY <4>1, FirstIs
      <4>. QED
        BY <1>2, <4>2
    <3>. HIDE DEF f
    <3>. DEFINE g(j) == IF j < f THEN j ELSE j + 1
    <3>2. sockets' = [j \in 1 .. n - 1 |-> sockets[g(j)]]
      BY <1>1, <2>2 DEF Unlink
    <3>3. /\ \A j \in 1 .. n - 1 : g(j) \in 1 .. n /\ g(j) # f
          /\ \A i, j \in 1 .. n - 1 : g(i) = g(j) => i = j
      <4>. HIDE DEF n
      <4>. QED  BY <1>2, <3>1
    <3>4. n - 1 \in Nat
      <4>. HIDE DEF n
      <4>. QED  BY <1>2, <3>1
    <3>. HIDE DEF g, n
    <3>5. sockets' \in Seq(Mbuf) /\ DOMAIN sockets' = 1 .. n - 1
      BY <1>2, <3>2, <3>3, <3>4
    <3>6. \A j \in 1 .. n - 1 : sockets'[j] = sockets[g(j)]
      BY <3>2
    <3>7. \A i, j \in 1 .. n : sockets[i] = sockets[j] => i = j
      BY <1>2 DEF SockInv
    <3>8. \A i \in 1 .. n : sockets[i] \in Opened /\ sockets[i] \in InList
      BY <1>2 DEF SockInv, InList, Listed
    <3>. QED
      BY <3>1, <3>3, <3>5, <3>6, <3>7, <3>8
  <2>. QED
    BY <2>1, <2>2
<1>6. InList' \subseteq InList \ {fd[p]}
  <2>1. \A s \in InList' : \E i \in DOMAIN sockets' : sockets'[i] = s
    BY DEF InList, Listed
  <2>. QED
    BY <1>5, <2>1
<1>7. NetTypeOK'
  BY <1>1, <1>5 DEF NetTypeOK, NetPCs
<1>8. FrameInv' /\ ReplyInv'
  BY <1>1, FrameKept, UnchangedRings
<1>9. SockInv'
  <2>1. \A q \in Proc : pc'[q] # "user" => fd[q] # None
    BY <1>1, <1>3 DEF SockInv
  <2>2. \A q \in Proc : pc'[q] \in {"list", "unlist", "drain"} => \A r \in Proc : fd[r] = fd[q] => r = q
    BY <1>1, <1>3 DEF SockInv
  <2>3. \A q \in Proc : pc'[q] \in {"list", "drain"} => fd[q] \notin InList'
    BY <1>3, <1>6 DEF SockInv
  <2>. QED
    BY <1>1, <1>4, <1>5, <2>1, <2>2, <2>3 DEF SockInv
<1>10. HandInv' /\ WakeInv'
  BY <1>1, <1>3 DEF HandInv, WakeInv
<1>11. Pages'
  BY <1>1, <1>4, UnchangedRings, PagesKept DEF NetTypeOK
<1>. QED
  BY <1>1, <1>7, <1>8, <1>9, <1>10, <1>11

\* The pages, when the head of a queue becomes hand[p] or is freed.  The place
\* of every other mbuf in the queue goes down by one.
LEMMA PopQueue ==
    ASSUME NetInv, NEW s \in Opened, rxq[s] # <<>>, rxq' = [rxq EXCEPT ![s] = mbufq_pophead(rxq[s])],
           Opened' = Opened
    PROVE  /\ rxq[s][1].m \in Mbuf /\ InQueue(rxq[s][1].m, s, 1)
           /\ rxq' \in [Mbuf -> Seq([m : Mbuf, len : Int])]
           /\ \A b, t \in Mbuf : \A i \in Nat : InQueue(b, t, i)' <=>
                    IF t = s THEN i > 0 /\ InQueue(b, s, i + 1) ELSE InQueue(b, t, i)
<1>. USE DEF NetInv, StackInv
<1>. DEFINE q == rxq[s]
            Rec == [m : Mbuf, len : Int]
<1>1. s \in Mbuf /\ q \in Seq(Rec) /\ rxq \in [Mbuf -> Seq(Rec)] /\ Len(q) \in Nat
  BY DEF Opened, NetTypeOK
<1>2. 1 \in DOMAIN q /\ q[1] \in Rec
  <2>. HIDE DEF Rec
  <2>1. q # <<>>
    OBVIOUS
  <2>. HIDE DEF q
  <2>2. Len(q) # 0
    BY <1>1, <2>1, EmptySeq
  <2>. QED
    BY <1>1, <2>2
<1>3. rxq[s][1].m \in Mbuf /\ InQueue(rxq[s][1].m, s, 1)
  BY <1>2 DEF InQueue
<1>4. /\ Tail(q) \in Seq(Rec) /\ Len(Tail(q)) = Len(q) - 1
      /\ \A i \in 1 .. Len(q) - 1 : Tail(q)[i] = q[i + 1]
  BY <1>1, HeadTailProperties
<1>5. rxq'[s] = Tail(q) /\ \A t \in Mbuf : t # s => rxq'[t] = rxq[t]
  BY <1>1 DEF mbufq_pophead
<1>6. rxq' \in [Mbuf -> Seq(Rec)]
  BY <1>1, <1>4 DEF mbufq_pophead
<1>7. ASSUME NEW b \in Mbuf, NEW t \in Mbuf, NEW i \in Nat, t # s
      PROVE  InQueue(b, t, i)' <=> InQueue(b, t, i)
  BY <1>5, <1>7 DEF InQueue
<1>8. ASSUME NEW b \in Mbuf, NEW i \in Nat
      PROVE  InQueue(b, s, i)' <=> i > 0 /\ InQueue(b, s, i + 1)
  <2>1. DOMAIN Tail(q) = 1 .. Len(q) - 1 /\ DOMAIN q = 1 .. Len(q)
    BY <1>1, <1>4
  <2>2. i \in 1 .. Len(q) - 1 <=> i > 0 /\ i + 1 \in 1 .. Len(q)
    BY <1>1
  <2>. QED
    BY <1>4, <1>5, <2>1, <2>2 DEF InQueue
<1>. QED
  BY <1>3, <1>6, <1>7, <1>8

\* Hence the other mbufs are still in one queue each, and the head is in none.
LEMMA PopPages ==
    ASSUME NetInv, NEW s \in Opened, rxq[s] # <<>>, rxq' = [rxq EXCEPT ![s] = mbufq_pophead(rxq[s])],
           Opened' = Opened
    PROVE  LET h == rxq[s][1].m
           IN  /\ h \in Stack /\ h \notin {rxm, reply}
               /\ \A r \in Proc : h # hand[r] /\ h # fd[r]
               /\ \A b, t \in Mbuf : \A i \in Nat : InQueue(b, t, i)' =>
                    /\ b # h
                    /\ \E k \in Nat : InQueue(b, t, k)
                    /\ \A u \in Mbuf : \A j \in Nat : InQueue(b, u, j)' => u = t /\ j = i
               /\ \A b, t \in Mbuf : \A i \in Nat : InQueue(b, t, i) /\ b # h =>
                    \E j \in Nat : InQueue(b, t, j)'
<1>. DEFINE h == rxq[s][1].m
<1>1. /\ h \in Mbuf /\ InQueue(h, s, 1) /\ s \in Mbuf
      /\ \A b, t \in Mbuf : \A i \in Nat : InQueue(b, t, i)' <=>
                  IF t = s THEN i > 0 /\ InQueue(b, s, i + 1) ELSE InQueue(b, t, i)
  BY PopQueue DEF Opened
<1>2. OneQueue /\ NetTypeOK
  BY DEF NetInv, StackInv, Pages
<1>3. \A b, t \in Mbuf : \A i \in Nat : InQueue(b, t, i) =>
        /\ b \in Stack /\ b \notin {rxm, reply}
        /\ \A r \in Proc : b # hand[r] /\ b # fd[r]
        /\ \A u \in Mbuf : \A j \in Nat : InQueue(b, u, j) => u = t /\ j = i
  BY <1>2 DEF OneQueue
<1>4. \A i \in Nat : InQueue(h, s, i) => i = 1
  BY <1>1, <1>3
<1>5. \A b \in Mbuf : \A i \in Nat : InQueue(b, s, i) /\ b # h => i \in Nat \ {0, 1}
  <2>. SUFFICES ASSUME NEW b \in Mbuf, NEW i \in Nat, InQueue(b, s, i), b # h PROVE i \in Nat \ {0, 1}
    OBVIOUS
  <2>1. i # 1
    BY DEF InQueue
  <2>2. rxq[s] \in Seq([m : Mbuf, len : Int])
    BY <1>1, <1>2 DEF NetTypeOK
  <2>3. i \in 1 .. Len(rxq[s])
    BY <2>2 DEF InQueue
  <2>. QED
    BY <2>1, <2>3
<1>. HIDE DEF h
<1>6. ASSUME NEW b \in Mbuf, NEW t \in Mbuf, NEW i \in Nat, InQueue(b, t, i)'
      PROVE  \E k \in Nat : InQueue(b, t, k) /\ (IF t = s THEN i > 0 /\ k = i + 1 ELSE k = i)
  <2>1. CASE t = s
    <3>1. i > 0 /\ InQueue(b, t, i + 1) /\ i + 1 \in Nat
      BY <1>1, <1>6, <2>1
    <3>. QED
      BY <2>1, <3>1
  <2>2. CASE t # s
    <3>1. InQueue(b, t, i)
      BY <1>1, <1>6, <2>2
    <3>. QED
      BY <2>2, <3>1
  <2>. QED
    BY <2>1, <2>2
<1>7. ASSUME NEW b \in Mbuf, NEW t \in Mbuf, NEW i \in Nat, InQueue(b, t, i)'
      PROVE  /\ b # h /\ \E k \in Nat : InQueue(b, t, k)
             /\ \A u \in Mbuf : \A j \in Nat : InQueue(b, u, j)' => u = t /\ j = i
  <2>1. PICK k \in Nat : InQueue(b, t, k) /\ (IF t = s THEN i > 0 /\ k = i + 1 ELSE k = i)
    BY <1>6, <1>7
  <2>2. b # h
    <3>. SUFFICES ASSUME b = h PROVE FALSE
      OBVIOUS
    <3>1. t = s /\ k = 1
      BY <1>1, <1>3, <2>1
    <3>. QED
      BY <2>1, <3>1
  <2>3. ASSUME NEW u \in Mbuf, NEW j \in Nat, InQueue(b, u, j)' PROVE u = t /\ j = i
    <3>1. PICK l \in Nat : InQueue(b, u, l) /\ (IF u = s THEN j > 0 /\ l = j + 1 ELSE l = j)
      BY <1>6, <2>3
    <3>2. u = t /\ l = k
      BY <1>3, <2>1, <3>1
    <3>. QED
      BY <2>1, <3>1, <3>2
  <2>. QED
    BY <2>1, <2>2, <2>3
<1>8. ASSUME NEW b \in Mbuf, NEW t \in Mbuf, NEW i \in Nat, InQueue(b, t, i), b # h
      PROVE  \E j \in Nat : InQueue(b, t, j)'
  <2>1. CASE t # s
    BY <1>1, <1>8, <2>1
  <2>2. CASE t = s
    <3>1. i \in Nat \ {0, 1}
      BY <1>5, <1>8, <2>2
    <3>2. i - 1 \in Nat /\ i - 1 > 0 /\ i - 1 + 1 = i
      BY <3>1
    <3>. QED
      BY <1>1, <1>8, <2>2, <3>2
  <2>. QED
    BY <2>1, <2>2
<1>9. h \in Stack /\ h \notin {rxm, reply} /\ \A r \in Proc : h # hand[r] /\ h # fd[r]
  BY <1>1, <1>3
<1>. QED
  BY <1>7, <1>8, <1>9 DEF h

\* sockread(), with the socket's lock just taken.
LEMMA StepRead ==
    ASSUME NetInv, NEW p \in Proc, sockread(p)
    PROVE  [Next]_vars /\ StackInv'
<1>. USE DEF NetInv, StackInv
<1>. DEFINE s == fd[p]
            q == rxq[fd[p]]
<1>1. /\ pc[p] \in {"read", "user"} /\ fd[p] # None
      /\ UNCHANGED <<vars, sockets, fd, killed, reply, frames>>
  BY DEF sockread, SockInv
<1>2. FrameInv' /\ ReplyInv'
  BY <1>1, FrameKept, UnchangedRings
<1>3. Opened' = Opened /\ InList' = InList /\ s \in Opened /\ s \in Mbuf
  BY <1>1 DEF Opened, InList, Listed, NetTypeOK
<1>4. Stack' = Stack /\ rxm' = rxm
  BY <1>1, UnchangedRings
<1>5. ASSUME NEW l \in {"user", "sleep"}, pc' = [pc EXCEPT ![p] = l], UNCHANGED <<rxq, hand>>,
             l = "sleep" => q = <<>>
      PROVE  StackInv'
  <2>1. \A r \in Proc : pc'[r] = IF r = p THEN l ELSE pc[r]
    BY <1>5 DEF NetTypeOK
  <2>2. NetTypeOK'
    BY <1>1, <1>5 DEF NetTypeOK, NetPCs
  <2>3. SockInv' /\ HandInv'
    BY <1>1, <1>3, <1>5, <2>1 DEF SockInv, HandInv
  <2>4. WakeInv'
    BY <1>1, <1>5, <2>1 DEF WakeInv
  <2>5. Pages'
    BY <1>1, <1>3, <1>4, <1>5, PagesKept DEF NetTypeOK
  <2>. QED
    BY <1>2, <2>2, <2>3, <2>4, <2>5
<1>6. ASSUME q # <<>>, pc' = [pc EXCEPT ![p] = "copyout"], hand' = [hand EXCEPT ![p] = Head(q).m],
             rxq' = [rxq EXCEPT ![s] = mbufq_pophead(q)]
      PROVE  StackInv'
  <2>. DEFINE h == q[1].m
  <2>1. /\ h \in Mbuf /\ InQueue(h, s, 1)
        /\ rxq' \in [Mbuf -> Seq([m : Mbuf, len : Int])]
    BY <1>3, <1>6, PopQueue
  <2>2. \A r \in Proc : pc'[r] = IF r = p THEN "copyout" ELSE pc[r]
    BY <1>6 DEF NetTypeOK
  <2>3. \A r \in Proc : hand'[r] = IF r = p THEN h ELSE hand[r]
    <3>1. Head(q) = q[1]
      BY <1>3, <1>6 DEF NetTypeOK
    <3>. QED
      BY <1>6, <3>1 DEF NetTypeOK
  <2>4. NetTypeOK'
    <3>1. hand' \in [Proc -> Mbuf \cup {None}]
      BY <1>6, <2>1, <2>3 DEF NetTypeOK
    <3>2. pc' \in [Proc -> NetPCs]
      BY <1>6 DEF NetTypeOK, NetPCs
    <3>. QED
      BY <1>1, <2>1, <3>1, <3>2 DEF NetTypeOK
  <2>5. SockInv' /\ HandInv'
    <3>1. SockInv'
      BY <1>1, <1>3, <2>2 DEF SockInv
    <3>2. h # None
      BY <2>1, RxmIs
    <3>. HIDE DEF h
    <3>3. HandInv'
      BY <1>1, <2>2, <2>3, <3>2 DEF HandInv
    <3>. QED
      BY <3>1, <3>3
  <2>6. WakeInv'
    <3>1. \A r \in Proc : pc'[r] \in {"sleep", "asleep"} => fd[r] # s /\ fd[r] \in Mbuf /\ rxq[fd[r]] = <<>>
      BY <1>6, <2>2 DEF WakeInv, SockInv, NetTypeOK
    <3>2. \A t \in Mbuf : t # s => rxq'[t] = rxq[t]
      BY <1>6 DEF NetTypeOK
    <3>. QED
      BY <1>1, <3>1, <3>2 DEF WakeInv
  <2>7. /\ h \in Stack /\ h \notin {rxm, reply}
        /\ \A r \in Proc : h # hand[r] /\ h # fd[r]
        /\ \A b, t \in Mbuf : \A i \in Nat : InQueue(b, t, i)' =>
              /\ b # h
              /\ \E k \in Nat : InQueue(b, t, k)
              /\ \A u \in Mbuf : \A j \in Nat : InQueue(b, u, j)' => u = t /\ j = i
        /\ \A b, t \in Mbuf : \A i \in Nat : InQueue(b, t, i) /\ b # h =>
              \E j \in Nat : InQueue(b, t, j)'
    BY <1>3, <1>6, PopPages
  <2>. HIDE DEF h
  <2>8. OneHolder'
    BY <1>1, <1>4, <2>3, <2>7 DEF Pages, OneHolder
  <2>9. OneQueue'
    <3>. SUFFICES ASSUME NEW b \in Mbuf, NEW t \in Mbuf, NEW i \in Nat, InQueue(b, t, i)'
                  PROVE  /\ b \in Stack /\ b \notin {rxm, reply}
                         /\ \A r \in Proc : b # hand'[r] /\ b # fd[r]
                         /\ \A u \in Mbuf : \A j \in Nat : InQueue(b, u, j)' => u = t /\ j = i
      BY <1>1, <1>4 DEF OneQueue
    <3>1. PICK k \in Nat : InQueue(b, t, k)
      BY <2>7
    <3>2. b \in Stack /\ b \notin {rxm, reply} /\ \A r \in Proc : b # hand[r] /\ b # fd[r]
      BY <3>1 DEF Pages, OneQueue
    <3>. QED
      BY <2>3, <2>7, <3>2
  <2>10. NoLeak'
    <3>. SUFFICES ASSUME NEW b \in Stack
                  PROVE  \/ b = rxm \/ b = reply
                         \/ \E r \in Proc : b = hand'[r] \/ b = fd[r]
                         \/ \E t \in Mbuf : \E i \in Nat : InQueue(b, t, i)'
      BY <1>1, <1>4 DEF NoLeak
    <3>0. b \in Mbuf
      BY DEF Stack
    <3>1. \/ b = rxm \/ b = reply
          \/ \E r \in Proc : b = hand[r] \/ b = fd[r]
          \/ \E t \in Mbuf : \E i \in Nat : InQueue(b, t, i)
      BY DEF Pages, NoLeak
    <3>2. hand[p] = None /\ b # None
      BY <1>1, <3>0, RxmIs DEF HandInv
    <3>. QED
      BY <2>3, <2>7, <3>0, <3>1, <3>2
  <2>. QED
    BY <1>2, <2>4, <2>5, <2>6, <2>8, <2>9, <2>10 DEF Pages
<1>7. StackInv'
  <2>1. \/ pc' = [pc EXCEPT ![p] = "user"] /\ UNCHANGED <<rxq, hand>>
        \/ pc' = [pc EXCEPT ![p] = "sleep"] /\ q = <<>> /\ UNCHANGED <<rxq, hand>>
        \/ /\ q # <<>> /\ pc' = [pc EXCEPT ![p] = "copyout"]
           /\ hand' = [hand EXCEPT ![p] = Head(q).m]
           /\ rxq' = [rxq EXCEPT ![s] = mbufq_pophead(q)]
    BY DEF sockread, Go, mbufq_empty
  <2>. QED
    BY <1>5, <1>6, <2>1
<1>. QED
  BY <1>1, <1>7

\* The places of the stack's pages, spelled out for the next proofs.
LEMMA PagesAre ==
    ASSUME Pages
    PROVE  /\ OneHolder /\ OneQueue /\ NoLeak
           /\ \A b, s \in Mbuf : \A i \in Nat : InQueue(b, s, i) =>
                /\ b \in Stack /\ b \notin {rxm, reply}
                /\ \A p \in Proc : b # hand[p] /\ b # fd[p]
                /\ \A t \in Mbuf : \A j \in Nat : InQueue(b, t, j) => t = s /\ j = i
           /\ \A b \in Stack :
                \/ b = rxm \/ b = reply
                \/ \E p \in Proc : b = hand[p] \/ b = fd[p]
                \/ \E s \in Mbuf : \E i \in Nat : InQueue(b, s, i)
  BY DEF Pages, OneQueue, NoLeak

\* sockwrite() takes an mbuf.
LEMMA StepWrite ==
    ASSUME NetInv, NEW p \in Proc, sockwrite(p)
    PROVE  [Next]_vars /\ StackInv'
<1>. USE DEF NetInv, StackInv, sockvars
<1>1. PICK b \in Mbuf : mbufalloc(b) /\ hand' = [hand EXCEPT ![p] = b]
  BY DEF sockwrite
<1>2. /\ pc[p] = "user" /\ fd[p] # None /\ pc' = [pc EXCEPT ![p] = "copyin"]
      /\ UNCHANGED <<sockets, rxq, fd, killed, reply, frames>>
  BY DEF sockwrite, Go
<1>3. b \notin Stack /\ b # rxm /\ Stack' = Stack \cup {b} /\ RxSame /\ rxm' = rxm
  BY <1>1, AllocEffect DEF RxSame
<1>4. FrameInv' /\ ReplyInv'
  BY <1>2, <1>3, FrameKept
<1>5. \A r \in Proc : /\ pc'[r] = IF r = p THEN "copyin" ELSE pc[r]
                      /\ hand'[r] = IF r = p THEN b ELSE hand[r]
  BY <1>1, <1>2 DEF NetTypeOK
<1>6. NetTypeOK'
  BY <1>1, <1>2 DEF NetTypeOK, NetPCs
<1>7. Opened' = Opened /\ InList' = InList
  BY <1>2 DEF Opened, InList, Listed
<1>8. SockInv'
  BY <1>2, <1>5, <1>7 DEF SockInv
<1>9. b # None /\ hand[p] = None
  BY <1>2, RxmIs DEF HandInv
<1>10. HandInv' /\ WakeInv'
  BY <1>2, <1>5, <1>9 DEF HandInv, WakeInv
<1>11. \A c, s \in Mbuf : \A i \in Nat : InQueue(c, s, i)' <=> InQueue(c, s, i)
  BY <1>2, <1>7 DEF InQueue
<1>12. OneHolder'
  BY <1>2, <1>3, <1>5, PagesAre DEF OneHolder
<1>13. OneQueue'
  BY <1>2, <1>3, <1>5, <1>11, PagesAre DEF OneQueue
<1>14. NoLeak'
  <2>. SUFFICES ASSUME NEW c \in Stack \cup {b}
                PROVE  \/ c = rxm \/ c = reply
                       \/ \E r \in Proc : c = hand'[r] \/ c = fd[r]
                       \/ \E s \in Mbuf : \E i \in Nat : InQueue(c, s, i)'
    BY <1>2, <1>3 DEF NoLeak
  <2>1. c \in Mbuf /\ c # None
    BY RxmIs
  <2>. QED
    BY <1>5, <1>9, <1>11, <2>1, PagesAre
<1>15. Next
  BY <1>1 DEF Next
<1>. QED
  BY <1>4, <1>6, <1>8, <1>10, <1>12, <1>13, <1>14, <1>15 DEF Pages

\* net_tx_arp() takes one, or there is none.
LEMMA StepArp ==
    ASSUME NetInv, net_tx_arp
    PROVE  [Next]_vars /\ StackInv'
<1>. USE DEF NetInv, StackInv, sockvars, procvars
<1>1. /\ intr = "net_rx" /\ IsRequest(InHand) /\ reply = "no"
      /\ UNCHANGED <<sockets, rxq, fd, pc, hand, killed, frames>>
  BY DEF net_tx_arp
<1>2. Opened' = Opened /\ InList' = InList
  BY <1>1 DEF Opened, InList, Listed
<1>3. SockInv' /\ HandInv' /\ WakeInv'
  BY <1>1, <1>2 DEF SockInv, HandInv, WakeInv
<1>4. \A c, s \in Mbuf : \A i \in Nat : InQueue(c, s, i)' <=> InQueue(c, s, i)
  BY <1>1, <1>2 DEF InQueue
<1>5. "no" \notin Mbuf /\ "sent" \notin Mbuf
  BY NetAssumption
<1>6. CASE reply' = "sent" /\ UNCHANGED vars
  <2>1. NetTypeOK'
    BY <1>1, <1>6 DEF NetTypeOK
  <2>2. FrameInv' /\ InHand' = InHand /\ intr' = intr
    BY <1>1, <1>6, FrameKept, UnchangedRings
  <2>3. ReplyInv'
    BY <1>1, <2>2 DEF ReplyInv, IsRequest
  <2>4. Stack' = Stack /\ rxm' = rxm
    BY <1>6, UnchangedRings
  <2>5. \A c \in Stack : c # reply /\ c # reply' /\ c \in Mbuf
    BY <1>1, <1>5, <1>6, RxmIs
  <2>6. OneHolder'
    BY <1>1, <1>5, <1>6, <2>4, <2>5, PagesAre DEF OneHolder
  <2>7. OneQueue'
    BY <1>1, <1>4, <1>5, <1>6, <2>4, <2>5, PagesAre DEF OneQueue
  <2>8. NoLeak'
    BY <1>1, <1>4, <2>4, <2>5, PagesAre DEF NoLeak
  <2>. QED
    BY <1>3, <1>6, <2>1, <2>2, <2>3, <2>6, <2>7, <2>8 DEF Pages
<1>7. ASSUME NEW b \in Mbuf, mbufalloc(b), reply' = b
      PROVE  Next /\ StackInv'
  <2>1. b \notin Stack /\ b # rxm /\ Stack' = Stack \cup {b} /\ RxSame /\ rxm' = rxm /\ intr' = intr
    BY <1>7, AllocEffect DEF RxSame
  <2>2. NetTypeOK'
    BY <1>1, <1>7 DEF NetTypeOK
  <2>3. FrameInv' /\ InHand' = InHand
    BY <1>1, <2>1, FrameKept
  <2>4. ReplyInv'
    BY <1>1, <2>1, <2>3 DEF ReplyInv, IsRequest
  <2>5. \A c \in Stack : c # reply /\ c # reply' /\ c \in Mbuf
    BY <1>1, <1>5, <1>7, <2>1, RxmIs
  <2>6. OneHolder'
    BY <1>1, <1>5, <1>7, <2>1, <2>5, PagesAre DEF OneHolder
  <2>7. OneQueue'
    BY <1>1, <1>4, <1>5, <1>7, <2>1, <2>5, PagesAre DEF OneQueue
  <2>8. NoLeak'
    <3>. SUFFICES ASSUME NEW c \in Stack \cup {b}
                  PROVE  \/ c = rxm \/ c = b
                         \/ \E r \in Proc : c = hand[r] \/ c = fd[r]
                         \/ \E s \in Mbuf : \E i \in Nat : InQueue(c, s, i)'
      BY <1>1, <1>7, <2>1 DEF NoLeak
    <3>1. CASE c \in Stack
      BY <1>4, <2>5, <3>1, PagesAre
    <3>. QED
      BY <3>1
  <2>9. Next
    BY <1>7 DEF Next
  <2>. QED
    BY <1>3, <2>2, <2>3, <2>4, <2>6, <2>7, <2>8, <2>9 DEF Pages
<1>. QED
  BY <1>6, <1>7 DEF net_tx_arp

\* sockalloc() takes a page for the socket, and an empty queue with it.
LEMMA StepSocket ==
    ASSUME NetInv, NEW p \in Proc, NEW t \in Triple, sockalloc(p, t)
    PROVE  [Next]_vars /\ StackInv'
<1>. USE DEF NetInv, StackInv
<1>1. PICK b \in Mbuf : /\ mbufalloc(b) /\ rxq' = [rxq EXCEPT ![b] = <<>>]
                        /\ fd' = [fd EXCEPT ![p] = b]
  BY DEF sockalloc
<1>2. /\ pc[p] = "user" /\ fd[p] = None /\ pc' = [pc EXCEPT ![p] = "list"]
      /\ UNCHANGED <<sockets, hand, killed, reply, frames>>
  BY DEF sockalloc, Go
<1>3. b \notin Stack /\ b # rxm /\ Stack' = Stack \cup {b} /\ RxSame /\ rxm' = rxm
  BY <1>1, AllocEffect DEF RxSame
<1>4. FrameInv' /\ ReplyInv'
  BY <1>2, <1>3, FrameKept
<1>5. \A r \in Proc : /\ pc'[r] = IF r = p THEN "list" ELSE pc[r]
                      /\ fd'[r] = IF r = p THEN b ELSE fd[r]
  BY <1>1, <1>2 DEF NetTypeOK
<1>6. \A s \in Mbuf : rxq'[s] = IF s = b THEN <<>> ELSE rxq[s]
  BY <1>1 DEF NetTypeOK
<1>7. NetTypeOK'
  <2>1. <<>> \in Seq([m : Mbuf, len : Int])
    OBVIOUS
  <2>2. rxq' \in [Mbuf -> Seq([m : Mbuf, len : Int])]
    BY <1>1, <2>1 DEF NetTypeOK
  <2>. QED
    BY <1>1, <1>2, <2>2 DEF NetTypeOK, NetPCs
<1>8. \A r \in Proc : fd[r] # b
  BY <1>3, RxmIs, PagesAre DEF OneHolder
<1>9. Opened' = Opened \cup {b} /\ b \notin Opened /\ b # None
  BY <1>2, <1>5, <1>8, RxmIs DEF Opened
<1>10. InList' = InList /\ b \notin InList
  <2>1. InList' = InList
    BY <1>2 DEF InList, Listed
  <2>2. InList \subseteq Opened
    BY DEF InList, Listed, SockInv
  <2>. QED
    BY <1>9, <2>1, <2>2
<1>11. SockInv'
  <2>1. \A i \in DOMAIN sockets' : sockets'[i] \in Opened'
    BY <1>2, <1>9 DEF SockInv
  <2>2. \A r \in Proc : pc'[r] # "user" => fd'[r] # None
    BY <1>5, <1>9 DEF SockInv
  <2>3. \A r \in Proc : pc'[r] \in {"list", "drain"} => fd'[r] \notin InList'
    BY <1>5, <1>10 DEF SockInv
  <2>4. \A r \in Proc : pc'[r] \in {"list", "unlist", "drain"} => \A q \in Proc : fd'[q] = fd'[r] => q = r
    BY <1>5, <1>8 DEF SockInv
  <2>. QED
    BY <1>2, <2>1, <2>2, <2>3, <2>4 DEF SockInv
<1>12. HandInv'
  BY <1>2, <1>5 DEF HandInv
<1>13. WakeInv'
  <2>1. \A r \in Proc : pc'[r] \in {"sleep", "asleep"} =>
            fd'[r] = fd[r] /\ fd[r] \in Mbuf /\ fd[r] # b /\ rxq[fd[r]] = <<>>
    BY <1>5, <1>8 DEF WakeInv, SockInv, NetTypeOK
  <2>. QED
    BY <1>6, <2>1 DEF WakeInv
<1>14. \A c, s \in Mbuf : \A i \in Nat : InQueue(c, s, i)' <=> InQueue(c, s, i)
  <2>. SUFFICES ASSUME NEW c \in Mbuf, NEW s \in Mbuf, NEW i \in Nat
                PROVE  InQueue(c, s, i)' <=> InQueue(c, s, i)
    OBVIOUS
  <2>1. CASE s = b
    <3>1. DOMAIN rxq'[s] = {}
      BY <1>6, <2>1
    <3>. QED
      BY <1>9, <2>1, <3>1 DEF InQueue
  <2>2. CASE s # b
    BY <1>6, <1>9, <2>2 DEF InQueue
  <2>. QED
    BY <2>1, <2>2
<1>15. OneHolder'
  BY <1>2, <1>3, <1>5, <1>9, PagesAre DEF OneHolder
<1>16. OneQueue'
  BY <1>2, <1>3, <1>5, <1>14, PagesAre DEF OneQueue
<1>17. NoLeak'
  <2>. SUFFICES ASSUME NEW c \in Stack \cup {b}
                PROVE  \/ c = rxm \/ c = reply
                       \/ \E r \in Proc : c = hand[r] \/ c = fd'[r]
                       \/ \E s \in Mbuf : \E i \in Nat : InQueue(c, s, i)'
    BY <1>2, <1>3 DEF NoLeak
  <2>1. c \in Mbuf /\ c # None
    BY RxmIs
  <2>. QED
    BY <1>2, <1>5, <1>14, <2>1, PagesAre
<1>18. Next
  BY <1>1 DEF Next
<1>. QED
  BY <1>4, <1>7, <1>11, <1>12, <1>13, <1>15, <1>16, <1>17, <1>18 DEF Pages

\* The end of sockread() and of sockwrite(): the mbuf in hand goes.
LEMMA StepDone ==
    ASSUME NetInv, NEW p \in Proc, sockread_copyout(p) \/ sockwrite_copyin(p)
    PROVE  [Next]_vars /\ StackInv'
<1>. USE DEF NetInv, StackInv, sockvars
<1>. DEFINE b == hand[p]
<1>1. /\ pc[p] \in {"copyout", "copyin"} /\ pc' = [pc EXCEPT ![p] = "user"]
      /\ hand' = [hand EXCEPT ![p] = None]
      /\ UNCHANGED <<sockets, rxq, fd, killed, reply, frames>>
      /\ mbuffree(b) \/ e1000_transmit(b)
  BY DEF sockread_copyout, sockwrite_copyin, Go
<1>2. b # None /\ b \in Stack /\ b # rxm
  BY <1>1, PagesAre DEF HandInv, OneHolder
<1>3. Stack' = Stack \ {b} /\ RxSame /\ b \in StackPages /\ rxm' = rxm
  <2>. HIDE DEF b
  <2>. QED  BY <1>1, <1>2, FreeEffect, TransmitEffect DEF RxSame
<1>4. Next
  BY <1>1, <1>3 DEF Next
<1>5. FrameInv' /\ ReplyInv'
  BY <1>1, <1>3, FrameKept
<1>6. \A r \in Proc : /\ pc'[r] = IF r = p THEN "user" ELSE pc[r]
                      /\ hand'[r] = IF r = p THEN None ELSE hand[r]
  BY <1>1 DEF NetTypeOK
<1>7. NetTypeOK'
  BY <1>1 DEF NetTypeOK, NetPCs
<1>8. Opened' = Opened /\ InList' = InList
  BY <1>1 DEF Opened, InList, Listed
<1>9. SockInv' /\ HandInv' /\ WakeInv'
  BY <1>1, <1>6, <1>8 DEF SockInv, HandInv, WakeInv
<1>10. \A c, s \in Mbuf : \A i \in Nat : InQueue(c, s, i)' <=> InQueue(c, s, i)
  BY <1>1, <1>8 DEF InQueue
<1>11. \A r \in Proc : r # p => hand[r] # b
  BY <1>2, PagesAre DEF OneHolder
<1>12. \A r \in Proc : fd[r] # b
  BY <1>2, PagesAre DEF OneHolder
<1>13. reply # b
  BY <1>2, PagesAre DEF OneHolder
<1>14. OneHolder'
  <2>. HIDE DEF b
  <2>. QED  BY <1>1, <1>2, <1>3, <1>6, <1>11, <1>12, <1>13, PagesAre, RxmIs DEF OneHolder
<1>15. OneQueue'
  <2>. SUFFICES ASSUME NEW c \in Mbuf, NEW s \in Mbuf, NEW i \in Nat, InQueue(c, s, i)
                PROVE  /\ c \in Stack \ {b} /\ c \notin {rxm, reply}
                       /\ \A r \in Proc : c # hand'[r] /\ c # fd[r]
                       /\ \A t \in Mbuf : \A j \in Nat : InQueue(c, t, j) => t = s /\ j = i
    BY <1>1, <1>3, <1>10 DEF OneQueue
  <2>1. c # None
    BY RxmIs
  <2>. QED
    BY <1>6, <2>1, PagesAre
<1>16. NoLeak'
  <2>. SUFFICES ASSUME NEW c \in Stack \ {b}
                PROVE  \/ c = rxm \/ c = reply
                       \/ \E r \in Proc : c = hand'[r] \/ c = fd[r]
                       \/ \E s \in Mbuf : \E i \in Nat : InQueue(c, s, i)'
    BY <1>1, <1>3 DEF NoLeak
  <2>1. c \in Mbuf
    BY RxmIs
  <2>. QED
    BY <1>6, <1>10, <2>1, PagesAre
<1>. QED
  BY <1>4, <1>5, <1>7, <1>9, <1>14, <1>15, <1>16 DEF Pages

\* The answer to an ARP request goes to the driver.
LEMMA StepArpEth ==
    ASSUME NetInv, net_tx_arp_eth
    PROVE  [Next]_vars /\ StackInv'
<1>. USE DEF NetInv, StackInv, sockvars, procvars
<1>. DEFINE b == reply
<1>1. /\ b \in Mbuf /\ reply' = "sent" /\ e1000_transmit(b)
      /\ UNCHANGED <<sockets, rxq, fd, pc, hand, killed, frames>>
  BY DEF net_tx_arp_eth
<1>2. b \in Stack /\ b # rxm
  BY <1>1, PagesAre DEF OneHolder
<1>3. Stack' = Stack \ {b} /\ RxSame /\ b \in StackPages /\ rxm' = rxm /\ intr' = intr
  <2>. HIDE DEF b
  <2>. QED  BY <1>1, <1>2, TransmitEffect DEF RxSame
<1>4. Next
  BY <1>1, <1>3 DEF Next
<1>5. "no" \notin Mbuf /\ "sent" \notin Mbuf
  BY NetAssumption
<1>6. intr = "net_rx" /\ IsRequest(InHand)
  BY <1>1, <1>5 DEF ReplyInv
<1>7. FrameInv' /\ InHand' = InHand
  BY <1>1, <1>3, <1>6, FrameKept
<1>8. ReplyInv'
  BY <1>3, <1>6, <1>7 DEF ReplyInv, IsRequest
<1>9. NetTypeOK'
  BY <1>1 DEF NetTypeOK
<1>10. Opened' = Opened /\ InList' = InList
  BY <1>1 DEF Opened, InList, Listed
<1>11. SockInv' /\ HandInv' /\ WakeInv'
  BY <1>1, <1>10 DEF SockInv, HandInv, WakeInv
<1>12. \A c, s \in Mbuf : \A i \in Nat : InQueue(c, s, i)' <=> InQueue(c, s, i)
  BY <1>1, <1>10 DEF InQueue
<1>13. \A c \in Stack : c # "sent"
  BY <1>5, RxmIs
<1>14. OneHolder'
  BY <1>1, <1>3, <1>5, <1>13, PagesAre DEF OneHolder
<1>15. OneQueue'
  BY <1>1, <1>3, <1>12, <1>13, PagesAre DEF OneQueue
<1>16. NoLeak'
  <2>. SUFFICES ASSUME NEW c \in Stack \ {b}
                PROVE  \/ c = rxm \/ \E r \in Proc : c = hand[r] \/ c = fd[r]
                       \/ \E s \in Mbuf : \E i \in Nat : InQueue(c, s, i)'
    BY <1>1, <1>3 DEF NoLeak
  <2>1. c \in Mbuf
    BY RxmIs
  <2>. QED
    BY <1>12, <2>1, PagesAre
<1>. QED
  BY <1>4, <1>7, <1>8, <1>9, <1>11, <1>14, <1>15, <1>16 DEF Pages

\* sockclose(): an mbuf that waits, or at last the socket.
LEMMA StepDrain ==
    ASSUME NetInv, NEW p \in Proc, sockclose_drain(p)
    PROVE  [Next]_vars /\ StackInv'
<1>. USE DEF NetInv, StackInv
<1>. DEFINE s == fd[p]
            q == rxq[s]
<1>1. pc[p] = "drain" /\ UNCHANGED <<sockets, hand, killed, reply, frames>>
  BY DEF sockclose_drain
<1>2. s # None /\ s \in Mbuf /\ s \in Opened /\ s \notin InList
  BY <1>1 DEF SockInv, NetTypeOK, Opened
<1>3. \A r \in Proc : fd[r] = s => r = p
  BY <1>1 DEF SockInv
<1>4. CASE q # <<>>
  <2>. DEFINE h == q[1].m
  <2>1. mbuffree(h) /\ rxq' = [rxq EXCEPT ![s] = mbufq_pophead(q)] /\ UNCHANGED <<fd, pc>>
    <3>1. Head(q) = q[1]
      BY <1>2, <1>4 DEF NetTypeOK
    <3>. QED
      BY <1>4, <3>1 DEF sockclose_drain, mbufq_empty
  <2>2. Opened' = Opened /\ InList' = InList
    BY <1>1, <2>1 DEF Opened, InList, Listed
  <2>3. rxq' \in [Mbuf -> Seq([m : Mbuf, len : Int])]
    BY <1>2, <1>4, <2>1, <2>2, PopQueue
  <2>4. /\ h \in Stack /\ h \notin {rxm, reply}
        /\ \A r \in Proc : h # hand[r] /\ h # fd[r]
        /\ \A b, t \in Mbuf : \A i \in Nat : InQueue(b, t, i)' =>
              /\ b # h
              /\ \E k \in Nat : InQueue(b, t, k)
              /\ \A u \in Mbuf : \A j \in Nat : InQueue(b, u, j)' => u = t /\ j = i
        /\ \A b, t \in Mbuf : \A i \in Nat : InQueue(b, t, i) /\ b # h =>
              \E j \in Nat : InQueue(b, t, j)'
    BY <1>2, <1>4, <2>1, <2>2, PopPages
  <2>. HIDE DEF h
  <2>5. Stack' = Stack \ {h} /\ RxSame /\ h \in StackPages /\ rxm' = rxm
    BY <2>1, <2>4, FreeEffect DEF RxSame
  <2>6. Next
    BY <2>1, <2>5 DEF Next
  <2>7. FrameInv' /\ ReplyInv'
    BY <1>1, <2>5, FrameKept
  <2>8. NetTypeOK' /\ SockInv' /\ HandInv'
    BY <1>1, <2>1, <2>2, <2>3 DEF NetTypeOK, SockInv, HandInv
  <2>9. WakeInv'
    <3>1. \A r \in Proc : pc[r] \in {"sleep", "asleep"} => fd[r] # s /\ fd[r] \in Mbuf
      BY <1>1, <1>3 DEF SockInv, NetTypeOK
    <3>2. \A t \in Mbuf : t # s => rxq'[t] = rxq[t]
      BY <2>1 DEF NetTypeOK
    <3>. QED
      BY <2>1, <3>1, <3>2 DEF WakeInv
  <2>10. OneHolder'
    BY <1>1, <2>1, <2>4, <2>5, PagesAre DEF OneHolder
  <2>11. OneQueue'
    <3>. SUFFICES ASSUME NEW b \in Mbuf, NEW t \in Mbuf, NEW i \in Nat, InQueue(b, t, i)'
                  PROVE  /\ b \in Stack \ {h} /\ b \notin {rxm, reply}
                         /\ \A r \in Proc : b # hand[r] /\ b # fd[r]
                         /\ \A u \in Mbuf : \A j \in Nat : InQueue(b, u, j)' => u = t /\ j = i
      BY <1>1, <2>1, <2>5 DEF OneQueue
    <3>1. PICK k \in Nat : InQueue(b, t, k)
      BY <2>4
    <3>2. b \in Stack /\ b \notin {rxm, reply} /\ \A r \in Proc : b # hand[r] /\ b # fd[r]
      BY <3>1, PagesAre
    <3>. QED
      BY <2>4, <3>2
  <2>12. NoLeak'
    <3>. SUFFICES ASSUME NEW b \in Stack \ {h}
                  PROVE  \/ b = rxm \/ b = reply
                         \/ \E r \in Proc : b = hand[r] \/ b = fd[r]
                         \/ \E t \in Mbuf : \E i \in Nat : InQueue(b, t, i)'
      BY <1>1, <2>1, <2>5 DEF NoLeak
    <3>1. b \in Mbuf
      BY RxmIs
    <3>. QED
      BY <2>4, <3>1, PagesAre
  <2>. QED
    BY <2>6, <2>7, <2>8, <2>9, <2>10, <2>11, <2>12 DEF Pages
<1>5. CASE q = <<>>
  <2>1. /\ mbuffree(s) /\ fd' = [fd EXCEPT ![p] = None] /\ pc' = [pc EXCEPT ![p] = "user"]
        /\ UNCHANGED rxq
    BY <1>5 DEF sockclose_drain, mbufq_empty, Go
  <2>2. s \in Stack /\ s \notin {rxm, reply} /\ \A r \in Proc : hand[r] # s
    BY <1>2, PagesAre DEF OneHolder
  <2>3. Stack' = Stack \ {s} /\ RxSame /\ s \in StackPages /\ rxm' = rxm
    <3>. HIDE DEF s
    <3>. QED  BY <2>1, <2>2, FreeEffect DEF RxSame
  <2>4. Next
    BY <2>1, <2>3 DEF Next
  <2>5. FrameInv' /\ ReplyInv'
    BY <1>1, <2>3, FrameKept
  <2>6. \A r \in Proc : /\ pc'[r] = IF r = p THEN "user" ELSE pc[r]
                        /\ fd'[r] = IF r = p THEN None ELSE fd[r]
    BY <2>1 DEF NetTypeOK
  <2>7. NetTypeOK'
    BY <1>1, <2>1 DEF NetTypeOK, NetPCs
  <2>8. Opened' = Opened \ {s} /\ InList' = InList
    <3>1. InList' = InList
      BY <1>1 DEF InList, Listed
    <3>2. \A t \in Mbuf : t \in Opened' <=> t \in Opened /\ t # s
      <4>. HIDE DEF s
      <4>. QED  BY <1>3, <2>6, RxmIs DEF Opened, s
    <3>. QED
      BY <3>1, <3>2 DEF Opened
  <2>9. SockInv'
    <3>1. \A i \in DOMAIN sockets' : sockets'[i] \in Opened'
      <4>1. \A i \in DOMAIN sockets : sockets[i] \in Opened /\ sockets[i] # s
        BY <1>2 DEF SockInv, InList, Listed
      <4>. QED
        BY <1>1, <2>8, <4>1
    <3>2. \A r \in Proc : pc'[r] # "user" => fd'[r] # None
      BY <2>6 DEF SockInv
    <3>3. \A r \in Proc : pc'[r] \in {"list", "drain"} => fd'[r] \notin InList'
      BY <2>6, <2>8 DEF SockInv
    <3>4. \A r \in Proc : pc'[r] \in {"list", "unlist", "drain"} => \A t \in Proc : fd'[t] = fd'[r] => t = r
      <4>1. \A r \in Proc : pc'[r] \in {"list", "unlist", "drain"} =>
                r # p /\ fd'[r] = fd[r] /\ fd[r] # None /\ \A t \in Proc : fd[t] = fd[r] => t = r
        BY <2>6 DEF SockInv
      <4>. QED
        BY <2>6, <4>1
    <3>. QED
      BY <1>1, <3>1, <3>2, <3>3, <3>4 DEF SockInv
  <2>10. HandInv'
    BY <1>1, <2>6 DEF HandInv
  <2>11. WakeInv'
    <3>1. \A r \in Proc : pc'[r] \in {"sleep", "asleep"} => fd'[r] = fd[r] /\ pc'[r] = pc[r]
      BY <2>6
    <3>. QED
      BY <2>1, <3>1 DEF WakeInv
  <2>12. \A b, t \in Mbuf : \A i \in Nat : InQueue(b, t, i)' <=> InQueue(b, t, i)
    <3>. SUFFICES ASSUME NEW b \in Mbuf, NEW t \in Mbuf, NEW i \in Nat
                  PROVE  InQueue(b, t, i)' <=> InQueue(b, t, i)
      OBVIOUS
    <3>1. CASE t = s
      <4>1. ~InQueue(b, s, i)
        <5>1. DOMAIN q = {}
          BY <1>5
        <5>. QED
          BY <5>1 DEF InQueue
      <4>2. t \notin Opened'
        BY <2>8, <3>1
      <4>. QED
        BY <3>1, <4>1, <4>2 DEF InQueue
    <3>2. CASE t # s
      BY <2>1, <2>8, <3>2 DEF InQueue
    <3>. QED
      BY <3>1, <3>2
  <2>13. OneHolder'
    BY <1>1, <1>2, <1>3, <2>2, <2>3, <2>6, PagesAre DEF OneHolder
  <2>14. OneQueue'
    <3>. SUFFICES ASSUME NEW b \in Mbuf, NEW t \in Mbuf, NEW i \in Nat, InQueue(b, t, i)
                  PROVE  /\ b \in Stack \ {s} /\ b \notin {rxm, reply}
                         /\ \A r \in Proc : b # hand[r] /\ b # fd'[r]
                         /\ \A u \in Mbuf : \A j \in Nat : InQueue(b, u, j) => u = t /\ j = i
      BY <1>1, <2>3, <2>12 DEF OneQueue
    <3>1. b # None
      BY RxmIs
    <3>. QED
      BY <2>6, <3>1, PagesAre
  <2>15. NoLeak'
    <3>. SUFFICES ASSUME NEW b \in Stack \ {s}
                  PROVE  \/ b = rxm \/ b = reply
                         \/ \E r \in Proc : b = hand[r] \/ b = fd'[r]
                         \/ \E t \in Mbuf : \E i \in Nat : InQueue(b, t, i)'
      BY <1>1, <2>3 DEF NoLeak
    <3>1. b \in Mbuf
      BY RxmIs
    <3>. QED
      BY <2>6, <2>12, <3>1, PagesAre
  <2>. QED
    BY <2>4, <2>5, <2>7, <2>9, <2>10, <2>11, <2>13, <2>14, <2>15 DEF Pages
<1>. QED
  BY <1>4, <1>5

\* net_rx() never takes a datagram for an ARP request, and what it queues is
\* a number of bytes.
LEMMA DatagramIs ==
    ASSUME NEW f \in Frame
    PROVE  /\ net_rx(f) # Drop => f.type = "ip" /\ ~IsRequest(f)
           /\ net_rx(f) \in Int
<1>1. /\ W \in Nat \ {0} /\ f.ip_len \in Int /\ f.len \in Int
  BY NetAssumption
<1>2. net_rx(f) # Drop => f.type = "ip"
  BY DEF net_rx
<1>3. \A len \in Int : (len - UDP) % W \in Int
  BY <1>1 DEF UDP
<1>4. \A m, len \in Int : net_rx_udp(f, m, len) \in Int
  BY <1>3 DEF net_rx_udp, Drop
<1>5. (f.ip_len - IP) % W \in Int
  BY <1>1 DEF IP
<1>6. \A m \in Int : net_rx_ip(f, m) \in Int
  <2>1. \A m \in Int : m - IP \in Int
    BY DEF IP
  <2>. QED
    BY <1>4, <1>5, <2>1 DEF net_rx_ip, Drop
<1>7. net_rx(f) \in Int
  <2>1. f.len - ETH \in Int
    BY <1>1 DEF ETH
  <2>. QED
    BY <1>6, <2>1 DEF net_rx, Drop
<1>. QED
  BY <1>2, <1>7 DEF IsRequest

\* The frame net_rx() works on has arrived.
LEMMA InHandIs ==
    ASSUME NetInv, intr = "net_rx"
    PROVE  InHand \in Frame /\ rxm \in Stack /\ rxm \in Mbuf
<1>1. rxm \in Stack /\ rxm \in Mbuf
  BY RxmIs DEF NetInv
<1>2. Len(delivered) \in Nat /\ Len(delivered) <= Len(arrived) /\ Len(arrived) \in Nat
  BY RxCounts DEF NetInv, RingsInv, RxInv
<1>3. Len(delivered) >= 1
  <2>1. Away
    BY DEF Away
  <2>2. Refilled = Len(delivered) - 1 /\ Refilled \in Nat
    BY <2>1, RxCounts DEF NetInv, RingsInv, Refilled
  <2>. QED
    BY <1>2, <2>2
<1>4. /\ frames \in Seq(Frame) /\ Len(frames) = Len(arrived) /\ data[rxm] = Len(delivered)
  BY DEF NetInv, StackInv, FrameInv
<1>5. data[rxm] \in 1 .. Len(frames)
  BY <1>2, <1>3, <1>4
<1>. QED
  BY <1>1, <1>4, <1>5 DEF InHand

\* net_rx() frees the mbuf.
LEMMA StepDrop ==
    ASSUME NetInv, net_rx_drop
    PROVE  [Next]_vars /\ StackInv'
<1>. USE DEF NetInv, StackInv, sockvars, procvars
<1>1. /\ intr = "net_rx" /\ ~panicked /\ owner' = [owner EXCEPT ![rxm] = "free"]
      /\ data' = [data EXCEPT ![rxm] = 0] /\ intr' = "refill" /\ rxm' = None /\ reply' = "no"
      /\ UNCHANGED <<arrived, delivered>>
      /\ UNCHANGED <<sockets, rxq, fd, pc, hand, killed, frames>>
  BY DEF net_rx_drop, Return
<1>2. net_rx_return
  BY DEF net_rx_drop, net_rx_return, Return
<1>3. InHand \in Frame /\ rxm \in Stack /\ rxm \in Mbuf
  BY <1>1, InHandIs
<1>4. reply \notin Mbuf
  <2>1. reply = "no" \/ reply = "sent"
    BY <1>3, DatagramIs DEF net_rx_drop, ReplyInv
  <2>. QED
    BY <2>1, NetAssumption
<1>5. Stack' = Stack \ {rxm}
  <2>1. \A c \in Mbuf : owner'[c] = IF c = rxm THEN "free" ELSE owner[c]
    BY <1>1, <1>3 DEF RingsInv, TypeOK
  <2>. QED
    BY <2>1 DEF Stack
<1>6. NetTypeOK' /\ FrameInv' /\ ReplyInv'
  BY <1>1 DEF NetTypeOK, FrameInv, ReplyInv
<1>7. Opened' = Opened /\ InList' = InList
  BY <1>1 DEF Opened, InList, Listed
<1>8. SockInv' /\ HandInv' /\ WakeInv'
  BY <1>1, <1>7 DEF SockInv, HandInv, WakeInv
<1>9. \A c, s \in Mbuf : \A i \in Nat : InQueue(c, s, i)' <=> InQueue(c, s, i)
  BY <1>1, <1>7 DEF InQueue
<1>10. "no" \notin Mbuf /\ None \notin Mbuf /\ Stack \subseteq Mbuf
  BY NetAssumption, RxmIs
<1>11. OneHolder'
  BY <1>1, <1>5, <1>10, PagesAre DEF OneHolder
<1>12. OneQueue'
  BY <1>1, <1>5, <1>9, <1>10, PagesAre DEF OneQueue
<1>13. NoLeak'
  <2>. SUFFICES ASSUME NEW c \in Stack \ {rxm}
                PROVE  \/ \E r \in Proc : c = hand[r] \/ c = fd[r]
                       \/ \E s \in Mbuf : \E i \in Nat : InQueue(c, s, i)'
    BY <1>1, <1>5 DEF NoLeak
  <2>1. c \in Mbuf /\ c # reply
    BY <1>4, <1>10
  <2>. QED
    BY <1>9, <2>1, PagesAre
<1>14. Next
  BY <1>2 DEF Next
<1>. QED
  BY <1>6, <1>8, <1>11, <1>12, <1>13, <1>14 DEF Pages

\* sockrecvudp(): the mbuf goes to the end of a queue.
LEMMA StepDeliver ==
    ASSUME NetInv, net_rx_deliver
    PROVE  [Next]_vars /\ StackInv'
<1>. USE DEF NetInv, StackInv
<1>. DEFINE F == SocketFor(InHand.to)
            s == sockets[First(F)]
            n == net_rx(InHand)
            q == rxq[s]
            Rec == [m : Mbuf, len : Int]
            e == [m |-> rxm, len |-> n]
            k == Len(q) + 1
<1>1. /\ intr = "net_rx" /\ ~panicked /\ n # Drop /\ F # {}
      /\ intr' = "refill" /\ rxm' = None
      /\ UNCHANGED <<arrived, delivered, owner, data>>
      /\ UNCHANGED <<sockets, fd, hand, killed, reply, frames>>
  BY DEF net_rx_deliver, sockrecvudp, Return
<1>2. /\ \A p \in Proc : ~(pc[p] = "sleep" /\ fd[p] = s)
      /\ rxq' = [rxq EXCEPT ![s] = Append(q, e)]
      /\ pc' = [p \in Proc |-> IF pc[p] = "asleep" /\ fd[p] = s THEN "read" ELSE pc[p]]
  BY DEF net_rx_deliver, sockrecvudp, Locked, mbufq_pushtail
<1>3. net_rx_return
  BY DEF net_rx_deliver, sockrecvudp, net_rx_return, Return
<1>4. InHand \in Frame /\ rxm \in Stack /\ rxm \in Mbuf
  BY <1>1, InHandIs
<1>5. n \in Int /\ reply = "no"
  BY <1>1, <1>4, DatagramIs DEF ReplyInv
<1>6. s \in Opened /\ s \in Mbuf
  <2>1. F \in SUBSET Nat
    BY DEF SocketFor, NetTypeOK
  <2>2. First(F) \in DOMAIN sockets
    <3>1. First(F) \in F
      <4>. HIDE DEF F
      <4>. QED  BY <1>1, <2>1, FirstIs
    <3>. QED
      BY <3>1 DEF SocketFor
  <2>. QED
    BY <2>2 DEF SockInv, Opened
<1>. HIDE DEF s, n, F
<1>7. e \in Rec /\ rxq \in [Mbuf -> Seq(Rec)] /\ q \in Seq(Rec) /\ e.m = rxm
  BY <1>4, <1>5, <1>6 DEF NetTypeOK
<1>. HIDE DEF e, Rec
<1>8. /\ Append(q, e) \in Seq(Rec) /\ DOMAIN Append(q, e) = 1 .. k /\ DOMAIN q = 1 .. k - 1 /\ k \in Nat
      /\ Append(q, e)[k] = e /\ \A i \in 1 .. k - 1 : Append(q, e)[i] = q[i]
  <2>. HIDE DEF q
  <2>1. Len(q) \in Nat
    BY <1>7
  <2>. QED
    BY <1>7, <2>1, AppendProperties
<1>. HIDE DEF k
<1>9. rxq' \in [Mbuf -> Seq(Rec)]
  BY <1>2, <1>7, <1>8
<1>10. rxq'[s] = Append(q, e) /\ \A t \in Mbuf : t # s => rxq'[t] = rxq[t]
  BY <1>2, <1>6, <1>7
<1>11. Opened' = Opened /\ InList' = InList
  BY <1>1 DEF Opened, InList, Listed
<1>12. \A b, t \in Mbuf : \A i \in Nat :
          InQueue(b, t, i)' <=> InQueue(b, t, i) \/ (b = rxm /\ t = s /\ i = k)
  <2>. SUFFICES ASSUME NEW b \in Mbuf, NEW t \in Mbuf, NEW i \in Nat
                PROVE  InQueue(b, t, i)' <=> InQueue(b, t, i) \/ (b = rxm /\ t = s /\ i = k)
    OBVIOUS
  <2>1. CASE t # s
    BY <1>10, <1>11, <2>1 DEF InQueue
  <2>2. CASE t = s
    <3>1. InQueue(b, t, i)' <=> i \in 1 .. k /\ Append(q, e)[i].m = b
      BY <1>6, <1>8, <1>10, <1>11, <2>2 DEF InQueue
    <3>2. InQueue(b, t, i) <=> i \in 1 .. k - 1 /\ q[i].m = b
      BY <1>6, <1>8, <2>2 DEF InQueue
    <3>3. i \in 1 .. k <=> i \in 1 .. k - 1 \/ i = k
      <4>1. k > 0
        BY <1>7, <1>8 DEF k
      <4>. QED
        BY <1>8, <4>1
    <3>4. k \notin 1 .. k - 1
      BY <1>8
    <3>. QED
      BY <1>7, <1>8, <2>2, <3>1, <3>2, <3>3, <3>4
  <2>. QED
    BY <2>1, <2>2
<1>13. \A p \in Proc : pc'[p] = pc[p] \/ (pc[p] = "asleep" /\ pc'[p] = "read")
  BY <1>2
<1>14. NetTypeOK'
  <2>1. pc' \in [Proc -> NetPCs]
    BY <1>2 DEF NetTypeOK, NetPCs
  <2>. QED
    BY <1>1, <1>9, <2>1 DEF NetTypeOK, Rec
<1>15. FrameInv' /\ ReplyInv'
  BY <1>1, <1>5 DEF FrameInv, ReplyInv
<1>16. SockInv' /\ HandInv'
  <2>1. \A r \in Proc : pc'[r] # "user" => fd[r] # None
    BY <1>13 DEF SockInv
  <2>2. \A r \in Proc : pc'[r] \in {"list", "unlist", "drain", "copyout", "copyin"} => pc'[r] = pc[r]
    BY <1>13
  <2>3. \A r \in Proc : pc[r] \in {"list", "unlist", "drain", "copyout", "copyin"} => pc'[r] = pc[r]
    BY <1>13
  <2>4. SockInv'
    BY <1>1, <1>11, <2>1, <2>2 DEF SockInv
  <2>. QED
    BY <1>1, <2>2, <2>3, <2>4 DEF HandInv
<1>17. WakeInv'
  <2>1. \A r \in Proc : pc'[r] \in {"sleep", "asleep"} =>
            pc[r] = pc'[r] /\ fd[r] # s /\ fd[r] \in Mbuf /\ rxq[fd[r]] = <<>>
    BY <1>2 DEF WakeInv, SockInv, NetTypeOK
  <2>. QED
    BY <1>1, <1>10, <2>1 DEF WakeInv
<1>18. None \notin Mbuf /\ "no" \notin Mbuf /\ Stack \subseteq Mbuf /\ Stack' = Stack
  BY <1>1, NetAssumption, RxmIs DEF Stack
<1>19. OneHolder'
  BY <1>1, <1>5, <1>18, PagesAre DEF OneHolder
<1>20. OneQueue'
  <2>. SUFFICES ASSUME NEW b \in Mbuf, NEW t \in Mbuf, NEW i \in Nat, InQueue(b, t, i)'
                PROVE  /\ b \in Stack /\ b # None /\ b # reply
                       /\ \A p \in Proc : b # hand[p] /\ b # fd[p]
                       /\ \A u \in Mbuf : \A j \in Nat : InQueue(b, u, j)' => u = t /\ j = i
    BY <1>1, <1>18 DEF OneQueue
  <2>1. b # None /\ b # reply
    BY <1>5, <1>18
  <2>2. CASE b = rxm
    <3>1. \A p \in Proc : rxm # hand[p] /\ rxm # fd[p]
      BY <1>4, <1>18, PagesAre DEF OneHolder
    <3>2. \A u \in Mbuf : \A j \in Nat : ~InQueue(rxm, u, j)
      BY <1>4, PagesAre
    <3>. QED
      BY <1>4, <1>12, <2>1, <2>2, <3>1, <3>2
  <2>3. CASE b # rxm
    <3>1. \A u \in Mbuf : \A j \in Nat : InQueue(b, u, j)' <=> InQueue(b, u, j)
      BY <1>12, <2>3
    <3>. QED
      BY <2>1, <3>1, PagesAre
  <2>. QED
    BY <2>2, <2>3
<1>21. NoLeak'
  <2>. SUFFICES ASSUME NEW c \in Stack
                PROVE  \/ \E r \in Proc : c = hand[r] \/ c = fd[r]
                       \/ \E t \in Mbuf : \E i \in Nat : InQueue(c, t, i)'
    BY <1>1, <1>18 DEF NoLeak
  <2>1. c \in Mbuf /\ c # reply
    BY <1>5, <1>18
  <2>. QED
    BY <1>6, <1>8, <1>12, <2>1, PagesAre
<1>22. Next
  BY <1>3 DEF Next
<1>. QED
  BY <1>14, <1>15, <1>16, <1>17, <1>19, <1>20, <1>21, <1>22 DEF Pages

\* The driver and the card.
LEMMA StepDriver ==
    ASSUME NetInv, Driver \/ card_frame
    PROVE  [Next]_vars /\ StackInv'
<1>. USE DEF NetInv, StackInv, netvars, sockvars, procvars
<1>1. UNCHANGED <<sockets, rxq, fd, pc, hand, killed, reply>>
  BY DEF Driver, card_frame
<1>2. Opened' = Opened /\ InList' = InList
  BY <1>1 DEF Opened, InList, Listed
<1>3. NetTypeOK' /\ SockInv' /\ HandInv' /\ WakeInv'
  BY <1>1, <1>2 DEF NetTypeOK, SockInv, HandInv, WakeInv
<1>4. CASE e1000_recv
  <2>1. frames' = frames
    BY <1>4 DEF Driver, card_frame, card_receive, e1000_recv, tx
  <2>2. /\ intr = "idle" /\ rxm = None /\ arrived' = arrived
        /\ \/ intr' = "recvd" /\ rxm' = None /\ Stack' = Stack
           \/ /\ intr' = "net_rx" /\ rxm' \in Mbuf \ Stack /\ Stack' = Stack \cup {rxm'}
              /\ data'[rxm'] = Len(delivered')
    BY <1>4, RecvEffect
  <2>3. FrameInv' /\ ReplyInv'
    BY <1>1, <2>1, <2>2 DEF FrameInv, ReplyInv
  <2>4. \A b, t \in Mbuf : \A i \in Nat : InQueue(b, t, i)' <=> InQueue(b, t, i)
    BY <1>1, <1>2 DEF InQueue
  <2>5. \A c \in Stack : c # rxm' /\ c # None /\ c \in Mbuf
    BY <2>2, RxmIs
  <2>6. reply = "no" /\ "no" \notin Mbuf
    BY <2>2, NetAssumption DEF ReplyInv
  <2>7. OneHolder'
    BY <1>1, <2>2, <2>5, <2>6, PagesAre DEF OneHolder
  <2>8. OneQueue'
    BY <1>1, <2>2, <2>4, <2>5, PagesAre DEF OneQueue
  <2>9. NoLeak'
    BY <1>1, <2>2, <2>4, <2>5, PagesAre DEF NoLeak
  <2>. QED
    BY <1>3, <1>4, <2>3, <2>7, <2>8, <2>9 DEF Pages, Next
<1>5. CASE card_transmit \/ card_receive \/ e1000_recv_refill \/ e1000_intr
  <2>1. /\ Stack' = Stack /\ rxm' = rxm /\ delivered' = delivered
        /\ intr = "net_rx" <=> intr' = "net_rx"
        /\ rxm # None => data'[rxm] = data[rxm]
        /\ ~card_receive => arrived' = arrived
    BY <1>5, RestEffect
  <2>2. Pages'
    BY <1>1, <1>2, <2>1, PagesKept DEF NetTypeOK
  <2>3. intr = "net_rx" => data'[rxm] = data[rxm]
    BY <2>1, RxmIs
  <2>4. FrameInv' /\ (intr = "net_rx" => InHand' = InHand)
    <3>1. CASE frames' = frames /\ arrived' = arrived
      BY <2>1, <2>3, <3>1 DEF FrameInv, InHand
    <3>2. CASE card_frame
      <4>1. PICK f \in Frame : frames' = Append(frames, f)
        BY <3>2 DEF card_frame
      <4>2. arrived' = Append(arrived, Len(arrived) + 1) /\ arrived \in Seq(Nat) /\ Len(arrived) \in Nat
        BY <3>2 DEF card_frame, card_receive, RingsInv, TypeOK
      <4>3. frames \in Seq(Frame) /\ Len(frames) = Len(arrived)
        BY DEF FrameInv
      <4>4. Len(arrived') = Len(arrived) + 1
        BY <4>2, AppendProperties
      <4>5. /\ frames' \in Seq(Frame) /\ Len(frames') = Len(frames) + 1
            /\ \A i \in 1 .. Len(frames) : frames'[i] = frames[i]
        BY <4>1, <4>3, AppendProperties
      <4>6. FrameInv'
        BY <2>1, <2>3, <4>3, <4>4, <4>5 DEF FrameInv
      <4>7. ASSUME intr = "net_rx" PROVE InHand' = InHand
        <5>1. data[rxm] = Len(delivered) /\ Len(delivered) \in 1 .. Len(arrived)
          <6>1. Away
            BY <4>7 DEF Away
          <6>2. /\ Refilled = Len(delivered) - 1 /\ Refilled \in Nat
                /\ Len(delivered) \in Nat /\ Len(delivered) <= Len(arrived)
            BY <6>1, RxCounts DEF RingsInv, RxInv, Refilled
          <6>. QED
            BY <4>2, <4>7, <6>2 DEF FrameInv
        <5>. QED
          BY <2>1, <2>3, <4>3, <4>5, <4>7, <5>1 DEF InHand
      <4>. QED
        BY <4>6, <4>7
    <3>3. Driver => frames' = frames /\ arrived' = arrived
      BY <1>5, <2>1 DEF Driver, card_transmit, e1000_recv, e1000_recv_refill, e1000_intr, rx
    <3>. QED
      BY <3>1, <3>2, <3>3
  <2>5. ReplyInv'
    BY <1>1, <2>1, <2>4 DEF ReplyInv, IsRequest
  <2>. QED
    BY <1>3, <1>5, <2>2, <2>4, <2>5 DEF Next
<1>. QED
  BY <1>4, <1>5 DEF Driver, card_frame

-----------------------------------------------------------------------------
(***************************************************************************)
(* The stack on top of the rings.                                          *)
(***************************************************************************)

\* At the start nothing is the stack's.
LEMMA NetInitInv == NetInit => NetInv
<1>. SUFFICES ASSUME NetInit PROVE NetInv
  OBVIOUS
<1>1. RingsInv
  BY RingsInit DEF NetInit
<1>2. Stack = {} /\ rxm = None /\ intr = "idle" /\ arrived = <<>>
  BY DEF NetInit, Init, Stack
<1>3. NetTypeOK
  <2>1. <<>> \in Seq([m : Mbuf, len : Int]) /\ <<>> \in Seq(Mbuf)
    OBVIOUS
  <2>. QED
    BY <2>1 DEF NetInit, NetTypeOK, NetPCs
<1>4. FrameInv /\ ReplyInv
  BY <1>2 DEF NetInit, FrameInv, ReplyInv
<1>5. Opened = {} /\ DOMAIN sockets = {}
  BY RxmIs, <1>1 DEF NetInit, Opened
<1>6. SockInv /\ HandInv /\ WakeInv
  BY <1>5 DEF NetInit, SockInv, HandInv, WakeInv
<1>7. Pages
  BY <1>2, <1>5, NetAssumption DEF NetInit, Pages, OneHolder, OneQueue, InQueue, NoLeak
<1>. QED
  BY <1>1, <1>3, <1>4, <1>6, <1>7 DEF NetInv, StackInv

\* A step of NetNext.
LEMMA NetStep ==
    ASSUME TxLag < N, NetInv, [NetNext]_allvars
    PROVE  [Next]_vars /\ NetInv'
<1>1. CASE NetNext
  <2>1. ASSUME NEW p \in Proc,
               \/ \E t \in Triple : sockalloc(p, t)
               \/ \E q \in Proc : fork(p, q)
               \/ sockalloc_list(p)
               \/ sockread(p)
               \/ sleep(p)
               \/ sockread_copyout(p)
               \/ sockwrite(p)
               \/ sockwrite_copyin(p)
               \/ fileclose(p)
               \/ sockclose(p)
               \/ sockclose_drain(p)
               \/ kill(p)
        PROVE  [Next]_vars /\ StackInv'
    BY <2>1, StepSocket, StepFork, StepList, StepRead, StepSleep, StepDone, StepWrite,
       StepClose, StepUnlist, StepDrain, StepKill
  <2>2. [Next]_vars /\ StackInv'
    BY <1>1, <2>1, StepDriver, StepDeliver, StepDrop, StepArp, StepArpEth DEF NetNext
  <2>. QED
    BY <2>2, RingsNext DEF NetInv
<1>2. CASE UNCHANGED allvars
  <2>1. UNCHANGED vars /\ UNCHANGED <<sockets, rxq, fd, pc, hand, killed, reply, frames>>
    BY <1>2 DEF allvars, netvars, sockvars, procvars
  <2>2. RingsInv'
    BY <2>1, RingsNext DEF NetInv
  <2>3. FrameInv' /\ ReplyInv'
    BY <2>1, FrameKept, UnchangedRings DEF NetInv, StackInv
  <2>4. Opened' = Opened /\ InList' = InList
    BY <2>1 DEF Opened, InList, Listed
  <2>5. Pages'
    BY <2>1, <2>4, UnchangedRings, PagesKept DEF NetInv, StackInv, NetTypeOK
  <2>6. NetTypeOK' /\ SockInv' /\ HandInv' /\ WakeInv'
    BY <2>1, <2>4 DEF NetInv, StackInv, NetTypeOK, SockInv, HandInv, WakeInv
  <2>. QED
    BY <2>1, <2>2, <2>3, <2>5, <2>6 DEF NetInv, StackInv
<1>. QED
  BY <1>1, <1>2

\* Every place a page is in, and the page.
LEMMA PagesAccountedLemma == NetInv => PagesAccounted
<1>. SUFFICES ASSUME NetInv
              PROVE  /\ \A h, g \in Held : h[Len(h)] = g[Len(g)] => h = g
                     /\ {b \in Mbuf : owner[b] = "stack"} = {h[Len(h)] : h \in Held}
  BY DEF PagesAccounted
<1>. USE DEF NetInv, StackInv
<1>. DEFINE Kind(h, b) ==
              \/ h = <<"rx", rxm>> /\ b = rxm /\ intr = "net_rx"
              \/ h = <<"arp", reply>> /\ b = reply /\ reply \in Mbuf
              \/ \E p \in Proc : hand[p] # None /\ h = <<p, hand[p]>> /\ b = hand[p]
              \/ \E p \in Proc : fd[p] # None /\ h = <<"sock", fd[p]>> /\ b = fd[p]
              \/ \E s \in Mbuf : \E i \in Nat : InQueue(b, s, i) /\ h = <<s, i, b>>
<1>1. ASSUME NEW h \in Held PROVE h[Len(h)] \in Mbuf /\ Kind(h, h[Len(h)])
  <2>1. CASE h = <<"rx", rxm>> /\ intr = "net_rx"
    <3>1. h[Len(h)] = rxm
      BY <2>1
    <3>. QED
      BY <2>1, <3>1, InHandIs
  <2>2. CASE h = <<"arp", reply>> /\ reply \in Mbuf
    <3>1. h[Len(h)] = reply
      BY <2>2
    <3>. QED
      BY <2>2, <3>1
  <2>3. ASSUME NEW p \in Proc, hand[p] # None, h = <<p, hand[p]>>
        PROVE  h[Len(h)] \in Mbuf /\ Kind(h, h[Len(h)])
    <3>1. h[Len(h)] = hand[p] /\ hand[p] \in Mbuf
      BY <2>3 DEF NetTypeOK
    <3>. QED
      BY <2>3, <3>1
  <2>4. ASSUME NEW p \in Proc, fd[p] # None, h = <<"sock", fd[p]>>
        PROVE  h[Len(h)] \in Mbuf /\ Kind(h, h[Len(h)])
    <3>1. h[Len(h)] = fd[p] /\ fd[p] \in Mbuf
      BY <2>4 DEF NetTypeOK
    <3>. QED
      BY <2>4, <3>1
  <2>5. ASSUME NEW s \in {fd[p] : p \in Proc} \ {None}, NEW i \in DOMAIN rxq[s],
               h = <<s, i, rxq[s][i].m>>
        PROVE  h[Len(h)] \in Mbuf /\ Kind(h, h[Len(h)])
    <3>1. s \in Opened /\ s \in Mbuf
      BY DEF Opened, NetTypeOK
    <3>2. i \in Nat /\ rxq[s][i] \in [m : Mbuf, len : Int]
      <4>. DEFINE Rec == [m : Mbuf, len : Int]
      <4>1. rxq[s] \in Seq(Rec)
        BY <3>1 DEF NetTypeOK
      <4>. HIDE DEF Rec
      <4>2. i \in Nat /\ rxq[s][i] \in Rec
        BY <4>1
      <4>. QED
        BY <4>2 DEF Rec
    <3>3. rxq[s][i].m \in Mbuf
      BY <3>2
    <3>4. InQueue(rxq[s][i].m, s, i)
      BY <3>1 DEF InQueue
    <3>5. h[Len(h)] = rxq[s][i].m
      BY <2>5
    <3>. QED
      BY <2>5, <3>1, <3>2, <3>3, <3>4, <3>5
  <2>. HIDE DEF Kind
  <2>. QED
    BY <2>1, <2>2, <2>3, <2>4, <2>5 DEF Held
<1>2. ASSUME NEW b \in Mbuf, NEW h, Kind(h, b) PROVE h \in Held /\ h[Len(h)] = b /\ b \in Stack
  <2>1. CASE h = <<"rx", rxm>> /\ b = rxm /\ intr = "net_rx"
    BY <2>1, InHandIs DEF Held
  <2>2. CASE h = <<"arp", reply>> /\ b = reply /\ reply \in Mbuf
    BY <2>2, PagesAre DEF Held, OneHolder
  <2>3. ASSUME NEW p \in Proc, hand[p] # None, h = <<p, hand[p]>>, b = hand[p]
        PROVE  h \in Held /\ h[Len(h)] = b /\ b \in Stack
    BY <2>3, PagesAre DEF Held, OneHolder
  <2>4. ASSUME NEW p \in Proc, fd[p] # None, h = <<"sock", fd[p]>>, b = fd[p]
        PROVE  h \in Held /\ h[Len(h)] = b /\ b \in Stack
    BY <2>4, PagesAre DEF Held, OneHolder
  <2>5. ASSUME NEW s \in Mbuf, NEW i \in Nat, InQueue(b, s, i), h = <<s, i, b>>
        PROVE  h \in Held /\ h[Len(h)] = b /\ b \in Stack
    <3>1. s \in {fd[p] : p \in Proc} \ {None} /\ i \in DOMAIN rxq[s] /\ rxq[s][i].m = b
      BY <2>5, RxmIs DEF InQueue, Opened
    <3>2. h \in Held
      BY <2>5, <3>1 DEF Held
    <3>. QED
      BY <2>5, <3>2, PagesAre
  <2>. QED
    BY <1>2, <2>1, <2>2, <2>3, <2>4, <2>5
<1>3. ASSUME NEW b \in Stack PROVE \E h : Kind(h, b)
  <2>1. b \in Mbuf /\ b # None
    BY RxmIs
  <2>2. \/ b = rxm \/ b = reply
        \/ \E p \in Proc : b = hand[p] \/ b = fd[p]
        \/ \E s \in Mbuf : \E i \in Nat : InQueue(b, s, i)
    BY PagesAre
  <2>3. b = rxm => intr = "net_rx"
    BY <2>1, RxmIs
  <2>. QED
    BY <2>1, <2>2, <2>3
<1>4. ASSUME NEW b \in Mbuf, NEW h, NEW g, Kind(h, b), Kind(g, b) PROVE h = g
  <2>1. b # None
    BY RxmIs
  <2>2. CASE b = rxm
    <3>1. b # reply /\ (\A p \in Proc : b # hand[p] /\ b # fd[p])
          /\ \A s \in Mbuf : \A i \in Nat : ~InQueue(b, s, i)
      BY <2>1, <2>2, PagesAre DEF OneHolder
    <3>. QED
      BY <1>4, <3>1
  <2>3. CASE b # rxm /\ b = reply
    <3>1. (\A p \in Proc : b # hand[p] /\ b # fd[p])
          /\ \A s \in Mbuf : \A i \in Nat : ~InQueue(b, s, i)
      BY <2>1, <2>3, PagesAre DEF OneHolder
    <3>. QED
      BY <1>4, <2>3, <3>1
  <2>4. ASSUME NEW p \in Proc, b = hand[p], b # rxm, b # reply PROVE h = g
    <3>1. (\A r \in Proc : b # fd[r]) /\ (\A r \in Proc : hand[r] = b => r = p)
          /\ \A s \in Mbuf : \A i \in Nat : ~InQueue(b, s, i)
      BY <2>1, <2>4, PagesAre DEF OneHolder
    <3>. QED
      BY <1>4, <2>4, <3>1
  <2>5. ASSUME NEW p \in Proc, b = fd[p], b # rxm, b # reply, \A r \in Proc : b # hand[r] PROVE h = g
    <3>1. \A s \in Mbuf : \A i \in Nat : ~InQueue(b, s, i)
      BY <2>1, <2>5, PagesAre
    <3>. QED
      BY <1>4, <2>5, <3>1
  <2>6. ASSUME b # rxm, b # reply, \A r \in Proc : b # hand[r] /\ b # fd[r] PROVE h = g
    <3>1. PICK s \in Mbuf, i \in Nat : InQueue(b, s, i) /\ h = <<s, i, b>>
      BY <1>4, <2>6
    <3>2. PICK t \in Mbuf, j \in Nat : InQueue(b, t, j) /\ g = <<t, j, b>>
      BY <1>4, <2>6
    <3>3. s = t /\ i = j
      BY <3>1, <3>2, PagesAre
    <3>. QED
      BY <3>1, <3>2, <3>3
  <2>. QED
    BY <2>2, <2>3, <2>4, <2>5, <2>6
<1>. HIDE DEF Kind
<1>5. \A h, g \in Held : h[Len(h)] = g[Len(g)] => h = g
  BY <1>1, <1>4
<1>6. Stack = {h[Len(h)] : h \in Held}
  <2>1. \A h \in Held : h[Len(h)] \in Stack
    BY <1>1, <1>2
  <2>2. \A b \in Stack : \E h \in Held : h[Len(h)] = b
    BY <1>2, <1>3, RxmIs
  <2>. QED
    BY <2>1, <2>2
<1>. QED
  BY <1>5, <1>6 DEF Stack

\* Whatever the processes and the frames that arrive, the stack does to the
\* driver's rings and pages only what E1000 lets it do.
THEOREM NetRefinesE1000 ==
    ASSUME TxLag < N
    PROVE  NetSpec => RefinesE1000
<1>1. NetInit => Init /\ NetInv
  BY NetInitInv DEF NetInit
<1>2. NetInv /\ [NetNext]_allvars => [Next]_vars /\ NetInv'
  BY NetStep
<1>. QED
  BY <1>1, <1>2, PTL DEF NetSpec, RefinesE1000, Spec

\* So what holds of the rings holds with the sockets and the UDP/IP stack on top.
THEOREM NetRings ==
    ASSUME TxLag < N
    PROVE  NetSpec => [](TxFifo /\ RxFifo /\ NoAlias)
<1>1. NetInit => NetInv
  BY NetInitInv
<1>2. NetInv /\ [NetNext]_allvars => NetInv'
  BY NetStep
<1>3. NetInv => TxFifo /\ RxFifo /\ NoAlias
  BY TxFifoLemma, RxFifoLemma, NoAliasLemma DEF NetInv
<1>. QED
  BY <1>1, <1>2, <1>3, PTL DEF NetSpec

\* Every path of net.c and sysnet.c, error paths and close during reception
\* included, keeps its pages: none is leaked, freed twice or in two places.
THEOREM NetPagesAccounted ==
    ASSUME TxLag < N
    PROVE  NetSpec => []PagesAccounted
<1>1. NetInit => NetInv
  BY NetInitInv
<1>2. NetInv /\ [NetNext]_allvars => NetInv'
  BY NetStep
<1>. QED
  BY <1>1, <1>2, PagesAccountedLemma, PTL DEF NetSpec

\* sockrecvudp() cannot slip between the test of sockread() and its sleep().
THEOREM NetNoLostWakeup ==
    ASSUME TxLag < N
    PROVE  NetSpec => []NoLostWakeup
<1>1. NetInit => NetInv
  BY NetInitInv
<1>2. NetInv /\ [NetNext]_allvars => NetInv'
  BY NetStep
<1>3. NetInv => NoLostWakeup
  BY DEF NetInv, StackInv, WakeInv, NoLostWakeup
<1>. QED
  BY <1>1, <1>2, <1>3, PTL DEF NetSpec


-----------------------------------------------------------------------------
(***************************************************************************)
(* The packets of the sockets.  The inductive invariant adds to NetInv     *)
(* what a socket has got since it was listed, and why the first socket of  *)
(* the list that fits a datagram is the only one.                          *)
(***************************************************************************)
HistType ==
    /\ triple \in [Mbuf -> Triple \cup {None}]
    /\ since \in [Mbuf -> Nat]
    /\ got \in [Mbuf -> Seq(Nat \X Int)]

\* No two sockets have one triple.
OneTriple == \A s, t \in Opened : triple[s] = triple[t] => s = t

\* A socket has no packets before it is listed.
NoneYet ==
    /\ \A s \in Mbuf \ Opened : got[s] = <<>>
    /\ \A p \in Proc : pc[p] = "list" => got[fd[p]] = <<>> /\ rxq[fd[p]] = <<>>

\* The sequence q holds the datagrams for t among the frames a to n of f.
Fifo(q, a, n, f, t) ==
    /\ \A j \in DOMAIN q : /\ q[j][1] \in a .. n
                           /\ IsDatagram(f[q[j][1]], t)
                           /\ q[j][2] = f[q[j][1]].ulen - UDP
    /\ \A k \in a .. n : IsDatagram(f[k], t) => \E j \in DOMAIN q : q[j][1] = k
    /\ \A i, j \in DOMAIN q : i < j => q[i][1] < q[j][1]

SockHist(s) ==
    /\ since[s] \in 1 .. Handled + 1
    /\ Fifo(Packets(s), since[s], Handled, frames, triple[s])

HistInv == HistType /\ OneTriple /\ NoneYet /\ \A s \in InList : SockHist(s)

-----------------------------------------------------------------------------
(***************************************************************************)
(* Sequences of packets.                                                   *)
(***************************************************************************)

\* Nothing is asked of frames that have not been handled.
LEMMA FifoFrames ==
    ASSUME NEW q, NEW a, NEW n, NEW f, NEW g, NEW t, Fifo(q, a, n, f, t),
           \A k \in a .. n : g[k] = f[k]
    PROVE  Fifo(q, a, n, g, t)
  BY DEF Fifo, IsDatagram

\* A frame that is no datagram for the socket.
LEMMA FifoSkip ==
    ASSUME NEW q, NEW a \in Nat, NEW n \in Nat, NEW m, m = n + 1, NEW f, NEW t,
           Fifo(q, a, n, f, t), ~IsDatagram(f[m], t)
    PROVE  Fifo(q, a, m, f, t)
<1>1. \A k \in a .. n : k \in a .. m
  OBVIOUS
<1>2. \A k \in a .. m : k \in a .. n \/ k = m
  OBVIOUS
<1>. QED
  BY <1>1, <1>2 DEF Fifo

\* The indices of a sequence that grows by one.
LEMMA OneMore ==
    ASSUME NEW l \in Nat
    PROVE  \A j \in 1 .. l : j \in 1 .. l + 1 /\ j < l + 1
  OBVIOUS

\* A frame that is one, at the end of the sequence.
LEMMA FifoPush ==
    ASSUME NEW q \in Seq(Nat \X Int), NEW r \in Seq(Nat \X Int), NEW a \in Nat, NEW n \in Nat,
           NEW m, m = n + 1, NEW f, NEW t, a <= m, Fifo(q, a, n, f, t), IsDatagram(f[m], t),
           Len(r) = Len(q) + 1, \A j \in DOMAIN q : r[j] = q[j],
           r[Len(r)] = <<m, f[m].ulen - UDP>>
    PROVE  Fifo(r, a, m, f, t)
<1>. DEFINE l == Len(q)
<1>1. l \in Nat /\ DOMAIN q = 1 .. l /\ DOMAIN r = 1 .. l + 1 /\ Len(r) = l + 1
  OBVIOUS
<1>. HIDE DEF l
<1>2. r[l + 1][1] = m /\ r[l + 1][2] = f[m].ulen - UDP
  BY <1>1
<1>3. \A j \in DOMAIN r : j \in DOMAIN q \/ j = l + 1
  BY <1>1
<1>4. \A j \in DOMAIN q : j \in DOMAIN r /\ r[j] = q[j] /\ j < l + 1
  <2>1. \A j \in 1 .. l : j \in 1 .. l + 1 /\ j < l + 1
    BY <1>1, OneMore
  <2>. QED
    BY <1>1, <2>1
<1>5. \A k \in a .. n : k \in a .. m /\ k < m
  OBVIOUS
<1>6. \A k \in a .. m : k \in a .. n \/ k = m
  OBVIOUS
<1>7. m \in a .. m /\ l + 1 \in DOMAIN r
  BY <1>1
<1>8. \A j \in DOMAIN r : /\ r[j][1] \in a .. m
                          /\ IsDatagram(f[r[j][1]], t)
                          /\ r[j][2] = f[r[j][1]].ulen - UDP
  BY <1>2, <1>3, <1>4, <1>5, <1>7 DEF Fifo
<1>9. \A k \in a .. m : IsDatagram(f[k], t) => \E j \in DOMAIN r : r[j][1] = k
  BY <1>2, <1>4, <1>6, <1>7 DEF Fifo
<1>10. ASSUME NEW i \in DOMAIN r, NEW j \in DOMAIN r, i < j PROVE r[i][1] < r[j][1]
  <2>1. i \in DOMAIN q
    BY <1>1, <1>10
  <2>2. CASE j \in DOMAIN q
    BY <1>4, <1>10, <2>1, <2>2 DEF Fifo
  <2>3. CASE j = l + 1
    <3>1. q[i][1] \in a .. n
      BY <2>1 DEF Fifo
    <3>. QED
      BY <1>2, <1>4, <1>5, <2>1, <2>3, <3>1
  <2>. QED
    BY <1>3, <2>2, <2>3
<1>. QED
  BY <1>8, <1>9, <1>10 DEF Fifo

\* A socket that was listed just now.
LEMMA FifoEmpty ==
    ASSUME NEW n \in Nat, NEW a, a = n + 1, NEW q, q = <<>>, NEW f, NEW t
    PROVE  Fifo(q, a, n, f, t)
<1>1. DOMAIN q = {} /\ a .. n = {}
  OBVIOUS
<1>. QED
  BY <1>1 DEF Fifo

\* What Packets() makes of the packets taken, g, a queue q and the mbufs' contents.
Entry == [m : Mbuf, len : Int]
Joined(g, q, d) == g \o [k \in DOMAIN q |-> <<d[q[k].m], q[k].len>>]

\* Its elements.
LEMMA JoinedIs ==
    ASSUME NEW g \in Seq(Nat \X Int), NEW q \in Seq(Entry), NEW d \in [Mbuf -> Nat]
    PROVE  /\ Joined(g, q, d) \in Seq(Nat \X Int)
           /\ Len(Joined(g, q, d)) = Len(g) + Len(q)
           /\ \A j \in 1 .. Len(g) : Joined(g, q, d)[j] = g[j]
           /\ \A k \in 1 .. Len(q) : Joined(g, q, d)[Len(g) + k] = <<d[q[k].m], q[k].len>>
<1>. DEFINE w == [k \in DOMAIN q |-> <<d[q[k].m], q[k].len>>]
            S == Nat \X Int
<1>1. Len(q) \in Nat /\ DOMAIN q = 1 .. Len(q) /\ \A k \in DOMAIN q : q[k] \in Entry
  OBVIOUS
<1>2. \A k \in DOMAIN q : <<d[q[k].m], q[k].len>> \in S
  BY <1>1 DEF Entry
<1>3. w \in Seq(S) /\ Len(w) = Len(q) /\ \A k \in 1 .. Len(q) : w[k] = <<d[q[k].m], q[k].len>>
  <2>1. w \in [1 .. Len(q) -> S]
    BY <1>1, <1>2
  <2>2. w \in Seq(S)
    BY <1>1, <2>1
  <2>3. Len(w) = Len(q)
    BY <1>1, <2>1, <2>2
  <2>. QED
    BY <1>1, <2>2, <2>3
<1>. HIDE DEF w, S
<1>4. g \in Seq(S) /\ Len(g) \in Nat
  BY DEF S
<1>5. /\ g \o w \in Seq(S) /\ Len(g \o w) = Len(g) + Len(q)
      /\ \A i \in 1 .. Len(g) + Len(q) : (g \o w)[i] = IF i <= Len(g) THEN g[i] ELSE w[i - Len(g)]
  <2>1. /\ g \o w \in Seq(S) /\ Len(g \o w) = Len(g) + Len(w)
        /\ \A i \in 1 .. Len(g) + Len(w) : (g \o w)[i] = IF i <= Len(g) THEN g[i] ELSE w[i - Len(g)]
    BY <1>3, <1>4, ConcatProperties
  <2>. QED
    BY <1>3, <2>1
<1>6. \A j \in 1 .. Len(g) : (g \o w)[j] = g[j]
  BY <1>1, <1>4, <1>5
<1>7. ASSUME NEW k \in 1 .. Len(q) PROVE (g \o w)[Len(g) + k] = w[k]
  <2>1. Len(g) + k \in 1 .. Len(g) + Len(q) /\ ~(Len(g) + k <= Len(g)) /\ Len(g) + k - Len(g) = k
    BY <1>1, <1>4
  <2>. QED
    BY <1>5, <2>1
<1>8. Joined(g, q, d) = g \o w
  BY DEF Joined, w
<1>. QED
  BY <1>3, <1>5, <1>6, <1>7, <1>8 DEF S

\* A change of other mbufs does not matter.
LEMMA JoinedSame ==
    ASSUME NEW g, NEW q, NEW d, NEW e, \A k \in DOMAIN q : e[q[k].m] = d[q[k].m]
    PROVE  Joined(g, q, e) = Joined(g, q, d)
  BY DEF Joined

\* A packet that goes from the queue to a reader.
LEMMA JoinedPop ==
    ASSUME NEW g \in Seq(Nat \X Int), NEW q \in Seq(Entry), NEW d \in [Mbuf -> Nat], q # <<>>,
           NEW h, h = Append(g, <<d[Head(q).m], Head(q).len>>), NEW r, r = Tail(q)
    PROVE  Joined(h, r, d) = Joined(g, q, d) /\ h \in Seq(Nat \X Int)
<1>. DEFINE S == Nat \X Int
            x == <<d[Head(q).m], Head(q).len>>
            a == Joined(h, r, d)
            b == Joined(g, q, d)
<1>1. Len(q) \in Nat /\ Len(q) # 0 /\ Len(g) \in Nat
  BY EmptySeq
<1>2. /\ r \in Seq(Entry) /\ Len(r) = Len(q) - 1 /\ Head(q) \in Entry /\ Head(q) = q[1]
      /\ \A i \in 1 .. Len(r) : r[i] = q[i + 1]
  BY <1>1, HeadTailProperties
<1>3. x \in S
  BY <1>2 DEF Entry
<1>4. h = Append(g, x) /\ g \in Seq(S)
  OBVIOUS
<1>5. x = <<d[q[1].m], q[1].len>>
  BY <1>2
<1>. HIDE DEF S, x
<1>6. h \in Seq(S) /\ Len(h) = Len(g) + 1 /\ h[Len(g) + 1] = x /\ \A i \in 1 .. Len(g) : h[i] = g[i]
  <2>1. /\ Append(g, x) \in Seq(S) /\ Len(Append(g, x)) = Len(g) + 1
        /\ Append(g, x)[Len(g) + 1] = x /\ \A i \in 1 .. Len(g) : Append(g, x)[i] = g[i]
    BY <1>3, <1>4, AppendProperties
  <2>. QED
    BY <1>4, <2>1
<1>7. /\ a \in Seq(S) /\ Len(a) = Len(h) + Len(r)
      /\ \A j \in 1 .. Len(h) : a[j] = h[j]
      /\ \A k \in 1 .. Len(r) : a[Len(h) + k] = <<d[r[k].m], r[k].len>>
  BY <1>2, <1>6, JoinedIs DEF S
<1>8. /\ b \in Seq(S) /\ Len(b) = Len(g) + Len(q)
      /\ \A j \in 1 .. Len(g) : b[j] = g[j]
      /\ \A k \in 1 .. Len(q) : b[Len(g) + k] = <<d[q[k].m], q[k].len>>
  BY JoinedIs DEF S
<1>. HIDE DEF a, b
<1>9. Len(a) = Len(b) /\ Len(b) \in Nat
  BY <1>1, <1>2, <1>6, <1>7, <1>8
<1>10. ASSUME NEW j \in 1 .. Len(b) PROVE a[j] = b[j]
  <2>1. CASE j <= Len(g)
    <3>1. j \in 1 .. Len(g) /\ j \in 1 .. Len(h)
      BY <1>1, <1>6, <2>1
    <3>. QED
      BY <1>6, <1>7, <1>8, <3>1
  <2>2. CASE j = Len(g) + 1
    <3>1. 1 \in 1 .. Len(q) /\ j \in 1 .. Len(h)
      BY <1>1, <1>6, <2>2
    <3>2. b[Len(g) + 1] = <<d[q[1].m], q[1].len>>
      BY <1>8, <3>1
    <3>. QED
      BY <1>5, <1>6, <1>7, <2>2, <3>1, <3>2
  <2>3. CASE j > Len(g) + 1
    <3>0. j \in Int /\ Len(h) \in Int /\ j - (Len(g) + 1) \in Int
      BY <1>1, <1>6, <1>9
    <3>1. PICK k \in Int : k = j - (Len(g) + 1)
      BY <3>0
    <3>2. k \in 1 .. Len(r) /\ k + 1 \in 1 .. Len(q) /\ j = Len(h) + k /\ j = Len(g) + (k + 1)
      BY <1>1, <1>2, <1>6, <1>8, <2>3, <3>0, <3>1
    <3>3. b[Len(g) + (k + 1)] = <<d[q[k + 1].m], q[k + 1].len>>
      BY <1>8, <3>2
    <3>4. r[k] = q[k + 1]
      BY <1>2, <3>2
    <3>5. a[j] = <<d[r[k].m], r[k].len>>
      BY <1>7, <3>2
    <3>. QED
      BY <3>2, <3>3, <3>4, <3>5
  <2>. QED
    BY <1>1, <1>9, <2>1, <2>2, <2>3
<1>11. a = b
  BY <1>7, <1>8, <1>9, <1>10, SeqEqual
<1>. QED
  BY <1>6, <1>11 DEF a, b, S

\* One more packet, at the end.
Longer(w, v, x) ==
    /\ w \in Seq(Nat \X Int) /\ Len(w) = Len(v) + 1
    /\ \A j \in DOMAIN v : w[j] = v[j]
    /\ w[Len(w)] = x

\* A packet that is put into the queue.
LEMMA JoinedPush ==
    ASSUME NEW g \in Seq(Nat \X Int), NEW q \in Seq(Entry), NEW d \in [Mbuf -> Nat],
           NEW e \in Entry, NEW r, r = Append(q, e), NEW x, x = <<d[e.m], e.len>>
    PROVE  Longer(Joined(g, r, d), Joined(g, q, d), x)
<1>. DEFINE S == Nat \X Int
            a == Joined(g, r, d)
            b == Joined(g, q, d)
<1>1. Len(q) \in Nat /\ Len(g) \in Nat
  OBVIOUS
<1>2. r \in Seq(Entry) /\ Len(r) = Len(q) + 1 /\ r[Len(q) + 1] = e /\ \A i \in 1 .. Len(q) : r[i] = q[i]
  BY AppendProperties
<1>3. /\ a \in Seq(S) /\ Len(a) = Len(g) + Len(r)
      /\ \A j \in 1 .. Len(g) : a[j] = g[j]
      /\ \A k \in 1 .. Len(r) : a[Len(g) + k] = <<d[r[k].m], r[k].len>>
  BY <1>2, JoinedIs
<1>4. /\ b \in Seq(S) /\ Len(b) = Len(g) + Len(q)
      /\ \A j \in 1 .. Len(g) : b[j] = g[j]
      /\ \A k \in 1 .. Len(q) : b[Len(g) + k] = <<d[q[k].m], q[k].len>>
  BY JoinedIs
<1>. HIDE DEF a, b, S
<1>5. Len(a) = Len(b) + 1 /\ Len(a) = Len(g) + (Len(q) + 1)
  BY <1>1, <1>2, <1>3, <1>4
<1>6. a[Len(a)] = <<d[e.m], e.len>>
  <2>1. Len(q) + 1 \in 1 .. Len(r)
    BY <1>1, <1>2
  <2>. QED
    BY <1>2, <1>3, <1>5, <2>1
<1>7. ASSUME NEW j \in DOMAIN b PROVE a[j] = b[j]
  <2>0. j \in 1 .. Len(g) + Len(q)
    BY <1>4
  <2>1. CASE j <= Len(g)
    BY <1>1, <1>3, <1>4, <2>0, <2>1
  <2>2. CASE j > Len(g)
    <3>1. PICK k \in Int : k = j - Len(g)
      BY <1>1, <2>0
    <3>2. k \in 1 .. Len(q) /\ k \in 1 .. Len(r) /\ j = Len(g) + k
      BY <1>1, <1>2, <2>0, <2>2, <3>1
    <3>. QED
      BY <1>2, <1>3, <1>4, <3>2
  <2>. QED
    BY <1>1, <2>0, <2>1, <2>2
<1>. QED
  BY <1>3, <1>5, <1>6, <1>7 DEF a, b, S, Longer

-----------------------------------------------------------------------------
(***************************************************************************)
(* The packets of a socket, when a step does not touch it.                 *)
(***************************************************************************)

\* net_rx() is at work on the packet after those it has handled.
LEMMA HandledIs ==
    ASSUME NetInv
    PROVE  /\ Handled \in Nat /\ Handled <= Len(frames) /\ Handled <= Len(delivered)
           /\ \A k \in 1 .. Handled : delivered[k] = k
           /\ intr = "net_rx" => InHand = frames[Handled + 1] /\ data[rxm] = Handled + 1
           /\ Len(delivered) = IF intr = "net_rx" THEN Handled + 1 ELSE Handled
<1>1. /\ Len(delivered) \in Nat /\ Len(delivered) <= Len(arrived) /\ Len(arrived) \in Nat
      /\ Len(frames) = Len(arrived) /\ \A k \in 1 .. Len(delivered) : delivered[k] = k
      /\ intr = "net_rx" => data[rxm] = Len(delivered)
  BY RxCounts DEF NetInv, StackInv, FrameInv, RingsInv, RxInv
<1>2. intr = "net_rx" => Len(delivered) >= 1
  <2>. SUFFICES ASSUME intr = "net_rx" PROVE Len(delivered) >= 1
    OBVIOUS
  <2>1. Refilled = Len(delivered) - 1 /\ Refilled \in Nat
    BY RxCounts DEF NetInv, RingsInv, Refilled, Away
  <2>. QED
    BY <1>1, <2>1
<1>3. PICK D \in Nat : D = Len(delivered)
  BY <1>1
<1>4. Handled = IF intr = "net_rx" THEN D - 1 ELSE D
  BY <1>3 DEF Handled
<1>5. Handled \in Nat /\ Handled <= D /\ D = IF intr = "net_rx" THEN Handled + 1 ELSE Handled
  BY <1>2, <1>3, <1>4
<1>6. intr = "net_rx" => data[rxm] = Handled + 1
  BY <1>1, <1>3, <1>5
<1>7. \A k \in 1 .. Handled : k \in 1 .. D
  BY <1>5
<1>. QED
  BY <1>1, <1>3, <1>5, <1>6, <1>7 DEF InHand

\* The packet of net_rx(), if there is one, is not for socket s.
Passed(s) ==
    \/ Handled' = Handled
    \/ Handled' = Handled + 1 /\ ~IsDatagram(frames'[Handled'], triple[s])

\* Frames that have been handled stay.
FramesKept == \A k \in 1 .. Handled : frames'[k] = frames[k]

\* A socket whose packets stay the same.
LEMMA SockKept ==
    ASSUME NEW s, Handled \in Nat, SockHist(s), Passed(s), FramesKept,
           since'[s] = since[s], triple'[s] = triple[s], Packets(s)' = Packets(s)
    PROVE  SockHist(s)'
<1>1. PICK a, n, q, t, f, g :
        /\ a = since[s] /\ n = Handled /\ q = Packets(s) /\ t = triple[s] /\ f = frames /\ g = frames'
        /\ a \in Nat /\ n \in Nat /\ a \in 1 .. n + 1
  BY DEF SockHist
<1>2. Fifo(q, a, n, f, t)
  BY <1>1 DEF SockHist
<1>3. \A k \in a .. n : g[k] = f[k]
  BY <1>1 DEF FramesKept
<1>4. Fifo(q, a, n, g, t)
  BY <1>2, <1>3, FifoFrames
<1>5. PICK m : m = Handled'
  OBVIOUS
<1>6. m = n \/ (m = n + 1 /\ ~IsDatagram(g[m], t))
  BY <1>1, <1>5 DEF Passed
<1>7. Fifo(q, a, m, g, t)
  BY <1>1, <1>4, <1>6, FifoSkip
<1>8. a \in 1 .. m + 1
  BY <1>1, <1>6
<1>9. since'[s] = a /\ triple'[s] = t /\ Packets(s)' = q /\ frames' = g /\ Handled' = m
  BY <1>1, <1>5
<1>. QED
  BY <1>7, <1>8, <1>9 DEF SockHist

\* Only mbufs in hand, in net_rx() or in the rings are written.
DataKept ==
    \A b \in Stack :
        b \notin {rxm, reply} /\ (\A p \in Proc : b # hand[p] /\ b # fd[p]) => data'[b] = data[b]

\* The mbufs in queues are others.
LEMMA QueueData ==
    ASSUME NetInv, NEW s \in Opened
    PROVE  /\ s \in Mbuf /\ rxq[s] \in Seq(Entry)
           /\ \A i \in DOMAIN rxq[s] :
                /\ i \in Nat /\ rxq[s][i].m \in Mbuf /\ InQueue(rxq[s][i].m, s, i)
                /\ rxq[s][i].m \in Stack /\ rxq[s][i].m \notin {rxm, reply}
                /\ \A p \in Proc : rxq[s][i].m # hand[p] /\ rxq[s][i].m # fd[p]
<1>1. s \in Mbuf /\ rxq[s] \in Seq(Entry)
  BY DEF Opened, NetInv, StackInv, NetTypeOK, Entry
<1>2. ASSUME NEW i \in DOMAIN rxq[s]
      PROVE  i \in Nat /\ rxq[s][i].m \in Mbuf /\ InQueue(rxq[s][i].m, s, i)
  <2>1. i \in Nat /\ rxq[s][i] \in Entry
    BY <1>1
  <2>. QED
    BY <2>1 DEF InQueue, Entry
<1>3. Pages
  BY DEF NetInv, StackInv
<1>. QED
  BY <1>1, <1>2, <1>3, PagesAre

\* So a socket's packets stay, if its queue does.
LEMMA PacketsKept ==
    ASSUME NetInv, DataKept, NEW s \in Opened, rxq'[s] = rxq[s], got'[s] = got[s]
    PROVE  Packets(s)' = Packets(s)
<1>1. \A i \in DOMAIN rxq[s] : data'[rxq[s][i].m] = data[rxq[s][i].m]
  BY QueueData DEF DataKept
<1>. QED
  BY <1>1 DEF Packets

\* A step that touches no queue and lists no socket.
Quiet ==
    /\ DataKept /\ FramesKept
    /\ UNCHANGED <<rxq, got, since, triple>>
    /\ Opened' = Opened /\ InList' \subseteq InList
    /\ \A p \in Proc : pc'[p] = "list" => pc[p] = "list" /\ fd'[p] = fd[p]

\* Listed sockets are open.
LEMMA InListIs ==
    ASSUME NetInv
    PROVE  InList \subseteq Opened /\ Opened \subseteq Mbuf
  BY DEF NetInv, StackInv, SockInv, InList, Listed, Opened

\* Such a step keeps the packets of all sockets.
LEMMA HistQuiet ==
    ASSUME NetInv, HistInv, Quiet, \A s \in InList : Passed(s)
    PROVE  HistInv'
<1>1. HistType' /\ OneTriple'
  BY DEF HistInv, Quiet, HistType, OneTriple
<1>2. NoneYet'
  BY DEF HistInv, Quiet, NoneYet
<1>3. ASSUME NEW s \in InList' PROVE SockHist(s)'
  <2>1. s \in InList /\ s \in Opened /\ SockHist(s) /\ Passed(s)
    BY InListIs DEF HistInv, Quiet
  <2>2. Packets(s)' = Packets(s)
    BY <2>1, PacketsKept DEF Quiet
  <2>3. since'[s] = since[s] /\ triple'[s] = triple[s] /\ FramesKept
    BY DEF Quiet
  <2>. QED
    BY <2>1, <2>2, <2>3, HandledIs, SockKept
<1>. QED
  BY <1>1, <1>2, <1>3 DEF HistInv

-----------------------------------------------------------------------------
(***************************************************************************)
(* The steps that touch no queue.                                          *)
(***************************************************************************)

\* The driver, the card and the frames stand still.
LEMMA StillStep ==
    ASSUME NetInv, UNCHANGED <<vars, frames>>
    PROVE  DataKept /\ FramesKept /\ \A s : Passed(s)
<1>1. data' = data /\ intr' = intr /\ delivered' = delivered
  BY DEF vars, rx
<1>. QED
  BY <1>1 DEF DataKept, FramesKept, Passed, Handled

\* A step of the stack that writes to one mbuf, b, in a hand.
LEMMA HandStep ==
    ASSUME NetInv, RxSame, frames' = frames, NEW b,
           b = reply \/ \E p \in Proc : b = hand[p],
           mbuffree(b) \/ e1000_transmit(b)
    PROVE  DataKept /\ FramesKept /\ \A s : Passed(s)
<1>1. FramesKept /\ \A s : Passed(s)
  BY DEF RxSame, FramesKept, Passed, Handled
<1>2. data \in [Mbuf -> Nat] /\ TDT \in Ring /\ Stack \subseteq Mbuf
  BY RxmIs DEF NetInv, RingsInv, TypeOK
<1>3. tx_mbufs[TDT] \notin Stack
  BY <1>2, RxmIs DEF NetInv, RingsInv, OwnInv, Stack
<1>4. ASSUME NEW c \in Stack, c # b PROVE data'[c] = data[c]
  <2>1. CASE mbuffree(b)
    BY <1>2, <1>4, <2>1 DEF mbuffree
  <2>2. CASE e1000_transmit(b)
    <3>1. CASE ~tx_dd[TDT]
      BY <2>2, <3>1 DEF e1000_transmit
    <3>2. CASE tx_dd[TDT]
      BY <1>2, <1>3, <1>4, <2>2, <3>2 DEF e1000_transmit
    <3>. QED
      BY <3>1, <3>2
  <2>. QED
    BY <2>1, <2>2
<1>5. DataKept
  BY <1>4 DEF DataKept
<1>. QED
  BY <1>1, <1>5

\* sleep() and kill().
LEMMA HistSleep ==
    ASSUME NetInv, HistInv, NEW p \in Proc, sleep(p) \/ kill(p)
    PROVE  HistInv'
<1>1. /\ UNCHANGED <<vars, frames, rxq, got, since, triple, fd, sockets>>
      /\ pc[p] # "list" => pc' = [pc EXCEPT ![p] = pc'[p]] /\ pc'[p] # "list"
      /\ pc[p] = "list" => pc' = [pc EXCEPT ![p] = "list"]
  BY DEF sleep, kill, Go, sockvars, NetInv, StackInv, NetTypeOK
<1>2. \A r \in Proc : pc'[r] = "list" => pc[r] = "list"
  BY <1>1 DEF NetInv, StackInv, NetTypeOK
<1>3. Opened' = Opened /\ InList' = InList
  BY <1>1 DEF Opened, InList, Listed
<1>4. Quiet
  BY <1>1, <1>2, <1>3, StillStep DEF Quiet
<1>. QED
  BY <1>1, <1>4, StillStep, HistQuiet

\* fork().
LEMMA HistFork ==
    ASSUME NetInv, HistInv, NEW p \in Proc, NEW q \in Proc, fork(p, q)
    PROVE  HistInv'
<1>1. /\ UNCHANGED <<vars, frames, rxq, got, since, triple, sockets, pc>>
      /\ pc[q] = "user" /\ fd[q] = None /\ fd[p] # None /\ fd' = [fd EXCEPT ![q] = fd[p]]
  BY DEF fork, procvars
<1>2. \A r \in Proc : fd'[r] = IF r = q THEN fd[p] ELSE fd[r]
  BY <1>1 DEF NetInv, StackInv, NetTypeOK
<1>3. Opened' = Opened
  BY <1>1, <1>2, RxmIs DEF Opened, NetInv
<1>4. InList' = InList
  BY <1>1 DEF InList, Listed
<1>5. Quiet
  BY <1>1, <1>2, <1>3, <1>4, StillStep DEF Quiet
<1>. QED
  BY <1>1, <1>5, StillStep, HistQuiet

\* fileclose().
LEMMA HistClose ==
    ASSUME NetInv, HistInv, NEW p \in Proc, fileclose(p)
    PROVE  HistInv'
<1>1. /\ UNCHANGED <<vars, frames, rxq, got, since, triple, sockets>>
      /\ pc[p] = "user" /\ fd[p] # None
      /\ \/ /\ \E q \in Proc \ {p} : fd[q] = fd[p]
            /\ fd' = [fd EXCEPT ![p] = None] /\ pc' = pc
         \/ fd' = fd /\ pc' = [pc EXCEPT ![p] = "unlist"]
  BY DEF fileclose, Go
<1>2. \A r \in Proc : pc'[r] = "list" => pc[r] = "list" /\ fd'[r] = fd[r]
  BY <1>1 DEF NetInv, StackInv, NetTypeOK
<1>3. Opened' = Opened
  <2>1. CASE fd' = fd
    BY <2>1 DEF Opened
  <2>2. CASE fd' # fd
    <3>1. PICK q \in Proc \ {p} : fd[q] = fd[p]
      BY <1>1, <2>2
    <3>2. \A r \in Proc : fd'[r] = IF r = p THEN None ELSE fd[r]
      BY <1>1, <2>2 DEF NetInv, StackInv, NetTypeOK
    <3>. QED
      BY <3>1, <3>2, RxmIs DEF Opened, NetInv
  <2>. QED
    BY <2>1, <2>2
<1>4. InList' = InList
  BY <1>1 DEF InList, Listed
<1>5. Quiet
  BY <1>1, <1>2, <1>3, <1>4, StillStep DEF Quiet
<1>. QED
  BY <1>1, <1>5, StillStep, HistQuiet

\* sockclose(): the socket goes out of the list.
LEMMA HistUnlist ==
    ASSUME NetInv, HistInv, NEW p \in Proc, sockclose(p)
    PROVE  HistInv'
<1>1. /\ UNCHANGED <<vars, frames, rxq, got, since, triple, fd>>
      /\ pc' = [pc EXCEPT ![p] = "drain"]
      /\ sockets' = IF Listed(fd[p])
                    THEN Unlink(First({i \in DOMAIN sockets : sockets[i] = fd[p]}))
                    ELSE sockets
  BY DEF sockclose, Go
<1>2. \A r \in Proc : pc'[r] = "list" => pc[r] = "list"
  BY <1>1 DEF NetInv, StackInv, NetTypeOK
<1>3. Opened' = Opened
  BY <1>1 DEF Opened
<1>4. \A i \in DOMAIN sockets' : \E j \in DOMAIN sockets : sockets'[i] = sockets[j]
  <2>1. PICK f : f = First({i \in DOMAIN sockets : sockets[i] = fd[p]})
    OBVIOUS
  <2>2. CASE sockets' = sockets
    BY <2>2
  <2>3. CASE sockets' # sockets
    <3>1. sockets' = [j \in 1 .. Len(sockets) - 1 |-> sockets[IF j < f THEN j ELSE j + 1]]
      BY <1>1, <2>1, <2>3 DEF Unlink
    <3>2. Len(sockets) \in Nat /\ DOMAIN sockets = 1 .. Len(sockets)
      BY DEF NetInv, StackInv, NetTypeOK
    <3>3. \A j \in 1 .. Len(sockets) - 1 : (IF j < f THEN j ELSE j + 1) \in 1 .. Len(sockets)
      BY <3>2
    <3>. QED
      BY <3>1, <3>2, <3>3
  <2>. QED
    BY <2>2, <2>3
<1>5. InList' \subseteq InList
  BY <1>4 DEF InList, Listed
<1>6. Quiet
  BY <1>1, <1>2, <1>3, <1>5, StillStep DEF Quiet
<1>. QED
  BY <1>1, <1>6, StillStep, HistQuiet

\* The ends of sockread() and sockwrite().
LEMMA HistDone ==
    ASSUME NetInv, HistInv, NEW p \in Proc, sockread_copyout(p) \/ sockwrite_copyin(p)
    PROVE  HistInv'
<1>1. /\ UNCHANGED <<frames, rxq, got, since, triple, fd, sockets>>
      /\ pc[p] \in {"copyout", "copyin"} /\ pc' = [pc EXCEPT ![p] = "user"]
      /\ mbuffree(hand[p]) \/ e1000_transmit(hand[p])
  BY DEF sockread_copyout, sockwrite_copyin, Go, sockvars
<1>2. \A r \in Proc : pc'[r] = "list" => pc[r] = "list"
  BY <1>1 DEF NetInv, StackInv, NetTypeOK
<1>3. Opened' = Opened /\ InList' = InList
  BY <1>1 DEF Opened, InList, Listed
<1>4. hand[p] \in Stack /\ hand[p] # rxm
  BY <1>1, PagesAre DEF NetInv, StackInv, HandInv, OneHolder
<1>5. RxSame
  BY <1>1, <1>4, FreeEffect, TransmitEffect DEF NetInv
<1>6. DataKept /\ FramesKept /\ \A s : Passed(s)
  BY <1>1, <1>5, HandStep
<1>7. Quiet
  BY <1>1, <1>2, <1>3, <1>6 DEF Quiet
<1>. QED
  BY <1>6, <1>7, HistQuiet

\* net_tx_arp() sends its reply.
LEMMA HistArpEth ==
    ASSUME NetInv, HistInv, net_tx_arp_eth
    PROVE  HistInv'
<1>1. /\ UNCHANGED <<frames, rxq, got, since, triple, fd, sockets, pc>>
      /\ reply \in Mbuf /\ e1000_transmit(reply)
  BY DEF net_tx_arp_eth, sockvars, procvars
<1>2. Opened' = Opened /\ InList' = InList
  BY <1>1 DEF Opened, InList, Listed
<1>3. reply \in Stack /\ reply # rxm
  BY <1>1, PagesAre DEF NetInv, StackInv, OneHolder
<1>4. RxSame
  BY <1>1, <1>3, TransmitEffect DEF NetInv
<1>5. DataKept /\ FramesKept /\ \A s : Passed(s)
  BY <1>1, <1>4, HandStep
<1>6. Quiet
  BY <1>1, <1>2, <1>5 DEF Quiet
<1>. QED
  BY <1>5, <1>6, HistQuiet

\* mbufalloc(), for sockwrite() or an ARP reply.
LEMMA HistAlloc ==
    ASSUME NetInv, HistInv, net_tx_arp \/ \E p \in Proc : sockwrite(p)
    PROVE  HistInv'
<1>1. /\ UNCHANGED <<frames, rxq, got, since, triple, fd, sockets, data, intr, delivered>>
      /\ pc' = pc \/ \E p \in Proc : pc' = [pc EXCEPT ![p] = "copyin"]
  BY DEF net_tx_arp, sockwrite, mbufalloc, Go, sockvars, procvars, vars, rx
<1>2. \A r \in Proc : pc'[r] = "list" => pc[r] = "list"
  BY <1>1 DEF NetInv, StackInv, NetTypeOK
<1>3. Opened' = Opened /\ InList' = InList
  BY <1>1 DEF Opened, InList, Listed
<1>4. DataKept /\ FramesKept /\ \A s : Passed(s)
  BY <1>1 DEF DataKept, FramesKept, Passed, Handled
<1>5. Quiet
  BY <1>1, <1>2, <1>3, <1>4 DEF Quiet
<1>. QED
  BY <1>4, <1>5, HistQuiet

\* net_rx() takes for a datagram what is one, and cuts it to its payload: the
\* lengths that go below zero modulo W are never accepted.
LEMMA DatagramIff ==
    ASSUME NEW f \in Frame
    PROVE  /\ net_rx(f) # Drop <=> IsDatagram(f, f.to)
           /\ net_rx(f) # Drop => net_rx(f) = f.ulen - UDP
           /\ \A t : IsDatagram(f, t) => t = f.to /\ ~IsRequest(f)
<1>1. /\ W \in Nat \ {0} /\ f.ip_len \in 0 .. W - 1 /\ f.len \in 0 .. W - 1 /\ f.ulen \in 0 .. W - 1
      /\ f.good \in BOOLEAN
  BY NetAssumption
<1>2. \A t : IsDatagram(f, t) => t = f.to /\ ~IsRequest(f)
  BY DEF IsDatagram, IsRequest
<1>3. PICK i \in 0 .. W - 1, l \in 0 .. W - 1, u \in 0 .. W - 1 : i = f.ip_len /\ l = f.len /\ u = f.ulen
  BY <1>1
<1>4. PICK x \in Int : x = (i - 1) % W
  BY <1>1
<1>5. PICK y \in Int : y = (x - 1) % W
  BY <1>1
<1>6. \A k \in 0 .. W - 1 : (k - 1) % W = IF k = 0 THEN W - 1 ELSE k - 1
  <2>1. ASSUME NEW k \in 0 .. W - 1, k # 0 PROVE (k - 1) % W = k - 1
    <3>1. k - 1 \in 0 .. W - 1
      BY <1>1, <2>1
    <3>. QED
      BY <1>1, <3>1, ModSmall
  <2>2. (0 - 1) % W = W - 1
    <3>1. W - 1 \in 0 .. W - 1 /\ (-1) * W + (W - 1) = 0 - 1
      BY <1>1
    <3>2. ((-1) * W + (W - 1)) % W = W - 1
      <4>1. PICK r \in 0 .. W - 1 : r = W - 1
        BY <3>1
      <4>2. (-1) \in Int
        OBVIOUS
      <4>3. ((-1) * W + r) % W = r
        BY <1>1, <4>2, ModUnique
      <4>. QED
        BY <4>1, <4>3
    <3>. QED
      BY <3>1, <3>2
  <2>. QED
    BY <2>1, <2>2
<1>7. x = IF i = 0 THEN W - 1 ELSE i - 1
  BY <1>4, <1>6
<1>8. x \in 0 .. W - 1
  BY <1>1, <1>7
<1>9. y = IF x = 0 THEN W - 1 ELSE x - 1
  BY <1>5, <1>6, <1>8
<1>10. net_rx(f) = IF \/ l < 1 \/ f.type # "ip" \/ l - 1 < 1 \/ ~f.good
                      \/ l - 1 - 1 < 1 \/ u # x \/ y > l - 1 - 1 - 1
                   THEN Drop ELSE y
  <2>1. net_rx_udp(f, l - 1 - 1, x) = IF l - 1 - 1 < 1 \/ u # x \/ y > l - 1 - 1 - 1 THEN Drop ELSE y
    BY <1>3, <1>5 DEF net_rx_udp, UDP
  <2>2. net_rx_ip(f, l - 1) = IF l - 1 < 1 \/ ~f.good THEN Drop ELSE net_rx_udp(f, l - 1 - 1, x)
    BY <1>3, <1>4 DEF net_rx_ip, IP
  <2>3. net_rx(f) = IF l < 1 \/ f.type # "ip" THEN Drop ELSE net_rx_ip(f, l - 1)
    BY <1>3 DEF net_rx, ETH
  <2>. QED
    BY <2>1, <2>2, <2>3
<1>11. y # Drop
  BY <1>1, <1>8, <1>9 DEF Drop
<1>. DEFINE Fits == l - 1 - 1 >= 1 /\ u = x /\ y <= l - 1 - 1 - 1
<1>12. Fits <=> u >= 1 /\ i = u + 1 /\ l >= i + 1
  BY <1>1, <1>7, <1>8, <1>9
<1>13. Fits => y = u - 1 /\ ~(l < 1) /\ ~(l - 1 < 1)
  BY <1>1, <1>7, <1>8, <1>9
<1>14. (\/ l - 1 - 1 < 1 \/ u # x \/ y > l - 1 - 1 - 1) <=> ~Fits
  BY <1>1, <1>9
<1>15. IsDatagram(f, f.to) <=> f.type = "ip" /\ f.good /\ Fits
  BY <1>3, <1>12 DEF IsDatagram, UDP, IP, ETH
<1>. HIDE DEF Fits
<1>16. net_rx(f) # Drop <=> f.type = "ip" /\ f.good /\ Fits
  BY <1>10, <1>11, <1>13, <1>14
<1>17. net_rx(f) # Drop => net_rx(f) = u - 1
  BY <1>10, <1>13, <1>16
<1>. QED
  BY <1>2, <1>3, <1>15, <1>16, <1>17 DEF UDP

\* net_rx() has dropped a frame.
LEMMA HistDrop ==
    ASSUME NetInv, HistInv, net_rx_drop
    PROVE  HistInv'
<1>1. /\ UNCHANGED <<frames, rxq, got, since, triple, fd, sockets, pc, delivered>>
      /\ intr = "net_rx" /\ intr' = "refill" /\ data' = [data EXCEPT ![rxm] = 0]
  BY DEF net_rx_drop, Return, sockvars, procvars
<1>2. Opened' = Opened /\ InList' = InList
  BY <1>1 DEF Opened, InList, Listed
<1>3. DataKept /\ FramesKept
  BY <1>1, RxmIs DEF DataKept, FramesKept, NetInv, RingsInv, TypeOK
<1>4. InHand \in Frame /\ InHand = frames[Handled + 1] /\ Len(delivered) = Handled + 1
  BY <1>1, InHandIs, HandledIs
<1>5. Handled' = Handled + 1
  BY <1>1, <1>4 DEF Handled
<1>6. ASSUME NEW s \in InList, IsDatagram(InHand, triple[s]) PROVE FALSE
  <2>1. triple[s] = InHand.to /\ ~IsRequest(InHand) /\ net_rx(InHand) # Drop
    BY <1>4, <1>6, DatagramIff
  <2>2. SocketFor(InHand.to) # {}
    BY <2>1 DEF SocketFor, InList, Listed
  <2>. QED
    BY <2>1, <2>2 DEF net_rx_drop
<1>7. \A s \in InList : Passed(s)
  BY <1>1, <1>4, <1>5, <1>6 DEF Passed
<1>8. Quiet
  BY <1>1, <1>2, <1>3 DEF Quiet
<1>. QED
  BY <1>7, <1>8, HistQuiet

\* The driver and the card.
LEMMA HistDriver ==
    ASSUME NetInv, HistInv, Driver \/ card_frame
    PROVE  HistInv'
<1>1. UNCHANGED <<sockets, rxq, got, since, triple, fd, pc>>
  BY DEF Driver, card_frame, netvars, sockvars, procvars
<1>2. Opened' = Opened /\ InList' = InList
  BY <1>1 DEF Opened, InList, Listed
<1>3. FramesKept
  <2>1. CASE Driver
    BY <2>1 DEF Driver, FramesKept, netvars
  <2>2. CASE card_frame
    <3>1. PICK f \in Frame : frames' = Append(frames, f)
      BY <2>2 DEF card_frame
    <3>2. frames \in Seq(Frame) /\ Handled \in Nat /\ Handled <= Len(frames)
      BY HandledIs DEF NetInv, StackInv, FrameInv
    <3>3. \A k \in 1 .. Len(frames) : frames'[k] = frames[k]
      BY <3>1, <3>2, AppendProperties
    <3>4. \A k \in 1 .. Handled : k \in 1 .. Len(frames)
      BY <3>2
    <3>. QED
      BY <3>3, <3>4 DEF FramesKept
  <2>. QED
    BY <2>1, <2>2
<1>4. CASE e1000_recv
  <2>1. DataKept
    BY <1>4 DEF e1000_recv, DataKept
  <2>2. Handled' = Handled
    <3>1. intr = "idle" /\ delivered \in Seq(Nat) /\ data \in [Mbuf -> Nat] /\ rxm = None
      BY <1>4, RecvEffect DEF NetInv, RingsInv, TypeOK
    <3>2. \/ intr' = "recvd" /\ delivered' = delivered
          \/ intr' = "net_rx" /\ rxm' \in Mbuf /\ delivered' = Append(delivered, data[rxm'])
      BY <1>4, RecvEffect DEF e1000_recv, NetInv
    <3>3. CASE intr' = "recvd" /\ delivered' = delivered
      BY <3>1, <3>3 DEF Handled
    <3>4. CASE intr' = "net_rx" /\ rxm' \in Mbuf /\ delivered' = Append(delivered, data[rxm'])
      <4>1. data[rxm'] \in Nat /\ Len(delivered) \in Nat
        BY <3>1, <3>4
      <4>2. Len(delivered') = Len(delivered) + 1
        BY <3>1, <3>4, <4>1, AppendProperties
      <4>3. Len(delivered') - 1 = Len(delivered)
        BY <4>1, <4>2
      <4>. QED
        BY <3>1, <3>4, <4>3 DEF Handled
    <3>. QED
      BY <3>2, <3>3, <3>4
  <2>3. Quiet /\ \A s : Passed(s)
    BY <1>1, <1>2, <1>3, <2>1, <2>2 DEF Quiet, Passed
  <2>. QED
    BY <2>3, HistQuiet
<1>5. CASE card_transmit \/ card_receive \/ e1000_recv_refill \/ e1000_intr
  <2>1. delivered' = delivered /\ (intr = "net_rx" <=> intr' = "net_rx")
    BY <1>5, RestEffect DEF NetInv
  <2>2. DataKept
    <3>1. CASE ~card_receive
      BY <1>5, <3>1 DEF card_transmit, e1000_recv_refill, e1000_intr, DataKept
    <3>2. CASE card_receive
      <4>1. RDH \in Ring /\ RDH \notin Hole
        <5>1. RDH = Len(arrived) % N /\ Len(arrived) \in Len(delivered) .. Refilled + N - 1
          BY RxCounts, RingSize DEF NetInv, RingsInv, RxInv
        <5>. QED
          BY <5>1, RxCounts DEF NetInv, RingsInv
      <4>2. rx_mbufs[RDH] \notin Stack
        BY <4>1 DEF NetInv, RingsInv, OwnInv, Stack
      <4>. QED
        BY <3>2, <4>2, RxmIs DEF card_receive, DataKept, NetInv, RingsInv, TypeOK
    <3>. QED
      BY <3>1, <3>2
  <2>3. Quiet /\ \A s : Passed(s)
    BY <1>1, <1>2, <1>3, <2>1, <2>2 DEF Quiet, Passed, Handled
  <2>. QED
    BY <2>3, HistQuiet
<1>. QED
  BY <1>4, <1>5 DEF Driver, card_frame

-----------------------------------------------------------------------------
(***************************************************************************)
(* The steps that touch a socket's packets.                                *)
(***************************************************************************)

\* sockalloc() takes a page for a socket with a triple that is not in use.
LEMMA HistSocket ==
    ASSUME NetInv, HistInv, NEW p \in Proc, NEW t \in Triple, sockalloc(p, t)
    PROVE  HistInv'
<1>1. PICK b \in Mbuf : /\ mbufalloc(b) /\ triple' = [triple EXCEPT ![b] = t]
                        /\ rxq' = [rxq EXCEPT ![b] = <<>>] /\ fd' = [fd EXCEPT ![p] = b]
  BY DEF sockalloc
<1>2. /\ fd[p] = None /\ pc' = [pc EXCEPT ![p] = "list"]
      /\ \A q \in Proc : fd[q] # None => triple[fd[q]] # t
      /\ UNCHANGED <<sockets, since, got, frames>>
  BY DEF sockalloc, Go
<1>3. data' = data /\ intr' = intr /\ delivered' = delivered /\ b \notin Stack
  BY <1>1, AllocEffect DEF mbufalloc, rx, NetInv
<1>4. /\ \A r \in Proc : /\ pc'[r] = IF r = p THEN "list" ELSE pc[r]
                         /\ fd'[r] = IF r = p THEN b ELSE fd[r]
      /\ \A s \in Mbuf : rxq'[s] = IF s = b THEN <<>> ELSE rxq[s]
      /\ \A s \in Mbuf : triple'[s] = IF s = b THEN t ELSE triple[s]
  BY <1>1, <1>2 DEF NetInv, StackInv, NetTypeOK, HistInv, HistType
<1>5. \A r \in Proc : fd[r] # b
  BY <1>3, RxmIs, PagesAre DEF OneHolder, NetInv, StackInv
<1>6. Opened' = Opened \cup {b} /\ b \notin Opened
  BY <1>2, <1>4, <1>5, RxmIs DEF Opened, NetInv
<1>7. InList' = InList /\ b \notin InList /\ InList \subseteq Opened /\ Opened \subseteq Mbuf
  BY <1>2, <1>6, InListIs DEF InList, Listed
<1>8. HistType'
  BY <1>1, <1>2 DEF HistInv, HistType
<1>9. OneTriple'
  <2>1. \A s \in Opened : s \in Mbuf /\ triple[s] # t
    BY <1>2, <1>7, RxmIs DEF Opened, NetInv
  <2>. QED
    BY <1>4, <1>6, <2>1 DEF OneTriple, HistInv
<1>10. NoneYet'
  <2>1. \A s \in Mbuf \ Opened' : got'[s] = <<>>
    BY <1>2, <1>6 DEF NoneYet, HistInv
  <2>2. got[b] = <<>>
    BY <1>6 DEF NoneYet, HistInv
  <2>3. ASSUME NEW r \in Proc, pc'[r] = "list" PROVE got'[fd'[r]] = <<>> /\ rxq'[fd'[r]] = <<>>
    <3>1. CASE r = p
      BY <1>2, <1>4, <2>2, <3>1
    <3>2. CASE r # p
      <4>1. pc[r] = "list" /\ fd'[r] = fd[r] /\ fd[r] # b /\ fd[r] \in Mbuf
        BY <1>4, <1>5, <2>3, <3>2 DEF NetInv, StackInv, SockInv, NetTypeOK
      <4>. QED
        BY <1>2, <1>4, <4>1 DEF NoneYet, HistInv
    <3>. QED
      BY <3>1, <3>2
  <2>. QED
    BY <2>1, <2>3 DEF NoneYet
<1>11. ASSUME NEW s \in InList PROVE SockHist(s)'
  <2>1. s \in Opened /\ SockHist(s) /\ rxq'[s] = rxq[s] /\ got'[s] = got[s] /\ triple'[s] = triple[s]
    BY <1>2, <1>4, <1>7 DEF HistInv
  <2>2. DataKept /\ FramesKept /\ Passed(s) /\ since'[s] = since[s]
    BY <1>2, <1>3 DEF DataKept, FramesKept, Passed, Handled
  <2>. QED
    BY <2>1, <2>2, PacketsKept, SockKept, HandledIs
<1>. QED
  BY <1>7, <1>8, <1>9, <1>10, <1>11 DEF HistInv

\* sockalloc() puts it into the list.
LEMMA HistList ==
    ASSUME NetInv, HistInv, NEW p \in Proc, sockalloc_list(p)
    PROVE  HistInv'
<1>1. /\ pc[p] = "list" /\ pc' = [pc EXCEPT ![p] = "user"]
      /\ sockets' = <<fd[p]>> \o sockets
      /\ since' = [since EXCEPT ![fd[p]] =
                      IF intr = "net_rx" THEN Len(delivered) ELSE Len(delivered) + 1]
      /\ UNCHANGED <<vars, triple, rxq, fd, got, frames>>
  BY DEF sockalloc_list, Go
<1>2. fd[p] \in Mbuf /\ sockets \in Seq(Mbuf) /\ fd[p] \notin InList /\ fd[p] \in Opened
  BY <1>1 DEF SockInv, NetTypeOK, NetInv, StackInv, Opened
<1>3. PICK s \in Mbuf, n \in Nat : s = fd[p] /\ n = Handled
  BY <1>2, HandledIs
<1>4. since' = [since EXCEPT ![s] = n + 1]
  <2>1. (IF intr = "net_rx" THEN Len(delivered) ELSE Len(delivered) + 1) = n + 1
    BY <1>3, HandledIs
  <2>. QED
    BY <1>1, <1>3, <2>1
<1>5. \A r \in Proc : pc'[r] = "list" => pc[r] = "list"
  BY <1>1 DEF NetInv, StackInv, NetTypeOK
<1>6. Opened' = Opened
  BY <1>1 DEF Opened
<1>7. InList' \subseteq InList \cup {s}
  <2>1. <<s>> \in Seq(Mbuf) /\ Len(<<s>>) = 1 /\ <<s>>[1] = s /\ Len(sockets) \in Nat
    BY <1>2
  <2>2. /\ sockets' \in Seq(Mbuf) /\ Len(sockets') = 1 + Len(sockets)
        /\ \A i \in 1 .. 1 + Len(sockets) : sockets'[i] = IF i <= 1 THEN <<s>>[i] ELSE sockets[i - 1]
    BY <1>1, <1>2, <1>3, <2>1, ConcatProperties
  <2>3. ASSUME NEW i \in DOMAIN sockets' PROVE sockets'[i] = s \/ sockets'[i] \in InList
    <3>1. i \in 1 .. 1 + Len(sockets)
      BY <2>2
    <3>2. CASE i <= 1
      BY <2>1, <2>2, <3>1, <3>2
    <3>3. CASE ~(i <= 1)
      <4>1. i - 1 \in DOMAIN sockets /\ sockets'[i] = sockets[i - 1]
        BY <1>2, <2>1, <2>2, <3>1, <3>3
      <4>. QED
        BY <1>2, <4>1 DEF InList, Listed
    <3>. QED
      BY <3>2, <3>3
  <2>. QED
    BY <2>3 DEF InList, Listed
<1>8. HistType'
  <2>1. n + 1 \in Nat /\ triple' = triple /\ got' = got
    BY <1>1
  <2>2. since \in [Mbuf -> Nat]
    BY DEF HistInv, HistType
  <2>3. since' \in [Mbuf -> Nat]
    BY <1>4, <2>1, <2>2
  <2>. QED
    BY <2>1, <2>3 DEF HistInv, HistType
<1>9. OneTriple' /\ NoneYet'
  BY <1>1, <1>5, <1>6 DEF HistInv, OneTriple, NoneYet
<1>10. DataKept /\ FramesKept /\ \A u : Passed(u)
  BY <1>1, StillStep
<1>11. SockHist(s)'
  <2>1. got[s] = <<>> /\ rxq[s] = <<>> /\ since'[s] = n + 1
    BY <1>1, <1>3, <1>4 DEF HistInv, NoneYet, HistType
  <2>2. Handled' = n
    BY <1>1, <1>3 DEF Handled, vars, rx
  <2>3. PICK q, f, u : q = Packets(s)' /\ f = frames' /\ u = triple'[s]
    OBVIOUS
  <2>4. q = <<>>
    <3>1. data' \in [Mbuf -> Nat] /\ got'[s] = <<>> /\ rxq'[s] = <<>>
      BY <1>1, <2>1 DEF vars, NetInv, RingsInv, TypeOK
    <3>2. got'[s] \in Seq(Nat \X Int) /\ rxq'[s] \in Seq(Entry) /\ Len(got'[s]) = 0 /\ Len(rxq'[s]) = 0
      BY <3>1
    <3>3. PICK g \in Seq(Nat \X Int), r \in Seq(Entry), d \in [Mbuf -> Nat] :
            g = got'[s] /\ r = rxq'[s] /\ d = data' /\ Len(g) = 0 /\ Len(r) = 0
      BY <3>1, <3>2, Zenon
    <3>4. q = Joined(g, r, d)
      BY <2>3, <3>3 DEF Packets, Joined
    <3>5. Joined(g, r, d) \in Seq(Nat \X Int) /\ Len(Joined(g, r, d)) = Len(g) + Len(r)
      BY JoinedIs
    <3>6. q \in Seq(Nat \X Int) /\ Len(q) = 0
      BY <3>3, <3>4, <3>5
    <3>. QED
      BY <3>6, EmptySeq
  <2>5. PICK a : a = n + 1
    OBVIOUS
  <2>6. Fifo(q, a, n, f, u)
    BY <2>4, <2>5, FifoEmpty
  <2>7. a \in 1 .. n + 1
    BY <2>5
  <2>. QED
    BY <2>1, <2>2, <2>3, <2>5, <2>6, <2>7 DEF SockHist
<1>12. ASSUME NEW u \in InList PROVE SockHist(u)'
  <2>1. u \in Opened /\ u \in Mbuf /\ u # s /\ SockHist(u)
    BY <1>2, <1>3, InListIs DEF HistInv
  <2>2. since'[u] = since[u] /\ triple'[u] = triple[u] /\ rxq'[u] = rxq[u] /\ got'[u] = got[u]
    BY <1>1, <1>4, <2>1 DEF HistInv, HistType
  <2>. QED
    BY <1>10, <2>1, <2>2, PacketsKept, SockKept, HandledIs
<1>. QED
  BY <1>7, <1>8, <1>9, <1>11, <1>12 DEF HistInv

\* sockread() takes a packet, or does not.
LEMMA HistRead ==
    ASSUME NetInv, HistInv, NEW p \in Proc, sockread(p)
    PROVE  HistInv'
<1>1. /\ UNCHANGED <<vars, sockets, triple, fd, since, frames>>
      /\ pc[p] \in {"read", "user"} /\ fd[p] # None
      /\ \E l \in {"user", "sleep", "copyout"} : pc' = [pc EXCEPT ![p] = l]
      /\ \/ UNCHANGED <<rxq, got>>
         \/ /\ rxq[fd[p]] # <<>>
            /\ rxq' = [rxq EXCEPT ![fd[p]] = Tail(rxq[fd[p]])]
            /\ got' = [got EXCEPT ![fd[p]] =
                          Append(@, <<data[Head(rxq[fd[p]]).m], Head(rxq[fd[p]]).len>>)]
  BY DEF sockread, Go, mbufq_empty, mbufq_pophead, NetInv, StackInv, SockInv
<1>2. \A r \in Proc : pc'[r] = "list" => pc[r] = "list" /\ r # p
  BY <1>1 DEF NetInv, StackInv, NetTypeOK
<1>3. Opened' = Opened /\ InList' = InList
  BY <1>1 DEF Opened, InList, Listed
<1>4. DataKept /\ FramesKept /\ \A u : Passed(u)
  BY <1>1, StillStep
<1>5. CASE UNCHANGED <<rxq, got>>
  <2>1. Quiet
    BY <1>1, <1>2, <1>3, <1>4, <1>5 DEF Quiet
  <2>. QED
    BY <1>4, <2>1, HistQuiet
<1>6. CASE ~UNCHANGED <<rxq, got>>
  <2>1. PICK s \in Mbuf : s = fd[p] /\ s \in Opened
    BY <1>1 DEF NetInv, StackInv, NetTypeOK, Opened
  <2>2. PICK q \in Seq(Entry), g \in Seq(Nat \X Int) : q = rxq[s] /\ g = got[s]
    BY <2>1, QueueData DEF HistInv, HistType
  <2>3. PICK r, h : r = Tail(q) /\ h = Append(g, <<data[Head(q).m], Head(q).len>>)
    OBVIOUS
  <2>4. q # <<>> /\ rxq' = [rxq EXCEPT ![s] = r] /\ got' = [got EXCEPT ![s] = h]
    BY <1>1, <1>6, <2>1, <2>2, <2>3
  <2>5. data \in [Mbuf -> Nat]
    BY DEF NetInv, RingsInv, TypeOK
  <2>6. Joined(h, r, data) = Joined(g, q, data) /\ h \in Seq(Nat \X Int)
    BY <2>3, <2>4, <2>5, JoinedPop
  <2>7. HistType'
    BY <1>1, <2>4, <2>6 DEF HistInv, HistType
  <2>8. \A u \in Mbuf : u # s => rxq'[u] = rxq[u] /\ got'[u] = got[u]
    BY <2>4
  <2>9. Packets(s)' = Packets(s)
    <3>1. rxq'[s] = r /\ got'[s] = h /\ data' = data
      BY <1>1, <2>1, <2>4 DEF vars, NetInv, StackInv, NetTypeOK, HistInv, HistType
    <3>2. Packets(s) = Joined(g, q, data)
      BY <2>2 DEF Packets, Joined
    <3>3. Packets(s)' = Joined(h, r, data)
      BY <3>1 DEF Packets, Joined
    <3>. QED
      BY <2>6, <3>2, <3>3
  <2>10. OneTriple'
    BY <1>1, <1>3 DEF HistInv, OneTriple
  <2>11. NoneYet'
    <3>1. \A u \in Mbuf \ Opened' : got'[u] = <<>>
      BY <1>3, <2>1, <2>8 DEF HistInv, NoneYet
    <3>2. ASSUME NEW x \in Proc, pc'[x] = "list" PROVE got'[fd'[x]] = <<>> /\ rxq'[fd'[x]] = <<>>
      <4>1. pc[x] = "list" /\ fd'[x] = fd[x] /\ fd[x] \in Mbuf /\ fd[x] # s
        BY <1>1, <1>2, <2>1, <3>2 DEF NetInv, StackInv, SockInv, NetTypeOK
      <4>. QED
        BY <2>8, <4>1 DEF HistInv, NoneYet
    <3>. QED
      BY <3>1, <3>2 DEF NoneYet
  <2>12. ASSUME NEW u \in InList PROVE SockHist(u)'
    <3>1. u \in Opened /\ u \in Mbuf /\ SockHist(u)
      BY InListIs DEF HistInv
    <3>2. Packets(u)' = Packets(u)
      BY <1>4, <2>8, <2>9, <3>1, PacketsKept
    <3>3. since'[u] = since[u] /\ triple'[u] = triple[u] /\ Passed(u) /\ FramesKept
      BY <1>1, <1>4
    <3>. QED
      BY <3>1, <3>2, <3>3, SockKept, HandledIs
  <2>. QED
    BY <1>3, <2>7, <2>10, <2>11, <2>12 DEF HistInv
<1>. QED
  BY <1>5, <1>6

\* sockclose() frees the mbufs of a socket that is not listed, and then the socket.
LEMMA HistDrain ==
    ASSUME NetInv, HistInv, NEW p \in Proc, sockclose_drain(p)
    PROVE  HistInv'
<1>1. pc[p] = "drain" /\ UNCHANGED <<sockets, frames, hand, reply>>
  BY DEF sockclose_drain
<1>2. PICK s \in Mbuf : s = fd[p] /\ s \in Opened /\ s \notin InList
  BY <1>1 DEF NetInv, StackInv, SockInv, NetTypeOK, Opened
<1>3. \A r \in Proc : fd[r] = s => r = p
  BY <1>1, <1>2 DEF NetInv, StackInv, SockInv
<1>4. PICK q \in Seq(Entry) : q = rxq[s]
  BY <1>2, QueueData
<1>5. InList' = InList
  BY <1>1 DEF InList, Listed
<1>6. ASSUME NEW b \in Stack, b # rxm, mbuffree(b),
             \A u \in InList : \A i \in DOMAIN rxq[u] : rxq[u][i].m # b,
             \A u \in Mbuf : u # s => /\ since'[u] = since[u] /\ triple'[u] = triple[u]
                                      /\ rxq'[u] = rxq[u] /\ got'[u] = got[u]
      PROVE  \A u \in InList : SockHist(u)'
  <2>. SUFFICES ASSUME NEW u \in InList PROVE SockHist(u)'
    OBVIOUS
  <2>1. u \in Opened /\ u \in Mbuf /\ u # s /\ SockHist(u)
    BY <1>2, InListIs DEF HistInv
  <2>2. FramesKept /\ Passed(u)
    BY <1>1, <1>6 DEF FramesKept, Passed, Handled, mbuffree, rx
  <2>3. \A c \in Mbuf : c # b => data'[c] = data[c]
    BY <1>6 DEF mbuffree, NetInv, RingsInv, TypeOK
  <2>4. \A i \in DOMAIN rxq[u] : data'[rxq[u][i].m] = data[rxq[u][i].m]
    BY <1>6, <2>1, <2>3, QueueData
  <2>5. Packets(u)' = Packets(u)
    BY <1>6, <2>1, <2>4 DEF Packets
  <2>. QED
    BY <1>6, <2>1, <2>2, <2>5, SockKept, HandledIs
<1>7. CASE q # <<>>
  <2>1. PICK b : b = q[1].m
    OBVIOUS
  <2>2. /\ mbuffree(b) /\ rxq' = [rxq EXCEPT ![s] = mbufq_pophead(q)]
        /\ UNCHANGED <<triple, since, got, fd, pc>>
    <3>1. Head(q) = q[1]
      BY <1>7
    <3>. QED
      BY <1>2, <1>4, <1>7, <2>1, <3>1 DEF sockclose_drain, mbufq_empty
  <2>3. 1 \in DOMAIN rxq[s]
    <3>1. Len(q) \in Nat /\ Len(q) # 0
      BY <1>7, EmptySeq
    <3>. QED
      BY <1>4, <3>1
  <2>4. b \in Mbuf /\ b \in Stack /\ b # rxm /\ InQueue(b, s, 1)
    BY <1>2, <1>4, <2>1, <2>3, QueueData
  <2>5. \A u \in Mbuf : u # s => rxq'[u] = rxq[u]
    BY <2>2 DEF NetInv, StackInv, NetTypeOK
  <2>6. ASSUME NEW u \in InList, NEW i \in DOMAIN rxq[u], rxq[u][i].m = b PROVE FALSE
    <3>1. u \in Opened /\ u \in Mbuf /\ u # s
      BY <1>2, InListIs
    <3>2. i \in Nat /\ InQueue(b, u, i)
      BY <2>6, <3>1, QueueData
    <3>. QED
      BY <2>4, <3>1, <3>2, PagesAre DEF NetInv, StackInv
  <2>7. \A u \in InList : SockHist(u)'
    BY <1>6, <2>2, <2>4, <2>5, <2>6
  <2>8. Opened' = Opened /\ HistType' /\ OneTriple'
    BY <2>2 DEF Opened, HistInv, HistType, OneTriple
  <2>9. NoneYet'
    <3>1. \A r \in Proc : pc[r] = "list" => fd[r] # s /\ fd[r] \in Mbuf
      BY <1>1, <1>3 DEF NetInv, StackInv, SockInv, NetTypeOK
    <3>. QED
      BY <2>2, <2>5, <2>8, <3>1 DEF HistInv, NoneYet
  <2>. QED
    BY <1>5, <2>7, <2>8, <2>9 DEF HistInv
<1>8. CASE q = <<>>
  <2>1. /\ mbuffree(s)
        /\ triple' = [triple EXCEPT ![s] = None] /\ since' = [since EXCEPT ![s] = 0]
        /\ got' = [got EXCEPT ![s] = <<>>] /\ fd' = [fd EXCEPT ![p] = None]
        /\ pc' = [pc EXCEPT ![p] = "user"] /\ rxq' = rxq
    BY <1>2, <1>4, <1>8 DEF sockclose_drain, mbufq_empty, Go
  <2>2. s \in Stack /\ s # rxm
    BY <1>2, RxmIs, PagesAre DEF NetInv, StackInv, OneHolder
  <2>3. \A u \in Mbuf : u # s => since'[u] = since[u] /\ triple'[u] = triple[u] /\ got'[u] = got[u]
    BY <2>1 DEF HistInv, HistType
  <2>4. \A u \in InList : \A i \in DOMAIN rxq[u] : rxq[u][i].m # s
    BY <1>2, InListIs, QueueData
  <2>5. \A u \in InList : SockHist(u)'
    BY <1>6, <2>1, <2>2, <2>3, <2>4
  <2>6. /\ \A r \in Proc : fd'[r] = IF r = p THEN None ELSE fd[r]
        /\ \A r \in Proc : pc'[r] = IF r = p THEN "user" ELSE pc[r]
    BY <2>1 DEF NetInv, StackInv, NetTypeOK
  <2>7. Opened' = Opened \ {s}
    BY <1>2, <1>3, <2>6, RxmIs DEF Opened, NetInv
  <2>8. HistType'
    <3>1. <<>> \in Seq(Nat \X Int) /\ 0 \in Nat
      OBVIOUS
    <3>2. got' \in [Mbuf -> Seq(Nat \X Int)] /\ since' \in [Mbuf -> Nat] /\ triple' \in [Mbuf -> Triple \cup {None}]
      BY <2>1, <3>1 DEF HistInv, HistType
    <3>. QED
      BY <3>2 DEF HistType
  <2>9. OneTriple'
    BY <2>3, <2>7, InListIs DEF HistInv, OneTriple
  <2>10. NoneYet'
    <3>1. got'[s] = <<>>
      BY <2>1 DEF HistInv, HistType
    <3>2. \A u \in Mbuf \ Opened' : got'[u] = <<>>
      BY <2>3, <2>7, <3>1 DEF HistInv, NoneYet
    <3>3. \A r \in Proc : pc'[r] = "list" => pc[r] = "list" /\ fd'[r] = fd[r] /\ fd[r] # s /\ fd[r] \in Mbuf
      BY <1>3, <2>6 DEF NetInv, StackInv, SockInv, NetTypeOK
    <3>. QED
      BY <2>1, <2>3, <3>2, <3>3 DEF HistInv, NoneYet
  <2>. QED
    BY <1>5, <2>5, <2>8, <2>9, <2>10 DEF HistInv
<1>. QED
  BY <1>7, <1>8

\* sockrecvudp(): the packet goes to the one socket it is for.
LEMMA HistDeliver ==
    ASSUME NetInv, HistInv, net_rx_deliver
    PROVE  HistInv'
<1>. DEFINE F == SocketFor(InHand.to)
<1>1. /\ intr = "net_rx" /\ intr' = "refill" /\ net_rx(InHand) # Drop /\ F # {}
      /\ UNCHANGED <<delivered, data, sockets, triple, fd, since, got, frames>>
  BY DEF net_rx_deliver, sockrecvudp, Return
<1>2. PICK s \in Mbuf : s = sockets[First(F)] /\ s \in Opened /\ triple[s] = InHand.to
  <2>1. F \in SUBSET Nat
    BY DEF SocketFor, NetInv, StackInv, NetTypeOK
  <2>2. First(F) \in F
    <3>. HIDE DEF F
    <3>. QED  BY <1>1, <2>1, FirstIs
  <2>3. First(F) \in DOMAIN sockets /\ triple[sockets[First(F)]] = InHand.to
    BY <2>2 DEF SocketFor
  <2>. HIDE DEF F
  <2>. QED
    BY <2>3 DEF NetInv, StackInv, SockInv, Opened
<1>3. PICK n \in Nat, f \in Frame : n = Handled /\ f = InHand
  BY <1>1, InHandIs, HandledIs
<1>4. PICK m : m = n + 1
  OBVIOUS
<1>5. frames[m] = f /\ data[rxm] = m /\ Handled' = m
  BY <1>1, <1>3, <1>4, HandledIs DEF Handled
<1>6. IsDatagram(f, f.to) /\ net_rx(f) = f.ulen - UDP /\ \A t : IsDatagram(f, t) => t = f.to
  BY <1>1, <1>3, DatagramIff
<1>7. /\ rxq' = [rxq EXCEPT ![s] = Append(rxq[s], [m |-> rxm, len |-> net_rx(InHand)])]
      /\ \A r \in Proc : pc'[r] = "list" => pc[r] = "list"
  BY <1>2 DEF net_rx_deliver, sockrecvudp, mbufq_pushtail
<1>8. PICK e \in Entry : e.m = rxm /\ e.len = f.ulen - UDP /\ rxq' = [rxq EXCEPT ![s] = Append(rxq[s], e)]
  <2>1. rxm \in Mbuf /\ net_rx(InHand) \in Int
    BY <1>1, <1>3, InHandIs, DatagramIs
  <2>2. PICK x : x = [m |-> rxm, len |-> net_rx(InHand)]
    OBVIOUS
  <2>3. x \in Entry /\ x.m = rxm /\ x.len = net_rx(InHand)
    BY <2>1, <2>2 DEF Entry
  <2>. QED
    BY <1>3, <1>6, <1>7, <2>2, <2>3
<1>9. \A u \in Mbuf : u # s => rxq'[u] = rxq[u]
  BY <1>8 DEF NetInv, StackInv, NetTypeOK
<1>10. Opened' = Opened /\ InList' = InList
  BY <1>1 DEF Opened, InList, Listed
<1>11. HistType' /\ OneTriple'
  BY <1>1, <1>10 DEF HistInv, HistType, OneTriple
<1>12. s \in InList
  <2>1. First(F) \in DOMAIN sockets
    <3>1. F \in SUBSET Nat
      BY DEF SocketFor, NetInv, StackInv, NetTypeOK
    <3>2. First(F) \in F
      <4>. HIDE DEF F
      <4>. QED  BY <1>1, <3>1, FirstIs
    <3>. QED
      BY <3>2 DEF SocketFor
  <2>. QED
    BY <1>2, <2>1 DEF InList, Listed
<1>13. NoneYet'
  <2>1. \A r \in Proc : pc[r] = "list" => fd[r] # s /\ fd[r] \in Mbuf
    BY <1>12 DEF NetInv, StackInv, SockInv, NetTypeOK
  <2>. QED
    BY <1>1, <1>7, <1>9, <1>10, <2>1 DEF HistInv, NoneYet
<1>14. ASSUME NEW u \in InList, u # s PROVE SockHist(u)'
  <2>1. u \in Opened /\ u \in Mbuf /\ SockHist(u)
    BY InListIs DEF HistInv
  <2>2. triple[u] # f.to
    BY <1>2, <1>3, <1>14, <2>1 DEF HistInv, OneTriple
  <2>3. Passed(u) /\ FramesKept /\ DataKept
    BY <1>1, <1>3, <1>4, <1>5, <1>6, <2>2 DEF Passed, FramesKept, DataKept
  <2>4. rxq'[u] = rxq[u] /\ got'[u] = got[u] /\ since'[u] = since[u] /\ triple'[u] = triple[u]
    BY <1>1, <1>9, <1>14, <2>1
  <2>. QED
    BY <2>1, <2>3, <2>4, PacketsKept, SockKept, HandledIs
<1>15. SockHist(s)'
  <2>1. PICK q \in Seq(Entry), g \in Seq(Nat \X Int), d \in [Mbuf -> Nat] : q = rxq[s] /\ g = got[s] /\ d = data
    BY <1>2, QueueData DEF HistInv, HistType, NetInv, RingsInv, TypeOK
  <2>2. PICK r : r = Append(q, e)
    OBVIOUS
  <2>3. rxq'[s] = r /\ got'[s] = g /\ data' = d
    BY <1>1, <1>8, <2>1, <2>2 DEF NetInv, StackInv, NetTypeOK
  <2>4. PICK v, w : v = Joined(g, q, d) /\ w = Joined(g, r, d)
    OBVIOUS
  <2>5. v = Packets(s) /\ w = Packets(s)'
    BY <2>1, <2>3, <2>4 DEF Packets, Joined
  <2>6. /\ v \in Seq(Nat \X Int) /\ w \in Seq(Nat \X Int) /\ Len(w) = Len(v) + 1
        /\ \A j \in DOMAIN v : w[j] = v[j]
        /\ w[Len(w)] = <<d[e.m], e.len>>
    <3>1. Joined(g, q, d) \in Seq(Nat \X Int)
      BY JoinedIs
    <3>2. PICK x : x = <<d[e.m], e.len>>
      OBVIOUS
    <3>3. Longer(Joined(g, r, d), Joined(g, q, d), x)
      BY <2>2, <3>2, JoinedPush
    <3>. QED
      BY <2>4, <3>1, <3>2, <3>3 DEF Longer
  <2>7. PICK a, h, t : a = since[s] /\ h = frames /\ t = triple[s] /\ a \in Nat /\ a \in 1 .. n + 1
    BY <1>3, <1>12 DEF HistInv, SockHist
  <2>8. Fifo(v, a, n, h, t)
    BY <1>3, <1>12, <2>5, <2>7 DEF HistInv, SockHist
  <2>9. IsDatagram(h[m], t) /\ w[Len(w)] = <<m, h[m].ulen - UDP>> /\ a <= m
    BY <1>2, <1>3, <1>4, <1>5, <1>6, <1>8, <2>1, <2>6, <2>7
  <2>10. Fifo(w, a, m, h, t)
    BY <1>4, <2>6, <2>7, <2>8, <2>9, FifoPush
  <2>11. since'[s] = a /\ triple'[s] = t /\ frames' = h /\ a \in 1 .. m + 1
    BY <1>1, <1>4, <2>7
  <2>. QED
    BY <1>5, <2>5, <2>10, <2>11 DEF SockHist
<1>. QED
  BY <1>10, <1>11, <1>13, <1>14, <1>15 DEF HistInv

-----------------------------------------------------------------------------
\* At the start there is no socket.
LEMMA HistInit == NetInit => HistInv
<1>. SUFFICES ASSUME NetInit PROVE HistInv
  OBVIOUS
<1>1. <<>> \in Seq(Nat \X Int) /\ 0 \in Nat
  OBVIOUS
<1>2. HistType
  BY <1>1 DEF NetInit, HistType
<1>3. Opened = {} /\ InList = {}
  BY RxmIs, NetInitInv DEF NetInit, Opened, InList, Listed, NetInv
<1>4. OneTriple /\ NoneYet
  BY <1>3 DEF NetInit, OneTriple, NoneYet
<1>. QED
  BY <1>2, <1>3, <1>4 DEF HistInv

\* Every step keeps the packets of the sockets.
LEMMA HistStep ==
    ASSUME NetInv, HistInv, [NetNext]_allvars
    PROVE  HistInv'
<1>1. CASE NetNext
  <2>1. ASSUME NEW p \in Proc,
               \/ \E t \in Triple : sockalloc(p, t)
               \/ \E q \in Proc : fork(p, q)
               \/ sockalloc_list(p)
               \/ sockread(p)
               \/ sleep(p)
               \/ sockread_copyout(p)
               \/ sockwrite(p)
               \/ sockwrite_copyin(p)
               \/ fileclose(p)
               \/ sockclose(p)
               \/ sockclose_drain(p)
               \/ kill(p)
        PROVE  HistInv'
    BY <2>1, HistSocket, HistFork, HistList, HistRead, HistSleep, HistDone, HistAlloc,
       HistClose, HistUnlist, HistDrain
  <2>. QED
    BY <1>1, <2>1, HistDriver, HistDeliver, HistDrop, HistAlloc, HistArpEth DEF NetNext
<1>2. CASE UNCHANGED allvars
  <2>1. UNCHANGED <<vars, frames, rxq, got, since, triple, fd, sockets, pc>>
    BY <1>2 DEF allvars, netvars, sockvars, procvars
  <2>2. Opened' = Opened /\ InList' = InList
    BY <2>1 DEF Opened, InList, Listed
  <2>3. Quiet
    BY <2>1, <2>2, StillStep DEF Quiet
  <2>. QED
    BY <2>1, <2>3, StillStep, HistQuiet
<1>. QED
  BY <1>1, <1>2

\* What a listed socket has got is what was delivered for it.
LEMMA SockFifoLemma == NetInv /\ HistInv => SockFifo
<1>. SUFFICES ASSUME NetInv, HistInv, NEW i \in DOMAIN sockets, NEW s, s = sockets[i]
              PROVE  /\ {Packets(s)[j][1] : j \in DOMAIN Packets(s)} =
                          {k \in {delivered[n] : n \in since[s] .. Handled} :
                              IsDatagram(frames[k], triple[s])}
                     /\ \A j, k \in DOMAIN Packets(s) : j < k => Packets(s)[j][1] < Packets(s)[k][1]
                     /\ \A j \in DOMAIN Packets(s) :
                            Packets(s)[j][2] = frames[Packets(s)[j][1]].ulen - UDP
  BY DEF SockFifo
<1>1. s \in InList
  BY DEF InList, Listed, NetInv, StackInv, NetTypeOK
<1>2. PICK q, a, n, f, t : q = Packets(s) /\ a = since[s] /\ n = Handled /\ f = frames /\ t = triple[s]
  OBVIOUS
<1>3. Fifo(q, a, n, f, t) /\ a \in 1 .. n + 1 /\ n \in Nat
  BY <1>1, <1>2, HandledIs DEF HistInv, SockHist
<1>4. \A k \in a .. n : delivered[k] = k
  BY <1>2, <1>3, HandledIs
<1>5. {delivered[k] : k \in a .. n} = a .. n
  BY <1>4
<1>6. {q[j][1] : j \in DOMAIN q} = {k \in a .. n : IsDatagram(f[k], t)}
  BY <1>3 DEF Fifo
<1>7. /\ \A j, k \in DOMAIN q : j < k => q[j][1] < q[k][1]
      /\ \A j \in DOMAIN q : q[j][2] = f[q[j][1]].ulen - UDP
  BY <1>3 DEF Fifo
<1>. QED
  BY <1>2, <1>5, <1>6, <1>7

\* Whatever arrives, and however readers, closes and kills interleave with the
\* receive interrupt, a listed socket gets every datagram for it that net_rx()
\* handled since it was listed, once, in order and cut to its payload, and
\* nothing else.
THEOREM NetSockFifo ==
    ASSUME TxLag < N
    PROVE  NetSpec => []SockFifo
<1>1. NetInit => NetInv /\ HistInv
  BY NetInitInv, HistInit
<1>2. NetInv /\ HistInv /\ [NetNext]_allvars => NetInv' /\ HistInv'
  BY NetStep, HistStep
<1>. QED
  BY <1>1, <1>2, SockFifoLemma, PTL DEF NetSpec
=============================================================================
