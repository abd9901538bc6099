--------------------------- MODULE BufCacheProofs ---------------------------
(***************************************************************************)
(* Proofs about modules Virtio and BufCache, for any number of processes,  *)
(* buffers and blocks and queues of any size.                              *)
(***************************************************************************)
EXTENDS BufCache, CommonLemmas, FiniteSetTheorems, FunctionTheorems

-----------------------------------------------------------------------------
(***************************************************************************)
(* The inductive invariant.                                                *)
(***************************************************************************)
\* TypeOK without refcnt, the driver's part and the cache's.
VioType ==
    /\ store \in [Block -> Val]
    /\ data \in [Buf -> Val \cup {None}]
    /\ b_disk \in [Buf -> BOOLEAN]
    /\ free \subseteq Desc /\ queue \subseteq Desc
    /\ next \in [Desc -> Desc \cup {None}]
    /\ ops \in [Desc -> [write : BOOLEAN, sector : Block \cup {None}]]
    /\ addr \in [Desc -> Buf \cup {None}]
    /\ info \in [Desc -> Buf \cup {None}]
    /\ avail \in [Desc -> Desc] /\ used \in [Desc -> Desc]
    /\ avail_idx \in 0 .. UINT16 - 1 /\ taken \in 0 .. UINT16 - 1
    /\ used_idx \in 0 .. UINT16 - 1 /\ used_end \in 0 .. UINT16 - 1
    /\ isr \in BOOLEAN /\ handling \in BOOLEAN
    /\ vpc \in [Proc -> {"idle", "rw", "rw_desc", "rw_wait", "rw_done"}]
    /\ rw \in [Proc -> [b : Buf \cup {None}, write : BOOLEAN,
                       head : Desc \cup {None}]]

BioType ==
    /\ latest \in [Block -> Val]
    /\ blockno \in [Buf -> Block \cup {None}]
    /\ valid \in [Buf -> BOOLEAN] /\ panicked \in BOOLEAN
    /\ lru \in [1 .. Cardinality(Buf) -> Buf]
    /\ holder \in [Buf -> Proc \cup {None}]
    /\ pc \in [Proc -> {"user", "lock", "lock_asleep", "reading",
                       "held", "writing", "brelse"}]
    /\ cur \in [Proc -> Buf \cup {None}]
    /\ pinned \subseteq Buf

\* Every buffer is in the list.
LruInv == \A b \in Buf : \E k \in DOMAIN lru : lru[k] = b

\* A reference is a process's or bpin()'s.
Refs(b) == {p \in Proc : cur[p] = b} \cup (IF b \in pinned THEN {None} ELSE {})

RefInv ==
    /\ \A b \in Buf : refcnt[b] = Cardinality(Refs(b))
    /\ \A p \in Proc : cur[p] = None <=> pc[p] = "user"
    /\ \A p \in Proc : cur[p] # None => blockno[cur[p]] # None

\* The sleep lock is held from bread() to brelse(), and protects valid.
HoldInv ==
    /\ \A p \in Proc, b \in Buf :
          holder[b] = p <=> cur[p] = b /\ pc[p] \in {"reading", "held", "writing"}
    /\ \A p \in Proc : pc[p] \in {"held", "writing"} => valid[cur[p]]
    /\ \A p \in Proc : pc[p] = "reading" => ~valid[cur[p]]
    /\ \A b \in Buf : valid[b] => blockno[b] # None

\* A process in virtio_disk_rw() has given it its buffer.
RwInv ==
    \A p \in Proc :
        /\ vpc[p] # "idle" <=> pc[p] \in {"reading", "writing"}
        /\ vpc[p] # "idle" => rw[p].b = cur[p] /\ (rw[p].write <=> pc[p] = "writing")

Waiting == {p \in Proc : vpc[p] = "rw_wait"}
Live == {p \in Proc : vpc[p] \in {"rw_wait", "rw_done"}}

\* A request under way has three descriptors that say what it is.
ChainInv ==
    /\ \A p \in Live :
        LET h == rw[p].head
        IN  /\ h \in Desc /\ next[h] \in Desc /\ next[next[h]] \in Desc
            /\ h # next[h]
            /\ Chain(h) \cap free = {}
            /\ info[h] = rw[p].b /\ addr[next[h]] = rw[p].b
            /\ ops[h].write = rw[p].write /\ ops[h].sector = blockno[rw[p].b]
    /\ \A p, q \in Live : p # q => Chain(rw[p].head) \cap Chain(rw[q].head) = {}
    /\ \A d \in Desc : d \in free \/ \E p \in Live : d \in Chain(rw[p].head)

DiskInv == \A b \in Buf : b_disk[b] => \E p \in Waiting : rw[p].b = b

\* What is in the two rings.
AvailN == (avail_idx - taken) % UINT16
AvailAt(k) == avail[(taken + k) % NUM]
UsedN == (used_end - used_idx) % UINT16
UsedAt(k) == used[(used_idx + k) % NUM]
WaitHeads == {rw[p].head : p \in Waiting}

\* Each request under way is in one place at most.
QueueInv ==
    /\ AvailN < NUM /\ UsedN < NUM
    /\ queue \subseteq WaitHeads
    /\ \A k \in 0 .. AvailN - 1 : AvailAt(k) \in WaitHeads \ queue
    /\ \A k \in 0 .. UsedN - 1 : UsedAt(k) \in WaitHeads \ queue
    /\ \A j, k \in 0 .. AvailN - 1 : AvailAt(j) = AvailAt(k) => j = k
    /\ \A j, k \in 0 .. UsedN - 1 : UsedAt(j) = UsedAt(k) => j = k
    /\ \A j \in 0 .. AvailN - 1, k \in 0 .. UsedN - 1 : AvailAt(j) # UsedAt(k)

\* The device has filled p's buffer.
Filled(p) ==
    \/ vpc[p] = "rw_done"
    \/ vpc[p] = "rw_wait" /\ \E k \in 0 .. UsedN - 1 : UsedAt(k) = rw[p].head

\* Where the last contents of a block are: in a valid buffer, or else on disk,
\* or in a buffer that the device has filled.
ValidData == \A b \in Buf : valid[b] => data[b] = latest[blockno[b]]

StoreData ==
    \A k \in Block : store[k] # latest[k] =>
        \E b \in Buf : blockno[b] = k /\ valid[b] /\ (b \in pinned \/ holder[b] # None)

ReadData ==
    \A p \in Proc : pc[p] = "reading" /\ Filled(p) => data[cur[p]] = latest[blockno[cur[p]]]

DataInv == ValidData /\ StoreData /\ ReadData

IInv ==
    /\ TypeOK /\ LruInv /\ RefInv /\ HoldInv /\ OneBuffer /\ RwInv /\ ChainInv
    /\ DiskInv /\ QueueInv /\ DataInv /\ NoLostCompletion /\ NoLostWakeup

-----------------------------------------------------------------------------
(***************************************************************************)
(* Facts used in many places.                                              *)
(***************************************************************************)
\* The sizes of the rings and of their counters.
LEMMA Sizes ==
    ASSUME NUM \in QueueSizes
    PROVE  /\ NUM \in Nat \ {0} /\ NUM >= 3 /\ Desc = 0 .. NUM - 1
           /\ UINT16 \in Nat \ {0} /\ UINT16 % NUM = 0 /\ UINT16 >= NUM
           /\ \A k \in Int : k % NUM \in Desc
           /\ \A k \in Int : Inc16(k) \in 0 .. UINT16 - 1
<1>1. NUM \in Nat \ {0} /\ NUM >= 3 /\ UINT16 \in Nat \ {0} /\ UINT16 % NUM = 0
  BY VirtioAssumption
<1>2. ASSUME UINT16 < NUM PROVE FALSE
  <2>1. UINT16 \in 0 .. NUM - 1
    BY <1>1, <1>2
  <2>2. UINT16 % NUM = UINT16
    BY <1>1, <2>1, ModSmall
  <2>. QED
    BY <1>1, <2>2
<1>3. \A k \in Int : k % NUM \in 0 .. NUM - 1
  BY <1>1, ModType
<1>4. ASSUME NEW k \in Int PROVE Inc16(k) \in 0 .. UINT16 - 1
  <2>. DEFINE j == k + 1
  <2>1. j \in Int
    OBVIOUS
  <2>2. j % UINT16 \in 0 .. UINT16 - 1
    <3>. HIDE DEF j
    <3>. QED  BY <1>1, <2>1, ModType
  <2>. QED
    BY <2>2 DEF Inc16
<1>. QED
  BY <1>1, <1>2, <1>3, <1>4 DEF Desc

\* None is no process and no buffer, block or value.
LEMMA NoneIsNone ==
    None \notin Proc /\ None \notin Buf /\ None \notin Block /\ None \notin Val
  BY VirtioAssumption

\* The least member of a set of descriptors.
LEMMA MinIn ==
    ASSUME NEW S \in SUBSET Nat, S # {}
    PROVE  Min(S) \in S
  BY Least DEF Min

\* bget() recycles a buffer that nobody refers to.
LEMMA VictimUnused ==
    ASSUME TypeOK, LruInv, Unused # {}
    PROVE  Victim \in Unused
<1>. DEFINE n == Cardinality(Buf)
            S == {k \in DOMAIN lru : lru[k] \in Unused}
<1>1. n \in Nat /\ DOMAIN lru = 1 .. n
  BY VirtioAssumption, FS_CardinalityType DEF TypeOK
<1>2. S # {}
  BY DEF LruInv, Unused
<1>3. S \in SUBSET (0 .. n)
  BY <1>1
<1>4. \E i \in S : \A j \in S : i >= j
  <2>. HIDE DEF n, S
  <2>. QED  BY <1>1, <1>2, <1>3, Greatest
<1>5. Max(S) \in S
  BY <1>4 DEF Max
<1>. QED
  BY <1>5 DEF Victim

\* Sets of references are finite and no larger than the bound on refcnt.
LEMMA RefsBounded ==
    ASSUME NEW S, S \subseteq Proc \cup {None}
    PROVE  IsFiniteSet(S) /\ Cardinality(S) \in 0 .. Cardinality(Proc) + 1
<1>1. IsFiniteSet(Proc) /\ Cardinality(Proc) \in Nat
  BY VirtioAssumption, FS_CardinalityType
<1>2. IsFiniteSet(Proc \cup {None}) /\ Cardinality(Proc \cup {None}) = Cardinality(Proc) + 1
  BY <1>1, NoneIsNone, FS_AddElement
<1>3. IsFiniteSet(S) /\ Cardinality(S) <= Cardinality(Proc \cup {None})
  BY <1>2, FS_Subset
<1>4. Cardinality(S) \in Nat
  BY <1>3, FS_CardinalityType
<1>. QED
  BY <1>1, <1>2, <1>3, <1>4

\* A buffer with a reference is not unused.
LEMMA Referenced ==
    ASSUME RefInv, NEW b \in Buf
    PROVE  /\ refcnt[b] \in 0 .. Cardinality(Proc) + 1
           /\ refcnt[b] = 0 <=> Refs(b) = {}
           /\ refcnt[b] = 0 => b \notin pinned /\ \A p \in Proc : cur[p] # b
<1>1. Refs(b) \subseteq Proc \cup {None}
  BY DEF Refs
<1>2. IsFiniteSet(Refs(b)) /\ Cardinality(Refs(b)) \in 0 .. Cardinality(Proc) + 1
  BY <1>1, RefsBounded
<1>3. Refs(b) = {} => b \notin pinned /\ \A p \in Proc : cur[p] # b
  BY DEF Refs
<1>4. Cardinality(Refs(b)) = 0 <=> Refs(b) = {}
  BY <1>2, FS_EmptySet
<1>. QED
  BY <1>2, <1>3, <1>4 DEF RefInv

\* One process holds a buffer at a time.
LEMMA OneHolder ==
    ASSUME TypeOK, HoldInv, NEW p \in Proc, NEW q \in Proc, cur[p] = cur[q],
           cur[p] # None,
           pc[p] \in {"reading", "held", "writing"},
           pc[q] \in {"reading", "held", "writing"}
    PROVE  p = q
<1>1. cur[p] \in Buf
  BY DEF TypeOK
<1>2. holder[cur[p]] = p /\ holder[cur[p]] = q
  BY <1>1 DEF HoldInv
<1>. QED
  BY <1>2

\* The descriptors of a request, and whose they are.
LEMMA ChainFacts ==
    ASSUME TypeOK, ChainInv, NEW p \in Live
    PROVE  /\ p \in Proc
           /\ rw[p].head \in Desc /\ next[rw[p].head] \in Desc
           /\ next[next[rw[p].head]] \in Desc
           /\ Chain(rw[p].head) \subseteq Desc
           /\ rw[p].head \in Chain(rw[p].head)
           /\ next[rw[p].head] \in Chain(rw[p].head)
           /\ rw[p].head # next[rw[p].head]
           /\ \A q \in Live : rw[q].head \in Chain(rw[p].head) => q = p
<1>1. /\ rw[p].head \in Desc /\ next[rw[p].head] \in Desc
      /\ next[next[rw[p].head]] \in Desc /\ rw[p].head # next[rw[p].head]
  BY DEF ChainInv
<1>2. \A q \in Live : rw[q].head \in Chain(rw[q].head)
  BY DEF Chain
<1>3. \A q \in Live : q # p => Chain(rw[q].head) \cap Chain(rw[p].head) = {}
  BY DEF ChainInv
<1>4. /\ Chain(rw[p].head) \subseteq Desc /\ next[rw[p].head] \in Chain(rw[p].head)
      /\ rw[p].head \in Chain(rw[p].head)
  BY <1>1 DEF Chain
<1>5. \A q \in Live : rw[q].head \in Chain(rw[p].head) => q = p
  BY <1>2, <1>3
<1>6. p \in Proc
  BY DEF Live
<1>. QED
  BY <1>1, <1>4, <1>5, <1>6

\* The three descriptors that alloc3_desc() finds.
LEMMA ThreeFree ==
    ASSUME NUM \in QueueSizes, free \subseteq Desc, Cardinality(free) >= 3
    PROVE  LET i0 == Min(free)
               i1 == Min(free \ {i0})
               i2 == Min(free \ {i0, i1})
           IN  /\ i0 \in free /\ i1 \in free /\ i2 \in free
               /\ i0 # i1 /\ i0 # i2 /\ i1 # i2
<1>. DEFINE i0 == Min(free)
            i1 == Min(free \ {i0})
            i2 == Min(free \ {i0, i1})
<1>1. Desc \subseteq Nat /\ IsFiniteSet(Desc)
  BY Sizes, FS_Interval, 0 \in Int, NUM - 1 \in Int
<1>2. IsFiniteSet(free) /\ Cardinality(free) \in Nat /\ free \in SUBSET Nat
  BY <1>1, FS_Subset, FS_CardinalityType
<1>3. i0 \in free
  <2>1. free # {}
    BY FS_EmptySet
  <2>. QED  BY <1>2, <2>1, MinIn
<1>. HIDE DEF i0
<1>4. IsFiniteSet(free \ {i0}) /\ Cardinality(free \ {i0}) = Cardinality(free) - 1
  BY <1>2, <1>3, FS_RemoveElement
<1>5. i1 \in free \ {i0}
  <2>1. free \ {i0} # {}
    BY <1>2, <1>4, FS_EmptySet
  <2>. QED  BY <1>2, <2>1, MinIn
<1>. HIDE DEF i1
<1>6. /\ IsFiniteSet((free \ {i0}) \ {i1})
      /\ Cardinality((free \ {i0}) \ {i1}) = Cardinality(free \ {i0}) - 1
  BY <1>4, <1>5, FS_RemoveElement
<1>7. i2 \in free \ {i0, i1}
  <2>1. (free \ {i0}) \ {i1} = free \ {i0, i1}
    OBVIOUS
  <2>2. free \ {i0, i1} # {}
    BY <1>2, <1>4, <1>6, <2>1, FS_EmptySet
  <2>. QED  BY <1>2, <2>2, MinIn
<1>. HIDE DEF i2
<1>. QED
  BY <1>3, <1>5, <1>7 DEF i0, i1, i2

\* What submit() does to the descriptors and to p's request.
LEMMA SubmitStep ==
    ASSUME TypeOK, NEW p \in Proc, submit(p)
    PROVE  \E i0, i1, i2 \in free :
             /\ i0 # i1 /\ i0 # i2 /\ i1 # i2
             /\ free' = free \ {i0, i1, i2}
             /\ next' = [next EXCEPT ![i0] = i1, ![i1] = i2, ![i2] = None]
             /\ addr' = [addr EXCEPT ![i1] = rw[p].b]
             /\ info' = [info EXCEPT ![i0] = rw[p].b]
             /\ ops' = [ops EXCEPT ![i0] =
                          [write |-> rw[p].write, sector |-> blockno[rw[p].b]]]
             /\ avail' = [avail EXCEPT ![avail_idx % NUM] = i0]
             /\ rw' = [rw EXCEPT ![p] = [b |-> rw[p].b, write |-> rw[p].write, head |-> i0]]
<1>. DEFINE i0 == Min(free)
            i1 == Min(free \ {i0})
            i2 == Min(free \ {i0, i1})
            r  == [b |-> rw[p].b, write |-> rw[p].write, head |-> i0]
<1>1. /\ i0 \in free /\ i1 \in free /\ i2 \in free
      /\ i0 # i1 /\ i0 # i2 /\ i1 # i2
  BY ThreeFree DEF TypeOK, submit
<1>2. /\ free' = free \ {i0, i1, i2}
      /\ next' = [next EXCEPT ![i0] = i1, ![i1] = i2, ![i2] = None]
      /\ addr' = [addr EXCEPT ![i1] = rw[p].b]
      /\ info' = [info EXCEPT ![i0] = rw[p].b]
      /\ ops' = [ops EXCEPT ![i0] =
                   [write |-> rw[p].write, sector |-> blockno[rw[p].b]]]
      /\ avail' = [avail EXCEPT ![avail_idx % NUM] = i0]
      /\ rw' = [rw EXCEPT ![p].head = i0]
  BY DEF submit
<1>. HIDE DEF i0, i1, i2
<1>3. rw[p] \in [b : Buf \cup {None}, write : BOOLEAN, head : Desc \cup {None}]
  BY DEF TypeOK
<1>4. [rw[p] EXCEPT !.head = i0] = r
  BY <1>3
<1>5. rw' = [rw EXCEPT ![p] = r]
  BY <1>2, <1>4
<1>. QED
  BY <1>1, <1>2, <1>5

-----------------------------------------------------------------------------
(***************************************************************************)
(* References: refcnt counts them, whoever adds or drops one.              *)
(***************************************************************************)

\* One reference more, or one fewer.
LEMMA RefsChange ==
    ASSUME NEW S, S \subseteq Proc \cup {None}, NEW x \in Proc \cup {None}
    PROVE  /\ x \notin S => Cardinality(S \cup {x}) = Cardinality(S) + 1
           /\ x \in S => Cardinality(S \ {x}) = Cardinality(S) - 1
<1>1. IsFiniteSet(S)
  BY RefsBounded
<1>. QED
  BY <1>1, FS_AddElement, FS_RemoveElement

\* bget() adds the caller's reference, bpin() and bunpin() the log's, and
\* brelse() drops the caller's: refcnt follows, within its bound.
LEMMA RefCount ==
    ASSUME TypeOK, LruInv, RefInv, Next
    PROVE  /\ refcnt' \in [Buf -> 0 .. Cardinality(Proc) + 1]
           /\ \A b \in Buf : refcnt'[b] = Cardinality(Refs(b)')
<1>. USE NoneIsNone
<1>1. \A b \in Buf : Refs(b)' \subseteq Proc \cup {None} /\ Refs(b) \subseteq Proc \cup {None}
  BY DEF Refs
<1>2. \A b \in Buf : Cardinality(Refs(b)') \in 0 .. Cardinality(Proc) + 1
  BY <1>1, RefsBounded
<1>t. /\ refcnt \in [Buf -> 0 .. Cardinality(Proc) + 1] /\ cur \in [Proc -> Buf \cup {None}]
      /\ pinned \subseteq Buf /\ \A b \in Buf : refcnt[b] = Cardinality(Refs(b))
      /\ \A p \in Proc : cur[p] = None <=> pc[p] = "user"
  BY DEF TypeOK, RefInv
<1>. DEFINE Counted == /\ refcnt' = [b \in Buf |-> refcnt'[b]]
                       /\ \A b \in Buf : refcnt'[b] = Cardinality(Refs(b)')
<1>3. SUFFICES Counted
  BY <1>2
<1>4. ASSUME UNCHANGED <<refcnt, cur, pinned>> PROVE Counted
  BY <1>4, <1>t DEF Refs
<1>5. ASSUME NEW p \in Proc, NEW b \in Buf, cur[p] = None,
             refcnt' = [refcnt EXCEPT ![b] = @ + 1], cur' = [cur EXCEPT ![p] = b],
             UNCHANGED pinned
      PROVE  Counted
  <2>1. p \notin Refs(b) /\ Refs(b)' = Refs(b) \cup {p}
    BY <1>5, <1>t DEF Refs
  <2>2. \A c \in Buf \ {b} : Refs(c)' = Refs(c)
    BY <1>5, <1>t DEF Refs
  <2>3. Cardinality(Refs(b)') = Cardinality(Refs(b)) + 1
    BY <2>1, <1>1, RefsChange
  <2>. QED
    BY <1>5, <1>t, <2>2, <2>3
<1>6. ASSUME NEW p \in Proc, NEW blk \in Block, bget_hit(p, blk) PROVE Counted
  <2>1. PICK b \in Cached(blk) : /\ refcnt' = [refcnt EXCEPT ![b] = @ + 1]
                                 /\ cur' = [cur EXCEPT ![p] = b]
    BY <1>6 DEF bget_hit
  <2>2. b \in Buf /\ cur[p] = None /\ UNCHANGED pinned
    BY <1>6, <1>t DEF bget_hit, Cached
  <2>. QED
    BY <1>5, <2>1, <2>2
<1>7. ASSUME NEW p \in Proc, NEW blk \in Block, bget_miss(p, blk) PROVE Counted
  <2>1. CASE Unused = {}
    BY <1>4, <1>7, <2>1 DEF bget_miss
  <2>2. CASE Unused # {}
    <3>1. Victim \in Buf /\ refcnt[Victim] = 0
      BY <2>2, VictimUnused DEF Unused
    <3>2. /\ refcnt' = [refcnt EXCEPT ![Victim] = 1] /\ cur' = [cur EXCEPT ![p] = Victim]
          /\ UNCHANGED pinned /\ cur[p] = None
      BY <1>7, <1>t, <2>2 DEF bget_miss, recycle
    <3>3. refcnt' = [refcnt EXCEPT ![Victim] = @ + 1]
      BY <3>1, <3>2
    <3>. QED
      BY <1>5, <3>1, <3>2, <3>3
  <2>. QED
    BY <2>1, <2>2
<1>8. ASSUME NEW p \in Proc, bpin(p) \/ bunpin(p), cur[p] # None PROVE Counted
  <2>. DEFINE b == cur[p]
  <2>1. b \in Buf
    BY <1>8, <1>t
  <2>2. \A c \in Buf \ {b} : Refs(c)' = Refs(c)
    BY <1>8, <1>t DEF Refs, bpin, bunpin
  <2>3. CASE bpin(p)
    <3>1. None \notin Refs(b) /\ Refs(b)' = Refs(b) \cup {None}
      BY <1>t, <2>1, <2>3 DEF Refs, bpin
    <3>2. Cardinality(Refs(b)') = Cardinality(Refs(b)) + 1
      BY <1>1, <2>1, <3>1, RefsChange
    <3>. QED
      BY <1>t, <2>1, <2>2, <2>3, <3>2 DEF bpin
  <2>4. CASE bunpin(p)
    <3>1. None \in Refs(b) /\ Refs(b)' = Refs(b) \ {None}
      BY <1>t, <2>1, <2>4 DEF Refs, bunpin
    <3>2. Cardinality(Refs(b)') = Cardinality(Refs(b)) - 1
      BY <1>1, <2>1, <3>1, RefsChange
    <3>. QED
      BY <1>t, <2>1, <2>2, <2>4, <3>2 DEF bunpin
  <2>. QED
    BY <1>8, <2>3, <2>4
<1>9. ASSUME NEW p \in Proc, brelse_unref(p) PROVE Counted
  <2>1. PICK b \in Buf : b = cur[p]
    BY <1>9, <1>t DEF brelse_unref
  <2>2. \A c \in Buf \ {b} : Refs(c)' = Refs(c)
    BY <1>9, <1>t, <2>1 DEF Refs, brelse_unref
  <2>3. p \in Refs(b) /\ Refs(b)' = Refs(b) \ {p}
    BY <1>t, <1>9, <2>1 DEF Refs, brelse_unref
  <2>4. Cardinality(Refs(b)') = Cardinality(Refs(b)) - 1
    BY <1>1, <2>1, <2>3, RefsChange
  <2>. QED
    BY <1>t, <1>9, <2>1, <2>2, <2>4 DEF brelse_unref
<1>10. ASSUME NEW p \in Proc, bread(p) \/ bread_end(p) \/ bwrite(p) \/ bwrite_end(p) \/ brelse(p)
       PROVE Counted
  BY <1>4, <1>10 DEF bread, bread_end, bwrite, bwrite_end, brelse
<1>11. ASSUME NEW p \in Proc, NEW v \in Val, modify(p, v) PROVE Counted
  BY <1>4, <1>11 DEF modify
<1>12. ASSUME UNCHANGED bio PROVE Counted
  BY <1>4, <1>12 DEF bio
<1>13. ASSUME NEW p \in Proc, bpin(p) \/ bunpin(p) PROVE cur[p] # None
  BY <1>13, <1>t DEF bpin, bunpin
<1>. QED
  BY <1>6, <1>7, <1>8, <1>9, <1>10, <1>11, <1>12, <1>13 DEF Next, Step

-----------------------------------------------------------------------------
(***************************************************************************)
(* Types.                                                                  *)
(***************************************************************************)
\* Steps of the callers in bio.c that leave the disk driver alone.
LEMMA TypeOfBio ==
    ASSUME TypeOK, LruInv, RefInv, HoldInv, RwInv, ChainInv, Next, UNCHANGED vio,
           NEW p \in Proc
    PROVE  /\ \A blk \in Block : bget_hit(p, blk) \/ bget_miss(p, blk) => TypeOK'
           /\ bread(p) \/ bpin(p) \/ bunpin(p) \/ brelse(p) \/ brelse_unref(p) => TypeOK'
<1>0. refcnt' \in [Buf -> 0 .. Cardinality(Proc) + 1] /\ NUM' = NUM /\ Desc' = Desc
  BY RefCount DEF Next, Desc
<1>1. VioType'
  BY <1>0 DEF TypeOK, VioType, vio, device
<1>2. SUFFICES /\ \A blk \in Block : bget_hit(p, blk) \/ bget_miss(p, blk) => BioType'
               /\ bread(p) \/ bpin(p) \/ bunpin(p) \/ brelse(p) \/ brelse_unref(p) => BioType'
  BY <1>0, <1>1 DEF TypeOK, VioType, BioType
<1>t. BioType
  BY DEF TypeOK, BioType
<1>3. ASSUME NEW blk \in Block, bget_hit(p, blk) PROVE BioType'
  <2>1. \E b \in Buf : cur' = [cur EXCEPT ![p] = b]
    BY <1>3 DEF bget_hit, Cached
  <2>. QED
    BY <1>t, <1>3, <2>1 DEF BioType, bget_hit, Goto
<1>4. ASSUME NEW blk \in Block, bget_miss(p, blk) PROVE BioType'
  <2>1. CASE Unused = {}
    BY <1>t, <1>4, <2>1 DEF BioType, bget_miss
  <2>2. CASE Unused # {}
    <3>1. Victim \in Buf
      BY <2>2, VictimUnused DEF Unused
    <3>. QED
      BY <1>t, <1>4, <2>2, <3>1 DEF BioType, bget_miss, recycle, Goto
  <2>. QED
    BY <2>1, <2>2
<1>5. ASSUME bread(p) PROVE BioType'
  BY <1>t, <1>5 DEF BioType, bread, Goto
<1>6. ASSUME bpin(p) \/ bunpin(p) PROVE BioType'
  <2>1. cur[p] \in Buf
    BY <1>t, <1>6 DEF BioType, RefInv, bpin, bunpin
  <2>. QED
    BY <1>t, <1>6, <2>1 DEF BioType, bpin, bunpin
<1>7. ASSUME brelse(p) PROVE BioType'
  BY <1>t, <1>7 DEF BioType, brelse, releasesleep
<1>8. ASSUME brelse_unref(p) PROVE BioType'
  <2>1. cur[p] \in Buf
    BY <1>t, <1>8 DEF BioType, RefInv, brelse_unref
  <2>2. ToHead(cur[p]) \in [1 .. Cardinality(Buf) -> Buf]
    <3>. DEFINE i == CHOOSE k \in DOMAIN lru : lru[k] = cur[p]
                n == Cardinality(Buf)
    <3>1. i \in 1 .. n /\ n \in Nat
      BY <1>t, <2>1, VirtioAssumption, FS_CardinalityType DEF BioType, LruInv
    <3>. HIDE DEF i
    <3>2. \A k \in 1 .. n : k # 1 /\ k <= i => k - 1 \in 1 .. n
      BY <3>1
    <3>3. \A k \in 1 .. n : (IF k = 1 THEN cur[p]
                             ELSE IF k <= i THEN lru[k - 1] ELSE lru[k]) \in Buf
      BY <1>t, <2>1, <3>1, <3>2 DEF BioType
    <3>. QED
      BY <1>t, <3>3 DEF BioType, ToHead, i
  <2>. QED
    BY <1>t, <1>8, <2>1, <2>2 DEF BioType, brelse_unref, Goto
<1>. QED
  BY <1>3, <1>4, <1>5, <1>6, <1>7, <1>8

\* The call and the return of virtio_disk_rw(), the driver's steps, the device's
\* and the interrupt handler's.
LEMMA TypeOfVio ==
    ASSUME TypeOK, RefInv, HoldInv, ChainInv, RwInv, QueueInv, DataInv, UNCHANGED NUM
    PROVE  /\ \A p \in Proc, b \in Buf, w \in BOOLEAN : virtio_disk_rw(p, b, w) => VioType'
           /\ \A p \in Proc : virtio_disk_rw_end(p) => VioType'
           /\ VNext => VioType'
<1>. DEFINE RwRec == [b : Buf \cup {None}, write : BOOLEAN, head : Desc \cup {None}]
            OpRec == [write : BOOLEAN, sector : Block \cup {None}]
<1>t. VioType /\ Desc' = Desc /\ blockno \in [Buf -> Block \cup {None}]
  BY DEF TypeOK, VioType, Desc
<1>n. /\ \A k \in Int : k % NUM \in Desc
      /\ \A k \in Int : Inc16(k) \in 0 .. UINT16 - 1
      /\ 0 \in Desc /\ UINT16 \in Nat
  BY Sizes DEF TypeOK
<1>r. RwRec' = RwRec /\ OpRec' = OpRec
  BY <1>t
<1>i. avail_idx \in Int /\ taken \in Int /\ used_idx \in Int /\ used_end \in Int
  BY <1>t, <1>n DEF VioType
<1>1. ASSUME NEW p \in Proc, NEW b \in Buf, NEW w \in BOOLEAN, virtio_disk_rw(p, b, w)
      PROVE  VioType'
  <2>1. [b |-> b, write |-> w, head |-> None] \in RwRec
    OBVIOUS
  <2>2. rw' \in [Proc -> RwRec]
    <3>. HIDE DEF RwRec
    <3>. QED  BY <1>t, <1>1, <2>1 DEF virtio_disk_rw, VioType, RwRec
  <2>. QED
    BY <1>t, <1>1, <2>2 DEF virtio_disk_rw, VioType, device
<1>2. ASSUME NEW p \in Proc, virtio_disk_rw_end(p) PROVE VioType'
  <2>0. p \in Live
    BY <1>2 DEF virtio_disk_rw_end, Live
  <2>1. rw[p].head \in Desc /\ Chain(rw[p].head) \subseteq Desc
    BY <2>0, ChainFacts
  <2>2. Idle \in RwRec /\ NoOp \in OpRec
    BY DEF Idle, NoOp
  <2>3. rw' \in [Proc -> RwRec]
    <3>. HIDE DEF RwRec
    <3>. QED  BY <1>t, <1>2, <2>2 DEF virtio_disk_rw_end, VioType, RwRec
  <2>4. ops' \in [Desc -> OpRec]
    <3>. HIDE DEF OpRec
    <3>. QED  BY <1>t, <1>2, <2>2 DEF virtio_disk_rw_end, VioType, OpRec
  <2>5. /\ next' \in [Desc -> Desc \cup {None}] /\ addr' \in [Desc -> Buf \cup {None}]
        /\ info' \in [Desc -> Buf \cup {None}] /\ free' \subseteq Desc
        /\ vpc' \in [Proc -> {"idle", "rw", "rw_desc", "rw_wait", "rw_done"}]
    BY <1>t, <1>2, <2>1 DEF virtio_disk_rw_end, VioType, Freed, WakeDesc
  <2>. QED
    BY <1>t, <1>2, <2>3, <2>4, <2>5 DEF virtio_disk_rw_end, VioType, device
<1>3. ASSUME NEW p \in Proc, alloc3_fail(p) PROVE VioType'
  <2>1. vpc' \in [Proc -> {"idle", "rw", "rw_desc", "rw_wait", "rw_done"}]
    BY <1>t, <1>3 DEF alloc3_fail, VioType, WakeDesc
  <2>. QED
    BY <1>t, <1>3, <2>1 DEF alloc3_fail, VioType, device
<1>4. ASSUME NEW p \in Proc, vpc[p] = "rw", submit(p) PROVE VioType'
  <2>0. rw[p].b \in Buf /\ rw[p].write \in BOOLEAN /\ blockno[rw[p].b] \in Block \cup {None}
    <3>1. rw[p].b = cur[p] /\ cur[p] # None /\ cur[p] \in Buf \cup {None} /\ rw[p] \in RwRec
      BY <1>4 DEF RwInv, RefInv, TypeOK
    <3>. QED
      BY <1>t, <3>1
  <2>1. PICK i0, i1, i2 \in free :
             /\ free' = free \ {i0, i1, i2}
             /\ next' = [next EXCEPT ![i0] = i1, ![i1] = i2, ![i2] = None]
             /\ addr' = [addr EXCEPT ![i1] = rw[p].b]
             /\ info' = [info EXCEPT ![i0] = rw[p].b]
             /\ ops' = [ops EXCEPT ![i0] =
                          [write |-> rw[p].write, sector |-> blockno[rw[p].b]]]
             /\ avail' = [avail EXCEPT ![avail_idx % NUM] = i0]
             /\ rw' = [rw EXCEPT ![p] = [b |-> rw[p].b, write |-> rw[p].write, head |-> i0]]
    BY <1>4, SubmitStep
  <2>2. i0 \in Desc /\ i1 \in Desc /\ i2 \in Desc
    BY <1>t DEF VioType
  <2>3. /\ [b |-> rw[p].b, write |-> rw[p].write, head |-> i0] \in RwRec
        /\ [write |-> rw[p].write, sector |-> blockno[rw[p].b]] \in OpRec
    BY <2>0, <2>2
  <2>4. rw' \in [Proc -> RwRec]
    <3>. HIDE DEF RwRec
    <3>. QED  BY <1>t, <2>1, <2>3 DEF VioType, RwRec
  <2>5. ops' \in [Desc -> OpRec]
    <3>. HIDE DEF OpRec
    <3>. QED  BY <1>t, <2>1, <2>3 DEF VioType, OpRec
  <2>6. /\ next' \in [Desc -> Desc \cup {None}] /\ addr' \in [Desc -> Buf \cup {None}]
        /\ info' \in [Desc -> Buf \cup {None}] /\ free' \subseteq Desc
        /\ avail' \in [Desc -> Desc]
    BY <1>t, <2>0, <2>1, <2>2 DEF VioType
  <2>7. avail_idx' \in 0 .. UINT16 - 1
    BY <1>4, <1>n, <1>i DEF submit
  <2>8. /\ b_disk' \in [Buf -> BOOLEAN]
        /\ vpc' \in [Proc -> {"idle", "rw", "rw_desc", "rw_wait", "rw_done"}]
    BY <1>t, <1>4 DEF submit, VioType
  <2>9. UNCHANGED <<device, data, used_idx, isr, handling>>
    BY <1>4 DEF submit
  <2>. QED
    BY <1>t, <2>4, <2>5, <2>6, <2>7, <2>8, <2>9 DEF VioType, device
<1>5. ASSUME device_take PROVE VioType'
  <2>1. taken % NUM \in Desc /\ Inc16(taken) \in 0 .. UINT16 - 1
    BY <1>i, <1>n
  <2>. QED
    BY <1>t, <1>5, <1>n, <2>1 DEF device_take, VioType
<1>6. ASSUME NEW d \in Desc, device_complete(d) PROVE VioType'
  <2>1. used_end % NUM \in Desc /\ Inc16(used_end) \in 0 .. UINT16 - 1
    BY <1>i, <1>n
  <2>2. PICK p \in Waiting : rw[p].head = d
    BY <1>6 DEF device_complete, QueueInv, WaitHeads
  <2>3. p \in Live /\ p \in Proc /\ vpc[p] # "idle"
    BY <2>2 DEF Waiting, Live
  <2>4. addr[next[d]] = cur[p] /\ ops[d].sector = blockno[cur[p]]
    BY <2>2, <2>3 DEF ChainInv, RwInv
  <2>5. cur[p] \in Buf /\ blockno[cur[p]] \in Block
    BY <1>t, <2>3 DEF RwInv, RefInv, TypeOK
  <2>6. data' \in [Buf -> Val \cup {None}]
    BY <1>t, <1>6, <2>4, <2>5 DEF device_complete, VioType
  <2>7. ops[d].write => data[cur[p]] \in Val
    <3>1. ops[d].write => pc[p] = "writing"
      BY <2>2, <2>3 DEF ChainInv, RwInv
    <3>2. pc[p] = "writing" => data[cur[p]] = latest[blockno[cur[p]]]
      BY <2>3, <2>5 DEF HoldInv, DataInv, ValidData
    <3>. QED
      BY <2>5, <3>1, <3>2 DEF TypeOK
  <2>8. store' \in [Block -> Val]
    BY <1>t, <1>6, <2>4, <2>5, <2>7 DEF device_complete, VioType
  <2>. QED
    BY <1>t, <1>6, <1>n, <2>1, <2>6, <2>8 DEF device_complete, VioType
<1>7. ASSUME virtio_disk_intr \/ intr_end PROVE VioType'
  BY <1>t, <1>7 DEF virtio_disk_intr, intr_end, VioType, device
<1>8. ASSUME intr_entry PROVE VioType'
  <2>1. used_idx % NUM \in Desc /\ Inc16(used_idx) \in 0 .. UINT16 - 1
    BY <1>i, <1>n
  <2>. QED
    BY <1>t, <1>8, <1>n, <2>1 DEF intr_entry, VioType
<1>. QED
  BY <1>1, <1>2, <1>3, <1>4, <1>5, <1>6, <1>7, <1>8 DEF VNext, virtio_disk_rw_start

\* Every step keeps the types.
LEMMA TypeInv ==
    ASSUME IInv, Next
    PROVE  TypeOK'
<1>. USE DEF IInv
<1>0. refcnt' \in [Buf -> 0 .. Cardinality(Proc) + 1] /\ NUM' = NUM /\ NUM \in QueueSizes
  BY RefCount DEF Next, TypeOK
<1>1. SUFFICES VioType' /\ BioType'
  BY <1>0 DEF TypeOK, VioType, BioType
<1>t. VioType /\ BioType
  BY DEF TypeOK, VioType, BioType
<1>2. ASSUME NEW p \in Proc, UNCHANGED vio,
             \/ \E blk \in Block : bget_hit(p, blk) \/ bget_miss(p, blk)
             \/ bread(p) \/ bpin(p) \/ bunpin(p) \/ brelse(p) \/ brelse_unref(p)
      PROVE  VioType' /\ BioType'
  <2>1. TypeOK'
    BY <1>2, TypeOfBio
  <2>. QED
    BY <2>1 DEF TypeOK, VioType, BioType
<1>3. ASSUME NEW p \in Proc, cur[p] # None, NEW w \in BOOLEAN,
             virtio_disk_rw(p, cur[p], w) \/ virtio_disk_rw_end(p)
      PROVE  VioType'
  <2>1. cur[p] \in Buf
    BY <1>t, <1>3 DEF BioType
  <2>. QED
    BY <1>0, <1>3, <2>1, TypeOfVio
<1>4. \A p \in Proc : cur[p] = None <=> pc[p] = "user"
  BY DEF RefInv
<1>5. ASSUME NEW p \in Proc, bread(p) PROVE VioType' /\ BioType'
  <2>1. CASE UNCHANGED vio
    BY <1>2, <1>5, <2>1
  <2>2. CASE virtio_disk_rw(p, cur[p], FALSE)
    <3>1. VioType'
      BY <1>3, <1>4, <1>5, <2>2 DEF bread
    <3>2. BioType'
      BY <1>t, <1>5 DEF bread, BioType, Goto
    <3>. QED
      BY <3>1, <3>2
  <2>. QED
    BY <1>5, <2>1, <2>2 DEF bread
<1>6. ASSUME NEW p \in Proc, bread_end(p) \/ bwrite(p) \/ bwrite_end(p)
      PROVE  VioType' /\ BioType'
  <2>1. cur[p] # None
    BY <1>4, <1>6 DEF bread_end, bwrite, bwrite_end
  <2>2. virtio_disk_rw(p, cur[p], TRUE) \/ virtio_disk_rw_end(p)
    BY <1>6 DEF bread_end, bwrite, bwrite_end
  <2>3. VioType'
    BY <1>3, <2>1, <2>2
  <2>4. BioType'
    BY <1>t, <1>6 DEF bread_end, bwrite, bwrite_end, BioType, Goto
  <2>. QED
    BY <2>3, <2>4
<1>7. ASSUME NEW p \in Proc, NEW v \in Val, modify(p, v) PROVE VioType' /\ BioType'
  <2>1. Desc' = Desc
    BY <1>0 DEF Desc
  <2>2. data' \in [Buf -> Val \cup {None}] /\ latest' \in [Block -> Val]
    BY <1>t, <1>7 DEF modify, VioType, BioType
  <2>3. VioType'
    BY <1>t, <1>7, <2>1, <2>2 DEF modify, VioType, device
  <2>4. BioType'
    BY <1>t, <1>7, <2>2 DEF modify, BioType
  <2>. QED
    BY <2>3, <2>4
<1>8. ASSUME VNext, UNCHANGED bio PROVE VioType' /\ BioType'
  <2>1. VioType'
    BY <1>0, <1>8, TypeOfVio
  <2>2. BioType'
    BY <1>t, <1>8 DEF bio, BioType
  <2>. QED
    BY <2>1, <2>2
<1>9. ASSUME NEW p \in Proc,
             \/ \E blk \in Block : bget_hit(p, blk) \/ bget_miss(p, blk)
             \/ bpin(p) \/ bunpin(p) \/ brelse(p) \/ brelse_unref(p)
      PROVE  UNCHANGED vio
  BY <1>9 DEF bget_hit, bget_miss, bpin, bunpin, brelse, brelse_unref
<1>. QED
  BY <1>2, <1>5, <1>6, <1>7, <1>8, <1>9 DEF Next, Step

-----------------------------------------------------------------------------
(***************************************************************************)
(* The buffer cache.                                                       *)
(***************************************************************************)
\* A buffer moved to the head of the list does not push another out of it.
LEMMA LruStep ==
    ASSUME IInv, Next
    PROVE  LruInv'
<1>. USE DEF IInv
<1>t. lru \in [1 .. Cardinality(Buf) -> Buf] /\ cur \in [Proc -> Buf \cup {None}]
  BY DEF TypeOK
<1>1. ASSUME UNCHANGED lru PROVE LruInv'
  BY <1>1 DEF LruInv
<1>2. ASSUME NEW p \in Proc, brelse_unref(p) PROVE LruInv'
  <2>1. PICK b \in Buf : b = cur[p]
    BY <1>t, <1>2 DEF RefInv, brelse_unref
  <2>. DEFINE i == CHOOSE k \in DOMAIN lru : lru[k] = b
              n == Cardinality(Buf)
  <2>2. i \in 1 .. n /\ n \in Nat /\ lru[i] = b
    BY <1>t, <2>1, VirtioAssumption, FS_CardinalityType DEF LruInv
  <2>3. CASE lru' = lru
    BY <1>1, <2>3
  <2>4. CASE lru' = ToHead(b)
    <3>1. lru' = [k \in 1 .. n |-> IF k = 1 THEN b
                                   ELSE IF k <= i THEN lru[k - 1] ELSE lru[k]]
      BY <1>t, <2>4 DEF ToHead
    <3>. HIDE DEF i
    <3>2. ASSUME NEW c \in Buf PROVE \E k \in 1 .. n : lru'[k] = c
      <4>1. PICK j \in 1 .. n : lru[j] = c
        BY <1>t DEF LruInv
      <4>2. CASE j = i
        <5>1. 1 \in 1 .. n /\ lru'[1] = b
          BY <2>2, <3>1
        <5>. QED
          BY <2>2, <4>1, <4>2, <5>1
      <4>3. CASE j < i
        <5>1. j + 1 \in 1 .. n /\ j + 1 # 1 /\ j + 1 <= i /\ (j + 1) - 1 = j
          BY <2>2, <4>3
        <5>2. lru'[j + 1] = lru[(j + 1) - 1]
          BY <3>1, <5>1
        <5>. QED
          BY <4>1, <5>1, <5>2
      <4>4. CASE j > i
        <5>1. j # 1 /\ ~(j <= i)
          BY <2>2, <4>4
        <5>. QED
          BY <3>1, <4>1, <5>1
      <4>. QED
        BY <2>2, <4>2, <4>3, <4>4
    <3>3. DOMAIN lru' = 1 .. n
      BY <3>1
    <3>. QED
      BY <3>2, <3>3 DEF LruInv
  <2>. QED
    BY <1>2, <2>1, <2>3, <2>4 DEF brelse_unref
<1>3. ASSUME NEW p \in Proc,
             \/ \E blk \in Block : bget_hit(p, blk) \/ bget_miss(p, blk)
             \/ \E v \in Val : modify(p, v)
             \/ bread(p) \/ bread_end(p) \/ bwrite(p) \/ bwrite_end(p)
             \/ bpin(p) \/ bunpin(p) \/ brelse(p)
      PROVE  LruInv'
  BY <1>1, <1>3 DEF bget_hit, bget_miss, modify, bread, bread_end, bwrite, bwrite_end,
                    bpin, bunpin, brelse
<1>4. ASSUME UNCHANGED bio PROVE LruInv'
  BY <1>1, <1>4 DEF bio
<1>. QED
  BY <1>2, <1>3, <1>4 DEF Next, Step

\* What the references say of the processes.
RefCur ==
    /\ \A p \in Proc : cur[p] = None <=> pc[p] = "user"
    /\ \A p \in Proc : cur[p] # None => blockno[cur[p]] # None

\* A process has a buffer from bget() to brelse(), and the buffer a block.
LEMMA RefCurStep ==
    ASSUME IInv, Next
    PROVE  RefCur'
<1>. USE NoneIsNone DEF IInv
<1>t. /\ pc \in [Proc -> {"user", "lock", "lock_asleep", "reading",
                       "held", "writing", "brelse"}]
      /\ cur \in [Proc -> Buf \cup {None}] /\ blockno \in [Buf -> Block \cup {None}]
      /\ holder \in [Buf -> Proc \cup {None}] /\ valid \in [Buf -> BOOLEAN]
      /\ \A q \in Proc : cur[q] = None <=> pc[q] = "user"
  BY DEF TypeOK, RefInv
<1>1. ASSUME NEW p \in Proc, NEW blk \in Block, bget_hit(p, blk) PROVE RefCur'
  BY <1>t, <1>1 DEF RefCur, RefInv, bget_hit, Cached, Goto
<1>2. ASSUME NEW p \in Proc, NEW blk \in Block, bget_miss(p, blk) PROVE RefCur'
  <2>1. CASE Unused = {}
    BY <1>t, <1>2, <2>1 DEF RefCur, RefInv, bget_miss
  <2>2. CASE Unused # {}
    <3>1. Victim \in Buf /\ refcnt[Victim] = 0
      BY <2>2, VictimUnused DEF Unused
    <3>2. Victim \notin pinned /\ \A q \in Proc : cur[q] # Victim
      BY <3>1, Referenced
    <3>. QED
      BY <1>t, <1>2, <2>2, <3>1, <3>2 DEF RefCur, RefInv, bget_miss, recycle, Cached, Goto
  <2>. QED
    BY <2>1, <2>2
<1>3. ASSUME NEW p \in Proc, bread(p) PROVE RefCur'
  BY <1>t, <1>3 DEF RefCur, RefInv, bread, Goto
<1>4. ASSUME NEW p \in Proc, bread_end(p) PROVE RefCur'
  BY <1>t, <1>4 DEF RefCur, RefInv, bread_end, Goto
<1>5. ASSUME NEW p \in Proc, NEW v \in Val, modify(p, v) PROVE RefCur'
  BY <1>t, <1>5 DEF RefCur, RefInv, modify
<1>6. ASSUME NEW p \in Proc, bwrite(p) PROVE RefCur'
  BY <1>t, <1>6 DEF RefCur, RefInv, bwrite, Goto
<1>7. ASSUME NEW p \in Proc, bwrite_end(p) PROVE RefCur'
  BY <1>t, <1>7 DEF RefCur, RefInv, bwrite_end, Goto
<1>8. ASSUME NEW p \in Proc, bpin(p) PROVE RefCur'
  BY <1>t, <1>8 DEF RefCur, RefInv, bpin
<1>9. ASSUME NEW p \in Proc, bunpin(p) PROVE RefCur'
  BY <1>t, <1>9 DEF RefCur, RefInv, bunpin
<1>10. ASSUME NEW p \in Proc, brelse(p) PROVE RefCur'
  BY <1>t, <1>10 DEF RefCur, RefInv, brelse, releasesleep
<1>11. ASSUME NEW p \in Proc, brelse_unref(p) PROVE RefCur'
  BY <1>t, <1>11 DEF RefCur, RefInv, brelse_unref, Goto
<1>12. ASSUME VNext, UNCHANGED bio PROVE RefCur'
  BY <1>t, <1>12 DEF RefCur, RefInv, bio
<1>. QED
  BY <1>1, <1>2, <1>3, <1>4, <1>5, <1>6,
     <1>7, <1>8, <1>9, <1>10, <1>11, <1>12 DEF Next, Step

\* acquiresleep() and releasesleep(): the holder is the process that is past bread().
LEMMA HoldStep ==
    ASSUME IInv, Next
    PROVE  HoldInv'
<1>. USE NoneIsNone DEF IInv
<1>t. /\ pc \in [Proc -> {"user", "lock", "lock_asleep", "reading",
                       "held", "writing", "brelse"}]
      /\ cur \in [Proc -> Buf \cup {None}] /\ blockno \in [Buf -> Block \cup {None}]
      /\ holder \in [Buf -> Proc \cup {None}] /\ valid \in [Buf -> BOOLEAN]
      /\ \A q \in Proc : cur[q] = None <=> pc[q] = "user"
  BY DEF TypeOK, RefInv
<1>1. ASSUME NEW p \in Proc, NEW blk \in Block, bget_hit(p, blk) PROVE HoldInv'
  BY <1>t, <1>1 DEF HoldInv, RefInv, bget_hit, Cached, Goto
<1>2. ASSUME NEW p \in Proc, NEW blk \in Block, bget_miss(p, blk) PROVE HoldInv'
  <2>1. CASE Unused = {}
    BY <1>t, <1>2, <2>1 DEF HoldInv, RefInv, bget_miss
  <2>2. CASE Unused # {}
    <3>1. Victim \in Buf /\ refcnt[Victim] = 0
      BY <2>2, VictimUnused DEF Unused
    <3>2. Victim \notin pinned /\ \A q \in Proc : cur[q] # Victim
      BY <3>1, Referenced
    <3>. QED
      BY <1>t, <1>2, <2>2, <3>1, <3>2 DEF HoldInv, RefInv, bget_miss, recycle, Cached, Goto
  <2>. QED
    BY <2>1, <2>2
<1>3. ASSUME NEW p \in Proc, bread(p) PROVE HoldInv'
  <2>1. cur[p] \in Buf /\ pc[p] = "lock"
    BY <1>t, <1>3 DEF bread
  <2>2. UNCHANGED <<cur, valid, blockno>>
    BY <1>3 DEF bread
  <2>3. CASE holder[cur[p]] # None
    BY <1>t, <1>3, <2>1, <2>2, <2>3 DEF HoldInv, bread, Goto
  <2>4. CASE holder[cur[p]] = None
    <3>1. \/ pc' = [pc EXCEPT ![p] = "held"] /\ valid[cur[p]]
          \/ pc' = [pc EXCEPT ![p] = "reading"] /\ ~valid[cur[p]]
      BY <1>3, <2>4 DEF bread, Goto
    <3>2. holder' = [holder EXCEPT ![cur[p]] = p]
      BY <1>3, <2>4 DEF bread
    <3>. QED
      BY <1>t, <2>1, <2>2, <2>4, <3>1, <3>2 DEF HoldInv
  <2>. QED
    BY <2>3, <2>4
<1>4. ASSUME NEW p \in Proc, bread_end(p) PROVE HoldInv'
  BY <1>t, <1>4 DEF HoldInv, RefInv, bread_end, Goto
<1>5. ASSUME NEW p \in Proc, NEW v \in Val, modify(p, v) PROVE HoldInv'
  BY <1>t, <1>5 DEF HoldInv, RefInv, modify
<1>6. ASSUME NEW p \in Proc, bwrite(p) PROVE HoldInv'
  BY <1>t, <1>6 DEF HoldInv, RefInv, bwrite, Goto
<1>7. ASSUME NEW p \in Proc, bwrite_end(p) PROVE HoldInv'
  BY <1>t, <1>7 DEF HoldInv, RefInv, bwrite_end, Goto
<1>8. ASSUME NEW p \in Proc, bpin(p) PROVE HoldInv'
  BY <1>t, <1>8 DEF HoldInv, RefInv, bpin
<1>9. ASSUME NEW p \in Proc, bunpin(p) PROVE HoldInv'
  BY <1>t, <1>9 DEF HoldInv, RefInv, bunpin
<1>10. ASSUME NEW p \in Proc, brelse(p) PROVE HoldInv'
  BY <1>t, <1>10 DEF HoldInv, RefInv, brelse, releasesleep
<1>11. ASSUME NEW p \in Proc, brelse_unref(p) PROVE HoldInv'
  BY <1>t, <1>11 DEF HoldInv, RefInv, brelse_unref, Goto
<1>12. ASSUME VNext, UNCHANGED bio PROVE HoldInv'
  BY <1>t, <1>12 DEF HoldInv, RefInv, bio
<1>. QED
  BY <1>1, <1>2, <1>3, <1>4, <1>5, <1>6,
     <1>7, <1>8, <1>9, <1>10, <1>11, <1>12 DEF Next, Step

\* bget() gives a block a second buffer only if it found none.
LEMMA OneBufferStep ==
    ASSUME IInv, Next
    PROVE  OneBuffer'
<1>. USE NoneIsNone DEF IInv
<1>t. /\ pc \in [Proc -> {"user", "lock", "lock_asleep", "reading",
                       "held", "writing", "brelse"}]
      /\ cur \in [Proc -> Buf \cup {None}] /\ blockno \in [Buf -> Block \cup {None}]
      /\ holder \in [Buf -> Proc \cup {None}] /\ valid \in [Buf -> BOOLEAN]
      /\ \A q \in Proc : cur[q] = None <=> pc[q] = "user"
  BY DEF TypeOK, RefInv
<1>1. ASSUME NEW p \in Proc, NEW blk \in Block, bget_hit(p, blk) PROVE OneBuffer'
  BY <1>t, <1>1 DEF OneBuffer, bget_hit, Cached, Goto
<1>2. ASSUME NEW p \in Proc, NEW blk \in Block, bget_miss(p, blk) PROVE OneBuffer'
  <2>1. CASE Unused = {}
    BY <1>t, <1>2, <2>1 DEF OneBuffer, bget_miss
  <2>2. CASE Unused # {}
    <3>1. Victim \in Buf /\ refcnt[Victim] = 0
      BY <2>2, VictimUnused DEF Unused
    <3>2. Victim \notin pinned /\ \A q \in Proc : cur[q] # Victim
      BY <3>1, Referenced
    <3>. QED
      BY <1>t, <1>2, <2>2, <3>1, <3>2 DEF OneBuffer, bget_miss, recycle, Cached, Goto
  <2>. QED
    BY <2>1, <2>2
<1>3. ASSUME NEW p \in Proc, bread(p) PROVE OneBuffer'
  BY <1>t, <1>3 DEF OneBuffer, bread, Goto
<1>4. ASSUME NEW p \in Proc, bread_end(p) PROVE OneBuffer'
  BY <1>t, <1>4 DEF OneBuffer, bread_end, Goto
<1>5. ASSUME NEW p \in Proc, NEW v \in Val, modify(p, v) PROVE OneBuffer'
  BY <1>t, <1>5 DEF OneBuffer, modify
<1>6. ASSUME NEW p \in Proc, bwrite(p) PROVE OneBuffer'
  BY <1>t, <1>6 DEF OneBuffer, bwrite, Goto
<1>7. ASSUME NEW p \in Proc, bwrite_end(p) PROVE OneBuffer'
  BY <1>t, <1>7 DEF OneBuffer, bwrite_end, Goto
<1>8. ASSUME NEW p \in Proc, bpin(p) PROVE OneBuffer'
  BY <1>t, <1>8 DEF OneBuffer, bpin
<1>9. ASSUME NEW p \in Proc, bunpin(p) PROVE OneBuffer'
  BY <1>t, <1>9 DEF OneBuffer, bunpin
<1>10. ASSUME NEW p \in Proc, brelse(p) PROVE OneBuffer'
  BY <1>t, <1>10 DEF OneBuffer, brelse, releasesleep
<1>11. ASSUME NEW p \in Proc, brelse_unref(p) PROVE OneBuffer'
  BY <1>t, <1>11 DEF OneBuffer, brelse_unref, Goto
<1>12. ASSUME VNext, UNCHANGED bio PROVE OneBuffer'
  BY <1>t, <1>12 DEF OneBuffer, bio
<1>. QED
  BY <1>1, <1>2, <1>3, <1>4, <1>5, <1>6,
     <1>7, <1>8, <1>9, <1>10, <1>11, <1>12 DEF Next, Step

\* virtio_disk_rw() works for the process that called it, on its buffer.
LEMMA RwStep ==
    ASSUME IInv, Next
    PROVE  RwInv'
<1>. USE NoneIsNone DEF IInv
<1>t. /\ pc \in [Proc -> {"user", "lock", "lock_asleep", "reading",
                       "held", "writing", "brelse"}]
      /\ cur \in [Proc -> Buf \cup {None}] /\ blockno \in [Buf -> Block \cup {None}]
      /\ holder \in [Buf -> Proc \cup {None}] /\ valid \in [Buf -> BOOLEAN]
      /\ vpc \in [Proc -> {"idle", "rw", "rw_desc", "rw_wait", "rw_done"}]
      /\ DOMAIN rw = Proc
      /\ \A q \in Proc : cur[q] = None <=> pc[q] = "user"
  BY DEF TypeOK, RefInv
<1>1. ASSUME NEW p \in Proc, NEW blk \in Block, bget_hit(p, blk) PROVE RwInv'
  BY <1>t, <1>1 DEF RwInv, bget_hit, vio, Cached, Goto
<1>2. ASSUME NEW p \in Proc, NEW blk \in Block, bget_miss(p, blk) PROVE RwInv'
  BY <1>t, <1>2 DEF RwInv, bget_miss, Goto, vio
<1>3. ASSUME NEW p \in Proc, bread(p) PROVE RwInv'
  <2>0. pc[p] = "lock" /\ UNCHANGED cur
    BY <1>3 DEF bread
  <2>1. CASE /\ UNCHANGED <<vpc, rw>>
             /\ \E label \in {"lock_asleep", "held"} : pc' = [pc EXCEPT ![p] = label]
    BY <1>t, <2>0, <2>1 DEF RwInv
  <2>2. CASE virtio_disk_rw(p, cur[p], FALSE) /\ pc' = [pc EXCEPT ![p] = "reading"]
    BY <1>t, <1>3, <2>2 DEF RwInv, bread, virtio_disk_rw
  <2>. QED
    BY <1>t, <1>3, <2>1, <2>2 DEF bread, Goto, vio
<1>4. ASSUME NEW p \in Proc, bread_end(p) PROVE RwInv'
  BY <1>t, <1>4 DEF RwInv, bread_end, Goto, virtio_disk_rw_end, WakeDesc
<1>5. ASSUME NEW p \in Proc, NEW v \in Val, modify(p, v) PROVE RwInv'
  BY <1>t, <1>5 DEF RwInv, modify
<1>6. ASSUME NEW p \in Proc, bwrite(p) PROVE RwInv'
  BY <1>t, <1>6 DEF RwInv, bwrite, Goto, virtio_disk_rw
<1>7. ASSUME NEW p \in Proc, bwrite_end(p) PROVE RwInv'
  BY <1>t, <1>7 DEF RwInv, bwrite_end, Goto, virtio_disk_rw_end, WakeDesc
<1>8. ASSUME NEW p \in Proc, bpin(p) PROVE RwInv'
  BY <1>t, <1>8 DEF RwInv, bpin, vio
<1>9. ASSUME NEW p \in Proc, bunpin(p) PROVE RwInv'
  BY <1>t, <1>9 DEF RwInv, bunpin, vio
<1>10. ASSUME NEW p \in Proc, brelse(p) PROVE RwInv'
  BY <1>t, <1>10 DEF RwInv, brelse, vio, releasesleep
<1>11. ASSUME NEW p \in Proc, brelse_unref(p) PROVE RwInv'
  BY <1>t, <1>11 DEF RwInv, brelse_unref, vio, Goto
<1>12. ASSUME VNext, UNCHANGED bio PROVE RwInv'
  <2>1. ASSUME NEW p \in Proc, virtio_disk_rw_start(p) PROVE RwInv'
    <3>1. CASE alloc3_fail(p)
      BY <1>t, <1>12, <2>1, <3>1 DEF RwInv, virtio_disk_rw_start, alloc3_fail, WakeDesc, bio
    <3>2. CASE submit(p)
      <4>1. \E h \in Desc : rw' = [rw EXCEPT ![p] = [b |-> rw[p].b, write |-> rw[p].write,
                                                   head |-> h]]
        BY <3>2, SubmitStep DEF TypeOK
      <4>2. /\ rw'[p].b = rw[p].b /\ rw'[p].write = rw[p].write
            /\ \A q \in Proc : q # p => rw'[q] = rw[q]
        BY <1>t, <4>1
      <4>3. vpc[p] = "rw" /\ vpc' = [vpc EXCEPT ![p] = "rw_wait"] /\ UNCHANGED <<pc, cur>>
        BY <1>12, <2>1, <3>2 DEF virtio_disk_rw_start, submit, bio
      <4>. QED
        BY <1>t, <4>2, <4>3 DEF RwInv
    <3>. QED
      BY <2>1, <3>1, <3>2 DEF virtio_disk_rw_start
  <2>2. ASSUME intr_entry PROVE RwInv'
    BY <1>t, <1>12, <2>2 DEF RwInv, intr_entry, bio
  <2>3. ASSUME \/ device_take \/ virtio_disk_intr \/ intr_end
               \/ \E d \in Desc : device_complete(d)
        PROVE  RwInv'
    BY <1>t, <1>12, <2>3 DEF RwInv, device_take, virtio_disk_intr, intr_end,
       device_complete, bio
  <2>. QED
    BY <1>12, <2>1, <2>2, <2>3 DEF VNext
<1>. QED
  BY <1>1, <1>2, <1>3, <1>4, <1>5, <1>6,
     <1>7, <1>8, <1>9, <1>10, <1>11, <1>12 DEF Next, Step

-----------------------------------------------------------------------------
(***************************************************************************)
(* Wakeups.                                                                *)
(***************************************************************************)
\* Nobody sleeps on a sleep lock that is free.
LockWake == \A p \in Proc : pc[p] = "lock_asleep" => holder[cur[p]] # None

\* Nobody sleeps for descriptors when three are free.
DescWake == \A p \in Proc : vpc[p] = "rw_desc" => Cardinality(free) < 3

\* releasesleep() wakes everyone that waits for the lock it gives up.
LEMMA LockWakeStep ==
    ASSUME IInv, Next
    PROVE  LockWake'
<1>. USE NoneIsNone DEF IInv
<1>t. /\ pc \in [Proc -> {"user", "lock", "lock_asleep", "reading",
                       "held", "writing", "brelse"}]
      /\ cur \in [Proc -> Buf \cup {None}] /\ blockno \in [Buf -> Block \cup {None}]
      /\ holder \in [Buf -> Proc \cup {None}] /\ valid \in [Buf -> BOOLEAN]
      /\ \A q \in Proc : cur[q] = None <=> pc[q] = "user"
  BY DEF TypeOK, RefInv
<1>1. ASSUME NEW p \in Proc, NEW blk \in Block, bget_hit(p, blk) PROVE LockWake'
  BY <1>t, <1>1 DEF LockWake, NoLostWakeup, bget_hit, Cached, Goto
<1>2. ASSUME NEW p \in Proc, NEW blk \in Block, bget_miss(p, blk) PROVE LockWake'
  <2>1. CASE Unused = {}
    BY <1>t, <1>2, <2>1 DEF LockWake, NoLostWakeup, bget_miss
  <2>2. CASE Unused # {}
    <3>1. Victim \in Buf /\ refcnt[Victim] = 0
      BY <2>2, VictimUnused DEF Unused
    <3>2. Victim \notin pinned /\ \A q \in Proc : cur[q] # Victim
      BY <3>1, Referenced
    <3>. QED
      BY <1>t, <1>2, <2>2, <3>1, <3>2 DEF LockWake, NoLostWakeup, bget_miss, recycle,
         Cached, Goto
  <2>. QED
    BY <2>1, <2>2
<1>3. ASSUME NEW p \in Proc, bread(p) PROVE LockWake'
  <2>1. cur[p] \in Buf /\ pc[p] = "lock" /\ UNCHANGED cur
    BY <1>t, <1>3 DEF bread
  <2>2. CASE holder[cur[p]] # None
    BY <1>t, <1>3, <2>1, <2>2 DEF LockWake, NoLostWakeup, bread, Goto
  <2>3. CASE holder[cur[p]] = None
    <3>1. \E label \in {"held", "reading"} : pc' = [pc EXCEPT ![p] = label]
      BY <1>3, <2>3 DEF bread, Goto
    <3>2. holder' = [holder EXCEPT ![cur[p]] = p]
      BY <1>3, <2>3 DEF bread
    <3>. QED
      BY <1>t, <2>1, <3>1, <3>2 DEF LockWake, NoLostWakeup
  <2>. QED
    BY <2>2, <2>3
<1>4. ASSUME NEW p \in Proc, bread_end(p) PROVE LockWake'
  BY <1>t, <1>4 DEF LockWake, NoLostWakeup, bread_end, Goto
<1>5. ASSUME NEW p \in Proc, NEW v \in Val, modify(p, v) PROVE LockWake'
  BY <1>t, <1>5 DEF LockWake, NoLostWakeup, modify
<1>6. ASSUME NEW p \in Proc, bwrite(p) PROVE LockWake'
  BY <1>t, <1>6 DEF LockWake, NoLostWakeup, bwrite, Goto
<1>7. ASSUME NEW p \in Proc, bwrite_end(p) PROVE LockWake'
  BY <1>t, <1>7 DEF LockWake, NoLostWakeup, bwrite_end, Goto
<1>8. ASSUME NEW p \in Proc, bpin(p) PROVE LockWake'
  BY <1>t, <1>8 DEF LockWake, NoLostWakeup, bpin
<1>9. ASSUME NEW p \in Proc, bunpin(p) PROVE LockWake'
  BY <1>t, <1>9 DEF LockWake, NoLostWakeup, bunpin
<1>10. ASSUME NEW p \in Proc, brelse(p) PROVE LockWake'
  BY <1>t, <1>10 DEF LockWake, NoLostWakeup, brelse, releasesleep
<1>11. ASSUME NEW p \in Proc, brelse_unref(p) PROVE LockWake'
  BY <1>t, <1>11 DEF LockWake, NoLostWakeup, brelse_unref, Goto
<1>12. ASSUME VNext, UNCHANGED bio PROVE LockWake'
  BY <1>t, <1>12 DEF LockWake, NoLostWakeup, bio
<1>. QED
  BY <1>1, <1>2, <1>3, <1>4, <1>5, <1>6,
     <1>7, <1>8, <1>9, <1>10, <1>11, <1>12 DEF Next, Step

\* free_chain() wakes everyone that waits for descriptors.
LEMMA DescWakeStep ==
    ASSUME IInv, Next
    PROVE  DescWake'
<1>. USE DEF IInv
<1>t. /\ vpc \in [Proc -> {"idle", "rw", "rw_desc", "rw_wait", "rw_done"}]
      /\ free \subseteq Desc /\ NUM \in QueueSizes
      /\ \A q \in Proc : vpc[q] = "rw_desc" => Cardinality(free) < 3
  BY DEF TypeOK, NoLostWakeup
<1>1. ASSUME UNCHANGED <<vpc, free>> PROVE DescWake'
  BY <1>t, <1>1 DEF DescWake
<1>2. ASSUME NEW p \in Proc, NEW b, NEW w, virtio_disk_rw(p, b, w) PROVE DescWake'
  BY <1>t, <1>2 DEF DescWake, virtio_disk_rw
<1>3. ASSUME NEW p \in Proc, virtio_disk_rw_end(p) PROVE DescWake'
  BY <1>t, <1>3 DEF DescWake, virtio_disk_rw_end, WakeDesc
<1>4. ASSUME NEW p \in Proc, alloc3_fail(p) PROVE DescWake'
  BY <1>t, <1>4 DEF DescWake, alloc3_fail, WakeDesc
<1>5. ASSUME NEW p \in Proc, submit(p) PROVE DescWake'
  <2>1. free' \subseteq free
    BY <1>5 DEF submit
  <2>2. IsFiniteSet(free)
    BY <1>t, Sizes, FS_Interval, FS_Subset, 0 \in Int, NUM - 1 \in Int
  <2>3. Cardinality(free') <= Cardinality(free) /\ Cardinality(free) \in Nat
        /\ Cardinality(free') \in Nat
    BY <2>1, <2>2, FS_Subset, FS_CardinalityType
  <2>4. vpc' = [vpc EXCEPT ![p] = "rw_wait"]
    BY <1>5 DEF submit
  <2>. QED
    BY <1>t, <2>3, <2>4 DEF DescWake
<1>6. ASSUME intr_entry PROVE DescWake'
  BY <1>t, <1>6 DEF DescWake, intr_entry
<1>7. ASSUME \/ device_take \/ virtio_disk_intr \/ intr_end
             \/ \E d \in Desc : device_complete(d)
      PROVE  DescWake'
  BY <1>1, <1>7 DEF device_take, virtio_disk_intr, intr_end, device_complete
<1>8. ASSUME VNext PROVE DescWake'
  BY <1>4, <1>5, <1>6, <1>7, <1>8 DEF VNext, virtio_disk_rw_start
<1>9. ASSUME NEW p \in Proc,
             \/ \E blk \in Block : bget_hit(p, blk) \/ bget_miss(p, blk)
             \/ \E v \in Val : modify(p, v)
             \/ bpin(p) \/ bunpin(p) \/ brelse(p) \/ brelse_unref(p)
      PROVE  DescWake'
  BY <1>1, <1>9 DEF bget_hit, bget_miss, modify, bpin, bunpin, brelse, brelse_unref, vio
<1>10. ASSUME NEW p \in Proc, bread(p) \/ bread_end(p) \/ bwrite(p) \/ bwrite_end(p)
       PROVE  DescWake'
  <2>1. UNCHANGED vio \/ virtio_disk_rw(p, cur[p], FALSE) \/ virtio_disk_rw(p, cur[p], TRUE)
        \/ virtio_disk_rw_end(p)
    BY <1>10 DEF bread, bread_end, bwrite, bwrite_end
  <2>. QED
    BY <1>1, <1>2, <1>3, <2>1 DEF vio
<1>. QED
  BY <1>8, <1>9, <1>10 DEF Next, Step

\* The device asks for an interrupt whenever it adds to the used ring, and the
\* handler reads the ring to its end after it has acknowledged.
LEMMA CompletionStep ==
    ASSUME NoLostCompletion, Next
    PROVE  NoLostCompletion'
<1>1. ASSUME UNCHANGED <<isr, handling, used_idx, used_end>> PROVE NoLostCompletion'
  BY <1>1 DEF NoLostCompletion
<1>2. ASSUME VNext PROVE NoLostCompletion'
  BY <1>2 DEF NoLostCompletion, VNext, virtio_disk_rw_start, alloc3_fail, submit, device_take,
              device_complete, virtio_disk_intr, intr_entry, intr_end, device
<1>3. ASSUME NEW p \in Proc,
             \/ \E blk \in Block : bget_hit(p, blk) \/ bget_miss(p, blk)
             \/ \E v \in Val : modify(p, v)
             \/ bpin(p) \/ bunpin(p) \/ brelse(p) \/ brelse_unref(p)
      PROVE  NoLostCompletion'
  BY <1>1, <1>3 DEF bget_hit, bget_miss, modify, bpin, bunpin, brelse, brelse_unref, vio, device
<1>4. ASSUME NEW p \in Proc, bread(p) \/ bread_end(p) \/ bwrite(p) \/ bwrite_end(p)
      PROVE  NoLostCompletion'
  BY <1>1, <1>4 DEF bread, bread_end, bwrite, bwrite_end, virtio_disk_rw, virtio_disk_rw_end,
                    vio, device
<1>. QED
  BY <1>2, <1>3, <1>4 DEF Next, Step

-----------------------------------------------------------------------------
(***************************************************************************)
(* Descriptors.                                                            *)
(***************************************************************************)
\* Steps that leave the requests under way and the descriptors alone.
LEMMA ChainFrame ==
    ASSUME ChainInv, Live' = Live, \A q \in Live : rw'[q] = rw[q],
           UNCHANGED <<NUM, next, free, info, addr, ops>>,
           \A q \in Live : blockno'[rw[q].b] = blockno[rw[q].b]
    PROVE  ChainInv'
<1>1. \A q \in Live : Chain(rw[q].head)' = Chain(rw[q].head)
  BY DEF Chain
<1>2. Desc' = Desc
  BY DEF Desc
<1>. QED
  BY <1>1, <1>2 DEF ChainInv

\* free_chain() gives back the three descriptors of one request and none of
\* another's.
LEMMA ChainEnd ==
    ASSUME IInv, NEW p \in Proc, virtio_disk_rw_end(p), UNCHANGED <<NUM, blockno>>
    PROVE  ChainInv'
<1>. USE DEF IInv
<1>. DEFINE C(q) == Chain(rw[q].head)
            h == rw[p].head
<1>t. /\ vpc \in [Proc -> {"idle", "rw", "rw_desc", "rw_wait", "rw_done"}]
      /\ DOMAIN rw = Proc
      /\ next \in [Desc -> Desc \cup {None}] /\ addr \in [Desc -> Buf \cup {None}]
      /\ info \in [Desc -> Buf \cup {None}] /\ Desc' = Desc
      /\ DOMAIN ops = Desc
  BY DEF TypeOK, Desc
<1>1. p \in Live /\ Live' = Live \ {p}
  BY <1>t DEF virtio_disk_rw_end, Live, WakeDesc
<1>2. /\ rw' = [rw EXCEPT ![p] = Idle] /\ free' = free \cup C(p)
      /\ info' = [info EXCEPT ![h] = None] /\ ops' = [ops EXCEPT ![h] = NoOp]
      /\ next' = [d \in Desc |-> IF d \in C(p) THEN None ELSE next[d]]
      /\ addr' = [d \in Desc |-> IF d \in C(p) THEN None ELSE addr[d]]
  BY DEF virtio_disk_rw_end, Freed
<1>3. \A q \in Live \ {p} : rw'[q] = rw[q] /\ C(q) \cap C(p) = {} /\ C(q) \subseteq Desc
  BY <1>t, <1>1, <1>2, ChainFacts DEF ChainInv
<1>4. ASSUME NEW q \in Live \ {p}
      PROVE  /\ Chain(rw[q].head)' = Chain(rw[q].head)
             /\ next'[rw[q].head] = next[rw[q].head]
             /\ next'[next[rw[q].head]] = next[next[rw[q].head]]
             /\ addr'[next[rw[q].head]] = addr[next[rw[q].head]]
             /\ info'[rw[q].head] = info[rw[q].head]
             /\ ops'[rw[q].head] = ops[rw[q].head]
             /\ C(q) \cap free' = {}
  <2>1. rw[q].head \in C(q) /\ next[rw[q].head] \in C(q)
    BY DEF Chain
  <2>2. rw[q].head \in Desc \ C(p) /\ next[rw[q].head] \in Desc \ C(p)
    BY <1>3, <2>1
  <2>3. /\ next'[rw[q].head] = next[rw[q].head]
        /\ next'[next[rw[q].head]] = next[next[rw[q].head]]
        /\ addr'[next[rw[q].head]] = addr[next[rw[q].head]]
    BY <1>2, <2>2
  <2>4. rw'[q].head = rw[q].head /\ h \in C(p)
    BY <1>3 DEF Chain
  <2>5. Chain(rw[q].head)' = Chain(rw[q].head)
    BY <2>3, <2>4 DEF Chain
  <2>6. info'[rw[q].head] = info[rw[q].head] /\ ops'[rw[q].head] = ops[rw[q].head]
    BY <1>t, <1>2, <2>2, <2>4
  <2>7. C(q) \cap free = {}
    BY DEF ChainInv
  <2>. QED
    BY <1>2, <1>3, <2>3, <2>5, <2>6, <2>7
<1>. HIDE DEF C
<1>5. \A q \in Live \ {p} : C(q)' = C(q)
  BY <1>4 DEF C
<1>6. \A q \in Live' :
        LET g == rw'[q].head
        IN  /\ g \in Desc' /\ next'[g] \in Desc' /\ next'[next'[g]] \in Desc'
            /\ g # next'[g]
            /\ C(q)' \cap free' = {}
            /\ info'[g] = rw'[q].b /\ addr'[next'[g]] = rw'[q].b
            /\ ops'[g].write = rw'[q].write /\ ops'[g].sector = blockno'[rw'[q].b]
  BY <1>t, <1>1, <1>3, <1>4, <1>5 DEF ChainInv
<1>7. \A q, r \in Live' : q # r => C(q)' \cap C(r)' = {}
  BY <1>1, <1>5 DEF ChainInv, C
<1>8. \A d \in Desc' : d \in free' \/ \E q \in Live' : d \in C(q)'
  BY <1>t, <1>1, <1>2, <1>5 DEF ChainInv, C
<1>. QED
  BY <1>6, <1>7, <1>8 DEF ChainInv, C

\* A new request takes three descriptors that were free.
LEMMA ChainSubmit ==
    ASSUME IInv, NEW p \in Proc, vpc[p] = "rw", submit(p), UNCHANGED <<NUM, blockno>>
    PROVE  ChainInv'
<1>. USE DEF IInv
<1>. DEFINE C(q) == Chain(rw[q].head)
<1>t. /\ vpc \in [Proc -> {"idle", "rw", "rw_desc", "rw_wait", "rw_done"}]
      /\ DOMAIN rw = Proc
      /\ next \in [Desc -> Desc \cup {None}] /\ addr \in [Desc -> Buf \cup {None}]
      /\ info \in [Desc -> Buf \cup {None}] /\ Desc' = Desc /\ free \subseteq Desc
      /\ DOMAIN ops = Desc
  BY DEF TypeOK, Desc
<1>1. p \notin Live /\ Live' = Live \cup {p}
  BY <1>t DEF submit, Live
<1>2. PICK i0, i1, i2 \in free :
             /\ i0 # i1 /\ i0 # i2 /\ i1 # i2
             /\ free' = free \ {i0, i1, i2}
             /\ next' = [next EXCEPT ![i0] = i1, ![i1] = i2, ![i2] = None]
             /\ addr' = [addr EXCEPT ![i1] = rw[p].b]
             /\ info' = [info EXCEPT ![i0] = rw[p].b]
             /\ ops' = [ops EXCEPT ![i0] =
                          [write |-> rw[p].write, sector |-> blockno[rw[p].b]]]
             /\ rw' = [rw EXCEPT ![p] = [b |-> rw[p].b, write |-> rw[p].write, head |-> i0]]
  BY SubmitStep
<1>3. ASSUME NEW q \in Live
      PROVE  /\ rw'[q] = rw[q]
             /\ Chain(rw[q].head)' = Chain(rw[q].head)
             /\ next'[rw[q].head] = next[rw[q].head]
             /\ next'[next[rw[q].head]] = next[next[rw[q].head]]
             /\ addr'[next[rw[q].head]] = addr[next[rw[q].head]]
             /\ info'[rw[q].head] = info[rw[q].head]
             /\ ops'[rw[q].head] = ops[rw[q].head]
             /\ C(q) \cap free' = {} /\ C(q) \cap free = {}
  <2>1. rw[q].head \in C(q) /\ next[rw[q].head] \in C(q) /\ C(q) \subseteq Desc
        /\ C(q) \cap free = {} /\ q \in Proc
    BY ChainFacts DEF ChainInv
  <2>2. rw[q].head \in Desc \ free /\ next[rw[q].head] \in Desc \ free
    BY <2>1
  <2>3. rw'[q] = rw[q]
    BY <1>t, <1>1, <1>2, <2>1
  <2>4. /\ next'[rw[q].head] = next[rw[q].head]
        /\ next'[next[rw[q].head]] = next[next[rw[q].head]]
        /\ addr'[next[rw[q].head]] = addr[next[rw[q].head]]
        /\ info'[rw[q].head] = info[rw[q].head]
        /\ ops'[rw[q].head] = ops[rw[q].head]
    BY <1>t, <1>2, <2>2
  <2>5. Chain(rw[q].head)' = Chain(rw[q].head)
    BY <2>3, <2>4 DEF Chain
  <2>. QED
    BY <1>2, <2>1, <2>3, <2>4, <2>5
<1>4. /\ rw'[p].head = i0 /\ rw'[p].b = rw[p].b /\ rw'[p].write = rw[p].write
      /\ next'[i0] = i1 /\ next'[i1] = i2 /\ info'[i0] = rw[p].b /\ addr'[i1] = rw[p].b
      /\ ops'[i0].write = rw[p].write /\ ops'[i0].sector = blockno[rw[p].b]
      /\ i0 \in Desc /\ i1 \in Desc /\ i2 \in Desc
  BY <1>t, <1>2
<1>5. Chain(rw[p].head)' = {i0, i1, i2}
  BY <1>4 DEF Chain
<1>. HIDE DEF C
<1>6. (\A q \in Live : C(q)' = C(q) /\ C(q) \cap {i0, i1, i2} = {}) /\ C(p)' = {i0, i1, i2}
  BY <1>3, <1>5 DEF C
<1>7. \A q \in Live' :
        LET g == rw'[q].head
        IN  /\ g \in Desc' /\ next'[g] \in Desc' /\ next'[next'[g]] \in Desc'
            /\ g # next'[g]
            /\ C(q)' \cap free' = {}
            /\ info'[g] = rw'[q].b /\ addr'[next'[g]] = rw'[q].b
            /\ ops'[g].write = rw'[q].write /\ ops'[g].sector = blockno'[rw'[q].b]
  <2>1. ASSUME NEW q \in Live
        PROVE LET g == rw'[q].head
              IN  /\ g \in Desc' /\ next'[g] \in Desc' /\ next'[next'[g]] \in Desc'
                  /\ g # next'[g]
                  /\ C(q)' \cap free' = {}
                  /\ info'[g] = rw'[q].b /\ addr'[next'[g]] = rw'[q].b
                  /\ ops'[g].write = rw'[q].write /\ ops'[g].sector = blockno'[rw'[q].b]
    BY <1>t, <1>3, <1>6 DEF ChainInv
  <2>. QED
    BY <1>t, <1>1, <1>2, <1>4, <1>6, <2>1
<1>8. \A q, r \in Live' : q # r => C(q)' \cap C(r)' = {}
  <2>1. \A q, r \in Live : q # r => C(q) \cap C(r) = {}
    BY DEF ChainInv, C
  <2>. QED
    BY <1>1, <1>6, <2>1
<1>9. \A d \in Desc' : d \in free' \/ \E q \in Live' : d \in C(q)'
  BY <1>t, <1>1, <1>2, <1>6 DEF ChainInv, C
<1>. QED
  BY <1>7, <1>8, <1>9 DEF ChainInv, C

\* Every step keeps the chains.
LEMMA ChainStep ==
    ASSUME IInv, Next
    PROVE  ChainInv'
<1>. USE DEF IInv
<1>t. /\ vpc \in [Proc -> {"idle", "rw", "rw_desc", "rw_wait", "rw_done"}]
      /\ DOMAIN rw = Proc /\ blockno \in [Buf -> Block \cup {None}] /\ UNCHANGED NUM
  BY DEF TypeOK, Next
<1>1. ASSUME UNCHANGED <<vpc, rw, next, free, info, addr, ops, blockno>> PROVE ChainInv'
  BY <1>t, <1>1, ChainFrame DEF Live
<1>2. ASSUME NEW p \in Proc, NEW w, virtio_disk_rw(p, cur[p], w), vpc[p] = "idle",
             UNCHANGED blockno
      PROVE  ChainInv'
  <2>1. p \notin Live /\ Live' = Live /\ \A q \in Live : rw'[q] = rw[q]
    BY <1>t, <1>2 DEF virtio_disk_rw, Live
  <2>. QED
    BY <1>t, <1>2, <2>1, ChainFrame DEF virtio_disk_rw
<1>3. ASSUME NEW p \in Proc, virtio_disk_rw_start(p), UNCHANGED blockno PROVE ChainInv'
  <2>1. CASE alloc3_fail(p)
    <3>1. Live' = Live /\ \A q \in Live : rw'[q] = rw[q]
      BY <1>t, <1>3, <2>1 DEF alloc3_fail, virtio_disk_rw_start, Live, WakeDesc
    <3>. QED
      BY <1>t, <1>3, <2>1, <3>1, ChainFrame DEF alloc3_fail
  <2>. QED
    BY <1>t, <1>3, <2>1, ChainSubmit DEF virtio_disk_rw_start
<1>4. ASSUME intr_entry, UNCHANGED blockno PROVE ChainInv'
  <2>1. Live' = Live
    BY <1>t, <1>4 DEF intr_entry, Live
  <2>. QED
    BY <1>t, <1>4, <2>1, ChainFrame DEF intr_entry
<1>5. ASSUME \/ device_take \/ virtio_disk_intr \/ intr_end
             \/ \E d \in Desc : device_complete(d),
             UNCHANGED blockno
      PROVE  ChainInv'
  BY <1>1, <1>5 DEF device_take, virtio_disk_intr, intr_end, device_complete
<1>6. ASSUME VNext, UNCHANGED bio PROVE ChainInv'
  BY <1>3, <1>4, <1>5, <1>6 DEF VNext, bio
<1>7. ASSUME NEW p \in Proc,
             \/ \E blk \in Block : bget_hit(p, blk)
             \/ \E v \in Val : modify(p, v)
             \/ bpin(p) \/ bunpin(p) \/ brelse(p) \/ brelse_unref(p)
      PROVE  ChainInv'
  BY <1>1, <1>7 DEF bget_hit, modify, bpin, bunpin, brelse, brelse_unref, vio
<1>8. ASSUME NEW p \in Proc, NEW blk \in Block, bget_miss(p, blk) PROVE ChainInv'
  <2>1. CASE Unused = {}
    BY <1>1, <1>8, <2>1 DEF bget_miss, vio
  <2>2. CASE Unused # {}
    <3>1. Victim \in Buf /\ refcnt[Victim] = 0
      BY <2>2, VictimUnused DEF Unused
    <3>2. \A q \in Live : rw[q].b # Victim
      BY <3>1, Referenced DEF RwInv, Live
    <3>3. blockno' = [blockno EXCEPT ![Victim] = blk] /\ UNCHANGED vio
      BY <1>8, <2>2 DEF bget_miss, recycle
    <3>4. \A q \in Live : blockno'[rw[q].b] = blockno[rw[q].b]
      BY <1>t, <3>2, <3>3
    <3>. QED
      BY <1>t, <3>3, <3>4, ChainFrame DEF vio, Live
  <2>. QED
    BY <2>1, <2>2
<1>9. ASSUME NEW p \in Proc, bread(p) \/ bwrite(p) PROVE ChainInv'
  <2>1. vpc[p] = "idle" /\ UNCHANGED blockno
    BY <1>9 DEF bread, bwrite, RwInv
  <2>2. UNCHANGED vio \/ \E w \in BOOLEAN : virtio_disk_rw(p, cur[p], w)
    BY <1>9 DEF bread, bwrite
  <2>. QED
    BY <1>1, <1>2, <2>1, <2>2 DEF vio
<1>10. ASSUME NEW p \in Proc, bread_end(p) \/ bwrite_end(p) PROVE ChainInv'
  BY <1>t, <1>10, ChainEnd DEF bread_end, bwrite_end
<1>. QED
  BY <1>6, <1>7, <1>8, <1>9, <1>10 DEF Next, Step

\* A buffer the disk owns has a process that waits for it: intr_entry gives the
\* buffer back and wakes that process in one critical section.
LEMMA DiskStep ==
    ASSUME IInv, Next
    PROVE  DiskInv'
<1>. USE DEF IInv
<1>t. /\ vpc \in [Proc -> {"idle", "rw", "rw_desc", "rw_wait", "rw_done"}]
      /\ DOMAIN rw = Proc /\ b_disk \in [Buf -> BOOLEAN]
  BY DEF TypeOK
<1>1. ASSUME b_disk' = b_disk, \A q \in Waiting : q \in Waiting' /\ rw'[q].b = rw[q].b
      PROVE  DiskInv'
  BY <1>1 DEF DiskInv
<1>2. ASSUME UNCHANGED <<b_disk, vpc, rw>> PROVE DiskInv'
  BY <1>2 DEF DiskInv, Waiting
<1>3. ASSUME NEW p \in Proc, NEW w, virtio_disk_rw(p, cur[p], w), vpc[p] = "idle"
      PROVE  DiskInv'
  BY <1>t, <1>1, <1>3 DEF virtio_disk_rw, Waiting
<1>4. ASSUME NEW p \in Proc, virtio_disk_rw_end(p) PROVE DiskInv'
  BY <1>t, <1>1, <1>4 DEF virtio_disk_rw_end, Waiting, WakeDesc
<1>5. ASSUME NEW p \in Proc, virtio_disk_rw_start(p) PROVE DiskInv'
  <2>1. CASE alloc3_fail(p)
    BY <1>t, <1>1, <1>5, <2>1 DEF virtio_disk_rw_start, alloc3_fail, Waiting, WakeDesc
  <2>2. CASE submit(p)
    <3>1. \E h \in Desc : rw' = [rw EXCEPT ![p] = [b |-> rw[p].b, write |-> rw[p].write,
                                                 head |-> h]]
      BY <2>2, SubmitStep DEF TypeOK
    <3>2. rw'[p].b = rw[p].b /\ \A q \in Proc : q # p => rw'[q] = rw[q]
      BY <1>t, <3>1
    <3>3. /\ vpc' = [vpc EXCEPT ![p] = "rw_wait"]
          /\ b_disk' = [b_disk EXCEPT ![rw[p].b] = TRUE]
      BY <2>2 DEF submit
    <3>. QED
      BY <1>t, <3>2, <3>3 DEF DiskInv, Waiting
  <2>. QED
    BY <1>5, <2>1, <2>2 DEF virtio_disk_rw_start
<1>6. ASSUME intr_entry PROVE DiskInv'
  BY <1>t, <1>6 DEF DiskInv, intr_entry, Waiting
<1>7. ASSUME \/ device_take \/ virtio_disk_intr \/ intr_end
             \/ \E d \in Desc : device_complete(d)
      PROVE  DiskInv'
  BY <1>2, <1>7 DEF device_take, virtio_disk_intr, intr_end, device_complete
<1>8. ASSUME VNext PROVE DiskInv'
  BY <1>5, <1>6, <1>7, <1>8 DEF VNext
<1>9. ASSUME NEW p \in Proc,
             \/ \E blk \in Block : bget_hit(p, blk) \/ bget_miss(p, blk)
             \/ \E v \in Val : modify(p, v)
             \/ bpin(p) \/ bunpin(p) \/ brelse(p) \/ brelse_unref(p)
      PROVE  DiskInv'
  BY <1>2, <1>9 DEF bget_hit, bget_miss, modify, bpin, bunpin, brelse, brelse_unref, vio
<1>10. ASSUME NEW p \in Proc, bread(p) \/ bwrite(p) PROVE DiskInv'
  <2>1. vpc[p] = "idle"
    BY <1>10 DEF bread, bwrite, RwInv
  <2>2. UNCHANGED vio \/ \E w \in BOOLEAN : virtio_disk_rw(p, cur[p], w)
    BY <1>10 DEF bread, bwrite
  <2>. QED
    BY <1>2, <1>3, <2>1, <2>2 DEF vio
<1>11. ASSUME NEW p \in Proc, bread_end(p) \/ bwrite_end(p) PROVE DiskInv'
  BY <1>4, <1>11 DEF bread_end, bwrite_end
<1>. QED
  BY <1>8, <1>9, <1>10, <1>11 DEF Next, Step

-----------------------------------------------------------------------------
(***************************************************************************)
(* The two rings.                                                          *)
(***************************************************************************)
\* Entries that are distinct and neither x nor y leave two slots of the ring.
LEMMA FewEntries ==
    ASSUME NUM \in QueueSizes, NEW x \in Desc, NEW y \in Desc, x # y,
           NEW n \in Nat, NEW f \in [0 .. n - 1 -> Desc \ {x, y}],
           \A j, k \in 0 .. n - 1 : f[j] = f[k] => j = k
    PROVE  n <= NUM - 2
<1>. DEFINE S == 0 .. n - 1
            T == Desc \ {x, y}
<1>0. NUM \in Nat /\ Desc = 0 .. NUM - 1 /\ NUM >= 3
  BY Sizes
<1>1. IsFiniteSet(Desc) /\ Cardinality(Desc) = NUM
  <2>1. 0 \in Int /\ NUM - 1 \in Int /\ ~(0 > NUM - 1) /\ (NUM - 1) - 0 + 1 = NUM
    BY <1>0
  <2>. QED
    BY <1>0, <2>1, FS_Interval
<1>2. IsFiniteSet(Desc \ {x}) /\ Cardinality(Desc \ {x}) = NUM - 1
  BY <1>1, FS_RemoveElement
<1>3. IsFiniteSet((Desc \ {x}) \ {y}) /\ Cardinality((Desc \ {x}) \ {y}) = (NUM - 1) - 1
  BY <1>2, FS_RemoveElement
<1>4. (Desc \ {x}) \ {y} = T
  OBVIOUS
<1>5. Cardinality(S) = n
  <2>1. 0 \in Int /\ n - 1 \in Int /\ (n - 1) - 0 + 1 = n /\ (0 > n - 1 => n = 0)
    OBVIOUS
  <2>. QED
    BY <2>1, FS_Interval
<1>6. f \in Injection(S, T)
  BY DEF Injection, IsInjective
<1>7. Cardinality(S) <= Cardinality(T)
  <2>. HIDE DEF S, T
  <2>. QED  BY <1>3, <1>4, <1>6, FS_Injection
<1>. HIDE DEF S, T
<1>8. Cardinality(T) = NUM - 2
  <2>1. Cardinality(T) = (NUM - 1) - 1
    BY <1>3, <1>4, Zenon
  <2>2. NUM \in Int /\ (NUM - 1) - 1 = NUM - 2
    BY <1>0
  <2>. QED
    BY <2>1, <2>2
<1>. QED
  BY <1>5, <1>7, <1>8

\* Ring r2 is r with v after the n entries from a on, up to b.
Added(a, b, r, r2, v, n) ==
    /\ (Inc16(b) - a) % UINT16 = n + 1
    /\ r2[(a + n) % NUM] = v
    /\ \A k \in 0 .. n - 1 : r2[(a + k) % NUM] = r[(a + k) % NUM]

\* An entry added at b, when n are between a and b.
LEMMA PushEntry ==
    ASSUME NUM \in QueueSizes, NEW a \in 0 .. UINT16 - 1, NEW b \in 0 .. UINT16 - 1,
           NEW r \in [Desc -> Desc], NEW v \in Desc, NEW n \in Nat,
           n = (b - a) % UINT16, n <= NUM - 2
    PROVE  Added(a, b, r, [r EXCEPT ![b % NUM] = v], v, n)
<1>s. /\ NUM \in Nat \ {0} /\ UINT16 \in Nat \ {0} /\ UINT16 % NUM = 0
      /\ UINT16 >= NUM
      /\ \A k \in Int : k % NUM \in Desc
  BY Sizes
<1>1. n + 1 < UINT16 /\ n < NUM
  <2>1. NUM \in Int /\ UINT16 \in Int /\ UINT16 >= NUM
    BY <1>s
  <2>. QED
    BY <2>1
<1>0. RingPushed(UINT16, NUM, a, b, n)
  BY <1>s, <1>1, RingPush, Zenon
<1>2. /\ (((b + 1) % UINT16) - a) % UINT16 = n + 1
      /\ b % NUM = (a + n) % NUM
      /\ \A k \in 0 .. n - 1 : (a + k) % NUM # b % NUM
  BY <1>0, Zenon DEF RingPushed
<1>3. b % NUM \in Desc
  BY <1>s
<1>4. \A k \in 0 .. n - 1 : a + k \in Int
  BY <1>s
<1>5. \A k \in 0 .. n - 1 : (a + k) % NUM \in Desc
  BY <1>s, <1>4
<1>. QED
  BY <1>2, <1>3, <1>5 DEF Added, Inc16

\* The entry at a taken out, when n are between a and b.
LEMMA PopEntry ==
    ASSUME NUM \in QueueSizes, NEW a \in 0 .. UINT16 - 1, NEW b \in 0 .. UINT16 - 1,
           NEW r \in [Desc -> Desc], NEW n \in Nat,
           n = (b - a) % UINT16, n <= NUM, a # b
    PROVE  LET r2 == [r EXCEPT ![a % NUM] = 0]
           IN  /\ n > 0
               /\ (b - Inc16(a)) % UINT16 = n - 1
               /\ r[(a + 0) % NUM] = r[a % NUM]
               /\ \A k \in 0 .. n - 2 : r2[(Inc16(a) + k) % NUM] = r[(a + (k + 1)) % NUM]
<1>1. /\ NUM \in Nat \ {0} /\ UINT16 \in Nat \ {0} /\ UINT16 % NUM = 0
      /\ \A k \in Int : k % NUM \in Desc
  BY Sizes
<1>0. Popped(UINT16, NUM, a, b, n)
  BY <1>1, RingPop, Zenon
<1>2. /\ n > 0
      /\ (b - ((a + 1) % UINT16)) % UINT16 = n - 1
      /\ \A k \in Nat : (((a + 1) % UINT16) + k) % NUM = (a + (k + 1)) % NUM
      /\ \A k \in 1 .. n - 1 : (a + k) % NUM # a % NUM
  BY <1>0, Zenon DEF Popped
<1>3. ASSUME NEW k \in 0 .. n - 2
      PROVE  [r EXCEPT ![a % NUM] = 0][(Inc16(a) + k) % NUM] = r[(a + (k + 1)) % NUM]
  <2>1. k \in Nat /\ k + 1 \in 1 .. n - 1 /\ a + (k + 1) \in Int
    OBVIOUS
  <2>2. (Inc16(a) + k) % NUM = (a + (k + 1)) % NUM
    BY <1>2, <2>1 DEF Inc16
  <2>3. (a + (k + 1)) % NUM # a % NUM
    BY <1>2, <2>1
  <2>4. (a + (k + 1)) % NUM \in Desc
    BY <1>1, <2>1
  <2>. QED
    BY <2>2, <2>3, <2>4
<1>4. a + 0 = a
  OBVIOUS
<1>. QED
  BY <1>2, <1>3, <1>4 DEF Inc16

\* The entries in use of the two rings, for whoever looks at them.
LEMMA RingTypes ==
    ASSUME TypeOK
    PROVE  /\ NUM \in QueueSizes
           /\ avail_idx \in 0 .. UINT16 - 1 /\ taken \in 0 .. UINT16 - 1
           /\ used_idx \in 0 .. UINT16 - 1 /\ used_end \in 0 .. UINT16 - 1
           /\ avail \in [Desc -> Desc] /\ used \in [Desc -> Desc]
           /\ AvailN \in Nat /\ UsedN \in Nat
           /\ \A k \in Nat : AvailAt(k) \in Desc /\ UsedAt(k) \in Desc
<1>1. /\ NUM \in QueueSizes
      /\ avail_idx \in 0 .. UINT16 - 1 /\ taken \in 0 .. UINT16 - 1
      /\ used_idx \in 0 .. UINT16 - 1 /\ used_end \in 0 .. UINT16 - 1
      /\ avail \in [Desc -> Desc] /\ used \in [Desc -> Desc]
  BY DEF TypeOK
<1>2. UINT16 \in Nat \ {0} /\ \A k \in Int : k % NUM \in Desc
  BY <1>1, Sizes
<1>3. \A x, y \in 0 .. UINT16 - 1 : (x - y) % UINT16 \in Nat
  <2>1. \A z \in Int : z % UINT16 \in Nat
    BY <1>2, ModType
  <2>2. \A x, y \in 0 .. UINT16 - 1 : x - y \in Int
    BY <1>2
  <2>. QED
    BY <2>1, <2>2, Zenon
<1>4. AvailN \in Nat /\ UsedN \in Nat
  BY <1>1, <1>3 DEF AvailN, UsedN
<1>5. \A x \in 0 .. UINT16 - 1, k \in Nat : (x + k) % NUM \in Desc
  <2>1. \A x \in 0 .. UINT16 - 1, k \in Nat : x + k \in Int
    BY <1>2
  <2>. QED
    BY <1>2, <2>1, Zenon
<1>6. \A k \in Nat : AvailAt(k) \in Desc /\ UsedAt(k) \in Desc
  BY <1>1, <1>5 DEF AvailAt, UsedAt
<1>. QED
  BY <1>1, <1>4, <1>6

\* A request that waits for the device is identified by the head of its chain,
\* and no head is free or inside a chain.
LEMMA Heads ==
    ASSUME TypeOK, ChainInv
    PROVE  /\ Waiting \subseteq Live
           /\ \A p \in Waiting : rw[p].head \in WaitHeads
           /\ \A p, q \in Waiting : rw[p].head = rw[q].head => p = q
           /\ WaitHeads \subseteq Desc /\ WaitHeads \cap free = {}
           /\ \A p \in Waiting : next[rw[p].head] \in Desc \ WaitHeads
<1>1. Waiting \subseteq Live
  BY DEF Waiting, Live
<1>2. \A p \in Live : /\ rw[p].head \in Desc /\ rw[p].head \in Chain(rw[p].head)
                      /\ next[rw[p].head] \in Desc /\ next[rw[p].head] \in Chain(rw[p].head)
                      /\ rw[p].head # next[rw[p].head]
                      /\ \A q \in Live : rw[q].head \in Chain(rw[p].head) => q = p
  BY ChainFacts
<1>3. \A p \in Live : Chain(rw[p].head) \cap free = {}
  BY DEF ChainInv
<1>4. ASSUME NEW p \in Waiting, NEW q \in Waiting, rw[q].head = next[rw[p].head]
      PROVE  FALSE
  BY <1>1, <1>2, <1>4
<1>. QED
  BY <1>1, <1>2, <1>3, <1>4 DEF WaitHeads

\* Steps that leave the rings alone and end no request.
LEMMA QueueFrame ==
    ASSUME QueueInv, WaitHeads \subseteq WaitHeads',
           UNCHANGED <<NUM, queue, avail, avail_idx, taken, used, used_idx, used_end>>
    PROVE  QueueInv'
<1>1. AvailN' = AvailN /\ UsedN' = UsedN
  BY DEF AvailN, UsedN
<1>2. \A k : AvailAt(k)' = AvailAt(k) /\ UsedAt(k)' = UsedAt(k)
  BY DEF AvailAt, UsedAt
<1>. HIDE DEF AvailN, UsedN, AvailAt, UsedAt
<1>. QED
  BY <1>1, <1>2 DEF QueueInv

\* A new request goes to the end of the avail ring, which has room for it.
LEMMA QueueSubmit ==
    ASSUME IInv, NEW p \in Proc, vpc[p] = "rw", submit(p), UNCHANGED NUM
    PROVE  QueueInv'
<1>. USE DEF IInv
<1>t. /\ vpc \in [Proc -> {"idle", "rw", "rw_desc", "rw_wait", "rw_done"}]
      /\ DOMAIN rw = Proc /\ free \subseteq Desc
  BY DEF TypeOK
<1>1. PICK i0, i1, i2 \in free :
             /\ i0 # i1
             /\ avail' = [avail EXCEPT ![avail_idx % NUM] = i0]
             /\ rw' = [rw EXCEPT ![p] = [b |-> rw[p].b, write |-> rw[p].write, head |-> i0]]
  BY SubmitStep
<1>2. avail_idx' = Inc16(avail_idx) /\ UNCHANGED <<queue, used, used_end, used_idx, taken>>
      /\ vpc' = [vpc EXCEPT ![p] = "rw_wait"]
  BY DEF submit, device
<1>3. WaitHeads' = WaitHeads \cup {i0} /\ i0 \notin WaitHeads
  <2>1. p \notin Waiting /\ Waiting' = Waiting \cup {p}
    BY <1>t, <1>2 DEF Waiting
  <2>2. rw'[p].head = i0 /\ \A q \in Waiting : rw'[q] = rw[q]
    BY <1>t, <1>1, <2>1 DEF Waiting
  <2>3. i0 \notin WaitHeads
    BY Heads
  <2>. QED
    BY <2>1, <2>2, <2>3 DEF WaitHeads
<1>n. PICK n \in Nat, m \in Nat : n = AvailN /\ m = UsedN
  BY RingTypes
<1>q. /\ n < NUM /\ m < NUM /\ queue \subseteq WaitHeads
      /\ \A k \in 0 .. n - 1 : AvailAt(k) \in WaitHeads \ queue
      /\ \A k \in 0 .. m - 1 : UsedAt(k) \in WaitHeads \ queue
      /\ \A j, k \in 0 .. n - 1 : AvailAt(j) = AvailAt(k) => j = k
      /\ \A j, k \in 0 .. m - 1 : UsedAt(j) = UsedAt(k) => j = k
      /\ \A j \in 0 .. n - 1, k \in 0 .. m - 1 : AvailAt(j) # UsedAt(k)
  BY <1>n DEF QueueInv
<1>4. n <= NUM - 2
  <2>. DEFINE f == [k \in 0 .. n - 1 |-> AvailAt(k)]
  <2>1. WaitHeads \subseteq Desc \ {i0, i1}
    BY Heads
  <2>2. f \in [0 .. n - 1 -> Desc \ {i0, i1}]
    BY <1>q, <2>1
  <2>3. \A j, k \in 0 .. n - 1 : f[j] = f[k] => j = k
    BY <1>q
  <2>4. i0 \in Desc /\ i1 \in Desc /\ NUM \in QueueSizes
    BY <1>t DEF TypeOK
  <2>. HIDE DEF f
  <2>. QED
    BY <1>1, <2>2, <2>3, <2>4, FewEntries
<1>5. /\ AvailN' = n + 1 /\ AvailAt(n)' = i0
      /\ \A k \in 0 .. n - 1 : AvailAt(k)' = AvailAt(k)
  <2>1. n = (avail_idx - taken) % UINT16
    BY <1>n DEF AvailN
  <2>2. i0 \in Desc
    BY <1>t
  <2>3. /\ (Inc16(avail_idx) - taken) % UINT16 = n + 1
        /\ avail'[(taken + n) % NUM] = i0
        /\ \A k \in 0 .. n - 1 : avail'[(taken + k) % NUM] = avail[(taken + k) % NUM]
    <3>1. Added(taken, avail_idx, avail, avail', i0, n)
      BY <1>1, <1>4, <2>1, <2>2, RingTypes, PushEntry
    <3>. QED
      BY <3>1, Zenon DEF Added
  <2>. QED
    BY <1>2, <2>3 DEF AvailN, AvailAt
<1>6. UsedN' = m /\ \A k \in 0 .. m - 1 : UsedAt(k)' = UsedAt(k)
  BY <1>n, <1>2 DEF UsedN, UsedAt
<1>7. n + 1 < NUM' /\ m < NUM'
  BY <1>4, <1>q, Sizes DEF TypeOK
<1>8. \A k \in 0 .. (n + 1) - 1 : k = n \/ k \in 0 .. n - 1
  OBVIOUS
<1>9. queue' = queue /\ i0 \notin queue
  BY <1>2, <1>3, <1>q
<1>10. /\ \A k \in 0 .. (n + 1) - 1 : AvailAt(k)' \in WaitHeads' \ queue'
       /\ \A j, k \in 0 .. (n + 1) - 1 : AvailAt(j)' = AvailAt(k)' => j = k
       /\ \A j \in 0 .. (n + 1) - 1, k \in 0 .. m - 1 : AvailAt(j)' # UsedAt(k)'
  BY <1>3, <1>5, <1>6, <1>8, <1>9, <1>q
<1>11. /\ \A k \in 0 .. m - 1 : UsedAt(k)' \in WaitHeads' \ queue'
       /\ \A j, k \in 0 .. m - 1 : UsedAt(j)' = UsedAt(k)' => j = k
       /\ queue' \subseteq WaitHeads'
  BY <1>3, <1>6, <1>9, <1>q
<1>. QED
  BY <1>5, <1>6, <1>7, <1>10, <1>11 DEF QueueInv

\* The device takes the first entry of the avail ring.
LEMMA QueueTake ==
    ASSUME IInv, device_take, UNCHANGED NUM
    PROVE  QueueInv'
<1>. USE DEF IInv
<1>n. PICK n \in Nat, m \in Nat : n = AvailN /\ m = UsedN
  BY RingTypes
<1>q. /\ n < NUM /\ m < NUM /\ queue \subseteq WaitHeads
      /\ \A k \in 0 .. n - 1 : AvailAt(k) \in WaitHeads \ queue
      /\ \A k \in 0 .. m - 1 : UsedAt(k) \in WaitHeads \ queue
      /\ \A j, k \in 0 .. n - 1 : AvailAt(j) = AvailAt(k) => j = k
      /\ \A j, k \in 0 .. m - 1 : UsedAt(j) = UsedAt(k) => j = k
      /\ \A j \in 0 .. n - 1, k \in 0 .. m - 1 : AvailAt(j) # UsedAt(k)
  BY <1>n DEF QueueInv
<1>1. /\ taken # avail_idx /\ queue' = queue \cup {avail[taken % NUM]}
      /\ avail' = [avail EXCEPT ![taken % NUM] = 0] /\ taken' = Inc16(taken)
      /\ UNCHANGED <<used, used_end, avail_idx, used_idx, vpc, rw>>
  BY DEF device_take
<1>2. WaitHeads' = WaitHeads
  BY <1>1 DEF WaitHeads, Waiting
<1>3. /\ n > 0 /\ AvailN' = n - 1 /\ AvailAt(0) = avail[taken % NUM]
      /\ \A k \in 0 .. n - 2 : AvailAt(k)' = AvailAt(k + 1)
  <2>1. n = (avail_idx - taken) % UINT16
    BY <1>n DEF AvailN
  <2>2. n <= NUM /\ NUM \in QueueSizes
    BY <1>q, Sizes DEF TypeOK
  <2>3. /\ n > 0
        /\ (avail_idx - Inc16(taken)) % UINT16 = n - 1
        /\ avail[(taken + 0) % NUM] = avail[taken % NUM]
        /\ \A k \in 0 .. n - 2 : avail'[(Inc16(taken) + k) % NUM] = avail[(taken + (k + 1)) % NUM]
    BY <1>1, <2>1, <2>2, RingTypes, PopEntry
  <2>. QED
    BY <1>1, <2>3 DEF AvailN, AvailAt
<1>4. UsedN' = m /\ \A k \in 0 .. m - 1 : UsedAt(k)' = UsedAt(k)
  BY <1>n, <1>1 DEF UsedN, UsedAt
<1>5. n - 1 < NUM' /\ m < NUM'
  BY <1>q, Sizes DEF TypeOK
<1>6. queue' = queue \cup {AvailAt(0)} /\ 0 \in 0 .. n - 1
  BY <1>1, <1>3
<1>7. \A k \in 0 .. (n - 1) - 1 : /\ k \in 0 .. n - 2 /\ k + 1 \in 0 .. n - 1 /\ k + 1 # 0
                                  /\ \A j \in 0 .. (n - 1) - 1 : j + 1 = k + 1 => j = k
  BY <1>3
<1>8. /\ \A k \in 0 .. (n - 1) - 1 : AvailAt(k)' \in WaitHeads' \ queue'
      /\ \A j, k \in 0 .. (n - 1) - 1 : AvailAt(j)' = AvailAt(k)' => j = k
      /\ \A j \in 0 .. (n - 1) - 1, k \in 0 .. m - 1 : AvailAt(j)' # UsedAt(k)'
  <2>. DEFINE A(k) == AvailAt(k)
              B(k) == UsedAt(k)
  <2>1. \A k \in 0 .. (n - 1) - 1 : AvailAt(k)' = A(k + 1)
    BY <1>3, <1>7
  <2>2. \A k \in 0 .. m - 1 : UsedAt(k)' = B(k)
    BY <1>4
  <2>3. /\ \A k \in 0 .. n - 1 : A(k) \in WaitHeads \ queue
        /\ \A j, k \in 0 .. n - 1 : A(j) = A(k) => j = k
        /\ \A j \in 0 .. n - 1, k \in 0 .. m - 1 : A(j) # B(k)
        /\ queue' = queue \cup {A(0)} /\ WaitHeads' = WaitHeads
    BY <1>2, <1>6, <1>q
  <2>. HIDE DEF A, B
  <2>4. \A k \in 0 .. (n - 1) - 1 : A(k + 1) \in WaitHeads' \ queue'
    BY <1>6, <1>7, <2>3
  <2>5. \A j, k \in 0 .. (n - 1) - 1 : A(j + 1) = A(k + 1) => j = k
    BY <1>7, <2>3
  <2>6. \A j \in 0 .. (n - 1) - 1, k \in 0 .. m - 1 : A(j + 1) # B(k)
    BY <1>7, <2>3
  <2>. QED
    BY <2>1, <2>2, <2>4, <2>5, <2>6
<1>9. /\ \A k \in 0 .. m - 1 : UsedAt(k)' \in WaitHeads' \ queue'
      /\ \A j, k \in 0 .. m - 1 : UsedAt(j)' = UsedAt(k)' => j = k
      /\ queue' \subseteq WaitHeads'
  BY <1>2, <1>4, <1>6, <1>q
<1>. QED
  BY <1>3, <1>4, <1>5, <1>8, <1>9 DEF QueueInv

\* The device puts a request it has done at the end of the used ring, which has
\* room for it.
LEMMA CompleteStep ==
    ASSUME IInv, NEW d \in Desc, device_complete(d), UNCHANGED NUM
    PROVE  \E m \in Nat, p \in Waiting :
             /\ m = UsedN /\ m <= NUM - 2 /\ rw[p].head = d
             /\ UsedN' = m + 1 /\ UsedAt(m)' = d
             /\ \A k \in 0 .. m - 1 : UsedAt(k)' = UsedAt(k)
<1>. USE DEF IInv
<1>n. PICK m \in Nat : m = UsedN
  BY RingTypes
<1>1. PICK p \in Waiting : rw[p].head = d
  BY DEF device_complete, QueueInv, WaitHeads
<1>2. next[d] \in Desc \ WaitHeads /\ d \in WaitHeads /\ WaitHeads \subseteq Desc
  BY <1>1, Heads
<1>3. m <= NUM - 2
  <2>. DEFINE f == [k \in 0 .. m - 1 |-> UsedAt(k)]
  <2>1. \A k \in 0 .. m - 1 : UsedAt(k) \in Desc \ {d, next[d]}
    BY <1>n, <1>2 DEF QueueInv, device_complete
  <2>2. f \in [0 .. m - 1 -> Desc \ {d, next[d]}]
    BY <2>1
  <2>3. \A j, k \in 0 .. m - 1 : f[j] = f[k] => j = k
    BY <1>n DEF QueueInv
  <2>4. d # next[d] /\ next[d] \in Desc /\ NUM \in QueueSizes
    BY <1>2 DEF TypeOK
  <2>. HIDE DEF f
  <2>. QED
    BY <2>2, <2>3, <2>4, FewEntries
<1>4. used' = [used EXCEPT ![used_end % NUM] = d] /\ used_end' = Inc16(used_end)
      /\ UNCHANGED used_idx
  BY DEF device_complete
<1>5. m = (used_end - used_idx) % UINT16
  BY <1>n DEF UsedN
<1>6. /\ (Inc16(used_end) - used_idx) % UINT16 = m + 1
      /\ used'[(used_idx + m) % NUM] = d
      /\ \A k \in 0 .. m - 1 : used'[(used_idx + k) % NUM] = used[(used_idx + k) % NUM]
  <2>1. /\ NUM \in QueueSizes /\ used \in [Desc -> Desc]
        /\ used_idx \in 0 .. UINT16 - 1 /\ used_end \in 0 .. UINT16 - 1
    BY RingTypes
  <2>2. used' = [used EXCEPT ![used_end % NUM] = d]
    BY <1>4
  <2>3. Added(used_idx, used_end, used, used', d, m)
    BY <1>3, <1>5, <2>1, <2>2, PushEntry
  <2>. QED
    BY <2>3, Zenon DEF Added
<1>7. /\ UsedN' = m + 1 /\ UsedAt(m)' = d
      /\ \A k \in 0 .. m - 1 : UsedAt(k)' = UsedAt(k)
  BY <1>4, <1>6 DEF UsedN, UsedAt
<1>. QED
  BY <1>n, <1>1, <1>3, <1>7

\* One entry of the used ring wakes the one process whose request it was.
LEMMA IntrStep ==
    ASSUME IInv, intr_entry, UNCHANGED NUM
    PROVE  \E m \in Nat, p \in Waiting :
             /\ m = UsedN /\ m > 0 /\ rw[p].head = UsedAt(0)
             /\ Waiting' = Waiting \ {p} /\ vpc' = [vpc EXCEPT ![p] = "rw_done"]
             /\ UsedN' = m - 1
             /\ \A k \in 0 .. m - 2 : UsedAt(k)' = UsedAt(k + 1)
<1>. USE DEF IInv
<1>n. PICK m \in Nat : m = UsedN
  BY RingTypes
<1>t. vpc \in [Proc -> {"idle", "rw", "rw_desc", "rw_wait", "rw_done"}]
  BY DEF TypeOK
<1>1. /\ used_idx # used_end /\ used' = [used EXCEPT ![used_idx % NUM] = 0]
      /\ used_idx' = Inc16(used_idx) /\ UNCHANGED used_end
  BY DEF intr_entry
<1>2. m = (used_end - used_idx) % UINT16 /\ m <= NUM
  BY <1>n, Sizes DEF UsedN, QueueInv, TypeOK
<1>3. /\ m > 0
      /\ (used_end - Inc16(used_idx)) % UINT16 = m - 1
      /\ used[(used_idx + 0) % NUM] = used[used_idx % NUM]
      /\ \A k \in 0 .. m - 2 : used'[(Inc16(used_idx) + k) % NUM] = used[(used_idx + (k + 1)) % NUM]
  BY <1>1, <1>2, RingTypes, PopEntry
<1>4. /\ UsedN' = m - 1 /\ UsedAt(0) = used[used_idx % NUM]
      /\ \A k \in 0 .. m - 2 : UsedAt(k)' = UsedAt(k + 1)
  BY <1>1, <1>3 DEF UsedN, UsedAt
<1>5. 0 \in 0 .. m - 1
  BY <1>3
<1>6. PICK p \in Waiting : rw[p].head = UsedAt(0)
  BY <1>n, <1>5 DEF QueueInv, WaitHeads
<1>7. info[used[used_idx % NUM]] = rw[p].b /\ p \in Proc
  BY <1>4, <1>6 DEF ChainInv, Waiting, Live
<1>8. ASSUME NEW q \in Waiting, rw[q].b = rw[p].b PROVE q = p
  <2>1. /\ rw[q].b = cur[q] /\ rw[p].b = cur[p] /\ q \in Proc
        /\ pc[q] \in {"reading", "writing"} /\ pc[p] \in {"reading", "writing"}
    BY <1>6 DEF RwInv, Waiting
  <2>2. cur[p] # None
    BY <1>7, <2>1 DEF RefInv
  <2>. QED
    BY <1>7, <1>8, <2>1, <2>2, OneHolder
<1>9. vpc' = [q \in Proc |-> IF vpc[q] = "rw_wait" /\ rw[q].b = rw[p].b
                             THEN "rw_done" ELSE vpc[q]]
  BY <1>7 DEF intr_entry
<1>10. vpc' = [vpc EXCEPT ![p] = "rw_done"]
  <2>1. \A q \in Proc : vpc'[q] = IF q = p THEN "rw_done" ELSE vpc[q]
    BY <1>6, <1>8, <1>9 DEF Waiting
  <2>. QED
    BY <1>t, <1>7, <1>9, <2>1
<1>11. Waiting' = Waiting \ {p}
  BY <1>t, <1>7, <1>10 DEF Waiting
<1>. QED
  BY <1>n, <1>3, <1>4, <1>6, <1>10, <1>11

\* A request done moves from the device to the used ring.
LEMMA QueueComplete ==
    ASSUME IInv, NEW d \in Desc, device_complete(d), UNCHANGED NUM
    PROVE  QueueInv'
<1>. USE DEF IInv
<1>1. PICK m \in Nat, p \in Waiting :
             /\ m = UsedN /\ m <= NUM - 2 /\ rw[p].head = d
             /\ UsedN' = m + 1 /\ UsedAt(m)' = d
             /\ \A k \in 0 .. m - 1 : UsedAt(k)' = UsedAt(k)
  BY CompleteStep
<1>n. PICK n \in Nat : n = AvailN
  BY RingTypes
<1>q. /\ n < NUM /\ m < NUM /\ queue \subseteq WaitHeads
      /\ \A k \in 0 .. n - 1 : AvailAt(k) \in WaitHeads \ queue
      /\ \A k \in 0 .. m - 1 : UsedAt(k) \in WaitHeads \ queue
      /\ \A j, k \in 0 .. n - 1 : AvailAt(j) = AvailAt(k) => j = k
      /\ \A j, k \in 0 .. m - 1 : UsedAt(j) = UsedAt(k) => j = k
      /\ \A j \in 0 .. n - 1, k \in 0 .. m - 1 : AvailAt(j) # UsedAt(k)
  BY <1>n, <1>1 DEF QueueInv
<1>2. /\ d \in queue /\ queue' = queue \ {d}
      /\ UNCHANGED <<taken, avail, avail_idx, vpc, rw>>
  BY DEF device_complete
<1>3. WaitHeads' = WaitHeads
  BY <1>2 DEF WaitHeads, Waiting
<1>4. AvailN' = n /\ \A k \in 0 .. n - 1 : AvailAt(k)' = AvailAt(k)
  BY <1>n, <1>2 DEF AvailN, AvailAt
<1>5. n < NUM' /\ m + 1 < NUM'
  BY <1>1, <1>q, Sizes DEF TypeOK
<1>6. \A k \in 0 .. (m + 1) - 1 : k = m \/ k \in 0 .. m - 1
  OBVIOUS
<1>7. /\ \A k \in 0 .. (m + 1) - 1 : UsedAt(k)' \in WaitHeads' \ queue'
      /\ \A j, k \in 0 .. (m + 1) - 1 : UsedAt(j)' = UsedAt(k)' => j = k
      /\ \A j \in 0 .. n - 1, k \in 0 .. (m + 1) - 1 : AvailAt(j)' # UsedAt(k)'
  BY <1>1, <1>2, <1>3, <1>4, <1>6, <1>q
<1>8. /\ \A k \in 0 .. n - 1 : AvailAt(k)' \in WaitHeads' \ queue'
      /\ \A j, k \in 0 .. n - 1 : AvailAt(j)' = AvailAt(k)' => j = k
      /\ queue' \subseteq WaitHeads'
  BY <1>2, <1>3, <1>4, <1>q
<1>. QED
  BY <1>1, <1>4, <1>5, <1>7, <1>8 DEF QueueInv

\* The request whose process is woken is in no queue any more.
LEMMA QueueIntr ==
    ASSUME IInv, intr_entry, UNCHANGED NUM
    PROVE  QueueInv'
<1>. USE DEF IInv
<1>1. PICK m \in Nat, p \in Waiting :
             /\ m = UsedN /\ m > 0 /\ rw[p].head = UsedAt(0)
             /\ Waiting' = Waiting \ {p}
             /\ UsedN' = m - 1
             /\ \A k \in 0 .. m - 2 : UsedAt(k)' = UsedAt(k + 1)
  BY IntrStep
<1>n. PICK n \in Nat : n = AvailN
  BY RingTypes
<1>q. /\ n < NUM /\ m < NUM /\ queue \subseteq WaitHeads
      /\ \A k \in 0 .. n - 1 : AvailAt(k) \in WaitHeads \ queue
      /\ \A k \in 0 .. m - 1 : UsedAt(k) \in WaitHeads \ queue
      /\ \A j, k \in 0 .. n - 1 : AvailAt(j) = AvailAt(k) => j = k
      /\ \A j, k \in 0 .. m - 1 : UsedAt(j) = UsedAt(k) => j = k
      /\ \A j \in 0 .. n - 1, k \in 0 .. m - 1 : AvailAt(j) # UsedAt(k)
  BY <1>n, <1>1 DEF QueueInv
<1>2. UNCHANGED <<queue, taken, avail, avail_idx, rw>>
  BY DEF intr_entry
<1>3. WaitHeads' = WaitHeads \ {UsedAt(0)}
  <2>1. \A q \in Waiting : rw[q].head = rw[p].head => q = p
    BY Heads
  <2>. QED
    BY <1>1, <1>2, <2>1 DEF WaitHeads
<1>4. AvailN' = n /\ \A k \in 0 .. n - 1 : AvailAt(k)' = AvailAt(k)
  BY <1>n, <1>2 DEF AvailN, AvailAt
<1>5. n < NUM' /\ m - 1 < NUM'
  BY <1>q, Sizes DEF TypeOK
<1>6. 0 \in 0 .. m - 1
  BY <1>1
<1>7. \A k \in 0 .. (m - 1) - 1 : /\ k \in 0 .. m - 2 /\ k + 1 \in 0 .. m - 1 /\ k + 1 # 0
                                  /\ \A j \in 0 .. (m - 1) - 1 : j + 1 = k + 1 => j = k
  BY <1>1
<1>. DEFINE A(k) == AvailAt(k)
            B(k) == UsedAt(k)
<1>8. /\ \A k \in 0 .. (m - 1) - 1 : UsedAt(k)' = B(k + 1)
      /\ \A k \in 0 .. n - 1 : AvailAt(k)' = A(k)
  BY <1>1, <1>4, <1>7
<1>9. /\ \A k \in 0 .. n - 1 : A(k) \in WaitHeads \ queue
      /\ \A k \in 0 .. m - 1 : B(k) \in WaitHeads \ queue
      /\ \A j, k \in 0 .. n - 1 : A(j) = A(k) => j = k
      /\ \A j, k \in 0 .. m - 1 : B(j) = B(k) => j = k
      /\ \A j \in 0 .. n - 1, k \in 0 .. m - 1 : A(j) # B(k)
      /\ queue' = queue /\ WaitHeads' = WaitHeads \ {B(0)}
  BY <1>2, <1>3, <1>q
<1>. HIDE DEF A, B
<1>10. /\ \A k \in 0 .. (m - 1) - 1 : B(k + 1) \in WaitHeads' \ queue'
       /\ \A k \in 0 .. n - 1 : A(k) \in WaitHeads' \ queue'
       /\ queue' \subseteq WaitHeads'
  BY <1>6, <1>7, <1>9, <1>q
<1>11. /\ \A j, k \in 0 .. (m - 1) - 1 : B(j + 1) = B(k + 1) => j = k
       /\ \A j \in 0 .. n - 1, k \in 0 .. (m - 1) - 1 : A(j) # B(k + 1)
  BY <1>7, <1>9
<1>12. /\ \A k \in 0 .. n - 1 : AvailAt(k)' \in WaitHeads' \ queue'
       /\ \A k \in 0 .. (m - 1) - 1 : UsedAt(k)' \in WaitHeads' \ queue'
       /\ \A j, k \in 0 .. n - 1 : AvailAt(j)' = AvailAt(k)' => j = k
       /\ \A j, k \in 0 .. (m - 1) - 1 : UsedAt(j)' = UsedAt(k)' => j = k
       /\ \A j \in 0 .. n - 1, k \in 0 .. (m - 1) - 1 : AvailAt(j)' # UsedAt(k)'
  BY <1>8, <1>9, <1>10, <1>11
<1>. QED
  BY <1>1, <1>4, <1>5, <1>10, <1>12 DEF QueueInv

\* Every step keeps the queues.
LEMMA QueueStep ==
    ASSUME IInv, Next
    PROVE  QueueInv'
<1>. USE DEF IInv
<1>t. /\ vpc \in [Proc -> {"idle", "rw", "rw_desc", "rw_wait", "rw_done"}]
      /\ DOMAIN rw = Proc /\ UNCHANGED NUM
  BY DEF TypeOK, Next
<1>. DEFINE rings == <<queue, avail, avail_idx, taken, used, used_idx, used_end>>
<1>0. ASSUME UNCHANGED rings, Waiting' = Waiting, \A q \in Waiting : rw'[q] = rw[q]
      PROVE  QueueInv'
  <2>1. WaitHeads' = WaitHeads
    BY <1>0 DEF WaitHeads
  <2>. QED
    BY <1>t, <1>0, <2>1, QueueFrame
<1>1. ASSUME UNCHANGED rings, UNCHANGED <<vpc, rw>> PROVE QueueInv'
  BY <1>0, <1>1 DEF Waiting
<1>2. ASSUME NEW p \in Proc, NEW w, virtio_disk_rw(p, cur[p], w), vpc[p] = "idle"
      PROVE  QueueInv'
  <2>1. UNCHANGED rings
    BY <1>2 DEF virtio_disk_rw, device
  <2>2. Waiting' = Waiting /\ \A q \in Waiting : rw'[q] = rw[q]
    BY <1>t, <1>2 DEF virtio_disk_rw, Waiting
  <2>. QED
    BY <1>0, <2>1, <2>2
<1>3. ASSUME NEW p \in Proc, virtio_disk_rw_end(p) PROVE QueueInv'
  <2>1. UNCHANGED rings
    BY <1>3 DEF virtio_disk_rw_end, device
  <2>2. Waiting' = Waiting /\ \A q \in Waiting : rw'[q] = rw[q]
    BY <1>t, <1>3 DEF virtio_disk_rw_end, Waiting, WakeDesc
  <2>. QED
    BY <1>0, <2>1, <2>2
<1>4. ASSUME NEW p \in Proc, virtio_disk_rw_start(p) PROVE QueueInv'
  <2>1. CASE alloc3_fail(p)
    <3>1. UNCHANGED rings
      BY <2>1 DEF alloc3_fail, device
    <3>2. Waiting' = Waiting /\ \A q \in Waiting : rw'[q] = rw[q]
      BY <1>t, <1>4, <2>1 DEF virtio_disk_rw_start, alloc3_fail, Waiting, WakeDesc
    <3>. QED
      BY <1>0, <3>1, <3>2
  <2>. QED
    BY <1>t, <1>4, <2>1, QueueSubmit DEF virtio_disk_rw_start
<1>5. ASSUME virtio_disk_intr \/ intr_end PROVE QueueInv'
  BY <1>1, <1>5 DEF virtio_disk_intr, intr_end, device
<1>6. ASSUME VNext PROVE QueueInv'
  BY <1>t, <1>4, <1>5, <1>6, QueueTake, QueueComplete, QueueIntr DEF VNext
<1>7. ASSUME NEW p \in Proc,
             \/ \E blk \in Block : bget_hit(p, blk) \/ bget_miss(p, blk)
             \/ \E v \in Val : modify(p, v)
             \/ bpin(p) \/ bunpin(p) \/ brelse(p) \/ brelse_unref(p)
      PROVE  QueueInv'
  BY <1>1, <1>7 DEF bget_hit, bget_miss, modify, bpin, bunpin, brelse, brelse_unref, vio, device
<1>8. ASSUME NEW p \in Proc, bread(p) \/ bwrite(p) PROVE QueueInv'
  <2>1. vpc[p] = "idle"
    BY <1>8 DEF bread, bwrite, RwInv
  <2>2. UNCHANGED vio \/ \E w \in BOOLEAN : virtio_disk_rw(p, cur[p], w)
    BY <1>8 DEF bread, bwrite
  <2>. QED
    BY <1>1, <1>2, <2>1, <2>2 DEF vio, device
<1>9. ASSUME NEW p \in Proc, bread_end(p) \/ bwrite_end(p) PROVE QueueInv'
  BY <1>3, <1>9 DEF bread_end, bwrite_end
<1>. QED
  BY <1>6, <1>7, <1>8, <1>9 DEF Next, Step

-----------------------------------------------------------------------------
(***************************************************************************)
(* Contents.                                                               *)
(***************************************************************************)
\* Only the device fills a buffer, and only that of the request it completes.
LEMMA FilledStep ==
    ASSUME IInv, Next, NEW q \in Proc, Filled(q)'
    PROVE  \/ Filled(q)
           \/ \E d \in Desc : device_complete(d) /\ rw[q].head = d /\ q \in Waiting
<1>. USE DEF IInv
<1>t. /\ vpc \in [Proc -> {"idle", "rw", "rw_desc", "rw_wait", "rw_done"}]
      /\ DOMAIN rw = Proc /\ UNCHANGED NUM
  BY DEF TypeOK, Next
<1>0. ASSUME UNCHANGED <<used, used_idx, used_end>>, rw'[q] = rw[q],
             vpc'[q] \in {"rw_wait", "rw_done"} => vpc'[q] = vpc[q]
      PROVE  Filled(q)
  <2>1. UsedN' = UsedN /\ \A k : UsedAt(k)' = UsedAt(k)
    BY <1>t, <1>0 DEF UsedN, UsedAt
  <2>. QED
    BY <1>0, <2>1 DEF Filled
<1>1. ASSUME UNCHANGED <<used, used_idx, used_end, rw, vpc>> PROVE Filled(q)
  BY <1>0, <1>1
<1>2. ASSUME NEW p \in Proc, NEW w, virtio_disk_rw(p, cur[p], w) PROVE Filled(q)
  <2>1. q # p
    BY <1>t, <1>2 DEF virtio_disk_rw, Filled
  <2>2. vpc'[q] = vpc[q] /\ rw'[q] = rw[q]
    BY <1>t, <1>2, <2>1 DEF virtio_disk_rw
  <2>. QED
    BY <1>0, <1>2, <2>2 DEF virtio_disk_rw, device
<1>3. ASSUME NEW p \in Proc, virtio_disk_rw_end(p) PROVE Filled(q)
  <2>1. q # p
    BY <1>t, <1>3 DEF virtio_disk_rw_end, Filled
  <2>2. rw'[q] = rw[q] /\ (vpc'[q] \in {"rw_wait", "rw_done"} => vpc'[q] = vpc[q])
    BY <1>t, <1>3, <2>1 DEF virtio_disk_rw_end, WakeDesc
  <2>. QED
    BY <1>0, <1>3, <2>2 DEF virtio_disk_rw_end, device
<1>4. ASSUME NEW p \in Proc, alloc3_fail(p) PROVE Filled(q)
  <2>1. rw'[q] = rw[q] /\ (vpc'[q] \in {"rw_wait", "rw_done"} => vpc'[q] = vpc[q])
    BY <1>t, <1>4 DEF alloc3_fail, WakeDesc
  <2>. QED
    BY <1>0, <1>4, <2>1 DEF alloc3_fail, device
<1>5. ASSUME NEW p \in Proc, submit(p) PROVE Filled(q)
  <2>1. PICK i \in free :
          rw' = [rw EXCEPT ![p] = [b |-> rw[p].b, write |-> rw[p].write, head |-> i]]
    BY <1>5, SubmitStep
  <2>2. vpc' = [vpc EXCEPT ![p] = "rw_wait"] /\ UNCHANGED <<used, used_idx, used_end>>
    BY <1>5 DEF submit, device
  <2>3. UsedN' = UsedN /\ \A k : UsedAt(k)' = UsedAt(k)
    BY <1>t, <2>2 DEF UsedN, UsedAt
  <2>4. \A k \in 0 .. UsedN - 1 : UsedAt(k) # i
    BY Heads DEF QueueInv
  <2>5. q # p
    BY <1>t, <2>1, <2>2, <2>3, <2>4 DEF Filled
  <2>6. rw'[q] = rw[q] /\ vpc'[q] = vpc[q]
    BY <1>t, <2>1, <2>2, <2>5
  <2>. QED
    BY <1>0, <2>2, <2>6
<1>6. ASSUME NEW d \in Desc, device_complete(d), ~Filled(q)
      PROVE  rw[q].head = d /\ q \in Waiting
  <2>1. PICK m \in Nat : /\ m = UsedN /\ UsedN' = m + 1 /\ UsedAt(m)' = d
                         /\ \A k \in 0 .. m - 1 : UsedAt(k)' = UsedAt(k)
    BY <1>t, <1>6, CompleteStep
  <2>2. UNCHANGED <<vpc, rw>>
    BY <1>6 DEF device_complete
  <2>3. vpc[q] = "rw_wait" /\ \E k \in 0 .. (m + 1) - 1 : UsedAt(k)' = rw[q].head
    BY <1>6, <2>1, <2>2 DEF Filled
  <2>4. \A k \in 0 .. (m + 1) - 1 : k = m \/ k \in 0 .. m - 1
    BY <2>1
  <2>5. \A k \in 0 .. m - 1 : UsedAt(k) # rw[q].head
    BY <1>6, <2>1, <2>3 DEF Filled
  <2>. QED
    BY <2>1, <2>3, <2>4, <2>5 DEF Waiting
<1>7. ASSUME intr_entry PROVE Filled(q)
  <2>1. PICK m \in Nat, p \in Waiting :
             /\ m = UsedN /\ m > 0 /\ rw[p].head = UsedAt(0)
             /\ vpc' = [vpc EXCEPT ![p] = "rw_done"]
             /\ UsedN' = m - 1
             /\ \A k \in 0 .. m - 2 : UsedAt(k)' = UsedAt(k + 1)
    BY <1>t, <1>7, IntrStep
  <2>2. 0 \in 0 .. m - 1 /\ \A k \in 0 .. (m - 1) - 1 : k \in 0 .. m - 2 /\ k + 1 \in 0 .. m - 1
    BY <2>1
  <2>3. UNCHANGED rw
    BY <1>7 DEF intr_entry
  <2>4. CASE q = p
    BY <2>1, <2>2, <2>4 DEF Filled, Waiting
  <2>5. CASE q # p
    <3>1. vpc'[q] = vpc[q]
      BY <1>t, <2>1, <2>5
    <3>2. CASE vpc[q] = "rw_done"
      BY <3>2 DEF Filled
    <3>3. CASE vpc[q] # "rw_done"
      <4>1. vpc[q] = "rw_wait" /\ \E k \in 0 .. (m - 1) - 1 : UsedAt(k)' = rw[q].head
        BY <2>1, <2>3, <3>1, <3>3 DEF Filled
      <4>. QED
        BY <2>1, <2>2, <4>1 DEF Filled
    <3>. QED
      BY <3>2, <3>3
  <2>. QED
    BY <2>4, <2>5
<1>8. ASSUME device_take \/ virtio_disk_intr \/ intr_end PROVE Filled(q)
  BY <1>1, <1>8 DEF device_take, virtio_disk_intr, intr_end, device
<1>9. ASSUME NEW p \in Proc,
             \/ \E blk \in Block : bget_hit(p, blk) \/ bget_miss(p, blk)
             \/ \E v \in Val : modify(p, v)
             \/ bpin(p) \/ bunpin(p) \/ brelse(p) \/ brelse_unref(p)
      PROVE  Filled(q)
  BY <1>1, <1>9 DEF bget_hit, bget_miss, modify, bpin, bunpin, brelse, brelse_unref, vio, device
<1>10. ASSUME NEW p \in Proc, bread(p) \/ bread_end(p) \/ bwrite(p) \/ bwrite_end(p)
       PROVE  Filled(q)
  <2>1. UNCHANGED vio \/ virtio_disk_rw(p, cur[p], FALSE) \/ virtio_disk_rw(p, cur[p], TRUE)
        \/ virtio_disk_rw_end(p)
    BY <1>10 DEF bread, bread_end, bwrite, bwrite_end
  <2>. QED
    BY <1>1, <1>2, <1>3, <2>1 DEF vio, device
<1>. QED
  BY <1>4, <1>5, <1>6, <1>7, <1>8, <1>9, <1>10 DEF Next, Step, VNext, virtio_disk_rw_start

\* The process whose request the device completes, and what the request is.
LEMMA Completed ==
    ASSUME IInv, NEW d \in Desc, device_complete(d)
    PROVE  \E p \in Waiting :
             LET b == cur[p]
             IN  /\ p \in Proc /\ rw[p].head = d /\ b \in Buf /\ blockno[b] \in Block
                 /\ pc[p] \in {"reading", "writing"}
                 /\ pc[p] = "writing" =>
                       /\ valid[b] /\ UNCHANGED data
                       /\ store' = [store EXCEPT ![blockno[b]] = data[b]]
                 /\ pc[p] = "reading" =>
                       /\ ~valid[b] /\ UNCHANGED store
                       /\ data' = [data EXCEPT ![b] = store[blockno[b]]]
<1>. USE DEF IInv
<1>1. PICK p \in Waiting : rw[p].head = d
  BY DEF device_complete, QueueInv, WaitHeads
<1>2. p \in Live /\ p \in Proc /\ vpc[p] # "idle"
  BY DEF Waiting, Live
<1>3. /\ pc[p] \in {"reading", "writing"} /\ rw[p].b = cur[p]
      /\ (rw[p].write <=> pc[p] = "writing")
  BY <1>2 DEF RwInv
<1>4. /\ addr[next[d]] = cur[p] /\ ops[d].sector = blockno[cur[p]]
      /\ (ops[d].write <=> pc[p] = "writing")
  BY <1>1, <1>2, <1>3 DEF ChainInv
<1>5. cur[p] \in Buf /\ blockno[cur[p]] \in Block
  BY <1>2, <1>3 DEF RefInv, TypeOK
<1>6. (pc[p] = "writing" => valid[cur[p]]) /\ (pc[p] = "reading" => ~valid[cur[p]])
  BY <1>2 DEF HoldInv
<1>. QED
  BY <1>1, <1>2, <1>3, <1>4, <1>5, <1>6 DEF device_complete

\* A block whose buffer is not valid is on disk.
LEMMA OnDisk ==
    ASSUME OneBuffer, StoreData, NEW b \in Buf, blockno[b] \in Block, ~valid[b],
           None \notin Block
    PROVE  store[blockno[b]] = latest[blockno[b]]
  BY DEF OneBuffer, StoreData

\* A valid buffer has the last contents of its block.
LEMMA ValidStep ==
    ASSUME IInv, Next
    PROVE  ValidData'
<1>. USE NoneIsNone DEF IInv, DataInv
<1>t. /\ data \in [Buf -> Val \cup {None}] /\ latest \in [Block -> Val]
      /\ blockno \in [Buf -> Block \cup {None}] /\ valid \in [Buf -> BOOLEAN]
      /\ cur \in [Proc -> Buf \cup {None}]
  BY DEF TypeOK
<1>0. ASSUME UNCHANGED <<data, latest, blockno, valid>> PROVE ValidData'
  BY <1>0 DEF ValidData
<1>1. ASSUME NEW p \in Proc, NEW blk \in Block, bget_miss(p, blk) PROVE ValidData'
  <2>1. CASE Unused = {}
    BY <1>0, <1>1, <2>1 DEF bget_miss, vio
  <2>2. CASE Unused # {}
    <3>1. Victim \in Buf
      BY <2>2, VictimUnused DEF Unused
    <3>. QED
      BY <1>t, <1>1, <2>2, <3>1 DEF ValidData, bget_miss, recycle, vio
  <2>. QED
    BY <2>1, <2>2
<1>2. ASSUME NEW p \in Proc, bread_end(p) PROVE ValidData'
  <2>1. pc[p] = "reading" /\ Filled(p) /\ cur[p] \in Buf
    BY <1>t, <1>2 DEF bread_end, virtio_disk_rw_end, Filled, RefInv
  <2>2. data[cur[p]] = latest[blockno[cur[p]]]
    BY <2>1 DEF ReadData
  <2>3. valid' = [valid EXCEPT ![cur[p]] = TRUE] /\ UNCHANGED <<data, latest, blockno>>
    BY <1>2 DEF bread_end, virtio_disk_rw_end
  <2>. QED
    BY <1>t, <2>1, <2>2, <2>3 DEF ValidData
<1>3. ASSUME NEW p \in Proc, NEW v \in Val, modify(p, v) PROVE ValidData'
  <2>1. cur[p] \in Buf /\ valid[cur[p]] /\ blockno[cur[p]] \in Block
    BY <1>t, <1>3 DEF modify, RefInv, HoldInv
  <2>2. \A c \in Buf : valid[c] /\ c # cur[p] => blockno[c] \in Block /\ blockno[c] # blockno[cur[p]]
    BY <1>t, <2>1 DEF OneBuffer, HoldInv
  <2>3. /\ data' = [data EXCEPT ![cur[p]] = v] /\ UNCHANGED <<blockno, valid>>
        /\ latest' = [latest EXCEPT ![blockno[cur[p]]] = v]
    BY <1>3 DEF modify
  <2>. QED
    BY <1>t, <2>1, <2>2, <2>3 DEF ValidData
<1>4. ASSUME NEW d \in Desc, device_complete(d), UNCHANGED bio PROVE ValidData'
  <2>1. PICK p \in Proc :
          /\ cur[p] \in Buf /\ pc[p] \in {"reading", "writing"}
          /\ pc[p] = "writing" => UNCHANGED data
          /\ pc[p] = "reading" => /\ ~valid[cur[p]]
                                  /\ data' = [data EXCEPT ![cur[p]] = store[blockno[cur[p]]]]
    BY <1>4, Completed
  <2>. QED
    BY <1>t, <1>4, <2>1 DEF ValidData, bio
<1>5. ASSUME NEW p \in Proc, virtio_disk_rw_start(p), UNCHANGED bio PROVE ValidData'
  BY <1>0, <1>5 DEF virtio_disk_rw_start, alloc3_fail, submit, bio
<1>6. ASSUME device_take \/ virtio_disk_intr \/ intr_entry \/ intr_end, UNCHANGED bio
      PROVE  ValidData'
  BY <1>0, <1>6 DEF device_take, virtio_disk_intr, intr_entry, intr_end, bio
<1>7. ASSUME NEW p \in Proc,
             \/ \E blk \in Block : bget_hit(p, blk)
             \/ bpin(p) \/ bunpin(p) \/ brelse(p) \/ brelse_unref(p)
      PROVE  ValidData'
  BY <1>0, <1>7 DEF bget_hit, bpin, bunpin, brelse, brelse_unref, vio
<1>8. ASSUME NEW p \in Proc, bread(p) \/ bwrite(p) \/ bwrite_end(p) PROVE ValidData'
  BY <1>0, <1>8 DEF bread, bwrite, bwrite_end, virtio_disk_rw, virtio_disk_rw_end, vio
<1>. QED
  BY <1>1, <1>2, <1>3, <1>4, <1>5, <1>6, <1>7, <1>8 DEF Next, Step, VNext

\* A block that differs from its copy on disk stays in the cache.
LEMMA StoreStep ==
    ASSUME IInv, Next
    PROVE  StoreData'
<1>. USE NoneIsNone DEF IInv, DataInv
<1>t. /\ store \in [Block -> Val] /\ latest \in [Block -> Val]
      /\ blockno \in [Buf -> Block \cup {None}] /\ valid \in [Buf -> BOOLEAN]
      /\ cur \in [Proc -> Buf \cup {None}] /\ holder \in [Buf -> Proc \cup {None}]
      /\ pinned \subseteq Buf
  BY DEF TypeOK
<1>0. ASSUME UNCHANGED <<store, latest, blockno>>,
             \A b \in Buf : valid[b] => valid'[b],
             \A b \in Buf : valid[b] /\ (b \in pinned \/ holder[b] # None)
                              => (b \in pinned' \/ holder'[b] # None)
      PROVE  StoreData'
  BY <1>0 DEF StoreData
<1>1. ASSUME NEW p \in Proc, NEW blk \in Block, bget_miss(p, blk) PROVE StoreData'
  <2>1. CASE Unused = {}
    BY <1>0, <1>1, <2>1 DEF bget_miss, vio, device
  <2>2. CASE Unused # {}
    <3>1. Victim \in Buf /\ refcnt[Victim] = 0
      BY <2>2, VictimUnused DEF Unused
    <3>2. Victim \notin pinned /\ holder[Victim] = None
      BY <1>t, <3>1, Referenced DEF HoldInv
    <3>3. /\ blockno' = [blockno EXCEPT ![Victim] = blk]
          /\ valid' = [valid EXCEPT ![Victim] = FALSE]
          /\ UNCHANGED <<store, latest, pinned, holder>>
      BY <1>1, <2>2 DEF bget_miss, recycle, vio, device
    <3>. QED
      BY <1>t, <3>1, <3>2, <3>3 DEF StoreData
  <2>. QED
    BY <2>1, <2>2
<1>2. ASSUME NEW p \in Proc, bread_end(p) PROVE StoreData'
  BY <1>t, <1>0, <1>2 DEF bread_end, virtio_disk_rw_end, device
<1>3. ASSUME NEW p \in Proc, NEW v \in Val, modify(p, v) PROVE StoreData'
  <2>1. cur[p] \in Buf /\ valid[cur[p]] /\ blockno[cur[p]] \in Block /\ holder[cur[p]] # None
    BY <1>t, <1>3 DEF modify, RefInv, HoldInv
  <2>2. /\ latest' = [latest EXCEPT ![blockno[cur[p]]] = v]
        /\ UNCHANGED <<store, blockno, valid, pinned, holder>>
    BY <1>3 DEF modify, device
  <2>3. ASSUME NEW k \in Block, store'[k] # latest'[k]
        PROVE  \E b \in Buf : blockno'[b] = k /\ valid'[b] /\ (b \in pinned' \/ holder'[b] # None)
    <3>1. CASE k = blockno[cur[p]]
      BY <2>1, <2>2, <3>1
    <3>2. CASE k # blockno[cur[p]]
      BY <1>t, <2>2, <2>3, <3>2 DEF StoreData
    <3>. QED
      BY <3>1, <3>2
  <2>. QED
    BY <2>3 DEF StoreData
<1>4. ASSUME NEW p \in Proc, bunpin(p) PROVE StoreData'
  <2>1. cur[p] \in Buf /\ holder[cur[p]] # None
    BY <1>t, <1>4 DEF bunpin, RefInv, HoldInv
  <2>2. pinned' = pinned \ {cur[p]} /\ UNCHANGED <<store, latest, blockno, valid, holder>>
    BY <1>4 DEF bunpin, vio, device
  <2>. QED
    BY <1>0, <2>1, <2>2
<1>5. ASSUME NEW p \in Proc, brelse(p) PROVE StoreData'
  <2>1. cur[p] \in Buf /\ valid[cur[p]] /\ blockno[cur[p]] \in Block
    BY <1>t, <1>5 DEF brelse, RefInv, HoldInv
  <2>2. data[cur[p]] = latest[blockno[cur[p]]]
    BY <2>1 DEF ValidData
  <2>3. store[blockno[cur[p]]] = latest[blockno[cur[p]]] \/ cur[p] \in pinned
    BY <1>5, <2>2 DEF brelse, Clean
  <2>4. /\ holder' = [holder EXCEPT ![cur[p]] = None]
        /\ UNCHANGED <<store, latest, blockno, valid, pinned>>
    BY <1>5 DEF brelse, releasesleep, vio, device
  <2>. QED
    BY <1>t, <2>1, <2>3, <2>4 DEF StoreData
<1>6. ASSUME NEW d \in Desc, device_complete(d), UNCHANGED bio PROVE StoreData'
  <2>1. PICK p \in Proc :
          /\ cur[p] \in Buf /\ blockno[cur[p]] \in Block /\ pc[p] \in {"reading", "writing"}
          /\ pc[p] = "reading" => UNCHANGED store
          /\ pc[p] = "writing" =>
                /\ valid[cur[p]]
                /\ store' = [store EXCEPT ![blockno[cur[p]]] = data[cur[p]]]
    BY <1>6, Completed
  <2>2. pc[p] = "writing" => data[cur[p]] = latest[blockno[cur[p]]]
    BY <2>1 DEF ValidData
  <2>3. \A k \in Block : store'[k] = store[k] \/ store'[k] = latest[k]
    BY <1>t, <2>1, <2>2
  <2>. QED
    BY <1>6, <2>3 DEF StoreData, bio
<1>7. ASSUME NEW p \in Proc, virtio_disk_rw_start(p), UNCHANGED bio PROVE StoreData'
  BY <1>0, <1>7 DEF virtio_disk_rw_start, alloc3_fail, submit, bio, device
<1>8. ASSUME device_take \/ virtio_disk_intr \/ intr_entry \/ intr_end, UNCHANGED bio
      PROVE  StoreData'
  BY <1>0, <1>8 DEF device_take, virtio_disk_intr, intr_entry, intr_end, bio, device
<1>9. ASSUME NEW p \in Proc,
             \/ \E blk \in Block : bget_hit(p, blk)
             \/ bpin(p) \/ brelse_unref(p)
      PROVE  StoreData'
  BY <1>0, <1>9 DEF bget_hit, bpin, brelse_unref, vio, device
<1>10. ASSUME NEW p \in Proc, bread(p) PROVE StoreData'
  <2>1. UNCHANGED <<store, latest, blockno, valid, pinned>>
        /\ (holder' = holder \/ holder' = [holder EXCEPT ![cur[p]] = p])
    BY <1>10 DEF bread, virtio_disk_rw, vio, device
  <2>. QED
    BY <1>t, <1>0, <2>1
<1>11. ASSUME NEW p \in Proc, bwrite(p) \/ bwrite_end(p) PROVE StoreData'
  BY <1>0, <1>11 DEF bwrite, bwrite_end, virtio_disk_rw, virtio_disk_rw_end, device
<1>. QED
  BY <1>1, <1>2, <1>3, <1>4, <1>5, <1>6, <1>7, <1>8, <1>9, <1>10, <1>11
     DEF Next, Step, VNext

\* The buffer of a read that the device has done has the last contents of the
\* block, until the process that holds it takes it back.
LEMMA ReadStep ==
    ASSUME IInv, Next
    PROVE  ReadData'
<1>. USE NoneIsNone DEF IInv, DataInv
<1>. SUFFICES ASSUME NEW q \in Proc, pc'[q] = "reading", Filled(q)'
              PROVE  data'[cur'[q]] = latest'[blockno'[cur'[q]]]
  BY DEF ReadData
<1>t. /\ data \in [Buf -> Val \cup {None}] /\ latest \in [Block -> Val]
      /\ blockno \in [Buf -> Block \cup {None}] /\ valid \in [Buf -> BOOLEAN]
      /\ cur \in [Proc -> Buf \cup {None}] /\ store \in [Block -> Val]
      /\ pc \in [Proc -> {"user", "lock", "lock_asleep", "reading",
                         "held", "writing", "brelse"}]
  BY DEF TypeOK
<1>1. CASE ~Filled(q)
  <2>1. PICK d \in Desc : device_complete(d) /\ rw[q].head = d /\ q \in Waiting
    BY <1>1, FilledStep
  <2>2. PICK p \in Waiting :
          /\ p \in Proc /\ rw[p].head = d /\ cur[p] \in Buf /\ blockno[cur[p]] \in Block
          /\ pc[p] = "reading" =>
                /\ ~valid[cur[p]]
                /\ data' = [data EXCEPT ![cur[p]] = store[blockno[cur[p]]]]
    BY <2>1, Completed
  <2>3. p = q
    <3>1. p \in Live /\ q \in Live
      BY <2>1, <2>2 DEF Waiting, Live
    <3>. QED
      BY <2>1, <2>2, <3>1, ChainFacts DEF ChainInv
  <2>4. UNCHANGED bio
    <3>1. q \in Waiting /\ d \in queue /\ queue' = queue \ {d}
      BY <2>1 DEF device_complete
    <3>2. UNCHANGED vio => FALSE
      BY <3>1 DEF vio, device
    <3>3. UNCHANGED queue => FALSE
      BY <3>1
    <3>. QED
      BY <3>2, <3>3 DEF Next, Step, bget_hit, bget_miss, bread, bread_end, modify, bwrite,
             bwrite_end, bpin, bunpin, brelse, brelse_unref, virtio_disk_rw,
             virtio_disk_rw_end, device
  <2>5. store[blockno[cur[q]]] = latest[blockno[cur[q]]]
    BY <2>2, <2>3, <2>4, OnDisk DEF bio
  <2>. QED
    BY <1>t, <2>2, <2>3, <2>4, <2>5 DEF bio
<1>2. CASE Filled(q)
  <2>1. pc[q] \in {"reading", "writing"} /\ cur[q] \in Buf /\ blockno[cur[q]] \in Block
    BY <1>t, <1>2 DEF Filled, RwInv, RefInv
  <2>2. ASSUME pc'[q] = pc[q] PROVE data[cur[q]] = latest[blockno[cur[q]]] /\ pc[q] = "reading"
    BY <1>2, <2>2 DEF ReadData
  <2>0. ASSUME UNCHANGED <<data, latest, blockno, cur>>, pc'[q] = pc[q]
        PROVE  data'[cur'[q]] = latest'[blockno'[cur'[q]]]
    BY <2>0, <2>2
  <2>3. ASSUME NEW p \in Proc, NEW blk \in Block, bget_hit(p, blk) \/ bget_miss(p, blk)
        PROVE  data'[cur'[q]] = latest'[blockno'[cur'[q]]]
    <3>1. q # p
      BY <2>1, <2>3 DEF bget_hit, bget_miss
    <3>2. pc'[q] = pc[q] /\ cur'[q] = cur[q] /\ UNCHANGED <<data, latest>>
      BY <1>t, <2>3, <3>1 DEF bget_hit, bget_miss, Goto, vio
    <3>3. blockno'[cur[q]] = blockno[cur[q]]
      <4>1. CASE UNCHANGED blockno
        BY <4>1
      <4>2. CASE ~UNCHANGED blockno
        <5>1. Unused # {} /\ blockno' = [blockno EXCEPT ![Victim] = blk]
          BY <2>3, <4>2 DEF bget_hit, bget_miss, recycle
        <5>2. Victim \in Buf /\ refcnt[Victim] = 0
          BY <5>1, VictimUnused DEF Unused
        <5>3. cur[q] # Victim
          BY <5>2, Referenced
        <5>. QED
          BY <1>t, <2>1, <5>1, <5>3
      <4>. QED
        BY <4>1, <4>2
    <3>. QED
      BY <2>2, <3>2, <3>3
  <2>4. ASSUME NEW p \in Proc, bread(p)
        PROVE  data'[cur'[q]] = latest'[blockno'[cur'[q]]]
    <3>1. q # p
      BY <2>1, <2>4 DEF bread
    <3>2. pc'[q] = pc[q] /\ UNCHANGED <<data, latest, blockno, cur>>
      BY <1>t, <2>4, <3>1 DEF bread, Goto, vio, virtio_disk_rw
    <3>. QED
      BY <2>0, <3>2
  <2>5. ASSUME NEW p \in Proc, bread_end(p) \/ bwrite(p) \/ bwrite_end(p)
        PROVE  data'[cur'[q]] = latest'[blockno'[cur'[q]]]
    <3>1. UNCHANGED <<data, latest, blockno, cur>> /\ (pc' = [pc EXCEPT ![p] = "held"] \/
             pc' = [pc EXCEPT ![p] = "writing"])
      BY <2>5 DEF bread_end, bwrite, bwrite_end, Goto, virtio_disk_rw, virtio_disk_rw_end
    <3>2. pc'[q] = pc[q]
      BY <1>t, <3>1
    <3>. QED
      BY <2>0, <3>1, <3>2
  <2>6. ASSUME NEW p \in Proc, NEW v \in Val, modify(p, v)
        PROVE  data'[cur'[q]] = latest'[blockno'[cur'[q]]]
    <3>1. /\ data' = [data EXCEPT ![cur[p]] = v] /\ UNCHANGED <<blockno, cur, pc>>
          /\ latest' = [latest EXCEPT ![blockno[cur[p]]] = v] /\ pc[p] = "held"
      BY <2>6 DEF modify
    <3>2. pc[q] = "reading" /\ data[cur[q]] = latest[blockno[cur[q]]]
      BY <2>2, <3>1
    <3>3. cur[p] \in Buf /\ cur[p] # cur[q]
      <4>1. cur[p] # None
        BY <3>1 DEF RefInv
      <4>. QED
        BY <1>t, <3>1, <3>2, <4>1, OneHolder
    <3>4. blockno[cur[p]] # blockno[cur[q]]
      BY <2>1, <3>3 DEF OneBuffer
    <3>. QED
      BY <1>t, <2>1, <3>1, <3>2, <3>3, <3>4
  <2>7. ASSUME NEW p \in Proc, bpin(p) \/ bunpin(p) \/ brelse(p) \/ brelse_unref(p)
        PROVE  data'[cur'[q]] = latest'[blockno'[cur'[q]]]
    <3>1. UNCHANGED <<data, latest, blockno>>
      BY <2>7 DEF bpin, bunpin, brelse, brelse_unref, vio
    <3>2. pc'[q] = pc[q] /\ cur'[q] = cur[q]
      BY <1>t, <2>1, <2>7 DEF bpin, bunpin, brelse, brelse_unref, releasesleep, Goto
    <3>. QED
      BY <2>2, <3>1, <3>2
  <2>8. ASSUME NEW d \in Desc, device_complete(d), UNCHANGED bio
        PROVE  data'[cur'[q]] = latest'[blockno'[cur'[q]]]
    <3>1. PICK p \in Waiting :
          /\ p \in Proc /\ rw[p].head = d /\ cur[p] \in Buf
          /\ pc[p] \in {"reading", "writing"}
          /\ pc[p] = "writing" => UNCHANGED data
          /\ pc[p] = "reading" =>
                /\ ~valid[cur[p]] /\ blockno[cur[p]] \in Block
                /\ data' = [data EXCEPT ![cur[p]] = store[blockno[cur[p]]]]
      BY <2>8, Completed
    <3>2. UNCHANGED <<latest, blockno, cur, pc>>
      BY <2>8 DEF bio
    <3>3. pc[q] = "reading" /\ data[cur[q]] = latest[blockno[cur[q]]]
      BY <2>2, <3>2
    <3>4. CASE pc[p] = "writing"
      BY <3>1, <3>2, <3>3, <3>4
    <3>5. CASE pc[p] = "reading" /\ cur[p] = cur[q]
      BY <1>t, <3>1, <3>2, <3>5, OnDisk
    <3>6. CASE pc[p] = "reading" /\ cur[p] # cur[q]
      BY <1>t, <2>1, <3>1, <3>2, <3>3, <3>6
    <3>. QED
      BY <3>1, <3>4, <3>5, <3>6
  <2>9. ASSUME NEW p \in Proc, virtio_disk_rw_start(p), UNCHANGED bio
        PROVE  data'[cur'[q]] = latest'[blockno'[cur'[q]]]
    BY <2>0, <2>9 DEF virtio_disk_rw_start, alloc3_fail, submit, bio
  <2>10. ASSUME device_take \/ virtio_disk_intr \/ intr_entry \/ intr_end, UNCHANGED bio
         PROVE  data'[cur'[q]] = latest'[blockno'[cur'[q]]]
    BY <2>0, <2>10 DEF device_take, virtio_disk_intr, intr_entry, intr_end, bio
  <2>. QED
    BY <2>3, <2>4, <2>5, <2>6, <2>7, <2>8, <2>9, <2>10 DEF Next, Step, VNext
<1>. QED
  BY <1>1, <1>2

-----------------------------------------------------------------------------
(***************************************************************************)
(* The theorems.                                                           *)
(***************************************************************************)
\* binit() and virtio_disk_init(): every buffer is in the list and free.
LEMMA InitInv ==
    ASSUME Init
    PROVE  IInv
<1>. USE NoneIsNone DEF Init, VInit
<1>n. /\ NUM \in Nat /\ NUM >= 3 /\ UINT16 \in Nat \ {0} /\ UINT16 >= NUM
      /\ 0 \in 0 .. UINT16 - 1 /\ 0 \in Desc
  BY Sizes
<1>c. Cardinality(Buf) \in Nat /\ IsFiniteSet(Buf)
      /\ Cardinality(Proc) \in Nat /\ IsFiniteSet(Proc)
  BY VirtioAssumption, FS_CardinalityType
<1>1. TypeOK
  <2>1. /\ NoOp \in [write : BOOLEAN, sector : Block \cup {None}]
        /\ Idle \in [b : Buf \cup {None}, write : BOOLEAN, head : Desc \cup {None}]
    BY DEF NoOp, Idle
  <2>2. 0 \in 0 .. Cardinality(Proc) + 1
    BY <1>c
  <2>. QED
    BY <1>n, <2>1, <2>2 DEF TypeOK
<1>2. LruInv
  <2>1. lru \in [1 .. Cardinality(Buf) -> Buf] /\ DOMAIN lru = 1 .. Cardinality(Buf)
        /\ \A j, k \in 1 .. Cardinality(Buf) : lru[j] = lru[k] => j = k
    OBVIOUS
  <2>2. lru \in Injection(1 .. Cardinality(Buf), Buf)
    BY <2>1, Fun_IsInj
  <2>3. Cardinality(1 .. Cardinality(Buf)) = Cardinality(Buf)
    BY <1>c, FS_Interval
  <2>4. lru \in Surjection(1 .. Cardinality(Buf), Buf)
    BY <1>c, <2>2, <2>3, FS_Injection
  <2>5. \A b \in Buf : \E k \in 1 .. Cardinality(Buf) : lru[k] = b
    BY <2>4 DEF Surjection
  <2>. QED
    BY <2>1, <2>5 DEF LruInv
<1>3. RefInv
  <2>1. \A b \in Buf : Refs(b) = {}
    BY DEF Refs
  <2>. QED
    BY <2>1, FS_EmptySet DEF RefInv
<1>4. HoldInv /\ OneBuffer /\ RwInv /\ DiskInv
  BY DEF HoldInv, OneBuffer, RwInv, DiskInv
<1>5. Live = {} /\ Waiting = {}
  BY DEF Live, Waiting
<1>6. ChainInv
  BY <1>5 DEF ChainInv
<1>7. AvailN = 0 /\ UsedN = 0
  BY <1>n, ModSmall DEF AvailN, UsedN
<1>8. QueueInv
  BY <1>n, <1>5, <1>7 DEF QueueInv, WaitHeads
<1>9. DataInv
  BY DEF DataInv, ValidData, StoreData, ReadData
<1>10. NoLostCompletion /\ NoLostWakeup
  BY DEF NoLostCompletion, NoLostWakeup
<1>. QED
  BY <1>1, <1>2, <1>3, <1>4, <1>6, <1>8, <1>9, <1>10 DEF IInv

\* The invariant says nothing that a stuttering step changes.
LEMMA StutterInv ==
    ASSUME IInv, UNCHANGED vars
    PROVE  IInv'
<1>. USE DEF IInv, vars, vio, device, bio
<1>1. TypeOK' /\ LruInv' /\ HoldInv' /\ OneBuffer' /\ RwInv'
  BY DEF TypeOK, LruInv, HoldInv, OneBuffer, RwInv, Desc
<1>2. RefInv'
  BY DEF RefInv, Refs
<1>3. ChainInv' /\ DiskInv'
  BY DEF ChainInv, DiskInv, Live, Waiting, Chain, Desc
<1>4. QueueInv'
  BY DEF QueueInv, WaitHeads, Waiting, AvailN, AvailAt, UsedN, UsedAt
<1>5. DataInv'
  BY DEF DataInv, ValidData, StoreData, ReadData, Filled, UsedN, UsedAt
<1>6. NoLostCompletion' /\ NoLostWakeup'
  BY DEF NoLostCompletion, NoLostWakeup
<1>. QED
  BY <1>1, <1>2, <1>3, <1>4, <1>5, <1>6

\* Every step keeps the invariant.
LEMMA StepInv ==
    ASSUME IInv, [Next]_vars
    PROVE  IInv'
<1>1. CASE Next
  <2>1. TypeOK' /\ LruInv' /\ HoldInv' /\ OneBuffer' /\ RwInv'
    BY <1>1, TypeInv, LruStep, HoldStep, OneBufferStep, RwStep
  <2>2. RefInv'
    <3>1. \A b \in Buf : refcnt'[b] = Cardinality(Refs(b)')
      BY <1>1, RefCount DEF IInv
    <3>. QED
      BY <1>1, <3>1, RefCurStep DEF RefInv, RefCur
  <2>3. ChainInv' /\ DiskInv' /\ QueueInv'
    BY <1>1, ChainStep, DiskStep, QueueStep
  <2>4. DataInv'
    BY <1>1, ValidStep, StoreStep, ReadStep DEF DataInv
  <2>5. NoLostCompletion'
    BY <1>1, CompletionStep DEF IInv
  <2>6. NoLostWakeup'
    BY <1>1, LockWakeStep, DescWakeStep DEF NoLostWakeup, LockWake, DescWake
  <2>. QED
    BY <2>1, <2>2, <2>3, <2>4, <2>5, <2>6 DEF IInv
<1>2. CASE UNCHANGED vars
  BY <1>2, StutterInv
<1>. QED
  BY <1>1, <1>2

\* The buffer cache and the disk driver keep the inductive invariant.
THEOREM BufCacheInv == Spec => []IInv
  BY InitInv, StepInv, PTL DEF Spec

\* Every variable keeps its type: the reference counts stay between 0 and one
\* per process and the log's pin, and the ring indices within 16 bits.
THEOREM BufCacheTypeCorrect == Spec => []TypeOK
<1>1. IInv => TypeOK
  BY DEF IInv
<1>. QED
  BY <1>1, BufCacheInv, PTL

\* However the calls of bget() interleave, a block has one buffer at most.
THEOREM BufOneBuffer == Spec => []OneBuffer
<1>1. IInv => OneBuffer
  BY DEF IInv
<1>. QED
  BY <1>1, BufCacheInv, PTL

\* Who holds a buffer has its sleep lock, and sees what the last holder of the
\* block left in it: in the buffer, or read back from the disk.
THEOREM BufReadLatest == Spec => []ReadLatest
<1>1. IInv => ReadLatest
  <2>. SUFFICES ASSUME IInv, NEW p \in Proc, pc[p] = "held"
                PROVE  holder[cur[p]] = p /\ data[cur[p]] = latest[blockno[cur[p]]]
    BY DEF ReadLatest
  <2>1. cur[p] \in Buf
    BY DEF IInv, RefInv, TypeOK
  <2>2. holder[cur[p]] = p /\ valid[cur[p]]
    BY <2>1 DEF IInv, HoldInv
  <2>. QED
    BY <2>1, <2>2 DEF IInv, DataInv, ValidData
<1>. QED
  BY <1>1, BufCacheInv, PTL

\* From submit to the completion interrupt, the buffer is referenced and locked
\* by the process that sleeps in virtio_disk_rw().
THEOREM BufDiskOwnsLocked == Spec => []DiskOwnsLocked
<1>1. IInv => DiskOwnsLocked
  <2>. SUFFICES ASSUME IInv, NEW b \in Buf, b_disk[b]
                PROVE  /\ refcnt[b] > 0 /\ holder[b] # None
                       /\ vpc[holder[b]] = "rw_wait" /\ rw[holder[b]].b = b
    BY DEF DiskOwnsLocked
  <2>1. PICK p \in Proc : vpc[p] = "rw_wait" /\ rw[p].b = b
    BY DEF IInv, DiskInv, Waiting
  <2>2. cur[p] = b /\ pc[p] \in {"reading", "writing"}
    BY <2>1 DEF IInv, RwInv
  <2>3. holder[b] = p
    BY <2>2 DEF IInv, HoldInv
  <2>4. refcnt[b] \in 0 .. Cardinality(Proc) + 1 /\ refcnt[b] # 0
    BY <2>2, Referenced DEF IInv
  <2>5. Cardinality(Proc) \in Nat
    BY VirtioAssumption, FS_CardinalityType
  <2>6. refcnt[b] > 0
    BY <2>4, <2>5
  <2>. QED
    BY <2>1, <2>3, <2>6, NoneIsNone
<1>. QED
  BY <1>1, BufCacheInv, PTL

\* alloc3_desc() and free_chain() between them lose no descriptor, and give none
\* to two requests.
THEOREM BufDescAccounted == Spec => []DescAccounted
<1>1. IInv => DescAccounted
  <2>. SUFFICES ASSUME IInv PROVE DescAccounted
    OBVIOUS
  <2>1. \A p \in Live : Chain(rw[p].head) \cap free = {} /\ Chain(rw[p].head) \subseteq Desc
    BY ChainFacts DEF IInv, ChainInv
  <2>2. \A d \in Desc : d \in free \/ \E p \in Live : d \in Chain(rw[p].head)
    BY DEF IInv, ChainInv
  <2>3. \A p, q \in Live : p # q => Chain(rw[p].head) \cap Chain(rw[q].head) = {}
    BY DEF IInv, ChainInv
  <2>4. free \subseteq Desc
    BY DEF IInv, TypeOK
  <2>5. free = Desc \ UNION {Chain(rw[p].head) : p \in Live}
    BY <2>1, <2>2, <2>4
  <2>. QED
    BY <2>3, <2>5 DEF DescAccounted, Live
<1>. QED
  BY <1>1, BufCacheInv, PTL

\* virtio_disk_intr() acknowledges before it reads the used ring, and so leaves
\* no completed request behind without another interrupt pending.
THEOREM BufNoLostCompletion == Spec => []NoLostCompletion
<1>1. IInv => NoLostCompletion
  BY DEF IInv
<1>. QED
  BY <1>1, BufCacheInv, PTL

\* Nobody sleeps in acquiresleep() on a free lock, or in virtio_disk_rw() for
\* descriptors when three are free.
THEOREM BufNoLostWakeup == Spec => []NoLostWakeup
<1>1. IInv => NoLostWakeup
  BY DEF IInv
<1>. QED
  BY <1>1, BufCacheInv, PTL
=============================================================================
