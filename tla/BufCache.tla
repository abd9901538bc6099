------------------------------ MODULE BufCache ------------------------------
(***************************************************************************)
(* kernel/bio.c and kernel/sleeplock.c on top of kernel/virtio_disk.c: a   *)
(* process gets a block, waits for the buffer's sleep lock, reads it in    *)
(* if it is not valid, changes, writes and pins it, and releases it.       *)
(*                                                                         *)
(* A step is a critical section of bcache.lock or of a sleep lock's own    *)
(* spin lock.  The callers keep the rule of kernel/log.c: a buffer that is *)
(* not yet on disk is pinned before it is released.                        *)
(***************************************************************************)
EXTENDS Virtio

VARIABLES
    lru,        \* the list from head.next, the most recently used, on
    valid,      \* b->valid
    refcnt,     \* b->refcnt
    holder,     \* who has b->lock
    pc, cur,    \* each process: where it is, its buffer
    panicked,   \* "bget: no buffers"
    pinned,     \* history: buffers with a reference of bpin()
    latest      \* history: the last contents given to each block

bio  == <<lru, blockno, valid, refcnt, holder, pc, cur, panicked, pinned, latest>>
vars == <<NUM, vio, bio>>

Init ==
    /\ VInit
    /\ lru \in {s \in [1 .. Cardinality(Buf) -> Buf] :
                    \A j, k \in DOMAIN s : s[j] = s[k] => j = k}
    /\ blockno = [b \in Buf |-> None]
    /\ valid = [b \in Buf |-> FALSE]
    /\ refcnt = [b \in Buf |-> 0]
    /\ holder = [b \in Buf |-> None]
    /\ pc = [p \in Proc |-> "user"]
    /\ cur = [p \in Proc |-> None]
    /\ panicked = FALSE
    /\ pinned = {}
    /\ latest = store

Goto(p, label) == pc' = [pc EXCEPT ![p] = label]

-----------------------------------------------------------------------------
(***************************************************************************)
(* bget(): under bcache.lock, then acquiresleep().                         *)
(***************************************************************************)
\* Mutant: only buffers in use are looked at.
Cached_inuse(blk) == {b \in Buf : blockno[b] = blk /\ refcnt[b] > 0}

Cached(blk) == {b \in Buf : blockno[b] = blk}
Unused == {b \in Buf : refcnt[b] = 0}

\* The least recently used buffer without references.
Victim == lru[Max({k \in DOMAIN lru : lru[k] \in Unused})]

\* Is the block already cached?
bget_hit(p, blk) ==
    /\ pc[p] = "user" /\ ~panicked
    /\ \E b \in Cached(blk) :
        /\ refcnt' = [refcnt EXCEPT ![b] = @ + 1]
        /\ cur' = [cur EXCEPT ![p] = b]
    /\ Goto(p, "lock")
    /\ UNCHANGED <<vio, lru, blockno, valid, holder, panicked, pinned, latest>>

\* Mutant: b->valid is not cleared.
recycle_valid(b, blk) ==
    /\ blockno' = [blockno EXCEPT ![b] = blk]
    /\ refcnt' = [refcnt EXCEPT ![b] = 1]
    /\ UNCHANGED valid

recycle(b, blk) ==
    /\ blockno' = [blockno EXCEPT ![b] = blk]
    /\ valid' = [valid EXCEPT ![b] = FALSE]
    /\ refcnt' = [refcnt EXCEPT ![b] = 1]

\* Not cached: recycle a buffer, or panic.
bget_miss(p, blk) ==
    /\ pc[p] = "user" /\ ~panicked
    /\ Cached(blk) = {}
    /\ IF Unused = {}
       THEN panicked' = TRUE /\ UNCHANGED <<blockno, valid, refcnt, cur, pc>>
       ELSE /\ recycle(Victim, blk)
            /\ cur' = [cur EXCEPT ![p] = Victim]
            /\ Goto(p, "lock")
            /\ UNCHANGED panicked
    /\ UNCHANGED <<vio, lru, holder, pinned, latest>>

\* acquiresleep() ends bget(), and bread() reads the block in if the buffer
\* is not valid; nobody else looks at b->valid without the lock.
bread(p) ==
    /\ pc[p] = "lock"
    /\ IF holder[cur[p]] # None
       THEN Goto(p, "lock_asleep") /\ UNCHANGED <<holder, vio>>
       ELSE /\ holder' = [holder EXCEPT ![cur[p]] = p]
            /\ IF valid[cur[p]]
               THEN Goto(p, "held") /\ UNCHANGED vio
               ELSE Goto(p, "reading") /\ virtio_disk_rw(p, cur[p], FALSE)
    /\ UNCHANGED <<lru, blockno, valid, refcnt, cur, panicked, pinned, latest>>

\* virtio_disk_rw() returns.
bread_end(p) ==
    /\ pc[p] = "reading"
    /\ virtio_disk_rw_end(p)
    /\ valid' = [valid EXCEPT ![cur[p]] = TRUE]
    /\ Goto(p, "held")
    /\ UNCHANGED <<lru, blockno, refcnt, holder, cur, panicked, pinned, latest>>

-----------------------------------------------------------------------------
(***************************************************************************)
(* What a caller does with a locked buffer.                                *)
(***************************************************************************)
modify(p, v) ==
    /\ pc[p] = "held"
    /\ v # data[cur[p]]
    /\ data' = [data EXCEPT ![cur[p]] = v]
    /\ latest' = [latest EXCEPT ![blockno[cur[p]]] = v]
    /\ UNCHANGED <<device, b_disk, free, next, ops, addr, info, avail, avail_idx,
                   used_idx, isr, handling, vpc, rw,
                   lru, blockno, valid, refcnt, holder, pc, cur, panicked, pinned>>

bwrite(p) ==
    /\ pc[p] = "held"
    /\ virtio_disk_rw(p, cur[p], TRUE)
    /\ Goto(p, "writing")
    /\ UNCHANGED <<lru, blockno, valid, refcnt, holder, cur, panicked, pinned, latest>>

bwrite_end(p) ==
    /\ pc[p] = "writing"
    /\ virtio_disk_rw_end(p)
    /\ Goto(p, "held")
    /\ UNCHANGED <<lru, blockno, valid, refcnt, holder, cur, panicked, pinned, latest>>

\* log_write() pins a buffer once, and install_trans() unpins it after it
\* has written it.
bpin(p) ==
    /\ pc[p] = "held" /\ cur[p] \notin pinned
    /\ refcnt' = [refcnt EXCEPT ![cur[p]] = @ + 1]
    /\ pinned' = pinned \cup {cur[p]}
    /\ UNCHANGED <<vio, lru, blockno, valid, holder, pc, cur, panicked, latest>>

Clean(b) == data[b] = store[blockno[b]]

bunpin(p) ==
    /\ pc[p] = "held" /\ cur[p] \in pinned /\ Clean(cur[p])
    /\ refcnt' = [refcnt EXCEPT ![cur[p]] = @ - 1]
    /\ pinned' = pinned \ {cur[p]}
    /\ UNCHANGED <<vio, lru, blockno, valid, holder, pc, cur, panicked, latest>>

\* The lock is given up and everyone asleep on it wakes.
releasesleep(p) ==
    /\ holder' = [holder EXCEPT ![cur[p]] = None]
    /\ pc' = [q \in Proc |-> IF q = p THEN "brelse"
                             ELSE IF pc[q] = "lock_asleep" /\ cur[q] = cur[p]
                             THEN "lock" ELSE pc[q]]

\* brelse(): release the lock, and then, in a step of its own, drop the
\* reference.
brelse(p) ==
    /\ pc[p] = "held"
    /\ Clean(cur[p]) \/ cur[p] \in pinned
    /\ releasesleep(p)
    /\ UNCHANGED <<vio, lru, blockno, valid, refcnt, cur, panicked, pinned, latest>>

\* The list with b moved to its head.
ToHead(b) ==
    LET i == CHOOSE k \in DOMAIN lru : lru[k] = b
    IN  [k \in DOMAIN lru |-> IF k = 1 THEN b
                             ELSE IF k <= i THEN lru[k - 1] ELSE lru[k]]

\* A buffer without references goes to the head of the list.
brelse_unref(p) ==
    LET b == cur[p]
    IN  /\ pc[p] = "brelse"
        /\ refcnt' = [refcnt EXCEPT ![b] = @ - 1]
        /\ lru' = IF refcnt[b] = 1 THEN ToHead(b) ELSE lru
        /\ cur' = [cur EXCEPT ![p] = None]
        /\ Goto(p, "user")
        /\ UNCHANGED <<vio, blockno, valid, holder, panicked, pinned, latest>>

Step ==
    \/ \E p \in Proc :
        \/ \E blk \in Block : bget_hit(p, blk) \/ bget_miss(p, blk)
        \/ bread(p) \/ bread_end(p)
        \/ \E v \in Val : modify(p, v)
        \/ bwrite(p) \/ bwrite_end(p) \/ bpin(p) \/ bunpin(p)
        \/ brelse(p) \/ brelse_unref(p)
    \/ VNext /\ UNCHANGED bio

Next == Step /\ UNCHANGED NUM

Spec == Init /\ [][Next]_vars

-----------------------------------------------------------------------------
(***************************************************************************)
(* Properties.                                                             *)
(***************************************************************************)

\* Type invariant, of Virtio too.
TypeOK ==
    /\ NUM \in QueueSizes
    /\ store \in [Block -> Val] /\ latest \in [Block -> Val]
    /\ data \in [Buf -> Val \cup {None}]
    /\ blockno \in [Buf -> Block \cup {None}]
    /\ b_disk \in [Buf -> BOOLEAN] /\ valid \in [Buf -> BOOLEAN]
    /\ free \subseteq Desc /\ queue \subseteq Desc
    /\ next \in [Desc -> Desc \cup {None}]
    /\ ops \in [Desc -> [write : BOOLEAN, sector : Block \cup {None}]]
    /\ addr \in [Desc -> Buf \cup {None}] /\ info \in [Desc -> Buf \cup {None}]
    /\ avail \in [Desc -> Desc] /\ used \in [Desc -> Desc]
    /\ avail_idx \in 0 .. UINT16 - 1 /\ taken \in 0 .. UINT16 - 1
    /\ used_idx \in 0 .. UINT16 - 1 /\ used_end \in 0 .. UINT16 - 1
    /\ isr \in BOOLEAN /\ handling \in BOOLEAN /\ panicked \in BOOLEAN
    /\ vpc \in [Proc -> {"idle", "rw", "rw_desc", "rw_wait", "rw_done"}]
    /\ rw \in [Proc -> [b : Buf \cup {None}, write : BOOLEAN, head : Desc \cup {None}]]
    /\ lru \in [1 .. Cardinality(Buf) -> Buf]
    /\ refcnt \in [Buf -> 0 .. Cardinality(Proc) + 1]
    /\ holder \in [Buf -> Proc \cup {None}]
    /\ pc \in [Proc -> {"user", "lock", "lock_asleep", "reading",
                        "held", "writing", "brelse"}]
    /\ cur \in [Proc -> Buf \cup {None}]
    /\ pinned \subseteq Buf

\* A block has one buffer at most, however the calls of bget() interleave.
OneBuffer ==
    \A b, c \in Buf : b # c /\ blockno[b] # None => blockno[b] # blockno[c]

\* The holder of a buffer sees what the last holder left in that block, also
\* when the buffer was recycled meanwhile and the block read back from disk.
ReadLatest ==
    \A p \in Proc : pc[p] = "held" =>
        /\ holder[cur[p]] = p
        /\ data[cur[p]] = latest[blockno[cur[p]]]

\* A buffer the disk owns, to fill it or to write it out, is locked by the
\* process that waits for it, so nobody else changes or recycles it.
DiskOwnsLocked ==
    \A b \in Buf : b_disk[b] =>
        /\ refcnt[b] > 0 /\ holder[b] # None
        /\ vpc[holder[b]] = "rw_wait" /\ rw[holder[b]].b = b

\* Every descriptor is free or in the chain of exactly one request: none is
\* shared by two requests, freed early or lost.
DescAccounted ==
    LET Live == {p \in Proc : vpc[p] \in {"rw_wait", "rw_done"}}
    IN  /\ free = Desc \ UNION {Chain(rw[p].head) : p \in Live}
        /\ \A p, q \in Live :
            p # q => Chain(rw[p].head) \cap Chain(rw[q].head) = {}

\* Outside the interrupt handler, and with no interrupt pending, the used
\* ring has been read to its end: no completed request waits for ever.
NoLostCompletion ==
    ~isr /\ ~handling => used_idx = used_end

\* Nobody sleeps on a free sleep lock, or for descriptors when three are free.
NoLostWakeup ==
    \A p \in Proc :
        /\ pc[p] = "lock_asleep" => holder[cur[p]] # None
        /\ vpc[p] = "rw_desc" => Cardinality(free) < 3
=============================================================================
