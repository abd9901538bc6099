------------------------------- MODULE Virtio -------------------------------
(***************************************************************************)
(* kernel/virtio_disk.c: requests of three descriptors each, the avail and *)
(* used rings, the completion interrupt, and the device, which completes   *)
(* the requests it was given in any order and without errors.              *)
(*                                                                         *)
(* A step of the driver is a critical section of vdisk_lock; the interrupt *)
(* handler, which the device does not wait for, is one step per used-ring  *)
(* entry.  A ring entry that has been read, and the request header of a    *)
(* free descriptor, are dead and are cleared in the model.                 *)
(*                                                                         *)
(* This module has the actions; the caller is kernel/bio.c.                *)
(***************************************************************************)
EXTENDS Integers, FiniteSets, FiniteSetsExt

CONSTANTS
    Proc,       \* processes that read and write blocks
    Buf,        \* the struct buf's of the buffer cache
    Block,      \* disk blocks
    Val,        \* contents of a block
    None,       \* null
    QueueSizes, \* the values of NUM to consider
    UINT16      \* 2^16: avail->idx and used->idx wrap there

ASSUME VirtioAssumption ==
    /\ IsFiniteSet(Proc) /\ IsFiniteSet(Buf)
    /\ None \notin Proc \cup Buf \cup Block \cup Val
    /\ UINT16 \in Nat \ {0}
    /\ \A n \in QueueSizes : n \in Nat /\ n >= 3 /\ UINT16 % n = 0

VARIABLES
    NUM,        \* descriptors, and entries of each ring; never changes
    store,      \* the disk
    data,       \* b->data
    blockno,    \* b->blockno
    b_disk,     \* b->disk: the disk owns the buffer
    free,       \* disk.free: the free descriptors
    next,       \* desc[i].next when the NEXT flag is set, or None
    ops,        \* ops[i]: type and sector
    addr,       \* desc[i].addr where it is a data buffer, or None
    info,       \* info[i].b
    avail,      \* avail->ring
    avail_idx,  \* avail->idx
    used,       \* used->ring
    used_end,   \* used->idx, the device's
    used_idx,   \* disk.used_idx, the driver's
    isr,        \* the device asks for an interrupt
    handling,   \* virtio_disk_intr() is running, and holds vdisk_lock
    taken,      \* device: how far it has read the avail ring
    queue,      \* device: heads of the chains it has taken
    vpc,        \* each process: where in virtio_disk_rw() it is
    rw          \* its arguments and idx[0]

device == <<used, used_end, taken, queue, store>>
vio    == <<device, data, b_disk, free, next, ops, addr, info, avail,
            avail_idx, used_idx, isr, handling, vpc, rw>>

Desc == 0 .. NUM - 1
NoOp == [write |-> FALSE, sector |-> None]
Idle == [b |-> None, write |-> FALSE, head |-> None]

VInit ==
    /\ NUM \in QueueSizes
    /\ store \in [Block -> Val]
    /\ data = [b \in Buf |-> None]
    /\ b_disk = [b \in Buf |-> FALSE]
    /\ free = Desc
    /\ next = [d \in Desc |-> None]
    /\ ops = [d \in Desc |-> NoOp]
    /\ addr = [d \in Desc |-> None]
    /\ info = [d \in Desc |-> None]
    /\ avail = [k \in Desc |-> 0] /\ avail_idx = 0
    /\ used = [k \in Desc |-> 0] /\ used_end = 0 /\ used_idx = 0
    /\ isr = FALSE /\ handling = FALSE
    /\ taken = 0 /\ queue = {}
    /\ vpc = [p \in Proc |-> "idle"]
    /\ rw = [p \in Proc |-> Idle]

Inc16(k) == (k + 1) % UINT16

\* The chain of descriptors from head d on, which free_chain() frees.
Chain(d) == {d, next[d], next[next[d]]}

Freed_head(d) == {d}        \* mutant
Freed(d) == Chain(d)

WakeDesc_silent(q) == vpc[q]    \* mutant

\* free_desc() and free_chain() wake the processes that wait for descriptors.
WakeDesc(q) == IF vpc[q] = "rw_desc" THEN "rw" ELSE vpc[q]

-----------------------------------------------------------------------------
\* The call virtio_disk_rw(b, write) by process p.
virtio_disk_rw(p, b, write) ==
    /\ vpc' = [vpc EXCEPT ![p] = "rw"]
    /\ rw' = [rw EXCEPT ![p] = [b |-> b, write |-> write, head |-> None]]
    /\ UNCHANGED <<device, data, b_disk, free, next, ops, addr, info, avail,
                   avail_idx, used_idx, isr, handling>>

\* alloc3_desc() fails: the descriptors it did get are freed again, which
\* wakes the others that wait, and p sleeps on &disk.free[0].
alloc3_fail(p) ==
    /\ Cardinality(free) < 3
    /\ vpc' = [q \in Proc |-> IF q = p THEN "rw_desc"
                              ELSE IF free = {} THEN vpc[q] ELSE WakeDesc(q)]
    /\ UNCHANGED <<device, data, b_disk, free, next, ops, addr, info, avail,
                   avail_idx, used_idx, isr, handling, rw>>

\* alloc3_desc() takes the three lowest: they are filled, put into the avail
\* ring, and p sleeps on b.
submit(p) ==
    LET b  == rw[p].b
        i0 == Min(free)
        i1 == Min(free \ {i0})
        i2 == Min(free \ {i0, i1})
    IN  /\ Cardinality(free) >= 3
        /\ free' = free \ {i0, i1, i2}
        /\ ops' = [ops EXCEPT ![i0] = [write |-> rw[p].write, sector |-> blockno[b]]]
        /\ next' = [next EXCEPT ![i0] = i1, ![i1] = i2, ![i2] = None]
        /\ addr' = [addr EXCEPT ![i1] = b]
        /\ info' = [info EXCEPT ![i0] = b]
        /\ b_disk' = [b_disk EXCEPT ![b] = TRUE]
        /\ avail' = [avail EXCEPT ![avail_idx % NUM] = i0]
        /\ avail_idx' = Inc16(avail_idx)
        /\ rw' = [rw EXCEPT ![p].head = i0]
        /\ vpc' = [vpc EXCEPT ![p] = "rw_wait"]
        /\ UNCHANGED <<device, data, used_idx, isr, handling>>

virtio_disk_rw_start(p) ==
    /\ vpc[p] = "rw" /\ ~handling
    /\ alloc3_fail(p) \/ submit(p)

\* The request is done: free_chain(idx[0]), and return.
virtio_disk_rw_end(p) ==
    /\ vpc[p] = "rw_done" /\ ~handling
    /\ info' = [info EXCEPT ![rw[p].head] = None]
    /\ free' = free \cup Freed(rw[p].head)
    /\ next' = [d \in Desc |-> IF d \in Chain(rw[p].head) THEN None ELSE next[d]]
    /\ addr' = [d \in Desc |-> IF d \in Chain(rw[p].head) THEN None ELSE addr[d]]
    /\ ops' = [ops EXCEPT ![rw[p].head] = NoOp]
    /\ vpc' = [q \in Proc |-> IF q = p THEN "idle" ELSE WakeDesc(q)]
    /\ rw' = [rw EXCEPT ![p] = Idle]
    /\ UNCHANGED <<device, data, b_disk, avail, avail_idx, used_idx, isr, handling>>

-----------------------------------------------------------------------------
(***************************************************************************)
(* The device.                                                             *)
(***************************************************************************)
device_take ==
    /\ taken # avail_idx
    /\ queue' = queue \cup {avail[taken % NUM]}
    /\ avail' = [avail EXCEPT ![taken % NUM] = 0]
    /\ taken' = Inc16(taken)
    /\ UNCHANGED <<store, used, used_end, data, b_disk, free, next, ops, addr,
                   info, avail_idx, used_idx, isr, handling, vpc, rw>>

device_complete(d) ==
    LET b == addr[next[d]]
        s == ops[d].sector
    IN  /\ d \in queue
        /\ IF ops[d].write
           THEN store' = [store EXCEPT ![s] = data[b]] /\ UNCHANGED data
           ELSE data' = [data EXCEPT ![b] = store[s]] /\ UNCHANGED store
        /\ queue' = queue \ {d}
        /\ used' = [used EXCEPT ![used_end % NUM] = d]
        /\ used_end' = Inc16(used_end)
        /\ isr' = TRUE
        /\ UNCHANGED <<taken, b_disk, free, next, ops, addr, info, avail,
                       avail_idx, used_idx, handling, vpc, rw>>

-----------------------------------------------------------------------------
(***************************************************************************)
(* virtio_disk_intr().                                                     *)
(***************************************************************************)

\* Acknowledge first: the device may go on from here.
virtio_disk_intr ==
    /\ isr /\ ~handling
    /\ isr' = FALSE
    /\ handling' = TRUE
    /\ UNCHANGED <<device, data, b_disk, free, next, ops, addr, info, avail,
                   avail_idx, used_idx, vpc, rw>>

\* Mutant: b->disk is not cleared.
intr_entry_owned ==
    LET b == info[used[used_idx % NUM]]
    IN  /\ handling
        /\ used_idx # used_end
        /\ vpc' = [q \in Proc |-> IF vpc[q] = "rw_wait" /\ rw[q].b = b
                                  THEN "rw_done" ELSE vpc[q]]
        /\ used' = [used EXCEPT ![used_idx % NUM] = 0]
        /\ used_idx' = Inc16(used_idx)
        /\ UNCHANGED <<used_end, taken, queue, store, data, b_disk, free, next,
                       ops, addr, info, avail, avail_idx, isr, handling, rw>>

\* One entry of the used ring: disk is done with buf, and wakeup(b).
intr_entry ==
    LET b == info[used[used_idx % NUM]]
    IN  /\ handling
        /\ used_idx # used_end
        /\ b_disk' = [b_disk EXCEPT ![b] = FALSE]
        /\ vpc' = [q \in Proc |-> IF vpc[q] = "rw_wait" /\ rw[q].b = b
                                  THEN "rw_done" ELSE vpc[q]]
        /\ used' = [used EXCEPT ![used_idx % NUM] = 0]
        /\ used_idx' = Inc16(used_idx)
        /\ UNCHANGED <<used_end, taken, queue, store, data, free, next, ops, addr, info, avail,
                       avail_idx, isr, handling, rw>>

\* Mutant: the handler does not look at the ring again.
intr_end_once ==
    /\ handling
    /\ handling' = FALSE
    /\ UNCHANGED <<device, data, b_disk, free, next, ops, addr, info, avail,
                   avail_idx, used_idx, isr, vpc, rw>>

intr_end ==
    /\ handling
    /\ used_idx = used_end
    /\ handling' = FALSE
    /\ UNCHANGED <<device, data, b_disk, free, next, ops, addr, info, avail,
                   avail_idx, used_idx, isr, vpc, rw>>

\* The call and the return of virtio_disk_rw() are steps of the caller.
VNext ==
    \/ \E p \in Proc : virtio_disk_rw_start(p)
    \/ device_take
    \/ \E d \in Desc : device_complete(d)
    \/ virtio_disk_intr
    \/ intr_entry
    \/ intr_end
=============================================================================
