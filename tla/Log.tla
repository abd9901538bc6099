-------------------------------- MODULE Log --------------------------------
(***************************************************************************)
(* The redo log of kernel/log.c, with the pinning of kernel/bio.c it       *)
(* depends on, over a disk that keeps what was written before a crash and  *)
(* may tear the one block that was being written.                          *)
(*                                                                         *)
(* A step is a critical section of log.lock, one block transfer, or one    *)
(* unlocked read.  Each process runs file system calls: begin_op(), some   *)
(* bread / modify / log_write / brelse sequences, end_op().                *)
(***************************************************************************)
EXTENDS Integers, Sequences, FiniteSets

CONSTANTS
    Proc,           \* processes that make file system calls
    initproc,       \* the first process: it runs fsinit() in forkret()
    Block,          \* home blocks of the file system
    Val,            \* contents of a block
    Torn,           \* contents of a block whose write a crash interrupted
    NoBlock,        \* "holds no buffer"
    MAXOPBLOCKS,    \* param.h
    LOGSIZE,        \* param.h: slots of the header, and begin_op's limit
    nlog,           \* log.size: blocks of the on-disk log, header included
    OpBlocks        \* distinct blocks one operation really writes

ASSUME ConstAssumption ==
    /\ initproc \in Proc
    /\ IsFiniteSet(Proc)
    /\ Torn \notin Val
    /\ NoBlock \notin Block
    /\ MAXOPBLOCKS \in Nat \ {0}
    /\ LOGSIZE \in Nat /\ LOGSIZE >= MAXOPBLOCKS
    /\ nlog \in Nat \ {0}
    /\ OpBlocks \in Nat

VARIABLES
    home,           \* disk: the home location of every block
    logblk,         \* disk: the data blocks of the log
    dhead,          \* disk: the block numbers in the log header
    cache,          \* what bread() returns for a home block
    pinned,         \* home blocks whose buffer has the reference of bpin()
    lh,             \* log.lh: the block numbers logged in memory
    outstanding,    \* log.outstanding
    committing,     \* log.committing
    pc,             \* where each process is
    tail,           \* its local variable tail
    held,           \* the buffer it has locked and modified
    wset,           \* the distinct blocks its operation has logged
    panicked        \* panic() was called: the kernel has stopped

disk == <<home, logblk, dhead>>
mem  == <<cache, pinned, lh, outstanding, committing>>
proc == <<pc, tail, held, wset>>
vars == <<disk, mem, proc, panicked>>

LogSlot == 1 .. (nlog - 1)

RecoveryPCs == {"read_head", "r_install", "r_erase"}
CommitPCs   == {"commit", "write_log", "write_head", "install", "erase",
                "committed"}
OpPCs       == {"op", "check", "append"}
PCs         == {"idle", "begin", "asleep"} \cup OpPCs \cup CommitPCs
                    \cup RecoveryPCs

(***************************************************************************)
(* fsinit() runs before any other process exists: the system is up once    *)
(* the first process has left recover_from_log().                          *)
(***************************************************************************)
Up == pc[initproc] \notin RecoveryPCs

Logged == {lh[i] : i \in 1 .. Len(lh)}

Init ==
    /\ home \in [Block -> Val]
    /\ logblk = [i \in LogSlot |-> Torn]
    /\ dhead = << >>
    /\ cache = home
    /\ pinned = {}
    /\ lh = << >>
    /\ outstanding = 0
    /\ committing = FALSE
    /\ pc = [p \in Proc |-> IF p = initproc THEN "read_head" ELSE "idle"]
    /\ tail = [p \in Proc |-> 0]
    /\ held = [p \in Proc |-> NoBlock]
    /\ wset = [p \in Proc |-> {}]
    /\ panicked = FALSE

Goto(p, label) == pc' = [pc EXCEPT ![p] = label]

(***************************************************************************)
(* wakeup(&log): everyone asleep on the log contends for log.lock again.   *)
(***************************************************************************)
GotoAndWakeup(p, label) ==
    pc' = [q \in Proc |-> IF q = p THEN label
                          ELSE IF pc[q] = "asleep" THEN "begin"
                          ELSE pc[q]]

-----------------------------------------------------------------------------
(***************************************************************************)
(* File system calls.                                                      *)
(***************************************************************************)

\* Mutant: the operation that is about to start is not counted.
NoSpace_others == Len(lh) + outstanding * MAXOPBLOCKS > LOGSIZE

\* this op might exhaust log space
NoSpace == Len(lh) + (outstanding + 1) * MAXOPBLOCKS > LOGSIZE

begin_op(p) ==
    /\ Up
    /\ pc[p] \in {"idle", "begin"}
    /\ IF committing \/ NoSpace
       THEN /\ Goto(p, "asleep")
            /\ UNCHANGED <<outstanding, wset>>
       ELSE /\ outstanding' = outstanding + 1
            /\ wset' = [wset EXCEPT ![p] = {}]
            /\ Goto(p, "op")
    /\ UNCHANGED <<disk, cache, pinned, lh, committing, tail, held, panicked>>

\* The caller locks a buffer and changes its data.
modify(p, b, v) ==
    /\ pc[p] = "op"
    /\ \A q \in Proc : held[q] # b
    /\ b \in wset[p] \/ Cardinality(wset[p]) < OpBlocks
    /\ cache' = [cache EXCEPT ![b] = v]
    /\ held' = [held EXCEPT ![p] = b]
    /\ Goto(p, "check")
    /\ UNCHANGED <<disk, pinned, lh, outstanding, committing, tail, wset,
                   panicked>>

\* "too big a transaction"
TooBig == Len(lh) >= LOGSIZE \/ Len(lh) >= nlog - 1

\* log_write()'s tests, made before log.lock is taken.
log_write_check(p) ==
    /\ pc[p] = "check"
    /\ IF TooBig \/ outstanding < 1
       THEN panicked' = TRUE /\ UNCHANGED pc
       ELSE Goto(p, "append") /\ UNCHANGED panicked
    /\ UNCHANGED <<disk, mem, tail, held, wset>>

\* Mutant: no bpin().
log_write_unpinned(p) ==
    /\ pc[p] = "append"
    /\ lh' = IF held[p] \in Logged THEN lh ELSE Append(lh, held[p])
    /\ wset' = [wset EXCEPT ![p] = @ \cup {held[p]}]
    /\ held' = [held EXCEPT ![p] = NoBlock]
    /\ Goto(p, "op")
    /\ UNCHANGED <<disk, cache, pinned, outstanding, committing, tail,
                   panicked>>

\* The rest of log_write(), under log.lock, and the caller's brelse().
log_write(p) ==
    /\ pc[p] = "append"
    /\ IF held[p] \in Logged
       THEN UNCHANGED <<lh, pinned>>
       ELSE /\ lh' = Append(lh, held[p])
            /\ pinned' = pinned \cup {held[p]}
    /\ wset' = [wset EXCEPT ![p] = @ \cup {held[p]}]
    /\ held' = [held EXCEPT ![p] = NoBlock]
    /\ Goto(p, "op")
    /\ UNCHANGED <<disk, cache, outstanding, committing, tail, panicked>>

end_op(p) ==
    /\ pc[p] = "op"
    /\ outstanding' = outstanding - 1
    /\ IF committing
       THEN /\ panicked' = TRUE
            /\ UNCHANGED <<pc, committing>>
       ELSE /\ IF outstanding' = 0
               THEN committing' = TRUE /\ Goto(p, "commit")
               ELSE GotoAndWakeup(p, "idle") /\ UNCHANGED committing
            /\ UNCHANGED panicked
    /\ UNCHANGED <<disk, cache, pinned, lh, tail, held, wset>>

-----------------------------------------------------------------------------
(***************************************************************************)
(* commit(), run by the last end_op() without log.lock.                    *)
(***************************************************************************)
\* Mutant: the header goes to disk without the log blocks.
commit_headonly(p) ==
    /\ pc[p] = "commit"
    /\ tail' = [tail EXCEPT ![p] = 0]
    /\ Goto(p, IF lh = << >> THEN "committed" ELSE "write_head")
    /\ UNCHANGED <<disk, mem, held, wset, panicked>>

commit(p) ==
    /\ pc[p] = "commit"
    /\ tail' = [tail EXCEPT ![p] = 0]
    /\ Goto(p, IF lh = << >> THEN "committed" ELSE "write_log")
    /\ UNCHANGED <<disk, mem, held, wset, panicked>>

\* The loop index after one iteration, and where the loop goes from there.
LoopNext(p, again, done) ==
    IF tail[p] + 1 < Len(lh)
    THEN tail' = [tail EXCEPT ![p] = @ + 1] /\ Goto(p, again)
    ELSE tail' = [tail EXCEPT ![p] = 0] /\ Goto(p, done)

\* One iteration: cached block to log block.
write_log(p) ==
    /\ pc[p] = "write_log"
    /\ logblk' = [logblk EXCEPT ![tail[p] + 1] = cache[lh[tail[p] + 1]]]
    /\ LoopNext(p, "write_log", "write_head")
    /\ UNCHANGED <<home, dhead, mem, held, wset, panicked>>

\* The true point at which the current transaction commits.
write_head(p) ==
    /\ pc[p] = "write_head"
    /\ dhead' = lh
    /\ Goto(p, "install")
    /\ UNCHANGED <<home, logblk, mem, tail, held, wset, panicked>>

\* One block from the log to its home location, through the buffer cache.
install_block(p) ==
    LET b == lh[tail[p] + 1]
        v == logblk[tail[p] + 1]
    IN  /\ home'  = [home  EXCEPT ![b] = v]
        /\ cache' = [cache EXCEPT ![b] = v]

\* One iteration of install_trans(0).
install_trans(p) ==
    /\ pc[p] = "install"
    /\ install_block(p)
    /\ pinned' = pinned \ {lh[tail[p] + 1]}
    /\ LoopNext(p, "install", "erase")
    /\ UNCHANGED <<logblk, dhead, lh, outstanding, committing, held, wset,
                   panicked>>

\* Erase the transaction from the log.
commit_erase(p) ==
    /\ pc[p] = "erase"
    /\ lh' = << >>
    /\ dhead' = << >>
    /\ Goto(p, "committed")
    /\ UNCHANGED <<home, logblk, cache, pinned, outstanding, committing, tail,
                   held, wset, panicked>>

\* Mutant: no wakeup() after the commit.
end_commit_silent(p) ==
    /\ pc[p] = "committed"
    /\ committing' = FALSE
    /\ Goto(p, "idle")
    /\ UNCHANGED <<disk, cache, pinned, lh, outstanding, tail, held, wset,
                   panicked>>

\* Back in end_op(), under log.lock.
end_commit(p) ==
    /\ pc[p] = "committed"
    /\ committing' = FALSE
    /\ GotoAndWakeup(p, "idle")
    /\ UNCHANGED <<disk, cache, pinned, lh, outstanding, tail, held, wset,
                   panicked>>

-----------------------------------------------------------------------------
(***************************************************************************)
(* recover_from_log(), run by the first process at boot.                   *)
(***************************************************************************)
\* Mutant: the log is cleared without being installed.
read_head_only(p) ==
    /\ pc[p] = "read_head"
    /\ lh' = dhead
    /\ tail' = [tail EXCEPT ![p] = 0]
    /\ Goto(p, "r_erase")
    /\ UNCHANGED <<disk, cache, pinned, outstanding, committing, held, wset,
                   panicked>>

read_head(p) ==
    /\ pc[p] = "read_head"
    /\ lh' = dhead
    /\ tail' = [tail EXCEPT ![p] = 0]
    /\ Goto(p, IF dhead = << >> THEN "r_erase" ELSE "r_install")
    /\ UNCHANGED <<disk, cache, pinned, outstanding, committing, held, wset,
                   panicked>>

\* One iteration of install_trans(1): no pin to drop.
recover_install(p) ==
    /\ pc[p] = "r_install"
    /\ install_block(p)
    /\ LoopNext(p, "r_install", "r_erase")
    /\ UNCHANGED <<logblk, dhead, pinned, lh, outstanding, committing, held,
                   wset, panicked>>

recover_erase(p) ==
    /\ pc[p] = "r_erase"
    /\ lh' = << >>
    /\ dhead' = << >>
    /\ Goto(p, "idle")
    /\ UNCHANGED <<home, logblk, cache, pinned, outstanding, committing, tail,
                   held, wset, panicked>>

-----------------------------------------------------------------------------
(***************************************************************************)
(* The environment.                                                        *)
(***************************************************************************)

\* bget() recycles the buffer of b: the next bread() reads the disk.
Evict(b) ==
    /\ Up
    /\ b \notin pinned
    /\ \A q \in Proc : held[q] # b
    /\ cache' = [cache EXCEPT ![b] = home[b]]
    /\ UNCHANGED <<disk, pinned, lh, outstanding, committing, proc, panicked>>

(***************************************************************************)
(* The machine stops and is switched on again.  Memory is lost; a block of *)
(* two sectors that was being written may hold half of each content.  The  *)
(* header fits in one sector and is never torn.                            *)
(***************************************************************************)
TornHomes == {[home EXCEPT ![lh[tail[p] + 1]] = Torn] :
                p \in {q \in Proc : pc[q] \in {"install", "r_install"}}}
TornLogs  == {[logblk EXCEPT ![tail[p] + 1] = Torn] :
                p \in {q \in Proc : pc[q] = "write_log"}}

Crash ==
    /\ home' \in {home} \cup TornHomes
    /\ logblk' \in {logblk} \cup TornLogs
    /\ cache' = home'
    /\ pinned' = {}
    /\ lh' = << >>
    /\ outstanding' = 0
    /\ committing' = FALSE
    /\ pc' = [p \in Proc |-> IF p = initproc THEN "read_head" ELSE "idle"]
    /\ tail' = [p \in Proc |-> 0]
    /\ held' = [p \in Proc |-> NoBlock]
    /\ wset' = [p \in Proc |-> {}]
    /\ UNCHANGED <<dhead, panicked>>

-----------------------------------------------------------------------------
Op(p) ==
    \/ begin_op(p)
    \/ \E b \in Block, v \in Val : modify(p, b, v)
    \/ log_write_check(p)
    \/ log_write(p)
    \/ end_op(p)

CommitStep(p) ==
    \/ commit(p)
    \/ write_log(p)
    \/ write_head(p)
    \/ install_trans(p)
    \/ commit_erase(p)
    \/ end_commit(p)

RecoveryStep(p) ==
    \/ read_head(p)
    \/ recover_install(p)
    \/ recover_erase(p)

Next ==
    /\ ~panicked
    /\ \/ \E p \in Proc : Op(p) \/ CommitStep(p) \/ RecoveryStep(p)
       \/ \E b \in Block : Evict(b)
       \/ Crash

Spec == Init /\ [][Next]_vars

(***************************************************************************)
(* Every runnable process is scheduled, every block transfer completes,    *)
(* and every file system call reaches its end_op() (strong fairness: the   *)
(* call may be anywhere between its log_writes in the meantime).           *)
(***************************************************************************)
Fairness ==
    \A p \in Proc :
        /\ WF_vars(~panicked /\ pc[p] = "begin" /\ begin_op(p))
        /\ WF_vars(~panicked /\ log_write_check(p))
        /\ WF_vars(~panicked /\ log_write(p))
        /\ SF_vars(~panicked /\ end_op(p))
        /\ WF_vars(~panicked /\ CommitStep(p))
        /\ WF_vars(~panicked /\ RecoveryStep(p))

FairSpec == Spec /\ Fairness

-----------------------------------------------------------------------------
(***************************************************************************)
(* Properties.                                                             *)
(***************************************************************************)

\* Type invariant: the counters of struct log stay counts, the in-memory and
\* on-disk headers list home blocks and fit in the log.
TypeOK ==
    /\ home \in [Block -> Val \cup {Torn}]
    /\ logblk \in [LogSlot -> Val \cup {Torn}]
    /\ cache \in [Block -> Val \cup {Torn}]
    /\ lh \in Seq(Block)
    /\ dhead \in Seq(Block)
    /\ pinned \subseteq Block
    /\ outstanding \in Nat
    /\ committing \in BOOLEAN
    /\ pc \in [Proc -> PCs]
    /\ tail \in [Proc -> Nat]
    /\ held \in [Proc -> Block \cup {NoBlock}]
    /\ wset \in [Proc -> SUBSET Block]
    /\ panicked \in BOOLEAN

\* What a machine switched on now would find after recover_from_log(): the
\* home blocks h, except that the blocks of the header d come from the log l.
RecoveredFrom(h, l, d) ==
    [b \in Block |->
        IF \E i \in 1 .. Len(d) : d[i] = b
        THEN l[CHOOSE i \in 1 .. Len(d) : d[i] = b]
        ELSE h[b]]

Recovered == RecoveredFrom(home, logblk, dhead)

Open == {p \in Proc : pc[p] \in OpPCs}

\* The log keeps the promise of TxnStore: the operations of a transaction
\* become durable all at once, when the last of them has called end_op(), and
\* a crash at any point, during recovery too, restores the last commit.
Store == INSTANCE TxnStore WITH
            durable  <- Recovered,
            volatile <- IF Up THEN cache ELSE Recovered,
            open     <- Open

RefinesTxnStore == Store!Spec

\* None of the panics of log_write() and end_op() is reached: the space that
\* begin_op() reserves covers what the operations write, although log_write()
\* tests log.lh.n without log.lock.
NoPanic == ~panicked

\* A process asleep in begin_op() always has someone left to wake it.
NoLostWakeup ==
    \A p \in Proc : pc[p] = "asleep" => committing \/ outstanding > 0

\* One process at a time is in commit(), and never while an operation is
\* open: commit() reads log.lh and the buffers without log.lock.
CommitAlone ==
    \A p \in Proc : pc[p] \in CommitPCs \cup RecoveryPCs =>
        /\ Open = {}
        /\ \A q \in Proc \ {p} : pc[q] \notin CommitPCs \cup RecoveryPCs

\* A buffer that differs from its home block is pinned or locked, so bget()
\* cannot recycle it: a logged update is never lost to eviction.
DirtyIsKept ==
    \A b \in Block : cache[b] # home[b] =>
        b \in pinned \/ \E p \in Proc : held[p] = b

\* Once the last end_op() has returned, all that was written is on disk and
\* nothing stays pinned in the buffer cache.
DurableAtRest ==
    Up /\ outstanding = 0 /\ ~committing =>
        Recovered = cache /\ pinned = {}

\* The half-written block of a crash is never shown to the file system.
NoTornRead ==
    Up => \A b \in Block : cache[b] # Torn

\* Liveness: a process that sleeps in begin_op() is woken.
SleeperWoken ==
    \A p \in Proc : pc[p] = "asleep" ~> pc[p] # "asleep"
=============================================================================
