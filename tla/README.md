# A TLA+ model of the xv6-riscv kernel in `xv6-labs-2020`

`src/xv6-labs-2020` is the xv6-riscv teaching kernel with the network lab's
additions (an e1000 driver, a UDP/IP stack and a socket file type).  This
directory holds TLA+ modules translated from its C source, TLC configurations
that check them on small instances, and TLAPS proofs about every component that
is modelled.  The models cover the concurrent parts
of the kernel from the disk and the network card up to the system calls.

Paths below are relative to `src/xv6-labs-2020/` unless they start with
`Notes/` or `Labs/`, which are the repository's own notes.  `PROJECT.json` maps
every definition to the lines it translates.

## 1. Inventory

| Component | State it keeps | Operations | Hard behaviour | What makes it correct |
|---|---|---|---|---|
| redo log, `kernel/log.c` | on-disk header and log blocks, `log.lh`, `outstanding`, `committing` | `begin_op`, `log_write`, `end_op`, `commit`, `recover_from_log` | crashes at any write, commit without the lock, group commit, space reservation | a file system call is atomic across a crash; nothing committed is lost; the log never overflows; sleepers are woken |
| process table, `kernel/proc.c` | `struct proc`, one spin lock each | `allocproc`, `freeproc`, `fork`, `exit`, `reparent`, `wait`, `kill` | table scans that read `parent` without its lock, locks of two processes, slot reuse | every child has a live parent or init; no slot is freed while its process still runs; `wait` misses no exit; no lock cycle |
| e1000 driver, `kernel/e1000.c` | two descriptor rings, two mbuf arrays, card registers | `e1000_transmit`, `e1000_recv`, `e1000_intr` | a card that works concurrently, rings at their limit, one interrupt for several packets | packets pass once and in order; the card never sees a freed mbuf; no packet is left behind |
| pipes, `kernel/pipe.c` | ring of bytes, two wrapping counters, two open flags | `pipewrite`, `piperead`, `pipeclose`, `pipealloc` | sleep and wakeup on two channels, `kill`, concurrent close | bytes come out once and in order; no lost wakeup; freed last |
| buffer cache, `kernel/bio.c`, `kernel/sleeplock.c` | LRU list, reference counts, sleep locks | `bread`, `bwrite`, `brelse`, `bpin`, `bunpin` | two processes that ask for one block, recycling, waiting for a sleep lock after dropping the cache lock | one buffer per block; a holder sees the last contents |
| disk driver, `kernel/virtio_disk.c` | descriptor table, avail and used rings | `virtio_disk_rw`, `virtio_disk_intr` | out-of-order completion, interrupt during completion, descriptor shortage | every completion reaches its process; descriptors are neither lost nor shared |
| scheduler, sleep and wakeup, `kernel/proc.c`, `kernel/spinlock.c`, `kernel/swtch.S` | per-cpu `noff`, `intena`, `proc`; `ticks` | `scheduler`, `sched`, `yield`, `sleep`, `wakeup`, `acquire`, `release`, `clockintr`, `sys_sleep` | lock hand-over across a context switch, interrupts that come between locks and move a thread to another cpu | no lost wakeup; one cpu per process; the interrupt state follows the thread; every sleeper runs again |
| inodes, allocator, directories, `kernel/fs.c` | inode cache, bitmap, on-disk inodes | `balloc`, `bfree`, `iget`, `ilock`, `iput`, `readi`, `writei`, `dirlink`, `namex` | unlink while open, lock order of two inodes | no block in two files; freed exactly when links and references are gone |
| file table and calls, `kernel/file.c`, `kernel/sysfile.c` | `ftable`, `ofile[]` | `filealloc`, `filedup`, `fileclose`, `open`, `link`, `unlink`, `mkdir`, `chdir`, `pipe` | sharing across `fork`, calls that lock one inode after another, multi-step error paths | references and links are counted through every interleaving and error path |
| sockets and UDP/IP, `kernel/sysnet.c`, `kernel/net.c` | socket list, receive queues | `sockalloc`, `sockread`, `sockclose`, `sockrecvudp` | receive interrupt against close and read | each datagram to one socket, once |
| console and UART, `kernel/console.c`, `kernel/uart.c` | input ring with `r`, `w`, `e`; transmit ring | `consoleread`, `consoleintr`, `uartputc`, `uartstart` | interrupt against reader and writer, echoes that bypass the transmit lock | typed lines read once and in order; output complete and in order |
| virtual memory and pages, `kernel/vm.c`, `kernel/kalloc.c`, `kernel/exec.c` | page tables, free list | `walk`, `mappages`, `uvmcopy`, `uvmalloc`, `kalloc`, `exec`, `copyin`, `copyout` | memory that runs out in the middle of a copy | every page has one owner; a process has the pages of its size; copies move the right bytes or fail |
| traps, `kernel/trap.c`, `kernel/plic.c`, `*.S` | `ticks` | `usertrap`, `kerneltrap`, `clockintr` | interrupt in kernel mode | — |
| system call dispatch, `kernel/syscall.c`, `kernel/sysproc.c` | none | argument fetching | — | — |
| user allocator, `user/umalloc.c` | circular free list | `malloc`, `free` | coalescing | blocks never overlap |
| user programs, mkfs, boot, tests | — | — | — | — |

How the parts meet.  A file system call brackets its work with `begin_op` and
`end_op`; between them it changes buffers it got from `bread` and hands them to
`log_write`, which pins them with `bpin`.  `commit` writes with `bwrite`, which
calls `virtio_disk_rw` and sleeps until `virtio_disk_intr` clears `b->disk`.
Everything that sleeps uses `sleep`/`wakeup` of `proc.c`; `kill` sets a flag
without taking the lock of whatever its victim waits for.  Pipes and sockets
hang off `struct file`, closed when the last reference goes.  The e1000
interrupt calls `net_rx`, which ends in a socket's receive queue.

## 2. Modules

| Module | Role |
|---|---|
| `TxnStore` | abstract specification: a store whose transactions commit all at once, and a crash that loses only what is not committed |
| `Log` | `log.c` with the pinning of `bio.c`, the disk, and crashes |
| `LogInv`, `FsInvariant` | the inductive invariants of `Log`, and of `Inode` and `Fs`, as named conjuncts |
| `LogProofs`, `PipeConsoleProofs`, `ProcProofs`, `SchedVmProofs`, `NetProofs`, `BufCacheProofs`, `FsProofs` | inductive invariants, theorems and proofs about `Log`, `Pipe` and `Console`, `Proc`, `Sched` and `Vm`, `E1000` and `Net`, `Virtio` and `BufCache`, `Inode` and `Fs` |
| `CommonLemmas` | lemmas on counters that wrap, on rings and on counting, for the proofs |
| `Proc` | the life of a process, at the grain of `p->lock` |
| `Sched` | scheduler, spin locks, sleep and wakeup, and the timer interrupt on several cpus |
| `E1000` | both rings, with the card as a second actor |
| `Net` | sockets and the UDP/IP stack, composed with `E1000` |
| `Pipe` | one pipe with several readers and writers, and `kill` |
| `Virtio` | the actions of `virtio_disk.c` and of the device |
| `BufCache` | `bio.c` and `sleeplock.c`, composed with `Virtio` |
| `Inode` | block bitmap, on-disk inodes, inode cache |
| `Fs` | directories, path names, file table and file system calls, on `Inode` |
| `Console` | line editing, `consoleread()`, the transmit buffer and the UART interrupt |
| `Vm` | page allocator, user page tables, `fork`, `exec`, `sbrk`, copies to and from user memory |
| `MCLog`, `MCProc`, `MCSched`, `MCE1000`, `MCNet`, `MCPipe`, `MCBufCache`, `MCFs`, `MCConsole`, `MCVm` | instances for TLC: menus of inputs, symmetry sets, and `MCVm`'s view |

Definitions named `X_<something>` directly before `X` and commented "Mutant"
are deliberate mistakes.  No specification uses them; substituting one for `X`
must make the property that `PROJECT.json` names fail, which shows the
property depends on that piece of code.

### Grain of the steps

A step is what a process does between two points where another actor can
interfere: a critical section of a spin lock, an unlocked read of shared state,
one block transfer, one ring entry.  Where a lock hides the inside of a
critical section from everyone, the section is one step; where somebody reads
or writes without the lock (`commit` reads `log.lh`, `reparent` reads
`pp->parent`, `kill` sets `killed`, the card and the disk move their indices)
the code is cut at that point.

### Log

`home`, `logblk` and `dhead` are the disk; `cache` and `pinned` the part of the
buffer cache that matters; `lh`, `outstanding`, `committing` are `struct log`;
`pc`, `tail`, `held`, `wset` belong to the processes.  `begin_op`, `log_write`
(whose panic test at `log.c:219` runs before `log.lock` is taken, and is a step
of its own), `end_op`, and the steps of `commit()` — one per block transfer —
are actions; so are `recover_from_log()` at boot, eviction of an unpinned clean
buffer, and `crash`.

Fault model.  A crash may happen in any state, in the middle of recovery too.
It erases memory, keeps completed writes, and may leave the one block being
transferred torn.  The header fits in the first sector of its block (at most 31
words), so its write is atomic; this is what `log.c` itself relies on when it
calls the header write "the true point at which the current transaction
commits".  `bwrite` is synchronous, so no write is reordered.

`OpBlocks` is the number of distinct blocks an operation really writes, which
the code bounds only by convention (`MAXOPBLOCKS`).

### Proc

`RUNNABLE` stands for `RUNNABLE` and `RUNNING`: a process that may run may take
its next step, which is what the scheduler on several cpus gives.  The variable
`lock` holds the holder of each `p->lock`; `op` is `original_parent` in
`exit()`; `idx` is where a table scan has come to.  `pid` is 0 or 1, since pids
are not reused.  init is slot 1 and loops on fork and wait, as `user/init.c`
does.

### Sched

A thread is a process or a cpu's scheduler; `cur` says which thread a cpu runs,
and `swtch()` is a change of `cur`.  `push_off` and `pop_off` are operators on a
cpu's record of `noff`, `intena` and the hardware's interrupt bit.  Processes
call `sys_sleep()`, which sleeps on `&ticks` under `tickslock`, and `kill()`; the
timer interrupt may come wherever a cpu lets it in, in user space, in the kernel
between two locks and in the scheduler's scan.  On the first cpu it runs
`clockintr()` with its `wakeup(&ticks)`; out of a process it then yields.  A
process may therefore come back on another cpu, and a scheduler may find itself
with interrupts off because the process it ran yielded out of a handler: the
`intr_on()` before `wfi` is there for that.  `holding()` and the panics of
`acquire`, `release`, `pop_off` and `sched` are the invariant `NoPanic`: the
condition of each panic, at the point where the code tests it.

`exit()` is shortened to its last lines and `fork()` is left out; both are in
`Proc`.  A cpu that spins in `acquire()` has interrupts off already; the model
lets it be interrupted until it gets the lock, which only adds behaviours.

### E1000

The card fills descriptors from its head up to the tail register and raises the
receive cause.  `sent`, `wire`, `arrived`, `delivered` are history variables in
which a packet is a number.  `owner` says who may use an mbuf, so that a double
free or a use after free shows up as a state.

`TxLag` is an assumption on the environment: the card is never a whole ring of
packets behind the driver.  It is needed.  `e1000_transmit()` tests the DD bit
of the descriptor at the tail (`e1000.c:105`) but never clears it when it reuses
the descriptor, so after the first lap the bit is always set and the "ring is
full" return that the comment at `e1000.c:103` announces is not taken: with a
card a full ring behind, the driver would free the mbuf of a packet that is
still queued.  With 16 descriptors and a card on QEMU this does not happen.

### Net

`Net` extends `E1000`: the handler calls `net_rx()` between taking an mbuf out of
the ring and giving it back, and `net_tx_*` ends in `e1000_transmit()`.  A socket
is a page of `kalloc()`'s like an mbuf and is named by its page, so one account
covers both.  A frame is what the code looks at: its length, the lengths its
headers claim, and the outcome of the tests on the other fields.  Each header is
one unit long and `uint16`s are taken modulo `W`, so that the subtractions of
`net.c` can go below zero as they can in C.  Processes share a socket through
`fork()`; `sockclose()` runs on the last close.  `RefinesE1000` is the
specification of `E1000` itself: what the stack does with its pages is something
the driver's model allows.

Two sockets with the same address and ports are assumed away (section 5);
`in_cksum()` and byte order are not computed; the failure of `fdalloc()` in
`sys_connect()` is left out.

### Pipe

The n-th byte written is the number n.  A reader or writer closes its end once;
the end is closed for the pipe when its last holder has done so, which is what
`fileclose()` does.  `sleep()` is one step: it gives up `pi->lock` and goes to
sleep atomically against those that hold `pi->lock`.  `Sched` checks that
`proc.c` provides this.

### Virtio and BufCache

The device takes requests from the avail ring and completes them in any order.
`virtio_disk_rw()` allocates three descriptors, all or none, and sleeps on
`disk.free[0]` when it cannot have them.  `virtio_disk_intr()` acknowledges the
interrupt and then handles one used-ring entry per step, while the device goes
on completing.  `BufCache` adds `bget()`'s two scans (by block, then from the
least recently used end), the sleep lock per buffer, and the order of
`brelse()`: release the sleep lock first, drop the reference second.  Callers
follow `log.c`'s rule, that a modified buffer not yet on disk is pinned before
it is released.  The number of descriptors `NUM` is a variable that `Init`
chooses from `QueueSizes` and no action changes, so that one run covers a queue
with room for two requests and one with room for one.

### Inode and Fs

`Inode` holds what `fs.c` does with one inode: `balloc` and `bfree` on the
bitmap, `bmap` and `itrunc` with one direct and one indirect block, `ialloc`,
`iupdate`, and the cache entry with `ref`, `valid` and its sleep lock.  `iput()`
is four steps, because it drops `icache.lock` in the middle: test the count and
take the sleep lock, truncate and mark the inode free on disk, set `valid = 0`
and unlock, drop the reference.

`Fs` walks paths one lock at a time, as `namex()` does, and has an action for
each stretch of a system call between two locks.  The `iput()`s a stretch ends
with are queued in `puts[p]` and done in order before the process goes on.  A
directory is a function from names to inodes; its blocks are left out.  The file
table counts references across `dup`, `fork` and `exit`; `pipe()` allocates two
files and two descriptors and gives back what it took when either fails.
Processes choose their path calls from `Calls`, a constant; `close`, `dup`,
`read`, `write`, `pipe`, `fork` and `exit` are always offered.  Together they make
`MaxCalls` calls.
`lost` remembers the inodes that had a name in a removed directory when `iput()`
freed it, which the code gives up (section 5), so that the other invariants can be
stated for the rest.

Crashes are the subject of `Log`: each call runs in a transaction, so what `Fs`
calls the disk is the transactional store.  Blocks, inodes and cache entries do
not run out (the code panics); `fstat()` changes nothing and is left out.

### Console

The agents are the processes and `Intr`, the cpu in `uartintr()`.  The UART is
external: a transmit FIFO, the idle bit when it is empty, one received character,
and an interrupt request for each event.  The handler takes a received character,
runs `consoleintr()`, echoes through `uartputc_sync()` — which does not take
`uart_tx_lock` — and then calls `uartstart()`.  All counters wrap.  The history
variables `lines`, `line` and `written` say what input editing and output should
amount to.  An erase sends one character instead of three, and `printf()` and
`procdump()` are left out.

### Vm

A process is a slot with a trapframe page, a page table and a size.  A page
table has two levels instead of three, its tables have `TABSIZE` entries, and the
last table maps the trapframe and the trampoline.  Sizes are in units of which
`PGSIZE` make a page, so they need not be aligned.  Every `kalloc()` may be the
one that fails: `fork()` copies a page per step, `uvmalloc()` in `sbrk()` and
`exec()` takes a page per step, and processes compete for what is left.  The
contents of pages are left out, so `copyin()`, `copyout()` and `copyinstr()` are
operators that give the physical bytes they touch; `AddressSpaces` compares them
with a definition that says the byte at each address, if the user may reach it.
`exec()` gets one argument.  A zombie keeps its memory until `wait()` frees it; a
process that is idle and then freed stands for it.

## 3. Runs

| Run | Instance | What it shows |
|---|---|---|
| `log` | 2 processes, 3 blocks, 2 values, `MAXOPBLOCKS` 2, `LOGSIZE` 4, fairness | `DirtyIsKept`, `NoTornRead`, `NoPanic`, `NoLostWakeup`, the refinement of `TxnStore`, with crashes anywhere, and that a process asleep in `begin_op()` is woken (`SleeperWoken`) |
| `proc_safety` | 4 slots, 3 forks, one victim of `kill` | `NoOrphan`, `NoFreeWhileRunning`, `NoLostWakeup` |
| `proc_deadlock` (violation) | 4 slots, 4 forks | a stale `original_parent` closes a cycle of lock waits |
| `sched` | 2 cpus, 2 processes, `ticks` modulo 2, one victim of `kill`, fairness | `NoPanic`, `OneCpu`, `IntrRestored`, `NoLostWakeup`, and that every sleeper runs again (`SleeperRuns`) |
| `net` | rings of 2, 5 pages, 2 processes, 6 frames, 2 arrivals | `TxFifo`, `RxFifo`, `NoAlias` of the driver; `PagesAccounted`, `SockFifo`, `NoLostWakeup`; the stack keeps to the driver's specification (`RefinesE1000`) |
| `e1000_drain` (violation) | rings of 3, the driver alone | two packets, one interrupt: one packet is left behind |
| `pipe_safety` | 2 readers, 2 writers, `PIPESIZE` 2, counters modulo 4, a killed reader, fairness | `PipeFifo`, `NoLostWakeup`, `NoUseAfterFree`, `WriteEnds` |
| `buf_cache` | 2 processes, 2 buffers, 3 blocks, descriptors for 2 requests or for 1 | `OneBuffer`, `ReadLatest`, `DiskOwnsLocked`, `DescAccounted`, `NoLostCompletion`, `NoLostWakeup` |
| `fs` | 2 processes, any 4 calls (a menu of 10 paths, and those on descriptors, `pipe`, `fork`, `exit`) on a tree with a file and a directory | `NoPanic`, `IputNoWait`, `RefsCounted`, `LinksCounted`, `BlocksOwned`, and no deadlock |
| `fs_leak` (violation) | `mkdir` and `unlink` of one name, 3 calls | an inode is unlinked and never freed |
| `console` | 2 processes, input buffer of 2, transmit buffer of 1, FIFO of 2 | `InputKept`, `OutputKept`, and no deadlock |
| `vm` | 3 processes, 15 pages of 4 units, tables of 2 entries | `PagesOwned`, `AddressSpaces`, and no deadlock |

What the larger invariants say.  `RefsCounted`: `ref` of every cache entry and
of every open file is the number of pointers to it, at every step of every call.
`LinksCounted`: `nlink` is the number of names an inode has, plus or minus what a
`link` or `unlink` under way has still to adjust, and no name leads to a free
inode; this holds in removed directories too, up to the step of `iput()` that
frees one.  `BlocksOwned`: each block in use is in one file at one place.
`PagesOwned`: each physical page is on the free list once or has one owner.
`AddressSpaces`: each process maps exactly the pages of its size, the user can
reach those and nothing else, and copies move the right bytes.  `InputKept`:
what is in the input buffer is what the keys typed amount to, and no reader
sleeps beside a complete line.  `OutputKept`: what was written leaves in order
and complete, and is never left in the buffer of an idle UART.

Why the bounds are enough.  For the log, `begin_op` must be able to refuse: one
open operation and one logged block fill a log of 4 for the other process, and
three blocks allow absorption, an append and a block left out of a transaction.
Four process slots are a parent, a child, a grandchild and init, which the
orphan, reuse and deadlock stories need; `MaxForks` bounds how often a slot is
reused.  Two cpus and two processes are enough for a process to migrate, for
both cpus to want one process and for one to be idle in `wfi`; since every tick
wakes all sleepers, a counter of two values still tells a passed deadline from
one ahead.  Rings of two with three packets out and two in make every index wrap,
and five pages (two in the receive ring, a socket and two more) let `kalloc()`
fail; the six frames are one for each way through `net_rx()`.  A pipe of two bytes
with counters modulo four wraps both the buffer index and the counters, and two
processes at each end are the fewest for which waking one is different from
waking all.  Three blocks in two buffers force eviction, two requests in flight
at once let completions overtake each other, and descriptors for one request make
the other process wait.  Four calls are a walk, a removal, a creation in its place
and one more by two processes; longer sequences repeat these, since calls leave
nothing behind but the tree.  Three files and two descriptors per process run
out.  An input buffer of two holds a full line and a partial one, and a transmit
buffer of one is full after one character.  Fifteen pages are two processes and
part of a third, so that `fork()`, `exec()` and `sbrk()` fail at each of their
pages, and tables of two entries make growth need a new table.

`MCVm` gives TLC a view: states that differ only in which physical page plays
which part are one.  The names of pages are used only to compare them, so this
loses nothing while each page has one owner; the invariants are part of the view,
so a state that violates one is never identified with one that does not.

Deadlock checking is off where the system may stop: after `panic`, and when the
bounded number of bytes, packets or forks is used up.  `Fs` has a step for the
end of its calls, so there it is on: no two calls wait for each other's locks.

### Fairness

- `log`: a process that is not asleep keeps running (timer interrupts and
  a round-robin scheduler), a transfer ends, and every file system call comes to
  its `end_op()` (the operations in `sysfile.c` are finite).  The last is a
  strong fairness, since an operation may be delayed by others again and again.
- `sched`: a cpu goes on with what it does, gets a lock it spins for sooner or
  later (strong fairness, as below), and takes a timer interrupt that stays
  pending while interrupts are on.  No process is assumed to make any call.
- `pipe_safety`: the holder of `pi->lock` goes on, a process that spins for the
  lock gets it sooner or later (strong fairness on taking it: the lock is an
  atomic swap with no queue, so this is an assumption about the machine), and
  readers keep reading until they close.  Nothing is assumed of writers: that
  their writes end is the claim.  A killed process leaves its call and closes
  its files, as `usertrap()` makes it do.

## 4. What is proved

The theorems hold for every value of the constants that the named assumptions
allow: any finite sets of processes, buffers and blocks, rings and buffers of any
size, counters that wrap anywhere.  Each is `Spec => []P` unless the table says
otherwise, and each `P` that is not a type invariant is a property of section 3,
so a run checks on an instance what the theorem states in general.

| Theorem | Statement |
|---|---|
| `LogInvariant`, `LogTypeCorrect` | the inductive invariant of the log, and `TypeOK` |
| `LogNeverPanics` | `log_write()` never panics |
| `LogNoLostWakeup` | who sleeps on the log has somebody to wake him |
| `LogCommitAlone` | no operation is open while a commit runs |
| `LogDirtyIsKept` | a block whose only copy is its buffer is pinned |
| `LogNoTornRead` | no process reads a half-written block |
| `LogDurableAtRest` | with an empty log, home blocks hold what was committed |
| `LogRefinesTxnStore` | every step of `Log` is a step of `TxnStore` or a stutter |
| `PipeTypeCorrect` | `TypeOK` of `Pipe` |
| `PipeFifoHolds` | bytes come out once and in order, through every wrap |
| `PipeNoUseAfterFree` | the pipe is freed when nobody can use it any more |
| `PipeNoLostWakeup` | with no writer killed, nobody sleeps without a reason |
| `ProcTypeCorrect` | `TypeOK` of `Proc` |
| `ProcNoOrphan` | every process but init has a parent that can wait for it |
| `ProcNoFreeWhileRunning` | no slot is free while its process runs |
| `ProcNoLostWakeup` | nobody but init sleeps in `wait()` killed or with a zombie child |
| `SchedTypeCorrect` | `TypeOK` of `Sched` |
| `SchedNoPanic` | no panic of `acquire`, `release`, `pop_off` or `sched` |
| `SchedOneCpu` | a kernel stack is in use on one cpu at most |
| `SchedIntrRestored` | the interrupt state follows the process |
| `SchedNoLostWakeup` | a sleeper past its time has a `wakeup()` on its way |
| `E1000TypeCorrect`, `E1000TxFifo`, `E1000RxFifo`, `E1000NoAlias` | the driver with any stack on top: types, order in both directions, no mbuf shared |
| `NetRefinesE1000` | `NetSpec => RefinesE1000`: the stack is an environment the driver allows |
| `NetRings` | `TxFifo`, `RxFifo` and `NoAlias` in the composed system |
| `NetPagesAccounted` | every page of the stack's is in one place |
| `NetNoLostWakeup` | nobody sleeps in `sockread()` beside a datagram |
| `NetSockFifo` | `SockFifo`: a listed socket gets every datagram for it, once, in order, cut to its payload, and nothing else |
| `BufCacheInv`, `BufCacheTypeCorrect` | the inductive invariant of cache, driver and device, and `TypeOK` |
| `BufOneBuffer` | one buffer per block |
| `BufReadLatest` | the holder of a buffer sees the last contents of the block |
| `BufDiskOwnsLocked` | a buffer the disk owns is locked by who waits for it |
| `BufDescAccounted` | descriptors are neither lost nor shared |
| `BufNoLostCompletion` | no completion is left behind in the used ring |
| `BufNoLostWakeup` | nobody sleeps on a free lock, or for descriptors that are there |
| `FsInv`, `FsTypeCorrect` | the inductive invariant of inodes, file table and calls, and `TypeOK` |
| `FsRefsCounted` | `ref` of an inode and of a file is the number of their pointers, on every path |
| `FsIputNoWait` | `iput()` never waits for a sleep lock with `icache.lock` held |
| `FsBlocksOwned` | a block in use belongs to one file, in one place, and a file has no free block |
| `FsTreeInv` | `NoDotDot`: the inductive invariant of the directory tree and the link counts |
| `FsLinksCounted` | `NoDotDot`: `nlink` is the number of entries that name an inode, with what `link` and `unlink` have under way, and no entry names a free inode |
| `FsNoPanic` | `NoDotDot`: no panic of `ilock`, `unlink`, `bfree`, `filedup` or `fileclose`; the one panic left is `ialloc()`'s, with no inode free |
| `ConsoleTypeCorrect` | the types of the console, the transmit buffer and the UART |
| `ConsoleInputKept` | the input buffer holds the lines to read and the line being edited; when it is full there is a line to read; nobody sleeps beside one |
| `ConsoleOutputKept` | what is written leaves once and in order; the FIFO does not overflow; nobody sleeps beside free space; what waits will be sent for |
| `VmTypeCorrect` | the types of free list, slots, page tables and the calls' locals |
| `VmPagesOwned` | every page has one owner, at every step of every call |
| `VmAddressSpaces` | a process maps the pages of its size and reaches nothing else; copies are right; no panic of `vm.c` |

### Assumptions

Each module types its constants in a named `ASSUME` (`ConstAssumption`,
`PipeAssumption`, `ProcAssumption`, `SchedAssumption`, `E1000Assumption`,
`NetAssumption`, `VirtioAssumption`, `InodeAssumption`, `FsAssumption`,
`CallsAssumption`, `ConsoleAssumption`, `VmAssumption`), which TLC evaluates on the instances.  The
ones that are about the code:

- The size of a ring divides the range of its counter (`UINT % PIPESIZE = 0`,
  `UINT16 % NUM = 0`).  In C both are powers of two.  `pipe.c` also needs the
  range to be larger than the buffer, or a full pipe would look empty.
- `LogRoom`, a hypothesis of the theorems of `LogProofs` that need it: an
  operation writes fewer distinct blocks than it reserves, by as much as the
  header costs, `OpBlocks < MAXOPBLOCKS` and
  `LOGSIZE - (MAXOPBLOCKS - OpBlocks) < nlog - 1`.  With the kernel's
  `MAXOPBLOCKS = 10` and `LOGSIZE = nlog = 30` it means at most eight blocks per
  operation.  Without it `log_write()` panics (section 5).
- `Victims \cap Writers = {}` in `PipeNoLostWakeup` only: a killed writer leaves
  at `pipe.c:84` without a wakeup for the bytes it has put (section 5).  The
  other theorems about pipes let anyone be killed.
- `TxLag < N` in `NetProofs`: the card is less than a ring behind, which
  `e1000_transmit()` does not ensure (section 2, `E1000`).
- `Console`: the range of the counters is a larger multiple of the buffer's size,
  for both buffers, as for pipes; the UART's FIFO holds two characters or more
  (a 16550's holds 16); and what processes write is told apart from echoes, which
  is about the history variable `written` only.
- `Vm`: tables have two entries or more, addresses do not overflow their type, an ELF
  segment fits below the trapframe's table, and the five pages `userinit()` takes
  are there (it panics otherwise).  Page size, address space, number of pages and
  processes, and the requests of `sbrk()` and `exec()` are arbitrary.
- `NoDotDot`, a hypothesis of the last three theorems of `FsProofs`: no path has an
  element `..`.  The `..` of a directory that was removed may name an inode that was
  freed: going through it makes `ilock()` panic (section 5).  It may also name one that a
  `create()` has just allocated and not locked yet: an entry made in it then raises a link
  count that `create()` overwrites with 1.  `fs` does look up `..`, in a directory whose
  parent is the root.
- `FsProofs` assumes otherwise of the menu of calls only the form of its paths, and of the disk
  that the image of `Init` fits on it (the root, a directory and a file with one
  block).  That blocks do not run out is in the guard of `write()` (`BlocksLeft`),
  because `balloc()` panics.

### Arguments

None of the checked invariants is inductive alone.  Each proof module starts with
the invariant that is, as named conjuncts; TLC checked it on the instance of the
run before it was proved.  There is one lemma per conjunct with one case per
action, and the theorem about the specification follows by temporal logic.

Log.  `ControlInv`: who may be where; at most one process commits and nobody is in
an operation meanwhile.  `CountInv`: `outstanding` is the number of processes
between `begin_op` and `end_op`.  `HeldInv`: a buffer has one holder.  `SpaceInv`:
the blocks in `log.lh` and what open operations may still append fit in the log;
the reserved space is a set of pairs, so that it is a cardinality and no sum over
processes has to be defined recursively.  `HeaderInv`: what the disk's header may be
at each stage of the commit.  `PinInv`: the pinned blocks are the logged ones not yet
installed.  `DataInv`: what each copy of a block must hold at each stage.
`NoPanic` needs `SpaceInv`, which needs `CountInv`; `NoTornRead` and the refinement
need `DataInv`.  The write of the header maps to `TxnStore`'s commit and everything
after it to a stutter.

Rings.  `CommonLemmas` has the arithmetic: a counter modulo `U` and an index modulo a
divisor `P` of `U` are told apart over fewer than `P` steps, and what putting in
and taking out do to the distance of two counters.  The proofs about pipes and
the network count bytes and packets in `Nat` with the history variables, and say that the
registers are those counts modulo the range and that what is between them is in
its slot (`RingInv`, `TxInv`, `RxInv`); the FIFO properties follow by comparing
sequences element by element.  In `BufCacheProofs` nothing counts the requests, so
`QueueInv` speaks of the distance of the indices itself.  The console's counters are
compared with sequences: three lemmas say what a slice of a ring becomes when an
entry is put at its end, when entries are cut off there, and when they are taken at
its start.

Pipe.  Besides `RingInv`: `LockInv`, `RoleInv`, `CloseInv` (an end that is closed
or being closed has no user left, which gives `NoUseAfterFree`), and for
`NoLostWakeup` the weaker `SleepInv`, which lets a reason for sleeping be gone as
long as whoever took it away has the lock and has not called `wakeup()` yet.

Proc.  `LockInv` says from the program counters who has which `p->lock`.
`ParentInv`: the parent that `exit()` copied is still the parent unless it is init by
now, which is why the stale copy does not lose a wakeup.  `ReparentInv`: the scan has
left no child behind it.  `WaitInv`: what `wait()` has passed over is not a zombie child,
and stays so until it sleeps.

Sched.  `CurInv`, `StateInv` and `LockInv` say which thread a cpu runs and which
locks it has there, across `swtch()`; `CpuInv` that `noff` counts them and when
interrupts are on; `SavedInv` and `RetInv` what `intena` and a trap return to.
`NoPanic`, `OneCpu` and `IntrRestored` are read off these.  `SleepInv` and
`NoLostWakeup` are inductive beside them.

Net.  `RingsInv` is the driver's (`TxInv`, `DDInv`, `RxInv`, `OwnInv`), and is shown
to survive whatever an environment may do by `E1000`'s specification; `StackInv`
says where each page of the stack's is, in which states a socket is listed, and
that a socket being opened or closed has one process.  The refinement is proved
action by action: an action of the stack frees or sends a page it owns, which
`OwnInv` and `StackInv` give.  For `SockFifo`, `HistInv` adds that open sockets have
different triples (so the first that fits a datagram is the only one), that a
socket has no packets before it is listed, and that the packets of a listed
socket are the datagrams for it among the frames handled since (`Fifo`).  It needs
the places of pages again: an mbuf in a queue is in no ring, in nobody's hand and
in no other queue, so nothing writes to it.  `DatagramIff` shows that the tests of
`net_rx()` accept what the formats allow and no more, although the lengths are
subtracted modulo `W`.

BufCache.  `RefInv`: `refcnt` is the number of processes that have the buffer, and
one for `bpin()`.  `HoldInv`: who has the sleep lock, and what it says about
`valid`.  `RwInv`, `ChainInv`, `DiskInv`, `QueueInv`: a process in
`virtio_disk_rw()` has a chain of three descriptors that say what it asked for;
chains are disjoint and cover what is not free; each request is in the avail
ring, with the device or in the used ring, and in one of them only, so that a
ring of `NUM` entries cannot overflow.  `DataInv`: the last contents of a block are
in its valid buffer; if they are not on disk, that buffer is valid and pinned or
locked; and a buffer the device has filled holds them.  A `bget()` that recycles
takes an unreferenced buffer, so by `RefInv` none of these speaks of it.

Fs.  `PtrInv` and `PutInv` say which pointers a process has at each point of a call
and which `iput()`s it still owes; `RefSum` and `FdSum` count them all: one lemma says
how a step of one process moves the sum, so that each action only shows how its own
pointers and `ref` change.  `LockInv` says from the program counters who has which
sleep lock.  A process that has a lock has a pointer too, so by `RefSum` an inode with
`ref == 1` in an `iput()` is locked by nobody: that is `IputNoWait`.  `CacheInv`: a
valid cache entry is the inode on disk, except between the two halves of `iput()`,
which is what lets `itrunc()` and `bmap()` work from the copy.  `PinInv`: a directory
returned by `nameiparent()`, or an inode that `link()` holds, is not being freed.
`FileInv`: a file without references is empty, and an end that `pipe()` has not handed
out has one.  `FreeInv` and `BlkInv`: a free inode has no blocks, blocks of different
places differ, and the bitmap has their union; they survive a truncation because the
lock is held, and `balloc()` because it takes a block outside the bitmap.

`LinksCounted` and `NoPanic` need a second invariant on top of it, `TreeInv`.  An inode
is `Vacant` if it is free on disk, allocated by a `create()` that has not entered it yet,
or about to be freed.  `UseInv`: a vacant inode has no links and nobody else points to it;
since every pointer comes from an entry or from another pointer, and `CountInv` gives an
inode with an entry a link, no lookup meets a vacant one, and `ilock()` does not panic.
`CountInv` is `LinksCounted` as a sum of three counts, over names, over the `..` of
directories that have a name, and over links under way, with `>=` for the inodes in
`lost`; one lemma (`CountSum`) says how it moves when one argument of each changes, so
that `create()`, `link()` and `unlink()` only show what they did to `nlink`.  That a
directory has one name, in the directory its `..` says, and that `link()` never has a
directory in hand (`NameInv`, `LinkRow`), is what makes `nlink--` on the parent right in
`unlink()`.  `EntRow`: the entry that `unlink()` found or `create()` missed is still that
way when it is written, because the directory stays locked.  When `iput()` frees a removed
directory, the names left in it go to `lost`, and nothing else changes.

Console.  `InputInv` is about one ring, from `r` to `e`, with `lines \o line` in it
and `w` where the one ends and the other begins; that no two live entries share a
place is what makes the three counters safe, and it needs the full buffer to have no
line under edit, which is why `consoleintr()` completes a line that fills it.
`ReadSleepInv` is stronger than the property: a sleeper has nothing to read even
while `cons.lock` is held, since lines are completed and sleepers woken in one
critical section.  For the output, `TxLockInv` gives one sender at most under
`uart_tx_lock`, and `FifoInv` counts him and the handler with an echo: each saw the
FIFO empty before it wrote, so it never holds more than two characters although
`uartputc_sync()` takes no lock.  `OutInv` is the order, `PutSleepInv` and `StartInv` the
sleepers and the UART that nobody would look at again.

Vm.  `SlotInv`: the page table of a slot maps a prefix of user pages, one guard page
may be unreachable, and its tables, pages and trapframe are different pages.  `CallInv`,
`NewInv` and `SizeInv` say the same of the page table `fork()` or `exec()` is building,
as far as its loop has come, and what sizes the locals may have.  `OwnInv` is the
account of pages as a set of owners per page, each of them one: every operator of
`vm.c` (`kalloc()`, `mappages()`, `uvmalloc()`'s loop, `uvmdealloc()`, `freewalk()`) has a
lemma that says which pages it moves from one owner to another, and an action composes
them, on its error paths too.  `AddressSpaces` adds what copies do: `copyout()`'s loop
over pages is a recursive function, shown equal to a closed form (`CopyFrom`, the bytes
up to the first that is not the user's) for a copy of any length, by looking at the
largest index where the two would differ.

### Only model-checked

- Liveness under fairness (`SleeperWoken`, `WriteEnds`, `SleeperRuns`), which the
  prover does not handle.
- `LinksCounted` and `NoPanic` of `Fs` for paths with `..`.  They are not true for every
  such menu of calls (assumption `NoDotDot`); on the instance of `fs`, where `..` leads to
  the root, they are.
- That the instance of `fs` does not run out of inodes: `FsNoPanic` leaves that panic open.

## 5. Findings

- `proc.c:373` calls the stale wakeup in `exit()` harmless.  If the parent was
  reaped and its slot given to a grandchild, the lock order is turned around
  and two exits wait for each other (`proc_deadlock`).
- `e1000.c:138`: one packet is taken per interrupt, and the interrupt cause is
  shared, so a second packet waits for the next arrival (`e1000_drain`).
- `fs.c:356`: `iput()` frees an inode and then drops its reference in a second
  critical section.  In between the inode can be allocated again, unlinked and
  put; that `iput()` sees `ref == 2` and leaves the freeing to the first, which
  does not look again.  The comment at `fs.c:328` promises that the last
  reference frees an unlinked inode (`fs_leak`).

Seen while modelling, without a run of their own:

- `log.c:219` against `log.c:133` and `param.h:10`: the log holds one data block
  fewer than the reservations add up to, because the header is counted in
  `log.size`.  With `OpBlocks = MAXOPBLOCKS` the model panics; the kernel is
  safe as long as no operation uses its whole reservation.
- `pipe.c:84`: a killed writer returns without the wakeup of the other exits, so
  a reader may sleep beside the bytes it left.  `pipe_safety` kills a reader.
- `sysfile.c:250`: `create()` and `link()` do not test that the directory
  `nameiparent()` found still has a link when they lock it.  An entry made in a
  directory that was removed meanwhile is lost with it: the inode's `nlink` then
  counts an entry that no path leads to, and is never what
  `Notes/Chapter8_File_System.md:129` says it is for, "to recognize when it can
  be freed".
- A process may stay in a removed directory whose parent is removed too and
  freed; its `..` then names a free inode, and looking it up panics in `ilock()`.
  The menu of `fs` has one directory below the root, so its parent stays.
- `sysnet.c:76`: the error path of `sockalloc()` frees a socket that its file
  still points to, and closing the file frees it again.
- `proc.c:632`: `kill()` compares pids without looking at the state, so `kill(0)`
  marks a free slot and the next process there dies at its first trap.
- `proc.c:364`: init may sleep beside a zombie it was just given until the next
  exit; the comment says so and accepts it.
- `e1000.c:105`: the DD bit (section 2).

## 6. Not modelled

- Traps and register code (`trampoline.S`, `kernelvec.S`, `swtch.S`): below the
  grain of the models.  What `trap.c` decides is in the modules that need it: the
  timer and `yield()` in `Sched`, `killed` in `Proc`, device interrupts in `Net`,
  `Virtio` and `Console`.
- System call dispatch: no state.  The fetching of arguments from user memory is
  in `Vm`.
- `user/umalloc.c`: a sequential algorithm of one program, left for later.
- The shell, the other user programs, `mkfs`, the boot code and the tests: they
  are sequential, run before anything is concurrent, or use the kernel from
  outside.  `user/init.c`'s loop and the sizes `mkfs` writes are taken into
  `Proc` and `Log`.
- The ELF format, checksums, byte order, the console's formatting.
- Memory ordering between ordinary stores and device registers: the models assume
  program order.
- Disk errors, on which `virtio_disk_intr()` panics.
- Exhaustion that panics by design: blocks, inodes, inode cache, buffers.

## 7. Plan

Every invariant that a run checks is now stated by a theorem.  What could still be
proved is a condition on removed directories that lets `..` back into `FsLinksCounted`.

Modules that could follow: `Umalloc`, the allocator of `user/umalloc.c`, against a
reference allocator; and a composition of `Log` with `BufCache`, which now meet
only through `log.c`'s rule on pinned buffers.
