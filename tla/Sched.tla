-------------------------------- MODULE Sched -------------------------------
(***************************************************************************)
(* The scheduler and sleep()/wakeup() of kernel/proc.c, the spin locks and *)
(* the interrupt nesting of kernel/spinlock.c, and the timer interrupt of  *)
(* kernel/trap.c, for processes that call sys_sleep() and kill().          *)
(*                                                                         *)
(* A thread is a process or the scheduler of a cpu; a cpu runs one thread. *)
(* A step ends where another cpu or an interrupt can come in between: at   *)
(* the taking and giving up of a lock, at swtch() and where interrupts are *)
(* on.  push_off() and the successful swap of acquire() are one step.      *)
(*                                                                         *)
(* The only channel is &ticks, with the condition lock tickslock, so       *)
(* SLEEPING implies p->chan = &ticks and chan is not kept.                 *)
(***************************************************************************)
EXTENDS Integers, FiniteSets

CONSTANTS
    NPROC,      \* processes, 1 .. NPROC; none is created here
    Cpu, cpu0,  \* the cpus, and the one that counts ticks
    tickslock,
    None,       \* null
    UINT,       \* 2^32: ticks wraps there
    MaxN,       \* bound: ticks one sys_sleep() asks for
    Victims     \* bound: processes kill() is asked for

Slot == 1 .. NPROC

ASSUME SchedAssumption ==
    /\ NPROC \in Nat \ {0}
    /\ cpu0 \in Cpu /\ Cpu \cap Slot = {}
    /\ tickslock \notin Slot /\ None \notin Cpu
    /\ UINT \in Nat \ {0} /\ MaxN \in Nat /\ MaxN < UINT
    /\ Victims \subseteq Slot

Thread == Slot \cup Cpu         \* Cpu: its scheduler
Lock   == Slot \cup {tickslock} \* Slot: p->lock

VARIABLES
    state, killed,      \* struct proc
    saved,              \* sched(): its local variable intena, while it is off the cpu
    lock,               \* lk->cpu of each lock, or None
    cpu,                \* of each cpu: noff, intena, and intr_get()
    cur,                \* the thread each cpu runs; c->proc when it is one
    pc, ret,            \* each thread: where it is, where an interrupt was
    idx,                \* scheduler(): the slot its scan has come to
    widx,               \* wakeup(): the slot its scan has come to
    ticks, ticks0, n    \* the tick counter; sys_sleep(): its local variables

vars == <<state, killed, saved, lock, cpu, cur, pc, ret, idx, widx, ticks,
          ticks0, n>>

SchedPCs == {"sched_sleep", "sched_yield", "sched_exit"}

Init ==
    /\ state = [p \in Slot |-> "RUNNABLE"]
    /\ killed = [p \in Slot |-> FALSE]
    /\ saved = [p \in Slot |-> FALSE]
    /\ lock = [l \in Lock |-> None]
    /\ cpu = [c \in Cpu |-> [noff |-> 0, intena |-> FALSE, intr |-> FALSE]]
    /\ cur = [c \in Cpu |-> c]
    /\ pc = [t \in Thread |-> IF t \in Cpu THEN "top" ELSE "forkret"]
    /\ ret = [t \in Thread |-> "none"]
    /\ idx = [c \in Cpu |-> 1]
    /\ widx = 1
    /\ ticks = 0
    /\ ticks0 = [p \in Slot |-> 0]
    /\ n = [p \in Slot |-> 0]

-----------------------------------------------------------------------------
(***************************************************************************)
(* spinlock.c, on the record of a cpu.                                     *)
(***************************************************************************)
\* Mutant: interrupts stay on while a lock is held.
push_off_on(k) ==
    [noff |-> k.noff + 1,
     intena |-> IF k.noff = 0 THEN k.intr ELSE k.intena,
     intr |-> k.intr]

push_off(k) ==
    [noff |-> k.noff + 1,
     intena |-> IF k.noff = 0 THEN k.intr ELSE k.intena,
     intr |-> FALSE]

\* intena is dead once noff is 0, and is cleared here.
pop_off(k) ==
    [noff |-> k.noff - 1,
     intena |-> k.noff # 1 /\ k.intena,
     intr |-> k.intr \/ (k.noff = 1 /\ k.intena)]

acquire(c, l) ==
    /\ lock[l] = None
    /\ lock' = [lock EXCEPT ![l] = c]
    /\ cpu' = [cpu EXCEPT ![c] = push_off(@)]

release(c, l) ==
    /\ lock' = [lock EXCEPT ![l] = None]
    /\ cpu' = [cpu EXCEPT ![c] = pop_off(@)]

\* A critical section that is one step.
acquire_release(c, l) ==
    /\ lock[l] = None
    /\ cpu' = [cpu EXCEPT ![c] = pop_off(push_off(@))]
    /\ UNCHANGED lock

Goto(t, label) == pc' = [pc EXCEPT ![t] = label]

-----------------------------------------------------------------------------
(***************************************************************************)
(* scheduler().                                                            *)
(***************************************************************************)
\* intr_on() at the top of the loop.
sched_top(c) ==
    /\ cur[c] = c /\ pc[c] = "top"
    /\ cpu' = [cpu EXCEPT ![c].intr = TRUE]
    /\ idx' = [idx EXCEPT ![c] = 1]
    /\ Goto(c, "scan")
    /\ UNCHANGED <<state, killed, saved, lock, cur, ret, widx, ticks, ticks0, n>>

\* The end of the body of the loop; nproc counts every process.
Advance(c) ==
    IF idx[c] < NPROC
      THEN idx' = [idx EXCEPT ![c] = @ + 1] /\ Goto(c, "scan")
      ELSE UNCHANGED idx /\ Goto(c, IF NPROC <= 2 THEN "idle" ELSE "top")

sched_skip(c) ==
    /\ cur[c] = c /\ pc[c] = "scan" /\ state[idx[c]] # "RUNNABLE"
    /\ acquire_release(c, idx[c])
    /\ Advance(c)
    /\ UNCHANGED <<state, killed, saved, cur, ret, widx, ticks, ticks0, n>>

\* Mutant: the process keeps its state, and another cpu may run it too.
sched_run_still(c) ==
    /\ cur[c] = c /\ pc[c] = "scan" /\ state[idx[c]] = "RUNNABLE"
    /\ acquire(c, idx[c])
    /\ cur' = [cur EXCEPT ![c] = idx[c]]
    /\ Goto(c, "back")
    /\ UNCHANGED <<state, killed, saved, ret, idx, widx, ticks, ticks0, n>>

sched_run(c) ==
    /\ cur[c] = c /\ pc[c] = "scan" /\ state[idx[c]] = "RUNNABLE"
    /\ acquire(c, idx[c])
    /\ state' = [state EXCEPT ![idx[c]] = "RUNNING"]
    /\ cur' = [cur EXCEPT ![c] = idx[c]]
    /\ Goto(c, "back")
    /\ UNCHANGED <<killed, saved, ret, idx, widx, ticks, ticks0, n>>

\* After swtch() back from a process: its lock is released here.
sched_back(c) ==
    /\ cur[c] = c /\ pc[c] = "back"
    /\ release(c, idx[c])
    /\ Advance(c)
    /\ UNCHANGED <<state, killed, saved, cur, ret, widx, ticks, ticks0, n>>

\* Only init and sh exist: intr_on(), and wfi until an interrupt.
sched_idle(c) ==
    /\ cur[c] = c /\ pc[c] = "idle"
    /\ cpu' = [cpu EXCEPT ![c].intr = TRUE]
    /\ Goto(c, "wfi")
    /\ UNCHANGED <<state, killed, saved, lock, cur, ret, idx, widx, ticks, ticks0, n>>

-----------------------------------------------------------------------------
(***************************************************************************)
(* sched(), on the process's side of swtch().  Its panics are in NoPanic.  *)
(***************************************************************************)
\* Mutant: intena is not kept for the process.
sched_lost(c, p) ==
    /\ cur[c] = p /\ pc[p] \in SchedPCs
    /\ cur' = [cur EXCEPT ![c] = c]
    /\ Goto(p, CASE pc[p] = "sched_sleep" -> "sl_woken"
                 [] pc[p] = "sched_yield" -> "y_ret"
                 [] pc[p] = "sched_exit"  -> "dead")
    /\ UNCHANGED <<state, killed, saved, lock, cpu, ret, idx, widx, ticks,
                   ticks0, n>>

sched(c, p) ==
    /\ cur[c] = p /\ pc[p] \in SchedPCs
    /\ saved' = [saved EXCEPT ![p] = cpu[c].intena]
    /\ cur' = [cur EXCEPT ![c] = c]
    /\ Goto(p, CASE pc[p] = "sched_sleep" -> "sl_woken"
                 [] pc[p] = "sched_yield" -> "y_ret"
                 [] pc[p] = "sched_exit"  -> "dead")
    /\ UNCHANGED <<state, killed, lock, cpu, ret, idx, widx, ticks, ticks0, n>>

\* What sched() and release(&p->lock) leave of the cpu the process is now on.
Resumed(c, p) == pop_off([cpu[c] EXCEPT !.intena = saved[p]])

\* usertrapret(), and the end of kernelvec: sret turns interrupts on.
usertrapret(k) == [k EXCEPT !.intr = TRUE]

\* forkret(): scheduler() has p->lock for the child; then usertrapret().
forkret(c, p) ==
    /\ cur[c] = p /\ pc[p] = "forkret"
    /\ lock' = [lock EXCEPT ![p] = None]
    /\ cpu' = [cpu EXCEPT ![c] = usertrapret(pop_off(@))]
    /\ Goto(p, "user")
    /\ UNCHANGED <<state, killed, saved, cur, ret, idx, widx, ticks, ticks0, n>>

-----------------------------------------------------------------------------
(***************************************************************************)
(* sys_sleep() and sleep(&ticks, &tickslock).                              *)
(***************************************************************************)
sys_sleep(c, p) ==
    /\ cur[c] = p /\ pc[p] = "user" /\ ~killed[p]
    /\ acquire(c, tickslock)
    /\ \E k \in 1 .. MaxN : n' = [n EXCEPT ![p] = k]
    /\ ticks0' = [ticks0 EXCEPT ![p] = ticks]
    /\ Goto(p, "s_loop")
    /\ UNCHANGED <<state, killed, saved, cur, ret, idx, widx, ticks>>

Elapsed(p) == (ticks - ticks0[p]) % UINT

\* Both returns of the call, through usertrap() to user space or to exit().
sys_sleep_return(c, p) ==
    /\ cur[c] = p /\ pc[p] = "s_loop"
    /\ Elapsed(p) >= n[p] \/ killed[p]
    /\ release(c, tickslock)
    /\ Goto(p, IF killed[p] THEN "x_acq" ELSE "user")
    /\ n' = [n EXCEPT ![p] = 0]
    /\ ticks0' = [ticks0 EXCEPT ![p] = 0]
    /\ UNCHANGED <<state, killed, saved, cur, ret, idx, widx, ticks>>

sys_sleep_again(c, p) ==
    /\ cur[c] = p /\ pc[p] = "s_loop"
    /\ Elapsed(p) < n[p] /\ ~killed[p]
    /\ Goto(p, "sl_acq")
    /\ UNCHANGED <<state, killed, saved, lock, cpu, cur, ret, idx, widx, ticks,
                   ticks0, n>>

\* Mutant: the condition lock is given up before p->lock is taken.
sleep_lock_late(c, p) ==
    /\ cur[c] = p /\ pc[p] = "sl_acq"
    /\ \/ /\ lock[tickslock] = c
          /\ lock' = [lock EXCEPT ![tickslock] = None]
          /\ UNCHANGED <<cpu, pc>>
       \/ /\ lock[tickslock] # c
          /\ acquire(c, p)
          /\ Goto(p, "sl_rel")
    /\ UNCHANGED <<state, killed, saved, cur, ret, idx, widx, ticks, ticks0, n>>

sleep_lock(c, p) ==
    /\ cur[c] = p /\ pc[p] = "sl_acq"
    /\ acquire(c, p)
    /\ Goto(p, "sl_rel")
    /\ UNCHANGED <<state, killed, saved, cur, ret, idx, widx, ticks, ticks0, n>>

sleep_release(c, p) ==
    /\ cur[c] = p /\ pc[p] = "sl_rel"
    /\ release(c, tickslock)
    /\ state' = [state EXCEPT ![p] = "SLEEPING"]
    /\ Goto(p, "sched_sleep")
    /\ UNCHANGED <<killed, saved, cur, ret, idx, widx, ticks, ticks0, n>>

\* Woken and scheduled: give up p->lock, then take the condition lock again.
sleep_woken(c, p) ==
    /\ cur[c] = p /\ pc[p] = "sl_woken"
    /\ lock' = [lock EXCEPT ![p] = None]
    /\ cpu' = [cpu EXCEPT ![c] = Resumed(c, p)]
    /\ Goto(p, "sl_relock")
    /\ saved' = [saved EXCEPT ![p] = FALSE]
    /\ UNCHANGED <<state, killed, cur, ret, idx, widx, ticks, ticks0, n>>

sleep_relock(c, p) ==
    /\ cur[c] = p /\ pc[p] = "sl_relock"
    /\ acquire(c, tickslock)
    /\ Goto(p, "s_loop")
    /\ UNCHANGED <<state, killed, saved, cur, ret, idx, widx, ticks, ticks0, n>>

-----------------------------------------------------------------------------
(***************************************************************************)
(* kill() and exit(), which is shortened to what it does with the cpu.     *)
(***************************************************************************)
kill(c, p, q) ==
    /\ cur[c] = p /\ pc[p] = "user" /\ ~killed[p]
    /\ acquire_release(c, q)
    /\ killed' = [killed EXCEPT ![q] = TRUE]
    /\ state' = [state EXCEPT ![q] = IF @ = "SLEEPING" THEN "RUNNABLE" ELSE @]
    /\ UNCHANGED <<saved, cur, pc, ret, idx, widx, ticks, ticks0, n>>

\* usertrap() of a system call, before it turns interrupts on.
exit_killed(c, p) ==
    /\ cur[c] = p /\ pc[p] = "user" /\ killed[p]
    /\ cpu' = [cpu EXCEPT ![c].intr = FALSE]
    /\ Goto(p, "x_acq")
    /\ UNCHANGED <<state, killed, saved, lock, cur, ret, idx, widx, ticks, ticks0, n>>

exit(c, p) ==
    /\ cur[c] = p /\ pc[p] = "x_acq"
    /\ acquire(c, p)
    /\ state' = [state EXCEPT ![p] = "ZOMBIE"]
    /\ Goto(p, "sched_exit")
    /\ UNCHANGED <<killed, saved, cur, ret, idx, widx, ticks, ticks0, n>>

-----------------------------------------------------------------------------
(***************************************************************************)
(* The timer interrupt: usertrap() or kerneltrap(), devintr(), clockintr() *)
(* with its wakeup(), yield().                                             *)
(***************************************************************************)
\* The timer branch: only the first cpu counts ticks.
devintr(c) == IF c = cpu0 THEN "c_lock" ELSE "t_ret"

\* The hardware turns interrupts off.
interrupt(c) ==
    /\ cpu[c].intr
    /\ cpu' = [cpu EXCEPT ![c].intr = FALSE]
    /\ ret' = [ret EXCEPT ![cur[c]] = pc[cur[c]]]
    /\ Goto(cur[c], devintr(c))
    /\ UNCHANGED <<state, killed, saved, lock, cur, idx, widx, ticks, ticks0, n>>

clockintr(c) ==
    /\ pc[cur[c]] = "c_lock"
    /\ acquire(c, tickslock)
    /\ ticks' = (ticks + 1) % UINT
    /\ widx' = 1
    /\ Goto(cur[c], "c_wake")
    /\ UNCHANGED <<state, killed, saved, cur, ret, idx, ticks0, n>>

\* Mutant: the scan leaves out the last slot.
wakeup_short(c) ==
    /\ pc[cur[c]] = "c_wake" /\ widx <= NPROC
    /\ acquire_release(c, widx)
    /\ state' = [state EXCEPT ![widx] =
                    IF @ = "SLEEPING" /\ widx < NPROC THEN "RUNNABLE" ELSE @]
    /\ widx' = widx + 1
    /\ UNCHANGED <<killed, saved, cur, pc, ret, idx, ticks, ticks0, n>>

wakeup(c) ==
    /\ pc[cur[c]] = "c_wake" /\ widx <= NPROC
    /\ acquire_release(c, widx)
    /\ state' = [state EXCEPT ![widx] = IF @ = "SLEEPING" THEN "RUNNABLE" ELSE @]
    /\ widx' = widx + 1
    /\ UNCHANGED <<killed, saved, cur, pc, ret, idx, ticks, ticks0, n>>

clockintr_end(c) ==
    /\ pc[cur[c]] = "c_wake" /\ widx > NPROC
    /\ release(c, tickslock)
    /\ widx' = 1
    /\ Goto(cur[c], "t_ret")
    /\ UNCHANGED <<state, killed, saved, cur, ret, idx, ticks, ticks0, n>>

\* kerneltrap() in the scheduler: myproc() is 0, so it only returns.
trap_return(c) ==
    /\ cur[c] = c /\ pc[c] = "t_ret"
    /\ cpu' = [cpu EXCEPT ![c] = usertrapret(@)]
    /\ Goto(c, IF ret[c] = "wfi" THEN "top" ELSE ret[c])
    /\ ret' = [ret EXCEPT ![c] = "none"]
    /\ UNCHANGED <<state, killed, saved, lock, cur, idx, widx, ticks, ticks0, n>>

\* usertrap() tests killed before it yields; kerneltrap() tests for RUNNING,
\* which a process that lets interrupts in always is (OneCpu).
trap_process(c, p) ==
    /\ cur[c] = p /\ pc[p] = "t_ret"
    /\ IF ret[p] = "user" /\ killed[p]
         THEN Goto(p, "x_acq") /\ ret' = [ret EXCEPT ![p] = "none"]
         ELSE Goto(p, "y_acq") /\ UNCHANGED ret
    /\ UNCHANGED <<state, killed, saved, lock, cpu, cur, idx, widx, ticks,
                   ticks0, n>>

yield(c, p) ==
    /\ cur[c] = p /\ pc[p] = "y_acq"
    /\ acquire(c, p)
    /\ state' = [state EXCEPT ![p] = "RUNNABLE"]
    /\ Goto(p, "sched_yield")
    /\ UNCHANGED <<killed, saved, cur, ret, idx, widx, ticks, ticks0, n>>

\* The end of yield(), and the return from the trap, which turns interrupts on.
yield_return(c, p) ==
    /\ cur[c] = p /\ pc[p] = "y_ret"
    /\ lock' = [lock EXCEPT ![p] = None]
    /\ cpu' = [cpu EXCEPT ![c] = usertrapret(Resumed(c, p))]
    /\ Goto(p, ret[p])
    /\ ret' = [ret EXCEPT ![p] = "none"]
    /\ saved' = [saved EXCEPT ![p] = FALSE]
    /\ UNCHANGED <<state, killed, cur, idx, widx, ticks, ticks0, n>>

-----------------------------------------------------------------------------
Scheduler(c) ==
    \/ sched_top(c) \/ sched_skip(c) \/ sched_run(c)
    \/ sched_back(c) \/ sched_idle(c)

Clock(c) == clockintr(c) \/ wakeup(c) \/ clockintr_end(c) \/ trap_return(c)

\* What a process does once it is in the kernel.
Kernel(c, p) ==
    \/ sched(c, p) \/ forkret(c, p)
    \/ sys_sleep_return(c, p) \/ sys_sleep_again(c, p)
    \/ sleep_lock(c, p) \/ sleep_release(c, p)
    \/ sleep_woken(c, p) \/ sleep_relock(c, p)
    \/ exit_killed(c, p) \/ exit(c, p)
    \/ trap_process(c, p) \/ yield(c, p) \/ yield_return(c, p)

Next ==
    \E c \in Cpu :
        \/ Scheduler(c) \/ Clock(c) \/ interrupt(c)
        \/ \E p \in Slot : Kernel(c, p) \/ sys_sleep(c, p)
        \/ \E p \in Slot, q \in Victims : kill(c, p, q)

Spec == Init /\ [][Next]_vars

\* A cpu goes on, gets a lock it spins for sooner or later, and takes the
\* timer interrupt when it lets it in.  No process has to make a call.
Fairness ==
    \A c \in Cpu :
        /\ SF_vars(Scheduler(c))
        /\ SF_vars(Clock(c))
        /\ WF_vars(interrupt(c))
        /\ SF_vars(\E p \in Slot : Kernel(c, p))

FairSpec == Spec /\ Fairness

-----------------------------------------------------------------------------
(***************************************************************************)
(* Properties.                                                             *)
(***************************************************************************)
OnCpu(p) == {c \in Cpu : cur[c] = p}

\* Where a process and where the scheduler of a cpu can be.
TrapPCs == {"c_lock", "c_wake", "t_ret"}
ProcPCs == {"forkret", "user", "s_loop", "sl_acq", "sl_rel", "sl_woken", "sl_relock",
            "x_acq", "y_acq", "y_ret", "dead"} \cup SchedPCs \cup TrapPCs
CpuPCs  == {"top", "scan", "back", "idle", "wfi"} \cup TrapPCs

\* Type invariant.
TypeOK ==
    /\ state \in [Slot -> {"RUNNABLE", "RUNNING", "SLEEPING", "ZOMBIE"}]
    /\ killed \in [Slot -> BOOLEAN]
    /\ saved \in [Slot -> BOOLEAN]
    /\ lock \in [Lock -> Cpu \cup {None}]
    /\ cpu \in [Cpu -> [noff : 0 .. 2, intena : BOOLEAN, intr : BOOLEAN]]
    /\ cur \in [Cpu -> Thread] /\ \A c \in Cpu : cur[c] \in {c} \cup Slot
    /\ pc \in [Thread -> ProcPCs \cup CpuPCs] /\ ret \in [Thread -> ProcPCs \cup CpuPCs \cup {"none"}]
    /\ \A p \in Slot : pc[p] \in ProcPCs
    /\ \A c \in Cpu : pc[c] \in CpuPCs
    /\ idx \in [Cpu -> Slot]
    /\ widx \in 1 .. NPROC + 1
    /\ ticks \in 0 .. UINT - 1
    /\ ticks0 \in [Slot -> 0 .. UINT - 1]
    /\ n \in [Slot -> 0 .. MaxN]

\* The lock a thread takes next.
Wanted(c) ==
    CASE pc[cur[c]] = "scan" -> idx[c]
      [] pc[cur[c]] \in {"c_lock", "sl_relock"} -> tickslock
      [] pc[cur[c]] = "c_wake" /\ widx <= NPROC -> widx
      [] pc[cur[c]] \in {"sl_acq", "x_acq", "y_acq"} -> cur[c]
      [] OTHER -> None

\* The lock a thread gives up next.
Owed(c) ==
    CASE pc[cur[c]] = "back" -> idx[c]
      [] pc[cur[c]] \in {"s_loop", "sl_rel"} -> tickslock
      [] pc[cur[c]] = "c_wake" /\ widx > NPROC -> tickslock
      [] pc[cur[c]] \in {"forkret", "sl_woken", "y_ret"} -> cur[c]
      [] OTHER -> None

\* None of the panics of acquire(), release(), pop_off() and sched() happens:
\* no cpu spins for a lock it has itself, also not in an interrupt handler, or
\* releases one it has not, and a cpu leaves a process with interrupts off and
\* exactly that process's lock held (spinlock.c:65, 98, 152; proc.c:514-521).
NoPanic ==
    \A c \in Cpu :
        /\ Wanted(c) # None => lock[Wanted(c)] # c
        /\ Owed(c) # None => lock[Owed(c)] = c /\ ~cpu[c].intr /\ cpu[c].noff > 0
        /\ pc[cur[c]] \in SchedPCs =>
              /\ lock[cur[c]] = c
              /\ cpu[c].noff = 1
              /\ state[cur[c]] # "RUNNING"
              /\ ~cpu[c].intr

\* A kernel stack is in use on one cpu at most, and what runs is RUNNING or has
\* its lock until scheduler() is back on its own stack: no cpu can pick up a
\* process another cpu has not left (scheduler(), sched()).
OneCpu ==
    \A p \in Slot :
        /\ Cardinality(OnCpu(p)) <= 1
        /\ state[p] = "RUNNING" => OnCpu(p) # {}
        /\ \A c \in OnCpu(p) : state[p] = "RUNNING" \/ lock[p] = c

\* Interrupts are a property of the thread, not of the cpu it happens to be on:
\* a process outside a trap handler that holds no lock has them on, wherever it
\* was switched out and whatever ran there meanwhile (sched()'s intena).
IntrRestored ==
    \A c \in Cpu : \A p \in Slot :
        cur[c] = p /\ pc[p] \in {"user", "sl_relock"} => cpu[c].intr

\* No wakeup is lost between the test of sys_sleep() and the sleep: when the
\* time of a sleeping process has come, a wakeup() is on its way to it.
NoLostWakeup ==
    \A p \in Slot :
        state[p] = "SLEEPING" /\ Elapsed(p) >= n[p] =>
            /\ widx <= p
            /\ \E c \in Cpu : pc[cur[c]] = "c_wake"

\* A process that sleeps is woken and runs again: ticks go on, scheduler()'s
\* scan comes to every process and every process is preempted.
SleeperRuns ==
    \A p \in Slot : state[p] = "SLEEPING" ~> state[p] = "RUNNING"
=============================================================================
