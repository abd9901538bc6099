---------------------------- MODULE SchedVmProofs ----------------------------
(***************************************************************************)
(* Proofs about modules Sched and Vm: the scheduler for any number of      *)
(* processes and cpus; user memory for any number of processes and pages,  *)
(* any page and table size and any sizes of programs and requests.         *)
(***************************************************************************)
EXTENDS Sched, Vm, CommonLemmas, FiniteSetTheorems, TLAPS

-----------------------------------------------------------------------------
(***************************************************************************)
(* The scheduler: the inductive invariant.                                 *)
(***************************************************************************)
\* Where a thread has its own p->lock, and where it has tickslock.
OwnPCs   == {"forkret", "sl_rel", "sl_woken", "y_ret"} \cup SchedPCs
TicksPCs == {"s_loop", "sl_acq", "sl_rel", "c_wake"}

\* A cpu that runs a process has its scheduler waiting in swtch() for that
\* process, and no two cpus run the same.
CurInv ==
    /\ \A c \in Cpu : cur[c] \in Slot => pc[c] = "back" /\ idx[c] = cur[c]
    /\ \A c, d \in Cpu : cur[c] = cur[d] => c = d

\* The state of a process on a cpu, and off it.
OnState(p) ==
    /\ pc[p] # "dead"
    /\ pc[p] = "sched_sleep" => state[p] = "SLEEPING"
    /\ pc[p] = "sched_yield" => state[p] = "RUNNABLE"
    /\ pc[p] = "sched_exit" => state[p] = "ZOMBIE"
    /\ pc[p] \notin SchedPCs => state[p] = "RUNNING"
OffState(p) ==
    \/ pc[p] \in {"forkret", "y_ret"} /\ state[p] = "RUNNABLE"
    \/ pc[p] = "sl_woken" /\ state[p] \in {"RUNNABLE", "SLEEPING"}
    \/ pc[p] = "dead" /\ state[p] = "ZOMBIE"
StateInv ==
    /\ \A c \in Cpu, p \in Slot : cur[c] = p => OnState(p)
    /\ \A p \in Slot : (\E c \in Cpu : cur[c] = p) \/ OffState(p)

\* The locks a cpu holds are told by where the thread it runs is.
LockInv ==
    \A c \in Cpu, l \in Lock : lock[l] = c <=>
        \/ l = tickslock /\ pc[cur[c]] \in TicksPCs
        \/ l = cur[c] /\ cur[c] \in Slot /\ pc[cur[c]] \in OwnPCs
        \/ l = idx[c] /\ cur[c] = c /\ pc[c] = "back"

\* noff counts them; interrupts are off with a lock held and in a trap handler,
\* and intena remembers for sleep() that they were on.
CpuInv ==
    \A c \in Cpu :
        /\ cpu[c].noff = IF pc[cur[c]] = "sl_rel" THEN 2
                         ELSE IF pc[cur[c]] \in OwnPCs \cup TicksPCs \cup {"back"} THEN 1
                         ELSE 0
        /\ cpu[c].noff > 0 => ~cpu[c].intr
        /\ pc[cur[c]] \in TrapPCs \cup {"y_acq"} => ~cpu[c].intr
        /\ pc[cur[c]] \in {"user", "sl_relock"} => cpu[c].intr
        /\ pc[cur[c]] \in {"s_loop", "sl_acq", "sl_rel", "sched_sleep"} => cpu[c].intena
        /\ pc[cur[c]] = "c_wake" => ~cpu[c].intena
SavedInv == \A p \in Slot : pc[p] = "sl_woken" => saved[p]

\* An interrupt comes where interrupts may be on, and goes back there.
RetInv ==
    /\ \A p \in Slot : pc[p] \in TrapPCs \cup {"y_acq", "sched_yield", "y_ret"} =>
            ret[p] \in {"user", "sl_relock", "x_acq"}
    /\ \A c \in Cpu : pc[c] \in TrapPCs => ret[c] \in {"top", "scan", "idle", "wfi"}

\* A process that is about to sleep has tested, and has tickslock still.
SleepInv ==
    \A p \in Slot : pc[p] \in {"sl_acq", "sl_rel"} => Elapsed(p) < n[p]

\* TypeOK in three parts.
TypeData ==
    /\ state \in [Slot -> {"RUNNABLE", "RUNNING", "SLEEPING", "ZOMBIE"}]
    /\ killed \in [Slot -> BOOLEAN] /\ saved \in [Slot -> BOOLEAN]
    /\ lock \in [Lock -> Cpu \cup {None}]
    /\ idx \in [Cpu -> Slot] /\ widx \in 1 .. NPROC + 1
    /\ ticks \in 0 .. UINT - 1 /\ ticks0 \in [Slot -> 0 .. UINT - 1]
    /\ n \in [Slot -> 0 .. MaxN]
TypeCtl ==
    /\ cur \in [Cpu -> Thread] /\ \A c \in Cpu : cur[c] \in {c} \cup Slot
    /\ pc \in [Thread -> ProcPCs \cup CpuPCs]
    /\ ret \in [Thread -> ProcPCs \cup CpuPCs \cup {"none"}]
    /\ \A p \in Slot : pc[p] \in ProcPCs
    /\ \A c \in Cpu : pc[c] \in CpuPCs
CpuRec == [noff : 0 .. 2, intena : BOOLEAN, intr : BOOLEAN]
TypeCpu == cpu \in [Cpu -> CpuRec]

IInv ==
    /\ TypeOK /\ CurInv /\ StateInv /\ LockInv /\ CpuInv /\ SavedInv /\ RetInv
    /\ SleepInv /\ NoLostWakeup

-----------------------------------------------------------------------------
\* Slots are used as names here, and as numbers by the scans only.
LEMMA Constants ==
    /\ Slot \cap Cpu = {} /\ tickslock \notin Slot /\ None \notin Cpu /\ Victims \subseteq Slot
    /\ cpu0 \in Cpu /\ UINT \in Nat \ {0} /\ MaxN \in Nat
    /\ \A p \in Slot : p \in Int /\ 1 <= p /\ p <= NPROC
    /\ 1 \in Slot /\ 1 \in 1 .. NPROC + 1
    /\ \A i \in Slot : i < NPROC => i + 1 \in Slot
    /\ \A i \in 1 .. NPROC + 1 : i <= NPROC => i \in Slot /\ i + 1 \in 1 .. NPROC + 1
  BY SchedAssumption DEF Slot

\* Where interrupts may be on.
LEMMA Interruptible ==
    ASSUME TypeOK, CurInv, StateInv, CpuInv, NEW c \in Cpu, cpu[c].intr
    PROVE  \/ cur[c] \in Slot /\ pc[cur[c]] \in {"user", "sl_relock", "x_acq"}
           \/ cur[c] = c /\ pc[c] \in {"top", "scan", "idle", "wfi"}
  BY DEF TypeOK, StateInv, OnState, CpuInv, OwnPCs, TicksPCs, ProcPCs, CpuPCs, SchedPCs, TrapPCs

(***************************************************************************)
(* One lemma for each conjunct, one step for each action.                  *)
(***************************************************************************)

\* A record of a cpu after the operations of spinlock.c and after the hardware's.
LEMMA CpuRecords ==
    ASSUME NEW k \in CpuRec, NEW b \in BOOLEAN
    PROVE  /\ [k EXCEPT !.intr = b] \in CpuRec /\ [k EXCEPT !.intr = b].noff = k.noff
           /\ [k EXCEPT !.intena = b] \in CpuRec /\ [k EXCEPT !.intena = b].noff = k.noff
           /\ k.noff < 2 => push_off(k) \in CpuRec
           /\ k.noff > 0 => pop_off(k) \in CpuRec
<1>1. /\ k = [noff |-> k.noff, intena |-> k.intena, intr |-> k.intr]
      /\ k.noff \in 0 .. 2 /\ k.intena \in BOOLEAN /\ k.intr \in BOOLEAN
  BY DEF CpuRec
<1>2. /\ [k EXCEPT !.intr = b] = [noff |-> k.noff, intena |-> k.intena, intr |-> b]
      /\ [k EXCEPT !.intena = b] = [noff |-> k.noff, intena |-> b, intr |-> k.intr]
  BY <1>1
<1>3. k.noff < 2 => push_off(k) \in CpuRec
  BY <1>1 DEF CpuRec, push_off
<1>4. k.noff > 0 => pop_off(k) \in CpuRec
  BY <1>1 DEF CpuRec, pop_off
<1>. QED
  BY <1>1, <1>2, <1>3, <1>4 DEF CpuRec

\* The tables keep their types.
LEMMA TypeDataStep ==
    ASSUME TypeOK, CpuInv, [Next]_vars
    PROVE  TypeData'
<1>0. /\ TypeOK /\ Thread = Slot \cup Cpu /\ Lock = Slot \cup {tickslock} /\ Slot \cap Cpu = {}
      /\ tickslock \notin Slot /\ None \notin Cpu /\ Victims \subseteq Slot
      /\ 1 \in Slot /\ 1 \in 1 .. NPROC + 1
      /\ \A i \in Slot : i < NPROC => i + 1 \in Slot
      /\ \A i \in 1 .. NPROC + 1 : i <= NPROC => i \in Slot /\ i + 1 \in 1 .. NPROC + 1
      /\ \A i \in Int : i % UINT \in 0 .. UINT - 1
      /\ 0 \in 0 .. UINT - 1 /\ 0 \in 0 .. MaxN
  BY Constants DEF Thread, Lock
<1>1. ASSUME NEW c \in Cpu, sched_top(c) PROVE TypeData'
  BY <1>0, <1>1 DEF sched_top, Goto, TypeData, TypeOK
<1>2. ASSUME NEW c \in Cpu, sched_skip(c) PROVE TypeData'
  <2>1. idx' \in [Cpu -> Slot]
    BY <1>0, <1>2 DEF sched_skip, Advance, TypeOK
  <2>. QED
    BY <2>1, <1>2 DEF sched_skip, acquire_release, TypeData, TypeOK
<1>3. ASSUME NEW c \in Cpu, sched_run(c) PROVE TypeData'
  BY <1>0, <1>3 DEF sched_run, acquire, Goto, TypeData, TypeOK
<1>4. ASSUME NEW c \in Cpu, sched_back(c) PROVE TypeData'
  <2>1. idx' \in [Cpu -> Slot]
    BY <1>0, <1>4 DEF sched_back, Advance, TypeOK
  <2>2. lock' \in [Lock -> Cpu \cup {None}]
    BY <1>0, <1>4 DEF sched_back, release, TypeOK
  <2>. QED
    BY <2>1, <2>2, <1>4 DEF sched_back, TypeData, TypeOK
<1>5. ASSUME NEW c \in Cpu, sched_idle(c) PROVE TypeData'
  BY <1>0, <1>5 DEF sched_idle, Goto, TypeData, TypeOK
<1>6. ASSUME NEW c \in Cpu, clockintr(c) PROVE TypeData'
  BY <1>0, <1>6 DEF clockintr, acquire, Goto, TypeData, TypeOK
<1>7. ASSUME NEW c \in Cpu, wakeup(c) PROVE TypeData'
  BY <1>0, <1>7 DEF wakeup, acquire_release, TypeData, TypeOK
<1>8. ASSUME NEW c \in Cpu, clockintr_end(c) PROVE TypeData'
  BY <1>0, <1>8 DEF clockintr_end, release, Goto, TypeData, TypeOK
<1>9. ASSUME NEW c \in Cpu, trap_return(c) PROVE TypeData'
  BY <1>0, <1>9 DEF trap_return, Goto, TypeData, TypeOK
<1>10. ASSUME NEW c \in Cpu, interrupt(c) PROVE TypeData'
  BY <1>0, <1>10 DEF interrupt, devintr, Goto, TypeData, TypeOK
<1>11. ASSUME NEW c \in Cpu, NEW p \in Slot, sched(c, p) PROVE TypeData'
  BY <1>0, <1>11 DEF sched, Goto, TypeData, TypeOK
<1>12. ASSUME NEW c \in Cpu, NEW p \in Slot, forkret(c, p) PROVE TypeData'
  BY <1>0, <1>12 DEF forkret, Goto, TypeData, TypeOK
<1>13. ASSUME NEW c \in Cpu, NEW p \in Slot, sys_sleep_return(c, p) PROVE TypeData'
  BY <1>0, <1>13 DEF sys_sleep_return, release, Goto, TypeData, TypeOK
<1>14. ASSUME NEW c \in Cpu, NEW p \in Slot, sys_sleep_again(c, p) PROVE TypeData'
  BY <1>0, <1>14 DEF sys_sleep_again, Goto, TypeData, TypeOK
<1>15. ASSUME NEW c \in Cpu, NEW p \in Slot, sleep_lock(c, p) PROVE TypeData'
  BY <1>0, <1>15 DEF sleep_lock, acquire, Goto, TypeData, TypeOK
<1>16. ASSUME NEW c \in Cpu, NEW p \in Slot, sleep_release(c, p) PROVE TypeData'
  BY <1>0, <1>16 DEF sleep_release, release, Goto, TypeData, TypeOK
<1>17. ASSUME NEW c \in Cpu, NEW p \in Slot, sleep_woken(c, p) PROVE TypeData'
  BY <1>0, <1>17 DEF sleep_woken, Goto, TypeData, TypeOK
<1>18. ASSUME NEW c \in Cpu, NEW p \in Slot, sleep_relock(c, p) PROVE TypeData'
  BY <1>0, <1>18 DEF sleep_relock, acquire, Goto, TypeData, TypeOK
<1>19. ASSUME NEW c \in Cpu, NEW p \in Slot, exit_killed(c, p) PROVE TypeData'
  BY <1>0, <1>19 DEF exit_killed, Goto, TypeData, TypeOK
<1>20. ASSUME NEW c \in Cpu, NEW p \in Slot, exit(c, p) PROVE TypeData'
  BY <1>0, <1>20 DEF exit, acquire, Goto, TypeData, TypeOK
<1>21. ASSUME NEW c \in Cpu, NEW p \in Slot, trap_process(c, p) PROVE TypeData'
  BY <1>0, <1>21 DEF trap_process, Goto, TypeData, TypeOK
<1>22. ASSUME NEW c \in Cpu, NEW p \in Slot, yield(c, p) PROVE TypeData'
  BY <1>0, <1>22 DEF yield, acquire, Goto, TypeData, TypeOK
<1>23. ASSUME NEW c \in Cpu, NEW p \in Slot, yield_return(c, p) PROVE TypeData'
  BY <1>0, <1>23 DEF yield_return, Goto, TypeData, TypeOK
<1>24. ASSUME NEW c \in Cpu, NEW p \in Slot, sys_sleep(c, p) PROVE TypeData'
  BY <1>0, <1>24 DEF sys_sleep, acquire, Goto, TypeData, TypeOK
<1>25. ASSUME NEW c \in Cpu, NEW p \in Slot, NEW q \in Victims, kill(c, p, q) PROVE TypeData'
  BY <1>0, <1>25 DEF kill, acquire_release, TypeData, TypeOK
<1>26. CASE UNCHANGED vars
  BY <1>26, <1>0 DEF vars, TypeData, TypeOK
<1>. QED
  BY <1>1, <1>2, <1>3, <1>4, <1>5, <1>6, <1>7, <1>8, <1>9, <1>10, <1>11, <1>12, <1>13,
     <1>14, <1>15, <1>16, <1>17, <1>18, <1>19, <1>20, <1>21, <1>22, <1>23, <1>24, <1>25,
     <1>26 DEF Next, Scheduler, Clock, Kernel

\* So do the threads and the cpus that run them.
LEMMA TypeCtlStep ==
    ASSUME TypeOK, RetInv, [Next]_vars
    PROVE  TypeCtl'
<1>0. /\ TypeOK /\ Thread = Slot \cup Cpu /\ Lock = Slot \cup {tickslock} /\ Slot \cap Cpu = {}
      /\ tickslock \notin Slot /\ None \notin Cpu /\ Victims \subseteq Slot
      /\ 1 \in Slot /\ 1 \in 1 .. NPROC + 1
      /\ \A i \in Slot : i < NPROC => i + 1 \in Slot
      /\ \A i \in 1 .. NPROC + 1 : i <= NPROC => i \in Slot /\ i + 1 \in 1 .. NPROC + 1
      /\ \A i \in Int : i % UINT \in 0 .. UINT - 1
      /\ 0 \in 0 .. UINT - 1 /\ 0 \in 0 .. MaxN
  BY Constants DEF Thread, Lock
<1>1. ASSUME NEW c \in Cpu, sched_top(c) PROVE TypeCtl'
  BY <1>0, <1>1 DEF sched_top, Goto, TypeCtl, TypeOK, RetInv, ProcPCs, CpuPCs, SchedPCs,
     TrapPCs
<1>2. ASSUME NEW c \in Cpu, sched_skip(c) PROVE TypeCtl'
  <2>1. \E l \in CpuPCs : pc' = [pc EXCEPT ![c] = l]
    BY <1>2 DEF sched_skip, Advance, Goto, CpuPCs
  <2>. QED
    BY <1>0, <2>1, <1>2 DEF sched_skip, TypeCtl, TypeOK
<1>3. ASSUME NEW c \in Cpu, sched_run(c) PROVE TypeCtl'
  BY <1>0, <1>3 DEF sched_run, Goto, TypeCtl, TypeOK, RetInv, ProcPCs, CpuPCs, SchedPCs,
     TrapPCs
<1>4. ASSUME NEW c \in Cpu, sched_back(c) PROVE TypeCtl'
  <2>1. \E l \in CpuPCs : pc' = [pc EXCEPT ![c] = l]
    BY <1>4 DEF sched_back, Advance, Goto, CpuPCs
  <2>. QED
    BY <1>0, <2>1, <1>4 DEF sched_back, TypeCtl, TypeOK
<1>5. ASSUME NEW c \in Cpu, sched_idle(c) PROVE TypeCtl'
  BY <1>0, <1>5 DEF sched_idle, Goto, TypeCtl, TypeOK, RetInv, ProcPCs, CpuPCs, SchedPCs,
     TrapPCs
<1>6. ASSUME NEW c \in Cpu, clockintr(c) PROVE TypeCtl'
  BY <1>0, <1>6 DEF clockintr, Goto, TypeCtl, TypeOK, RetInv, ProcPCs, CpuPCs, SchedPCs,
     TrapPCs
<1>7. ASSUME NEW c \in Cpu, wakeup(c) PROVE TypeCtl'
  BY <1>0, <1>7 DEF wakeup, TypeCtl, TypeOK, RetInv, ProcPCs, CpuPCs, SchedPCs, TrapPCs
<1>8. ASSUME NEW c \in Cpu, clockintr_end(c) PROVE TypeCtl'
  BY <1>0, <1>8 DEF clockintr_end, Goto, TypeCtl, TypeOK, RetInv, ProcPCs, CpuPCs,
     SchedPCs, TrapPCs
<1>9. ASSUME NEW c \in Cpu, trap_return(c) PROVE TypeCtl'
  BY <1>0, <1>9 DEF trap_return, Goto, TypeCtl, TypeOK, RetInv, ProcPCs, CpuPCs,
     SchedPCs, TrapPCs
<1>10. ASSUME NEW c \in Cpu, interrupt(c) PROVE TypeCtl'
  BY <1>0, <1>10 DEF interrupt, devintr, Goto, TypeCtl, TypeOK, RetInv, ProcPCs, CpuPCs,
     SchedPCs, TrapPCs
<1>11. ASSUME NEW c \in Cpu, NEW p \in Slot, sched(c, p) PROVE TypeCtl'
  BY <1>0, <1>11 DEF sched, Goto, TypeCtl, TypeOK, RetInv, ProcPCs, CpuPCs, SchedPCs,
     TrapPCs
<1>12. ASSUME NEW c \in Cpu, NEW p \in Slot, forkret(c, p) PROVE TypeCtl'
  BY <1>0, <1>12 DEF forkret, Goto, TypeCtl, TypeOK, RetInv, ProcPCs, CpuPCs, SchedPCs,
     TrapPCs
<1>13. ASSUME NEW c \in Cpu, NEW p \in Slot, sys_sleep_return(c, p) PROVE TypeCtl'
  BY <1>0, <1>13 DEF sys_sleep_return, Goto, TypeCtl, TypeOK, RetInv, ProcPCs, CpuPCs,
     SchedPCs, TrapPCs
<1>14. ASSUME NEW c \in Cpu, NEW p \in Slot, sys_sleep_again(c, p) PROVE TypeCtl'
  BY <1>0, <1>14 DEF sys_sleep_again, Goto, TypeCtl, TypeOK, RetInv, ProcPCs, CpuPCs,
     SchedPCs, TrapPCs
<1>15. ASSUME NEW c \in Cpu, NEW p \in Slot, sleep_lock(c, p) PROVE TypeCtl'
  BY <1>0, <1>15 DEF sleep_lock, Goto, TypeCtl, TypeOK, RetInv, ProcPCs, CpuPCs,
     SchedPCs, TrapPCs
<1>16. ASSUME NEW c \in Cpu, NEW p \in Slot, sleep_release(c, p) PROVE TypeCtl'
  BY <1>0, <1>16 DEF sleep_release, Goto, TypeCtl, TypeOK, RetInv, ProcPCs, CpuPCs,
     SchedPCs, TrapPCs
<1>17. ASSUME NEW c \in Cpu, NEW p \in Slot, sleep_woken(c, p) PROVE TypeCtl'
  BY <1>0, <1>17 DEF sleep_woken, Goto, TypeCtl, TypeOK, RetInv, ProcPCs, CpuPCs,
     SchedPCs, TrapPCs
<1>18. ASSUME NEW c \in Cpu, NEW p \in Slot, sleep_relock(c, p) PROVE TypeCtl'
  BY <1>0, <1>18 DEF sleep_relock, Goto, TypeCtl, TypeOK, RetInv, ProcPCs, CpuPCs,
     SchedPCs, TrapPCs
<1>19. ASSUME NEW c \in Cpu, NEW p \in Slot, exit_killed(c, p) PROVE TypeCtl'
  BY <1>0, <1>19 DEF exit_killed, Goto, TypeCtl, TypeOK, RetInv, ProcPCs, CpuPCs,
     SchedPCs, TrapPCs
<1>20. ASSUME NEW c \in Cpu, NEW p \in Slot, exit(c, p) PROVE TypeCtl'
  BY <1>0, <1>20 DEF exit, Goto, TypeCtl, TypeOK, RetInv, ProcPCs, CpuPCs, SchedPCs, TrapPCs
<1>21. ASSUME NEW c \in Cpu, NEW p \in Slot, trap_process(c, p) PROVE TypeCtl'
  <2>1. \E l \in ProcPCs : pc' = [pc EXCEPT ![p] = l]
    BY <1>21 DEF trap_process, Goto, ProcPCs
  <2>2. \E l \in ProcPCs \cup CpuPCs \cup {"none"} : ret' = [ret EXCEPT ![p] = l]
    <3>1. ret \in [Thread -> ProcPCs \cup CpuPCs \cup {"none"}] /\ p \in Thread
      BY <1>0 DEF TypeOK
    <3>2. ret' = ret \/ ret' = [ret EXCEPT ![p] = "none"]
      BY <1>21 DEF trap_process
    <3>3. ret = [ret EXCEPT ![p] = ret[p]] /\ ret[p] \in ProcPCs \cup CpuPCs \cup {"none"}
      BY <3>1
    <3>. QED
      BY <3>2, <3>3
  <2>. QED
    BY <1>0, <2>1, <2>2, <1>21 DEF trap_process, TypeCtl, TypeOK
<1>22. ASSUME NEW c \in Cpu, NEW p \in Slot, yield(c, p) PROVE TypeCtl'
  BY <1>0, <1>22 DEF yield, Goto, TypeCtl, TypeOK, RetInv, ProcPCs, CpuPCs, SchedPCs,
     TrapPCs
<1>23. ASSUME NEW c \in Cpu, NEW p \in Slot, yield_return(c, p) PROVE TypeCtl'
  BY <1>0, <1>23 DEF yield_return, Goto, TypeCtl, TypeOK, RetInv, ProcPCs, CpuPCs,
     SchedPCs, TrapPCs
<1>24. ASSUME NEW c \in Cpu, NEW p \in Slot, sys_sleep(c, p) PROVE TypeCtl'
  BY <1>0, <1>24 DEF sys_sleep, Goto, TypeCtl, TypeOK, RetInv, ProcPCs, CpuPCs, SchedPCs,
     TrapPCs
<1>25. ASSUME NEW c \in Cpu, NEW p \in Slot, NEW q \in Victims, kill(c, p, q) PROVE TypeCtl'
  BY <1>0, <1>25 DEF kill, TypeCtl, TypeOK, RetInv, ProcPCs, CpuPCs, SchedPCs, TrapPCs
<1>26. CASE UNCHANGED vars
  BY <1>26, <1>0 DEF vars, TypeCtl, TypeOK
<1>. QED
  BY <1>1, <1>2, <1>3, <1>4, <1>5, <1>6, <1>7, <1>8, <1>9, <1>10, <1>11, <1>12, <1>13,
     <1>14, <1>15, <1>16, <1>17, <1>18, <1>19, <1>20, <1>21, <1>22, <1>23, <1>24, <1>25,
     <1>26 DEF Next, Scheduler, Clock, Kernel

\* And the records of the cpus.
LEMMA TypeCpuStep ==
    ASSUME TypeOK, CpuInv, [Next]_vars
    PROVE  TypeCpu'
<1>0. /\ TypeOK /\ Thread = Slot \cup Cpu /\ Lock = Slot \cup {tickslock} /\ Slot \cap Cpu = {}
      /\ tickslock \notin Slot /\ None \notin Cpu /\ Victims \subseteq Slot
      /\ 1 \in Slot /\ 1 \in 1 .. NPROC + 1
      /\ \A i \in Slot : i < NPROC => i + 1 \in Slot
      /\ \A i \in 1 .. NPROC + 1 : i <= NPROC => i \in Slot /\ i + 1 \in 1 .. NPROC + 1
      /\ \A i \in Int : i % UINT \in 0 .. UINT - 1
      /\ 0 \in 0 .. UINT - 1 /\ 0 \in 0 .. MaxN
  BY Constants DEF Thread, Lock
<1>1. ASSUME NEW c \in Cpu, sched_top(c) PROVE TypeCpu'
  <2>1. cpu[c] \in CpuRec /\ cpu \in [Cpu -> CpuRec]
    BY <1>0 DEF TypeOK, CpuRec
  <2>2. [cpu[c] EXCEPT !.intr = TRUE] \in CpuRec
    BY <2>1, CpuRecords, TRUE \in BOOLEAN
  <2>3. cpu' = [cpu EXCEPT ![c] = [cpu[c] EXCEPT !.intr = TRUE]]
    BY <1>1 DEF sched_top
  <2>. QED
    BY <2>1, <2>2, <2>3 DEF TypeCpu
<1>2. ASSUME NEW c \in Cpu, sched_skip(c) PROVE TypeCpu'
  BY <1>0, <1>2 DEF sched_skip, acquire_release, push_off, pop_off, TypeCpu, CpuRec,
     TypeOK, CpuInv, OwnPCs, TicksPCs, SchedPCs
<1>3. ASSUME NEW c \in Cpu, sched_run(c) PROVE TypeCpu'
  BY <1>0, <1>3 DEF sched_run, acquire, push_off, TypeCpu, CpuRec, TypeOK, CpuInv,
     OwnPCs, TicksPCs, SchedPCs
<1>4. ASSUME NEW c \in Cpu, sched_back(c) PROVE TypeCpu'
  BY <1>0, <1>4 DEF sched_back, release, pop_off, TypeCpu, CpuRec, TypeOK, CpuInv,
     OwnPCs, TicksPCs, SchedPCs
<1>5. ASSUME NEW c \in Cpu, sched_idle(c) PROVE TypeCpu'
  <2>1. cpu[c] \in CpuRec /\ cpu \in [Cpu -> CpuRec]
    BY <1>0 DEF TypeOK, CpuRec
  <2>2. [cpu[c] EXCEPT !.intr = TRUE] \in CpuRec
    BY <2>1, CpuRecords, TRUE \in BOOLEAN
  <2>3. cpu' = [cpu EXCEPT ![c] = [cpu[c] EXCEPT !.intr = TRUE]]
    BY <1>5 DEF sched_idle
  <2>. QED
    BY <2>1, <2>2, <2>3 DEF TypeCpu
<1>6. ASSUME NEW c \in Cpu, clockintr(c) PROVE TypeCpu'
  BY <1>0, <1>6 DEF clockintr, acquire, push_off, TypeCpu, CpuRec, TypeOK, CpuInv,
     OwnPCs, TicksPCs, SchedPCs
<1>7. ASSUME NEW c \in Cpu, wakeup(c) PROVE TypeCpu'
  BY <1>0, <1>7 DEF wakeup, acquire_release, push_off, pop_off, TypeCpu, CpuRec, TypeOK,
     CpuInv, OwnPCs, TicksPCs, SchedPCs
<1>8. ASSUME NEW c \in Cpu, clockintr_end(c) PROVE TypeCpu'
  BY <1>0, <1>8 DEF clockintr_end, release, pop_off, TypeCpu, CpuRec, TypeOK, CpuInv,
     OwnPCs, TicksPCs, SchedPCs
<1>9. ASSUME NEW c \in Cpu, trap_return(c) PROVE TypeCpu'
  <2>1. cpu[c] \in CpuRec /\ cpu \in [Cpu -> CpuRec]
    BY <1>0 DEF TypeOK, CpuRec
  <2>2. [cpu[c] EXCEPT !.intr = TRUE] \in CpuRec
    BY <2>1, CpuRecords, TRUE \in BOOLEAN
  <2>3. cpu' = [cpu EXCEPT ![c] = [cpu[c] EXCEPT !.intr = TRUE]]
    BY <1>9 DEF trap_return, usertrapret
  <2>. QED
    BY <2>1, <2>2, <2>3 DEF TypeCpu
<1>10. ASSUME NEW c \in Cpu, interrupt(c) PROVE TypeCpu'
  <2>1. cpu[c] \in CpuRec /\ cpu \in [Cpu -> CpuRec]
    BY <1>0 DEF TypeOK, CpuRec
  <2>2. [cpu[c] EXCEPT !.intr = FALSE] \in CpuRec
    BY <2>1, CpuRecords, FALSE \in BOOLEAN
  <2>3. cpu' = [cpu EXCEPT ![c] = [cpu[c] EXCEPT !.intr = FALSE]]
    BY <1>10 DEF interrupt
  <2>. QED
    BY <2>1, <2>2, <2>3 DEF TypeCpu
<1>11. ASSUME NEW c \in Cpu, NEW p \in Slot, sched(c, p) PROVE TypeCpu'
  BY <1>0, <1>11 DEF sched, TypeCpu, CpuRec, TypeOK, CpuInv, OwnPCs, TicksPCs, SchedPCs
<1>12. ASSUME NEW c \in Cpu, NEW p \in Slot, forkret(c, p) PROVE TypeCpu'
  <2>1. cpu[c] \in CpuRec /\ cpu[c].noff > 0
    BY <1>0, <1>12 DEF forkret, TypeOK, CpuRec, CpuInv, OwnPCs, TicksPCs
  <2>2. usertrapret(pop_off(cpu[c])) \in CpuRec
    BY <2>1, CpuRecords, TRUE \in BOOLEAN DEF usertrapret
  <2>. QED
    BY <1>0, <2>2, <1>12 DEF forkret, TypeCpu, TypeOK, CpuRec
<1>13. ASSUME NEW c \in Cpu, NEW p \in Slot, sys_sleep_return(c, p) PROVE TypeCpu'
  BY <1>0, <1>13 DEF sys_sleep_return, release, pop_off, TypeCpu, CpuRec, TypeOK, CpuInv,
     OwnPCs, TicksPCs, SchedPCs
<1>14. ASSUME NEW c \in Cpu, NEW p \in Slot, sys_sleep_again(c, p) PROVE TypeCpu'
  BY <1>0, <1>14 DEF sys_sleep_again, TypeCpu, CpuRec, TypeOK, CpuInv, OwnPCs, TicksPCs,
     SchedPCs
<1>15. ASSUME NEW c \in Cpu, NEW p \in Slot, sleep_lock(c, p) PROVE TypeCpu'
  BY <1>0, <1>15 DEF sleep_lock, acquire, push_off, TypeCpu, CpuRec, TypeOK, CpuInv,
     OwnPCs, TicksPCs, SchedPCs
<1>16. ASSUME NEW c \in Cpu, NEW p \in Slot, sleep_release(c, p) PROVE TypeCpu'
  BY <1>0, <1>16 DEF sleep_release, release, pop_off, TypeCpu, CpuRec, TypeOK, CpuInv,
     OwnPCs, TicksPCs, SchedPCs
<1>17. ASSUME NEW c \in Cpu, NEW p \in Slot, sleep_woken(c, p) PROVE TypeCpu'
  BY <1>0, <1>17 DEF sleep_woken, Resumed, pop_off, TypeCpu, CpuRec, TypeOK, CpuInv,
     OwnPCs, TicksPCs, SchedPCs
<1>18. ASSUME NEW c \in Cpu, NEW p \in Slot, sleep_relock(c, p) PROVE TypeCpu'
  BY <1>0, <1>18 DEF sleep_relock, acquire, push_off, TypeCpu, CpuRec, TypeOK, CpuInv,
     OwnPCs, TicksPCs, SchedPCs
<1>19. ASSUME NEW c \in Cpu, NEW p \in Slot, exit_killed(c, p) PROVE TypeCpu'
  <2>1. cpu[c] \in CpuRec /\ cpu \in [Cpu -> CpuRec]
    BY <1>0 DEF TypeOK, CpuRec
  <2>2. [cpu[c] EXCEPT !.intr = FALSE] \in CpuRec
    BY <2>1, CpuRecords, FALSE \in BOOLEAN
  <2>3. cpu' = [cpu EXCEPT ![c] = [cpu[c] EXCEPT !.intr = FALSE]]
    BY <1>19 DEF exit_killed
  <2>. QED
    BY <2>1, <2>2, <2>3 DEF TypeCpu
<1>20. ASSUME NEW c \in Cpu, NEW p \in Slot, exit(c, p) PROVE TypeCpu'
  BY <1>0, <1>20 DEF exit, acquire, push_off, TypeCpu, CpuRec, TypeOK, CpuInv, OwnPCs,
     TicksPCs, SchedPCs
<1>21. ASSUME NEW c \in Cpu, NEW p \in Slot, trap_process(c, p) PROVE TypeCpu'
  BY <1>0, <1>21 DEF trap_process, TypeCpu, CpuRec, TypeOK, CpuInv, OwnPCs, TicksPCs,
     SchedPCs
<1>22. ASSUME NEW c \in Cpu, NEW p \in Slot, yield(c, p) PROVE TypeCpu'
  BY <1>0, <1>22 DEF yield, acquire, push_off, TypeCpu, CpuRec, TypeOK, CpuInv, OwnPCs,
     TicksPCs, SchedPCs
<1>23. ASSUME NEW c \in Cpu, NEW p \in Slot, yield_return(c, p) PROVE TypeCpu'
  <2>1. cpu[c] \in CpuRec /\ cpu[c].noff > 0 /\ saved[p] \in BOOLEAN
    BY <1>0, <1>23 DEF yield_return, TypeOK, CpuRec, CpuInv, OwnPCs, TicksPCs
  <2>2. [cpu[c] EXCEPT !.intena = saved[p]] \in CpuRec /\ [cpu[c] EXCEPT !.intena = saved[p]].noff > 0
    BY <2>1, CpuRecords
  <2>3. Resumed(c, p) \in CpuRec
    BY <2>2, CpuRecords, TRUE \in BOOLEAN DEF Resumed
  <2>4. usertrapret(Resumed(c, p)) \in CpuRec
    BY <2>3, CpuRecords, TRUE \in BOOLEAN DEF usertrapret
  <2>. QED
    BY <1>0, <2>4, <1>23 DEF yield_return, TypeCpu, TypeOK, CpuRec
<1>24. ASSUME NEW c \in Cpu, NEW p \in Slot, sys_sleep(c, p) PROVE TypeCpu'
  BY <1>0, <1>24 DEF sys_sleep, acquire, push_off, TypeCpu, CpuRec, TypeOK, CpuInv,
     OwnPCs, TicksPCs, SchedPCs
<1>25. ASSUME NEW c \in Cpu, NEW p \in Slot, NEW q \in Victims, kill(c, p, q) PROVE TypeCpu'
  BY <1>0, <1>25 DEF kill, acquire_release, push_off, pop_off, TypeCpu, CpuRec, TypeOK,
     CpuInv, OwnPCs, TicksPCs, SchedPCs
<1>26. CASE UNCHANGED vars
  BY <1>26, <1>0 DEF vars, TypeCpu, TypeOK, CpuRec
<1>. QED
  BY <1>1, <1>2, <1>3, <1>4, <1>5, <1>6, <1>7, <1>8, <1>9, <1>10, <1>11, <1>12, <1>13,
     <1>14, <1>15, <1>16, <1>17, <1>18, <1>19, <1>20, <1>21, <1>22, <1>23, <1>24, <1>25,
     <1>26 DEF Next, Scheduler, Clock, Kernel

\* The threads and the cpus keep to each other.
LEMMA CurStep ==
    ASSUME TypeOK, CurInv, StateInv, LockInv, [Next]_vars
    PROVE  CurInv'
<1>0. /\ state \in [Slot -> {"RUNNABLE", "RUNNING", "SLEEPING", "ZOMBIE"}]
      /\ saved \in [Slot -> BOOLEAN] /\ lock \in [Lock -> Cpu \cup {None}]
      /\ cpu \in [Cpu -> [noff : 0 .. 2, intena : BOOLEAN, intr : BOOLEAN]]
      /\ cur \in [Cpu -> Thread] /\ \A c \in Cpu : cur[c] = c \/ cur[c] \in Slot
      /\ DOMAIN pc = Thread /\ DOMAIN ret = Thread
      /\ \A p \in Slot : pc[p] \in ProcPCs
      /\ \A c \in Cpu : pc[c] \in CpuPCs
      /\ idx \in [Cpu -> Slot] /\ widx \in 1 .. NPROC + 1
      /\ Thread = Slot \cup Cpu /\ Lock = Slot \cup {tickslock} /\ Slot \cap Cpu = {}
      /\ tickslock \notin Slot /\ None \notin Cpu /\ Victims \subseteq Slot
      /\ widx <= NPROC => widx \in Slot
  BY Constants DEF TypeOK, Thread, Lock
<1>1. ASSUME NEW c \in Cpu, sched_top(c) PROVE CurInv'
  BY <1>0, <1>1 DEF sched_top, Goto, CurInv, LockInv, StateInv, OnState, OffState,
     OwnPCs, TicksPCs, ProcPCs, CpuPCs, SchedPCs, TrapPCs
<1>2. ASSUME NEW c \in Cpu, sched_skip(c) PROVE CurInv'
  BY <1>0, <1>2 DEF sched_skip, acquire_release, Advance, Goto, CurInv, LockInv,
     StateInv, OnState, OffState, OwnPCs, TicksPCs, ProcPCs, CpuPCs, SchedPCs, TrapPCs
<1>3. ASSUME NEW c \in Cpu, sched_run(c) PROVE CurInv'
  BY <1>0, <1>3 DEF sched_run, acquire, Goto, CurInv, LockInv, StateInv, OnState,
     OffState, OwnPCs, TicksPCs, ProcPCs, CpuPCs, SchedPCs, TrapPCs
<1>4. ASSUME NEW c \in Cpu, sched_back(c) PROVE CurInv'
  BY <1>0, <1>4 DEF sched_back, release, Advance, Goto, CurInv, LockInv, StateInv,
     OnState, OffState, OwnPCs, TicksPCs, ProcPCs, CpuPCs, SchedPCs, TrapPCs
<1>5. ASSUME NEW c \in Cpu, sched_idle(c) PROVE CurInv'
  BY <1>0, <1>5 DEF sched_idle, Goto, CurInv, LockInv, StateInv, OnState, OffState,
     OwnPCs, TicksPCs, ProcPCs, CpuPCs, SchedPCs, TrapPCs
<1>6. ASSUME NEW c \in Cpu, clockintr(c) PROVE CurInv'
  BY <1>0, <1>6 DEF clockintr, acquire, Goto, CurInv, LockInv, StateInv, OnState,
     OffState, OwnPCs, TicksPCs, ProcPCs, CpuPCs, SchedPCs, TrapPCs
<1>7. ASSUME NEW c \in Cpu, wakeup(c) PROVE CurInv'
  BY <1>0, <1>7 DEF wakeup, acquire_release, CurInv, LockInv, StateInv, OnState,
     OffState, OwnPCs, TicksPCs, ProcPCs, CpuPCs, SchedPCs, TrapPCs
<1>8. ASSUME NEW c \in Cpu, clockintr_end(c) PROVE CurInv'
  BY <1>0, <1>8 DEF clockintr_end, release, Goto, CurInv, LockInv, StateInv, OnState,
     OffState, OwnPCs, TicksPCs, ProcPCs, CpuPCs, SchedPCs, TrapPCs
<1>9. ASSUME NEW c \in Cpu, trap_return(c) PROVE CurInv'
  BY <1>0, <1>9 DEF trap_return, Goto, CurInv, LockInv, StateInv, OnState, OffState,
     OwnPCs, TicksPCs, ProcPCs, CpuPCs, SchedPCs, TrapPCs
<1>10. ASSUME NEW c \in Cpu, interrupt(c) PROVE CurInv'
  BY <1>0, <1>10 DEF interrupt, devintr, Goto, CurInv, LockInv, StateInv, OnState,
     OffState, OwnPCs, TicksPCs, ProcPCs, CpuPCs, SchedPCs, TrapPCs
<1>11. ASSUME NEW c \in Cpu, NEW p \in Slot, sched(c, p) PROVE CurInv'
  BY <1>0, <1>11 DEF sched, Goto, CurInv, LockInv, StateInv, OnState, OffState, OwnPCs,
     TicksPCs, ProcPCs, CpuPCs, SchedPCs, TrapPCs
<1>12. ASSUME NEW c \in Cpu, NEW p \in Slot, forkret(c, p) PROVE CurInv'
  BY <1>0, <1>12 DEF forkret, Goto, CurInv, LockInv, StateInv, OnState, OffState, OwnPCs,
     TicksPCs, ProcPCs, CpuPCs, SchedPCs, TrapPCs
<1>13. ASSUME NEW c \in Cpu, NEW p \in Slot, sys_sleep_return(c, p) PROVE CurInv'
  BY <1>0, <1>13 DEF sys_sleep_return, release, Goto, CurInv, LockInv, StateInv, OnState,
     OffState, OwnPCs, TicksPCs, ProcPCs, CpuPCs, SchedPCs, TrapPCs
<1>14. ASSUME NEW c \in Cpu, NEW p \in Slot, sys_sleep_again(c, p) PROVE CurInv'
  BY <1>0, <1>14 DEF sys_sleep_again, Goto, CurInv, LockInv, StateInv, OnState, OffState,
     OwnPCs, TicksPCs, ProcPCs, CpuPCs, SchedPCs, TrapPCs
<1>15. ASSUME NEW c \in Cpu, NEW p \in Slot, sleep_lock(c, p) PROVE CurInv'
  BY <1>0, <1>15 DEF sleep_lock, acquire, Goto, CurInv, LockInv, StateInv, OnState,
     OffState, OwnPCs, TicksPCs, ProcPCs, CpuPCs, SchedPCs, TrapPCs
<1>16. ASSUME NEW c \in Cpu, NEW p \in Slot, sleep_release(c, p) PROVE CurInv'
  BY <1>0, <1>16 DEF sleep_release, release, Goto, CurInv, LockInv, StateInv, OnState,
     OffState, OwnPCs, TicksPCs, ProcPCs, CpuPCs, SchedPCs, TrapPCs
<1>17. ASSUME NEW c \in Cpu, NEW p \in Slot, sleep_woken(c, p) PROVE CurInv'
  BY <1>0, <1>17 DEF sleep_woken, Goto, CurInv, LockInv, StateInv, OnState, OffState,
     OwnPCs, TicksPCs, ProcPCs, CpuPCs, SchedPCs, TrapPCs
<1>18. ASSUME NEW c \in Cpu, NEW p \in Slot, sleep_relock(c, p) PROVE CurInv'
  BY <1>0, <1>18 DEF sleep_relock, acquire, Goto, CurInv, LockInv, StateInv, OnState,
     OffState, OwnPCs, TicksPCs, ProcPCs, CpuPCs, SchedPCs, TrapPCs
<1>19. ASSUME NEW c \in Cpu, NEW p \in Slot, exit_killed(c, p) PROVE CurInv'
  BY <1>0, <1>19 DEF exit_killed, Goto, CurInv, LockInv, StateInv, OnState, OffState,
     OwnPCs, TicksPCs, ProcPCs, CpuPCs, SchedPCs, TrapPCs
<1>20. ASSUME NEW c \in Cpu, NEW p \in Slot, exit(c, p) PROVE CurInv'
  BY <1>0, <1>20 DEF exit, acquire, Goto, CurInv, LockInv, StateInv, OnState, OffState,
     OwnPCs, TicksPCs, ProcPCs, CpuPCs, SchedPCs, TrapPCs
<1>21. ASSUME NEW c \in Cpu, NEW p \in Slot, trap_process(c, p) PROVE CurInv'
  BY <1>0, <1>21 DEF trap_process, Goto, CurInv, LockInv, StateInv, OnState, OffState,
     OwnPCs, TicksPCs, ProcPCs, CpuPCs, SchedPCs, TrapPCs
<1>22. ASSUME NEW c \in Cpu, NEW p \in Slot, yield(c, p) PROVE CurInv'
  BY <1>0, <1>22 DEF yield, acquire, Goto, CurInv, LockInv, StateInv, OnState, OffState,
     OwnPCs, TicksPCs, ProcPCs, CpuPCs, SchedPCs, TrapPCs
<1>23. ASSUME NEW c \in Cpu, NEW p \in Slot, yield_return(c, p) PROVE CurInv'
  BY <1>0, <1>23 DEF yield_return, Goto, CurInv, LockInv, StateInv, OnState, OffState,
     OwnPCs, TicksPCs, ProcPCs, CpuPCs, SchedPCs, TrapPCs
<1>24. ASSUME NEW c \in Cpu, NEW p \in Slot, sys_sleep(c, p) PROVE CurInv'
  BY <1>0, <1>24 DEF sys_sleep, acquire, Goto, CurInv, LockInv, StateInv, OnState,
     OffState, OwnPCs, TicksPCs, ProcPCs, CpuPCs, SchedPCs, TrapPCs
<1>25. ASSUME NEW c \in Cpu, NEW p \in Slot, NEW q \in Victims, kill(c, p, q) PROVE CurInv'
  BY <1>0, <1>25 DEF kill, acquire_release, CurInv, LockInv, StateInv, OnState, OffState,
     OwnPCs, TicksPCs, ProcPCs, CpuPCs, SchedPCs, TrapPCs
<1>26. CASE UNCHANGED vars
  BY <1>26 DEF vars, CurInv
<1>. QED
  BY <1>1, <1>2, <1>3, <1>4, <1>5, <1>6, <1>7, <1>8, <1>9, <1>10, <1>11, <1>12, <1>13,
     <1>14, <1>15, <1>16, <1>17, <1>18, <1>19, <1>20, <1>21, <1>22, <1>23, <1>24, <1>25,
     <1>26 DEF Next, Scheduler, Clock, Kernel

\* The state follows the control.
LEMMA StateStep ==
    ASSUME TypeOK, CurInv, StateInv, LockInv, CpuInv, RetInv, [Next]_vars
    PROVE  StateInv'
<1>0. /\ state \in [Slot -> {"RUNNABLE", "RUNNING", "SLEEPING", "ZOMBIE"}]
      /\ saved \in [Slot -> BOOLEAN] /\ lock \in [Lock -> Cpu \cup {None}]
      /\ cpu \in [Cpu -> [noff : 0 .. 2, intena : BOOLEAN, intr : BOOLEAN]]
      /\ cur \in [Cpu -> Thread] /\ \A c \in Cpu : cur[c] = c \/ cur[c] \in Slot
      /\ DOMAIN pc = Thread /\ DOMAIN ret = Thread
      /\ \A p \in Slot : pc[p] \in ProcPCs
      /\ \A c \in Cpu : pc[c] \in CpuPCs
      /\ idx \in [Cpu -> Slot] /\ widx \in 1 .. NPROC + 1
      /\ Thread = Slot \cup Cpu /\ Lock = Slot \cup {tickslock} /\ Slot \cap Cpu = {}
      /\ tickslock \notin Slot /\ None \notin Cpu /\ Victims \subseteq Slot
      /\ widx <= NPROC => widx \in Slot
  BY Constants DEF TypeOK, Thread, Lock
<1>1. ASSUME NEW c \in Cpu, sched_top(c) PROVE StateInv'
  BY <1>0, <1>1 DEF sched_top, Goto, StateInv, RetInv, CurInv, LockInv, OnState,
     OffState, OwnPCs, TicksPCs, ProcPCs, CpuPCs, SchedPCs, TrapPCs
<1>2. ASSUME NEW c \in Cpu, sched_skip(c) PROVE StateInv'
  BY <1>0, <1>2 DEF sched_skip, acquire_release, Advance, Goto, StateInv, RetInv, CurInv,
     LockInv, OnState, OffState, OwnPCs, TicksPCs, ProcPCs, CpuPCs, SchedPCs, TrapPCs
<1>3. ASSUME NEW c \in Cpu, sched_run(c) PROVE StateInv'
  BY <1>0, <1>3 DEF sched_run, acquire, Goto, StateInv, RetInv, CurInv, LockInv, OnState,
     OffState, OwnPCs, TicksPCs, ProcPCs, CpuPCs, SchedPCs, TrapPCs
<1>4. ASSUME NEW c \in Cpu, sched_back(c) PROVE StateInv'
  BY <1>0, <1>4 DEF sched_back, release, Advance, Goto, StateInv, RetInv, CurInv,
     LockInv, OnState, OffState, OwnPCs, TicksPCs, ProcPCs, CpuPCs, SchedPCs, TrapPCs
<1>5. ASSUME NEW c \in Cpu, sched_idle(c) PROVE StateInv'
  BY <1>0, <1>5 DEF sched_idle, Goto, StateInv, RetInv, CurInv, LockInv, OnState,
     OffState, OwnPCs, TicksPCs, ProcPCs, CpuPCs, SchedPCs, TrapPCs
<1>6. ASSUME NEW c \in Cpu, clockintr(c) PROVE StateInv'
  BY <1>0, <1>6 DEF clockintr, acquire, Goto, StateInv, RetInv, CurInv, LockInv, OnState,
     OffState, OwnPCs, TicksPCs, ProcPCs, CpuPCs, SchedPCs, TrapPCs
<1>7. ASSUME NEW c \in Cpu, wakeup(c) PROVE StateInv'
  BY <1>0, <1>7 DEF wakeup, acquire_release, StateInv, RetInv, CurInv, LockInv, OnState,
     OffState, OwnPCs, TicksPCs, ProcPCs, CpuPCs, SchedPCs, TrapPCs
<1>8. ASSUME NEW c \in Cpu, clockintr_end(c) PROVE StateInv'
  BY <1>0, <1>8 DEF clockintr_end, release, Goto, StateInv, RetInv, CurInv, LockInv,
     OnState, OffState, OwnPCs, TicksPCs, ProcPCs, CpuPCs, SchedPCs, TrapPCs
<1>9. ASSUME NEW c \in Cpu, trap_return(c) PROVE StateInv'
  BY <1>0, <1>9 DEF trap_return, Goto, StateInv, RetInv, CurInv, LockInv, OnState,
     OffState, OwnPCs, TicksPCs, ProcPCs, CpuPCs, SchedPCs, TrapPCs
<1>10. ASSUME NEW c \in Cpu, interrupt(c) PROVE StateInv'
  BY <1>0, <1>10, Interruptible DEF interrupt, devintr, Goto, StateInv, RetInv, CurInv,
     LockInv, OnState, OffState, OwnPCs, TicksPCs, ProcPCs, CpuPCs, SchedPCs, TrapPCs
<1>11. ASSUME NEW c \in Cpu, NEW p \in Slot, sched(c, p) PROVE StateInv'
  BY <1>0, <1>11 DEF sched, Goto, StateInv, RetInv, CurInv, LockInv, OnState, OffState,
     OwnPCs, TicksPCs, ProcPCs, CpuPCs, SchedPCs, TrapPCs
<1>12. ASSUME NEW c \in Cpu, NEW p \in Slot, forkret(c, p) PROVE StateInv'
  BY <1>0, <1>12 DEF forkret, Goto, StateInv, RetInv, CurInv, LockInv, OnState, OffState,
     OwnPCs, TicksPCs, ProcPCs, CpuPCs, SchedPCs, TrapPCs
<1>13. ASSUME NEW c \in Cpu, NEW p \in Slot, sys_sleep_return(c, p) PROVE StateInv'
  BY <1>0, <1>13 DEF sys_sleep_return, release, Goto, StateInv, RetInv, CurInv, LockInv,
     OnState, OffState, OwnPCs, TicksPCs, ProcPCs, CpuPCs, SchedPCs, TrapPCs
<1>14. ASSUME NEW c \in Cpu, NEW p \in Slot, sys_sleep_again(c, p) PROVE StateInv'
  BY <1>0, <1>14 DEF sys_sleep_again, Goto, StateInv, RetInv, CurInv, LockInv, OnState,
     OffState, OwnPCs, TicksPCs, ProcPCs, CpuPCs, SchedPCs, TrapPCs
<1>15. ASSUME NEW c \in Cpu, NEW p \in Slot, sleep_lock(c, p) PROVE StateInv'
  BY <1>0, <1>15 DEF sleep_lock, acquire, Goto, StateInv, RetInv, CurInv, LockInv,
     OnState, OffState, OwnPCs, TicksPCs, ProcPCs, CpuPCs, SchedPCs, TrapPCs
<1>16. ASSUME NEW c \in Cpu, NEW p \in Slot, sleep_release(c, p) PROVE StateInv'
  BY <1>0, <1>16 DEF sleep_release, release, Goto, StateInv, RetInv, CurInv, LockInv,
     OnState, OffState, OwnPCs, TicksPCs, ProcPCs, CpuPCs, SchedPCs, TrapPCs
<1>17. ASSUME NEW c \in Cpu, NEW p \in Slot, sleep_woken(c, p) PROVE StateInv'
  BY <1>0, <1>17 DEF sleep_woken, Goto, StateInv, RetInv, CurInv, LockInv, OnState,
     OffState, OwnPCs, TicksPCs, ProcPCs, CpuPCs, SchedPCs, TrapPCs
<1>18. ASSUME NEW c \in Cpu, NEW p \in Slot, sleep_relock(c, p) PROVE StateInv'
  BY <1>0, <1>18 DEF sleep_relock, acquire, Goto, StateInv, RetInv, CurInv, LockInv,
     OnState, OffState, OwnPCs, TicksPCs, ProcPCs, CpuPCs, SchedPCs, TrapPCs
<1>19. ASSUME NEW c \in Cpu, NEW p \in Slot, exit_killed(c, p) PROVE StateInv'
  BY <1>0, <1>19 DEF exit_killed, Goto, StateInv, RetInv, CurInv, LockInv, OnState,
     OffState, OwnPCs, TicksPCs, ProcPCs, CpuPCs, SchedPCs, TrapPCs
<1>20. ASSUME NEW c \in Cpu, NEW p \in Slot, exit(c, p) PROVE StateInv'
  BY <1>0, <1>20 DEF exit, acquire, Goto, StateInv, RetInv, CurInv, LockInv, OnState,
     OffState, OwnPCs, TicksPCs, ProcPCs, CpuPCs, SchedPCs, TrapPCs
<1>21. ASSUME NEW c \in Cpu, NEW p \in Slot, trap_process(c, p) PROVE StateInv'
  BY <1>0, <1>21 DEF trap_process, Goto, StateInv, RetInv, CurInv, LockInv, OnState,
     OffState, OwnPCs, TicksPCs, ProcPCs, CpuPCs, SchedPCs, TrapPCs
<1>22. ASSUME NEW c \in Cpu, NEW p \in Slot, yield(c, p) PROVE StateInv'
  BY <1>0, <1>22 DEF yield, acquire, Goto, StateInv, RetInv, CurInv, LockInv, OnState,
     OffState, OwnPCs, TicksPCs, ProcPCs, CpuPCs, SchedPCs, TrapPCs
<1>23. ASSUME NEW c \in Cpu, NEW p \in Slot, yield_return(c, p) PROVE StateInv'
  <2>1. pc'[p] \in {"user", "sl_relock", "x_acq"} /\ \A q \in Slot \ {p} : pc'[q] = pc[q]
    BY <1>0, <1>23 DEF yield_return, Goto, RetInv, TrapPCs
  <2>. QED
    BY <1>0, <2>1, <1>23 DEF yield_return, StateInv, OnState, OffState, CurInv, SchedPCs
<1>24. ASSUME NEW c \in Cpu, NEW p \in Slot, sys_sleep(c, p) PROVE StateInv'
  BY <1>0, <1>24 DEF sys_sleep, acquire, Goto, StateInv, RetInv, CurInv, LockInv,
     OnState, OffState, OwnPCs, TicksPCs, ProcPCs, CpuPCs, SchedPCs, TrapPCs
<1>25. ASSUME NEW c \in Cpu, NEW p \in Slot, NEW q \in Victims, kill(c, p, q) PROVE StateInv'
  BY <1>0, <1>25 DEF kill, acquire_release, StateInv, RetInv, CurInv, LockInv, OnState,
     OffState, OwnPCs, TicksPCs, ProcPCs, CpuPCs, SchedPCs, TrapPCs
<1>26. CASE UNCHANGED vars
  BY <1>26 DEF vars, StateInv, OnState, OffState
<1>. QED
  BY <1>1, <1>2, <1>3, <1>4, <1>5, <1>6, <1>7, <1>8, <1>9, <1>10, <1>11, <1>12, <1>13,
     <1>14, <1>15, <1>16, <1>17, <1>18, <1>19, <1>20, <1>21, <1>22, <1>23, <1>24, <1>25,
     <1>26 DEF Next, Scheduler, Clock, Kernel

\* Locks are taken when they are free and given up by their holder.
LEMMA LockStep ==
    ASSUME TypeOK, CurInv, StateInv, LockInv, CpuInv, RetInv, [Next]_vars
    PROVE  LockInv'
<1>0. /\ state \in [Slot -> {"RUNNABLE", "RUNNING", "SLEEPING", "ZOMBIE"}]
      /\ saved \in [Slot -> BOOLEAN] /\ lock \in [Lock -> Cpu \cup {None}]
      /\ cpu \in [Cpu -> [noff : 0 .. 2, intena : BOOLEAN, intr : BOOLEAN]]
      /\ cur \in [Cpu -> Thread] /\ \A c \in Cpu : cur[c] = c \/ cur[c] \in Slot
      /\ DOMAIN pc = Thread /\ DOMAIN ret = Thread
      /\ \A p \in Slot : pc[p] \in ProcPCs
      /\ \A c \in Cpu : pc[c] \in CpuPCs
      /\ idx \in [Cpu -> Slot] /\ widx \in 1 .. NPROC + 1
      /\ Thread = Slot \cup Cpu /\ Lock = Slot \cup {tickslock} /\ Slot \cap Cpu = {}
      /\ tickslock \notin Slot /\ None \notin Cpu /\ Victims \subseteq Slot
      /\ widx <= NPROC => widx \in Slot
  BY Constants DEF TypeOK, Thread, Lock
<1>1. ASSUME NEW c \in Cpu, sched_top(c) PROVE LockInv'
  BY <1>0, <1>1 DEF sched_top, Goto, LockInv, CurInv, StateInv, OnState, OffState,
     RetInv, OwnPCs, TicksPCs, ProcPCs, CpuPCs, SchedPCs, TrapPCs
<1>2. ASSUME NEW c \in Cpu, sched_skip(c) PROVE LockInv'
  BY <1>0, <1>2 DEF sched_skip, acquire_release, Advance, Goto, LockInv, CurInv,
     StateInv, OnState, OffState, RetInv, OwnPCs, TicksPCs, ProcPCs, CpuPCs, SchedPCs,
     TrapPCs
<1>3. ASSUME NEW c \in Cpu, sched_run(c) PROVE LockInv'
  BY <1>0, <1>3 DEF sched_run, acquire, Goto, LockInv, CurInv, StateInv, OnState,
     OffState, RetInv, OwnPCs, TicksPCs, ProcPCs, CpuPCs, SchedPCs, TrapPCs
<1>4. ASSUME NEW c \in Cpu, sched_back(c) PROVE LockInv'
  BY <1>0, <1>4 DEF sched_back, release, Advance, Goto, LockInv, CurInv, StateInv,
     OnState, OffState, RetInv, OwnPCs, TicksPCs, ProcPCs, CpuPCs, SchedPCs, TrapPCs
<1>5. ASSUME NEW c \in Cpu, sched_idle(c) PROVE LockInv'
  BY <1>0, <1>5 DEF sched_idle, Goto, LockInv, CurInv, StateInv, OnState, OffState,
     RetInv, OwnPCs, TicksPCs, ProcPCs, CpuPCs, SchedPCs, TrapPCs
<1>6. ASSUME NEW c \in Cpu, clockintr(c) PROVE LockInv'
  BY <1>0, <1>6 DEF clockintr, acquire, Goto, LockInv, CurInv, StateInv, OnState,
     OffState, RetInv, OwnPCs, TicksPCs, ProcPCs, CpuPCs, SchedPCs, TrapPCs
<1>7. ASSUME NEW c \in Cpu, wakeup(c) PROVE LockInv'
  BY <1>0, <1>7 DEF wakeup, acquire_release, LockInv, CurInv, StateInv, OnState,
     OffState, RetInv, OwnPCs, TicksPCs, ProcPCs, CpuPCs, SchedPCs, TrapPCs
<1>8. ASSUME NEW c \in Cpu, clockintr_end(c) PROVE LockInv'
  BY <1>0, <1>8 DEF clockintr_end, release, Goto, LockInv, CurInv, StateInv, OnState,
     OffState, RetInv, OwnPCs, TicksPCs, ProcPCs, CpuPCs, SchedPCs, TrapPCs
<1>9. ASSUME NEW c \in Cpu, trap_return(c) PROVE LockInv'
  BY <1>0, <1>9 DEF trap_return, Goto, LockInv, CurInv, StateInv, OnState, OffState,
     RetInv, OwnPCs, TicksPCs, ProcPCs, CpuPCs, SchedPCs, TrapPCs
<1>10. ASSUME NEW c \in Cpu, interrupt(c) PROVE LockInv'
  <2>1. /\ pc[cur[c]] \notin OwnPCs \cup TicksPCs \cup {"back"}
        /\ pc'[cur[c]] \notin OwnPCs \cup TicksPCs \cup {"back"}
        /\ \A t \in Thread \ {cur[c]} : pc'[t] = pc[t]
    BY <1>0, <1>10, Interruptible DEF interrupt, devintr, Goto, OwnPCs, TicksPCs, SchedPCs
  <2>2. \A d \in Cpu \ {c} : cur[d] # cur[c] /\ d # cur[c]
    BY <1>0, <1>10, Interruptible DEF CurInv
  <2>. QED
    BY <1>0, <2>1, <2>2, <1>10 DEF interrupt, LockInv
<1>11. ASSUME NEW c \in Cpu, NEW p \in Slot, sched(c, p) PROVE LockInv'
  BY <1>0, <1>11 DEF sched, Goto, LockInv, CurInv, StateInv, OnState, OffState, RetInv,
     OwnPCs, TicksPCs, ProcPCs, CpuPCs, SchedPCs, TrapPCs
<1>12. ASSUME NEW c \in Cpu, NEW p \in Slot, forkret(c, p) PROVE LockInv'
  BY <1>0, <1>12 DEF forkret, Goto, LockInv, CurInv, StateInv, OnState, OffState, RetInv,
     OwnPCs, TicksPCs, ProcPCs, CpuPCs, SchedPCs, TrapPCs
<1>13. ASSUME NEW c \in Cpu, NEW p \in Slot, sys_sleep_return(c, p) PROVE LockInv'
  BY <1>0, <1>13 DEF sys_sleep_return, release, Goto, LockInv, CurInv, StateInv, OnState,
     OffState, RetInv, OwnPCs, TicksPCs, ProcPCs, CpuPCs, SchedPCs, TrapPCs
<1>14. ASSUME NEW c \in Cpu, NEW p \in Slot, sys_sleep_again(c, p) PROVE LockInv'
  BY <1>0, <1>14 DEF sys_sleep_again, Goto, LockInv, CurInv, StateInv, OnState, OffState,
     RetInv, OwnPCs, TicksPCs, ProcPCs, CpuPCs, SchedPCs, TrapPCs
<1>15. ASSUME NEW c \in Cpu, NEW p \in Slot, sleep_lock(c, p) PROVE LockInv'
  BY <1>0, <1>15 DEF sleep_lock, acquire, Goto, LockInv, CurInv, StateInv, OnState,
     OffState, RetInv, OwnPCs, TicksPCs, ProcPCs, CpuPCs, SchedPCs, TrapPCs
<1>16. ASSUME NEW c \in Cpu, NEW p \in Slot, sleep_release(c, p) PROVE LockInv'
  BY <1>0, <1>16 DEF sleep_release, release, Goto, LockInv, CurInv, StateInv, OnState,
     OffState, RetInv, OwnPCs, TicksPCs, ProcPCs, CpuPCs, SchedPCs, TrapPCs
<1>17. ASSUME NEW c \in Cpu, NEW p \in Slot, sleep_woken(c, p) PROVE LockInv'
  BY <1>0, <1>17 DEF sleep_woken, Goto, LockInv, CurInv, StateInv, OnState, OffState,
     RetInv, OwnPCs, TicksPCs, ProcPCs, CpuPCs, SchedPCs, TrapPCs
<1>18. ASSUME NEW c \in Cpu, NEW p \in Slot, sleep_relock(c, p) PROVE LockInv'
  BY <1>0, <1>18 DEF sleep_relock, acquire, Goto, LockInv, CurInv, StateInv, OnState,
     OffState, RetInv, OwnPCs, TicksPCs, ProcPCs, CpuPCs, SchedPCs, TrapPCs
<1>19. ASSUME NEW c \in Cpu, NEW p \in Slot, exit_killed(c, p) PROVE LockInv'
  BY <1>0, <1>19 DEF exit_killed, Goto, LockInv, CurInv, StateInv, OnState, OffState,
     RetInv, OwnPCs, TicksPCs, ProcPCs, CpuPCs, SchedPCs, TrapPCs
<1>20. ASSUME NEW c \in Cpu, NEW p \in Slot, exit(c, p) PROVE LockInv'
  BY <1>0, <1>20 DEF exit, acquire, Goto, LockInv, CurInv, StateInv, OnState, OffState,
     RetInv, OwnPCs, TicksPCs, ProcPCs, CpuPCs, SchedPCs, TrapPCs
<1>21. ASSUME NEW c \in Cpu, NEW p \in Slot, trap_process(c, p) PROVE LockInv'
  BY <1>0, <1>21 DEF trap_process, Goto, LockInv, CurInv, StateInv, OnState, OffState,
     RetInv, OwnPCs, TicksPCs, ProcPCs, CpuPCs, SchedPCs, TrapPCs
<1>22. ASSUME NEW c \in Cpu, NEW p \in Slot, yield(c, p) PROVE LockInv'
  BY <1>0, <1>22 DEF yield, acquire, Goto, LockInv, CurInv, StateInv, OnState, OffState,
     RetInv, OwnPCs, TicksPCs, ProcPCs, CpuPCs, SchedPCs, TrapPCs
<1>23. ASSUME NEW c \in Cpu, NEW p \in Slot, yield_return(c, p) PROVE LockInv'
  BY <1>0, <1>23 DEF yield_return, Goto, LockInv, CurInv, StateInv, OnState, OffState,
     RetInv, OwnPCs, TicksPCs, ProcPCs, CpuPCs, SchedPCs, TrapPCs
<1>24. ASSUME NEW c \in Cpu, NEW p \in Slot, sys_sleep(c, p) PROVE LockInv'
  BY <1>0, <1>24 DEF sys_sleep, acquire, Goto, LockInv, CurInv, StateInv, OnState,
     OffState, RetInv, OwnPCs, TicksPCs, ProcPCs, CpuPCs, SchedPCs, TrapPCs
<1>25. ASSUME NEW c \in Cpu, NEW p \in Slot, NEW q \in Victims, kill(c, p, q) PROVE LockInv'
  BY <1>0, <1>25 DEF kill, acquire_release, LockInv, CurInv, StateInv, OnState, OffState,
     RetInv, OwnPCs, TicksPCs, ProcPCs, CpuPCs, SchedPCs, TrapPCs
<1>26. CASE UNCHANGED vars
  BY <1>26 DEF vars, LockInv
<1>. QED
  BY <1>1, <1>2, <1>3, <1>4, <1>5, <1>6, <1>7, <1>8, <1>9, <1>10, <1>11, <1>12, <1>13,
     <1>14, <1>15, <1>16, <1>17, <1>18, <1>19, <1>20, <1>21, <1>22, <1>23, <1>24, <1>25,
     <1>26 DEF Next, Scheduler, Clock, Kernel

\* Interrupts and locks go together.
LEMMA CpuStep ==
    ASSUME TypeOK, CurInv, StateInv, CpuInv, SavedInv, RetInv, [Next]_vars
    PROVE  CpuInv'
<1>0. /\ state \in [Slot -> {"RUNNABLE", "RUNNING", "SLEEPING", "ZOMBIE"}]
      /\ saved \in [Slot -> BOOLEAN] /\ lock \in [Lock -> Cpu \cup {None}]
      /\ cpu \in [Cpu -> [noff : 0 .. 2, intena : BOOLEAN, intr : BOOLEAN]]
      /\ cur \in [Cpu -> Thread] /\ \A c \in Cpu : cur[c] = c \/ cur[c] \in Slot
      /\ DOMAIN pc = Thread /\ DOMAIN ret = Thread
      /\ \A p \in Slot : pc[p] \in ProcPCs
      /\ \A c \in Cpu : pc[c] \in CpuPCs
      /\ idx \in [Cpu -> Slot] /\ widx \in 1 .. NPROC + 1
      /\ Thread = Slot \cup Cpu /\ Lock = Slot \cup {tickslock} /\ Slot \cap Cpu = {}
      /\ tickslock \notin Slot /\ None \notin Cpu /\ Victims \subseteq Slot
      /\ widx <= NPROC => widx \in Slot
  BY Constants DEF TypeOK, Thread, Lock
<1>1. ASSUME NEW c \in Cpu, sched_top(c) PROVE CpuInv'
  BY <1>0, <1>1 DEF sched_top, Goto, CpuInv, CurInv, StateInv, OnState, OffState,
     SavedInv, RetInv, OwnPCs, TicksPCs, ProcPCs, CpuPCs, SchedPCs, TrapPCs
<1>2. ASSUME NEW c \in Cpu, sched_skip(c) PROVE CpuInv'
  BY <1>0, <1>2 DEF sched_skip, acquire_release, push_off, pop_off, Advance, Goto,
     CpuInv, CurInv, StateInv, OnState, OffState, SavedInv, RetInv, OwnPCs, TicksPCs,
     ProcPCs, CpuPCs, SchedPCs, TrapPCs
<1>3. ASSUME NEW c \in Cpu, sched_run(c) PROVE CpuInv'
  BY <1>0, <1>3 DEF sched_run, acquire, push_off, Goto, CpuInv, CurInv, StateInv,
     OnState, OffState, SavedInv, RetInv, OwnPCs, TicksPCs, ProcPCs, CpuPCs, SchedPCs,
     TrapPCs
<1>4. ASSUME NEW c \in Cpu, sched_back(c) PROVE CpuInv'
  BY <1>0, <1>4 DEF sched_back, release, pop_off, Advance, Goto, CpuInv, CurInv,
     StateInv, OnState, OffState, SavedInv, RetInv, OwnPCs, TicksPCs, ProcPCs, CpuPCs,
     SchedPCs, TrapPCs
<1>5. ASSUME NEW c \in Cpu, sched_idle(c) PROVE CpuInv'
  BY <1>0, <1>5 DEF sched_idle, Goto, CpuInv, CurInv, StateInv, OnState, OffState,
     SavedInv, RetInv, OwnPCs, TicksPCs, ProcPCs, CpuPCs, SchedPCs, TrapPCs
<1>6. ASSUME NEW c \in Cpu, clockintr(c) PROVE CpuInv'
  BY <1>0, <1>6 DEF clockintr, acquire, push_off, Goto, CpuInv, CurInv, StateInv,
     OnState, OffState, SavedInv, RetInv, OwnPCs, TicksPCs, ProcPCs, CpuPCs, SchedPCs,
     TrapPCs
<1>7. ASSUME NEW c \in Cpu, wakeup(c) PROVE CpuInv'
  BY <1>0, <1>7 DEF wakeup, acquire_release, push_off, pop_off, CpuInv, CurInv, StateInv,
     OnState, OffState, SavedInv, RetInv, OwnPCs, TicksPCs, ProcPCs, CpuPCs, SchedPCs,
     TrapPCs
<1>8. ASSUME NEW c \in Cpu, clockintr_end(c) PROVE CpuInv'
  BY <1>0, <1>8 DEF clockintr_end, release, pop_off, Goto, CpuInv, CurInv, StateInv,
     OnState, OffState, SavedInv, RetInv, OwnPCs, TicksPCs, ProcPCs, CpuPCs, SchedPCs,
     TrapPCs
<1>9. ASSUME NEW c \in Cpu, trap_return(c) PROVE CpuInv'
  BY <1>0, <1>9 DEF trap_return, usertrapret, Goto, CpuInv, CurInv, StateInv, OnState,
     OffState, SavedInv, RetInv, OwnPCs, TicksPCs, ProcPCs, CpuPCs, SchedPCs, TrapPCs
<1>10. ASSUME NEW c \in Cpu, interrupt(c) PROVE CpuInv'
  BY <1>0, <1>10, Interruptible DEF interrupt, devintr, Goto, CpuInv, CurInv, StateInv,
     OnState, OffState, SavedInv, RetInv, OwnPCs, TicksPCs, ProcPCs, CpuPCs, SchedPCs,
     TrapPCs
<1>11. ASSUME NEW c \in Cpu, NEW p \in Slot, sched(c, p) PROVE CpuInv'
  BY <1>0, <1>11 DEF sched, Goto, CpuInv, CurInv, StateInv, OnState, OffState, SavedInv,
     RetInv, OwnPCs, TicksPCs, ProcPCs, CpuPCs, SchedPCs, TrapPCs
<1>12. ASSUME NEW c \in Cpu, NEW p \in Slot, forkret(c, p) PROVE CpuInv'
  BY <1>0, <1>12 DEF forkret, usertrapret, pop_off, Goto, CpuInv, CurInv, StateInv,
     OnState, OffState, SavedInv, RetInv, OwnPCs, TicksPCs, ProcPCs, CpuPCs, SchedPCs,
     TrapPCs
<1>13. ASSUME NEW c \in Cpu, NEW p \in Slot, sys_sleep_return(c, p) PROVE CpuInv'
  BY <1>0, <1>13 DEF sys_sleep_return, release, pop_off, Goto, CpuInv, CurInv, StateInv,
     OnState, OffState, SavedInv, RetInv, OwnPCs, TicksPCs, ProcPCs, CpuPCs, SchedPCs,
     TrapPCs
<1>14. ASSUME NEW c \in Cpu, NEW p \in Slot, sys_sleep_again(c, p) PROVE CpuInv'
  BY <1>0, <1>14 DEF sys_sleep_again, Goto, CpuInv, CurInv, StateInv, OnState, OffState,
     SavedInv, RetInv, OwnPCs, TicksPCs, ProcPCs, CpuPCs, SchedPCs, TrapPCs
<1>15. ASSUME NEW c \in Cpu, NEW p \in Slot, sleep_lock(c, p) PROVE CpuInv'
  BY <1>0, <1>15 DEF sleep_lock, acquire, push_off, Goto, CpuInv, CurInv, StateInv,
     OnState, OffState, SavedInv, RetInv, OwnPCs, TicksPCs, ProcPCs, CpuPCs, SchedPCs,
     TrapPCs
<1>16. ASSUME NEW c \in Cpu, NEW p \in Slot, sleep_release(c, p) PROVE CpuInv'
  BY <1>0, <1>16 DEF sleep_release, release, pop_off, Goto, CpuInv, CurInv, StateInv,
     OnState, OffState, SavedInv, RetInv, OwnPCs, TicksPCs, ProcPCs, CpuPCs, SchedPCs,
     TrapPCs
<1>17. ASSUME NEW c \in Cpu, NEW p \in Slot, sleep_woken(c, p) PROVE CpuInv'
  BY <1>0, <1>17 DEF sleep_woken, Resumed, pop_off, Goto, CpuInv, CurInv, StateInv,
     OnState, OffState, SavedInv, RetInv, OwnPCs, TicksPCs, ProcPCs, CpuPCs, SchedPCs,
     TrapPCs
<1>18. ASSUME NEW c \in Cpu, NEW p \in Slot, sleep_relock(c, p) PROVE CpuInv'
  BY <1>0, <1>18 DEF sleep_relock, acquire, push_off, Goto, CpuInv, CurInv, StateInv,
     OnState, OffState, SavedInv, RetInv, OwnPCs, TicksPCs, ProcPCs, CpuPCs, SchedPCs,
     TrapPCs
<1>19. ASSUME NEW c \in Cpu, NEW p \in Slot, exit_killed(c, p) PROVE CpuInv'
  BY <1>0, <1>19 DEF exit_killed, Goto, CpuInv, CurInv, StateInv, OnState, OffState,
     SavedInv, RetInv, OwnPCs, TicksPCs, ProcPCs, CpuPCs, SchedPCs, TrapPCs
<1>20. ASSUME NEW c \in Cpu, NEW p \in Slot, exit(c, p) PROVE CpuInv'
  BY <1>0, <1>20 DEF exit, acquire, push_off, Goto, CpuInv, CurInv, StateInv, OnState,
     OffState, SavedInv, RetInv, OwnPCs, TicksPCs, ProcPCs, CpuPCs, SchedPCs, TrapPCs
<1>21. ASSUME NEW c \in Cpu, NEW p \in Slot, trap_process(c, p) PROVE CpuInv'
  BY <1>0, <1>21 DEF trap_process, Goto, CpuInv, CurInv, StateInv, OnState, OffState,
     SavedInv, RetInv, OwnPCs, TicksPCs, ProcPCs, CpuPCs, SchedPCs, TrapPCs
<1>22. ASSUME NEW c \in Cpu, NEW p \in Slot, yield(c, p) PROVE CpuInv'
  BY <1>0, <1>22 DEF yield, acquire, push_off, Goto, CpuInv, CurInv, StateInv, OnState,
     OffState, SavedInv, RetInv, OwnPCs, TicksPCs, ProcPCs, CpuPCs, SchedPCs, TrapPCs
<1>23. ASSUME NEW c \in Cpu, NEW p \in Slot, yield_return(c, p) PROVE CpuInv'
  BY <1>0, <1>23 DEF yield_return, Resumed, usertrapret, pop_off, Goto, CpuInv, CurInv,
     StateInv, OnState, OffState, SavedInv, RetInv, OwnPCs, TicksPCs, ProcPCs, CpuPCs,
     SchedPCs, TrapPCs
<1>24. ASSUME NEW c \in Cpu, NEW p \in Slot, sys_sleep(c, p) PROVE CpuInv'
  BY <1>0, <1>24 DEF sys_sleep, acquire, push_off, Goto, CpuInv, CurInv, StateInv,
     OnState, OffState, SavedInv, RetInv, OwnPCs, TicksPCs, ProcPCs, CpuPCs, SchedPCs,
     TrapPCs
<1>25. ASSUME NEW c \in Cpu, NEW p \in Slot, NEW q \in Victims, kill(c, p, q) PROVE CpuInv'
  BY <1>0, <1>25 DEF kill, acquire_release, push_off, pop_off, CpuInv, CurInv, StateInv,
     OnState, OffState, SavedInv, RetInv, OwnPCs, TicksPCs, ProcPCs, CpuPCs, SchedPCs,
     TrapPCs
<1>26. CASE UNCHANGED vars
  BY <1>26 DEF vars, CpuInv
<1>. QED
  BY <1>1, <1>2, <1>3, <1>4, <1>5, <1>6, <1>7, <1>8, <1>9, <1>10, <1>11, <1>12, <1>13,
     <1>14, <1>15, <1>16, <1>17, <1>18, <1>19, <1>20, <1>21, <1>22, <1>23, <1>24, <1>25,
     <1>26 DEF Next, Scheduler, Clock, Kernel

\* What sched() keeps.
LEMMA SavedStep ==
    ASSUME TypeOK, CurInv, CpuInv, SavedInv, RetInv, [Next]_vars
    PROVE  SavedInv'
<1>0. /\ state \in [Slot -> {"RUNNABLE", "RUNNING", "SLEEPING", "ZOMBIE"}]
      /\ saved \in [Slot -> BOOLEAN] /\ lock \in [Lock -> Cpu \cup {None}]
      /\ cpu \in [Cpu -> [noff : 0 .. 2, intena : BOOLEAN, intr : BOOLEAN]]
      /\ cur \in [Cpu -> Thread] /\ \A c \in Cpu : cur[c] = c \/ cur[c] \in Slot
      /\ DOMAIN pc = Thread /\ DOMAIN ret = Thread
      /\ \A p \in Slot : pc[p] \in ProcPCs
      /\ \A c \in Cpu : pc[c] \in CpuPCs
      /\ idx \in [Cpu -> Slot] /\ widx \in 1 .. NPROC + 1
      /\ Thread = Slot \cup Cpu /\ Lock = Slot \cup {tickslock} /\ Slot \cap Cpu = {}
      /\ tickslock \notin Slot /\ None \notin Cpu /\ Victims \subseteq Slot
      /\ widx <= NPROC => widx \in Slot
  BY Constants DEF TypeOK, Thread, Lock
<1>1. ASSUME NEW c \in Cpu, sched_top(c) PROVE SavedInv'
  BY <1>0, <1>1 DEF sched_top, Goto, SavedInv, CpuInv, CurInv, RetInv, ProcPCs, CpuPCs,
     SchedPCs, TrapPCs
<1>2. ASSUME NEW c \in Cpu, sched_skip(c) PROVE SavedInv'
  BY <1>0, <1>2 DEF sched_skip, Advance, Goto, SavedInv, CpuInv, CurInv, RetInv, ProcPCs,
     CpuPCs, SchedPCs, TrapPCs
<1>3. ASSUME NEW c \in Cpu, sched_run(c) PROVE SavedInv'
  BY <1>0, <1>3 DEF sched_run, Goto, SavedInv, CpuInv, CurInv, RetInv, ProcPCs, CpuPCs,
     SchedPCs, TrapPCs
<1>4. ASSUME NEW c \in Cpu, sched_back(c) PROVE SavedInv'
  BY <1>0, <1>4 DEF sched_back, Advance, Goto, SavedInv, CpuInv, CurInv, RetInv, ProcPCs,
     CpuPCs, SchedPCs, TrapPCs
<1>5. ASSUME NEW c \in Cpu, sched_idle(c) PROVE SavedInv'
  BY <1>0, <1>5 DEF sched_idle, Goto, SavedInv, CpuInv, CurInv, RetInv, ProcPCs, CpuPCs,
     SchedPCs, TrapPCs
<1>6. ASSUME NEW c \in Cpu, clockintr(c) PROVE SavedInv'
  BY <1>0, <1>6 DEF clockintr, Goto, SavedInv, CpuInv, CurInv, RetInv, ProcPCs, CpuPCs,
     SchedPCs, TrapPCs
<1>7. ASSUME NEW c \in Cpu, wakeup(c) PROVE SavedInv'
  BY <1>0, <1>7 DEF wakeup, SavedInv, CpuInv, CurInv, RetInv, ProcPCs, CpuPCs, SchedPCs,
     TrapPCs
<1>8. ASSUME NEW c \in Cpu, clockintr_end(c) PROVE SavedInv'
  BY <1>0, <1>8 DEF clockintr_end, Goto, SavedInv, CpuInv, CurInv, RetInv, ProcPCs,
     CpuPCs, SchedPCs, TrapPCs
<1>9. ASSUME NEW c \in Cpu, trap_return(c) PROVE SavedInv'
  BY <1>0, <1>9 DEF trap_return, Goto, SavedInv, CpuInv, CurInv, RetInv, ProcPCs, CpuPCs,
     SchedPCs, TrapPCs
<1>10. ASSUME NEW c \in Cpu, interrupt(c) PROVE SavedInv'
  BY <1>0, <1>10 DEF interrupt, devintr, Goto, SavedInv, CpuInv, CurInv, RetInv, ProcPCs,
     CpuPCs, SchedPCs, TrapPCs
<1>11. ASSUME NEW c \in Cpu, NEW p \in Slot, sched(c, p) PROVE SavedInv'
  BY <1>0, <1>11 DEF sched, Goto, SavedInv, CpuInv, CurInv, RetInv, ProcPCs, CpuPCs,
     SchedPCs, TrapPCs
<1>12. ASSUME NEW c \in Cpu, NEW p \in Slot, forkret(c, p) PROVE SavedInv'
  BY <1>0, <1>12 DEF forkret, Goto, SavedInv, CpuInv, CurInv, RetInv, ProcPCs, CpuPCs,
     SchedPCs, TrapPCs
<1>13. ASSUME NEW c \in Cpu, NEW p \in Slot, sys_sleep_return(c, p) PROVE SavedInv'
  BY <1>0, <1>13 DEF sys_sleep_return, Goto, SavedInv, CpuInv, CurInv, RetInv, ProcPCs,
     CpuPCs, SchedPCs, TrapPCs
<1>14. ASSUME NEW c \in Cpu, NEW p \in Slot, sys_sleep_again(c, p) PROVE SavedInv'
  BY <1>0, <1>14 DEF sys_sleep_again, Goto, SavedInv, CpuInv, CurInv, RetInv, ProcPCs,
     CpuPCs, SchedPCs, TrapPCs
<1>15. ASSUME NEW c \in Cpu, NEW p \in Slot, sleep_lock(c, p) PROVE SavedInv'
  BY <1>0, <1>15 DEF sleep_lock, Goto, SavedInv, CpuInv, CurInv, RetInv, ProcPCs, CpuPCs,
     SchedPCs, TrapPCs
<1>16. ASSUME NEW c \in Cpu, NEW p \in Slot, sleep_release(c, p) PROVE SavedInv'
  BY <1>0, <1>16 DEF sleep_release, Goto, SavedInv, CpuInv, CurInv, RetInv, ProcPCs,
     CpuPCs, SchedPCs, TrapPCs
<1>17. ASSUME NEW c \in Cpu, NEW p \in Slot, sleep_woken(c, p) PROVE SavedInv'
  BY <1>0, <1>17 DEF sleep_woken, Goto, SavedInv, CpuInv, CurInv, RetInv, ProcPCs,
     CpuPCs, SchedPCs, TrapPCs
<1>18. ASSUME NEW c \in Cpu, NEW p \in Slot, sleep_relock(c, p) PROVE SavedInv'
  BY <1>0, <1>18 DEF sleep_relock, Goto, SavedInv, CpuInv, CurInv, RetInv, ProcPCs,
     CpuPCs, SchedPCs, TrapPCs
<1>19. ASSUME NEW c \in Cpu, NEW p \in Slot, exit_killed(c, p) PROVE SavedInv'
  BY <1>0, <1>19 DEF exit_killed, Goto, SavedInv, CpuInv, CurInv, RetInv, ProcPCs,
     CpuPCs, SchedPCs, TrapPCs
<1>20. ASSUME NEW c \in Cpu, NEW p \in Slot, exit(c, p) PROVE SavedInv'
  BY <1>0, <1>20 DEF exit, Goto, SavedInv, CpuInv, CurInv, RetInv, ProcPCs, CpuPCs,
     SchedPCs, TrapPCs
<1>21. ASSUME NEW c \in Cpu, NEW p \in Slot, trap_process(c, p) PROVE SavedInv'
  BY <1>0, <1>21 DEF trap_process, Goto, SavedInv, CpuInv, CurInv, RetInv, ProcPCs,
     CpuPCs, SchedPCs, TrapPCs
<1>22. ASSUME NEW c \in Cpu, NEW p \in Slot, yield(c, p) PROVE SavedInv'
  BY <1>0, <1>22 DEF yield, Goto, SavedInv, CpuInv, CurInv, RetInv, ProcPCs, CpuPCs,
     SchedPCs, TrapPCs
<1>23. ASSUME NEW c \in Cpu, NEW p \in Slot, yield_return(c, p) PROVE SavedInv'
  BY <1>0, <1>23 DEF yield_return, Goto, SavedInv, CpuInv, CurInv, RetInv, ProcPCs,
     CpuPCs, SchedPCs, TrapPCs
<1>24. ASSUME NEW c \in Cpu, NEW p \in Slot, sys_sleep(c, p) PROVE SavedInv'
  BY <1>0, <1>24 DEF sys_sleep, Goto, SavedInv, CpuInv, CurInv, RetInv, ProcPCs, CpuPCs,
     SchedPCs, TrapPCs
<1>25. ASSUME NEW c \in Cpu, NEW p \in Slot, NEW q \in Victims, kill(c, p, q) PROVE SavedInv'
  BY <1>0, <1>25 DEF kill, SavedInv, CpuInv, CurInv, RetInv, ProcPCs, CpuPCs, SchedPCs,
     TrapPCs
<1>26. CASE UNCHANGED vars
  BY <1>26 DEF vars, SavedInv
<1>. QED
  BY <1>1, <1>2, <1>3, <1>4, <1>5, <1>6, <1>7, <1>8, <1>9, <1>10, <1>11, <1>12, <1>13,
     <1>14, <1>15, <1>16, <1>17, <1>18, <1>19, <1>20, <1>21, <1>22, <1>23, <1>24, <1>25,
     <1>26 DEF Next, Scheduler, Clock, Kernel

\* Where traps return to.
LEMMA RetStep ==
    ASSUME TypeOK, CurInv, StateInv, CpuInv, RetInv, [Next]_vars
    PROVE  RetInv'
<1>0. /\ state \in [Slot -> {"RUNNABLE", "RUNNING", "SLEEPING", "ZOMBIE"}]
      /\ saved \in [Slot -> BOOLEAN] /\ lock \in [Lock -> Cpu \cup {None}]
      /\ cpu \in [Cpu -> [noff : 0 .. 2, intena : BOOLEAN, intr : BOOLEAN]]
      /\ cur \in [Cpu -> Thread] /\ \A c \in Cpu : cur[c] = c \/ cur[c] \in Slot
      /\ DOMAIN pc = Thread /\ DOMAIN ret = Thread
      /\ \A p \in Slot : pc[p] \in ProcPCs
      /\ \A c \in Cpu : pc[c] \in CpuPCs
      /\ idx \in [Cpu -> Slot] /\ widx \in 1 .. NPROC + 1
      /\ Thread = Slot \cup Cpu /\ Lock = Slot \cup {tickslock} /\ Slot \cap Cpu = {}
      /\ tickslock \notin Slot /\ None \notin Cpu /\ Victims \subseteq Slot
      /\ widx <= NPROC => widx \in Slot
  BY Constants DEF TypeOK, Thread, Lock
<1>1. ASSUME NEW c \in Cpu, sched_top(c) PROVE RetInv'
  BY <1>0, <1>1 DEF sched_top, Goto, RetInv, CpuInv, CurInv, OwnPCs, TicksPCs, ProcPCs,
     CpuPCs, SchedPCs, TrapPCs
<1>2. ASSUME NEW c \in Cpu, sched_skip(c) PROVE RetInv'
  BY <1>0, <1>2 DEF sched_skip, Advance, Goto, RetInv, CpuInv, CurInv, OwnPCs, TicksPCs,
     ProcPCs, CpuPCs, SchedPCs, TrapPCs
<1>3. ASSUME NEW c \in Cpu, sched_run(c) PROVE RetInv'
  BY <1>0, <1>3 DEF sched_run, Goto, RetInv, CpuInv, CurInv, OwnPCs, TicksPCs, ProcPCs,
     CpuPCs, SchedPCs, TrapPCs
<1>4. ASSUME NEW c \in Cpu, sched_back(c) PROVE RetInv'
  BY <1>0, <1>4 DEF sched_back, Advance, Goto, RetInv, CpuInv, CurInv, OwnPCs, TicksPCs,
     ProcPCs, CpuPCs, SchedPCs, TrapPCs
<1>5. ASSUME NEW c \in Cpu, sched_idle(c) PROVE RetInv'
  BY <1>0, <1>5 DEF sched_idle, Goto, RetInv, CpuInv, CurInv, OwnPCs, TicksPCs, ProcPCs,
     CpuPCs, SchedPCs, TrapPCs
<1>6. ASSUME NEW c \in Cpu, clockintr(c) PROVE RetInv'
  BY <1>0, <1>6 DEF clockintr, Goto, RetInv, CpuInv, CurInv, OwnPCs, TicksPCs, ProcPCs,
     CpuPCs, SchedPCs, TrapPCs
<1>7. ASSUME NEW c \in Cpu, wakeup(c) PROVE RetInv'
  BY <1>0, <1>7 DEF wakeup, RetInv, CpuInv, CurInv, OwnPCs, TicksPCs, ProcPCs, CpuPCs,
     SchedPCs, TrapPCs
<1>8. ASSUME NEW c \in Cpu, clockintr_end(c) PROVE RetInv'
  BY <1>0, <1>8 DEF clockintr_end, Goto, RetInv, CpuInv, CurInv, OwnPCs, TicksPCs,
     ProcPCs, CpuPCs, SchedPCs, TrapPCs
<1>9. ASSUME NEW c \in Cpu, trap_return(c) PROVE RetInv'
  BY <1>0, <1>9 DEF trap_return, Goto, RetInv, CpuInv, CurInv, OwnPCs, TicksPCs, ProcPCs,
     CpuPCs, SchedPCs, TrapPCs
<1>10. ASSUME NEW c \in Cpu, interrupt(c) PROVE RetInv'
  BY <1>0, <1>10, Interruptible DEF interrupt, devintr, Goto, RetInv, CpuInv, CurInv,
     OwnPCs, TicksPCs, ProcPCs, CpuPCs, SchedPCs, TrapPCs
<1>11. ASSUME NEW c \in Cpu, NEW p \in Slot, sched(c, p) PROVE RetInv'
  BY <1>0, <1>11 DEF sched, Goto, RetInv, CpuInv, CurInv, OwnPCs, TicksPCs, ProcPCs,
     CpuPCs, SchedPCs, TrapPCs
<1>12. ASSUME NEW c \in Cpu, NEW p \in Slot, forkret(c, p) PROVE RetInv'
  BY <1>0, <1>12 DEF forkret, Goto, RetInv, CpuInv, CurInv, OwnPCs, TicksPCs, ProcPCs,
     CpuPCs, SchedPCs, TrapPCs
<1>13. ASSUME NEW c \in Cpu, NEW p \in Slot, sys_sleep_return(c, p) PROVE RetInv'
  BY <1>0, <1>13 DEF sys_sleep_return, Goto, RetInv, CpuInv, CurInv, OwnPCs, TicksPCs,
     ProcPCs, CpuPCs, SchedPCs, TrapPCs
<1>14. ASSUME NEW c \in Cpu, NEW p \in Slot, sys_sleep_again(c, p) PROVE RetInv'
  BY <1>0, <1>14 DEF sys_sleep_again, Goto, RetInv, CpuInv, CurInv, OwnPCs, TicksPCs,
     ProcPCs, CpuPCs, SchedPCs, TrapPCs
<1>15. ASSUME NEW c \in Cpu, NEW p \in Slot, sleep_lock(c, p) PROVE RetInv'
  BY <1>0, <1>15 DEF sleep_lock, Goto, RetInv, CpuInv, CurInv, OwnPCs, TicksPCs, ProcPCs,
     CpuPCs, SchedPCs, TrapPCs
<1>16. ASSUME NEW c \in Cpu, NEW p \in Slot, sleep_release(c, p) PROVE RetInv'
  BY <1>0, <1>16 DEF sleep_release, Goto, RetInv, CpuInv, CurInv, OwnPCs, TicksPCs,
     ProcPCs, CpuPCs, SchedPCs, TrapPCs
<1>17. ASSUME NEW c \in Cpu, NEW p \in Slot, sleep_woken(c, p) PROVE RetInv'
  BY <1>0, <1>17 DEF sleep_woken, Goto, RetInv, CpuInv, CurInv, OwnPCs, TicksPCs,
     ProcPCs, CpuPCs, SchedPCs, TrapPCs
<1>18. ASSUME NEW c \in Cpu, NEW p \in Slot, sleep_relock(c, p) PROVE RetInv'
  BY <1>0, <1>18 DEF sleep_relock, Goto, RetInv, CpuInv, CurInv, OwnPCs, TicksPCs,
     ProcPCs, CpuPCs, SchedPCs, TrapPCs
<1>19. ASSUME NEW c \in Cpu, NEW p \in Slot, exit_killed(c, p) PROVE RetInv'
  BY <1>0, <1>19 DEF exit_killed, Goto, RetInv, CpuInv, CurInv, OwnPCs, TicksPCs,
     ProcPCs, CpuPCs, SchedPCs, TrapPCs
<1>20. ASSUME NEW c \in Cpu, NEW p \in Slot, exit(c, p) PROVE RetInv'
  BY <1>0, <1>20 DEF exit, Goto, RetInv, CpuInv, CurInv, OwnPCs, TicksPCs, ProcPCs,
     CpuPCs, SchedPCs, TrapPCs
<1>21. ASSUME NEW c \in Cpu, NEW p \in Slot, trap_process(c, p) PROVE RetInv'
  BY <1>0, <1>21 DEF trap_process, Goto, RetInv, CpuInv, CurInv, OwnPCs, TicksPCs,
     ProcPCs, CpuPCs, SchedPCs, TrapPCs
<1>22. ASSUME NEW c \in Cpu, NEW p \in Slot, yield(c, p) PROVE RetInv'
  BY <1>0, <1>22 DEF yield, Goto, RetInv, CpuInv, CurInv, OwnPCs, TicksPCs, ProcPCs,
     CpuPCs, SchedPCs, TrapPCs
<1>23. ASSUME NEW c \in Cpu, NEW p \in Slot, yield_return(c, p) PROVE RetInv'
  BY <1>0, <1>23 DEF yield_return, Goto, RetInv, CpuInv, CurInv, OwnPCs, TicksPCs,
     ProcPCs, CpuPCs, SchedPCs, TrapPCs
<1>24. ASSUME NEW c \in Cpu, NEW p \in Slot, sys_sleep(c, p) PROVE RetInv'
  BY <1>0, <1>24 DEF sys_sleep, Goto, RetInv, CpuInv, CurInv, OwnPCs, TicksPCs, ProcPCs,
     CpuPCs, SchedPCs, TrapPCs
<1>25. ASSUME NEW c \in Cpu, NEW p \in Slot, NEW q \in Victims, kill(c, p, q) PROVE RetInv'
  BY <1>0, <1>25 DEF kill, RetInv, CpuInv, CurInv, OwnPCs, TicksPCs, ProcPCs, CpuPCs,
     SchedPCs, TrapPCs
<1>26. CASE UNCHANGED vars
  BY <1>26 DEF vars, RetInv
<1>. QED
  BY <1>1, <1>2, <1>3, <1>4, <1>5, <1>6, <1>7, <1>8, <1>9, <1>10, <1>11, <1>12, <1>13,
     <1>14, <1>15, <1>16, <1>17, <1>18, <1>19, <1>20, <1>21, <1>22, <1>23, <1>24, <1>25,
     <1>26 DEF Next, Scheduler, Clock, Kernel

\* The test is good until the process sleeps.
LEMMA SleepStep ==
    ASSUME TypeOK, CurInv, StateInv, LockInv, RetInv, SleepInv, [Next]_vars
    PROVE  SleepInv'
<1>0. /\ state \in [Slot -> {"RUNNABLE", "RUNNING", "SLEEPING", "ZOMBIE"}]
      /\ saved \in [Slot -> BOOLEAN] /\ lock \in [Lock -> Cpu \cup {None}]
      /\ cpu \in [Cpu -> [noff : 0 .. 2, intena : BOOLEAN, intr : BOOLEAN]]
      /\ cur \in [Cpu -> Thread] /\ \A c \in Cpu : cur[c] = c \/ cur[c] \in Slot
      /\ DOMAIN pc = Thread /\ DOMAIN ret = Thread
      /\ \A p \in Slot : pc[p] \in ProcPCs
      /\ \A c \in Cpu : pc[c] \in CpuPCs
      /\ idx \in [Cpu -> Slot] /\ widx \in 1 .. NPROC + 1
      /\ Thread = Slot \cup Cpu /\ Lock = Slot \cup {tickslock} /\ Slot \cap Cpu = {}
      /\ tickslock \notin Slot /\ None \notin Cpu /\ Victims \subseteq Slot
      /\ widx <= NPROC => widx \in Slot
  BY Constants DEF TypeOK, Thread, Lock
<1>1. ASSUME NEW c \in Cpu, sched_top(c) PROVE SleepInv'
  BY <1>0, <1>1 DEF sched_top, Goto, SleepInv, Elapsed, CurInv, StateInv, OnState,
     OffState, LockInv, RetInv, TicksPCs, ProcPCs, CpuPCs, SchedPCs, TrapPCs
<1>2. ASSUME NEW c \in Cpu, sched_skip(c) PROVE SleepInv'
  BY <1>0, <1>2 DEF sched_skip, Advance, Goto, SleepInv, Elapsed, CurInv, StateInv,
     OnState, OffState, LockInv, RetInv, TicksPCs, ProcPCs, CpuPCs, SchedPCs, TrapPCs
<1>3. ASSUME NEW c \in Cpu, sched_run(c) PROVE SleepInv'
  BY <1>0, <1>3 DEF sched_run, acquire, Goto, SleepInv, Elapsed, CurInv, StateInv,
     OnState, OffState, LockInv, RetInv, TicksPCs, ProcPCs, CpuPCs, SchedPCs, TrapPCs
<1>4. ASSUME NEW c \in Cpu, sched_back(c) PROVE SleepInv'
  BY <1>0, <1>4 DEF sched_back, Advance, Goto, SleepInv, Elapsed, CurInv, StateInv,
     OnState, OffState, LockInv, RetInv, TicksPCs, ProcPCs, CpuPCs, SchedPCs, TrapPCs
<1>5. ASSUME NEW c \in Cpu, sched_idle(c) PROVE SleepInv'
  BY <1>0, <1>5 DEF sched_idle, Goto, SleepInv, Elapsed, CurInv, StateInv, OnState,
     OffState, LockInv, RetInv, TicksPCs, ProcPCs, CpuPCs, SchedPCs, TrapPCs
<1>6. ASSUME NEW c \in Cpu, clockintr(c) PROVE SleepInv'
  BY <1>0, <1>6 DEF clockintr, acquire, Goto, SleepInv, Elapsed, CurInv, StateInv,
     OnState, OffState, LockInv, RetInv, TicksPCs, ProcPCs, CpuPCs, SchedPCs, TrapPCs
<1>7. ASSUME NEW c \in Cpu, wakeup(c) PROVE SleepInv'
  BY <1>0, <1>7 DEF wakeup, SleepInv, Elapsed, CurInv, StateInv, OnState, OffState,
     LockInv, RetInv, TicksPCs, ProcPCs, CpuPCs, SchedPCs, TrapPCs
<1>8. ASSUME NEW c \in Cpu, clockintr_end(c) PROVE SleepInv'
  BY <1>0, <1>8 DEF clockintr_end, Goto, SleepInv, Elapsed, CurInv, StateInv, OnState,
     OffState, LockInv, RetInv, TicksPCs, ProcPCs, CpuPCs, SchedPCs, TrapPCs
<1>9. ASSUME NEW c \in Cpu, trap_return(c) PROVE SleepInv'
  BY <1>0, <1>9 DEF trap_return, Goto, SleepInv, Elapsed, CurInv, StateInv, OnState,
     OffState, LockInv, RetInv, TicksPCs, ProcPCs, CpuPCs, SchedPCs, TrapPCs
<1>10. ASSUME NEW c \in Cpu, interrupt(c) PROVE SleepInv'
  BY <1>0, <1>10 DEF interrupt, devintr, Goto, SleepInv, Elapsed, CurInv, StateInv,
     OnState, OffState, LockInv, RetInv, TicksPCs, ProcPCs, CpuPCs, SchedPCs, TrapPCs
<1>11. ASSUME NEW c \in Cpu, NEW p \in Slot, sched(c, p) PROVE SleepInv'
  BY <1>0, <1>11 DEF sched, Goto, SleepInv, Elapsed, CurInv, StateInv, OnState, OffState,
     LockInv, RetInv, TicksPCs, ProcPCs, CpuPCs, SchedPCs, TrapPCs
<1>12. ASSUME NEW c \in Cpu, NEW p \in Slot, forkret(c, p) PROVE SleepInv'
  BY <1>0, <1>12 DEF forkret, Goto, SleepInv, Elapsed, CurInv, StateInv, OnState,
     OffState, LockInv, RetInv, TicksPCs, ProcPCs, CpuPCs, SchedPCs, TrapPCs
<1>13. ASSUME NEW c \in Cpu, NEW p \in Slot, sys_sleep_return(c, p) PROVE SleepInv'
  BY <1>0, <1>13 DEF sys_sleep_return, Goto, SleepInv, Elapsed, CurInv, StateInv,
     OnState, OffState, LockInv, RetInv, TicksPCs, ProcPCs, CpuPCs, SchedPCs, TrapPCs
<1>14. ASSUME NEW c \in Cpu, NEW p \in Slot, sys_sleep_again(c, p) PROVE SleepInv'
  BY <1>0, <1>14 DEF sys_sleep_again, Goto, SleepInv, Elapsed, CurInv, StateInv, OnState,
     OffState, LockInv, RetInv, TicksPCs, ProcPCs, CpuPCs, SchedPCs, TrapPCs
<1>15. ASSUME NEW c \in Cpu, NEW p \in Slot, sleep_lock(c, p) PROVE SleepInv'
  BY <1>0, <1>15 DEF sleep_lock, acquire, Goto, SleepInv, Elapsed, CurInv, StateInv,
     OnState, OffState, LockInv, RetInv, TicksPCs, ProcPCs, CpuPCs, SchedPCs, TrapPCs
<1>16. ASSUME NEW c \in Cpu, NEW p \in Slot, sleep_release(c, p) PROVE SleepInv'
  BY <1>0, <1>16 DEF sleep_release, Goto, SleepInv, Elapsed, CurInv, StateInv, OnState,
     OffState, LockInv, RetInv, TicksPCs, ProcPCs, CpuPCs, SchedPCs, TrapPCs
<1>17. ASSUME NEW c \in Cpu, NEW p \in Slot, sleep_woken(c, p) PROVE SleepInv'
  BY <1>0, <1>17 DEF sleep_woken, Goto, SleepInv, Elapsed, CurInv, StateInv, OnState,
     OffState, LockInv, RetInv, TicksPCs, ProcPCs, CpuPCs, SchedPCs, TrapPCs
<1>18. ASSUME NEW c \in Cpu, NEW p \in Slot, sleep_relock(c, p) PROVE SleepInv'
  BY <1>0, <1>18 DEF sleep_relock, acquire, Goto, SleepInv, Elapsed, CurInv, StateInv,
     OnState, OffState, LockInv, RetInv, TicksPCs, ProcPCs, CpuPCs, SchedPCs, TrapPCs
<1>19. ASSUME NEW c \in Cpu, NEW p \in Slot, exit_killed(c, p) PROVE SleepInv'
  BY <1>0, <1>19 DEF exit_killed, Goto, SleepInv, Elapsed, CurInv, StateInv, OnState,
     OffState, LockInv, RetInv, TicksPCs, ProcPCs, CpuPCs, SchedPCs, TrapPCs
<1>20. ASSUME NEW c \in Cpu, NEW p \in Slot, exit(c, p) PROVE SleepInv'
  BY <1>0, <1>20 DEF exit, acquire, Goto, SleepInv, Elapsed, CurInv, StateInv, OnState,
     OffState, LockInv, RetInv, TicksPCs, ProcPCs, CpuPCs, SchedPCs, TrapPCs
<1>21. ASSUME NEW c \in Cpu, NEW p \in Slot, trap_process(c, p) PROVE SleepInv'
  BY <1>0, <1>21 DEF trap_process, Goto, SleepInv, Elapsed, CurInv, StateInv, OnState,
     OffState, LockInv, RetInv, TicksPCs, ProcPCs, CpuPCs, SchedPCs, TrapPCs
<1>22. ASSUME NEW c \in Cpu, NEW p \in Slot, yield(c, p) PROVE SleepInv'
  BY <1>0, <1>22 DEF yield, acquire, Goto, SleepInv, Elapsed, CurInv, StateInv, OnState,
     OffState, LockInv, RetInv, TicksPCs, ProcPCs, CpuPCs, SchedPCs, TrapPCs
<1>23. ASSUME NEW c \in Cpu, NEW p \in Slot, yield_return(c, p) PROVE SleepInv'
  BY <1>0, <1>23 DEF yield_return, Goto, SleepInv, Elapsed, CurInv, StateInv, OnState,
     OffState, LockInv, RetInv, TicksPCs, ProcPCs, CpuPCs, SchedPCs, TrapPCs
<1>24. ASSUME NEW c \in Cpu, NEW p \in Slot, sys_sleep(c, p) PROVE SleepInv'
  BY <1>0, <1>24 DEF sys_sleep, acquire, Goto, SleepInv, Elapsed, CurInv, StateInv,
     OnState, OffState, LockInv, RetInv, TicksPCs, ProcPCs, CpuPCs, SchedPCs, TrapPCs
<1>25. ASSUME NEW c \in Cpu, NEW p \in Slot, NEW q \in Victims, kill(c, p, q) PROVE SleepInv'
  BY <1>0, <1>25 DEF kill, SleepInv, Elapsed, CurInv, StateInv, OnState, OffState,
     LockInv, RetInv, TicksPCs, ProcPCs, CpuPCs, SchedPCs, TrapPCs
<1>26. CASE UNCHANGED vars
  BY <1>26 DEF vars, SleepInv, Elapsed
<1>. QED
  BY <1>1, <1>2, <1>3, <1>4, <1>5, <1>6, <1>7, <1>8, <1>9, <1>10, <1>11, <1>12, <1>13,
     <1>14, <1>15, <1>16, <1>17, <1>18, <1>19, <1>20, <1>21, <1>22, <1>23, <1>24, <1>25,
     <1>26 DEF Next, Scheduler, Clock, Kernel

\* clockintr() counts and scans under tickslock; a process that has tested but is not
\* SLEEPING yet has it too.
LEMMA WakeStep ==
    ASSUME TypeOK, CurInv, StateInv, LockInv, CpuInv, RetInv, SleepInv, NoLostWakeup,
       [Next]_vars
    PROVE  NoLostWakeup'
<1>0. /\ state \in [Slot -> {"RUNNABLE", "RUNNING", "SLEEPING", "ZOMBIE"}]
      /\ saved \in [Slot -> BOOLEAN] /\ lock \in [Lock -> Cpu \cup {None}]
      /\ cpu \in [Cpu -> [noff : 0 .. 2, intena : BOOLEAN, intr : BOOLEAN]]
      /\ cur \in [Cpu -> Thread] /\ \A c \in Cpu : cur[c] = c \/ cur[c] \in Slot
      /\ DOMAIN pc = Thread /\ DOMAIN ret = Thread
      /\ \A p \in Slot : pc[p] \in ProcPCs
      /\ \A c \in Cpu : pc[c] \in CpuPCs
      /\ idx \in [Cpu -> Slot] /\ widx \in 1 .. NPROC + 1
      /\ Thread = Slot \cup Cpu /\ Lock = Slot \cup {tickslock} /\ Slot \cap Cpu = {}
      /\ tickslock \notin Slot /\ None \notin Cpu /\ Victims \subseteq Slot
      /\ widx <= NPROC => widx \in Slot
      /\ \A p \in Slot : p \in Int /\ 1 <= p /\ p <= NPROC
  BY Constants DEF TypeOK, Thread, Lock
<1>1. ASSUME NEW c \in Cpu, sched_top(c) PROVE NoLostWakeup'
  BY <1>0, <1>1 DEF sched_top, Goto, NoLostWakeup, SleepInv, Elapsed, CurInv, StateInv,
     OnState, OffState, ProcPCs, CpuPCs, SchedPCs, TrapPCs
<1>2. ASSUME NEW c \in Cpu, sched_skip(c) PROVE NoLostWakeup'
  BY <1>0, <1>2 DEF sched_skip, Advance, Goto, NoLostWakeup, SleepInv, Elapsed, CurInv,
     StateInv, OnState, OffState, ProcPCs, CpuPCs, SchedPCs, TrapPCs
<1>3. ASSUME NEW c \in Cpu, sched_run(c) PROVE NoLostWakeup'
  BY <1>0, <1>3 DEF sched_run, acquire, Goto, NoLostWakeup, SleepInv, Elapsed, CurInv,
     StateInv, OnState, OffState, ProcPCs, CpuPCs, SchedPCs, TrapPCs
<1>4. ASSUME NEW c \in Cpu, sched_back(c) PROVE NoLostWakeup'
  BY <1>0, <1>4 DEF sched_back, Advance, Goto, NoLostWakeup, SleepInv, Elapsed, CurInv,
     StateInv, OnState, OffState, ProcPCs, CpuPCs, SchedPCs, TrapPCs
<1>5. ASSUME NEW c \in Cpu, sched_idle(c) PROVE NoLostWakeup'
  BY <1>0, <1>5 DEF sched_idle, Goto, NoLostWakeup, SleepInv, Elapsed, CurInv, StateInv,
     OnState, OffState, ProcPCs, CpuPCs, SchedPCs, TrapPCs
<1>6. ASSUME NEW c \in Cpu, clockintr(c) PROVE NoLostWakeup'
  BY <1>0, <1>6 DEF clockintr, acquire, Goto, NoLostWakeup, SleepInv, Elapsed, CurInv,
     StateInv, OnState, OffState, ProcPCs, CpuPCs, SchedPCs, TrapPCs
<1>7. ASSUME NEW c \in Cpu, wakeup(c) PROVE NoLostWakeup'
  <2>1. \A q \in Slot : Elapsed(q)' = Elapsed(q) /\ n'[q] = n[q]
    BY <1>7 DEF wakeup, Elapsed
  <2>2. \A q \in Slot : state'[q] = "SLEEPING" => state[q] = "SLEEPING" /\ q # widx
    BY <1>0, <1>7 DEF wakeup
  <2>3. \A q \in Slot : widx <= q /\ q # widx => widx + 1 <= q
    <3>1. widx \in Int /\ \A q \in Slot : q \in Int
      BY <1>0, SchedAssumption
    <3>. QED
      BY <3>1
  <2>. QED
    BY <2>1, <2>2, <2>3, <1>7 DEF wakeup, NoLostWakeup
<1>8. ASSUME NEW c \in Cpu, clockintr_end(c) PROVE NoLostWakeup'
  <2>1. \A q \in Slot : Elapsed(q)' = Elapsed(q) /\ n'[q] = n[q] /\ state'[q] = state[q]
    BY <1>8 DEF clockintr_end, Elapsed
  <2>2. \A q \in Slot : ~(widx <= q)
    BY <1>0, SchedAssumption, <1>8 DEF clockintr_end
  <2>. QED
    BY <2>1, <2>2 DEF NoLostWakeup
<1>9. ASSUME NEW c \in Cpu, trap_return(c) PROVE NoLostWakeup'
  BY <1>0, <1>9 DEF trap_return, Goto, NoLostWakeup, SleepInv, Elapsed, CurInv, StateInv,
     OnState, OffState, ProcPCs, CpuPCs, SchedPCs, TrapPCs
<1>10. ASSUME NEW c \in Cpu, interrupt(c) PROVE NoLostWakeup'
  BY <1>0, <1>10, Interruptible DEF interrupt, devintr, Goto, NoLostWakeup, SleepInv,
     Elapsed, CurInv, StateInv, OnState, OffState, ProcPCs, CpuPCs, SchedPCs, TrapPCs
<1>11. ASSUME NEW c \in Cpu, NEW p \in Slot, sched(c, p) PROVE NoLostWakeup'
  BY <1>0, <1>11 DEF sched, Goto, NoLostWakeup, SleepInv, Elapsed, CurInv, StateInv,
     OnState, OffState, ProcPCs, CpuPCs, SchedPCs, TrapPCs
<1>12. ASSUME NEW c \in Cpu, NEW p \in Slot, forkret(c, p) PROVE NoLostWakeup'
  BY <1>0, <1>12 DEF forkret, Goto, NoLostWakeup, SleepInv, Elapsed, CurInv, StateInv,
     OnState, OffState, ProcPCs, CpuPCs, SchedPCs, TrapPCs
<1>13. ASSUME NEW c \in Cpu, NEW p \in Slot, sys_sleep_return(c, p) PROVE NoLostWakeup'
  BY <1>0, <1>13 DEF sys_sleep_return, Goto, NoLostWakeup, SleepInv, Elapsed, CurInv,
     StateInv, OnState, OffState, ProcPCs, CpuPCs, SchedPCs, TrapPCs
<1>14. ASSUME NEW c \in Cpu, NEW p \in Slot, sys_sleep_again(c, p) PROVE NoLostWakeup'
  BY <1>0, <1>14 DEF sys_sleep_again, Goto, NoLostWakeup, SleepInv, Elapsed, CurInv,
     StateInv, OnState, OffState, ProcPCs, CpuPCs, SchedPCs, TrapPCs
<1>15. ASSUME NEW c \in Cpu, NEW p \in Slot, sleep_lock(c, p) PROVE NoLostWakeup'
  BY <1>0, <1>15 DEF sleep_lock, acquire, Goto, NoLostWakeup, SleepInv, Elapsed, CurInv,
     StateInv, OnState, OffState, ProcPCs, CpuPCs, SchedPCs, TrapPCs
<1>16. ASSUME NEW c \in Cpu, NEW p \in Slot, sleep_release(c, p) PROVE NoLostWakeup'
  <2>1. \A q \in Slot : Elapsed(q)' = Elapsed(q) /\ n'[q] = n[q]
    BY <1>16 DEF sleep_release, Elapsed
  <2>2. Elapsed(p) \in Int /\ n[p] \in Int /\ Elapsed(p) < n[p]
    BY <1>16, Constants DEF sleep_release, SleepInv, Elapsed, TypeOK
  <2>3. ~(Elapsed(p) >= n[p])
    BY <2>2
  <2>4. \A q \in Slot \ {p} : state'[q] = state[q]
    BY <1>0, <1>16 DEF sleep_release
  <2>5. ASSUME NEW d \in Cpu, pc[cur[d]] = "c_wake" PROVE pc'[cur'[d]] = "c_wake"
    BY <1>0, <2>5, <1>16 DEF sleep_release, Goto
  <2>. QED
    BY <2>1, <2>3, <2>4, <2>5, <1>16 DEF sleep_release, NoLostWakeup
<1>17. ASSUME NEW c \in Cpu, NEW p \in Slot, sleep_woken(c, p) PROVE NoLostWakeup'
  BY <1>0, <1>17 DEF sleep_woken, Goto, NoLostWakeup, SleepInv, Elapsed, CurInv,
     StateInv, OnState, OffState, ProcPCs, CpuPCs, SchedPCs, TrapPCs
<1>18. ASSUME NEW c \in Cpu, NEW p \in Slot, sleep_relock(c, p) PROVE NoLostWakeup'
  BY <1>0, <1>18 DEF sleep_relock, acquire, Goto, NoLostWakeup, SleepInv, Elapsed,
     CurInv, StateInv, OnState, OffState, ProcPCs, CpuPCs, SchedPCs, TrapPCs
<1>19. ASSUME NEW c \in Cpu, NEW p \in Slot, exit_killed(c, p) PROVE NoLostWakeup'
  BY <1>0, <1>19 DEF exit_killed, Goto, NoLostWakeup, SleepInv, Elapsed, CurInv,
     StateInv, OnState, OffState, ProcPCs, CpuPCs, SchedPCs, TrapPCs
<1>20. ASSUME NEW c \in Cpu, NEW p \in Slot, exit(c, p) PROVE NoLostWakeup'
  BY <1>0, <1>20 DEF exit, acquire, Goto, NoLostWakeup, SleepInv, Elapsed, CurInv,
     StateInv, OnState, OffState, ProcPCs, CpuPCs, SchedPCs, TrapPCs
<1>21. ASSUME NEW c \in Cpu, NEW p \in Slot, trap_process(c, p) PROVE NoLostWakeup'
  BY <1>0, <1>21 DEF trap_process, Goto, NoLostWakeup, SleepInv, Elapsed, CurInv,
     StateInv, OnState, OffState, ProcPCs, CpuPCs, SchedPCs, TrapPCs
<1>22. ASSUME NEW c \in Cpu, NEW p \in Slot, yield(c, p) PROVE NoLostWakeup'
  BY <1>0, <1>22 DEF yield, acquire, Goto, NoLostWakeup, SleepInv, Elapsed, CurInv,
     StateInv, OnState, OffState, ProcPCs, CpuPCs, SchedPCs, TrapPCs
<1>23. ASSUME NEW c \in Cpu, NEW p \in Slot, yield_return(c, p) PROVE NoLostWakeup'
  BY <1>0, <1>23 DEF yield_return, Goto, NoLostWakeup, SleepInv, Elapsed, CurInv,
     StateInv, OnState, OffState, ProcPCs, CpuPCs, SchedPCs, TrapPCs
<1>24. ASSUME NEW c \in Cpu, NEW p \in Slot, sys_sleep(c, p) PROVE NoLostWakeup'
  BY <1>0, <1>24 DEF sys_sleep, acquire, Goto, NoLostWakeup, SleepInv, Elapsed, CurInv,
     StateInv, OnState, OffState, ProcPCs, CpuPCs, SchedPCs, TrapPCs
<1>25. ASSUME NEW c \in Cpu, NEW p \in Slot, NEW q \in Victims, kill(c, p, q) PROVE NoLostWakeup'
  BY <1>0, <1>25 DEF kill, NoLostWakeup, SleepInv, Elapsed, CurInv, StateInv, OnState,
     OffState, ProcPCs, CpuPCs, SchedPCs, TrapPCs
<1>26. CASE UNCHANGED vars
  BY <1>26 DEF vars, NoLostWakeup, Elapsed
<1>. QED
  BY <1>1, <1>2, <1>3, <1>4, <1>5, <1>6, <1>7, <1>8, <1>9, <1>10, <1>11, <1>12, <1>13,
     <1>14, <1>15, <1>16, <1>17, <1>18, <1>19, <1>20, <1>21, <1>22, <1>23, <1>24, <1>25,
     <1>26 DEF Next, Scheduler, Clock, Kernel

-----------------------------------------------------------------------------
(***************************************************************************)
(* The theorems.                                                           *)
(***************************************************************************)

\* The three parts are all of TypeOK.
LEMMA TypeParts ==
    (TypeOK <=> TypeData /\ TypeCtl /\ TypeCpu) /\ (TypeOK <=> TypeData /\ TypeCtl /\ TypeCpu)'
  BY DEF TypeOK, TypeData, TypeCtl, TypeCpu, CpuRec

\* The machine when the first cpu enters scheduler().
LEMMA InitInv ==
    ASSUME Init
    PROVE  IInv
<1>0. /\ Thread = Slot \cup Cpu /\ Lock = Slot \cup {tickslock} /\ Slot \cap Cpu = {}
      /\ 0 \in 0 .. UINT - 1 /\ 0 \in 0 .. MaxN /\ 1 \in Slot /\ 1 \in 1 .. NPROC + 1
      /\ None \notin Cpu /\ 0 \in 0 .. 2
  BY Constants DEF Thread, Lock
<1>1. TypeData
  BY <1>0 DEF Init, TypeData
<1>2. TypeCtl
  BY <1>0 DEF Init, TypeCtl, ProcPCs, CpuPCs
<1>3. TypeCpu
  BY <1>0 DEF Init, TypeCpu, CpuRec
<1>4. CurInv /\ StateInv /\ SavedInv
  BY <1>0 DEF Init, CurInv, StateInv, OnState, OffState, SavedInv
<1>5. LockInv /\ CpuInv
  BY <1>0 DEF Init, LockInv, CpuInv, OwnPCs, TicksPCs, SchedPCs, TrapPCs
<1>6. RetInv /\ SleepInv /\ NoLostWakeup
  BY <1>0 DEF Init, RetInv, TrapPCs, SleepInv, NoLostWakeup
<1>. QED
  BY <1>1, <1>2, <1>3, <1>4, <1>5, <1>6, TypeParts DEF IInv

\* The invariant is inductive.
LEMMA NextInv ==
    ASSUME IInv, [Next]_vars
    PROVE  IInv'
<1>1. TypeOK'
  BY TypeDataStep, TypeCtlStep, TypeCpuStep, TypeParts DEF IInv
<1>. QED
  BY <1>1, CurStep, StateStep, LockStep, CpuStep, SavedStep, RetStep, SleepStep, WakeStep
     DEF IInv

\* It holds in every reachable state.
LEMMA Invariance == Spec => []IInv
<1>1. Init => IInv
  BY InitInv
<1>2. IInv /\ [Next]_vars => IInv'
  BY NextInv
<1>. QED
  BY <1>1, <1>2, PTL DEF Spec

\* Type correctness: noff counts to two and no further, the scans stay in the
\* table, and every thread is where its code can be.
THEOREM SchedTypeCorrect == Spec => []TypeOK
<1>1. IInv => TypeOK
  BY DEF IInv
<1>. QED
  BY <1>1, Invariance, PTL

\* With any number of cpus and processes, no cpu spins for a lock it has itself, no
\* lock is released by a cpu that has it not, and sched() finds what it panics about
\* as it should be.
THEOREM SchedNoPanic == Spec => []NoPanic
<1>1. ASSUME IInv PROVE NoPanic
  <2>0. /\ \A c \in Cpu : cur[c] = c \/ cur[c] \in Slot
        /\ \A p \in Slot : pc[p] \in ProcPCs
        /\ \A c \in Cpu : pc[c] \in CpuPCs
        /\ idx \in [Cpu -> Slot] /\ Lock = Slot \cup {tickslock} /\ Slot \cap Cpu = {}
        /\ tickslock \notin Slot /\ (widx <= NPROC => widx \in Slot)
    BY <1>1, Constants DEF IInv, TypeOK, Lock
  <2>1. ASSUME NEW c \in Cpu, Wanted(c) # None PROVE lock[Wanted(c)] # c
    BY <1>1, <2>0, <2>1 DEF IInv, Wanted, LockInv, OwnPCs, TicksPCs, ProcPCs, CpuPCs,
       SchedPCs, TrapPCs
  <2>2. ASSUME NEW c \in Cpu, Owed(c) # None
        PROVE  lock[Owed(c)] = c /\ ~cpu[c].intr /\ cpu[c].noff > 0
    BY <1>1, <2>0, <2>2 DEF IInv, Owed, LockInv, CpuInv, OwnPCs, TicksPCs, ProcPCs,
       CpuPCs, SchedPCs, TrapPCs
  <2>3. ASSUME NEW c \in Cpu, pc[cur[c]] \in SchedPCs
        PROVE  /\ lock[cur[c]] = c
               /\ cpu[c].noff = 1
               /\ state[cur[c]] # "RUNNING"
               /\ ~cpu[c].intr
    BY <1>1, <2>0, <2>3 DEF IInv, LockInv, CpuInv, StateInv, OnState, OwnPCs, TicksPCs,
       CpuPCs, SchedPCs, TrapPCs
  <2>. QED
    BY <2>1, <2>2, <2>3 DEF NoPanic
<1>. QED
  BY <1>1, Invariance, PTL

\* A kernel stack is in use on one cpu at most: scheduler() takes a process by its
\* state, and sched() keeps its lock until the cpu has left the stack.
THEOREM SchedOneCpu == Spec => []OneCpu
<1>1. ASSUME IInv PROVE OneCpu
  <2>1. ASSUME NEW p \in Slot PROVE Cardinality(OnCpu(p)) <= 1
    <3>1. CASE OnCpu(p) = {}
      BY <3>1, FS_EmptySet
    <3>2. ASSUME NEW c \in OnCpu(p) PROVE Cardinality(OnCpu(p)) <= 1
      <4>1. OnCpu(p) = {c}
        BY <1>1, <3>2 DEF OnCpu, IInv, CurInv
      <4>. QED
        BY <4>1, FS_Singleton, 1 <= 1
    <3>. QED
      BY <3>1, <3>2
  <2>2. ASSUME NEW p \in Slot, state[p] = "RUNNING" PROVE OnCpu(p) # {}
    BY <1>1, <2>2 DEF OnCpu, IInv, StateInv, OffState
  <2>3. ASSUME NEW p \in Slot, NEW c \in OnCpu(p) PROVE state[p] = "RUNNING" \/ lock[p] = c
    BY <1>1, <2>3 DEF OnCpu, IInv, StateInv, OnState, LockInv, Lock, OwnPCs, SchedPCs
  <2>. QED
    BY <2>1, <2>2, <2>3 DEF OneCpu
<1>. QED
  BY <1>1, Invariance, PTL

\* A process that was switched out in sleep() or preempted has its interrupts on
\* again, on whatever cpu it goes on: sched() keeps intena for it.
THEOREM SchedIntrRestored == Spec => []IntrRestored
<1>1. IInv => IntrRestored
  BY DEF IInv, CpuInv, IntrRestored
<1>. QED
  BY <1>1, Invariance, PTL

\* sleep() loses no wakeup of clockintr(), also when ticks wraps: it has p->lock
\* before it gives up tickslock, and wakeup() comes to every slot under its lock.
THEOREM SchedNoLostWakeup == Spec => []NoLostWakeup
<1>1. IInv => NoLostWakeup
  BY DEF IInv
<1>. QED
  BY <1>1, Invariance, PTL

-----------------------------------------------------------------------------
(***************************************************************************)
(* User memory: the inductive invariant.                                   *)
(***************************************************************************)
TabIdx == 0 .. USERTABS
UserV  == 0 .. USERPAGES - 1
Table == [root : Page \cup {0}, tab : [TabIdx -> Page \cup {0}],
          pte : [VPage -> 0 .. NPAGES + 1], user : SUBSET VPage]
SlotRec == [used : BOOLEAN, tf : Page \cup {0}, pt : Table, sz : Nat]
Stages == {"none", "user", "grow", "pagetable", "trampoline", "copy", "exec", "load",
           "segment", "stack"}

VmTypeOK ==
    /\ free \in [Page -> Nat] /\ slot \in [Proc -> SlotRec] /\ stage \in [Proc -> Stages]
    /\ kid \in [Proc -> Proc] /\ new \in [Proc -> Table] /\ arg \in [Proc -> Page \cup {0}]
    /\ sz \in [Proc -> Nat] /\ a \in [Proc -> Nat] /\ to \in [Proc -> Nat]
    /\ panicked \in BOOLEAN

\* The tables and the user pages of a page table are different pages.
Distinct(pt) ==
    /\ \A v \in UserV : pt.pte[v] \in Page \cup {0}
    /\ \A t, u \in TabIdx : pt.tab[t] = pt.tab[u] /\ pt.tab[t] # 0 => t = u
    /\ \A v, w \in UserV : pt.pte[v] = pt.pte[w] /\ pt.pte[v] # 0 => v = w
    /\ \A t \in TabIdx : pt.tab[t] # 0 => pt.tab[t] # pt.root
    /\ \A v \in UserV : pt.pte[v] # 0 => pt.pte[v] # pt.root
    /\ \A t \in TabIdx : \A v \in UserV : pt.tab[t] # 0 => pt.tab[t] # pt.pte[v]

\* The first k user pages are mapped.
Prefix(pt, k) ==
    /\ k \in 0 .. USERPAGES
    /\ \A v \in UserV : pt.pte[v] # 0 <=> v < k
    /\ \A v \in VPage : v >= USERPAGES /\ v < TRAPFRAME => pt.pte[v] = 0
    /\ pt.user \subseteq 0 .. k - 1

\* And the trapframe and the trampoline.
Top(pt, tf) == pt.pte[TRAPFRAME] = tf /\ pt.pte[TRAMPOLINE] = TrampolineText

\* At most one page is a guard page.
Guard(pt, k) == \A v, w \in (0 .. k - 1) \ pt.user : v = w

UserMax == USERPAGES * PGSIZE
Mapped(p) == IF stage[p] = "grow" THEN a[p] ELSE Pages(slot[p].sz)
Building(p) == IF stage[p] = "load" THEN Pages(sz[p]) ELSE a[p]

\* What a slot of the process table holds.
SlotRow(p) ==
    /\ slot[p].used <=> stage[p] # "none"
    /\ Distinct(slot[p].pt)
    /\ IF slot[p].used
       THEN /\ slot[p].tf # 0 /\ slot[p].pt.root # 0 /\ slot[p].sz <= UserMax
            /\ Prefix(slot[p].pt, Mapped(p)) /\ Guard(slot[p].pt, Mapped(p))
            /\ Top(slot[p].pt, slot[p].tf)
       ELSE slot[p].pt = NoTable /\ slot[p].sz = 0
SlotInv == \A p \in Proc : SlotRow(p)

\* Where fork() and exec() have a page table under construction, and a child or an
\* argument.
Forking(p) == stage[p] \in {"pagetable", "trampoline", "copy"} /\ kid[p] # p
Loading(p) == stage[p] \in {"load", "segment", "stack"}
Execing(p) == stage[p] \in {"exec", "pagetable", "trampoline", "load", "segment", "stack"}
              /\ kid[p] = p
CallRow(p) ==
    /\ kid[p] # p => Forking(p) /\ ~slot[kid[p]].used /\ slot[kid[p]].tf # 0
    /\ stage[p] = "copy" => kid[p] # p
    /\ arg[p] # 0 <=> Execing(p)
CallInv ==
    /\ \A p \in Proc : CallRow(p)
    /\ \A p, q \in Proc : kid[p] = kid[q] /\ kid[p] # p /\ kid[q] # q => p = q

\* The table under construction.
NewRow(p) ==
    /\ Distinct(new[p])
    /\ stage[p] \in {"none", "user", "grow", "exec", "pagetable"} => new[p] = NoTable
    /\ stage[p] = "trampoline" => new[p].root # 0 /\ new[p] = [NoTable EXCEPT !.root = new[p].root]
    /\ stage[p] = "copy" \/ Loading(p) =>
          /\ new[p].root # 0 /\ Prefix(new[p], Building(p)) /\ Top(new[p], slot[kid[p]].tf)
          /\ new[p].user = IF stage[p] = "copy" THEN (0 .. a[p] - 1) \cap slot[p].pt.user
                           ELSE 0 .. Building(p) - 1
NewInv == \A p \in Proc : NewRow(p)

\* The sizes and the counters of the loops.
SizeRow(p) ==
    /\ stage[p] \in {"pagetable", "trampoline", "user", "none", "exec"} => sz[p] = 0 /\ a[p] = 0
    /\ stage[p] = "copy" => a[p] <= Pages(slot[p].sz)
    /\ stage[p] \in {"grow", "segment", "stack"} =>
          sz[p] <= to[p] /\ Pages(sz[p]) <= a[p] /\ a[p] <= Pages(to[p]) /\ to[p] <= UserMax
    /\ stage[p] = "grow" => sz[p] = slot[p].sz
    /\ stage[p] = "load" => sz[p] <= UserMax
    /\ stage[p] = "stack" => Pages(to[p]) >= 2
SizeInv == \A p \in Proc : SizeRow(p)

\* Who may own pages, and the pages that each owns.
OTf(p)  == <<"tf", p>>
OArg(p) == <<"arg", p>>
OPt(p)  == <<"pt", p>>
ONew(p) == <<"new", p>>
Owner == {OTf(p) : p \in Proc} \cup {OArg(p) : p \in Proc}
           \cup {OPt(p) : p \in Proc} \cup {ONew(p) : p \in Proc}
Own(S, N, A) ==
    [x \in Owner |-> IF \E p \in Proc : x = OTf(p) THEN {S[x[2]].tf} \ {0}
                     ELSE IF \E p \in Proc : x = OArg(p) THEN {A[x[2]]} \ {0}
                     ELSE IF \E p \in Proc : x = OPt(p) THEN OwnedBy(S[x[2]].pt)
                     ELSE OwnedBy(N[x[2]])]

\* A free list f and owners O of pages: every page is in exactly one of them.
Exact(f, O) ==
    /\ \A g \in Page : f[g] \in {0, 1}
    /\ \A x, y \in Owner : \A g \in Page : g \in O[x] /\ g \in O[y] => x = y
    /\ \A g \in Page : f[g] = 1 <=> \A x \in Owner : g \notin O[x]
OwnInv == Exact(free, Own(slot, new, arg))

VmInv == VmTypeOK /\ ~panicked /\ SlotInv /\ CallInv /\ NewInv /\ SizeInv /\ OwnInv

-----------------------------------------------------------------------------
(***************************************************************************)
(* Arithmetic of sizes.                                                    *)
(***************************************************************************)

\* What the assumption says of the constants, in the form the proofs use.
LEMMA VmConstants ==
    /\ NPAGES \in Nat /\ NPAGES >= 5 /\ PGSIZE \in Nat \ {0} /\ TABSIZE \in Nat \ {0}
    /\ TABSIZE >= 2 /\ USERTABS \in Nat \ {0} /\ UINT_RANGE \in Nat \ {0} /\ WORD \in Nat
    /\ USERPAGES \in Nat \ {0} /\ UserMax \in Nat /\ UserMax < UINT_RANGE
    /\ TRAPFRAME \in Nat /\ TRAMPOLINE = TRAPFRAME + 1 /\ TRAPFRAME >= USERPAGES
    /\ TRAPFRAME \in VPage /\ TRAMPOLINE \in VPage /\ UserV \subseteq VPage
    /\ InitProc \in Proc /\ IsFiniteSet(Proc)
    /\ \A s \in Segments : s \in Nat /\ s <= UserMax
    /\ Deltas \subseteq Int /\ Addrs \subseteq Nat
<1>1. /\ NPAGES \in Nat /\ NPAGES >= 5 /\ PGSIZE \in Nat \ {0} /\ TABSIZE \in Nat \ {0}
      /\ TABSIZE >= 2 /\ USERTABS \in Nat \ {0} /\ UINT_RANGE \in Nat \ {0} /\ WORD \in Nat
      /\ InitProc \in Proc /\ IsFiniteSet(Proc) /\ Deltas \subseteq Int /\ Addrs \subseteq Nat
  BY VmAssumption
<1>2. USERTABS * TABSIZE \in Nat \ {0}
  BY <1>1
<1>3. USERPAGES \in Nat \ {0}
  BY <1>2 DEF USERPAGES
<1>4. USERPAGES * PGSIZE \in Nat
  BY <1>1, <1>3
<1>5. UserMax \in Nat /\ UserMax < UINT_RANGE
  BY <1>1, <1>4, VmAssumption DEF UserMax, USERPAGES
<1>6. \A s \in Segments : s \in Nat /\ s <= UserMax
  BY <1>1, <1>4, VmAssumption DEF UserMax, USERPAGES
<1>7. /\ TRAPFRAME \in Nat /\ TRAMPOLINE = TRAPFRAME + 1 /\ TRAPFRAME >= USERPAGES
      /\ TRAPFRAME \in VPage /\ TRAMPOLINE \in VPage /\ UserV \subseteq VPage
  BY <1>1, <1>3 DEF TRAPFRAME, TRAMPOLINE, VPage, UserV
<1>. QED
  BY <1>1, <1>3, <1>5, <1>6, <1>7

\* There is only one quotient.
LEMMA DivUnique ==
    ASSUME NEW U \in Nat \ {0}, NEW q \in Int, NEW r \in 0 .. U - 1
    PROVE  (q * U + r) \div U = q
  OBVIOUS

\* A number is its quotient and its remainder.
LEMMA DivMod ==
    ASSUME NEW U \in Nat \ {0}, NEW b \in Nat
    PROVE  /\ b \div U \in Nat /\ b % U \in 0 .. U - 1
           /\ b = (b \div U) * U + (b % U)
<1>1. b % U \in 0 .. U - 1 /\ b \div U \in Int
  OBVIOUS
<1>2. b = (b \div U) * U + (b % U)
  <2>. DEFINE q == b \div U
              r == b % U
  <2>1. q \in Int /\ r \in 0 .. U - 1
    BY <1>1
  <2>2. r = b - q * U
    BY Z3T(30)
  <2>3. q * U \in Int
    BY <2>1
  <2>. HIDE DEF q, r
  <2>4. b = q * U + r
    BY <2>1, <2>2, <2>3
  <2>. QED
    BY <2>4 DEF q, r
<1>3. b \div U \in Nat
  <2>. DEFINE q == b \div U
              r == b % U
  <2>1. q \in Int /\ r \in 0 .. U - 1 /\ b = q * U + r
    BY <1>1, <1>2
  <2>. HIDE DEF q, r
  <2>2. ~ q < 0
    <3>1. SUFFICES ASSUME q < 0 PROVE FALSE
      OBVIOUS
    <3>2. q * U <= - U
      BY <2>1, <3>1
    <3>. QED
      BY <2>1, <3>2
  <2>. QED
    BY <2>1, <2>2 DEF q
<1>. QED
  BY <1>1, <1>2, <1>3

\* Quotients are ordered as numbers are.
LEMMA DivMonotone ==
    ASSUME NEW U \in Nat \ {0}, NEW b \in Nat, NEW c \in Nat, b <= c
    PROVE  b \div U <= c \div U
<1>. DEFINE q == b \div U
            r == b % U
            s == c \div U
            t == c % U
<1>1. q \in Nat /\ r \in 0 .. U - 1 /\ b = q * U + r
  BY DivMod
<1>2. s \in Nat /\ t \in 0 .. U - 1 /\ c = s * U + t
  BY DivMod
<1>. HIDE DEF q, r, s, t
<1>3. ASSUME s < q PROVE FALSE
  <2>1. (s + 1) * U <= q * U
    BY <1>1, <1>2, <1>3
  <2>2. (s + 1) * U = s * U + U
    BY <1>2, Distribute, 1 \in Int
  <2>3. q * U \in Int /\ s * U \in Int
    BY <1>1, <1>2
  <2>. QED
    BY <1>1, <1>2, <2>1, <2>2, <2>3
<1>. QED
  BY <1>1, <1>2, <1>3 DEF q, s

\* Whole pages, and the order of sizes.
LEMMA PagesOf ==
    /\ \A s \in Nat : Pages(s) \in Nat
    /\ \A k \in Nat : Pages(k * PGSIZE) = k /\ k * PGSIZE \in Nat
    /\ \A s, t \in Nat : s <= t => Pages(s) <= Pages(t)
    /\ Pages(0) = 0
    /\ \A s \in Nat : s <= UserMax => Pages(s) <= USERPAGES
<1>1. PGSIZE \in Nat \ {0} /\ USERPAGES \in Nat
  BY VmConstants
<1>2. ASSUME NEW s \in Nat PROVE Pages(s) \in Nat
  <2>1. s + PGSIZE - 1 \in Nat
    BY <1>1
  <2>. QED
    BY <1>1, <2>1, DivMod DEF Pages
<1>3. ASSUME NEW k \in Nat PROVE Pages(k * PGSIZE) = k /\ k * PGSIZE \in Nat
  <2>1. k * PGSIZE \in Nat
    BY <1>1
  <2>2. PGSIZE - 1 \in 0 .. PGSIZE - 1
    BY <1>1
  <2>3. k * PGSIZE + PGSIZE - 1 = k * PGSIZE + (PGSIZE - 1)
    BY <1>1, <2>1
  <2>4. (k * PGSIZE + (PGSIZE - 1)) \div PGSIZE = k
    BY <1>1, <2>2, DivUnique
  <2>. QED
    BY <2>1, <2>3, <2>4 DEF Pages
<1>4. ASSUME NEW s \in Nat, NEW t \in Nat, s <= t PROVE Pages(s) <= Pages(t)
  <2>1. s + PGSIZE - 1 \in Nat /\ t + PGSIZE - 1 \in Nat /\ s + PGSIZE - 1 <= t + PGSIZE - 1
    BY <1>1, <1>4
  <2>. QED
    BY <1>1, <2>1, DivMonotone DEF Pages
<1>5. Pages(0) = 0
  <2>1. 0 * PGSIZE = 0
    BY <1>1
  <2>. QED
    BY <1>3, <2>1
<1>6. ASSUME NEW s \in Nat, s <= UserMax PROVE Pages(s) <= USERPAGES
  <2>1. UserMax = USERPAGES * PGSIZE /\ UserMax \in Nat
    BY VmConstants DEF UserMax
  <2>2. Pages(UserMax) = USERPAGES
    BY <1>1, <1>3, <2>1
  <2>. QED
    BY <1>4, <1>6, <2>1, <2>2
<1>. QED
  BY <1>2, <1>3, <1>4, <1>5, <1>6

\* The table of a virtual page; the trapframe and the trampoline are in the last.
LEMMA TabOf ==
    /\ \A v \in VPage : v \div TABSIZE \in TabIdx
    /\ TRAPFRAME \div TABSIZE = USERTABS /\ TRAMPOLINE \div TABSIZE = USERTABS
    /\ 0 \div TABSIZE = 0 /\ 0 \in TabIdx /\ USERTABS \in TabIdx
<1>1. TABSIZE \in Nat \ {0} /\ TABSIZE >= 2 /\ USERTABS \in Nat \ {0}
  BY VmConstants
<1>2. USERTABS * TABSIZE \in Nat
  BY <1>1
<1>3. TRAPFRAME = USERTABS * TABSIZE + (TABSIZE - 2) /\ TABSIZE - 2 \in 0 .. TABSIZE - 1
  BY <1>1, <1>2 DEF TRAPFRAME, USERPAGES
<1>4. TRAMPOLINE = USERTABS * TABSIZE + (TABSIZE - 1) /\ TABSIZE - 1 \in 0 .. TABSIZE - 1
  BY <1>1, <1>2 DEF TRAMPOLINE, USERPAGES
<1>5. TRAPFRAME \div TABSIZE = USERTABS /\ TRAMPOLINE \div TABSIZE = USERTABS
  BY <1>1, <1>3, <1>4, DivUnique
<1>6. ASSUME NEW v \in VPage PROVE v \div TABSIZE \in TabIdx
  <2>1. v \in Nat /\ TRAMPOLINE \in Nat /\ v <= TRAMPOLINE
    BY VmConstants DEF VPage
  <2>2. v \div TABSIZE \in Nat /\ v \div TABSIZE <= TRAMPOLINE \div TABSIZE
    BY <1>1, <2>1, DivMod, DivMonotone
  <2>. QED
    BY <1>1, <1>5, <2>2 DEF TabIdx
<1>7. 0 \div TABSIZE = 0
  <2>1. 0 * TABSIZE + 0 = 0 /\ 0 \in 0 .. TABSIZE - 1
    BY <1>1
  <2>. QED
    BY <1>1, <2>1, DivUnique
<1>. QED
  BY <1>1, <1>5, <1>6, <1>7 DEF TabIdx

-----------------------------------------------------------------------------
(***************************************************************************)
(* Pages and their owners.                                                 *)
(***************************************************************************)
Give(O, x, W) == [O EXCEPT ![x] = W]
FreeLists == [Page -> Nat]
Owners == [Owner -> SUBSET Page]

\* Owners of different kinds or of different processes are different.
LEMMA OwnerFacts ==
    /\ \A p \in Proc : {OTf(p), OArg(p), OPt(p), ONew(p)} \subseteq Owner
    /\ \A p, q \in Proc :
          /\ OTf(p) # OArg(q) /\ OTf(p) # OPt(q) /\ OTf(p) # ONew(q)
          /\ OArg(p) # OTf(q) /\ OArg(p) # OPt(q) /\ OArg(p) # ONew(q)
          /\ OPt(p) # OTf(q) /\ OPt(p) # OArg(q) /\ OPt(p) # ONew(q)
          /\ ONew(p) # OTf(q) /\ ONew(p) # OArg(q) /\ ONew(p) # OPt(q)
          /\ OTf(p) = OTf(q) => p = q
          /\ OArg(p) = OArg(q) => p = q
          /\ OPt(p) = OPt(q) => p = q
          /\ ONew(p) = ONew(q) => p = q
    /\ \A x \in Owner : \E p \in Proc : x \in {OTf(p), OArg(p), OPt(p), ONew(p)}
  BY SMT DEF OTf, OArg, OPt, ONew, Owner

\* What each owner owns.
LEMMA OwnAt ==
    ASSUME NEW S, NEW N, NEW A
    PROVE  \A p \in Proc :
              /\ Own(S, N, A)[OTf(p)] = {S[p].tf} \ {0}
              /\ Own(S, N, A)[OArg(p)] = {A[p]} \ {0}
              /\ Own(S, N, A)[OPt(p)] = OwnedBy(S[p].pt)
              /\ Own(S, N, A)[ONew(p)] = OwnedBy(N[p])
<1>. SUFFICES ASSUME NEW p \in Proc
     PROVE  /\ Own(S, N, A)[OTf(p)] = {S[p].tf} \ {0}
            /\ Own(S, N, A)[OArg(p)] = {A[p]} \ {0}
            /\ Own(S, N, A)[OPt(p)] = OwnedBy(S[p].pt)
            /\ Own(S, N, A)[ONew(p)] = OwnedBy(N[p])
  OBVIOUS
<1>1. OTf(p)[2] = p /\ OArg(p)[2] = p /\ OPt(p)[2] = p /\ ONew(p)[2] = p
  BY DEF OTf, OArg, OPt, ONew
<1>2. OTf(p) \in Owner /\ OArg(p) \in Owner /\ OPt(p) \in Owner /\ ONew(p) \in Owner
  BY OwnerFacts
<1>3. Own(S, N, A)[OTf(p)] = {S[p].tf} \ {0}
  BY <1>1, <1>2 DEF Own
<1>4. ~\E q \in Proc : OArg(p) = OTf(q)
  BY OwnerFacts
<1>5. Own(S, N, A)[OArg(p)] = {A[p]} \ {0}
  BY <1>1, <1>2, <1>4 DEF Own
<1>6. (~\E q \in Proc : OPt(p) = OTf(q)) /\ (~\E q \in Proc : OPt(p) = OArg(q))
  BY OwnerFacts
<1>7. Own(S, N, A)[OPt(p)] = OwnedBy(S[p].pt)
  BY <1>1, <1>2, <1>6 DEF Own
<1>8. /\ ~\E q \in Proc : ONew(p) = OTf(q)
      /\ ~\E q \in Proc : ONew(p) = OArg(q)
      /\ ~\E q \in Proc : ONew(p) = OPt(q)
  BY OwnerFacts
<1>9. Own(S, N, A)[ONew(p)] = OwnedBy(N[p])
  BY <1>1, <1>2, <1>8 DEF Own
<1>. QED
  BY <1>3, <1>5, <1>7, <1>9

\* Two functions from owners are equal if they agree on the four kinds.
LEMMA OwnEqual ==
    ASSUME NEW S, NEW N, NEW A, NEW O \in Owners,
           \A p \in Proc : /\ O[OTf(p)] = {S[p].tf} \ {0}
                           /\ O[OArg(p)] = {A[p]} \ {0}
                           /\ O[OPt(p)] = OwnedBy(S[p].pt)
                           /\ O[ONew(p)] = OwnedBy(N[p])
    PROVE  Own(S, N, A) = O
<1>1. ASSUME NEW x \in Owner PROVE Own(S, N, A)[x] = O[x]
  <2>1. PICK p \in Proc : x \in {OTf(p), OArg(p), OPt(p), ONew(p)}
    BY OwnerFacts
  <2>. DEFINE Q == Own(S, N, A)
  <2>2. /\ Q[OTf(p)] = {S[p].tf} \ {0} /\ Q[OArg(p)] = {A[p]} \ {0}
        /\ Q[OPt(p)] = OwnedBy(S[p].pt) /\ Q[ONew(p)] = OwnedBy(N[p])
    BY OwnAt
  <2>. HIDE DEF Q
  <2>3. Q[x] = O[x]
    BY <2>1, <2>2, Zenon
  <2>. QED
    BY <2>3 DEF Q
<1>2. Own(S, N, A) = [x \in Owner |-> Own(S, N, A)[x]]
  BY DEF Own
<1>3. O = [x \in Owner |-> O[x]]
  BY DEF Owners
<1>. QED
  BY <1>1, <1>2, <1>3

\* What changing the pages of an owner does.
LEMMA GiveAt ==
    ASSUME NEW O \in Owners, NEW x \in Owner, NEW W \in SUBSET Page
    PROVE  /\ Give(O, x, W) \in Owners
           /\ Give(O, x, W)[x] = W
           /\ \A y \in Owner : y # x => Give(O, x, W)[y] = O[y]
  BY DEF Give, Owners

\* An owner may be given what it has, or something else twice.
LEMMA GiveGive ==
    ASSUME NEW O \in Owners, NEW x \in Owner, NEW W \in SUBSET Page, NEW V \in SUBSET Page
    PROVE  /\ Give(Give(O, x, V), x, W) = Give(O, x, W)
           /\ Give(O, x, O[x]) = O
  BY DEF Give, Owners

\* A free page, and the list without it.
LEMMA FirstFree ==
    ASSUME NEW f \in FreeLists, Avail(f) # {}
    PROVE  /\ First(f) \in Page /\ f[First(f)] > 0
           /\ \A g \in Page : f[g] > 0 => First(f) <= g
           /\ kalloc(f) \in FreeLists
           /\ kalloc(f)[First(f)] = f[First(f)] - 1
           /\ \A g \in Page : g # First(f) => kalloc(f)[g] = f[g]
           /\ kfree(kalloc(f), {First(f)}) = f
<1>1. Avail(f) \in SUBSET Nat
  BY VmConstants DEF Avail, Page
<1>2. PICK i \in Avail(f) : \A j \in Avail(f) : i <= j
  BY <1>1, Least
<1>3. First(f) \in Avail(f) /\ \A j \in Avail(f) : First(f) <= j
  BY <1>2 DEF First, Min
<1>4. First(f) \in Page /\ f[First(f)] > 0 /\ \A g \in Page : f[g] > 0 => First(f) <= g
  BY <1>3 DEF Avail
<1>. HIDE DEF First
<1>5. /\ kalloc(f) \in FreeLists
      /\ kalloc(f)[First(f)] = f[First(f)] - 1
      /\ \A g \in Page : g # First(f) => kalloc(f)[g] = f[g]
  BY <1>4 DEF kalloc, FreeLists
<1>6. kfree(kalloc(f), {First(f)}) = f
  BY <1>4, <1>5 DEF kfree, FreeLists
<1>. QED
  BY <1>4, <1>5, <1>6

\* The free list with more pages on it.
LEMMA KfreeAt ==
    ASSUME NEW f \in FreeLists, NEW W
    PROVE  /\ kfree(f, W) \in FreeLists
           /\ \A g \in Page : kfree(f, W)[g] = IF g \in W THEN f[g] + 1 ELSE f[g]
  BY DEF kfree, FreeLists

\* kalloc() gives an owner a page that no owner has.
LEMMA ExactAlloc ==
    ASSUME NEW f \in FreeLists, NEW O \in Owners, Exact(f, O), NEW x \in Owner,
           Avail(f) # {}
    PROVE  /\ \A y \in Owner : First(f) \notin O[y]
           /\ f[First(f)] = 1
           /\ Exact(kalloc(f), Give(O, x, O[x] \cup {First(f)}))
<1>. DEFINE g0 == First(f)
            P == Give(O, x, O[x] \cup {g0})
            k == kalloc(f)
<1>1. /\ g0 \in Page /\ f[g0] > 0 /\ k \in FreeLists /\ k[g0] = f[g0] - 1
      /\ \A g \in Page : g # g0 => k[g] = f[g]
  BY FirstFree
<1>2. f[g0] = 1 /\ \A y \in Owner : g0 \notin O[y]
  BY <1>1 DEF Exact
<1>3. O[x] \cup {g0} \in SUBSET Page
  BY <1>1 DEF Owners
<1>4. P \in Owners /\ P[x] = O[x] \cup {g0} /\ \A y \in Owner : y # x => P[y] = O[y]
  BY <1>3, GiveAt
<1>. HIDE DEF g0, P, k
<1>5. Exact(k, P)
  <2>1. \A g \in Page : k[g] \in {0, 1}
    BY <1>1, <1>2 DEF Exact
  <2>2. \A y, z \in Owner : \A g \in Page : g \in P[y] /\ g \in P[z] => y = z
    BY <1>2, <1>4 DEF Exact
  <2>3. \A g \in Page : k[g] = 1 <=> \A y \in Owner : g \notin P[y]
    <3>1. ASSUME NEW g \in Page, g # g0 PROVE k[g] = 1 <=> \A y \in Owner : g \notin P[y]
      BY <1>1, <1>4, <3>1 DEF Exact
    <3>2. k[g0] = 0 /\ g0 \in P[x]
      BY <1>1, <1>2, <1>4
    <3>. QED
      BY <3>1, <3>2
  <2>. QED
    BY <2>1, <2>2, <2>3 DEF Exact
<1>. QED
  BY <1>2, <1>5 DEF g0, P, k

\* kfree() of pages that an owner gives up.
LEMMA ExactFree ==
    ASSUME NEW f \in FreeLists, NEW O \in Owners, Exact(f, O), NEW x \in Owner,
           NEW W \in SUBSET O[x]
    PROVE  Exact(kfree(f, W), Give(O, x, O[x] \ W))
<1>. DEFINE P == Give(O, x, O[x] \ W)
            k == kfree(f, W)
<1>1. k \in FreeLists /\ \A g \in Page : k[g] = IF g \in W THEN f[g] + 1 ELSE f[g]
  BY KfreeAt
<1>2. O[x] \ W \in SUBSET Page /\ W \subseteq O[x]
  BY DEF Owners
<1>3. P \in Owners /\ P[x] = O[x] \ W /\ \A y \in Owner : y # x => P[y] = O[y]
  BY <1>2, GiveAt
<1>. HIDE DEF P, k
<1>4. \A g \in Page : g \in W => f[g] = 0
  BY <1>2 DEF Exact
<1>5. \A g \in Page : k[g] \in {0, 1}
  BY <1>1, <1>4 DEF Exact
<1>6. \A y, z \in Owner : \A g \in Page : g \in P[y] /\ g \in P[z] => y = z
  BY <1>2, <1>3 DEF Exact
<1>7. \A g \in Page : k[g] = 1 <=> \A y \in Owner : g \notin P[y]
  <2>1. ASSUME NEW g \in Page, g \in W PROVE k[g] = 1 /\ \A y \in Owner : g \notin P[y]
    <3>1. k[g] = 1
      BY <1>1, <1>4, <2>1
    <3>2. g \in O[x]
      BY <1>2, <2>1
    <3>3. ASSUME NEW y \in Owner PROVE g \notin P[y]
      BY <1>2, <1>3, <2>1, <3>2 DEF Exact
    <3>. QED
      BY <3>1, <3>3
  <2>2. ASSUME NEW g \in Page, g \notin W PROVE k[g] = 1 <=> \A y \in Owner : g \notin P[y]
    BY <1>1, <1>2, <1>3, <2>2 DEF Exact
  <2>. QED
    BY <2>1, <2>2
<1>. QED
  BY <1>5, <1>6, <1>7 DEF Exact, P, k

\* All of an owner's pages go to one that has none.
LEMMA ExactMove ==
    ASSUME NEW f \in FreeLists, NEW O \in Owners, Exact(f, O),
           NEW x \in Owner, NEW y \in Owner, x # y, O[y] = {}
    PROVE  Exact(f, Give(Give(O, x, {}), y, O[x]))
<1>. DEFINE P == Give(O, x, {})
            Q == Give(P, y, O[x])
<1>1. P \in Owners /\ P[x] = {} /\ \A z \in Owner : z # x => P[z] = O[z]
  BY GiveAt
<1>2. O[x] \in SUBSET Page
  BY DEF Owners
<1>. HIDE DEF P
<1>3. Q[y] = O[x] /\ \A z \in Owner : z # y => Q[z] = P[z]
  BY <1>1, <1>2, GiveAt
<1>. HIDE DEF Q
<1>4. Q[x] = {} /\ \A z \in Owner : z # x /\ z # y => Q[z] = O[z]
  BY <1>1, <1>3
<1>5. \A u, z \in Owner : \A g \in Page : g \in Q[u] /\ g \in Q[z] => u = z
  BY <1>3, <1>4 DEF Exact
<1>6. \A g \in Page : f[g] = 1 <=> \A z \in Owner : g \notin Q[z]
  <2>1. ASSUME NEW g \in Page
        PROVE  (\A z \in Owner : g \notin Q[z]) <=> (\A z \in Owner : g \notin O[z])
    BY <1>3, <1>4
  <2>. QED
    BY <2>1 DEF Exact
<1>. QED
  BY <1>5, <1>6 DEF Exact, P, Q

-----------------------------------------------------------------------------
(***************************************************************************)
(* Page tables.  A free list f and a table pt hold with owners O, of which *)
(* x is the table's, and pages G that x has and the table does not map.    *)
(***************************************************************************)
Holds(f, pt, O, x, G) ==
    /\ f \in FreeLists /\ O \in Owners /\ x \in Owner /\ pt \in Table /\ Distinct(pt)
    /\ G \subseteq Page /\ OwnedBy(pt) \subseteq Page /\ \A g \in G : g \notin OwnedBy(pt)
    /\ Exact(f, Give(O, x, OwnedBy(pt) \cup G))

\* The fields of a page table.
LEMMA TableFields ==
    ASSUME NEW pt \in Table
    PROVE  /\ pt.root \in Page \cup {0} /\ pt.tab \in [TabIdx -> Page \cup {0}]
           /\ pt.pte \in [VPage -> 0 .. NPAGES + 1] /\ pt.user \in SUBSET VPage
  BY DEF Table

\* Page tables with the same fields are the same.
LEMMA TableEqual ==
    ASSUME NEW p1 \in Table, NEW p2 \in Table, p1.root = p2.root, p1.tab = p2.tab,
           p1.pte = p2.pte, p1.user = p2.user
    PROVE  p1 = p2
  BY DEF Table

\* The pages of a table.
LEMMA InOwned ==
    ASSUME NEW pt, NEW g
    PROVE  g \in OwnedBy(pt) <=>
              /\ g # 0
              /\ g = pt.root \/ (\E t \in TabIdx : g = pt.tab[t]) \/ (\E v \in UserV : g = pt.pte[v])
  BY DEF OwnedBy, freewalk, TabIdx, UserV

\* They are pages.
LEMMA OwnedPages ==
    ASSUME NEW pt \in Table, Distinct(pt)
    PROVE  OwnedBy(pt) \subseteq Page
<1>1. ASSUME NEW g \in OwnedBy(pt) PROVE g \in Page
  <2>1. /\ g # 0
        /\ g = pt.root \/ (\E t \in TabIdx : g = pt.tab[t]) \/ (\E v \in UserV : g = pt.pte[v])
    BY InOwned
  <2>. QED
    BY <2>1, TableFields DEF Distinct
<1>. QED
  BY <1>1

\* No table at all.
LEMMA NoTableFacts ==
    /\ NoTable \in Table /\ Distinct(NoTable) /\ OwnedBy(NoTable) = {} /\ NoTable.root = 0
    /\ NoTable.user = {} /\ (\A t \in TabIdx : NoTable.tab[t] = 0)
    /\ (\A v \in VPage : NoTable.pte[v] = 0)
<1>1. /\ NoTable \in Table /\ NoTable.root = 0 /\ NoTable.user = {}
      /\ (\A t \in TabIdx : NoTable.tab[t] = 0) /\ (\A v \in VPage : NoTable.pte[v] = 0)
  BY VmConstants DEF NoTable, Table, TabIdx
<1>2. UserV \subseteq VPage
  BY VmConstants
<1>3. Distinct(NoTable)
  BY <1>1, <1>2 DEF Distinct
<1>4. OwnedBy(NoTable) = {}
  BY <1>1, <1>2, InOwned
<1>. QED
  BY <1>1, <1>3, <1>4

\* A table with a root.
WithRoot(pt, g) == [pt EXCEPT !.root = g]
LEMMA RootFields ==
    ASSUME NEW pt \in Table, NEW g \in Page \cup {0}
    PROVE  /\ WithRoot(pt, g) \in Table /\ WithRoot(pt, g).root = g
           /\ WithRoot(pt, g).tab = pt.tab /\ WithRoot(pt, g).pte = pt.pte
           /\ WithRoot(pt, g).user = pt.user
  BY DEF Table, WithRoot

\* A table with one more table.
WithTab(pt, t, g) == [pt EXCEPT !.tab[t] = g]
LEMMA TabFields ==
    ASSUME NEW pt \in Table, NEW t \in TabIdx, NEW g \in Page
    PROVE  /\ WithTab(pt, t, g) \in Table /\ WithTab(pt, t, g).root = pt.root
           /\ WithTab(pt, t, g).tab = [pt.tab EXCEPT ![t] = g]
           /\ WithTab(pt, t, g).pte = pt.pte /\ WithTab(pt, t, g).user = pt.user
  BY DEF Table, WithTab

\* A table with one more page.
LEMMA PteFields ==
    ASSUME NEW pt \in Table, NEW v \in VPage, NEW g \in 0 .. NPAGES + 1, NEW u \in SUBSET VPage
    PROVE  /\ WithPte(pt, v, g, u) \in Table /\ WithPte(pt, v, g, u).root = pt.root
           /\ WithPte(pt, v, g, u).tab = pt.tab
           /\ WithPte(pt, v, g, u).pte = [pt.pte EXCEPT ![v] = g]
           /\ WithPte(pt, v, g, u).user = pt.user \cup u
  BY DEF Table, WithPte

\* A page from the free list, for x but not yet in its table.
LEMMA TakePage ==
    ASSUME NEW f, NEW pt, NEW O, NEW x, Holds(f, pt, O, x, {}), Avail(f) # {}
    PROVE  Holds(kalloc(f), pt, O, x, {First(f)}) /\ First(f) \in Page
<1>. DEFINE W == OwnedBy(pt)
            P == Give(O, x, W)
            g == First(f)
<1>1. f \in FreeLists /\ O \in Owners /\ x \in Owner /\ pt \in Table /\ Distinct(pt)
  BY DEF Holds
<1>2. W \subseteq Page /\ W \cup {} = W
  BY DEF Holds
<1>3. P \in Owners /\ P[x] = W /\ Exact(f, P)
  BY <1>1, <1>2, GiveAt DEF Holds
<1>4. g \in Page /\ kalloc(f) \in FreeLists
  BY <1>1, FirstFree
<1>. HIDE DEF P, g, W
<1>5. (\A y \in Owner : g \notin P[y]) /\ Exact(kalloc(f), Give(P, x, P[x] \cup {g}))
  BY <1>1, <1>3, ExactAlloc DEF g
<1>6. Give(P, x, P[x] \cup {g}) = Give(O, x, W \cup {g})
  <2>1. W \cup {g} \in SUBSET Page
    BY <1>2, <1>4
  <2>. QED
    BY <1>1, <1>2, <1>3, <2>1, GiveGive DEF P
<1>7. g \notin W
  BY <1>1, <1>3, <1>5
<1>8. Holds(kalloc(f), pt, O, x, {g})
  BY <1>1, <1>2, <1>4, <1>5, <1>6, <1>7 DEF Holds, W
<1>. QED
  BY <1>4, <1>8 DEF g

\* The page becomes one of the tables.
LEMMA AddTab ==
    ASSUME NEW f, NEW pt, NEW O, NEW x, NEW G, Holds(f, pt, O, x, G),
           NEW t \in TabIdx, pt.tab[t] = 0, Avail(f) # {}
    PROVE  Holds(kalloc(f), WithTab(pt, t, First(f)), O, x, G)
<1>. DEFINE W == OwnedBy(pt)
            P == Give(O, x, W \cup G)
            g == First(f)
            q == WithTab(pt, t, g)
<1>1. f \in FreeLists /\ O \in Owners /\ x \in Owner /\ pt \in Table /\ Distinct(pt)
  BY DEF Holds
<1>2. W \subseteq Page /\ G \subseteq Page /\ W \cup G \in SUBSET Page /\ \A h \in G : h \notin W
  BY DEF Holds
<1>3. P \in Owners /\ P[x] = W \cup G /\ Exact(f, P)
  BY <1>1, <1>2, GiveAt DEF Holds
<1>4. g \in Page /\ kalloc(f) \in FreeLists
  BY <1>1, FirstFree
<1>. HIDE DEF P, g, W
<1>5. (\A y \in Owner : g \notin P[y]) /\ Exact(kalloc(f), Give(P, x, P[x] \cup {g}))
  BY <1>1, <1>3, ExactAlloc DEF g
<1>6. Give(P, x, P[x] \cup {g}) = Give(O, x, (W \cup {g}) \cup G)
  <2>1. (W \cup {g}) \cup G \in SUBSET Page /\ P[x] \cup {g} = (W \cup {g}) \cup G
    BY <1>2, <1>3, <1>4
  <2>2. Give(P, x, (W \cup {g}) \cup G) = Give(O, x, (W \cup {g}) \cup G)
    BY <1>1, <1>2, <2>1, GiveGive DEF P
  <2>. QED
    BY <2>1, <2>2
<1>7. g \notin W /\ g \notin G
  BY <1>1, <1>3, <1>5
<1>8. q \in Table /\ q.root = pt.root /\ q.tab = [pt.tab EXCEPT ![t] = g] /\ q.pte = pt.pte
  BY <1>1, <1>4, TabFields
<1>. HIDE DEF q
<1>9. /\ pt.tab \in [TabIdx -> Page \cup {0}] /\ g # 0
      /\ g # pt.root /\ (\A u \in TabIdx : g # pt.tab[u]) /\ (\A v \in UserV : g # pt.pte[v])
  <2>1. g # 0
    BY <1>4, VmConstants DEF Page
  <2>. QED
    BY <1>1, <1>7, <2>1, TableFields, InOwned DEF W
<1>10. q.tab[t] = g /\ \A u \in TabIdx : u # t => q.tab[u] = pt.tab[u]
  BY <1>8, <1>9
<1>11. Distinct(q)
  BY <1>1, <1>8, <1>9, <1>10 DEF Distinct
<1>12. OwnedBy(q) = W \cup {g}
  <2>1. ASSUME NEW h PROVE h \in OwnedBy(q) <=> h \in W \/ h = g
    <3>1. h \in OwnedBy(q) <=>
              /\ h # 0
              /\ h = q.root \/ (\E u \in TabIdx : h = q.tab[u]) \/ (\E v \in UserV : h = q.pte[v])
      BY InOwned
    <3>2. h \in W <=>
              /\ h # 0
              /\ h = pt.root \/ (\E u \in TabIdx : h = pt.tab[u]) \/ (\E v \in UserV : h = pt.pte[v])
      BY InOwned DEF W
    <3>3. h # 0 => ((\E u \in TabIdx : h = q.tab[u]) <=> h = g \/ \E u \in TabIdx : h = pt.tab[u])
      BY <1>10
    <3>. QED
      BY <1>8, <1>9, <3>1, <3>2, <3>3
  <2>. QED
    BY <2>1
<1>13. Holds(kalloc(f), q, O, x, G)
  <2>1. \A h \in G : h \notin OwnedBy(q)
    BY <1>2, <1>7, <1>12
  <2>2. OwnedBy(q) \subseteq Page
    BY <1>2, <1>4, <1>12
  <2>3. Exact(kalloc(f), Give(O, x, OwnedBy(q) \cup G))
    BY <1>5, <1>6, <1>12
  <2>. QED
    BY <1>1, <1>2, <1>4, <1>8, <1>11, <2>1, <2>2, <2>3 DEF Holds
<1>. QED
  BY <1>13 DEF q, g

\* walk() with alloc set changes the tables only, and does nothing if it fails.
WalkPost(f, pt, v, O, x, G, w) ==
    /\ w = Result(w.ok, w.free, w.pt) /\ w.ok \in BOOLEAN
    /\ Holds(w.free, w.pt, O, x, G)
    /\ ~w.ok => w.free = f /\ w.pt = pt
    /\ w.pt.root = pt.root /\ w.pt.pte = pt.pte /\ w.pt.user = pt.user
    /\ w.ok => w.pt.tab[v \div TABSIZE] # 0
    /\ pt.tab[v \div TABSIZE] # 0 => w.ok /\ w.free = f /\ w.pt = pt
    /\ Avail(f) # {} => w.ok
    /\ \A t \in TabIdx : t # v \div TABSIZE => w.pt.tab[t] = pt.tab[t]
    /\ Avail(f) # {} /\ pt.tab[v \div TABSIZE] = 0 =>
          w.free = kalloc(f) /\ w.pt.tab[v \div TABSIZE] = First(f)
LEMMA WalkHolds ==
    ASSUME NEW f, NEW pt, NEW O, NEW x, NEW G, Holds(f, pt, O, x, G), NEW v \in VPage
    PROVE  WalkPost(f, pt, v, O, x, G, walk(f, pt, v))
<1>. DEFINE t == v \div TABSIZE
            w == walk(f, pt, v)
            q == WithTab(pt, t, First(f))
<1>1. t \in TabIdx /\ f \in FreeLists /\ pt \in Table
  BY TabOf DEF Holds
<1>2. CASE pt.tab[t] # 0
  <2>1. w = Result(TRUE, f, pt)
    BY <1>2 DEF walk
  <2>. HIDE DEF w, t
  <2>2. w.ok = TRUE /\ w.free = f /\ w.pt = pt
    BY <2>1 DEF Result
  <2>3. WalkPost(f, pt, v, O, x, G, w)
    BY <1>2, <2>1, <2>2 DEF WalkPost, t
  <2>. QED
    BY <2>3 DEF w
<1>3. CASE pt.tab[t] = 0 /\ Avail(f) = {}
  <2>1. w = Result(FALSE, f, pt)
    BY <1>3 DEF walk
  <2>. HIDE DEF w, t
  <2>2. w.ok = FALSE /\ w.free = f /\ w.pt = pt
    BY <2>1 DEF Result
  <2>3. WalkPost(f, pt, v, O, x, G, w)
    BY <1>3, <2>1, <2>2 DEF WalkPost, t
  <2>. QED
    BY <2>3 DEF w
<1>4. CASE pt.tab[t] = 0 /\ Avail(f) # {}
  <2>1. w = Result(TRUE, kalloc(f), q)
    BY <1>4 DEF walk, WithTab
  <2>. HIDE DEF w
  <2>2. w.ok = TRUE /\ w.free = kalloc(f) /\ w.pt = q
    BY <2>1 DEF Result
  <2>3. First(f) \in Page
    BY <1>1, <1>4, FirstFree
  <2>4. First(f) # 0
    BY <2>3, VmConstants DEF Page
  <2>. HIDE DEF q, t
  <2>5. q.root = pt.root /\ q.pte = pt.pte /\ q.user = pt.user /\ q.tab = [pt.tab EXCEPT ![t] = First(f)]
    BY <1>1, <2>3, TabFields DEF q
  <2>6. q.tab[t] = First(f) /\ \A u \in TabIdx : u # t => q.tab[u] = pt.tab[u]
    BY <1>1, <2>5, TableFields
  <2>7. Holds(kalloc(f), q, O, x, G)
    BY <1>1, <1>4, AddTab DEF q
  <2>8. WalkPost(f, pt, v, O, x, G, w)
    BY <1>4, <2>1, <2>2, <2>4, <2>5, <2>6, <2>7 DEF WalkPost, t
  <2>. QED
    BY <2>8 DEF w
<1>. QED
  BY <1>2, <1>3, <1>4

\* The pages of a table after a change outside of what it owns.
LEMMA OwnedSame ==
    ASSUME NEW pt, NEW q, q.root = pt.root, q.tab = pt.tab,
           \A v \in UserV : q.pte[v] = pt.pte[v]
    PROVE  OwnedBy(q) = OwnedBy(pt) /\ (Distinct(pt) => Distinct(q))
<1>1. ASSUME NEW h PROVE h \in OwnedBy(q) <=> h \in OwnedBy(pt)
  BY InOwned
<1>2. Distinct(pt) => Distinct(q)
  BY DEF Distinct
<1>. QED
  BY <1>1, <1>2

\* The page that x has taken becomes one of its user pages.
LEMMA SetUser ==
    ASSUME NEW f, NEW pt, NEW O, NEW x, NEW g \in Page, Holds(f, pt, O, x, {g}),
           NEW v \in UserV, pt.pte[v] = 0, NEW u \in SUBSET VPage
    PROVE  Holds(f, WithPte(pt, v, g, u), O, x, {})
<1>. DEFINE q == WithPte(pt, v, g, u)
            W == OwnedBy(pt)
<1>1. /\ f \in FreeLists /\ O \in Owners /\ x \in Owner /\ pt \in Table /\ Distinct(pt)
      /\ W \subseteq Page /\ g \notin W /\ Exact(f, Give(O, x, W \cup {g}))
  BY DEF Holds
<1>2. v \in VPage /\ UserV \subseteq VPage /\ g \in 0 .. NPAGES + 1 /\ g # 0
  BY VmConstants DEF Page
<1>3. q \in Table /\ q.root = pt.root /\ q.tab = pt.tab /\ q.pte = [pt.pte EXCEPT ![v] = g]
  BY <1>1, <1>2, PteFields
<1>. HIDE DEF q, W
<1>4. q.pte[v] = g /\ \A w \in VPage : w # v => q.pte[w] = pt.pte[w]
  BY <1>1, <1>2, <1>3, TableFields
<1>5. g # pt.root /\ (\A t \in TabIdx : g # pt.tab[t]) /\ (\A w \in UserV : g # pt.pte[w])
  BY <1>1, <1>2, InOwned DEF W
<1>6. Distinct(q)
  BY <1>1, <1>2, <1>3, <1>4, <1>5 DEF Distinct
<1>7. OwnedBy(q) = W \cup {g}
  <2>1. ASSUME NEW h PROVE h \in OwnedBy(q) <=> h \in W \/ h = g
    <3>1. h \in OwnedBy(q) <=>
              /\ h # 0
              /\ h = q.root \/ (\E t \in TabIdx : h = q.tab[t]) \/ (\E w \in UserV : h = q.pte[w])
      BY InOwned
    <3>2. h \in W <=>
              /\ h # 0
              /\ h = pt.root \/ (\E t \in TabIdx : h = pt.tab[t]) \/ (\E w \in UserV : h = pt.pte[w])
      BY InOwned DEF W
    <3>3. h # 0 => ((\E w \in UserV : h = q.pte[w]) <=> h = g \/ \E w \in UserV : h = pt.pte[w])
      BY <1>2, <1>4
    <3>. QED
      BY <1>2, <1>3, <3>1, <3>2, <3>3
  <2>. QED
    BY <2>1
<1>8. OwnedBy(q) \cup {} = W \cup {g} /\ OwnedBy(q) \subseteq Page
  BY <1>1, <1>7
<1>9. Holds(f, q, O, x, {})
  BY <1>1, <1>3, <1>6, <1>8 DEF Holds
<1>. QED
  BY <1>9 DEF q

\* The trapframe or the trampoline is mapped: no page of x.
LEMMA SetTop ==
    ASSUME NEW f, NEW pt, NEW O, NEW x, NEW G, Holds(f, pt, O, x, G),
           NEW v \in VPage, v \notin UserV, NEW g \in 0 .. NPAGES + 1
    PROVE  Holds(f, WithPte(pt, v, g, {}), O, x, G)
<1>. DEFINE q == WithPte(pt, v, g, {})
<1>1. pt \in Table /\ Distinct(pt)
  BY DEF Holds
<1>2. q \in Table /\ q.root = pt.root /\ q.tab = pt.tab /\ q.pte = [pt.pte EXCEPT ![v] = g]
  BY <1>1, PteFields
<1>. HIDE DEF q
<1>3. \A w \in UserV : q.pte[w] = pt.pte[w]
  BY <1>1, <1>2, TableFields, VmConstants
<1>4. OwnedBy(q) = OwnedBy(pt) /\ Distinct(q)
  BY <1>1, <1>2, <1>3, OwnedSame
<1>5. Holds(f, q, O, x, G)
  BY <1>2, <1>4 DEF Holds
<1>. QED
  BY <1>5 DEF q

\* What mappages() returns.
LEMMA MapIs ==
    ASSUME NEW f, NEW pt, NEW O, NEW x, NEW G, NEW v \in VPage, NEW g, NEW u,
           WalkPost(f, pt, v, O, x, G, walk(f, pt, v))
    PROVE  LET w == walk(f, pt, v) IN
           mappages(f, pt, v, g, u) =
              IF w.ok THEN Result(TRUE, w.free, WithPte(w.pt, v, g, u)) ELSE Result(FALSE, f, pt)
<1>. DEFINE w == walk(f, pt, v)
            wf == w.free
            wp == w.pt
<1>1. w.ok \in BOOLEAN /\ w = Result(w.ok, wf, wp) /\ (~w.ok => wf = f /\ wp = pt)
  BY DEF WalkPost
<1>2. mappages(f, pt, v, g, u) = IF w.ok THEN Result(TRUE, wf, WithPte(wp, v, g, u)) ELSE w
  BY DEF mappages
<1>. HIDE DEF w, wf, wp
<1>4. ~w.ok => w = Result(FALSE, f, pt)
  BY <1>1
<1>5. mappages(f, pt, v, g, u) =
        IF w.ok THEN Result(TRUE, wf, WithPte(wp, v, g, u)) ELSE Result(FALSE, f, pt)
  BY <1>2, <1>4
<1>. QED
  BY <1>5 DEF w, wf, wp

\* mappages() of the trapframe or the trampoline.
TopPost(f, pt, v, g, O, x, m) ==
    /\ m.ok \in BOOLEAN
    /\ Holds(m.free, m.pt, O, x, {})
    /\ ~m.ok => m.free = f /\ m.pt = pt
    /\ m.pt.root = pt.root /\ m.pt.user = pt.user
    /\ m.ok => /\ m.pt.pte = [pt.pte EXCEPT ![v] = g]
               /\ m.pt.tab[v \div TABSIZE] # 0
    /\ pt.tab[v \div TABSIZE] # 0 => m.ok /\ m.free = f /\ m.pt.tab = pt.tab
    /\ Avail(f) # {} => m.ok
    /\ \A t \in TabIdx : t # v \div TABSIZE => m.pt.tab[t] = pt.tab[t]
    /\ Avail(f) # {} /\ pt.tab[v \div TABSIZE] = 0 =>
          m.free = kalloc(f) /\ m.pt.tab[v \div TABSIZE] = First(f)
LEMMA MapTop ==
    ASSUME NEW f, NEW pt, NEW O, NEW x, Holds(f, pt, O, x, {}),
           NEW v \in VPage, v \notin UserV, NEW g \in 0 .. NPAGES + 1
    PROVE  TopPost(f, pt, v, g, O, x, mappages(f, pt, v, g, {}))
<1>. DEFINE w == walk(f, pt, v)
            wf == w.free
            wp == w.pt
            m == mappages(f, pt, v, g, {})
            q == WithPte(wp, v, g, {})
<1>1. WalkPost(f, pt, v, O, x, {}, w)
  BY WalkHolds
<1>2. m = IF w.ok THEN Result(TRUE, wf, q) ELSE Result(FALSE, f, pt)
  <2>. DEFINE e == {}
  <2>1. WalkPost(f, pt, v, O, x, e, w)
    BY <1>1
  <2>. HIDE DEF e
  <2>2. mappages(f, pt, v, g, e) =
          IF w.ok THEN Result(TRUE, wf, WithPte(wp, v, g, e)) ELSE Result(FALSE, f, pt)
    BY <2>1, MapIs
  <2>. QED
    BY <2>2 DEF e
<1>. HIDE DEF w, m
<1>3. /\ w.ok \in BOOLEAN /\ Holds(wf, wp, O, x, {}) /\ (~w.ok => wf = f /\ wp = pt)
      /\ wp.root = pt.root /\ wp.pte = pt.pte /\ wp.user = pt.user
      /\ (w.ok => wp.tab[v \div TABSIZE] # 0)
      /\ (pt.tab[v \div TABSIZE] # 0 => w.ok /\ wf = f /\ wp = pt)
      /\ (Avail(f) # {} => w.ok)
      /\ (\A t \in TabIdx : t # v \div TABSIZE => wp.tab[t] = pt.tab[t])
      /\ (Avail(f) # {} /\ pt.tab[v \div TABSIZE] = 0 =>
            wf = kalloc(f) /\ wp.tab[v \div TABSIZE] = First(f))
  BY <1>1 DEF WalkPost
<1>. HIDE DEF wf, wp
<1>4. Holds(wf, q, O, x, {})
  BY <1>3, SetTop
<1>5. wp \in Table /\ {} \in SUBSET VPage /\ wp.user \cup {} = wp.user
  BY <1>3 DEF Holds
<1>6. q.root = wp.root /\ q.tab = wp.tab /\ q.pte = [wp.pte EXCEPT ![v] = g] /\ q.user = wp.user
  BY <1>5 DEF WithPte, Table
<1>. HIDE DEF q
<1>7. w.ok => m.ok = TRUE /\ m.free = wf /\ m.pt = q
  BY <1>2 DEF Result
<1>8. ~w.ok => m.ok = FALSE /\ m.free = f /\ m.pt = pt
  BY <1>2 DEF Result
<1>9. TopPost(f, pt, v, g, O, x, m)
  <2>1. CASE w.ok
    BY <1>3, <1>4, <1>6, <1>7, <2>1 DEF TopPost
  <2>2. CASE ~w.ok
    BY <1>3, <1>8, <2>2 DEF TopPost
  <2>. QED
    BY <1>3, <2>1, <2>2
<1>. QED
  BY <1>9 DEF m

\* A round of uvmalloc() or uvmcopy() maps one page more, or changes nothing.
AllocPost(f, pt, v, u, O, x, m) ==
    /\ m.ok \in BOOLEAN
    /\ Holds(m.free, m.pt, O, x, {})
    /\ ~m.ok => m.free = f /\ m.pt = pt
    /\ m.ok => /\ m.pt.root = pt.root /\ m.pt.user = pt.user \cup u
               /\ \E g \in Page : m.pt.pte = [pt.pte EXCEPT ![v] = g]
LEMMA AllocPage ==
    ASSUME NEW f, NEW pt, NEW O, NEW x, Holds(f, pt, O, x, {}),
           NEW v \in UserV, pt.pte[v] = 0, NEW u \in SUBSET VPage
    PROVE  AllocPost(f, pt, v, u, O, x, uvmalloc_page(f, pt, v, u))
<1>. DEFINE g == First(f)
            k == kalloc(f)
            w == walk(k, pt, v)
            wf == w.free
            wp == w.pt
            m == mappages(k, pt, v, g, u)
            q == WithPte(wp, v, g, u)
            r == uvmalloc_page(f, pt, v, u)
<1>0. v \in VPage /\ f \in FreeLists
  BY VmConstants DEF Holds
<1>1. CASE Avail(f) = {}
  <2>1. r = Result(FALSE, f, pt)
    BY <1>1 DEF uvmalloc_page
  <2>. HIDE DEF r
  <2>2. r.ok = FALSE /\ r.free = f /\ r.pt = pt
    BY <2>1 DEF Result
  <2>3. AllocPost(f, pt, v, u, O, x, r)
    BY <2>2 DEF AllocPost
  <2>. QED
    BY <2>3 DEF r
<1>2. CASE Avail(f) # {}
  <2>1. Holds(k, pt, O, x, {g}) /\ g \in Page
    BY <1>2, TakePage
  <2>2. kfree(k, {g}) = f
    BY <1>0, <1>2, FirstFree
  <2>3. r = IF m.ok THEN m ELSE Result(FALSE, kfree(m.free, {g}), m.pt)
    BY <1>2 DEF uvmalloc_page
  <2>. HIDE DEF g, k
  <2>4. WalkPost(k, pt, v, O, x, {g}, w)
    BY <1>0, <2>1, WalkHolds
  <2>5. m = IF w.ok THEN Result(TRUE, wf, q) ELSE Result(FALSE, k, pt)
    BY <1>0, <2>4, MapIs
  <2>. HIDE DEF w, m, r
  <2>6. /\ w.ok \in BOOLEAN /\ Holds(wf, wp, O, x, {g})
        /\ wp.root = pt.root /\ wp.pte = pt.pte /\ wp.user = pt.user
    BY <2>4 DEF WalkPost
  <2>. HIDE DEF wf, wp
  <2>7. wp.pte[v] = 0
    BY <2>6
  <2>8. Holds(wf, q, O, x, {})
    BY <2>1, <2>6, <2>7, SetUser
  <2>9. wp \in Table /\ g \in 0 .. NPAGES + 1
    BY <2>1, <2>6, VmConstants DEF Holds, Page
  <2>10. q.root = wp.root /\ q.pte = [wp.pte EXCEPT ![v] = g] /\ q.user = wp.user \cup u
    BY <1>0, <2>9, PteFields
  <2>. HIDE DEF q
  <2>11. CASE w.ok
    <3>1. m = Result(TRUE, wf, q)
      BY <2>5, <2>11
    <3>2. m.ok = TRUE /\ m.free = wf /\ m.pt = q
      BY <3>1 DEF Result
    <3>3. r.ok = TRUE /\ r.free = wf /\ r.pt = q
      BY <2>3, <3>2
    <3>4. AllocPost(f, pt, v, u, O, x, r)
      BY <2>1, <2>6, <2>8, <2>10, <3>3 DEF AllocPost
    <3>. QED
      BY <3>4 DEF r
  <2>12. CASE ~w.ok
    <3>1. m = Result(FALSE, k, pt)
      BY <2>5, <2>12
    <3>2. m.ok = FALSE /\ m.free = k /\ m.pt = pt
      BY <3>1 DEF Result
    <3>3. r = Result(FALSE, f, pt)
      BY <2>2, <2>3, <3>2
    <3>4. r.ok = FALSE /\ r.free = f /\ r.pt = pt
      BY <3>3 DEF Result
    <3>5. AllocPost(f, pt, v, u, O, x, r)
      BY <3>4 DEF AllocPost
    <3>. QED
      BY <3>5 DEF r
  <2>. QED
    BY <2>6, <2>11, <2>12
<1>. QED
  BY <1>1, <1>2

\* uvmunmap() of the last user pages gives back what they are.
UnmapPost(f, pt, j, k, O, x, q) ==
    /\ Holds(kfree(f, Leaves(pt, j, k)), q, O, x, {}) /\ ~uvmunmap_panics(pt, j, k)
    /\ Prefix(q, j) /\ q.root = pt.root /\ q.user = pt.user \cap (0 .. j - 1)
    /\ q.pte[TRAPFRAME] = pt.pte[TRAPFRAME] /\ q.pte[TRAMPOLINE] = pt.pte[TRAMPOLINE]
LEMMA Unmap ==
    ASSUME NEW f, NEW pt, NEW O, NEW x, Holds(f, pt, O, x, {}),
           NEW k, Prefix(pt, k), NEW j \in 0 .. k
    PROVE  UnmapPost(f, pt, j, k, O, x, uvmunmap(pt, j, k))
<1>. DEFINE q == uvmunmap(pt, j, k)
            W == OwnedBy(pt)
            L == Leaves(pt, j, k)
            P == Give(O, x, W)
<1>0. /\ USERPAGES \in Nat /\ k \in 0 .. USERPAGES /\ UserV \subseteq VPage /\ j \in Nat
      /\ UserV = 0 .. USERPAGES - 1 /\ VPage \subseteq Nat
      /\ TRAPFRAME \in VPage /\ TRAMPOLINE \in VPage
      /\ TRAPFRAME >= USERPAGES /\ TRAMPOLINE >= USERPAGES
  BY VmConstants DEF Prefix, UserV, VPage
<1>1. /\ f \in FreeLists /\ O \in Owners /\ x \in Owner /\ pt \in Table /\ Distinct(pt)
      /\ W \subseteq Page
  BY DEF Holds
<1>2. W \cup {} = W
  OBVIOUS
<1>3. P \in Owners /\ P[x] = W /\ Exact(f, P)
  BY <1>1, <1>2, GiveAt DEF Holds
<1>4. /\ q \in Table /\ q.root = pt.root /\ q.tab = pt.tab /\ q.user = pt.user \ (j .. k - 1)
      /\ q.pte = [v \in VPage |-> IF v \in j .. k - 1 THEN 0 ELSE pt.pte[v]]
  <2>. DEFINE n0 == [v \in VPage |-> IF v \in j .. k - 1 THEN 0 ELSE pt.pte[v]]
              u == pt.user \ (j .. k - 1)
  <2>1. /\ pt.pte \in [VPage -> 0 .. NPAGES + 1] /\ pt.user \in SUBSET VPage
        /\ 0 \in 0 .. NPAGES + 1
    BY <1>1, TableFields, VmConstants
  <2>2. n0 \in [VPage -> 0 .. NPAGES + 1] /\ u \in SUBSET VPage
    BY <2>1
  <2>3. q = [pt EXCEPT !.pte = n0, !.user = u]
    BY DEF uvmunmap
  <2>. HIDE DEF n0, u, q
  <2>4. q \in Table /\ q.root = pt.root /\ q.tab = pt.tab /\ q.user = u /\ q.pte = n0
    BY <1>1, <2>2, <2>3 DEF Table
  <2>. QED
    BY <2>4 DEF n0, u
<1>. HIDE DEF q, W, L, P
<1>5. \A v \in VPage : q.pte[v] = IF v \in j .. k - 1 THEN 0 ELSE pt.pte[v]
  BY <1>4
<1>6. \A v \in UserV : pt.pte[v] # 0 <=> v < k
  BY DEF Prefix
<1>7. Distinct(q)
  BY <1>0, <1>1, <1>4, <1>5 DEF Distinct
<1>8. \A g : g \in L <=> \E v \in UserV : v >= j /\ v < k /\ g = pt.pte[v]
  <2>1. \A v : v \in j .. k - 1 <=> v \in UserV /\ v >= j /\ v < k
    BY <1>0
  <2>2. \A g : g \in L <=> \E v \in j .. k - 1 : g = pt.pte[v]
    BY DEF L, Leaves
  <2>. QED
    BY <2>1, <2>2
<1>9. L \subseteq W
  <2>1. ASSUME NEW g \in L PROVE g \in W
    <3>1. PICK v \in UserV : v >= j /\ v < k /\ g = pt.pte[v]
      BY <1>8
    <3>2. g # 0
      BY <1>6, <3>1
    <3>. QED
      BY <3>1, <3>2, InOwned DEF W
  <2>. QED
    BY <2>1
<1>10. 0 \notin L
  BY <1>6, <1>8
<1>11. OwnedBy(q) = W \ L
  <2>1. ASSUME NEW h PROVE h \in OwnedBy(q) <=> h \in W /\ h \notin L
    <3>1. h \in OwnedBy(q) <=>
              /\ h # 0
              /\ h = q.root \/ (\E u \in TabIdx : h = q.tab[u]) \/ (\E v \in UserV : h = q.pte[v])
      BY InOwned
    <3>2. h \in W <=>
              /\ h # 0
              /\ h = pt.root \/ (\E u \in TabIdx : h = pt.tab[u]) \/ (\E v \in UserV : h = pt.pte[v])
      BY InOwned DEF W
    <3>3. h # 0 => ((\E v \in UserV : h = q.pte[v]) <=>
                      (\E v \in UserV : h = pt.pte[v]) /\ h \notin L)
      <4>1. ASSUME h # 0, NEW v \in UserV, h = q.pte[v]
            PROVE  (\E u \in UserV : h = pt.pte[u]) /\ h \notin L
        <5>1. h = pt.pte[v] /\ v \notin j .. k - 1
          BY <1>0, <1>5, <4>1
        <5>2. ASSUME NEW u \in UserV, u >= j, u < k, h = pt.pte[u] PROVE FALSE
          <6>1. u = v
            BY <1>1, <4>1, <5>1, <5>2 DEF Distinct
          <6>. QED
            BY <1>0, <5>1, <5>2, <6>1
        <5>. QED
          BY <1>8, <5>1, <5>2
      <4>2. ASSUME h # 0, NEW v \in UserV, h = pt.pte[v], h \notin L
            PROVE  \E u \in UserV : h = q.pte[u]
        BY <1>0, <1>5, <1>8, <4>2
      <4>. QED
        BY <4>1, <4>2
    <3>4. h \in L => h # 0 /\ h # pt.root /\ \A u \in TabIdx : h # pt.tab[u]
      <4>1. ASSUME h \in L PROVE h # 0 /\ h # pt.root /\ \A u \in TabIdx : h # pt.tab[u]
        <5>1. PICK v \in UserV : v >= j /\ v < k /\ h = pt.pte[v]
          BY <1>8, <4>1
        <5>. QED
          BY <1>1, <1>6, <5>1 DEF Distinct
      <4>. QED
        BY <4>1
    <3>. QED
      BY <1>4, <3>1, <3>2, <3>3, <3>4
  <2>. QED
    BY <2>1
<1>12. Exact(kfree(f, L), Give(P, x, P[x] \ L)) /\ kfree(f, L) \in FreeLists
  BY <1>1, <1>3, <1>9, ExactFree, KfreeAt
<1>13. Give(P, x, P[x] \ L) = Give(O, x, OwnedBy(q))
  <2>1. W \ L \in SUBSET Page /\ W \in SUBSET Page
    BY <1>1
  <2>2. Give(P, x, W \ L) = Give(O, x, W \ L)
    BY <1>1, <2>1, GiveGive DEF P
  <2>. QED
    BY <1>3, <1>11, <2>2
<1>14. Holds(kfree(f, L), q, O, x, {})
  <2>1. OwnedBy(q) \cup {} = OwnedBy(q) /\ OwnedBy(q) \subseteq Page /\ {} \subseteq Page
    BY <1>1, <1>11
  <2>. QED
    BY <1>1, <1>4, <1>7, <1>12, <1>13, <2>1 DEF Holds
<1>15. q.user = pt.user \cap (0 .. j - 1)
  BY <1>0, <1>4 DEF Prefix
<1>16. Prefix(q, j)
  <2>1. j \in 0 .. USERPAGES
    BY <1>0
  <2>2. \A v \in UserV : q.pte[v] # 0 <=> v < j
    BY <1>0, <1>5, <1>6
  <2>3. \A v \in VPage : v >= USERPAGES /\ v < TRAPFRAME => q.pte[v] = 0
    BY <1>0, <1>5 DEF Prefix
  <2>. QED
    BY <1>15, <2>1, <2>2, <2>3 DEF Prefix
<1>17. q.pte[TRAPFRAME] = pt.pte[TRAPFRAME] /\ q.pte[TRAMPOLINE] = pt.pte[TRAMPOLINE]
  <2>1. TRAPFRAME \notin j .. k - 1 /\ TRAMPOLINE \notin j .. k - 1
    BY <1>0
  <2>. QED
    BY <1>0, <1>5, <2>1
<1>18. ~uvmunmap_panics(pt, j, k)
  BY <1>10 DEF uvmunmap_panics, L
<1>19. UnmapPost(f, pt, j, k, O, x, q)
  <2>1. Holds(kfree(f, Leaves(pt, j, k)), q, O, x, {})
    BY <1>14 DEF L
  <2>. QED
    BY <1>4, <1>15, <1>16, <1>17, <1>18, <2>1 DEF UnmapPost
<1>. QED
  BY <1>19 DEF q

\* uvmdealloc() from the size that is mapped.
DeallocPost(f, pt, oldsz, newsz, O, x, d) ==
    /\ d.ok = TRUE /\ Holds(d.free, d.pt, O, x, {})
    /\ newsz >= oldsz => d.free = f /\ d.pt = pt
    /\ newsz < oldsz => /\ Prefix(d.pt, Pages(newsz))
                        /\ d.pt.user = pt.user \cap (0 .. Pages(newsz) - 1)
    /\ d.pt.root = pt.root
    /\ d.pt.pte[TRAPFRAME] = pt.pte[TRAPFRAME] /\ d.pt.pte[TRAMPOLINE] = pt.pte[TRAMPOLINE]
LEMMA Dealloc ==
    ASSUME NEW f, NEW pt, NEW O, NEW x, Holds(f, pt, O, x, {}),
           NEW oldsz \in Nat, NEW newsz \in Nat, Prefix(pt, Pages(oldsz))
    PROVE  DeallocPost(f, pt, oldsz, newsz, O, x, uvmdealloc(f, pt, oldsz, newsz))
<1>. DEFINE d == uvmdealloc(f, pt, oldsz, newsz)
            j == Pages(newsz)
            k == Pages(oldsz)
            q == uvmunmap(pt, j, k)
<1>1. j \in Nat /\ k \in Nat /\ (newsz <= oldsz => j <= k)
  BY PagesOf
<1>2. CASE newsz >= oldsz \/ j >= k
  <2>1. d = Result(TRUE, f, pt)
    BY <1>2 DEF uvmdealloc
  <2>. HIDE DEF d, j, k
  <2>2. d.ok = TRUE /\ d.free = f /\ d.pt = pt
    BY <2>1 DEF Result
  <2>3. newsz < oldsz => j = k
    BY <1>1, <1>2
  <2>4. Prefix(pt, k) /\ pt.user = pt.user \cap (0 .. k - 1)
    BY DEF Prefix, k
  <2>5. DeallocPost(f, pt, oldsz, newsz, O, x, d)
    BY <2>2, <2>3, <2>4 DEF DeallocPost, j
  <2>. QED
    BY <2>5 DEF d
<1>3. CASE newsz < oldsz /\ j < k
  <2>1. d = Result(~uvmunmap_panics(pt, j, k), kfree(f, Leaves(pt, j, k)), q)
    <3>1. ~(newsz >= oldsz \/ j >= k)
      BY <1>1, <1>3
    <3>. QED
      BY <3>1, Zenon DEF uvmdealloc
  <2>. HIDE DEF d, j, k
  <2>2. j \in 0 .. k /\ Prefix(pt, k)
    BY <1>1, <1>3 DEF k
  <2>3. UnmapPost(f, pt, j, k, O, x, q)
    BY <2>2, Unmap
  <2>. HIDE DEF q
  <2>4. d.ok = TRUE /\ d.free = kfree(f, Leaves(pt, j, k)) /\ d.pt = q
    BY <2>1, <2>3 DEF Result, UnmapPost
  <2>5. ~ newsz >= oldsz
    BY <1>3
  <2>6. /\ Holds(d.free, d.pt, O, x, {}) /\ Prefix(d.pt, j)
        /\ d.pt.user = pt.user \cap (0 .. j - 1) /\ d.pt.root = pt.root
        /\ d.pt.pte[TRAPFRAME] = pt.pte[TRAPFRAME]
        /\ d.pt.pte[TRAMPOLINE] = pt.pte[TRAMPOLINE]
    BY <2>3, <2>4 DEF UnmapPost
  <2>7. DeallocPost(f, pt, oldsz, newsz, O, x, d)
    BY <2>4, <2>5, <2>6 DEF DeallocPost, j
  <2>. QED
    BY <2>7 DEF d
<1>. QED
  BY <1>1, <1>2, <1>3

\* The trapframe and the trampoline are unmapped before a table is freed.
LEMMA UnmapTop ==
    ASSUME NEW f, NEW pt, NEW O, NEW x, Holds(f, pt, O, x, {}), NEW k, Prefix(pt, k),
           NEW tf \in Page, Top(pt, tf)
    PROVE  LET q == uvmunmap(pt, TRAPFRAME, TRAMPOLINE + 1) IN
           /\ ~uvmunmap_panics(pt, TRAPFRAME, TRAMPOLINE + 1)
           /\ Holds(f, q, O, x, {}) /\ Prefix(q, k)
           /\ q.pte[TRAPFRAME] = 0 /\ q.pte[TRAMPOLINE] = 0
<1>. DEFINE q == uvmunmap(pt, TRAPFRAME, TRAMPOLINE + 1)
            T == TRAPFRAME .. (TRAMPOLINE + 1) - 1
<1>0. /\ USERPAGES \in Nat /\ UserV = 0 .. USERPAGES - 1 /\ VPage \subseteq Nat /\ NPAGES \in Nat
      /\ TRAPFRAME \in VPage /\ TRAMPOLINE \in VPage /\ k \in 0 .. USERPAGES
      /\ TRAPFRAME >= USERPAGES /\ TRAMPOLINE = TRAPFRAME + 1 /\ TRAPFRAME \in Nat
  BY VmConstants DEF Prefix, UserV, VPage
<1>1. \A v : v \in T <=> v = TRAPFRAME \/ v = TRAMPOLINE
  BY <1>0
<1>2. pt \in Table /\ Distinct(pt)
  BY DEF Holds
<1>3. /\ q \in Table /\ q.root = pt.root /\ q.tab = pt.tab /\ q.user = pt.user \ T
      /\ q.pte = [v \in VPage |-> IF v \in T THEN 0 ELSE pt.pte[v]]
  <2>. DEFINE n0 == [v \in VPage |-> IF v \in T THEN 0 ELSE pt.pte[v]]
              u == pt.user \ T
  <2>1. /\ pt.pte \in [VPage -> 0 .. NPAGES + 1] /\ pt.user \in SUBSET VPage
        /\ 0 \in 0 .. NPAGES + 1
    BY <1>0, <1>2, TableFields
  <2>. HIDE DEF T
  <2>2. n0 \in [VPage -> 0 .. NPAGES + 1] /\ u \in SUBSET VPage
    BY <2>1
  <2>3. q = [pt EXCEPT !.pte = n0, !.user = u]
    BY DEF uvmunmap, T
  <2>. HIDE DEF n0, u, q
  <2>4. q \in Table /\ q.root = pt.root /\ q.tab = pt.tab /\ q.user = u /\ q.pte = n0
    BY <1>2, <2>2, <2>3 DEF Table
  <2>. QED
    BY <2>4 DEF n0, u
<1>4. ~uvmunmap_panics(pt, TRAPFRAME, TRAMPOLINE + 1)
  <2>1. pt.pte[TRAPFRAME] # 0 /\ pt.pte[TRAMPOLINE] # 0
    BY <1>0 DEF Top, TrampolineText, Page
  <2>2. \A v \in T : pt.pte[v] # 0
    BY <1>1, <2>1
  <2>. QED
    BY <2>2 DEF uvmunmap_panics, Leaves
<1>. HIDE DEF q, T
<1>5. \A v \in VPage : q.pte[v] = IF v = TRAPFRAME \/ v = TRAMPOLINE THEN 0 ELSE pt.pte[v]
  BY <1>1, <1>3
<1>6. /\ \A v \in UserV : q.pte[v] = pt.pte[v]
      /\ \A v \in VPage : v >= USERPAGES /\ v < TRAPFRAME => q.pte[v] = pt.pte[v]
  <2>1. \A v \in UserV : v \in VPage /\ v # TRAPFRAME /\ v # TRAMPOLINE
    BY <1>0, VmConstants
  <2>2. \A v \in VPage : v < TRAPFRAME => v # TRAPFRAME /\ v # TRAMPOLINE
    BY <1>0
  <2>. QED
    BY <1>5, <2>1, <2>2
<1>7. OwnedBy(q) = OwnedBy(pt) /\ Distinct(q)
  BY <1>2, <1>3, <1>6, OwnedSame
<1>8. Holds(f, q, O, x, {})
  BY <1>3, <1>7 DEF Holds
<1>9. Prefix(q, k)
  BY <1>3, <1>6 DEF Prefix
<1>10. q.pte[TRAPFRAME] = 0 /\ q.pte[TRAMPOLINE] = 0
  BY <1>0, <1>5, Zenon
<1>. QED
  BY <1>4, <1>8, <1>9, <1>10 DEF q

\* A table whose user pages are its first is freed with all of them.
LEMMA UvmfreeAll ==
    ASSUME NEW f, NEW pt, NEW O, NEW x, Holds(f, pt, O, x, {}),
           NEW s \in Nat, Prefix(pt, Pages(s)), pt.pte[TRAPFRAME] = 0, pt.pte[TRAMPOLINE] = 0
    PROVE  LET W == OwnedBy(pt) IN
           /\ uvmfree(f, pt, s) = Result(TRUE, kfree(f, W), NoTable)
           /\ kfree(f, W) \in FreeLists /\ Exact(kfree(f, W), Give(O, x, {}))
<1>. DEFINE k == Pages(s)
            q == uvmunmap(pt, 0, k)
            W == OwnedBy(pt)
            P == Give(O, x, W)
<1>0. /\ k \in Nat /\ USERPAGES \in Nat /\ UserV = 0 .. USERPAGES - 1 /\ VPage \subseteq Nat
      /\ TRAMPOLINE = TRAPFRAME + 1 /\ TRAPFRAME \in Nat /\ VPage = 0 .. TRAMPOLINE
  BY PagesOf, VmConstants DEF UserV, VPage
<1>1. /\ f \in FreeLists /\ O \in Owners /\ x \in Owner /\ pt \in Table /\ W \subseteq Page
  BY DEF Holds
<1>. HIDE DEF k
<1>2. UnmapPost(f, pt, 0, k, O, x, q)
  <2>1. 0 \in 0 .. k /\ Prefix(pt, k)
    BY <1>0 DEF k
  <2>. QED
    BY <2>1, Unmap
<1>. HIDE DEF q
<1>3. ~freewalk_panics(q)
  <2>1. ASSUME NEW v \in VPage PROVE q.pte[v] = 0
    <3>1. Prefix(q, 0) /\ q.pte[TRAPFRAME] = 0 /\ q.pte[TRAMPOLINE] = 0
      BY <1>2 DEF UnmapPost
    <3>2. v \in UserV => q.pte[v] = 0
      BY <1>0, <3>1 DEF Prefix
    <3>3. v >= USERPAGES /\ v < TRAPFRAME => q.pte[v] = 0
      BY <3>1 DEF Prefix
    <3>4. v \in UserV \/ (v >= USERPAGES /\ v < TRAPFRAME) \/ v = TRAPFRAME \/ v = TRAMPOLINE
      BY <1>0
    <3>. QED
      BY <3>1, <3>2, <3>3, <3>4
  <2>. QED
    BY <2>1 DEF freewalk_panics
<1>4. Leaves(pt, 0, k) \cup freewalk(pt) = W
  <2>1. k \in 0 .. USERPAGES /\ \A v \in UserV : pt.pte[v] # 0 <=> v < k
    BY DEF Prefix, k
  <2>2. Leaves(pt, 0, k) = {pt.pte[v] : v \in UserV} \ {0}
    <3>1. ASSUME NEW g PROVE g \in Leaves(pt, 0, k) <=> g \in {pt.pte[v] : v \in UserV} \ {0}
      <4>1. \A v : v \in 0 .. k - 1 <=> v \in UserV /\ v < k
        BY <1>0, <2>1
      <4>2. g \in Leaves(pt, 0, k) <=> \E v \in 0 .. k - 1 : g = pt.pte[v]
        BY DEF Leaves
      <4>. QED
        BY <2>1, <4>1, <4>2
    <3>. QED
      BY <3>1
  <2>3. W = freewalk(pt) \cup ({pt.pte[v] : v \in UserV} \ {0})
    BY DEF OwnedBy, UserV
  <2>. QED
    BY <2>2, <2>3
<1>5. uvmfree(f, pt, s) = Result(TRUE, kfree(f, W), NoTable)
  <2>1. uvmfree(f, pt, s) = Result(~uvmunmap_panics(pt, 0, k) /\ ~freewalk_panics(q),
                                   kfree(f, Leaves(pt, 0, k) \cup freewalk(pt)), NoTable)
    BY DEF uvmfree, k, q
  <2>2. ~uvmunmap_panics(pt, 0, k)
    BY <1>2 DEF UnmapPost
  <2>3. (~uvmunmap_panics(pt, 0, k) /\ ~freewalk_panics(q)) = TRUE
    BY <1>3, <2>2
  <2>. QED
    BY <1>4, <2>1, <2>3
<1>6. P \in Owners /\ P[x] = W /\ Exact(f, P)
  <2>1. W \cup {} = W
    OBVIOUS
  <2>. QED
    BY <1>1, <2>1, GiveAt DEF Holds
<1>. HIDE DEF P, W
<1>7. Exact(kfree(f, W), Give(P, x, P[x] \ W)) /\ kfree(f, W) \in FreeLists
  BY <1>1, <1>6, ExactFree, KfreeAt
<1>8. Give(P, x, P[x] \ W) = Give(O, x, {})
  <2>. DEFINE e == P[x] \ W
  <2>1. e = {} /\ e \in SUBSET Page /\ W \in SUBSET Page
    BY <1>1, <1>6
  <2>. HIDE DEF e
  <2>2. Give(P, x, e) = Give(O, x, e)
    BY <1>1, <2>1, GiveGive DEF P
  <2>. QED
    BY <2>1, <2>2 DEF e
<1>. QED
  BY <1>5, <1>7, <1>8 DEF W

\* proc_freepagetable() leaves x nothing, and does not panic.
FreePost(r, O, x) ==
    r.ok = TRUE /\ r.free \in FreeLists /\ Exact(r.free, Give(O, x, {}))
LEMMA FreePagetable ==
    ASSUME NEW f, NEW pt, NEW O, NEW x, Holds(f, pt, O, x, {}),
           NEW s \in Nat, Prefix(pt, Pages(s)), NEW tf \in Page, Top(pt, tf)
    PROVE  FreePost(proc_freepagetable(f, pt, s), O, x)
<1>. DEFINE q == uvmunmap(pt, TRAPFRAME, TRAMPOLINE + 1)
            W == OwnedBy(q)
            r == uvmfree(f, q, s)
            d == proc_freepagetable(f, pt, s)
            no == uvmunmap_panics(pt, TRAPFRAME, TRAMPOLINE + 1)
<1>1. /\ ~no /\ Holds(f, q, O, x, {}) /\ Prefix(q, Pages(s))
      /\ q.pte[TRAPFRAME] = 0 /\ q.pte[TRAMPOLINE] = 0
  BY UnmapTop
<1>2. d = [r EXCEPT !.ok = @ /\ ~no]
  BY DEF proc_freepagetable
<1>. HIDE DEF q, d, no
<1>3. /\ r = Result(TRUE, kfree(f, W), NoTable)
      /\ kfree(f, W) \in FreeLists /\ Exact(kfree(f, W), Give(O, x, {}))
  BY <1>1, UvmfreeAll
<1>. HIDE DEF r, W
<1>4. d.ok = TRUE /\ d.free = kfree(f, W)
  BY <1>1, <1>2, <1>3 DEF Result
<1>5. FreePost(d, O, x)
  BY <1>3, <1>4 DEF FreePost
<1>. QED
  BY <1>5 DEF d

-----------------------------------------------------------------------------
(***************************************************************************)
(* What the invariant says of a process, and what a step must keep.        *)
(***************************************************************************)
Rows(q) == SlotRow(q) /\ CallRow(q) /\ NewRow(q) /\ SizeRow(q)
Owning == Own(slot, new, arg)

\* The types of the parts.
LEMMA VmParts ==
    ASSUME VmInv, NEW p \in Proc
    PROVE  /\ free \in FreeLists /\ slot[p] \in SlotRec /\ stage[p] \in Stages /\ kid[p] \in Proc
           /\ slot[p].used \in BOOLEAN /\ slot[p].tf \in Page \cup {0} /\ slot[p].pt \in Table
           /\ slot[p].sz \in Nat /\ new[p] \in Table /\ arg[p] \in Page \cup {0}
           /\ sz[p] \in Nat /\ a[p] \in Nat /\ to[p] \in Nat /\ ~panicked
           /\ Rows(p) /\ Distinct(slot[p].pt) /\ Distinct(new[p])
<1>1. /\ free \in FreeLists /\ slot[p] \in SlotRec /\ stage[p] \in Stages /\ kid[p] \in Proc
      /\ new[p] \in Table /\ arg[p] \in Page \cup {0}
      /\ sz[p] \in Nat /\ a[p] \in Nat /\ to[p] \in Nat /\ ~panicked
  BY DEF VmInv, VmTypeOK, FreeLists
<1>2. /\ slot[p].used \in BOOLEAN /\ slot[p].tf \in Page \cup {0} /\ slot[p].pt \in Table
      /\ slot[p].sz \in Nat
  BY <1>1 DEF SlotRec
<1>3. Rows(p)
  BY DEF VmInv, SlotInv, CallInv, NewInv, SizeInv, Rows
<1>4. Distinct(slot[p].pt) /\ Distinct(new[p])
  BY <1>3 DEF Rows, SlotRow, NewRow
<1>. QED
  BY <1>1, <1>2, <1>3, <1>4

\* The owners of the state, and that each table holds with them.
LEMMA HoldsOf ==
    ASSUME NEW f \in FreeLists, NEW O \in Owners, Exact(f, O), NEW x \in Owner,
           NEW pt \in Table, Distinct(pt), O[x] = OwnedBy(pt)
    PROVE  Holds(f, pt, O, x, {})
<1>. DEFINE W == OwnedBy(pt)
<1>1. W \subseteq Page /\ W \cup {} = W
  BY OwnedPages
<1>2. Give(O, x, O[x]) = O
  BY DEF Give, Owners
<1>3. Exact(f, Give(O, x, W \cup {}))
  BY <1>1, <1>2
<1>. QED
  BY <1>1, <1>3 DEF Holds

\* The converse: what the owners are after an operation on a table.
LEMMA HoldsExact ==
    ASSUME NEW f, NEW O, NEW x, NEW pt, Holds(f, pt, O, x, {})
    PROVE  \E P \in Owners :
              /\ f \in FreeLists /\ Exact(f, P) /\ P[x] = OwnedBy(pt)
              /\ \A y \in Owner : y # x => P[y] = O[y]
<1>. DEFINE W == OwnedBy(pt)
            P == Give(O, x, W)
<1>1. W \subseteq Page /\ W \cup {} = W /\ O \in Owners /\ x \in Owner /\ f \in FreeLists
  BY DEF Holds
<1>2. P \in Owners /\ P[x] = W /\ \A y \in Owner : y # x => P[y] = O[y]
  BY <1>1, GiveAt
<1>3. Exact(f, P)
  BY <1>1 DEF Holds
<1>. QED
  BY <1>1, <1>2, <1>3

\* The owners of the state.
LEMMA VmOwners ==
    ASSUME VmInv
    PROVE  /\ Owning \in Owners /\ Exact(free, Owning) /\ free \in FreeLists
           /\ \A p \in Proc :
                /\ Owning[OTf(p)] = {slot[p].tf} \ {0} /\ Owning[OArg(p)] = {arg[p]} \ {0}
                /\ Owning[OPt(p)] = OwnedBy(slot[p].pt) /\ Owning[ONew(p)] = OwnedBy(new[p])
           /\ \A p \in Proc : Holds(free, slot[p].pt, Owning, OPt(p), {})
           /\ \A p \in Proc : Holds(free, new[p], Owning, ONew(p), {})
<1>1. \A p \in Proc :
         /\ Owning[OTf(p)] = {slot[p].tf} \ {0} /\ Owning[OArg(p)] = {arg[p]} \ {0}
         /\ Owning[OPt(p)] = OwnedBy(slot[p].pt) /\ Owning[ONew(p)] = OwnedBy(new[p])
  BY OwnAt DEF Owning
<1>2. Exact(free, Owning)
  BY DEF VmInv, OwnInv, Owning
<1>. HIDE DEF Owning
<1>3. ASSUME NEW x \in Owner PROVE Owning[x] \in SUBSET Page
  <2>1. PICK p \in Proc : x \in {OTf(p), OArg(p), OPt(p), ONew(p)}
    BY OwnerFacts
  <2>2. OwnedBy(slot[p].pt) \subseteq Page /\ OwnedBy(new[p]) \subseteq Page
    BY VmParts, OwnedPages
  <2>3. slot[p].tf \in Page \cup {0} /\ arg[p] \in Page \cup {0}
    BY VmParts
  <2>. QED
    BY <1>1, <2>1, <2>2, <2>3
<1>4. Owning \in Owners
  <2>1. Owning = [x \in Owner |-> Owning[x]]
    BY DEF Owning, Own
  <2>. QED
    BY <1>3, <2>1 DEF Owners
<1>5. ASSUME NEW p \in Proc
      PROVE  Holds(free, slot[p].pt, Owning, OPt(p), {}) /\ Holds(free, new[p], Owning, ONew(p), {})
  <2>1. OPt(p) \in Owner /\ ONew(p) \in Owner
    BY OwnerFacts
  <2>2. /\ free \in FreeLists /\ slot[p].pt \in Table /\ new[p] \in Table
        /\ Distinct(slot[p].pt) /\ Distinct(new[p])
    BY VmParts
  <2>. QED
    BY <1>1, <1>2, <1>4, <2>1, <2>2, HoldsOf
<1>6. free \in FreeLists
  BY DEF VmInv, VmTypeOK, FreeLists
<1>. QED
  BY <1>1, <1>2, <1>4, <1>5, <1>6

\* The owners after a step.
OwnersNow(P) ==
    \A q \in Proc : /\ P[OTf(q)] = {slot[q].tf} \ {0} /\ P[OArg(q)] = {arg[q]} \ {0}
                    /\ P[OPt(q)] = OwnedBy(slot[q].pt) /\ P[ONew(q)] = OwnedBy(new[q])
LEMMA OwnNext ==
    ASSUME NEW P \in Owners, Exact(free', P), OwnersNow(P)'
    PROVE  OwnInv'
<1>1. \A q \in Proc : /\ P[OTf(q)] = {slot'[q].tf} \ {0}
                      /\ P[OArg(q)] = {arg'[q]} \ {0}
                      /\ P[OPt(q)] = OwnedBy(slot'[q].pt)
                      /\ P[ONew(q)] = OwnedBy(new'[q])
  BY DEF OwnersNow
<1>2. Own(slot', new', arg') = P
  BY <1>1, OwnEqual
<1>3. Exact(free', Own(slot', new', arg'))
  BY <1>2
<1>. QED
  BY <1>3 DEF OwnInv

\* A step of p, perhaps with the slot s of its child, leaves the others alone.
Others(p, s) ==
    \A q \in Proc :
        /\ q # p => /\ kid'[q] = kid[q] /\ new'[q] = new[q] /\ sz'[q] = sz[q] /\ a'[q] = a[q]
                    /\ to'[q] = to[q] /\ arg'[q] = arg[q]
        /\ q # p /\ q # s => slot'[q] = slot[q] /\ stage'[q] = stage[q]

\* What p's step keeps of another process.
LEMMA KeptRows ==
    ASSUME VmInv, NEW p \in Proc, NEW s \in Proc, Others(p, s), slot[p].used,
           s = p \/ ~slot[s].used, \A q \in Proc : q # p /\ q # s => kid[q] # s,
           NEW q \in Proc, q # p, q # s
    PROVE  Rows(q)'
<1>1. kid[q] \in Proc /\ Rows(q)
  BY VmParts
<1>2. kid[q] # p
  BY <1>1 DEF Rows, CallRow
<1>3. /\ slot'[q] = slot[q] /\ stage'[q] = stage[q] /\ kid'[q] = kid[q] /\ new'[q] = new[q]
      /\ sz'[q] = sz[q] /\ a'[q] = a[q] /\ to'[q] = to[q] /\ arg'[q] = arg[q]
  BY DEF Others
<1>4. slot'[kid[q]] = slot[kid[q]] /\ slot'[kid'[q]] = slot[kid[q]]
  BY <1>1, <1>2, <1>3 DEF Others
<1>5. SlotRow(q)'
  BY <1>1, <1>3 DEF Rows, SlotRow, Mapped
<1>6. CallRow(q)'
  BY <1>1, <1>3, <1>4 DEF Rows, CallRow, Forking, Execing
<1>7. NewRow(q)'
  BY <1>1, <1>3, <1>4 DEF Rows, NewRow, Loading, Building
<1>8. SizeRow(q)'
  BY <1>1, <1>3 DEF Rows, SizeRow
<1>. QED
  BY <1>5, <1>6, <1>7, <1>8 DEF Rows

\* What a step of p has to show for the invariant.
LEMMA StepInv ==
    ASSUME VmInv, NEW p \in Proc, NEW s \in Proc, Others(p, s), slot[p].used,
           s = p \/ ~slot[s].used, \A q \in Proc : q # p /\ q # s => kid[q] # s,
           VmTypeOK', panicked' = FALSE, Rows(p)', Rows(s)', OwnInv',
           kid'[p] \in {p, kid[p], s}
    PROVE  VmInv'
<1>1. \A q \in Proc : Rows(q)'
  BY KeptRows
<1>2. SlotInv' /\ NewInv' /\ SizeInv' /\ \A q \in Proc : CallRow(q)'
  BY <1>1 DEF Rows, SlotInv, NewInv, SizeInv
<1>3. \A q, r \in Proc : kid'[q] = kid'[r] /\ kid'[q] # q /\ kid'[r] # r => q = r
  <2>1. \A q, r \in Proc : kid[q] = kid[r] /\ kid[q] # q /\ kid[r] # r => q = r
    BY DEF VmInv, CallInv
  <2>2. \A q \in Proc : q # p => kid'[q] = kid[q]
    BY DEF Others
  <2>3. \A q \in Proc : q # p /\ kid[q] # q => kid[q] # s
    <3>1. ASSUME NEW q \in Proc, q # p, kid[q] # q, kid[q] = s PROVE FALSE
      <4>1. q = s
        BY <3>1
      <4>. QED
        BY <3>1, <4>1
    <3>. QED
      BY <3>1
  <2>. QED
    BY <2>1, <2>2, <2>3
<1>4. CallInv'
  BY <1>2, <1>3 DEF CallInv
<1>. QED
  BY <1>2, <1>4 DEF VmInv

\* A slot that is not in use, and no longer anyone's child.
LEMMA IdleRows ==
    ASSUME VmInv, NEW p \in Proc, NEW s \in Proc, s # p, Others(p, s), ~slot[s].used,
           slot'[s].used = FALSE, slot'[s].pt = NoTable, slot'[s].sz = 0, stage'[s] = stage[s]
    PROVE  Rows(s)'
<1>1. Rows(s) /\ stage[s] = "none"
  BY VmParts DEF Rows, SlotRow
<1>2. kid[s] = s /\ arg[s] = 0
  BY <1>1, VmParts DEF Rows, CallRow, Forking, Execing
<1>3. /\ kid'[s] = kid[s] /\ new'[s] = new[s]
      /\ sz'[s] = sz[s] /\ a'[s] = a[s] /\ to'[s] = to[s] /\ arg'[s] = arg[s]
  BY DEF Others
<1>4. SlotRow(s)'
  BY <1>1, NoTableFacts DEF SlotRow
<1>5. CallRow(s)'
  BY <1>1, <1>2, <1>3 DEF CallRow, Execing
<1>6. NewRow(s)'
  BY <1>1, <1>3 DEF Rows, NewRow, Loading
<1>7. SizeRow(s)'
  BY <1>1, <1>3 DEF Rows, SizeRow
<1>. QED
  BY <1>4, <1>5, <1>6, <1>7 DEF Rows

\* The child of p is a slot of its own.
LEMMA ChildSlot ==
    ASSUME VmInv, NEW p \in Proc, kid[p] # p
    PROVE  /\ kid[p] \in Proc /\ slot[p].used /\ ~slot[kid[p]].used /\ slot[kid[p]].tf \in Page
           /\ \A q \in Proc : q # p /\ q # kid[p] => kid[q] # kid[p]
           /\ slot[kid[p]].pt = NoTable /\ slot[kid[p]].sz = 0 /\ stage[kid[p]] = "none"
           /\ arg[p] = 0
<1>1. kid[p] \in Proc /\ Rows(p) /\ Rows(kid[p]) /\ slot[kid[p]].tf \in Page \cup {0}
  BY VmParts
<1>2. Forking(p) /\ ~slot[kid[p]].used /\ slot[kid[p]].tf # 0 /\ arg[p] = 0
  BY <1>1 DEF Rows, CallRow, Execing
<1>3. slot[p].used
  BY <1>1, <1>2 DEF Rows, SlotRow, Forking
<1>4. slot[kid[p]].pt = NoTable /\ slot[kid[p]].sz = 0 /\ stage[kid[p]] = "none"
  BY <1>1, <1>2 DEF Rows, SlotRow
<1>5. \A q \in Proc : q # p /\ q # kid[p] => kid[q] # kid[p]
  BY DEF VmInv, CallInv
<1>. QED
  BY <1>1, <1>2, <1>3, <1>4, <1>5

\* p back in user mode, with no table, child or argument.
LEMMA ReturnRows ==
    ASSUME VmInv, NEW p \in Proc, Return(p), stage'[p] = "user", SlotRow(p)'
    PROVE  Rows(p)'
<1>1. /\ kid'[p] = p /\ new'[p] = NoTable /\ sz'[p] = 0 /\ a'[p] = 0 /\ to'[p] = 0 /\ arg'[p] = 0
  BY DEF Return, VmInv, VmTypeOK
<1>2. CallRow(p)'
  BY <1>1 DEF CallRow, Execing
<1>3. NewRow(p)'
  BY <1>1, NoTableFacts DEF NewRow, Loading
<1>4. SizeRow(p)'
  BY <1>1 DEF SizeRow
<1>. QED
  BY <1>2, <1>3, <1>4 DEF Rows

\* The slot of p, if it has not changed and p was not in sbrk().
LEMMA SameSlot ==
    ASSUME VmInv, NEW p \in Proc, slot'[p] = slot[p], stage[p] \notin {"none", "grow"},
           stage'[p] \notin {"none", "grow"}
    PROVE  SlotRow(p)' /\ slot[p].used
<1>1. SlotRow(p)
  BY VmParts DEF Rows
<1>. QED
  BY <1>1 DEF SlotRow, Mapped

\* What Return() leaves alone, and the types of what it does.
LEMMA ReturnTypes ==
    ASSUME VmInv, NEW p \in Proc, Return(p)
    PROVE  /\ kid' \in [Proc -> Proc] /\ new' \in [Proc -> Table]
           /\ arg' \in [Proc -> Page \cup {0}] /\ sz' \in [Proc -> Nat] /\ a' \in [Proc -> Nat]
           /\ to' \in [Proc -> Nat]
           /\ kid'[p] = p /\ new'[p] = NoTable /\ arg'[p] = 0
           /\ \A q \in Proc : q # p =>
                /\ kid'[q] = kid[q] /\ new'[q] = new[q] /\ sz'[q] = sz[q] /\ a'[q] = a[q]
                /\ to'[q] = to[q] /\ arg'[q] = arg[q]
<1>1. NoTable \in Table
  BY NoTableFacts
<1>. QED
  BY <1>1 DEF Return, VmInv, VmTypeOK

\* The owners after a step that changes only the table of a slot.
LEMMA OwnPt ==
    ASSUME VmInv, NEW p \in Proc, NEW pt, Holds(free', pt, Owning, OPt(p), {}),
           slot'[p].pt = pt,
           \A q \in Proc : /\ slot'[q].tf = slot[q].tf /\ arg'[q] = arg[q] /\ new'[q] = new[q]
                           /\ q # p => slot'[q].pt = slot[q].pt
    PROVE  OwnInv'
<1>1. PICK P \in Owners : /\ Exact(free', P) /\ P[OPt(p)] = OwnedBy(pt)
                          /\ \A y \in Owner : y # OPt(p) => P[y] = Owning[y]
  BY HoldsExact
<1>2. ASSUME NEW q \in Proc
      PROVE  /\ P[OTf(q)] = {slot'[q].tf} \ {0} /\ P[OArg(q)] = {arg'[q]} \ {0}
             /\ P[OPt(q)] = OwnedBy(slot'[q].pt) /\ P[ONew(q)] = OwnedBy(new'[q])
  <2>1. /\ Owning[OTf(q)] = {slot[q].tf} \ {0} /\ Owning[OArg(q)] = {arg[q]} \ {0}
        /\ Owning[OPt(q)] = OwnedBy(slot[q].pt) /\ Owning[ONew(q)] = OwnedBy(new[q])
    BY VmOwners
  <2>2. P[OTf(q)] = Owning[OTf(q)] /\ P[OArg(q)] = Owning[OArg(q)] /\ P[ONew(q)] = Owning[ONew(q)]
    BY <1>1, OwnerFacts
  <2>3. P[OPt(q)] = OwnedBy(slot'[q].pt)
    <3>1. CASE q = p
      BY <1>1, <3>1
    <3>2. CASE q # p
      BY <1>1, <2>1, <3>2, OwnerFacts
    <3>. QED
      BY <3>1, <3>2
  <2>. QED
    BY <2>1, <2>2, <2>3
<1>3. OwnersNow(P)'
  BY <1>2 DEF OwnersNow
<1>. QED
  BY <1>1, <1>3, OwnNext

\* The owners after a step that changes only a table under construction.
LEMMA OwnNew ==
    ASSUME VmInv, NEW p \in Proc, NEW pt, Holds(free', pt, Owning, ONew(p), {}),
           new'[p] = pt,
           \A q \in Proc : /\ slot'[q] = slot[q] /\ arg'[q] = arg[q]
                           /\ q # p => new'[q] = new[q]
    PROVE  OwnInv'
<1>1. PICK P \in Owners : /\ Exact(free', P) /\ P[ONew(p)] = OwnedBy(pt)
                          /\ \A y \in Owner : y # ONew(p) => P[y] = Owning[y]
  BY HoldsExact
<1>2. ASSUME NEW q \in Proc
      PROVE  /\ P[OTf(q)] = {slot'[q].tf} \ {0} /\ P[OArg(q)] = {arg'[q]} \ {0}
             /\ P[OPt(q)] = OwnedBy(slot'[q].pt) /\ P[ONew(q)] = OwnedBy(new'[q])
  <2>1. /\ Owning[OTf(q)] = {slot[q].tf} \ {0} /\ Owning[OArg(q)] = {arg[q]} \ {0}
        /\ Owning[OPt(q)] = OwnedBy(slot[q].pt) /\ Owning[ONew(q)] = OwnedBy(new[q])
    BY VmOwners
  <2>2. P[OTf(q)] = Owning[OTf(q)] /\ P[OArg(q)] = Owning[OArg(q)] /\ P[OPt(q)] = Owning[OPt(q)]
    BY <1>1, OwnerFacts
  <2>3. P[ONew(q)] = OwnedBy(new'[q])
    <3>1. CASE q = p
      BY <1>1, <3>1
    <3>2. CASE q # p
      BY <1>1, <2>1, <3>2, OwnerFacts
    <3>. QED
      BY <3>1, <3>2
  <2>. QED
    BY <2>1, <2>2, <2>3
<1>3. OwnersNow(P)'
  BY <1>2 DEF OwnersNow
<1>. QED
  BY <1>1, <1>3, OwnNext

\* The owners after a step that gives up the table under construction and the
\* argument.
LEMMA OwnBad ==
    ASSUME VmInv, NEW p \in Proc, NEW P \in Owners, Exact(free', P),
           P[ONew(p)] = {}, P[OArg(p)] = {},
           \A y \in Owner : y # ONew(p) /\ y # OArg(p) => P[y] = Owning[y],
           Return(p), slot' = slot
    PROVE  OwnInv'
<1>1. ASSUME NEW q \in Proc
      PROVE  /\ P[OTf(q)] = {slot'[q].tf} \ {0} /\ P[OArg(q)] = {arg'[q]} \ {0}
             /\ P[OPt(q)] = OwnedBy(slot'[q].pt) /\ P[ONew(q)] = OwnedBy(new'[q])
  <2>1. /\ Owning[OTf(q)] = {slot[q].tf} \ {0} /\ Owning[OArg(q)] = {arg[q]} \ {0}
        /\ Owning[OPt(q)] = OwnedBy(slot[q].pt) /\ Owning[ONew(q)] = OwnedBy(new[q])
    BY VmOwners
  <2>2. P[OTf(q)] = Owning[OTf(q)] /\ P[OPt(q)] = Owning[OPt(q)]
    BY OwnerFacts
  <2>3. CASE q = p
    BY <2>1, <2>2, <2>3, ReturnTypes, NoTableFacts
  <2>4. CASE q # p
    <3>1. P[OArg(q)] = Owning[OArg(q)] /\ P[ONew(q)] = Owning[ONew(q)]
      BY <2>4, OwnerFacts
    <3>. QED
      BY <2>1, <2>2, <2>4, <3>1, ReturnTypes
  <2>. QED
    BY <2>3, <2>4
<1>2. OwnersNow(P)'
  BY <1>1 DEF OwnersNow
<1>. QED
  BY <1>2, OwnNext

\* The owners after a step that gives up the table under construction and the
\* trapframe of the child.
LEMMA OwnKid ==
    ASSUME VmInv, NEW p \in Proc, NEW P \in Owners, Exact(free', P), kid[p] # p,
           P[ONew(p)] = {}, P[OTf(kid[p])] = {},
           \A y \in Owner : y # ONew(p) /\ y # OTf(kid[p]) => P[y] = Owning[y],
           Return(p), slot' = [slot EXCEPT ![kid[p]] = NoProc]
    PROVE  OwnInv'
<1>. DEFINE k == kid[p]
<1>0. /\ k \in Proc /\ arg[p] = 0 /\ slot[k].pt = NoTable
  BY ChildSlot
<1>1. /\ slot'[k].tf = 0 /\ slot'[k].pt = NoTable /\ \A q \in Proc : q # k => slot'[q] = slot[q]
  BY <1>0 DEF VmInv, VmTypeOK, NoProc
<1>. HIDE DEF k
<1>2. ASSUME NEW q \in Proc
      PROVE  /\ P[OTf(q)] = {slot'[q].tf} \ {0} /\ P[OArg(q)] = {arg'[q]} \ {0}
             /\ P[OPt(q)] = OwnedBy(slot'[q].pt) /\ P[ONew(q)] = OwnedBy(new'[q])
  <2>1. /\ Owning[OTf(q)] = {slot[q].tf} \ {0} /\ Owning[OArg(q)] = {arg[q]} \ {0}
        /\ Owning[OPt(q)] = OwnedBy(slot[q].pt) /\ Owning[ONew(q)] = OwnedBy(new[q])
    BY VmOwners
  <2>2. P[OArg(q)] = Owning[OArg(q)] /\ P[OPt(q)] = Owning[OPt(q)]
    BY <1>0, OwnerFacts DEF k
  <2>3. arg'[q] = arg[q] /\ slot'[q].pt = slot[q].pt
    BY <1>0, <1>1, ReturnTypes
  <2>4. P[OTf(q)] = {slot'[q].tf} \ {0}
    <3>1. CASE q = k
      BY <1>1, <3>1 DEF k
    <3>2. CASE q # k
      BY <1>0, <1>1, <2>1, <3>2, OwnerFacts DEF k
    <3>. QED
      BY <3>1, <3>2
  <2>5. P[ONew(q)] = OwnedBy(new'[q])
    <3>1. CASE q = p
      BY <3>1, ReturnTypes, NoTableFacts
    <3>2. CASE q # p
      BY <1>0, <2>1, <3>2, ReturnTypes, OwnerFacts DEF k
    <3>. QED
      BY <3>1, <3>2
  <2>. QED
    BY <2>1, <2>2, <2>3, <2>4, <2>5
<1>3. OwnersNow(P)'
  BY <1>2 DEF OwnersNow
<1>. QED
  BY <1>3, OwnNext

\* A process that is in use is nobody's child.
LEMMA NoChild ==
    ASSUME VmInv, NEW p \in Proc, slot[p].used
    PROVE  \A q \in Proc : q # p => kid[q] # p
  BY VmParts DEF Rows, CallRow

\* A process that is neither in fork() nor in exec() has no child and no argument.
LEMMA NotCalling ==
    ASSUME VmInv, NEW p \in Proc, stage[p] \in {"none", "user", "grow"}
    PROVE  kid[p] = p /\ arg[p] = 0 /\ new[p] = NoTable
<1>1. CallRow(p) /\ NewRow(p)
  BY VmParts DEF Rows
<1>2. ~Forking(p) /\ ~Execing(p)
  BY DEF Forking, Execing
<1>. QED
  BY <1>1, <1>2 DEF CallRow, NewRow


\* A step that changes nothing keeps the invariant.
LEMMA VmStutter ==
    ASSUME VmInv, UNCHANGED vmvars
    PROVE  VmInv'
<1>1. /\ free' = free /\ slot' = slot /\ stage' = stage /\ kid' = kid /\ new' = new
      /\ sz' = sz /\ a' = a /\ to' = to /\ arg' = arg /\ panicked' = panicked
  BY DEF vmvars, local
<1>2. VmTypeOK' /\ ~panicked' /\ OwnInv'
  BY <1>1 DEF VmInv, VmTypeOK, OwnInv
<1>3. SlotInv' /\ SizeInv'
  BY <1>1 DEF VmInv, SlotInv, SlotRow, Mapped, SizeInv, SizeRow
<1>4. CallInv'
  BY <1>1 DEF VmInv, CallInv, CallRow, Forking, Execing
<1>5. NewInv'
  BY <1>1 DEF VmInv, NewInv, NewRow, Loading, Building
<1>. QED
  BY <1>2, <1>3, <1>4, <1>5 DEF VmInv
-----------------------------------------------------------------------------
(***************************************************************************)
(* The first pages of a table.                                             *)
(***************************************************************************)

\* One page more.
LEMMA PrefixGrow ==
    ASSUME NEW pt \in Table, NEW q \in Table, NEW k \in Nat, Prefix(pt, k), k < USERPAGES,
           NEW g \in Page, q.pte = [pt.pte EXCEPT ![k] = g],
           NEW u \in SUBSET {k}, q.user = pt.user \cup u
    PROVE  /\ Prefix(q, k + 1)
           /\ q.pte[TRAPFRAME] = pt.pte[TRAPFRAME] /\ q.pte[TRAMPOLINE] = pt.pte[TRAMPOLINE]
<1>0. /\ USERPAGES \in Nat /\ UserV = 0 .. USERPAGES - 1 /\ VPage \subseteq Nat
      /\ TRAPFRAME \in VPage /\ TRAMPOLINE \in VPage /\ k \in VPage /\ UserV \subseteq VPage
      /\ TRAPFRAME >= USERPAGES /\ TRAMPOLINE = TRAPFRAME + 1 /\ g # 0
  BY VmConstants DEF UserV, VPage, Page
<1>1. q.pte[k] = g /\ \A v \in VPage : v # k => q.pte[v] = pt.pte[v]
  BY <1>0, TableFields
<1>2. \A v \in UserV : q.pte[v] # 0 <=> v < k + 1
  <2>1. ASSUME NEW v \in UserV PROVE q.pte[v] # 0 <=> v < k + 1
    <3>1. v \in Nat /\ v \in VPage /\ (v # k => (v < k + 1 <=> v < k))
      BY <1>0
    <3>2. pt.pte[v] # 0 <=> v < k
      BY DEF Prefix
    <3>3. CASE v = k
      BY <1>0, <1>1, <3>3
    <3>4. CASE v # k
      BY <1>1, <3>1, <3>2, <3>4
    <3>. QED
      BY <3>3, <3>4
  <2>. QED
    BY <2>1
<1>3. \A v \in VPage : v >= USERPAGES /\ v < TRAPFRAME => q.pte[v] = 0
  <2>1. \A v \in VPage : v >= USERPAGES => v # k
    BY <1>0
  <2>. QED
    BY <1>1, <2>1 DEF Prefix
<1>4. q.user \subseteq 0 .. (k + 1) - 1
  <2>1. pt.user \subseteq 0 .. k - 1
    BY DEF Prefix
  <2>2. 0 .. k - 1 \subseteq 0 .. (k + 1) - 1 /\ k \in 0 .. (k + 1) - 1
    OBVIOUS
  <2>3. ASSUME NEW v \in q.user PROVE v \in 0 .. (k + 1) - 1
    <3>1. v \in pt.user \/ v = k
      OBVIOUS
    <3>. QED
      BY <2>1, <2>2, <3>1
  <2>. QED
    BY <2>3
<1>5. k + 1 \in 0 .. USERPAGES
  BY <1>0
<1>6. TRAPFRAME # k /\ TRAMPOLINE # k
  BY <1>0
<1>7. q.pte[TRAPFRAME] = pt.pte[TRAPFRAME] /\ q.pte[TRAMPOLINE] = pt.pte[TRAMPOLINE]
  BY <1>0, <1>1, <1>6, Zenon
<1>. QED
  BY <1>2, <1>3, <1>4, <1>5, <1>7 DEF Prefix

\* There is one guard page at most, with one more page.
LEMMA GuardGrow ==
    ASSUME NEW pt, NEW q, NEW k \in Nat, Guard(pt, k), q.user = pt.user \cup {k}
    PROVE  Guard(q, k + 1)
<1>1. \A v : v \in (0 .. (k + 1) - 1) \ q.user => v \in (0 .. k - 1) \ pt.user
  OBVIOUS
<1>. QED
  BY <1>1 DEF Guard

\* And with fewer.
LEMMA GuardCut ==
    ASSUME NEW pt, NEW q, NEW k \in Nat, NEW j \in Nat, j <= k, Guard(pt, k),
           q.user = pt.user \cap (0 .. j - 1)
    PROVE  Guard(q, j)
<1>1. \A v : v \in (0 .. j - 1) \ q.user => v \in (0 .. k - 1) \ pt.user
  OBVIOUS
<1>. QED
  BY <1>1 DEF Guard

\* uvmdealloc() of whole pages, as uvmalloc() does when it fails.
CutPost(pt, j, O, x, d) ==
    /\ d.ok = TRUE /\ Holds(d.free, d.pt, O, x, {}) /\ Prefix(d.pt, j)
    /\ d.pt.user = pt.user \cap (0 .. j - 1) /\ d.pt.root = pt.root
    /\ d.pt.pte[TRAPFRAME] = pt.pte[TRAPFRAME]
    /\ d.pt.pte[TRAMPOLINE] = pt.pte[TRAMPOLINE]
LEMMA DeallocPages ==
    ASSUME NEW f, NEW pt, NEW O, NEW x, Holds(f, pt, O, x, {}),
           NEW k \in Nat, NEW j \in Nat, j <= k, Prefix(pt, k),
           NEW n0, NEW m, n0 = k * PGSIZE, m = j * PGSIZE
    PROVE  CutPost(pt, j, O, x, uvmdealloc(f, pt, n0, m))
<1>. DEFINE d == uvmdealloc(f, pt, n0, m)
<1>1. n0 \in Nat /\ m \in Nat /\ Pages(n0) = k /\ Pages(m) = j
  BY PagesOf
<1>2. m >= n0 => j = k
  BY <1>1, PagesOf
<1>3. DeallocPost(f, pt, n0, m, O, x, d)
  BY <1>1, Dealloc
<1>. HIDE DEF d
<1>4. /\ d.ok = TRUE /\ Holds(d.free, d.pt, O, x, {}) /\ d.pt.root = pt.root
      /\ d.pt.pte[TRAPFRAME] = pt.pte[TRAPFRAME]
      /\ d.pt.pte[TRAMPOLINE] = pt.pte[TRAMPOLINE]
  BY <1>3 DEF DeallocPost
<1>5. Prefix(d.pt, j) /\ d.pt.user = pt.user \cap (0 .. j - 1)
  <2>1. CASE m < n0
    BY <1>1, <1>3, <2>1 DEF DeallocPost
  <2>2. CASE m >= n0
    <3>1. d.pt = pt /\ j = k
      BY <1>2, <1>3, <2>2 DEF DeallocPost
    <3>2. pt.user = pt.user \cap (0 .. k - 1)
      BY DEF Prefix
    <3>. QED
      BY <3>1, <3>2
  <2>. QED
    BY <1>1, <2>1, <2>2
<1>6. CutPost(pt, j, O, x, d)
  BY <1>4, <1>5 DEF CutPost
<1>. QED
  BY <1>6 DEF d

\* The slot of p with another table and another size.
SlotBoth(S, p, pt, s) == [S EXCEPT ![p].pt = pt, ![p].sz = s]
SlotTable(S, p, pt) == [S EXCEPT ![p].pt = pt]
SlotSize(S, p, s) == [S EXCEPT ![p].sz = s]
SlotSetPost(S, p, pt, s, T) ==
    /\ T \in [Proc -> SlotRec] /\ T[p].pt = pt /\ T[p].sz = s
    /\ T[p].used = S[p].used /\ T[p].tf = S[p].tf
    /\ \A q \in Proc : q # p => T[q] = S[q]
LEMMA SlotSet ==
    ASSUME NEW S \in [Proc -> SlotRec], NEW p \in Proc, NEW pt \in Table, NEW s \in Nat
    PROVE  /\ SlotSetPost(S, p, pt, s, SlotBoth(S, p, pt, s))
           /\ SlotSetPost(S, p, pt, S[p].sz, SlotTable(S, p, pt))
           /\ SlotSetPost(S, p, S[p].pt, s, SlotSize(S, p, s))
  BY DEF SlotRec, SlotSetPost, SlotBoth, SlotTable, SlotSize

\* The slot of a process that is in use.
LEMMA UsedRow ==
    ASSUME NEW p \in Proc, slot[p].used, stage[p] # "none", Distinct(slot[p].pt),
           slot[p].tf # 0, slot[p].pt.root # 0, slot[p].sz <= UserMax,
           Prefix(slot[p].pt, Mapped(p)), Guard(slot[p].pt, Mapped(p)),
           Top(slot[p].pt, slot[p].tf)
    PROVE  SlotRow(p)
  BY DEF SlotRow

-----------------------------------------------------------------------------
(***************************************************************************)
(* sbrk().                                                                 *)
(***************************************************************************)

\* growproc() with a smaller size: the pages above it are given back.
LEMMA GrowprocShrink ==
    ASSUME VmInv, NEW p \in Proc, NEW n0 \in Deltas, growproc(p, n0), n0 < 0
    PROVE  VmInv'
<1>. DEFINE s0 == slot[p].sz
            newsz == (s0 + n0) % UINT_RANGE
            pt == slot[p].pt
            d == uvmdealloc(free, pt, s0, newsz)
            s1 == IF newsz >= s0 THEN s0 ELSE newsz
<1>1. /\ stage[p] = "user" /\ free' = d.free /\ panicked' = ~d.ok
      /\ slot' = [slot EXCEPT ![p].pt = d.pt, ![p].sz = s1]
      /\ UNCHANGED <<stage, local>>
  BY DEF growproc, At, Take
<1>2. /\ s0 \in Nat /\ pt \in Table /\ Rows(p) /\ Distinct(pt) /\ slot[p].tf \in Page \cup {0}
  BY VmParts
<1>3. newsz \in Nat
  <2>1. s0 + n0 \in Int /\ UINT_RANGE \in Nat \ {0}
    BY <1>2, VmConstants
  <2>2. (s0 + n0) % UINT_RANGE \in 0 .. UINT_RANGE - 1
    BY <2>1, ModType
  <2>. QED
    BY <2>1, <2>2
<1>4. s1 \in Nat /\ s1 <= s0 /\ Pages(s1) \in Nat /\ Pages(s0) \in Nat /\ Pages(s1) <= Pages(s0)
  BY <1>2, <1>3, PagesOf
<1>5. /\ slot[p].used /\ slot[p].tf # 0 /\ pt.root # 0 /\ s0 <= UserMax
      /\ Prefix(pt, Pages(s0)) /\ Guard(pt, Pages(s0)) /\ Top(pt, slot[p].tf)
  BY <1>1, <1>2 DEF Rows, SlotRow, Mapped
<1>. HIDE DEF newsz, s1, pt
<1>6. Holds(free, pt, Owning, OPt(p), {})
  BY VmOwners DEF pt
<1>7. DeallocPost(free, pt, s0, newsz, Owning, OPt(p), d)
  BY <1>2, <1>3, <1>5, <1>6, Dealloc
<1>. HIDE DEF s0, d
<1>8. /\ d.ok = TRUE /\ Holds(d.free, d.pt, Owning, OPt(p), {}) /\ d.pt.root = pt.root
      /\ Prefix(d.pt, Pages(s1)) /\ Guard(d.pt, Pages(s1)) /\ Top(d.pt, slot[p].tf)
  <2>1. /\ d.ok = TRUE /\ Holds(d.free, d.pt, Owning, OPt(p), {}) /\ d.pt.root = pt.root
        /\ Top(d.pt, slot[p].tf)
    BY <1>5, <1>7 DEF DeallocPost, Top
  <2>2. CASE newsz >= s0
    BY <1>5, <1>7, <2>1, <2>2 DEF DeallocPost, s1
  <2>3. CASE newsz < s0
    <3>1. s1 = newsz
      BY <1>2, <1>3, <2>3 DEF s1, s0
    <3>2. Prefix(d.pt, Pages(s1)) /\ d.pt.user = pt.user \cap (0 .. Pages(s1) - 1)
      BY <1>7, <2>3, <3>1 DEF DeallocPost
    <3>. QED
      BY <1>4, <1>5, <2>1, <3>2, GuardCut
  <2>4. newsz >= s0 \/ newsz < s0
    BY <1>2, <1>3
  <2>. QED
    BY <2>2, <2>3, <2>4, Zenon
<1>9. d.pt \in Table /\ Distinct(d.pt) /\ free' \in FreeLists
  BY <1>1, <1>8 DEF Holds
<1>10. /\ slot' \in [Proc -> SlotRec] /\ slot'[p].pt = d.pt /\ slot'[p].sz = s1
       /\ slot'[p].used = slot[p].used /\ slot'[p].tf = slot[p].tf
       /\ \A q \in Proc : q # p => slot'[q] = slot[q]
  <2>1. slot \in [Proc -> SlotRec]
    BY DEF VmInv, VmTypeOK
  <2>2. slot' = SlotBoth(slot, p, d.pt, s1)
    BY <1>1 DEF SlotBoth
  <2>3. SlotSetPost(slot, p, d.pt, s1, SlotBoth(slot, p, d.pt, s1))
    BY <1>4, <1>9, <2>1, SlotSet
  <2>. QED
    BY <2>2, <2>3 DEF SlotSetPost
<1>11. Others(p, p)
  BY <1>1, <1>10 DEF Others, local
<1>12. VmTypeOK' /\ panicked' = FALSE
  BY <1>1, <1>8, <1>9, <1>10 DEF VmInv, VmTypeOK, FreeLists, local
<1>13. Rows(p)'
  <2>1. stage'[p] = "user" /\ Mapped(p)' = Pages(s1)
    BY <1>1, <1>10 DEF Mapped
  <2>2. s1 <= UserMax
    BY <1>2, <1>4, <1>5, VmConstants DEF s0
  <2>3. SlotRow(p)'
    BY <1>5, <1>8, <1>9, <1>10, <2>1, <2>2 DEF SlotRow
  <2>4. CallRow(p)'
    BY <1>1, NotCalling DEF CallRow, Execing, local
  <2>5. NewRow(p)' /\ SizeRow(p)'
    BY <1>1, <1>2 DEF Rows, NewRow, SizeRow, Loading, local
  <2>. QED
    BY <2>3, <2>4, <2>5 DEF Rows
<1>14. OwnInv'
  BY <1>1, <1>8, <1>10, OwnPt DEF local
<1>. QED
  BY <1>1, <1>5, <1>11, <1>12, <1>13, <1>14, NoChild, StepInv DEF local

\* growproc() with a larger size: uvmalloc() starts at the end of what is mapped.
LEMMA GrowprocGrow ==
    ASSUME VmInv, NEW p \in Proc, NEW n0 \in Deltas, growproc(p, n0), ~ n0 < 0
    PROVE  VmInv'
<1>. DEFINE s0 == slot[p].sz
            newsz == (s0 + n0) % UINT_RANGE
            t == IF newsz < s0 THEN s0 ELSE newsz
<1>1. /\ stage[p] = "user" /\ newsz <= USERPAGES * PGSIZE
      /\ a' = [a EXCEPT ![p] = Pages(s0)] /\ to' = [to EXCEPT ![p] = t]
      /\ sz' = [sz EXCEPT ![p] = s0] /\ stage' = [stage EXCEPT ![p] = "grow"]
      /\ UNCHANGED <<free, slot, kid, new, arg, panicked>>
  BY DEF growproc, At, Enter
<1>2. s0 \in Nat /\ Rows(p)
  BY VmParts
<1>3. newsz \in Nat
  <2>1. s0 + n0 \in Int /\ UINT_RANGE \in Nat \ {0}
    BY <1>2, VmConstants
  <2>2. (s0 + n0) % UINT_RANGE \in 0 .. UINT_RANGE - 1
    BY <2>1, ModType
  <2>. QED
    BY <2>1, <2>2
<1>4. /\ slot[p].used /\ slot[p].tf # 0 /\ slot[p].pt.root # 0 /\ s0 <= UserMax
      /\ Prefix(slot[p].pt, Pages(s0)) /\ Guard(slot[p].pt, Pages(s0))
      /\ Top(slot[p].pt, slot[p].tf) /\ Distinct(slot[p].pt)
  BY <1>1, <1>2 DEF Rows, SlotRow, Mapped
<1>. HIDE DEF newsz
<1>5. t \in Nat /\ s0 <= t /\ t <= UserMax
  BY <1>1, <1>2, <1>3, <1>4, VmConstants DEF UserMax
<1>6. Pages(s0) \in Nat /\ Pages(s0) <= Pages(t)
  BY <1>2, <1>5, PagesOf
<1>. HIDE DEF s0, t
<1>7. VmTypeOK'
  BY <1>1, <1>2, <1>5, <1>6 DEF VmInv, VmTypeOK, Stages
<1>8. /\ a'[p] = Pages(s0) /\ to'[p] = t /\ sz'[p] = s0 /\ stage'[p] = "grow"
  BY <1>1 DEF VmInv, VmTypeOK
<1>9. Others(p, p)
  BY <1>1 DEF Others, VmInv, VmTypeOK
<1>10. Rows(p)'
  <2>1. Mapped(p)' = Pages(s0)
    BY <1>8 DEF Mapped
  <2>2. SlotRow(p)'
    BY <1>1, <1>4, <1>8, <2>1 DEF SlotRow, s0
  <2>3. CallRow(p)' /\ NewRow(p)'
    BY <1>1, <1>8, NotCalling, NoTableFacts DEF CallRow, NewRow, Execing, Loading
  <2>4. SizeRow(p)'
    BY <1>1, <1>2, <1>5, <1>6, <1>8 DEF SizeRow, s0
  <2>. QED
    BY <2>2, <2>3, <2>4 DEF Rows
<1>11. OwnInv' /\ panicked' = FALSE
  BY <1>1 DEF VmInv, OwnInv, VmTypeOK
<1>. QED
  BY <1>1, <1>4, <1>7, <1>9, <1>10, <1>11, NoChild, StepInv

\* The facts about a process in growproc()'s uvmalloc().
LEMMA InGrow ==
    ASSUME VmInv, NEW p \in Proc, stage[p] = "grow"
    PROVE  /\ slot[p].used /\ slot[p].tf # 0 /\ slot[p].pt.root # 0 /\ slot[p].sz <= UserMax
           /\ Prefix(slot[p].pt, a[p]) /\ Guard(slot[p].pt, a[p])
           /\ Top(slot[p].pt, slot[p].tf) /\ sz[p] = slot[p].sz /\ sz[p] <= to[p]
           /\ Pages(sz[p]) <= a[p] /\ a[p] <= Pages(to[p]) /\ to[p] <= UserMax
           /\ Pages(sz[p]) \in Nat /\ Pages(to[p]) \in Nat /\ Pages(to[p]) <= USERPAGES
           /\ USERPAGES \in Nat
<1>1. Rows(p) /\ sz[p] \in Nat /\ to[p] \in Nat
  BY VmParts
<1>2. /\ slot[p].used /\ slot[p].tf # 0 /\ slot[p].pt.root # 0 /\ slot[p].sz <= UserMax
      /\ Prefix(slot[p].pt, a[p]) /\ Guard(slot[p].pt, a[p])
      /\ Top(slot[p].pt, slot[p].tf)
  BY <1>1 DEF Rows, SlotRow, Mapped
<1>3. /\ sz[p] = slot[p].sz /\ sz[p] <= to[p]
      /\ Pages(sz[p]) <= a[p] /\ a[p] <= Pages(to[p]) /\ to[p] <= UserMax
  BY <1>1 DEF Rows, SizeRow
<1>4. Pages(sz[p]) \in Nat /\ Pages(to[p]) \in Nat /\ Pages(to[p]) <= USERPAGES
  BY <1>1, <1>3, PagesOf
<1>. QED
  BY <1>2, <1>3, <1>4, VmConstants

\* A round of that uvmalloc().
LEMMA GrowprocPage ==
    ASSUME VmInv, NEW p \in Proc, growproc_page(p)
    PROVE  VmInv'
<1>. DEFINE pt == slot[p].pt
            k == a[p]
            j == Pages(sz[p])
            m == uvmalloc_page(free, pt, k, {k})
            kz == k * PGSIZE
            jz == j * PGSIZE
            d == uvmdealloc(m.free, m.pt, kz, jz)
<1>1. /\ stage[p] = "grow" /\ k < Pages(to[p])
      /\ m.ok => /\ free' = m.free /\ slot' = [slot EXCEPT ![p].pt = m.pt]
                 /\ panicked' = (pt.pte[k] # 0) /\ a' = [a EXCEPT ![p] = k + 1]
                 /\ UNCHANGED <<stage, kid, new, sz, to, arg>>
      /\ ~m.ok => /\ free' = d.free /\ panicked' = ~d.ok
                  /\ slot' = [slot EXCEPT ![p].pt = d.pt]
                  /\ stage' = [stage EXCEPT ![p] = "user"] /\ Return(p)
  BY DEF growproc_page, At, Take, Enter
<1>2. /\ slot[p].used /\ slot[p].tf # 0 /\ pt.root # 0 /\ slot[p].sz <= UserMax
      /\ Prefix(pt, k) /\ Guard(pt, k)
      /\ Top(pt, slot[p].tf) /\ sz[p] = slot[p].sz /\ sz[p] <= to[p]
      /\ j <= k /\ to[p] <= UserMax
      /\ j \in Nat /\ Pages(to[p]) \in Nat /\ Pages(to[p]) <= USERPAGES /\ USERPAGES \in Nat
  BY <1>1, InGrow
<1>3. pt \in Table /\ k \in Nat /\ slot \in [Proc -> SlotRec] /\ slot[p].sz \in Nat
  BY VmParts DEF VmInv, VmTypeOK
<1>4. Holds(free, pt, Owning, OPt(p), {})
  BY VmOwners
<1>5. k \in UserV /\ k < USERPAGES /\ {k} \in SUBSET VPage
  BY <1>1, <1>2, <1>3, VmConstants DEF UserV
<1>6. pt.pte[k] = 0
  <2>1. pt.pte[k] # 0 <=> k < k
    BY <1>2, <1>5 DEF Prefix
  <2>. QED
    BY <1>3, <2>1
<1>7. AllocPost(free, pt, k, {k}, Owning, OPt(p), m)
  BY <1>4, <1>5, <1>6, AllocPage
<1>. HIDE DEF pt, k, j, m
<1>8. CASE m.ok
  <2>1. PICK g \in Page : m.pt.pte = [pt.pte EXCEPT ![k] = g]
    BY <1>7, <1>8 DEF AllocPost
  <2>2. /\ Holds(m.free, m.pt, Owning, OPt(p), {}) /\ m.pt.root = pt.root
        /\ m.pt.user = pt.user \cup {k}
    BY <1>7, <1>8 DEF AllocPost
  <2>3. m.pt \in Table /\ Distinct(m.pt) /\ m.free \in FreeLists
    BY <2>2 DEF Holds
  <2>4. {k} \in SUBSET {k}
    OBVIOUS
  <2>5. /\ Prefix(m.pt, k + 1) /\ m.pt.pte[TRAPFRAME] = pt.pte[TRAPFRAME]
        /\ m.pt.pte[TRAMPOLINE] = pt.pte[TRAMPOLINE]
    BY <1>2, <1>3, <1>5, <2>1, <2>2, <2>3, <2>4, PrefixGrow
  <2>6. Guard(m.pt, k + 1) /\ Top(m.pt, slot[p].tf)
    BY <1>2, <1>3, <2>2, <2>5, GuardGrow DEF Top
  <2>7. /\ free' = m.free /\ slot' = [slot EXCEPT ![p].pt = m.pt]
        /\ panicked' = FALSE /\ a' = [a EXCEPT ![p] = k + 1]
        /\ UNCHANGED <<stage, kid, new, sz, to, arg>>
    BY <1>1, <1>6, <1>8
  <2>8. SlotSetPost(slot, p, m.pt, slot[p].sz, slot')
    BY <1>3, <2>3, <2>7, SlotSet DEF SlotTable
  <2>9. /\ slot' \in [Proc -> SlotRec] /\ slot'[p].pt = m.pt /\ slot'[p].sz = slot[p].sz
        /\ slot'[p].used = slot[p].used /\ slot'[p].tf = slot[p].tf
        /\ \A q \in Proc : q # p => slot'[q] = slot[q]
    BY <2>8 DEF SlotSetPost
  <2>10. a'[p] = k + 1 /\ stage'[p] = "grow" /\ \A q \in Proc : q # p => a'[q] = a[q]
    BY <1>1, <2>7 DEF VmInv, VmTypeOK
  <2>11. VmTypeOK'
    <3>1. a' \in [Proc -> Nat] /\ free' \in [Page -> Nat]
      BY <1>3, <2>3, <2>7 DEF VmInv, VmTypeOK, FreeLists
    <3>. QED
      BY <2>7, <2>9, <3>1 DEF VmInv, VmTypeOK
  <2>12. Others(p, p)
    BY <2>7, <2>9, <2>10 DEF Others
  <2>13. Rows(p)'
    <3>1. Mapped(p)' = k + 1
      BY <2>10 DEF Mapped
    <3>2. SlotRow(p)'
      BY <1>2, <2>2, <2>3, <2>5, <2>6, <2>9, <2>10, <3>1 DEF SlotRow
    <3>3. CallRow(p)' /\ NewRow(p)'
      BY <1>1, <2>7, <2>10, NotCalling, NoTableFacts DEF CallRow, NewRow, Execing, Loading
    <3>4. k + 1 <= Pages(to[p]) /\ j <= k + 1
      BY <1>1, <1>2, <1>3
    <3>5. SizeRow(p)'
      BY <1>1, <1>2, <2>7, <2>9, <2>10, <3>4 DEF SizeRow, j
    <3>. QED
      BY <3>2, <3>3, <3>5 DEF Rows
  <2>14. OwnInv'
    BY <2>2, <2>7, <2>9, OwnPt
  <2>. QED
    BY <1>2, <2>7, <2>11, <2>12, <2>13, <2>14, NoChild, StepInv
<1>9. CASE ~m.ok
  <2>1. m.free = free /\ m.pt = pt
    BY <1>7, <1>9 DEF AllocPost
  <2>2. /\ d.ok = TRUE /\ Holds(d.free, d.pt, Owning, OPt(p), {}) /\ Prefix(d.pt, j)
        /\ d.pt.user = pt.user \cap (0 .. j - 1) /\ d.pt.root = pt.root
        /\ d.pt.pte[TRAPFRAME] = pt.pte[TRAPFRAME]
        /\ d.pt.pte[TRAMPOLINE] = pt.pte[TRAMPOLINE]
    <3>1. d = uvmdealloc(free, pt, kz, jz)
      BY <2>1
    <3>2. kz = k * PGSIZE /\ jz = j * PGSIZE
      OBVIOUS
    <3>. HIDE DEF d, kz, jz
    <3>3. CutPost(pt, j, Owning, OPt(p), uvmdealloc(free, pt, kz, jz))
      BY <1>2, <1>3, <1>4, <3>2, DeallocPages
    <3>. QED
      BY <3>1, <3>3 DEF CutPost
  <2>. HIDE DEF d
  <2>3. Guard(d.pt, j) /\ Top(d.pt, slot[p].tf)
    BY <1>2, <1>3, <2>2, GuardCut DEF Top
  <2>4. d.pt \in Table /\ Distinct(d.pt) /\ d.free \in FreeLists
    BY <2>2 DEF Holds
  <2>5. /\ free' = d.free /\ panicked' = FALSE
        /\ slot' = [slot EXCEPT ![p].pt = d.pt]
        /\ stage' = [stage EXCEPT ![p] = "user"] /\ Return(p)
    BY <1>1, <1>9, <2>2
  <2>6. SlotSetPost(slot, p, d.pt, slot[p].sz, slot')
    BY <1>3, <2>4, <2>5, SlotSet DEF SlotTable
  <2>7. /\ slot' \in [Proc -> SlotRec] /\ slot'[p].pt = d.pt /\ slot'[p].sz = slot[p].sz
        /\ slot'[p].used = slot[p].used /\ slot'[p].tf = slot[p].tf
        /\ \A q \in Proc : q # p => slot'[q] = slot[q]
    BY <2>6 DEF SlotSetPost
  <2>8. stage'[p] = "user" /\ \A q \in Proc : q # p => stage'[q] = stage[q]
    BY <2>5 DEF VmInv, VmTypeOK
  <2>9. VmTypeOK'
    BY <2>4, <2>5, <2>7, ReturnTypes DEF VmInv, VmTypeOK, FreeLists, Stages
  <2>10. Others(p, p)
    BY <2>5, <2>7, <2>8, ReturnTypes DEF Others
  <2>11. Rows(p)'
    <3>1. Mapped(p)' = j
      BY <1>2, <2>7, <2>8 DEF Mapped, j
    <3>2. SlotRow(p)'
      BY <1>2, <2>2, <2>3, <2>4, <2>7, <2>8, <3>1 DEF SlotRow
    <3>. QED
      BY <2>5, <2>8, <3>2, ReturnRows
  <2>12. OwnInv'
    <3>1. \A q \in Proc : new'[q] = new[q] /\ arg'[q] = arg[q]
      BY <1>1, <2>5, ReturnTypes, NotCalling
    <3>. QED
      BY <2>2, <2>5, <2>7, <3>1, OwnPt
  <2>13. kid'[p] = p
    BY <2>5, ReturnTypes
  <2>. QED
    BY <1>2, <2>5, <2>9, <2>10, <2>11, <2>12, <2>13, NoChild, StepInv
<1>. QED
  BY <1>8, <1>9

\* The end of growproc().
LEMMA GrowprocEnd ==
    ASSUME VmInv, NEW p \in Proc, growproc_end(p)
    PROVE  VmInv'
<1>. DEFINE t == to[p]
<1>1. /\ stage[p] = "grow" /\ a[p] >= Pages(t) /\ slot' = [slot EXCEPT ![p].sz = t]
      /\ stage' = [stage EXCEPT ![p] = "user"] /\ Return(p) /\ UNCHANGED <<free, panicked>>
  BY DEF growproc_end, At, Enter
<1>2. /\ slot[p].used /\ slot[p].tf # 0 /\ slot[p].pt.root # 0
      /\ Prefix(slot[p].pt, a[p]) /\ Guard(slot[p].pt, a[p])
      /\ Top(slot[p].pt, slot[p].tf) /\ a[p] <= Pages(t) /\ t <= UserMax /\ Pages(t) \in Nat
  BY <1>1, InGrow
<1>3. /\ slot[p].pt \in Table /\ a[p] \in Nat /\ slot \in [Proc -> SlotRec] /\ t \in Nat
      /\ Distinct(slot[p].pt)
  BY VmParts DEF VmInv, VmTypeOK
<1>4. a[p] = Pages(t)
  BY <1>1, <1>2, <1>3
<1>. HIDE DEF t
<1>5. SlotSetPost(slot, p, slot[p].pt, t, slot')
  BY <1>1, <1>3, SlotSet DEF SlotSize
<1>6. /\ slot' \in [Proc -> SlotRec] /\ slot'[p].pt = slot[p].pt /\ slot'[p].sz = t
      /\ slot'[p].used = slot[p].used /\ slot'[p].tf = slot[p].tf
      /\ \A q \in Proc : q # p => slot'[q] = slot[q]
  BY <1>5 DEF SlotSetPost
<1>7. stage'[p] = "user" /\ \A q \in Proc : q # p => stage'[q] = stage[q]
  BY <1>1 DEF VmInv, VmTypeOK
<1>8. VmTypeOK' /\ panicked' = FALSE
  BY <1>1, <1>6, ReturnTypes DEF VmInv, VmTypeOK, Stages
<1>9. Others(p, p) /\ kid'[p] = p
  BY <1>1, <1>6, <1>7, ReturnTypes DEF Others
<1>10. Rows(p)'
  <2>1. Mapped(p)' = Pages(t)
    BY <1>6, <1>7 DEF Mapped
  <2>2. SlotRow(p)'
    BY <1>2, <1>3, <1>4, <1>6, <1>7, <2>1 DEF SlotRow
  <2>. QED
    BY <1>1, <1>7, <2>2, ReturnRows
<1>11. OwnInv'
  <2>1. \A q \in Proc : new'[q] = new[q] /\ arg'[q] = arg[q]
    BY <1>1, ReturnTypes, NotCalling
  <2>2. Holds(free', slot[p].pt, Owning, OPt(p), {})
    BY <1>1, VmOwners
  <2>. QED
    BY <1>6, <2>1, <2>2, OwnPt
<1>. QED
  BY <1>2, <1>8, <1>9, <1>10, <1>11, NoChild, StepInv

-----------------------------------------------------------------------------
(***************************************************************************)
(* fork() and wait(), and proc_pagetable() for fork() and exec().          *)
(***************************************************************************)

\* An owner gives up all of its pages.
GivesUp(f, P0, x) ==
    \E P \in Owners : /\ Exact(f, P) /\ f \in FreeLists
                      /\ P[x] = {} /\ \A y \in Owner : y # x => P[y] = P0[y]
LEMMA FreeAll ==
    ASSUME NEW f \in FreeLists, NEW P0 \in Owners, Exact(f, P0), NEW x \in Owner,
           NEW W, W = P0[x]
    PROVE  GivesUp(kfree(f, W), P0, x)
<1>. DEFINE e == P0[x] \ W
            P == Give(P0, x, e)
<1>1. e = {} /\ W \in SUBSET P0[x] /\ e \in SUBSET Page
  OBVIOUS
<1>2. Exact(kfree(f, W), P)
  BY <1>1, ExactFree
<1>. HIDE DEF e
<1>3. P \in Owners /\ P[x] = e /\ \A y \in Owner : y # x => P[y] = P0[y]
  BY <1>1, GiveAt
<1>4. kfree(f, W) \in FreeLists
  BY KfreeAt
<1>. QED
  BY <1>1, <1>2, <1>3, <1>4 DEF GivesUp

\* A fork() that fails, after the page table under construction is gone: the
\* trapframe of the child is given back too.
LEMMA KidGone ==
    ASSUME VmInv, NEW p \in Proc, kid[p] # p, NEW f, GivesUp(f, Owning, ONew(p)),
           free' = kfree(f, {slot[kid[p]].tf} \ {0}), panicked' = FALSE,
           slot' = [slot EXCEPT ![kid[p]] = NoProc],
           stage' = [stage EXCEPT ![p] = "user"], Return(p)
    PROVE  VmInv'
<1>0. PICK k \in Proc : k = kid[p]
  BY VmParts
<1>p. PICK P0 \in Owners : /\ f \in FreeLists /\ Exact(f, P0) /\ P0[ONew(p)] = {}
                           /\ \A y \in Owner : y # ONew(p) => P0[y] = Owning[y]
  BY DEF GivesUp
<1>. DEFINE W == {slot[k].tf} \ {0}
<1>1. /\ k \in Proc /\ slot[p].used /\ ~slot[k].used /\ slot[k].tf \in Page
      /\ \A q \in Proc : q # p /\ q # k => kid[q] # k
      /\ slot[k].pt = NoTable /\ slot[k].sz = 0 /\ stage[k] = "none" /\ arg[p] = 0
  BY <1>0, ChildSlot
<1>2. OTf(k) \in Owner /\ OTf(k) # ONew(p)
  BY <1>1, OwnerFacts
<1>3. W = P0[OTf(k)]
  BY <1>p, <1>1, <1>2, VmOwners
<1>. HIDE DEF W
<1>4. PICK P \in Owners : /\ Exact(kfree(f, W), P) /\ kfree(f, W) \in FreeLists
                          /\ P[OTf(k)] = {} /\ \A y \in Owner : y # OTf(k) => P[y] = P0[y]
  <2>1. GivesUp(kfree(f, W), P0, OTf(k))
    BY <1>p, <1>2, <1>3, FreeAll
  <2>. QED
    BY <2>1 DEF GivesUp
<1>5. free' = kfree(f, W)
  BY <1>0 DEF W
<1>6. ONew(p) \in Owner
  BY OwnerFacts
<1>7. P[ONew(p)] = {} /\ \A y \in Owner : y # ONew(p) /\ y # OTf(k) => P[y] = Owning[y]
  BY <1>p, <1>2, <1>4, <1>6
<1>8. OwnInv'
  BY <1>0, <1>4, <1>5, <1>7, OwnKid
<1>9. NoProc \in SlotRec
  BY NoTableFacts DEF NoProc, SlotRec
<1>10. /\ slot' \in [Proc -> SlotRec] /\ slot'[k] = NoProc
       /\ \A q \in Proc : q # k => slot'[q] = slot[q]
  BY <1>0, <1>1, <1>9 DEF VmInv, VmTypeOK
<1>11. stage'[p] = "user" /\ \A q \in Proc : q # p => stage'[q] = stage[q]
  BY DEF VmInv, VmTypeOK
<1>12. VmTypeOK'
  BY <1>4, <1>5, <1>10, ReturnTypes DEF VmInv, VmTypeOK, FreeLists, Stages
<1>13. Others(p, k)
  BY <1>10, <1>11, ReturnTypes DEF Others
<1>14. k # p
  BY <1>0
<1>15. Rows(k)'
  <2>1. slot'[k].used = FALSE /\ slot'[k].pt = NoTable /\ slot'[k].sz = 0
    BY <1>10 DEF NoProc
  <2>2. stage'[k] = stage[k]
    BY <1>11, <1>14
  <2>. QED
    BY <1>1, <1>13, <1>14, <2>1, <2>2, IdleRows
<1>16. Rows(p)'
  <2>1. stage[p] \notin {"none", "grow"} /\ stage'[p] \notin {"none", "grow"}
    BY <1>0, <1>11, <1>14, NotCalling, VmParts DEF Rows, SlotRow
  <2>2. SlotRow(p)'
    BY <1>10, <1>14, <2>1, SameSlot
  <2>. QED
    BY <1>11, <2>2, ReturnRows
<1>17. kid'[p] = p
  BY ReturnTypes
<1>. QED
  BY <1>1, <1>8, <1>12, <1>13, <1>15, <1>16, <1>17, StepInv

\* An exec() that fails, after everything it had is given back.
LEMMA ExecGone ==
    ASSUME VmInv, NEW p \in Proc, stage[p] \notin {"none", "grow"}, NEW P \in Owners,
           Exact(free', P), free' \in FreeLists, P[ONew(p)] = {}, P[OArg(p)] = {},
           \A y \in Owner : y # ONew(p) /\ y # OArg(p) => P[y] = Owning[y],
           panicked' = FALSE, slot' = slot,
           stage' = [stage EXCEPT ![p] = "user"], Return(p)
    PROVE  VmInv'
<1>1. OwnInv'
  BY OwnBad
<1>2. stage'[p] = "user" /\ \A q \in Proc : q # p => stage'[q] = stage[q]
  BY DEF VmInv, VmTypeOK
<1>3. VmTypeOK'
  BY ReturnTypes DEF VmInv, VmTypeOK, FreeLists, Stages
<1>4. Others(p, p)
  BY <1>2, ReturnTypes DEF Others
<1>5. SlotRow(p)' /\ slot[p].used
  BY <1>2, SameSlot
<1>6. Rows(p)'
  BY <1>2, <1>5, ReturnRows
<1>7. kid'[p] = p
  BY ReturnTypes
<1>. QED
  BY <1>1, <1>3, <1>4, <1>5, <1>6, <1>7, NoChild, StepInv

\* freeproc() of a slot without a table.
LEMMA FreeprocNone ==
    ASSUME NEW f, NEW q \in Proc, NEW pt, NEW s, pt.root = 0
    PROVE  freeproc(f, q, pt, s) = Result(TRUE, kfree(f, {slot[q].tf} \ {0}), NoTable)
<1>1. Result(TRUE, f, NoTable).ok = TRUE /\ Result(TRUE, f, NoTable).free = f
  BY DEF Result
<1>. QED
  BY <1>1, Zenon DEF freeproc

\* The way out without a page table.
LEMMA NoPagetableInv ==
    ASSUME VmInv, NEW p \in Proc, stage[p] \in {"pagetable", "trampoline"}, NEW f,
           GivesUp(f, Owning, ONew(p)), NoPagetable(p, f)
    PROVE  VmInv'
<1>1. PICK P \in Owners : /\ f \in FreeLists /\ Exact(f, P) /\ P[ONew(p)] = {}
                          /\ \A y \in Owner : y # ONew(p) => P[y] = Owning[y]
  BY DEF GivesUp
<1>2. stage' = [stage EXCEPT ![p] = "user"] /\ Return(p)
  BY DEF NoPagetable, Enter
<1>3. CASE kid[p] # p
  <2>. DEFINE d == freeproc(f, kid[p], NoTable, 0)
  <2>1. free' = d.free /\ panicked' = ~d.ok /\ slot' = [slot EXCEPT ![kid[p]] = NoProc]
    BY <1>3 DEF NoPagetable, Take
  <2>2. kid[p] \in Proc /\ NoTable.root = 0
    BY VmParts, NoTableFacts
  <2>3. d.ok = TRUE /\ d.free = kfree(f, {slot[kid[p]].tf} \ {0})
    <3>1. d = Result(TRUE, kfree(f, {slot[kid[p]].tf} \ {0}), NoTable)
      BY <2>2, FreeprocNone
    <3>. HIDE DEF d
    <3>. QED
      BY <3>1 DEF Result
  <2>. HIDE DEF d
  <2>4. panicked' = FALSE /\ free' = kfree(f, {slot[kid[p]].tf} \ {0})
    BY <2>1, <2>3
  <2>. QED
    BY <1>2, <1>3, <2>1, <2>4, KidGone
<1>4. CASE kid[p] = p
  <2>. DEFINE W == {arg[p]} \ {0}
  <2>1. free' = kfree(f, W) /\ slot' = slot /\ panicked' = panicked
    BY <1>4 DEF NoPagetable
  <2>2. OArg(p) \in Owner /\ ONew(p) \in Owner /\ OArg(p) # ONew(p)
    BY OwnerFacts
  <2>3. W = P[OArg(p)]
    BY <1>1, <2>2, VmOwners
  <2>. HIDE DEF W
  <2>4. PICK Q \in Owners : /\ Exact(kfree(f, W), Q) /\ kfree(f, W) \in FreeLists
                            /\ Q[OArg(p)] = {} /\ \A y \in Owner : y # OArg(p) => Q[y] = P[y]
    <3>1. GivesUp(kfree(f, W), P, OArg(p))
      BY <1>1, <2>2, <2>3, FreeAll
    <3>. QED
      BY <3>1 DEF GivesUp
  <2>5. /\ Q[ONew(p)] = {}
        /\ \A y \in Owner : y # ONew(p) /\ y # OArg(p) => Q[y] = Owning[y]
    BY <1>1, <2>2, <2>4
  <2>6. panicked' = FALSE
    BY <2>1 DEF VmInv, VmTypeOK
  <2>. QED
    BY <1>2, <2>1, <2>4, <2>5, <2>6, ExecGone
<1>. QED
  BY <1>3, <1>4

\* A table that is freed is given up.
LEMMA FreedGives ==
    ASSUME NEW r, NEW O \in Owners, NEW x \in Owner, FreePost(r, O, x)
    PROVE  GivesUp(r.free, O, x)
<1>. DEFINE P == Give(O, x, {})
<1>1. {} \in SUBSET Page
  OBVIOUS
<1>2. P \in Owners /\ P[x] = {} /\ \A y \in Owner : y # x => P[y] = O[y]
  BY <1>1, GiveAt
<1>3. r.free \in FreeLists /\ Exact(r.free, P)
  BY DEF FreePost
<1>. QED
  BY <1>2, <1>3 DEF GivesUp

\* allocproc()
LEMMA AllocprocInv ==
    ASSUME VmInv, NEW p \in Proc, NEW q \in Proc, allocproc(p, q)
    PROVE  VmInv'
<1>. DEFINE f == free
<1>0. PICK g : g = First(free)
  OBVIOUS
<1>1. /\ stage[p] = "user" /\ ~slot[q].used /\ slot[q].tf = 0 /\ Avail(free) # {}
      /\ free' = kalloc(free) /\ slot' = [slot EXCEPT ![q].tf = g]
      /\ kid' = [kid EXCEPT ![p] = q] /\ stage' = [stage EXCEPT ![p] = "pagetable"]
      /\ UNCHANGED <<new, sz, a, to, arg, panicked>>
  BY <1>0 DEF allocproc, At, Enter
<1>2. slot[p].used /\ q # p
  BY <1>1, VmParts DEF Rows, SlotRow
<1>3. OTf(q) \in Owner /\ free \in FreeLists /\ Owning \in Owners /\ Exact(free, Owning)
  BY OwnerFacts, VmOwners
<1>4. g \in Page /\ kalloc(free) \in FreeLists /\ g # 0
  <2>1. g \in Page /\ kalloc(free) \in FreeLists
    BY <1>0, <1>1, <1>3, FirstFree
  <2>. QED
    BY <2>1, VmConstants DEF Page
<1>5. /\ slot' \in [Proc -> SlotRec] /\ slot'[q].tf = g /\ slot'[q].used = slot[q].used
      /\ slot'[q].pt = slot[q].pt /\ slot'[q].sz = slot[q].sz
      /\ \A r \in Proc : r # q => slot'[r] = slot[r]
  <2>1. slot \in [Proc -> SlotRec]
    BY DEF VmInv, VmTypeOK
  <2>. QED
    BY <1>1, <1>4, <2>1 DEF SlotRec
<1>6. stage'[p] = "pagetable" /\ \A r \in Proc : r # p => stage'[r] = stage[r]
  BY <1>1 DEF VmInv, VmTypeOK
<1>7. kid'[p] = q /\ \A r \in Proc : r # p => kid'[r] = kid[r]
  BY <1>1 DEF VmInv, VmTypeOK
<1>8. VmTypeOK' /\ panicked' = FALSE
  BY <1>1, <1>4, <1>5 DEF VmInv, VmTypeOK, Stages, FreeLists
<1>9. Others(p, q)
  BY <1>1, <1>5, <1>6, <1>7 DEF Others
<1>10. \A r \in Proc : r # p /\ r # q => kid[r] # q
  BY <1>1, VmParts DEF Rows, CallRow
<1>11. Rows(q)'
  <2>1. stage'[q] = stage[q] /\ slot[q].pt = NoTable /\ slot[q].sz = 0
    BY <1>1, <1>2, <1>6, VmParts DEF Rows, SlotRow
  <2>2. slot'[q].used = FALSE
    BY <1>1, <1>5, VmParts
  <2>. QED
    BY <1>1, <1>2, <1>5, <1>9, <2>1, <2>2, IdleRows
<1>12. Rows(p)'
  <2>1. SlotRow(p)'
    <3>1. stage[p] \notin {"none", "grow"} /\ stage'[p] \notin {"none", "grow"}
      BY <1>1, <1>6
    <3>2. slot'[p] = slot[p]
      BY <1>2, <1>5
    <3>. QED
      BY <3>1, <3>2, SameSlot
  <2>2. kid[p] = p /\ arg[p] = 0 /\ new[p] = NoTable
    BY <1>1, NotCalling
  <2>3. CallRow(p)'
    BY <1>1, <1>2, <1>4, <1>5, <1>6, <1>7, <2>2 DEF CallRow, Forking, Execing
  <2>4. NewRow(p)'
    BY <1>1, <1>6, <2>2, NoTableFacts DEF NewRow, Loading
  <2>5. SizeRow(p)'
    BY <1>1, <1>6, VmParts DEF Rows, SizeRow
  <2>. QED
    BY <2>1, <2>3, <2>4, <2>5 DEF Rows
<1>13. OwnInv'
  <2>. DEFINE W == Owning[OTf(q)] \cup {g}
              P0 == Give(Owning, OTf(q), W)
  <2>1. Exact(kalloc(free), P0)
    BY <1>0, <1>1, <1>3, ExactAlloc
  <2>2. W = {g}
    BY <1>1, VmOwners
  <2>3. W \in SUBSET Page
    BY <1>4, <2>2
  <2>. HIDE DEF W
  <2>4. PICK P \in Owners : /\ Exact(kalloc(free), P) /\ P[OTf(q)] = W
                            /\ \A y \in Owner : y # OTf(q) => P[y] = Owning[y]
    <3>1. P0 \in Owners /\ P0[OTf(q)] = W /\ \A y \in Owner : y # OTf(q) => P0[y] = Owning[y]
      BY <1>3, <2>3, GiveAt
    <3>. QED
      BY <2>1, <3>1
  <2>5. ASSUME NEW r \in Proc
        PROVE  /\ P[OTf(r)] = {slot'[r].tf} \ {0} /\ P[OArg(r)] = {arg'[r]} \ {0}
               /\ P[OPt(r)] = OwnedBy(slot'[r].pt) /\ P[ONew(r)] = OwnedBy(new'[r])
    <3>1. /\ Owning[OTf(r)] = {slot[r].tf} \ {0} /\ Owning[OArg(r)] = {arg[r]} \ {0}
          /\ Owning[OPt(r)] = OwnedBy(slot[r].pt) /\ Owning[ONew(r)] = OwnedBy(new[r])
      BY VmOwners
    <3>2. /\ P[OPt(r)] = Owning[OPt(r)] /\ P[OArg(r)] = Owning[OArg(r)]
          /\ P[ONew(r)] = Owning[ONew(r)]
      BY <2>4, OwnerFacts
    <3>3. slot'[r].pt = slot[r].pt
      BY <1>5
    <3>4. P[OTf(r)] = {slot'[r].tf} \ {0}
      <4>1. CASE r = q
        BY <1>4, <1>5, <2>2, <2>4, <4>1
      <4>2. CASE r # q
        BY <1>5, <2>4, <3>1, <4>2, OwnerFacts
      <4>. QED
        BY <4>1, <4>2
    <3>. QED
      BY <1>1, <3>1, <3>2, <3>3, <3>4
  <2>6. OwnersNow(P)'
    BY <2>5 DEF OwnersNow
  <2>. QED
    BY <1>1, <2>4, <2>6, OwnNext
<1>. QED
  BY <1>1, <1>2, <1>7, <1>8, <1>9, <1>10, <1>11, <1>12, <1>13, StepInv

\* The root of a table that has nothing yet.
LEMMA SetRoot ==
    ASSUME NEW f, NEW O, NEW x, NEW g \in Page, Holds(f, NoTable, O, x, {g})
    PROVE  Holds(f, WithRoot(NoTable, g), O, x, {})
<1>. DEFINE q == WithRoot(NoTable, g)
<1>1. g # 0
  BY VmConstants DEF Page
<1>2. q \in Table /\ q.root = g /\ q.tab = NoTable.tab /\ q.pte = NoTable.pte
  BY RootFields, NoTableFacts
<1>. HIDE DEF q
<1>3. (\A t \in TabIdx : q.tab[t] = 0) /\ (\A v \in UserV : q.pte[v] = 0)
  BY <1>2, NoTableFacts, VmConstants
<1>4. Distinct(q)
  BY <1>1, <1>2, <1>3 DEF Distinct
<1>5. OwnedBy(q) = {g}
  BY <1>1, <1>2, <1>3, InOwned
<1>6. OwnedBy(q) \cup {} = OwnedBy(NoTable) \cup {g}
  BY <1>5, NoTableFacts
<1>7. Holds(f, q, O, x, {})
  BY <1>2, <1>4, <1>5, <1>6 DEF Holds
<1>. QED
  BY <1>7 DEF q

\* uvmcreate()
LEMMA UvmcreateInv ==
    ASSUME VmInv, NEW p \in Proc, uvmcreate(p)
    PROVE  VmInv'
<1>0. PICK g : g = First(free)
  OBVIOUS
<1>1. /\ stage[p] = "pagetable"
      /\ Avail(free) = {} => NoPagetable(p, free)
      /\ Avail(free) # {} => /\ free' = kalloc(free)
                             /\ new' = [new EXCEPT ![p].root = g]
                             /\ stage' = [stage EXCEPT ![p] = "trampoline"]
                             /\ UNCHANGED <<slot, kid, sz, a, to, arg, panicked>>
  BY <1>0 DEF uvmcreate, At, Enter
<1>2. Rows(p) /\ new[p] = NoTable
  BY <1>1, VmParts DEF Rows, NewRow
<1>3. Holds(free, NoTable, Owning, ONew(p), {}) /\ free \in FreeLists
  BY <1>2, VmOwners
<1>4. CASE Avail(free) = {}
  <2>1. GivesUp(free, Owning, ONew(p))
    BY <1>3, HoldsExact, NoTableFacts DEF GivesUp
  <2>. QED
    BY <1>1, <1>4, <2>1, NoPagetableInv
<1>5. CASE Avail(free) # {}
  <2>. DEFINE n0 == WithRoot(NoTable, g)
  <2>1. Holds(kalloc(free), NoTable, Owning, ONew(p), {g}) /\ g \in Page
    BY <1>0, <1>3, <1>5, TakePage
  <2>2. Holds(kalloc(free), n0, Owning, ONew(p), {})
    BY <2>1, SetRoot
  <2>3. n0 \in Table /\ n0.root = g /\ Distinct(n0) /\ kalloc(free) \in FreeLists /\ g # 0
    <3>1. n0.root = g
      BY <2>1, RootFields, NoTableFacts
    <3>2. n0 \in Table /\ Distinct(n0) /\ kalloc(free) \in FreeLists
      BY <2>2 DEF Holds
    <3>3. g # 0
      BY <2>1, VmConstants DEF Page
    <3>. QED
      BY <3>1, <3>2, <3>3
  <2>4. n0 = [NoTable EXCEPT !.root = n0.root]
    BY <2>3 DEF WithRoot
  <2>5. new' = [new EXCEPT ![p] = n0]
    BY <1>1, <1>2, <1>5 DEF WithRoot, VmInv, VmTypeOK
  <2>. HIDE DEF n0
  <2>6. new' \in [Proc -> Table] /\ new'[p] = n0 /\ \A q \in Proc : q # p => new'[q] = new[q]
    BY <2>3, <2>5 DEF VmInv, VmTypeOK
  <2>7. stage'[p] = "trampoline" /\ \A q \in Proc : q # p => stage'[q] = stage[q]
    BY <1>1, <1>5 DEF VmInv, VmTypeOK
  <2>8. VmTypeOK' /\ panicked' = FALSE
    BY <1>1, <1>5, <2>3, <2>6 DEF VmInv, VmTypeOK, Stages, FreeLists
  <2>9. Others(p, p)
    BY <1>1, <1>5, <2>6, <2>7 DEF Others
  <2>10. SlotRow(p)' /\ slot[p].used
    <3>1. stage[p] \notin {"none", "grow"} /\ stage'[p] \notin {"none", "grow"} /\ slot'[p] = slot[p]
      BY <1>1, <1>5, <2>7
    <3>. QED
      BY <3>1, SameSlot
  <2>11. Rows(p)'
    <3>1. CallRow(p)'
      BY <1>1, <1>2, <1>5, <2>7 DEF Rows, CallRow, Forking, Execing
    <3>2. NewRow(p)'
      BY <2>3, <2>4, <2>6, <2>7 DEF NewRow, Loading
    <3>3. SizeRow(p)'
      BY <1>1, <1>2, <1>5, <2>7 DEF Rows, SizeRow
    <3>. QED
      BY <2>10, <3>1, <3>2, <3>3 DEF Rows
  <2>12. OwnInv'
    BY <1>1, <1>5, <2>2, <2>6, OwnNew
  <2>. QED
    BY <1>1, <1>5, <2>8, <2>9, <2>10, <2>11, <2>12, NoChild, StepInv
<1>. QED
  BY <1>4, <1>5

\* The trapframe that proc_pagetable() maps.
LEMMA KidTf ==
    ASSUME VmInv, NEW p \in Proc, stage[p] # "none"
    PROVE  kid[p] \in Proc /\ slot[kid[p]].tf \in Page /\ slot[p].used
<1>1. kid[p] \in Proc /\ Rows(p) /\ slot[kid[p]].tf \in Page \cup {0}
  BY VmParts
<1>2. slot[p].used /\ slot[p].tf # 0
  BY <1>1 DEF Rows, SlotRow
<1>3. slot[kid[p]].tf # 0
  BY <1>1, <1>2 DEF Rows, CallRow
<1>. QED
  BY <1>1, <1>2, <1>3

\* The new table of a process that builds one, in the terms of the step after.
LEMMA ProcPagetableInv ==
    ASSUME VmInv, NEW p \in Proc, proc_pagetable(p)
    PROVE  VmInv'
<1>0. PICK n0 : n0 = new[p]
  OBVIOUS
<1>. DEFINE tf == slot[kid[p]].tf
            m == mappages(free, n0, TRAMPOLINE, TrampolineText, {})
            t == mappages(m.free, m.pt, TRAPFRAME, tf, {})
            c == IF kid[p] # p THEN "copy" ELSE "load"
<1>1. /\ stage[p] = "trampoline"
      /\ ~m.ok => NoPagetable(p, kfree(m.free, freewalk(m.pt)))
      /\ m.ok => /\ free' = t.free /\ new' = [new EXCEPT ![p] = t.pt]
                 /\ stage' = [stage EXCEPT ![p] = c]
                 /\ UNCHANGED <<slot, kid, sz, a, to, arg, panicked>>
  BY <1>0 DEF proc_pagetable, At, Enter
<1>2. /\ Rows(p) /\ n0.root # 0 /\ n0 = WithRoot(NoTable, n0.root) /\ sz[p] = 0 /\ a[p] = 0
      /\ n0 \in Table
  BY <1>0, <1>1, VmParts DEF Rows, NewRow, SizeRow, WithRoot
<1>3. tf \in Page /\ kid[p] \in Proc /\ slot[p].used /\ tf # 0
  BY <1>1, KidTf, VmConstants DEF Page
<1>4. /\ n0.tab = NoTable.tab /\ n0.pte = NoTable.pte /\ n0.user = {}
      /\ \A t0 \in TabIdx : n0.tab[t0] = 0
  BY <1>2, RootFields, NoTableFacts, TableFields
<1>5. Holds(free, n0, Owning, ONew(p), {}) /\ ONew(p) \in Owner
  BY <1>0, VmOwners, OwnerFacts
<1>6. TrampolineText \in 0 .. NPAGES + 1 /\ tf \in 0 .. NPAGES + 1 /\ TrampolineText # 0
  BY <1>3, VmConstants DEF TrampolineText, Page
<1>7. /\ TRAMPOLINE \in VPage /\ TRAMPOLINE \notin UserV /\ TRAPFRAME \in VPage
      /\ TRAPFRAME \notin UserV /\ TRAMPOLINE # TRAPFRAME
  BY VmConstants DEF UserV
<1>. HIDE DEF tf
<1>8. TopPost(free, n0, TRAMPOLINE, TrampolineText, Owning, ONew(p), m)
  BY <1>5, <1>6, <1>7, MapTop
<1>. HIDE DEF m
<1>9. CASE ~m.ok
  <2>. DEFINE W == freewalk(n0)
  <2>1. m.free = free /\ m.pt = n0
    BY <1>8, <1>9 DEF TopPost
  <2>2. W = Owning[ONew(p)]
    <3>1. \A v \in UserV : n0.pte[v] = 0
      BY <1>4, NoTableFacts, VmConstants
    <3>2. OwnedBy(n0) = W
      BY <3>1 DEF OwnedBy, UserV
    <3>. QED
      BY <1>0, <3>2, VmOwners
  <2>. HIDE DEF W
  <2>3. GivesUp(kfree(free, W), Owning, ONew(p))
    BY <1>5, <2>2, VmOwners, FreeAll
  <2>4. NoPagetable(p, kfree(free, W))
    BY <1>1, <1>9, <2>1 DEF W
  <2>. QED
    BY <1>1, <2>3, <2>4, NoPagetableInv
<1>10. CASE m.ok
  <2>1. /\ Holds(m.free, m.pt, Owning, ONew(p), {}) /\ m.pt.root = n0.root /\ m.pt.user = {}
        /\ m.pt.pte = [n0.pte EXCEPT ![TRAMPOLINE] = TrampolineText]
        /\ m.pt.tab[USERTABS] # 0
    BY <1>4, <1>8, <1>10, TabOf DEF TopPost
  <2>2. TopPost(m.free, m.pt, TRAPFRAME, tf, Owning, ONew(p), t)
    BY <1>6, <1>7, <2>1, MapTop
  <2>. HIDE DEF t
  <2>3. /\ Holds(t.free, t.pt, Owning, ONew(p), {}) /\ t.pt.root = n0.root /\ t.pt.user = {}
        /\ t.pt.pte = [m.pt.pte EXCEPT ![TRAPFRAME] = tf]
    BY <2>1, <2>2, TabOf DEF TopPost
  <2>4. PICK np : np = t.pt
    OBVIOUS
  <2>5. np \in Table /\ Distinct(np) /\ t.free \in FreeLists /\ np.root # 0 /\ np.user = {}
    BY <1>2, <2>3, <2>4 DEF Holds
  <2>6. /\ np.pte[TRAPFRAME] = tf /\ np.pte[TRAMPOLINE] = TrampolineText
        /\ \A v \in VPage : v # TRAPFRAME /\ v # TRAMPOLINE => np.pte[v] = 0
    <3>1. n0.pte \in [VPage -> 0 .. NPAGES + 1] /\ \A v \in VPage : n0.pte[v] = 0
      BY <1>2, <1>4, TableFields, NoTableFacts
    <3>. QED
      BY <1>7, <2>1, <2>3, <2>4, <3>1
  <2>7. Prefix(np, 0) /\ Top(np, tf)
    <3>1. \A v \in UserV : np.pte[v] = 0 /\ ~ v < 0
      BY <1>7, <2>6, VmConstants DEF UserV
    <3>2. \A v \in VPage : v < TRAPFRAME => v # TRAPFRAME /\ v # TRAMPOLINE
      BY VmConstants DEF VPage
    <3>3. 0 \in 0 .. USERPAGES
      BY VmConstants
    <3>. QED
      BY <2>5, <2>6, <3>1, <3>2, <3>3 DEF Prefix, Top
  <2>8. /\ free' = t.free /\ new' = [new EXCEPT ![p] = np]
        /\ stage' = [stage EXCEPT ![p] = c]
        /\ UNCHANGED <<slot, kid, sz, a, to, arg, panicked>>
    BY <1>1, <1>10, <2>4
  <2>9. new' \in [Proc -> Table] /\ new'[p] = np /\ \A q \in Proc : q # p => new'[q] = new[q]
    BY <2>5, <2>8 DEF VmInv, VmTypeOK
  <2>10. /\ stage'[p] = IF kid[p] # p THEN "copy" ELSE "load"
         /\ \A q \in Proc : q # p => stage'[q] = stage[q]
    BY <2>8 DEF VmInv, VmTypeOK
  <2>11. VmTypeOK' /\ panicked' = FALSE
    BY <2>5, <2>8, <2>9 DEF VmInv, VmTypeOK, Stages, FreeLists
  <2>12. Others(p, p)
    BY <2>8, <2>9, <2>10 DEF Others
  <2>13. SlotRow(p)'
    <3>1. stage[p] \notin {"none", "grow"} /\ stage'[p] \notin {"none", "grow"} /\ slot'[p] = slot[p]
      BY <1>1, <2>8, <2>10
    <3>. QED
      BY <3>1, SameSlot
  <2>14. Rows(p)'
    <3>1. CallRow(p)'
      BY <1>1, <1>2, <2>8, <2>10 DEF Rows, CallRow, Forking, Execing
    <3>2. NewRow(p)'
      <4>1. Building(p)' = 0
        BY <1>2, <2>8, <2>10, PagesOf DEF Building
      <4>2. slot'[kid'[p]].tf = tf
        BY <2>8 DEF tf
      <4>3. 0 .. 0 - 1 = {} /\ a'[p] = 0
        BY <1>2, <2>8
      <4>. QED
        BY <2>5, <2>7, <2>9, <2>10, <4>1, <4>2, <4>3 DEF NewRow, Loading
    <3>3. SizeRow(p)'
      BY <1>2, <2>8, <2>10, VmParts, PagesOf, VmConstants DEF SizeRow
    <3>. QED
      BY <2>13, <3>1, <3>2, <3>3 DEF Rows
  <2>15. OwnInv'
    BY <2>3, <2>4, <2>8, <2>9, OwnNew
  <2>. QED
    BY <1>3, <2>8, <2>11, <2>12, <2>14, <2>15, NoChild, StepInv
<1>. QED
  BY <1>9, <1>10

\* The facts about a fork() that copies memory.
LEMMA InCopy ==
    ASSUME VmInv, NEW p \in Proc, stage[p] = "copy"
    PROVE  /\ kid[p] # p /\ slot[p].used /\ slot[p].sz <= UserMax
           /\ Prefix(slot[p].pt, Pages(slot[p].sz)) /\ Guard(slot[p].pt, Pages(slot[p].sz))
           /\ new[p].root # 0 /\ Prefix(new[p], a[p]) /\ Top(new[p], slot[kid[p]].tf)
           /\ new[p].user = (0 .. a[p] - 1) \cap slot[p].pt.user
           /\ a[p] <= Pages(slot[p].sz) /\ Pages(slot[p].sz) \in Nat
           /\ Pages(slot[p].sz) <= USERPAGES /\ USERPAGES \in Nat
<1>1. Rows(p) /\ slot[p].sz \in Nat
  BY VmParts
<1>2. /\ slot[p].used /\ slot[p].sz <= UserMax /\ Prefix(slot[p].pt, Pages(slot[p].sz))
      /\ Guard(slot[p].pt, Pages(slot[p].sz))
  BY <1>1 DEF Rows, SlotRow, Mapped
<1>3. /\ new[p].root # 0 /\ Prefix(new[p], a[p]) /\ Top(new[p], slot[kid[p]].tf)
      /\ new[p].user = (0 .. a[p] - 1) \cap slot[p].pt.user
  BY <1>1 DEF Rows, NewRow, Building
<1>4. kid[p] # p /\ a[p] <= Pages(slot[p].sz)
  BY <1>1 DEF Rows, CallRow, SizeRow
<1>. QED
  BY <1>1, <1>2, <1>3, <1>4, PagesOf, VmConstants

\* A round of uvmcopy().
LEMMA UvmcopyInv ==
    ASSUME VmInv, NEW p \in Proc, uvmcopy(p)
    PROVE  VmInv'
<1>0. PICK n0, k, r : n0 = new[p] /\ k = a[p] /\ r = kid[p]
  OBVIOUS
<1>. DEFINE U == slot[p].pt.user
            w == {k} \cap U
            m == uvmalloc_page(free, n0, k, w)
            u == uvmunmap(m.pt, 0, k)
            f1 == kfree(m.free, Leaves(m.pt, 0, k))
            d == freeproc(f1, r, u, slot[r].sz)
<1>1. /\ stage[p] = "copy" /\ k < Pages(slot[p].sz)
      /\ m.ok => /\ free' = m.free /\ new' = [new EXCEPT ![p] = m.pt]
                 /\ panicked' = (slot[p].pt.pte[k] = 0 \/ n0.pte[k] # 0)
                 /\ a' = [a EXCEPT ![p] = k + 1]
                 /\ UNCHANGED <<slot, stage, kid, sz, to, arg>>
      /\ ~m.ok => /\ free' = d.free /\ panicked' = ~d.ok
                  /\ slot' = [slot EXCEPT ![r] = NoProc]
                  /\ stage' = [stage EXCEPT ![p] = "user"] /\ Return(p)
  BY <1>0 DEF uvmcopy, At, Take, Enter
<1>2. /\ kid[p] # p /\ slot[p].used /\ slot[p].sz <= UserMax
      /\ Prefix(slot[p].pt, Pages(slot[p].sz))
      /\ n0.root # 0 /\ Prefix(n0, k) /\ Top(n0, slot[r].tf)
      /\ n0.user = (0 .. k - 1) \cap U
      /\ Pages(slot[p].sz) \in Nat /\ Pages(slot[p].sz) <= USERPAGES /\ USERPAGES \in Nat
  BY <1>0, <1>1, InCopy
<1>3. n0 \in Table /\ k \in Nat /\ Rows(p) /\ r \in Proc /\ slot[r].tf \in Page /\ slot[r].sz = 0
  BY <1>0, <1>2, VmParts, ChildSlot
<1>4. Holds(free, n0, Owning, ONew(p), {}) /\ ONew(p) \in Owner /\ Owning \in Owners
  BY <1>0, VmOwners, OwnerFacts
<1>5. k \in UserV /\ k < USERPAGES /\ w \in SUBSET VPage
  BY <1>1, <1>2, <1>3, VmConstants DEF UserV
<1>6. n0.pte[k] = 0 /\ slot[p].pt.pte[k] # 0
  <2>1. (n0.pte[k] # 0 <=> k < k) /\ (slot[p].pt.pte[k] # 0 <=> k < Pages(slot[p].sz))
    BY <1>2, <1>5 DEF Prefix
  <2>. QED
    BY <1>1, <1>3, <2>1
<1>. HIDE DEF w
<1>7. AllocPost(free, n0, k, w, Owning, ONew(p), m)
  BY <1>4, <1>5, <1>6, AllocPage
<1>. HIDE DEF m
<1>8. CASE m.ok
  <2>0. PICK np : np = m.pt
    OBVIOUS
  <2>1. PICK g \in Page : np.pte = [n0.pte EXCEPT ![k] = g]
    BY <1>7, <1>8, <2>0 DEF AllocPost
  <2>2. /\ Holds(m.free, np, Owning, ONew(p), {}) /\ np.root = n0.root
        /\ np.user = n0.user \cup w
    BY <1>7, <1>8, <2>0 DEF AllocPost
  <2>3. np \in Table /\ Distinct(np) /\ m.free \in FreeLists
    BY <2>2 DEF Holds
  <2>4. w \in SUBSET {k}
    BY DEF w
  <2>5. /\ Prefix(np, k + 1) /\ np.pte[TRAPFRAME] = n0.pte[TRAPFRAME]
        /\ np.pte[TRAMPOLINE] = n0.pte[TRAMPOLINE]
    BY <1>2, <1>3, <1>5, <2>1, <2>2, <2>3, <2>4, PrefixGrow
  <2>6. Top(np, slot[r].tf) /\ np.user = (0 .. (k + 1) - 1) \cap U
    <3>1. \A v : v \in 0 .. (k + 1) - 1 <=> v \in 0 .. k - 1 \/ v = k
      BY <1>3
    <3>. QED
      BY <1>2, <2>2, <2>5, <3>1 DEF Top, w
  <2>7. /\ free' = m.free /\ new' = [new EXCEPT ![p] = np] /\ panicked' = FALSE
        /\ a' = [a EXCEPT ![p] = k + 1] /\ UNCHANGED <<slot, stage, kid, sz, to, arg>>
    BY <1>1, <1>6, <1>8, <2>0
  <2>8. /\ new' \in [Proc -> Table] /\ new'[p] = np /\ \A q \in Proc : q # p => new'[q] = new[q]
        /\ a' \in [Proc -> Nat] /\ a'[p] = k + 1 /\ \A q \in Proc : q # p => a'[q] = a[q]
    BY <1>3, <2>3, <2>7 DEF VmInv, VmTypeOK
  <2>9. VmTypeOK'
    BY <2>3, <2>7, <2>8 DEF VmInv, VmTypeOK, FreeLists
  <2>10. Others(p, p)
    BY <2>7, <2>8 DEF Others
  <2>11. Rows(p)'
    <3>1. SlotRow(p)'
      <4>1. stage[p] \notin {"none", "grow"} /\ stage'[p] \notin {"none", "grow"}
            /\ slot'[p] = slot[p]
        BY <1>1, <2>7
      <4>. QED
        BY <4>1, SameSlot
    <3>2. CallRow(p)'
      BY <1>3, <2>7 DEF Rows, CallRow, Forking, Execing
    <3>3. NewRow(p)'
      <4>1. Building(p)' = k + 1 /\ stage'[p] = "copy"
        BY <1>1, <2>7, <2>8 DEF Building
      <4>2. slot'[kid'[p]].tf = slot[r].tf /\ slot'[p].pt.user = U
        BY <1>0, <2>7
      <4>. QED
        BY <1>2, <2>2, <2>3, <2>5, <2>6, <2>8, <4>1, <4>2 DEF NewRow, Loading
    <3>4. SizeRow(p)'
      <4>1. k + 1 <= Pages(slot[p].sz)
        BY <1>1, <1>2, <1>3
      <4>. QED
        BY <1>1, <2>7, <2>8, <4>1 DEF SizeRow
    <3>. QED
      BY <3>1, <3>2, <3>3, <3>4 DEF Rows
  <2>12. OwnInv'
    BY <2>2, <2>7, <2>8, OwnNew
  <2>. QED
    BY <1>2, <2>7, <2>9, <2>10, <2>11, <2>12, NoChild, StepInv
<1>9. CASE ~m.ok
  <2>1. m.free = free /\ m.pt = n0
    BY <1>7, <1>9 DEF AllocPost
  <2>2. 0 \in 0 .. k
    BY <1>3
  <2>3. UnmapPost(free, n0, 0, k, Owning, ONew(p), u) /\ f1 = kfree(free, Leaves(n0, 0, k))
    BY <1>2, <1>4, <2>1, <2>2, Unmap
  <2>. HIDE DEF u
  <2>4. /\ Holds(f1, u, Owning, ONew(p), {}) /\ Prefix(u, Pages(0)) /\ u.root # 0
        /\ Top(u, slot[r].tf)
    BY <1>2, <2>3, PagesOf DEF UnmapPost, Top
  <2>. HIDE DEF f1
  <2>5. PICK e : e = proc_freepagetable(f1, u, 0)
    OBVIOUS
  <2>6. FreePost(e, Owning, ONew(p))
    BY <1>3, <2>4, <2>5, FreePagetable
  <2>7. e.ok = TRUE /\ GivesUp(e.free, Owning, ONew(p))
    BY <1>4, <2>6, FreedGives DEF FreePost
  <2>8. d = Result(TRUE, kfree(e.free, {slot[r].tf} \ {0}), NoTable)
    <3>1. d = freeproc(f1, r, u, 0)
      BY <1>3
    <3>. HIDE DEF d
    <3>. QED
      BY <2>4, <2>5, <2>7, <3>1, Zenon DEF freeproc
  <2>. HIDE DEF d
  <2>9. d.ok = TRUE /\ d.free = kfree(e.free, {slot[r].tf} \ {0})
    BY <2>8 DEF Result
  <2>10. /\ free' = kfree(e.free, {slot[kid[p]].tf} \ {0}) /\ panicked' = FALSE
         /\ slot' = [slot EXCEPT ![kid[p]] = NoProc]
         /\ stage' = [stage EXCEPT ![p] = "user"] /\ Return(p)
    BY <1>0, <1>1, <1>9, <2>9
  <2>. QED
    BY <1>2, <2>7, <2>10, KidGone
<1>. QED
  BY <1>8, <1>9

\* The end of fork(): the child has the table.
LEMMA ForkInv ==
    ASSUME VmInv, NEW p \in Proc, fork(p)
    PROVE  VmInv'
<1>0. PICK n0, k, s : n0 = new[p] /\ k = kid[p] /\ s = slot[p].sz
  OBVIOUS
<1>1. /\ stage[p] = "copy" /\ a[p] >= Pages(s)
      /\ slot' = [slot EXCEPT ![k] = [slot[k] EXCEPT !.used = TRUE, !.pt = n0, !.sz = s]]
      /\ stage' = [stage EXCEPT ![p] = "user", ![k] = "user"] /\ Return(p)
      /\ UNCHANGED <<free, panicked>>
  BY <1>0 DEF fork, At, VmInv, VmTypeOK
<1>2. /\ k # p /\ slot[p].used /\ s <= UserMax
      /\ Prefix(slot[p].pt, Pages(s)) /\ Guard(slot[p].pt, Pages(s))
      /\ n0.root # 0 /\ Prefix(n0, a[p]) /\ Top(n0, slot[k].tf)
      /\ n0.user = (0 .. a[p] - 1) \cap slot[p].pt.user
      /\ a[p] <= Pages(s) /\ Pages(s) \in Nat
  BY <1>0, <1>1, InCopy
<1>3. n0 \in Table /\ Distinct(n0) /\ a[p] \in Nat /\ s \in Nat /\ Rows(p)
  BY <1>0, VmParts
<1>4. /\ k \in Proc /\ ~slot[k].used /\ slot[k].tf \in Page
      /\ \A q \in Proc : q # p /\ q # k => kid[q] # k
      /\ slot[k].pt = NoTable /\ stage[k] = "none" /\ arg[p] = 0
  BY <1>0, <1>2, ChildSlot
<1>5. a[p] = Pages(s)
  BY <1>1, <1>2, <1>3
<1>6. Guard(n0, Pages(s))
  <2>1. \A v : v \in (0 .. Pages(s) - 1) \ n0.user => v \in (0 .. Pages(s) - 1) \ slot[p].pt.user
    BY <1>2, <1>5
  <2>. QED
    BY <1>2, <2>1 DEF Guard
<1>7. /\ slot' \in [Proc -> SlotRec] /\ slot'[k].used = TRUE /\ slot'[k].tf = slot[k].tf
      /\ slot'[k].pt = n0 /\ slot'[k].sz = s /\ \A q \in Proc : q # k => slot'[q] = slot[q]
  <2>1. slot \in [Proc -> SlotRec] /\ slot[k] \in SlotRec
    BY <1>4 DEF VmInv, VmTypeOK
  <2>2. [slot[k] EXCEPT !.used = TRUE, !.pt = n0, !.sz = s] \in SlotRec
    BY <1>3, <2>1 DEF SlotRec
  <2>. DEFINE e == [slot[k] EXCEPT !.used = TRUE, !.pt = n0, !.sz = s]
  <2>3. e.used = TRUE /\ e.tf = slot[k].tf /\ e.pt = n0 /\ e.sz = s
    BY <2>1 DEF SlotRec
  <2>4. slot' = [slot EXCEPT ![k] = e] /\ e \in SlotRec
    BY <1>1, <2>2
  <2>. HIDE DEF e
  <2>. QED
    BY <1>4, <2>1, <2>3, <2>4
<1>8. /\ stage'[p] = "user" /\ stage'[k] = "user"
      /\ \A q \in Proc : q # p /\ q # k => stage'[q] = stage[q]
      /\ stage' \in [Proc -> Stages]
  BY <1>1, <1>4 DEF VmInv, VmTypeOK, Stages
<1>9. VmTypeOK' /\ panicked' = FALSE
  BY <1>1, <1>7, <1>8, ReturnTypes DEF VmInv, VmTypeOK
<1>10. Others(p, k) /\ kid'[p] = p
  BY <1>1, <1>7, <1>8, ReturnTypes DEF Others
<1>11. Rows(p)'
  <2>1. stage[p] \notin {"none", "grow"} /\ stage'[p] \notin {"none", "grow"} /\ slot'[p] = slot[p]
    BY <1>1, <1>2, <1>7, <1>8
  <2>2. SlotRow(p)'
    BY <2>1, SameSlot
  <2>. QED
    BY <1>1, <1>8, <2>2, ReturnRows
<1>12. Rows(k)'
  <2>1. Mapped(k)' = Pages(s) /\ slot[k].tf # 0
    BY <1>4, <1>7, <1>8, VmConstants DEF Mapped, Page
  <2>2. SlotRow(k)'
    BY <1>2, <1>3, <1>5, <1>6, <1>7, <1>8, <2>1 DEF SlotRow
  <2>3. kid[k] = k /\ arg[k] = 0 /\ new[k] = NoTable
    BY <1>4, NotCalling
  <2>4. kid'[k] = k /\ arg'[k] = 0 /\ new'[k] = NoTable /\ sz'[k] = sz[k] /\ a'[k] = a[k]
    BY <1>2, <1>4, <1>10, <2>3 DEF Others
  <2>5. CallRow(k)' /\ NewRow(k)'
    BY <1>8, <2>4, NoTableFacts DEF CallRow, NewRow, Execing, Loading
  <2>6. SizeRow(k)'
    BY <1>4, <1>8, <2>4, VmParts DEF Rows, SizeRow
  <2>. QED
    BY <2>2, <2>5, <2>6 DEF Rows
<1>13. OwnInv'
  <2>1. /\ ONew(p) \in Owner /\ OPt(k) \in Owner /\ ONew(p) # OPt(k)
        /\ Owning \in Owners /\ Exact(free, Owning) /\ free \in FreeLists
    BY <1>4, OwnerFacts, VmOwners
  <2>2. Owning[OPt(k)] = {} /\ Owning[ONew(p)] = OwnedBy(n0)
    BY <1>0, <1>4, VmOwners, NoTableFacts
  <2>3. PICK P \in Owners : /\ Exact(free, P) /\ P[ONew(p)] = {} /\ P[OPt(k)] = OwnedBy(n0)
                            /\ \A y \in Owner : y # ONew(p) /\ y # OPt(k) => P[y] = Owning[y]
    <3>. DEFINE P1 == Give(Owning, ONew(p), {})
                W == Owning[ONew(p)]
                P2 == Give(P1, OPt(k), W)
    <3>1. Exact(free, P2)
      BY <2>1, <2>2, ExactMove
    <3>2. {} \in SUBSET Page /\ W \in SUBSET Page
      BY <2>1 DEF Owners
    <3>3. P1 \in Owners /\ P1[ONew(p)] = {} /\ \A y \in Owner : y # ONew(p) => P1[y] = Owning[y]
      BY <2>1, <3>2, GiveAt
    <3>. HIDE DEF P1, W
    <3>4. P2 \in Owners /\ P2[OPt(k)] = W /\ \A y \in Owner : y # OPt(k) => P2[y] = P1[y]
      BY <2>1, <3>2, <3>3, GiveAt
    <3>. HIDE DEF P2
    <3>5. W = OwnedBy(n0)
      BY <2>2 DEF W
    <3>. QED
      BY <2>1, <3>1, <3>3, <3>4, <3>5
  <2>4. ASSUME NEW r \in Proc
        PROVE  /\ P[OTf(r)] = {slot'[r].tf} \ {0} /\ P[OArg(r)] = {arg'[r]} \ {0}
               /\ P[OPt(r)] = OwnedBy(slot'[r].pt) /\ P[ONew(r)] = OwnedBy(new'[r])
    <3>1. /\ Owning[OTf(r)] = {slot[r].tf} \ {0} /\ Owning[OArg(r)] = {arg[r]} \ {0}
          /\ Owning[OPt(r)] = OwnedBy(slot[r].pt) /\ Owning[ONew(r)] = OwnedBy(new[r])
      BY VmOwners
    <3>2. P[OTf(r)] = Owning[OTf(r)] /\ P[OArg(r)] = Owning[OArg(r)]
      BY <1>4, <2>3, OwnerFacts
    <3>3. slot'[r].tf = slot[r].tf /\ arg'[r] = arg[r]
      BY <1>1, <1>4, <1>7, ReturnTypes
    <3>4. P[OPt(r)] = OwnedBy(slot'[r].pt)
      <4>1. CASE r = k
        BY <1>7, <2>3, <4>1
      <4>2. CASE r # k
        BY <1>4, <1>7, <2>3, <3>1, <4>2, OwnerFacts
      <4>. QED
        BY <4>1, <4>2
    <3>5. P[ONew(r)] = OwnedBy(new'[r])
      <4>1. CASE r = p
        BY <1>1, <2>3, <4>1, ReturnTypes, NoTableFacts
      <4>2. CASE r # p
        BY <1>1, <1>4, <2>3, <3>1, <4>2, ReturnTypes, OwnerFacts
      <4>. QED
        BY <4>1, <4>2
    <3>. QED
      BY <3>1, <3>2, <3>3, <3>4, <3>5
  <2>5. OwnersNow(P)'
    BY <2>4 DEF OwnersNow
  <2>. QED
    BY <1>1, <2>3, <2>5, OwnNext
<1>. QED
  BY <1>2, <1>4, <1>9, <1>10, <1>11, <1>12, <1>13, StepInv

\* The freeproc() of wait().
LEMMA WaitInv ==
    ASSUME VmInv, NEW p \in Proc, wait(p)
    PROVE  VmInv'
<1>0. PICK pt, s, tf : pt = slot[p].pt /\ s = slot[p].sz /\ tf = slot[p].tf
  OBVIOUS
<1>. DEFINE d == freeproc(free, p, pt, s)
<1>1. /\ stage[p] = "user" /\ free' = d.free /\ panicked' = ~d.ok
      /\ slot' = [slot EXCEPT ![p] = NoProc] /\ stage' = [stage EXCEPT ![p] = "none"]
      /\ UNCHANGED <<kid, new, sz, a, to, arg>>
  BY <1>0 DEF wait, At, Take, Enter, local
<1>2. /\ slot[p].used /\ tf # 0 /\ pt.root # 0 /\ Prefix(pt, Pages(s)) /\ Top(pt, tf)
      /\ tf \in Page /\ s \in Nat
  BY <1>0, <1>1, VmParts DEF Rows, SlotRow, Mapped
<1>3. /\ Holds(free, pt, Owning, OPt(p), {}) /\ OPt(p) \in Owner /\ OTf(p) \in Owner
      /\ OPt(p) # OTf(p) /\ Owning \in Owners /\ Owning[OTf(p)] = {slot[p].tf} \ {0}
  BY <1>0, VmOwners, OwnerFacts
<1>4. PICK e : e = proc_freepagetable(free, pt, s)
  OBVIOUS
<1>5. FreePost(e, Owning, OPt(p))
  BY <1>2, <1>3, <1>4, FreePagetable
<1>6. e.ok = TRUE /\ GivesUp(e.free, Owning, OPt(p))
  BY <1>3, <1>5, FreedGives DEF FreePost
<1>. DEFINE W == {slot[p].tf} \ {0}
<1>7. d = Result(TRUE, kfree(e.free, W), NoTable)
  BY <1>2, <1>4, <1>6, Zenon DEF freeproc
<1>. HIDE DEF d, W
<1>8. free' = kfree(e.free, W) /\ panicked' = FALSE
  BY <1>1, <1>7 DEF Result
<1>9. PICK P0 \in Owners : /\ e.free \in FreeLists /\ Exact(e.free, P0) /\ P0[OPt(p)] = {}
                           /\ \A y \in Owner : y # OPt(p) => P0[y] = Owning[y]
  BY <1>6 DEF GivesUp
<1>10. W = P0[OTf(p)]
  BY <1>3, <1>9 DEF W
<1>11. GivesUp(kfree(e.free, W), P0, OTf(p))
  BY <1>3, <1>9, <1>10, FreeAll
<1>12. PICK P \in Owners : /\ free' \in FreeLists /\ Exact(free', P) /\ P[OTf(p)] = {}
                           /\ P[OPt(p)] = {}
                           /\ \A y \in Owner : y # OPt(p) /\ y # OTf(p) => P[y] = Owning[y]
  BY <1>3, <1>8, <1>9, <1>11 DEF GivesUp
<1>13. NoProc \in SlotRec /\ NoProc.used = FALSE /\ NoProc.tf = 0 /\ NoProc.pt = NoTable
       /\ NoProc.sz = 0
  BY NoTableFacts DEF NoProc, SlotRec
<1>14. /\ slot' \in [Proc -> SlotRec] /\ slot'[p] = NoProc
       /\ \A q \in Proc : q # p => slot'[q] = slot[q]
  BY <1>1, <1>13 DEF VmInv, VmTypeOK
<1>15. stage'[p] = "none" /\ \A q \in Proc : q # p => stage'[q] = stage[q]
  BY <1>1 DEF VmInv, VmTypeOK
<1>16. VmTypeOK'
  BY <1>1, <1>8, <1>12, <1>14 DEF VmInv, VmTypeOK, Stages, FreeLists
<1>17. Others(p, p)
  BY <1>1, <1>14, <1>15 DEF Others
<1>18. Rows(p)'
  <2>1. kid[p] = p /\ arg[p] = 0 /\ new[p] = NoTable
    BY <1>1, NotCalling
  <2>2. SlotRow(p)'
    BY <1>13, <1>14, <1>15, NoTableFacts DEF SlotRow
  <2>3. CallRow(p)' /\ NewRow(p)'
    BY <1>1, <1>15, <2>1, NoTableFacts DEF CallRow, NewRow, Execing, Loading
  <2>4. SizeRow(p)'
    BY <1>1, <1>15, VmParts DEF Rows, SizeRow
  <2>. QED
    BY <2>2, <2>3, <2>4 DEF Rows
<1>19. OwnInv'
  <2>1. ASSUME NEW r \in Proc
        PROVE  /\ P[OTf(r)] = {slot'[r].tf} \ {0} /\ P[OArg(r)] = {arg'[r]} \ {0}
               /\ P[OPt(r)] = OwnedBy(slot'[r].pt) /\ P[ONew(r)] = OwnedBy(new'[r])
    <3>1. /\ Owning[OTf(r)] = {slot[r].tf} \ {0} /\ Owning[OArg(r)] = {arg[r]} \ {0}
          /\ Owning[OPt(r)] = OwnedBy(slot[r].pt) /\ Owning[ONew(r)] = OwnedBy(new[r])
      BY VmOwners
    <3>2. P[OArg(r)] = Owning[OArg(r)] /\ P[ONew(r)] = Owning[ONew(r)]
      BY <1>12, OwnerFacts
    <3>3. CASE r = p
      BY <1>1, <1>12, <1>13, <1>14, <3>1, <3>2, <3>3, NoTableFacts
    <3>4. CASE r # p
      <4>1. P[OTf(r)] = Owning[OTf(r)] /\ P[OPt(r)] = Owning[OPt(r)]
        BY <1>12, <3>4, OwnerFacts
      <4>. QED
        BY <1>1, <1>14, <3>1, <3>2, <3>4, <4>1
    <3>. QED
      BY <3>3, <3>4
  <2>2. OwnersNow(P)'
    BY <2>1 DEF OwnersNow
  <2>. QED
    BY <1>12, <2>2, OwnNext
<1>. QED
  BY <1>1, <1>2, <1>8, <1>16, <1>17, <1>18, <1>19, NoChild, StepInv


-----------------------------------------------------------------------------
(***************************************************************************)
(* exec().                                                                 *)
(***************************************************************************)

\* The facts about an exec() that has a page table.
LEMMA InLoad ==
    ASSUME VmInv, NEW p \in Proc, Loading(p)
    PROVE  /\ kid[p] = p /\ arg[p] # 0 /\ slot[p].used /\ slot[p].tf \in Page /\ slot[p].tf # 0
           /\ new[p].root # 0 /\ Prefix(new[p], Building(p)) /\ Top(new[p], slot[p].tf)
           /\ new[p].user = 0 .. Building(p) - 1
           /\ Prefix(slot[p].pt, Pages(slot[p].sz)) /\ Top(slot[p].pt, slot[p].tf)
           /\ stage[p] \notin {"none", "grow"}
           /\ stage[p] = "load" => sz[p] <= UserMax
           /\ stage[p] \in {"segment", "stack"} =>
                /\ sz[p] <= to[p] /\ Pages(sz[p]) <= a[p] /\ a[p] <= Pages(to[p])
                /\ to[p] <= UserMax
           /\ stage[p] = "stack" => Pages(to[p]) >= 2
<1>1. Rows(p) /\ slot[p].tf \in Page \cup {0} /\ stage[p] \in {"load", "segment", "stack"}
  BY VmParts DEF Loading
<1>2. kid[p] = p
  BY <1>1 DEF Rows, CallRow, Forking
<1>3. arg[p] # 0
  BY <1>1, <1>2 DEF Rows, CallRow, Execing
<1>4. /\ slot[p].used /\ slot[p].tf # 0 /\ Top(slot[p].pt, slot[p].tf)
      /\ Prefix(slot[p].pt, Pages(slot[p].sz)) /\ stage[p] \notin {"none", "grow"}
  BY <1>1 DEF Rows, SlotRow, Mapped
<1>5. /\ new[p].root # 0 /\ Prefix(new[p], Building(p)) /\ Top(new[p], slot[p].tf)
      /\ new[p].user = 0 .. Building(p) - 1
  BY <1>1, <1>2 DEF Rows, NewRow, Loading
<1>6. /\ stage[p] = "load" => sz[p] <= UserMax
      /\ stage[p] \in {"segment", "stack"} =>
           /\ sz[p] <= to[p] /\ Pages(sz[p]) <= a[p] /\ a[p] <= Pages(to[p])
           /\ to[p] <= UserMax
      /\ stage[p] = "stack" => Pages(to[p]) >= 2
  BY <1>1 DEF Rows, SizeRow
<1>. QED
  BY <1>1, <1>2, <1>3, <1>4, <1>5, <1>6

\* The argument of sys_exec() is given back, and a table keeps what it has.
ArgGone(p, f, pt, x, R) ==
    /\ Holds(f, pt, R, x, {}) /\ R \in Owners /\ R[OArg(p)] = {} /\ R[x] = OwnedBy(pt)
    /\ \A y \in Owner : y # x /\ y # OArg(p) => R[y] = Owning[y]
LEMMA ArgFreed ==
    ASSUME VmInv, NEW p \in Proc, arg[p] # 0, NEW f, NEW pt, NEW x \in {OPt(p), ONew(p)},
           Holds(f, pt, Owning, x, {})
    PROVE  \E R : ArgGone(p, kfree(f, {arg[p]}), pt, x, R)
<1>1. PICK Q \in Owners : /\ f \in FreeLists /\ Exact(f, Q) /\ Q[x] = OwnedBy(pt)
                          /\ \A y \in Owner : y # x => Q[y] = Owning[y]
  BY HoldsExact
<1>2. x \in Owner /\ OArg(p) \in Owner /\ x # OArg(p) /\ pt \in Table /\ Distinct(pt)
  BY OwnerFacts DEF Holds
<1>3. PICK W : W = {arg[p]}
  OBVIOUS
<1>4. W = Q[OArg(p)]
  BY <1>1, <1>2, <1>3, VmOwners
<1>5. GivesUp(kfree(f, W), Q, OArg(p))
  BY <1>1, <1>2, <1>4, FreeAll
<1>6. PICK R \in Owners : /\ Exact(kfree(f, W), R) /\ kfree(f, W) \in FreeLists
                          /\ R[OArg(p)] = {} /\ \A y \in Owner : y # OArg(p) => R[y] = Q[y]
  BY <1>5 DEF GivesUp
<1>7. R[x] = OwnedBy(pt) /\ \A y \in Owner : y # x /\ y # OArg(p) => R[y] = Owning[y]
  BY <1>1, <1>2, <1>6
<1>8. Holds(kfree(f, W), pt, R, x, {})
  BY <1>2, <1>6, <1>7, HoldsOf
<1>9. ArgGone(p, kfree(f, W), pt, x, R)
  BY <1>6, <1>7, <1>8 DEF ArgGone
<1>. QED
  BY <1>3, <1>9

\* The bad: label of exec(): everything exec() took is given back.
LEMMA BadInv ==
    ASSUME VmInv, NEW p \in Proc, Loading(p), NEW f, NEW pt, NEW s \in Nat,
           Holds(f, pt, Owning, ONew(p), {}), Prefix(pt, Pages(s)), Top(pt, slot[p].tf),
           NEW e, e = proc_freepagetable(kfree(f, {arg[p]}), pt, s),
           free' = e.free, panicked' = ~e.ok, slot' = slot,
           stage' = [stage EXCEPT ![p] = "user"], Return(p)
    PROVE  VmInv'
<1>1. arg[p] # 0 /\ slot[p].tf \in Page /\ stage[p] \notin {"none", "grow"}
  BY InLoad
<1>2. ONew(p) \in {OPt(p), ONew(p)} /\ ONew(p) \in Owner /\ OArg(p) \in Owner /\ ONew(p) # OArg(p)
  BY OwnerFacts
<1>3. PICK f1 : f1 = kfree(f, {arg[p]})
  OBVIOUS
<1>4. PICK R : ArgGone(p, f1, pt, ONew(p), R)
  BY <1>1, <1>2, <1>3, ArgFreed
<1>5. Holds(f1, pt, R, ONew(p), {}) /\ R \in Owners
  BY <1>4 DEF ArgGone
<1>6. FreePost(e, R, ONew(p))
  BY <1>1, <1>3, <1>5, FreePagetable
<1>7. e.ok = TRUE /\ GivesUp(e.free, R, ONew(p))
  BY <1>2, <1>5, <1>6, FreedGives DEF FreePost
<1>8. PICK P \in Owners : /\ Exact(e.free, P) /\ e.free \in FreeLists
                          /\ P[ONew(p)] = {} /\ \A y \in Owner : y # ONew(p) => P[y] = R[y]
  BY <1>7 DEF GivesUp
<1>9. P[OArg(p)] = {} /\ \A y \in Owner : y # ONew(p) /\ y # OArg(p) => P[y] = Owning[y]
  BY <1>2, <1>4, <1>8 DEF ArgGone
<1>10. panicked' = FALSE /\ Exact(free', P) /\ free' \in FreeLists
  BY <1>7, <1>8
<1>. QED
  BY <1>1, <1>8, <1>9, <1>10, ExecGone

\* sys_exec()
LEMMA SysExecInv ==
    ASSUME VmInv, NEW p \in Proc, NEW uarg, NEW nul, sys_exec(p, uarg, nul)
    PROVE  VmInv'
<1>0. PICK g : g = First(free)
  OBVIOUS
<1>1. /\ stage[p] = "user" /\ Avail(free) # {}
      /\ \/ /\ free' = kalloc(free) /\ arg' = [arg EXCEPT ![p] = g]
            /\ stage' = [stage EXCEPT ![p] = "exec"]
         \/ free' = kfree(kalloc(free), {g}) /\ UNCHANGED <<stage, arg>>
      /\ UNCHANGED <<slot, kid, new, sz, a, to, panicked>>
  BY <1>0 DEF sys_exec, At, Enter
<1>2. OArg(p) \in Owner /\ free \in FreeLists /\ Owning \in Owners /\ Exact(free, Owning)
  BY OwnerFacts, VmOwners
<1>3. g \in Page /\ kalloc(free) \in FreeLists /\ g # 0 /\ kfree(kalloc(free), {g}) = free
  <2>1. g \in Page /\ kalloc(free) \in FreeLists /\ kfree(kalloc(free), {g}) = free
    BY <1>0, <1>1, <1>2, FirstFree
  <2>. QED
    BY <2>1, VmConstants DEF Page
<1>4. CASE free' = kfree(kalloc(free), {g}) /\ UNCHANGED <<stage, arg>>
  <2>1. free' = free
    BY <1>3, <1>4
  <2>2. UNCHANGED vmvars
    BY <1>1, <1>4, <2>1 DEF vmvars, local
  <2>. QED
    BY <2>2, VmStutter
<1>5. CASE /\ free' = kalloc(free) /\ arg' = [arg EXCEPT ![p] = g]
           /\ stage' = [stage EXCEPT ![p] = "exec"]
  <2>1. /\ arg' \in [Proc -> Page \cup {0}] /\ arg'[p] = g
        /\ \A q \in Proc : q # p => arg'[q] = arg[q]
    BY <1>3, <1>5 DEF VmInv, VmTypeOK
  <2>2. stage'[p] = "exec" /\ \A q \in Proc : q # p => stage'[q] = stage[q]
    BY <1>5 DEF VmInv, VmTypeOK
  <2>3. VmTypeOK' /\ panicked' = FALSE
    BY <1>1, <1>3, <1>5, <2>1 DEF VmInv, VmTypeOK, Stages, FreeLists
  <2>4. Others(p, p)
    BY <1>1, <2>1, <2>2 DEF Others
  <2>5. SlotRow(p)' /\ slot[p].used
    <3>1. stage[p] \notin {"none", "grow"} /\ stage'[p] \notin {"none", "grow"} /\ slot'[p] = slot[p]
      BY <1>1, <2>2
    <3>. QED
      BY <3>1, SameSlot
  <2>6. Rows(p)'
    <3>1. kid[p] = p /\ new[p] = NoTable
      BY <1>1, NotCalling
    <3>2. CallRow(p)' /\ NewRow(p)'
      BY <1>1, <1>3, <2>1, <2>2, <3>1, NoTableFacts DEF CallRow, NewRow, Execing, Loading
    <3>3. SizeRow(p)'
      BY <1>1, <2>2, VmParts DEF Rows, SizeRow
    <3>. QED
      BY <2>5, <3>2, <3>3 DEF Rows
  <2>7. OwnInv'
    <3>. DEFINE W == Owning[OArg(p)] \cup {g}
                P0 == Give(Owning, OArg(p), W)
    <3>1. Exact(kalloc(free), P0)
      BY <1>0, <1>1, <1>2, ExactAlloc
    <3>2. W = {g}
      BY <1>1, VmOwners, NotCalling
    <3>3. W \in SUBSET Page
      BY <1>3, <3>2
    <3>. HIDE DEF W
    <3>4. PICK P \in Owners : /\ Exact(kalloc(free), P) /\ P[OArg(p)] = W
                              /\ \A y \in Owner : y # OArg(p) => P[y] = Owning[y]
      <4>1. P0 \in Owners /\ P0[OArg(p)] = W /\ \A y \in Owner : y # OArg(p) => P0[y] = Owning[y]
        BY <1>2, <3>3, GiveAt
      <4>. QED
        BY <3>1, <4>1
    <3>5. ASSUME NEW r \in Proc
          PROVE  /\ P[OTf(r)] = {slot'[r].tf} \ {0} /\ P[OArg(r)] = {arg'[r]} \ {0}
                 /\ P[OPt(r)] = OwnedBy(slot'[r].pt) /\ P[ONew(r)] = OwnedBy(new'[r])
      <4>1. /\ Owning[OTf(r)] = {slot[r].tf} \ {0} /\ Owning[OArg(r)] = {arg[r]} \ {0}
            /\ Owning[OPt(r)] = OwnedBy(slot[r].pt) /\ Owning[ONew(r)] = OwnedBy(new[r])
        BY VmOwners
      <4>2. /\ P[OPt(r)] = Owning[OPt(r)] /\ P[OTf(r)] = Owning[OTf(r)]
            /\ P[ONew(r)] = Owning[ONew(r)]
        BY <3>4, OwnerFacts
      <4>3. P[OArg(r)] = {arg'[r]} \ {0}
        <5>1. CASE r = p
          BY <1>3, <2>1, <3>2, <3>4, <5>1
        <5>2. CASE r # p
          BY <2>1, <3>4, <4>1, <5>2, OwnerFacts
        <5>. QED
          BY <5>1, <5>2
      <4>. QED
        BY <1>1, <4>1, <4>2, <4>3
    <3>6. OwnersNow(P)'
      BY <3>5 DEF OwnersNow
    <3>. QED
      BY <1>5, <3>4, <3>6, OwnNext
  <2>. QED
    BY <1>1, <2>3, <2>4, <2>5, <2>6, <2>7, NoChild, StepInv
<1>. QED
  BY <1>1, <1>4, <1>5

\* The start of exec().
LEMMA ExecInv ==
    ASSUME VmInv, NEW p \in Proc, NEW found \in BOOLEAN, exec(p, found)
    PROVE  VmInv'
<1>0. PICK W : W = {arg[p]}
  OBVIOUS
<1>1. /\ stage[p] = "exec" /\ slot' = slot /\ panicked' = panicked
      /\ \/ stage' = [stage EXCEPT ![p] = "pagetable"] /\ UNCHANGED <<free, local>>
         \/ /\ free' = kfree(free, W) /\ stage' = [stage EXCEPT ![p] = "user"]
            /\ Return(p)
  BY <1>0 DEF exec, At, Enter
<1>2. kid[p] = p /\ arg[p] # 0 /\ new[p] = NoTable /\ sz[p] = 0 /\ a[p] = 0 /\ panicked' = FALSE
  <2>1. Rows(p) /\ panicked' = FALSE
    BY <1>1, VmParts DEF VmInv, VmTypeOK
  <2>2. kid[p] = p
    BY <1>1, <2>1 DEF Rows, CallRow, Forking
  <2>. QED
    BY <1>1, <2>1, <2>2 DEF Rows, CallRow, NewRow, SizeRow, Execing
<1>3. CASE free' = kfree(free, W) /\ stage' = [stage EXCEPT ![p] = "user"] /\ Return(p)
  <2>1. /\ OArg(p) \in Owner /\ ONew(p) \in Owner /\ OArg(p) # ONew(p)
        /\ free \in FreeLists /\ Owning \in Owners /\ Exact(free, Owning)
        /\ Owning[OArg(p)] = W /\ Owning[ONew(p)] = {}
    BY <1>0, <1>2, OwnerFacts, VmOwners, NoTableFacts
  <2>2. GivesUp(kfree(free, W), Owning, OArg(p))
    BY <2>1, FreeAll
  <2>3. PICK P \in Owners : /\ Exact(free', P) /\ free' \in FreeLists /\ P[OArg(p)] = {}
                            /\ \A y \in Owner : y # OArg(p) => P[y] = Owning[y]
    BY <1>3, <2>2 DEF GivesUp
  <2>4. P[ONew(p)] = {} /\ \A y \in Owner : y # ONew(p) /\ y # OArg(p) => P[y] = Owning[y]
    BY <2>1, <2>3
  <2>5. stage[p] \notin {"none", "grow"}
    BY <1>1
  <2>. QED
    BY <1>1, <1>2, <1>3, <2>3, <2>4, <2>5, ExecGone
<1>4. CASE stage' = [stage EXCEPT ![p] = "pagetable"] /\ UNCHANGED <<free, local>>
  <2>1. stage'[p] = "pagetable" /\ \A q \in Proc : q # p => stage'[q] = stage[q]
    BY <1>4 DEF VmInv, VmTypeOK
  <2>2. VmTypeOK'
    BY <1>1, <1>4 DEF VmInv, VmTypeOK, Stages, local
  <2>3. Others(p, p)
    BY <1>1, <1>4, <2>1 DEF Others, local
  <2>4. SlotRow(p)' /\ slot[p].used
    <3>1. stage[p] \notin {"none", "grow"} /\ stage'[p] \notin {"none", "grow"} /\ slot'[p] = slot[p]
      BY <1>1, <2>1
    <3>. QED
      BY <3>1, SameSlot
  <2>5. Rows(p)'
    <3>1. CallRow(p)' /\ NewRow(p)'
      BY <1>2, <1>4, <2>1, NoTableFacts DEF CallRow, NewRow, Execing, Loading, local
    <3>2. SizeRow(p)'
      BY <1>2, <1>4, <2>1 DEF SizeRow, local
    <3>. QED
      BY <2>4, <3>1, <3>2 DEF Rows
  <2>6. OwnInv'
    BY <1>1, <1>4 DEF VmInv, OwnInv, local
  <2>. QED
    BY <1>2, <1>4, <2>2, <2>3, <2>4, <2>5, <2>6, NoChild, StepInv DEF local
<1>. QED
  BY <1>1, <1>3, <1>4

\* A program header.
LEMMA ExecSegmentInv ==
    ASSUME VmInv, NEW p \in Proc, NEW s \in Segments, NEW sane \in BOOLEAN, exec_segment(p, s, sane)
    PROVE  VmInv'
<1>0. PICK n0, s0, e : /\ n0 = new[p] /\ s0 = sz[p]
                      /\ e = proc_freepagetable(kfree(free, {arg[p]}), n0, s0)
  OBVIOUS
<1>. DEFINE t == IF s < s0 THEN s0 ELSE s
<1>1. /\ stage[p] = "load" /\ slot' = slot
      /\ \/ /\ free' = e.free /\ panicked' = ~e.ok
            /\ stage' = [stage EXCEPT ![p] = "user"] /\ Return(p)
         \/ /\ to' = [to EXCEPT ![p] = t] /\ a' = [a EXCEPT ![p] = Pages(s0)]
            /\ stage' = [stage EXCEPT ![p] = "segment"]
            /\ UNCHANGED <<free, kid, new, sz, arg, panicked>>
  BY <1>0 DEF exec_segment, bad, At, Enter, Take
<1>2. Loading(p) /\ Building(p) = Pages(s0)
  BY <1>0, <1>1 DEF Loading, Building
<1>3. /\ kid[p] = p /\ arg[p] # 0 /\ slot[p].used /\ n0.root # 0 /\ Prefix(n0, Pages(s0))
      /\ Top(n0, slot[p].tf) /\ n0.user = 0 .. Pages(s0) - 1 /\ s0 <= UserMax
  BY <1>0, <1>1, <1>2, InLoad
<1>4. s0 \in Nat /\ Holds(free, n0, Owning, ONew(p), {}) /\ Distinct(n0)
  BY <1>0, VmParts, VmOwners
<1>5. s \in Nat /\ s <= UserMax /\ UserMax \in Nat
  BY VmConstants
<1>6. t \in Nat /\ s0 <= t /\ t <= UserMax /\ Pages(s0) \in Nat /\ Pages(s0) <= Pages(t)
  <2>1. t \in Nat /\ s0 <= t /\ t <= UserMax
    BY <1>3, <1>4, <1>5
  <2>. HIDE DEF t
  <2>. QED
    BY <1>4, <2>1, PagesOf
<1>. HIDE DEF t
<1>7. CASE /\ free' = e.free /\ panicked' = ~e.ok
           /\ stage' = [stage EXCEPT ![p] = "user"] /\ Return(p)
  BY <1>0, <1>1, <1>2, <1>3, <1>4, <1>7, BadInv
<1>8. CASE /\ to' = [to EXCEPT ![p] = t] /\ a' = [a EXCEPT ![p] = Pages(s0)]
           /\ stage' = [stage EXCEPT ![p] = "segment"]
           /\ UNCHANGED <<free, kid, new, sz, arg, panicked>>
  <2>1. /\ stage'[p] = "segment" /\ to'[p] = t /\ a'[p] = Pages(s0)
        /\ \A q \in Proc : q # p => stage'[q] = stage[q] /\ to'[q] = to[q] /\ a'[q] = a[q]
        /\ VmTypeOK' /\ panicked' = FALSE
    BY <1>1, <1>6, <1>8 DEF VmInv, VmTypeOK, Stages
  <2>2. Others(p, p)
    BY <1>1, <1>8, <2>1 DEF Others
  <2>3. SlotRow(p)'
    <3>1. stage[p] \notin {"none", "grow"} /\ stage'[p] \notin {"none", "grow"} /\ slot'[p] = slot[p]
      BY <1>1, <2>1
    <3>. QED
      BY <3>1, SameSlot
  <2>4. Rows(p)'
    <3>1. CallRow(p)'
      BY <1>3, <1>8, <2>1 DEF CallRow, Execing
    <3>2. NewRow(p)'
      <4>1. Building(p)' = Pages(s0) /\ new'[p] = n0 /\ slot'[kid'[p]].tf = slot[p].tf
        BY <1>0, <1>1, <1>3, <1>8, <2>1 DEF Building
      <4>. QED
        BY <1>3, <1>4, <2>1, <4>1 DEF NewRow, Loading
    <3>3. SizeRow(p)'
      BY <1>0, <1>6, <1>8, <2>1 DEF SizeRow
    <3>. QED
      BY <2>3, <3>1, <3>2, <3>3 DEF Rows
  <2>5. OwnInv'
    BY <1>1, <1>8 DEF VmInv, OwnInv
  <2>. QED
    BY <1>3, <1>8, <2>1, <2>2, <2>4, <2>5, NoChild, StepInv
<1>. QED
  BY <1>1, <1>7, <1>8

\* A round of uvmalloc() in exec().
LEMMA ExecPageInv ==
    ASSUME VmInv, NEW p \in Proc, exec_page(p)
    PROVE  VmInv'
<1>0. PICK n0, k, j, s0 : n0 = new[p] /\ k = a[p] /\ s0 = sz[p] /\ j = Pages(s0)
  OBVIOUS
<1>. DEFINE m == uvmalloc_page(free, n0, k, {k})
            kz == k * PGSIZE
            jz == j * PGSIZE
            d == uvmdealloc(m.free, m.pt, kz, jz)
            e == proc_freepagetable(kfree(d.free, {arg[p]}), d.pt, s0)
<1>1. /\ stage[p] \in {"segment", "stack"} /\ k < Pages(to[p]) /\ slot' = slot
      /\ m.ok => /\ free' = m.free /\ new' = [new EXCEPT ![p] = m.pt]
                 /\ panicked' = (n0.pte[k] # 0) /\ a' = [a EXCEPT ![p] = k + 1]
                 /\ UNCHANGED <<stage, kid, sz, to, arg>>
      /\ ~m.ok => /\ free' = e.free /\ panicked' = ~e.ok
                  /\ stage' = [stage EXCEPT ![p] = "user"] /\ Return(p)
  BY <1>0 DEF exec_page, bad, At, Take, Enter
<1>2. Loading(p) /\ Building(p) = k
  BY <1>0, <1>1 DEF Loading, Building
<1>3. /\ kid[p] = p /\ arg[p] # 0 /\ slot[p].used /\ n0.root # 0 /\ Prefix(n0, k)
      /\ Top(n0, slot[p].tf) /\ n0.user = 0 .. k - 1 /\ s0 <= to[p] /\ j <= k
      /\ k <= Pages(to[p]) /\ to[p] <= UserMax /\ (stage[p] = "stack" => Pages(to[p]) >= 2)
  BY <1>0, <1>1, <1>2, InLoad
<1>4. /\ k \in Nat /\ s0 \in Nat /\ j \in Nat /\ Holds(free, n0, Owning, ONew(p), {})
      /\ n0 \in Table /\ Pages(to[p]) \in Nat /\ Pages(to[p]) <= USERPAGES
  BY <1>0, <1>3, VmParts, VmOwners, PagesOf
<1>5. k \in UserV /\ k < USERPAGES /\ {k} \in SUBSET VPage
  BY <1>1, <1>4, VmConstants DEF UserV
<1>6. n0.pte[k] = 0
  <2>1. n0.pte[k] # 0 <=> k < k
    BY <1>3, <1>5 DEF Prefix
  <2>. QED
    BY <1>4, <2>1
<1>7. AllocPost(free, n0, k, {k}, Owning, ONew(p), m)
  BY <1>4, <1>5, <1>6, AllocPage
<1>. HIDE DEF m
<1>8. CASE m.ok
  <2>0. PICK np : np = m.pt
    OBVIOUS
  <2>1. PICK g \in Page : np.pte = [n0.pte EXCEPT ![k] = g]
    BY <1>7, <1>8, <2>0 DEF AllocPost
  <2>2. /\ Holds(m.free, np, Owning, ONew(p), {}) /\ np.root = n0.root
        /\ np.user = n0.user \cup {k}
    BY <1>7, <1>8, <2>0 DEF AllocPost
  <2>3. np \in Table /\ Distinct(np) /\ m.free \in FreeLists
    BY <2>2 DEF Holds
  <2>4. {k} \in SUBSET {k}
    OBVIOUS
  <2>5. /\ Prefix(np, k + 1) /\ np.pte[TRAPFRAME] = n0.pte[TRAPFRAME]
        /\ np.pte[TRAMPOLINE] = n0.pte[TRAMPOLINE]
    BY <1>3, <1>4, <1>5, <2>1, <2>2, <2>3, <2>4, PrefixGrow
  <2>6. Top(np, slot[p].tf) /\ np.user = 0 .. (k + 1) - 1
    <3>1. \A v : v \in 0 .. (k + 1) - 1 <=> v \in 0 .. k - 1 \/ v = k
      BY <1>4
    <3>. QED
      BY <1>3, <2>2, <2>5, <3>1 DEF Top
  <2>7. /\ free' = m.free /\ new' = [new EXCEPT ![p] = np] /\ panicked' = FALSE
        /\ a' = [a EXCEPT ![p] = k + 1] /\ UNCHANGED <<slot, stage, kid, sz, to, arg>>
    BY <1>1, <1>6, <1>8, <2>0
  <2>8. /\ new' \in [Proc -> Table] /\ new'[p] = np /\ \A q \in Proc : q # p => new'[q] = new[q]
        /\ a' \in [Proc -> Nat] /\ a'[p] = k + 1 /\ \A q \in Proc : q # p => a'[q] = a[q]
    BY <1>4, <2>3, <2>7 DEF VmInv, VmTypeOK
  <2>9. VmTypeOK'
    BY <2>3, <2>7, <2>8 DEF VmInv, VmTypeOK, FreeLists
  <2>10. Others(p, p)
    BY <2>7, <2>8 DEF Others
  <2>11. Rows(p)'
    <3>1. SlotRow(p)'
      <4>1. stage[p] \notin {"none", "grow"} /\ stage'[p] \notin {"none", "grow"}
            /\ slot'[p] = slot[p]
        BY <1>1, <2>7
      <4>. QED
        BY <4>1, SameSlot
    <3>2. CallRow(p)'
      BY <2>7, VmParts DEF Rows, CallRow, Forking, Execing
    <3>3. NewRow(p)'
      <4>1. Building(p)' = k + 1 /\ stage'[p] \in {"segment", "stack"}
        BY <1>1, <2>7, <2>8 DEF Building
      <4>2. slot'[kid'[p]].tf = slot[p].tf
        BY <1>3, <2>7
      <4>. QED
        BY <1>3, <2>2, <2>3, <2>5, <2>6, <2>8, <4>1, <4>2 DEF NewRow, Loading
    <3>4. SizeRow(p)'
      <4>1. k + 1 <= Pages(to[p]) /\ j <= k + 1
        BY <1>1, <1>3, <1>4
      <4>. QED
        BY <1>0, <1>1, <1>3, <2>7, <2>8, <4>1 DEF SizeRow
    <3>. QED
      BY <3>1, <3>2, <3>3, <3>4 DEF Rows
  <2>12. OwnInv'
    BY <2>2, <2>7, <2>8, OwnNew
  <2>. QED
    BY <1>3, <2>7, <2>9, <2>10, <2>11, <2>12, NoChild, StepInv
<1>9. CASE ~m.ok
  <2>1. m.free = free /\ m.pt = n0
    BY <1>7, <1>9 DEF AllocPost
  <2>2. /\ Holds(d.free, d.pt, Owning, ONew(p), {}) /\ Prefix(d.pt, j)
        /\ d.pt.pte[TRAPFRAME] = n0.pte[TRAPFRAME]
        /\ d.pt.pte[TRAMPOLINE] = n0.pte[TRAMPOLINE]
    <3>1. d = uvmdealloc(free, n0, kz, jz)
      BY <2>1
    <3>2. kz = k * PGSIZE /\ jz = j * PGSIZE
      OBVIOUS
    <3>. HIDE DEF d, kz, jz
    <3>3. CutPost(n0, j, Owning, ONew(p), uvmdealloc(free, n0, kz, jz))
      BY <1>3, <1>4, <3>2, DeallocPages
    <3>. QED
      BY <3>1, <3>3 DEF CutPost
  <2>. HIDE DEF d
  <2>3. PICK f, pt : f = d.free /\ pt = d.pt
    OBVIOUS
  <2>4. Holds(f, pt, Owning, ONew(p), {}) /\ Prefix(pt, Pages(s0)) /\ Top(pt, slot[p].tf)
    BY <1>0, <1>3, <2>2, <2>3 DEF Top
  <2>5. e = proc_freepagetable(kfree(f, {arg[p]}), pt, s0)
    BY <2>3
  <2>. HIDE DEF e
  <2>6. free' = e.free /\ panicked' = ~e.ok /\ stage' = [stage EXCEPT ![p] = "user"] /\ Return(p)
    BY <1>1, <1>9
  <2>. QED
    BY <1>1, <1>2, <1>4, <2>4, <2>5, <2>6, BadInv
<1>. QED
  BY <1>8, <1>9

\* The end of a segment.
LEMMA LoadsegInv ==
    ASSUME VmInv, NEW p \in Proc, NEW loaded \in BOOLEAN, loadseg(p, loaded)
    PROVE  VmInv'
<1>0. PICK n0, t, e : /\ n0 = new[p] /\ t = to[p]
                     /\ e = proc_freepagetable(kfree(free, {arg[p]}), n0, t)
  OBVIOUS
<1>1. /\ stage[p] = "segment" /\ slot' = slot /\ a[p] >= Pages(t)
      /\ \/ /\ free' = e.free /\ panicked' = ~e.ok
            /\ stage' = [stage EXCEPT ![p] = "user"] /\ Return(p)
         \/ /\ sz' = [sz EXCEPT ![p] = t] /\ stage' = [stage EXCEPT ![p] = "load"]
            /\ UNCHANGED <<free, kid, new, a, to, arg, panicked>>
  BY <1>0 DEF loadseg, At, Enter, Take
<1>2. Loading(p) /\ Building(p) = a[p]
  BY <1>1 DEF Loading, Building
<1>3. /\ kid[p] = p /\ arg[p] # 0 /\ slot[p].used /\ n0.root # 0 /\ Prefix(n0, a[p])
      /\ Top(n0, slot[p].tf) /\ n0.user = 0 .. a[p] - 1 /\ a[p] <= Pages(t) /\ t <= UserMax
  BY <1>0, <1>1, <1>2, InLoad
<1>4. t \in Nat /\ a[p] \in Nat /\ Holds(free, n0, Owning, ONew(p), {}) /\ Distinct(n0)
  BY <1>0, VmParts, VmOwners
<1>5. a[p] = Pages(t)
  <2>1. Pages(t) \in Nat
    BY <1>4, PagesOf
  <2>. QED
    BY <1>1, <1>3, <1>4, <2>1
<1>6. CASE /\ free' = e.free /\ panicked' = ~e.ok
           /\ stage' = [stage EXCEPT ![p] = "user"] /\ Return(p)
  <2>1. Prefix(n0, Pages(t))
    BY <1>3, <1>5
  <2>. QED
    BY <1>0, <1>1, <1>2, <1>3, <1>4, <1>6, <2>1, BadInv
<1>7. CASE /\ sz' = [sz EXCEPT ![p] = t] /\ stage' = [stage EXCEPT ![p] = "load"]
           /\ UNCHANGED <<free, kid, new, a, to, arg, panicked>>
  <2>1. /\ stage'[p] = "load" /\ sz'[p] = t
        /\ \A q \in Proc : q # p => stage'[q] = stage[q] /\ sz'[q] = sz[q]
        /\ VmTypeOK' /\ panicked' = FALSE
    BY <1>1, <1>4, <1>7 DEF VmInv, VmTypeOK, Stages
  <2>2. Others(p, p)
    BY <1>1, <1>7, <2>1 DEF Others
  <2>3. SlotRow(p)'
    <3>1. stage[p] \notin {"none", "grow"} /\ stage'[p] \notin {"none", "grow"} /\ slot'[p] = slot[p]
      BY <1>1, <2>1
    <3>. QED
      BY <3>1, SameSlot
  <2>4. Rows(p)'
    <3>1. CallRow(p)'
      BY <1>3, <1>7, <2>1 DEF CallRow, Execing
    <3>2. NewRow(p)'
      <4>1. Building(p)' = a[p] /\ new'[p] = n0 /\ slot'[kid'[p]].tf = slot[p].tf
        BY <1>0, <1>1, <1>3, <1>5, <1>7, <2>1 DEF Building
      <4>. QED
        BY <1>3, <1>4, <2>1, <4>1 DEF NewRow, Loading
    <3>3. SizeRow(p)'
      BY <1>3, <2>1 DEF SizeRow
    <3>. QED
      BY <2>3, <3>1, <3>2, <3>3 DEF Rows
  <2>5. OwnInv'
    BY <1>1, <1>7 DEF VmInv, OwnInv
  <2>. QED
    BY <1>3, <1>7, <2>1, <2>2, <2>4, <2>5, NoChild, StepInv
<1>. QED
  BY <1>1, <1>6, <1>7

\* The stack.
LEMMA ExecStackInv ==
    ASSUME VmInv, NEW p \in Proc, exec_stack(p)
    PROVE  VmInv'
<1>0. PICK n0, b : n0 = new[p] /\ b = Pages(sz[p])
  OBVIOUS
<1>. DEFINE bz == b * PGSIZE
            t == (b + 2) * PGSIZE
<1>1. /\ stage[p] = "load" /\ (b + 2) <= USERPAGES
      /\ sz' = [sz EXCEPT ![p] = bz] /\ a' = [a EXCEPT ![p] = b] /\ to' = [to EXCEPT ![p] = t]
      /\ stage' = [stage EXCEPT ![p] = "stack"]
      /\ UNCHANGED <<free, slot, kid, new, arg, panicked>>
  BY <1>0 DEF exec_stack, At, Enter
<1>2. Loading(p) /\ Building(p) = b
  BY <1>0, <1>1 DEF Loading, Building
<1>3. /\ kid[p] = p /\ arg[p] # 0 /\ slot[p].used /\ n0.root # 0 /\ Prefix(n0, b)
      /\ Top(n0, slot[p].tf) /\ n0.user = 0 .. b - 1
  BY <1>0, <1>2, InLoad
<1>4. b \in Nat /\ Distinct(n0)
  BY <1>0, VmParts, PagesOf
<1>5. /\ bz \in Nat /\ t \in Nat /\ Pages(bz) = b /\ Pages(t) = b + 2
  <2>1. b + 2 \in Nat
    BY <1>4
  <2>. QED
    BY <1>4, <2>1, PagesOf
<1>6. bz <= t /\ t <= UserMax
  <2>1. PICK c : c = b + 2
    OBVIOUS
  <2>2. c \in Nat /\ b <= c /\ c <= USERPAGES /\ USERPAGES \in Nat /\ PGSIZE \in Nat
    BY <1>1, <1>4, <2>1, VmConstants
  <2>3. b * PGSIZE <= c * PGSIZE /\ c * PGSIZE <= USERPAGES * PGSIZE
    BY <1>4, <2>2
  <2>. QED
    BY <2>1, <2>3 DEF UserMax
<1>. HIDE DEF bz, t
<1>7. /\ stage'[p] = "stack" /\ sz'[p] = bz /\ a'[p] = b /\ to'[p] = t
      /\ \A q \in Proc : q # p => /\ stage'[q] = stage[q] /\ sz'[q] = sz[q]
                                  /\ a'[q] = a[q] /\ to'[q] = to[q]
      /\ VmTypeOK' /\ panicked' = FALSE
  BY <1>1, <1>4, <1>5 DEF VmInv, VmTypeOK, Stages
<1>8. Others(p, p)
  BY <1>1, <1>7 DEF Others
<1>9. SlotRow(p)'
  <2>1. stage[p] \notin {"none", "grow"} /\ stage'[p] \notin {"none", "grow"} /\ slot'[p] = slot[p]
    BY <1>1, <1>7
  <2>. QED
    BY <2>1, SameSlot
<1>10. Rows(p)'
  <2>1. CallRow(p)'
    BY <1>1, <1>3, <1>7 DEF CallRow, Execing
  <2>2. NewRow(p)'
    <3>1. Building(p)' = b /\ new'[p] = n0 /\ slot'[kid'[p]].tf = slot[p].tf
      BY <1>0, <1>1, <1>3, <1>7 DEF Building
    <3>. QED
      BY <1>3, <1>4, <1>7, <3>1 DEF NewRow, Loading
  <2>3. SizeRow(p)'
    <3>1. b <= b + 2 /\ b + 2 >= 2 /\ b <= b
      BY <1>4
    <3>. QED
      BY <1>5, <1>6, <1>7, <3>1 DEF SizeRow
  <2>. QED
    BY <1>9, <2>1, <2>2, <2>3 DEF Rows
<1>11. OwnInv'
  BY <1>1 DEF VmInv, OwnInv
<1>. QED
  BY <1>1, <1>3, <1>7, <1>8, <1>10, <1>11, NoChild, StepInv

\* uvmclear() takes a page from the user, and nothing else.
ClearPost(f, pt, v, O, x, q) ==
    /\ Holds(f, q, O, x, {}) /\ q.root = pt.root /\ q.pte = pt.pte /\ q.user = pt.user \ {v}
LEMMA Uvmclear ==
    ASSUME NEW f, NEW pt, NEW O, NEW x, Holds(f, pt, O, x, {}), NEW v
    PROVE  ClearPost(f, pt, v, O, x, uvmclear(pt, v))
<1>. DEFINE q == uvmclear(pt, v)
<1>1. pt \in Table /\ Distinct(pt)
  BY DEF Holds
<1>2. pt.user \ {v} \in SUBSET VPage
  BY <1>1, TableFields
<1>3. q \in Table /\ q.root = pt.root /\ q.tab = pt.tab /\ q.pte = pt.pte /\ q.user = pt.user \ {v}
  BY <1>1, <1>2 DEF Table, uvmclear
<1>. HIDE DEF q
<1>4. OwnedBy(q) = OwnedBy(pt) /\ Distinct(q)
  BY <1>1, <1>3, OwnedSame
<1>5. Holds(f, q, O, x, {})
  BY <1>3, <1>4 DEF Holds
<1>6. ClearPost(f, pt, v, O, x, q)
  BY <1>3, <1>5 DEF ClearPost
<1>. QED
  BY <1>6 DEF q

\* The slot of p after exec(): it has the new table and the new size, and the
\* memory it had before is free.
LEMMA CommitInv ==
    ASSUME VmInv, NEW p \in Proc, Loading(p), NEW pt, NEW t \in Nat, t <= UserMax,
           Holds(free, pt, Owning, ONew(p), {}), Prefix(pt, Pages(t)), Guard(pt, Pages(t)),
           Top(pt, slot[p].tf), pt.root # 0, OwnedBy(pt) = OwnedBy(new[p]),
           NEW e, e = proc_freepagetable(kfree(free, {arg[p]}), slot[p].pt, slot[p].sz),
           free' = e.free, panicked' = ~e.ok, slot' = [slot EXCEPT ![p].pt = pt, ![p].sz = t],
           stage' = [stage EXCEPT ![p] = "user"], Return(p)
    PROVE  VmInv'
<1>1. /\ arg[p] # 0 /\ slot[p].tf \in Page /\ stage[p] \notin {"none", "grow"} /\ slot[p].tf # 0
      /\ slot[p].used /\ Prefix(slot[p].pt, Pages(slot[p].sz)) /\ Top(slot[p].pt, slot[p].tf)
  BY InLoad
<1>2. /\ OPt(p) \in {OPt(p), ONew(p)} /\ ONew(p) \in Owner /\ OArg(p) \in Owner
      /\ OPt(p) \in Owner /\ OPt(p) # OArg(p) /\ OPt(p) # ONew(p) /\ ONew(p) # OArg(p)
  BY OwnerFacts
<1>3. PICK f1, o, s0 : f1 = kfree(free, {arg[p]}) /\ o = slot[p].pt /\ s0 = slot[p].sz
  OBVIOUS
<1>4. s0 \in Nat /\ pt \in Table /\ Distinct(pt) /\ Holds(free, o, Owning, OPt(p), {})
  BY <1>3, VmParts, VmOwners DEF Holds
<1>5. PICK R : ArgGone(p, f1, o, OPt(p), R)
  BY <1>1, <1>2, <1>3, <1>4, ArgFreed
<1>6. Holds(f1, o, R, OPt(p), {}) /\ R \in Owners
  BY <1>5 DEF ArgGone
<1>7. FreePost(e, R, OPt(p))
  BY <1>1, <1>3, <1>4, <1>6, FreePagetable
<1>8. e.ok = TRUE /\ GivesUp(e.free, R, OPt(p))
  BY <1>2, <1>6, <1>7, FreedGives DEF FreePost
<1>9. PICK Q \in Owners : /\ Exact(e.free, Q) /\ e.free \in FreeLists
                          /\ Q[OPt(p)] = {} /\ \A y \in Owner : y # OPt(p) => Q[y] = R[y]
  BY <1>8 DEF GivesUp
<1>10. /\ Q[OArg(p)] = {} /\ Q[ONew(p)] = OwnedBy(pt)
       /\ \A y \in Owner : y # OPt(p) /\ y # OArg(p) => Q[y] = Owning[y]
  <2>1. \A y \in Owner : y # OPt(p) /\ y # OArg(p) => Q[y] = Owning[y]
    BY <1>5, <1>9 DEF ArgGone
  <2>. QED
    BY <1>2, <1>5, <1>9, <2>1, VmOwners DEF ArgGone
<1>11. PICK P \in Owners : /\ Exact(free', P) /\ P[ONew(p)] = {} /\ P[OPt(p)] = OwnedBy(pt)
                           /\ \A y \in Owner : y # ONew(p) /\ y # OPt(p) => P[y] = Q[y]
  <2>. DEFINE P1 == Give(Q, ONew(p), {})
              W == Q[ONew(p)]
              P2 == Give(P1, OPt(p), W)
  <2>1. Exact(free', P2)
    BY <1>2, <1>9, ExactMove
  <2>2. {} \in SUBSET Page /\ W \in SUBSET Page
    BY <1>2 DEF Owners
  <2>3. P1 \in Owners /\ P1[ONew(p)] = {} /\ \A y \in Owner : y # ONew(p) => P1[y] = Q[y]
    BY <1>2, <2>2, GiveAt
  <2>. HIDE DEF P1, W
  <2>4. P2 \in Owners /\ P2[OPt(p)] = W /\ \A y \in Owner : y # OPt(p) => P2[y] = P1[y]
    BY <1>2, <2>2, <2>3, GiveAt
  <2>. HIDE DEF P2
  <2>5. W = OwnedBy(pt)
    BY <1>10 DEF W
  <2>. QED
    BY <1>2, <2>1, <2>3, <2>4, <2>5
<1>12. /\ slot' \in [Proc -> SlotRec] /\ slot'[p].pt = pt /\ slot'[p].sz = t
       /\ slot'[p].used = slot[p].used /\ slot'[p].tf = slot[p].tf
       /\ \A q \in Proc : q # p => slot'[q] = slot[q]
  <2>1. slot \in [Proc -> SlotRec]
    BY DEF VmInv, VmTypeOK
  <2>2. slot' = SlotBoth(slot, p, pt, t)
    BY DEF SlotBoth
  <2>3. SlotSetPost(slot, p, pt, t, SlotBoth(slot, p, pt, t))
    BY <1>4, <2>1, SlotSet
  <2>. QED
    BY <2>2, <2>3 DEF SlotSetPost
<1>13. stage'[p] = "user" /\ \A q \in Proc : q # p => stage'[q] = stage[q]
  BY DEF VmInv, VmTypeOK
<1>14. VmTypeOK' /\ panicked' = FALSE
  <2>1. free' \in FreeLists
    BY <1>9
  <2>. QED
    BY <1>8, <1>12, <2>1, ReturnTypes DEF VmInv, VmTypeOK, FreeLists, Stages
<1>15. Others(p, p) /\ kid'[p] = p
  BY <1>12, <1>13, ReturnTypes DEF Others
<1>16. Rows(p)'
  <2>1. Mapped(p)' = Pages(t)
    BY <1>12, <1>13 DEF Mapped
  <2>2. SlotRow(p)'
    BY <1>1, <1>4, <1>12, <1>13, <2>1 DEF SlotRow
  <2>. QED
    BY <1>13, <2>2, ReturnRows
<1>17. ASSUME NEW r \in Proc
       PROVE  /\ P[OTf(r)] = {slot'[r].tf} \ {0} /\ P[OArg(r)] = {arg'[r]} \ {0}
              /\ P[OPt(r)] = OwnedBy(slot'[r].pt) /\ P[ONew(r)] = OwnedBy(new'[r])
  <2>1. /\ Owning[OTf(r)] = {slot[r].tf} \ {0} /\ Owning[OArg(r)] = {arg[r]} \ {0}
        /\ Owning[OPt(r)] = OwnedBy(slot[r].pt) /\ Owning[ONew(r)] = OwnedBy(new[r])
    BY VmOwners
  <2>2. P[OTf(r)] = Owning[OTf(r)] /\ slot'[r].tf = slot[r].tf
    BY <1>10, <1>11, <1>12, OwnerFacts
  <2>3. CASE r = p
    <3>1. P[OArg(p)] = {}
      BY <1>2, <1>10, <1>11
    <3>. QED
      BY <1>11, <1>12, <2>1, <2>2, <2>3, <3>1, ReturnTypes, NoTableFacts
  <2>4. CASE r # p
    <3>1. /\ P[OArg(r)] = Owning[OArg(r)] /\ P[OPt(r)] = Owning[OPt(r)]
          /\ P[ONew(r)] = Owning[ONew(r)]
      BY <1>10, <1>11, <2>4, OwnerFacts
    <3>. QED
      BY <1>12, <2>1, <2>2, <2>4, <3>1, ReturnTypes
  <2>. QED
    BY <2>3, <2>4
<1>18. OwnInv'
  <2>1. OwnersNow(P)'
    BY <1>17 DEF OwnersNow
  <2>. QED
    BY <1>11, <2>1, OwnNext
<1>. QED
  BY <1>1, <1>14, <1>15, <1>16, <1>18, NoChild, StepInv

\* The end of exec(): it commits, or fails and gives everything back.
LEMMA ExecCommitInv ==
    ASSUME VmInv, NEW p \in Proc, NEW len, exec_commit(p, len)
    PROVE  VmInv'
<1>0. PICK n0, t, k : n0 = new[p] /\ t = to[p] /\ k = Pages(t)
  OBVIOUS
<1>. DEFINE pt == uvmclear(n0, k - 2)
            e == proc_freepagetable(kfree(free, {arg[p]}), pt, t)
            old == proc_freepagetable(kfree(free, {arg[p]}), slot[p].pt, slot[p].sz)
<1>1. /\ stage[p] = "stack" /\ a[p] >= k
      /\ stage' = [stage EXCEPT ![p] = "user"] /\ Return(p)
      /\ \/ /\ free' = old.free /\ panicked' = ~old.ok
            /\ slot' = [slot EXCEPT ![p].pt = pt, ![p].sz = t]
         \/ free' = e.free /\ panicked' = ~e.ok /\ slot' = slot
  BY <1>0 DEF exec_commit, At, Enter, Take
<1>2. Loading(p) /\ Building(p) = a[p]
  BY <1>1 DEF Loading, Building
<1>3. /\ n0.root # 0 /\ Prefix(n0, a[p]) /\ Top(n0, slot[p].tf) /\ n0.user = 0 .. a[p] - 1
      /\ a[p] <= k /\ t <= UserMax /\ k >= 2
  BY <1>0, <1>1, <1>2, InLoad
<1>4. t \in Nat /\ a[p] \in Nat /\ Holds(free, n0, Owning, ONew(p), {})
  BY <1>0, VmParts, VmOwners
<1>5. a[p] = k /\ k \in Nat
  <2>1. k \in Nat
    BY <1>0, <1>4, PagesOf
  <2>. QED
    BY <1>1, <1>3, <1>4, <2>1
<1>6. ClearPost(free, n0, k - 2, Owning, ONew(p), pt)
  BY <1>4, Uvmclear
<1>7. OwnedBy(pt) = OwnedBy(n0)
  <2>1. pt.root = n0.root /\ pt.tab = n0.tab /\ pt.pte = n0.pte
    BY <1>4 DEF uvmclear, Holds, Table
  <2>. HIDE DEF pt
  <2>. QED
    BY <2>1, OwnedSame
<1>. HIDE DEF pt
<1>8. /\ Holds(free, pt, Owning, ONew(p), {}) /\ pt.root # 0 /\ pt.pte = n0.pte
      /\ pt.user = (0 .. k - 1) \ {k - 2}
  BY <1>3, <1>5, <1>6 DEF ClearPost
<1>9. Prefix(pt, k) /\ Top(pt, slot[p].tf) /\ Guard(pt, k)
  <2>1. Prefix(pt, k)
    BY <1>3, <1>5, <1>8 DEF Prefix
  <2>2. Top(pt, slot[p].tf)
    BY <1>3, <1>8 DEF Top
  <2>3. Guard(pt, k)
    BY <1>8 DEF Guard
  <2>. QED
    BY <2>1, <2>2, <2>3
<1>10. CASE /\ free' = old.free /\ panicked' = ~old.ok
            /\ slot' = [slot EXCEPT ![p].pt = pt, ![p].sz = t]
  <2>1. old = proc_freepagetable(kfree(free, {arg[p]}), slot[p].pt, slot[p].sz)
    OBVIOUS
  <2>. HIDE DEF old
  <2>2. OwnedBy(pt) = OwnedBy(new[p]) /\ Prefix(pt, Pages(t)) /\ Guard(pt, Pages(t))
    BY <1>0, <1>7, <1>9
  <2>. QED
    BY <1>1, <1>2, <1>3, <1>4, <1>8, <1>9, <1>10, <2>1, <2>2, CommitInv
<1>11. CASE free' = e.free /\ panicked' = ~e.ok /\ slot' = slot
  <2>1. e = proc_freepagetable(kfree(free, {arg[p]}), pt, t)
    OBVIOUS
  <2>. HIDE DEF e
  <2>2. Prefix(pt, Pages(t))
    BY <1>0, <1>9
  <2>. QED
    BY <1>1, <1>2, <1>4, <1>8, <1>9, <1>11, <2>1, <2>2, BadInv
<1>. QED
  BY <1>1, <1>10, <1>11

\* Every step keeps the invariant.
LEMMA VmStep ==
    ASSUME VmInv, [VmNext]_vmvars
    PROVE  VmInv'
<1>1. CASE UNCHANGED vmvars
  BY <1>1, VmStutter
<1>2. CASE VmNext
  <2>1. PICK p \in Proc :
          \/ \E n0 \in Deltas : growproc(p, n0)
          \/ growproc_page(p) \/ growproc_end(p)
          \/ \E q \in Proc : allocproc(p, q)
          \/ uvmcreate(p) \/ proc_pagetable(p)
          \/ uvmcopy(p) \/ fork(p) \/ wait(p)
          \/ \E uarg \in Addrs, nul \in {0, PGSIZE - 1} : sys_exec(p, uarg, nul)
          \/ \E b \in BOOLEAN : exec(p, b) \/ loadseg(p, b)
          \/ \E len \in 1 .. PGSIZE : exec_commit(p, len)
          \/ \E s \in Segments, b \in BOOLEAN : exec_segment(p, s, b)
          \/ exec_page(p) \/ exec_stack(p)
    BY <1>2 DEF VmNext
  <2>2. ASSUME NEW n0 \in Deltas, growproc(p, n0) PROVE VmInv'
    <3>1. n0 < 0 \/ ~ n0 < 0
      OBVIOUS
    <3>. QED
      BY <2>2, <3>1, GrowprocShrink, GrowprocGrow
  <2>3. CASE growproc_page(p)
    BY <2>3, GrowprocPage
  <2>4. CASE growproc_end(p)
    BY <2>4, GrowprocEnd
  <2>5. ASSUME NEW q \in Proc, allocproc(p, q) PROVE VmInv'
    BY <2>5, AllocprocInv
  <2>6. CASE uvmcreate(p)
    BY <2>6, UvmcreateInv
  <2>7. CASE proc_pagetable(p)
    BY <2>7, ProcPagetableInv
  <2>8. CASE uvmcopy(p)
    BY <2>8, UvmcopyInv
  <2>9. CASE fork(p)
    BY <2>9, ForkInv
  <2>10. CASE wait(p)
    BY <2>10, WaitInv
  <2>11. ASSUME NEW uarg \in Addrs, NEW nul \in {0, PGSIZE - 1}, sys_exec(p, uarg, nul)
         PROVE  VmInv'
    BY <2>11, SysExecInv
  <2>12. ASSUME NEW b \in BOOLEAN, exec(p, b) PROVE VmInv'
    BY <2>12, ExecInv
  <2>13. ASSUME NEW b \in BOOLEAN, loadseg(p, b) PROVE VmInv'
    BY <2>13, LoadsegInv
  <2>14. ASSUME NEW len \in 1 .. PGSIZE, exec_commit(p, len) PROVE VmInv'
    BY <2>14, ExecCommitInv
  <2>15. ASSUME NEW s \in Segments, NEW b \in BOOLEAN, exec_segment(p, s, b) PROVE VmInv'
    BY <2>15, ExecSegmentInv
  <2>16. CASE exec_page(p)
    BY <2>16, ExecPageInv
  <2>17. CASE exec_stack(p)
    BY <2>17, ExecStackInv
  <2>. QED
    BY <2>1, <2>2, <2>3, <2>4, <2>5, <2>6, <2>7, <2>8, <2>9, <2>10, <2>11, <2>12, <2>13,
       <2>14, <2>15, <2>16, <2>17
<1>. QED
  BY <1>1, <1>2

-----------------------------------------------------------------------------
(***************************************************************************)
(* userinit().                                                             *)
(***************************************************************************)

\* The free list of which the first n0 pages are taken.
FreeFrom(n0) == [g \in Page |-> IF g <= n0 THEN 0 ELSE 1]

\* It gives out the next page.
LEMMA FreeFromNext ==
    ASSUME NEW n0 \in Nat, n0 < NPAGES
    PROVE  /\ FreeFrom(n0) \in FreeLists /\ Avail(FreeFrom(n0)) # {}
           /\ First(FreeFrom(n0)) = n0 + 1 /\ kalloc(FreeFrom(n0)) = FreeFrom(n0 + 1)
<1>. DEFINE f == FreeFrom(n0)
            g == First(f)
<1>0. NPAGES \in Nat /\ n0 + 1 \in Page /\ Page = 1 .. NPAGES
  BY VmConstants DEF Page
<1>1. f \in FreeLists /\ f[n0 + 1] = 1 /\ \A h \in Page : f[h] = IF h <= n0 THEN 0 ELSE 1
  BY <1>0 DEF FreeFrom, FreeLists
<1>. HIDE DEF f
<1>2. Avail(f) # {}
  BY <1>0, <1>1 DEF Avail
<1>3. g \in Page /\ f[g] > 0 /\ g <= n0 + 1
  <2>1. g \in Page /\ f[g] > 0 /\ \A h \in Page : f[h] > 0 => g <= h
    BY <1>1, <1>2, FirstFree
  <2>. HIDE DEF g
  <2>2. f[n0 + 1] > 0
    BY <1>1
  <2>. QED
    BY <1>0, <2>1, <2>2
<1>4. g = n0 + 1
  BY <1>0, <1>1, <1>3
<1>5. /\ kalloc(f) \in FreeLists /\ kalloc(f)[g] = f[g] - 1
      /\ \A h \in Page : h # g => kalloc(f)[h] = f[h]
  BY <1>1, <1>2, FirstFree
<1>6. kalloc(f) = FreeFrom(n0 + 1)
  <2>1. \A h \in Page : kalloc(f)[h] = IF h <= n0 + 1 THEN 0 ELSE 1
    BY <1>0, <1>1, <1>4, <1>5
  <2>. QED
    BY <1>5, <2>1 DEF FreeFrom, FreeLists
<1>. QED
  BY <1>1, <1>2, <1>4, <1>6 DEF f

\* uvmalloc() of a page succeeds if there are two, one perhaps for a table.
LEMMA AllocOk ==
    ASSUME NEW f, NEW pt, NEW v, NEW u, Avail(f) # {}, Avail(kalloc(f)) # {}
    PROVE  uvmalloc_page(f, pt, v, u).ok = TRUE
<1>. DEFINE w == walk(kalloc(f), pt, v)
            m == mappages(kalloc(f), pt, v, First(f), u)
<1>1. w.ok = TRUE
  BY DEF walk, Result
<1>2. m = Result(TRUE, w.free, WithPte(w.pt, v, First(f), u))
  <2>. HIDE DEF w
  <2>. QED
    BY <1>1 DEF mappages, w
<1>. HIDE DEF w
<1>3. m.ok = TRUE
  BY <1>2 DEF Result
<1>4. uvmalloc_page(f, pt, v, u) = m
  <2>. HIDE DEF m
  <2>. QED
    BY <1>3 DEF uvmalloc_page, m
<1>. QED
  BY <1>3, <1>4

\* The pages and the owners that userinit() starts from.
OwnersAt0 == [x \in Owner |-> IF x = OTf(InitProc) THEN {1} ELSE {}]

LEMMA ExactAt0 ==
    OwnersAt0 \in Owners /\ Exact(FreeFrom(1), OwnersAt0) /\ 1 \in Page
<1>0. NPAGES \in Nat /\ 1 \in Page /\ Page = 1 .. NPAGES /\ OTf(InitProc) \in Owner
  BY VmConstants, OwnerFacts DEF Page
<1>1. OwnersAt0 \in Owners
  BY <1>0 DEF OwnersAt0, Owners
<1>2. \A g \in Page : FreeFrom(1)[g] = IF g = 1 THEN 0 ELSE 1
  BY <1>0 DEF FreeFrom
<1>3. \A x \in Owner : OwnersAt0[x] = IF x = OTf(InitProc) THEN {1} ELSE {}
  BY DEF OwnersAt0
<1>4. \A g \in Page : FreeFrom(1)[g] \in {0, 1}
  BY <1>2
<1>5. \A x, y \in Owner : \A g \in Page : g \in OwnersAt0[x] /\ g \in OwnersAt0[y] => x = y
  BY <1>3
<1>6. \A g \in Page : FreeFrom(1)[g] = 1 <=> \A x \in Owner : g \notin OwnersAt0[x]
  <2>1. ASSUME NEW g \in Page PROVE FreeFrom(1)[g] = 1 <=> \A x \in Owner : g \notin OwnersAt0[x]
    <3>1. CASE g = 1
      BY <1>0, <1>2, <1>3, <3>1
    <3>2. CASE g # 1
      BY <1>0, <1>2, <1>3, <3>2
    <3>. QED
      BY <3>1, <3>2
  <2>. QED
    BY <2>1
<1>. QED
  BY <1>0, <1>1, <1>4, <1>5, <1>6 DEF Exact

\* The first process: its table has one page, and everything is accounted for.
InitPost(f, pt) ==
    /\ Holds(f, pt, OwnersAt0, OPt(InitProc), {}) /\ pt.root # 0
    /\ Prefix(pt, 1) /\ Guard(pt, 1) /\ Top(pt, 1)
LEMMA Userinit ==
    ASSUME VmInit
    PROVE  /\ InitPost(free, slot[InitProc].pt)
           /\ slot = [p \in Proc |-> IF p = InitProc
                        THEN [used |-> TRUE, tf |-> 1, pt |-> slot[InitProc].pt, sz |-> PGSIZE]
                        ELSE NoProc]
<1>. DEFINE x == OPt(InitProc)
            O == OwnersAt0
            n0 == [NoTable EXCEPT !.root = 2]
            f1 == kalloc([g \in Page |-> IF g = 1 THEN 0 ELSE 1])
            top == mappages(f1, n0, TRAMPOLINE, TrampolineText, {})
            tf == mappages(top.free, top.pt, TRAPFRAME, 1, {})
            u == uvminit(tf.free, tf.pt)
<1>1. /\ free = u.free
      /\ slot = [p \in Proc |-> IF p = InitProc
                   THEN [used |-> TRUE, tf |-> 1, pt |-> u.pt, sz |-> PGSIZE] ELSE NoProc]
  BY DEF VmInit
<1>2. /\ NPAGES \in Nat /\ NPAGES >= 5 /\ Page = 1 .. NPAGES /\ 2 \in Page /\ 1 \in Page
      /\ InitProc \in Proc /\ x \in Owner
  BY VmConstants, OwnerFacts DEF Page
<1>3. f1 = FreeFrom(2)
  <2>1. [g \in Page |-> IF g = 1 THEN 0 ELSE 1] = FreeFrom(1)
    BY <1>2 DEF FreeFrom
  <2>2. kalloc(FreeFrom(1)) = FreeFrom(1 + 1)
    BY <1>2, FreeFromNext
  <2>. QED
    BY <2>1, <2>2
<1>. HIDE DEF f1
<1>4. Holds(f1, n0, O, x, {})
  <2>1. O[x] = OwnedBy(NoTable)
    BY <1>2, OwnerFacts, NoTableFacts DEF OwnersAt0
  <2>2. /\ FreeFrom(1) \in FreeLists /\ Avail(FreeFrom(1)) # {} /\ First(FreeFrom(1)) = 2
        /\ kalloc(FreeFrom(1)) = f1
    BY <1>2, <1>3, FreeFromNext
  <2>3. Holds(FreeFrom(1), NoTable, O, x, {})
    BY <1>2, <2>1, <2>2, ExactAt0, NoTableFacts, HoldsOf
  <2>4. Holds(f1, NoTable, O, x, {2})
    BY <2>2, <2>3, TakePage
  <2>5. Holds(f1, WithRoot(NoTable, 2), O, x, {})
    BY <1>2, <2>4, SetRoot
  <2>. QED
    BY <2>5 DEF WithRoot
<1>5. /\ n0 \in Table /\ n0.root = 2 /\ n0.tab = NoTable.tab /\ n0.pte = NoTable.pte
      /\ n0.user = NoTable.user
  BY <1>2, RootFields, NoTableFacts DEF WithRoot
<1>. HIDE DEF n0
<1>6. /\ TRAMPOLINE \in VPage /\ TRAMPOLINE \notin UserV /\ TRAPFRAME \in VPage
      /\ TRAPFRAME \notin UserV /\ TRAMPOLINE # TRAPFRAME /\ 0 \in UserV /\ 0 < USERPAGES
      /\ UserV \subseteq VPage /\ USERPAGES \in Nat
      /\ TrampolineText \in 0 .. NPAGES + 1 /\ 1 \in 0 .. NPAGES + 1
  BY VmConstants DEF UserV, TrampolineText
<1>. HIDE DEF O
<1>7. TopPost(f1, n0, TRAMPOLINE, TrampolineText, O, x, top)
  BY <1>4, <1>6, MapTop
<1>. HIDE DEF top
<1>8. Avail(f1) # {} /\ kalloc(f1) = FreeFrom(3)
  BY <1>2, <1>3, FreeFromNext
<1>9. /\ Holds(top.free, top.pt, O, x, {}) /\ top.pt.root = 2 /\ top.pt.user = {}
      /\ top.pt.pte = [n0.pte EXCEPT ![TRAMPOLINE] = TrampolineText]
      /\ top.pt.tab[USERTABS] # 0 /\ top.free = FreeFrom(3)
  <2>1. TRAMPOLINE \div TABSIZE = USERTABS /\ USERTABS \in TabIdx
    BY TabOf
  <2>2. n0.tab[USERTABS] = 0
    BY <1>5, <2>1, NoTableFacts
  <2>3. top.ok
    BY <1>7, <1>8 DEF TopPost
  <2>. QED
    BY <1>5, <1>7, <1>8, <2>1, <2>2, <2>3, NoTableFacts DEF TopPost
<1>10. TopPost(top.free, top.pt, TRAPFRAME, 1, O, x, tf)
  BY <1>6, <1>9, MapTop
<1>. HIDE DEF tf
<1>11. /\ Holds(tf.free, tf.pt, O, x, {}) /\ tf.pt.root = 2 /\ tf.pt.user = {}
       /\ tf.pt.pte = [top.pt.pte EXCEPT ![TRAPFRAME] = 1] /\ tf.free = FreeFrom(3)
  BY <1>9, <1>10, TabOf DEF TopPost
<1>12. /\ tf.pt.pte[TRAPFRAME] = 1 /\ tf.pt.pte[TRAMPOLINE] = TrampolineText
       /\ \A v \in VPage : v # TRAPFRAME /\ v # TRAMPOLINE => tf.pt.pte[v] = 0
  <2>1. n0.pte \in [VPage -> 0 .. NPAGES + 1] /\ \A v \in VPage : n0.pte[v] = 0
    BY <1>5, TableFields, NoTableFacts
  <2>. QED
    BY <1>6, <1>9, <1>11, <2>1
<1>13. Prefix(tf.pt, 0)
  <2>1. \A v \in UserV : tf.pt.pte[v] = 0 /\ ~ v < 0
    BY <1>6, <1>12 DEF UserV
  <2>2. \A v \in VPage : v < TRAPFRAME => v # TRAPFRAME /\ v # TRAMPOLINE
    BY VmConstants DEF VPage
  <2>3. 0 \in 0 .. USERPAGES
    BY <1>6
  <2>. QED
    BY <1>11, <1>12, <2>1, <2>2, <2>3 DEF Prefix
<1>14. PICK f, pt, w : f = tf.free /\ pt = tf.pt /\ w = {0}
  OBVIOUS
<1>15. u = uvmalloc_page(f, pt, 0, w)
  BY <1>14 DEF uvminit
<1>. HIDE DEF u
<1>16. pt.pte[0] = 0 /\ w \in SUBSET VPage
  BY <1>6, <1>12, <1>14
<1>17. AllocPost(f, pt, 0, w, O, x, u)
  BY <1>6, <1>11, <1>14, <1>15, <1>16, AllocPage
<1>18. u.ok = TRUE
  <2>1. /\ Avail(FreeFrom(3)) # {} /\ kalloc(FreeFrom(3)) = FreeFrom(4) /\ Avail(FreeFrom(4)) # {}
    BY <1>2, FreeFromNext
  <2>2. Avail(f) # {} /\ Avail(kalloc(f)) # {}
    BY <1>11, <1>14, <2>1
  <2>. QED
    BY <1>15, <2>2, AllocOk
<1>19. PICK q : q = u.pt
  OBVIOUS
<1>20. PICK g \in Page : q.pte = [pt.pte EXCEPT ![0] = g]
  BY <1>17, <1>18, <1>19 DEF AllocPost
<1>21. /\ Holds(u.free, q, O, x, {}) /\ q.root = 2 /\ q.user = pt.user \cup w
  BY <1>11, <1>14, <1>17, <1>18, <1>19 DEF AllocPost
<1>22. q \in Table /\ pt \in Table /\ Prefix(pt, 0) /\ 0 \in Nat
  BY <1>11, <1>13, <1>14, <1>21 DEF Holds
<1>23. w \in SUBSET {0}
  BY <1>14
<1>24. /\ Prefix(q, 0 + 1) /\ q.pte[TRAPFRAME] = pt.pte[TRAPFRAME]
       /\ q.pte[TRAMPOLINE] = pt.pte[TRAMPOLINE]
  BY <1>6, <1>20, <1>21, <1>22, <1>23, PrefixGrow
<1>25. Prefix(q, 1) /\ Top(q, 1) /\ Guard(q, 1)
  <2>1. 0 + 1 = 1 /\ q.user = {0}
    BY <1>11, <1>14, <1>21
  <2>2. Guard(q, 1)
    BY <2>1 DEF Guard
  <2>. QED
    BY <1>12, <1>14, <1>24, <2>1, <2>2 DEF Top
<1>26. InitPost(u.free, q)
  BY <1>21, <1>25 DEF InitPost, O
<1>27. slot[InitProc].pt = q
  BY <1>1, <1>2, <1>19
<1>. QED
  BY <1>1, <1>19, <1>26, <1>27

\* userinit() establishes the invariant.
LEMMA VmInitInv ==
    ASSUME VmInit
    PROVE  VmInv
<1>0. PICK q : q = slot[InitProc].pt
  OBVIOUS
<1>1. /\ slot = [p \in Proc |-> IF p = InitProc
                   THEN [used |-> TRUE, tf |-> 1, pt |-> q, sz |-> PGSIZE] ELSE NoProc]
      /\ InitPost(free, q)
  BY <1>0, Userinit
<1>2. /\ stage = [p \in Proc |-> IF p = InitProc THEN "user" ELSE "none"]
      /\ kid = [p \in Proc |-> p] /\ new = [p \in Proc |-> NoTable]
      /\ sz = [p \in Proc |-> 0] /\ a = [p \in Proc |-> 0] /\ to = [p \in Proc |-> 0]
      /\ arg = [p \in Proc |-> 0] /\ panicked = FALSE
  BY DEF VmInit
<1>3. /\ NPAGES \in Nat /\ NPAGES >= 5 /\ 1 \in Page /\ PGSIZE \in Nat \ {0} /\ InitProc \in Proc
  BY VmConstants DEF Page
<1>4. /\ Holds(free, q, OwnersAt0, OPt(InitProc), {}) /\ q.root # 0
      /\ Prefix(q, 1) /\ Guard(q, 1) /\ Top(q, 1)
  BY <1>1 DEF InitPost
<1>5. q \in Table /\ Distinct(q) /\ free \in FreeLists
  BY <1>4 DEF Holds
<1>6. NoProc \in SlotRec /\ NoProc.used = FALSE /\ NoProc.tf = 0 /\ NoProc.pt = NoTable
      /\ NoProc.sz = 0
  BY NoTableFacts DEF NoProc, SlotRec
<1>7. PICK r : r = [used |-> TRUE, tf |-> 1, pt |-> q, sz |-> PGSIZE]
  OBVIOUS
<1>8. r \in SlotRec /\ r.used = TRUE /\ r.tf = 1 /\ r.pt = q /\ r.sz = PGSIZE
  BY <1>3, <1>5, <1>7 DEF SlotRec
<1>9. /\ slot \in [Proc -> SlotRec] /\ slot[InitProc] = r
      /\ \A p \in Proc : p # InitProc => slot[p] = NoProc
  BY <1>1, <1>3, <1>6, <1>7, <1>8
<1>10. VmTypeOK
  BY <1>2, <1>5, <1>9, NoTableFacts DEF VmTypeOK, FreeLists, Stages
<1>11. SlotInv
  <2>1. ASSUME NEW p \in Proc PROVE SlotRow(p)
    <3>1. CASE p = InitProc
      <4>1. Mapped(p) = 1
        <5>1. Pages(1 * PGSIZE) = 1
          BY PagesOf
        <5>. QED
          BY <1>2, <1>3, <1>8, <1>9, <3>1, <5>1 DEF Mapped
      <4>2. PGSIZE <= UserMax
        BY VmConstants DEF UserMax
      <4>. QED
        BY <1>2, <1>3, <1>4, <1>5, <1>8, <1>9, <3>1, <4>1, <4>2 DEF SlotRow
    <3>2. CASE p # InitProc
      BY <1>2, <1>6, <1>9, <3>2, NoTableFacts DEF SlotRow
    <3>. QED
      BY <3>1, <3>2
  <2>. QED
    BY <2>1 DEF SlotInv
<1>12. CallInv
  BY <1>2 DEF CallInv, CallRow, Execing
<1>13. NewInv /\ SizeInv
  BY <1>2, NoTableFacts DEF NewInv, NewRow, SizeInv, SizeRow, Loading
<1>14. OwnInv
  <2>1. PICK P \in Owners : /\ Exact(free, P) /\ P[OPt(InitProc)] = OwnedBy(q)
                            /\ \A y \in Owner : y # OPt(InitProc) => P[y] = OwnersAt0[y]
    BY <1>4, HoldsExact
  <2>2. \A y \in Owner : OwnersAt0[y] = IF y = OTf(InitProc) THEN {1} ELSE {}
    BY DEF OwnersAt0
  <2>3. ASSUME NEW p \in Proc
        PROVE  /\ P[OTf(p)] = {slot[p].tf} \ {0} /\ P[OArg(p)] = {arg[p]} \ {0}
               /\ P[OPt(p)] = OwnedBy(slot[p].pt) /\ P[ONew(p)] = OwnedBy(new[p])
    <3>1. P[OArg(p)] = {} /\ P[ONew(p)] = {}
      BY <1>3, <2>1, <2>2, OwnerFacts
    <3>2. CASE p = InitProc
      <4>1. P[OTf(p)] = {1}
        BY <1>3, <2>1, <2>2, <3>2, OwnerFacts
      <4>. QED
        BY <1>2, <1>8, <1>9, <2>1, <3>1, <3>2, <4>1, NoTableFacts
    <3>3. CASE p # InitProc
      <4>1. P[OTf(p)] = {} /\ P[OPt(p)] = {}
        BY <1>3, <2>1, <2>2, <3>3, OwnerFacts
      <4>. QED
        BY <1>2, <1>6, <1>9, <3>1, <3>3, <4>1, NoTableFacts
    <3>. QED
      BY <3>2, <3>3
  <2>4. Own(slot, new, arg) = P
    BY <2>3, OwnEqual
  <2>. QED
    BY <2>1, <2>4 DEF OwnInv
<1>. QED
  BY <1>2, <1>10, <1>11, <1>12, <1>13, <1>14 DEF VmInv

\* The invariant holds of every state.
LEMMA VmAlways == VmSpec => []VmInv
<1>1. VmInit => VmInv
  BY VmInitInv
<1>2. VmInv /\ [VmNext]_vmvars => VmInv'
  BY VmStep
<1>. QED
  BY <1>1, <1>2, PTL DEF VmSpec

-----------------------------------------------------------------------------
(***************************************************************************)
(* Copies between kernel and user memory.                                  *)
(***************************************************************************)

\* A round of copyout() at byte d, after which the loop moves r[d + n0].
CopyRound(pt, va, len, r, d) ==
    LET off == (va + d) % PGSIZE
        pa0 == walkaddr(pt, (va + d) \div PGSIZE)
        n0 == Min({PGSIZE - off, len - d})
    IN  IF d = len THEN {}
        ELSE IF pa0 = 0 THEN {Failed}
        ELSE {Move(pa0, off + k, d + k) : k \in 0 .. n0 - 1} \cup r[d + n0]

\* The loop is a function that satisfies the equation of its rounds.
LEMMA CopyoutIs ==
    ASSUME NEW pt, NEW va, NEW len
    PROVE  copyout(pt, va, len) =
              (CHOOSE r : r = [d \in 0 .. len |-> CopyRound(pt, va, len, r, d)])[0]
  BY DEF copyout, CopyRound

\* Byte c of a copy to va is the user's, and its move.
UserByte(pt, va, c) == (va + c) \div PGSIZE \in pt.user
MoveOf(pt, va, c) == Move(pt.pte[(va + c) \div PGSIZE], (va + c) % PGSIZE, c)

\* What the loop moves from byte d on: the bytes up to the first that is not the
\* user's.
CopyFrom(pt, va, len, d) ==
    {MoveOf(pt, va, c) : c \in {c \in d .. len - 1 : \A b \in d .. c : UserByte(pt, va, b)}}
      \cup {m \in {Failed} : \E c \in d .. len - 1 : ~UserByte(pt, va, c)}

\* The least of two numbers.
LEMMA MinPair ==
    ASSUME NEW x \in Nat, NEW y \in Nat
    PROVE  Min({x, y}) = IF x <= y THEN x ELSE y
<1>. DEFINE S == {x, y}
            m == IF x <= y THEN x ELSE y
<1>1. m \in S /\ \A z \in S : m <= z
  OBVIOUS
<1>2. \A z \in S : (\A w \in S : z <= w) => z = m
  BY <1>1
<1>3. (CHOOSE z \in S : \A w \in S : z <= w) = m
  <2>. HIDE DEF S, m
  <2>. QED
    BY <1>1, <1>2
<1>. QED
  BY <1>3 DEF Min

\* The bytes of one page.
LEMMA SamePage ==
    ASSUME NEW b \in Nat, NEW k \in Nat, (b % PGSIZE) + k < PGSIZE
    PROVE  (b + k) \div PGSIZE = b \div PGSIZE /\ (b + k) % PGSIZE = (b % PGSIZE) + k
<1>1. PGSIZE \in Nat \ {0}
  BY VmConstants
<1>2. PICK q, r : q = b \div PGSIZE /\ r = b % PGSIZE
  OBVIOUS
<1>3. q \in Nat /\ r \in 0 .. PGSIZE - 1 /\ b = q * PGSIZE + r
  BY <1>1, <1>2, DivMod
<1>4. r + k \in 0 .. PGSIZE - 1 /\ b + k \in Nat
  BY <1>1, <1>2, <1>3
<1>5. PICK e : e = r + k
  OBVIOUS
<1>6. PICK z : z = q * PGSIZE
  OBVIOUS
<1>7. z \in Nat /\ b + k = z + e
  BY <1>1, <1>3, <1>5, <1>6
<1>8. (z + e) \div PGSIZE = q
  BY <1>1, <1>3, <1>4, <1>5, <1>6, DivUnique
<1>9. (b + k) \div PGSIZE = q
  BY <1>7, <1>8
<1>10. b + k = ((b + k) \div PGSIZE) * PGSIZE + ((b + k) % PGSIZE) /\ (b + k) % PGSIZE \in Nat
  BY <1>1, <1>4, DivMod
<1>11. (b + k) % PGSIZE = e
  BY <1>4, <1>5, <1>6, <1>7, <1>9, <1>10
<1>. QED
  BY <1>2, <1>5, <1>9, <1>11

\* What the loop moves satisfies the equation of a round.
LEMMA CopyFromRound ==
    ASSUME NEW pt, NEW va \in Nat, NEW len \in Nat, NEW d \in 0 .. len,
           pt.user \subseteq VPage, \A v \in pt.user : pt.pte[v] # 0,
           NEW r, d < len => \A e \in d + 1 .. len : r[e] = CopyFrom(pt, va, len, e)
    PROVE  CopyRound(pt, va, len, r, d) = CopyFrom(pt, va, len, d)
<1>. DEFINE off == (va + d) % PGSIZE
            v == (va + d) \div PGSIZE
            pa0 == walkaddr(pt, v)
            n0 == Min({PGSIZE - off, len - d})
<1>1. CASE d = len
  <2>1. d .. len - 1 = {}
    BY <1>1
  <2>2. CopyFrom(pt, va, len, d) = {}
    BY <2>1 DEF CopyFrom
  <2>. QED
    BY <1>1, <2>2 DEF CopyRound
<1>2. CASE d # len /\ pa0 = 0
  <2>1. CopyRound(pt, va, len, r, d) = {Failed}
    BY <1>2 DEF CopyRound
  <2>2. v \notin pt.user
    BY <1>2 DEF walkaddr
  <2>3. ~UserByte(pt, va, d)
    BY <2>2 DEF UserByte
  <2>4. d \in d .. len - 1 /\ \A c \in d .. len - 1 : d \in d .. c
    BY <1>2
  <2>5. CopyFrom(pt, va, len, d) = {Failed}
    BY <2>3, <2>4 DEF CopyFrom
  <2>. QED
    BY <2>1, <2>5
<1>3. CASE d # len /\ pa0 # 0
  <2>1. CopyRound(pt, va, len, r, d) = {Move(pa0, off + k, d + k) : k \in 0 .. n0 - 1} \cup r[d + n0]
    BY <1>3, Zenon DEF CopyRound
  <2>2. v \in pt.user /\ pa0 = pt.pte[v]
    BY <1>3 DEF walkaddr
  <2>3. PGSIZE \in Nat \ {0} /\ va + d \in Nat /\ off \in 0 .. PGSIZE - 1 /\ d < len
    BY <1>3, VmConstants, DivMod
  <2>4. n0 \in Nat /\ n0 >= 1 /\ n0 <= PGSIZE - off /\ n0 <= len - d
    <3>1. PGSIZE - off \in Nat \ {0} /\ len - d \in Nat \ {0}
      BY <2>3
    <3>. HIDE DEF off
    <3>2. n0 = IF PGSIZE - off <= len - d THEN PGSIZE - off ELSE len - d
      BY <3>1, MinPair
    <3>. HIDE DEF n0
    <3>. QED
      BY <3>1, <3>2
  <2>. HIDE DEF n0
  <2>5. d + n0 \in d + 1 .. len /\ r[d + n0] = CopyFrom(pt, va, len, d + n0)
    BY <2>3, <2>4
  <2>6. ASSUME NEW k \in 0 .. n0 - 1
        PROVE  (va + (d + k)) \div PGSIZE = v /\ (va + (d + k)) % PGSIZE = off + k
    <3>1. k \in Nat /\ off + k < PGSIZE /\ va + (d + k) = (va + d) + k
      BY <2>3, <2>4
    <3>. QED
      BY <2>3, <3>1, SamePage
  <2>. HIDE DEF off, v, pa0
  <2>7. \A c \in d .. (d + n0) - 1 : UserByte(pt, va, c) /\ MoveOf(pt, va, c) = Move(pa0, off + (c - d), c)
    <3>1. ASSUME NEW c \in d .. (d + n0) - 1
          PROVE UserByte(pt, va, c) /\ MoveOf(pt, va, c) = Move(pa0, off + (c - d), c)
      <4>1. PICK k \in 0 .. n0 - 1 : k = c - d /\ c = d + k
        BY <2>4
      <4>. QED
        BY <2>2, <2>6, <4>1 DEF UserByte, MoveOf
    <3>. QED
      BY <3>1
  <2>8. {Move(pa0, off + k, d + k) : k \in 0 .. n0 - 1} = {MoveOf(pt, va, c) : c \in d .. (d + n0) - 1}
    <3>1. ASSUME NEW k \in 0 .. n0 - 1
          PROVE  \E c \in d .. (d + n0) - 1 : MoveOf(pt, va, c) = Move(pa0, off + k, d + k)
      <4>1. d + k \in d .. (d + n0) - 1 /\ (d + k) - d = k
        BY <2>4
      <4>. QED
        BY <2>7, <4>1
    <3>2. ASSUME NEW c \in d .. (d + n0) - 1
          PROVE  \E k \in 0 .. n0 - 1 : MoveOf(pt, va, c) = Move(pa0, off + k, d + k)
      <4>1. c - d \in 0 .. n0 - 1 /\ d + (c - d) = c
        BY <2>4
      <4>. QED
        BY <2>7, <4>1
    <3>. QED
      BY <3>1, <3>2
  <2>9. ASSUME NEW c
        PROVE  (c \in d .. len - 1 /\ \A b \in d .. c : UserByte(pt, va, b))
                 <=> \/ c \in d .. (d + n0) - 1
                     \/ c \in d + n0 .. len - 1 /\ \A b \in d + n0 .. c : UserByte(pt, va, b)
    <3>1. c \in d .. len - 1 <=> c \in d .. (d + n0) - 1 \/ c \in d + n0 .. len - 1
      BY <2>3, <2>4
    <3>2. c \in d .. (d + n0) - 1 => \A b \in d .. c : b \in d .. (d + n0) - 1
      BY <2>3, <2>4
    <3>3. c \in d + n0 .. len - 1 => \A b \in d .. c : b \in d .. (d + n0) - 1 \/ b \in d + n0 .. c
      BY <2>3, <2>4
    <3>4. c \in d + n0 .. len - 1 => \A b \in d + n0 .. c : b \in d .. c
      BY <2>3, <2>4
    <3>. QED
      BY <2>7, <3>1, <3>2, <3>3, <3>4
  <2>10. (\E c \in d .. len - 1 : ~UserByte(pt, va, c))
            <=> \E c \in d + n0 .. len - 1 : ~UserByte(pt, va, c)
    <3>1. \A c : c \in d .. len - 1 <=> c \in d .. (d + n0) - 1 \/ c \in d + n0 .. len - 1
      BY <2>3, <2>4
    <3>. QED
      BY <2>7, <3>1
  <2>11. CopyFrom(pt, va, len, d) =
            {MoveOf(pt, va, c) : c \in d .. (d + n0) - 1} \cup CopyFrom(pt, va, len, d + n0)
    <3>. DEFINE X == {c \in d .. len - 1 : \A b \in d .. c : UserByte(pt, va, b)}
                Y == d .. (d + n0) - 1
                Z == {c \in d + n0 .. len - 1 : \A b \in d + n0 .. c : UserByte(pt, va, b)}
                F == {m \in {Failed} : \E c \in d .. len - 1 : ~UserByte(pt, va, c)}
                H == {m \in {Failed} : \E c \in d + n0 .. len - 1 : ~UserByte(pt, va, c)}
    <3>1. X = Y \cup Z
      BY <2>9
    <3>2. F = H
      BY <2>10
    <3>3. /\ CopyFrom(pt, va, len, d) = {MoveOf(pt, va, c) : c \in X} \cup F
          /\ CopyFrom(pt, va, len, d + n0) = {MoveOf(pt, va, c) : c \in Z} \cup H
      BY DEF CopyFrom
    <3>. HIDE DEF X, Y, Z, F, H
    <3>4. {MoveOf(pt, va, c) : c \in X} =
             {MoveOf(pt, va, c) : c \in Y} \cup {MoveOf(pt, va, c) : c \in Z}
      BY <3>1
    <3>5. CopyFrom(pt, va, len, d) =
             {MoveOf(pt, va, c) : c \in Y} \cup CopyFrom(pt, va, len, d + n0)
      BY <3>2, <3>3, <3>4
    <3>. QED
      BY <3>5 DEF Y
  <2>. QED
    BY <2>1, <2>5, <2>8, <2>11
<1>. QED
  BY <1>1, <1>2, <1>3

\* So that is what copyout() moves.
LEMMA CopyoutMoves ==
    ASSUME NEW pt, NEW va \in Nat, NEW len \in Nat,
           pt.user \subseteq VPage, \A v \in pt.user : pt.pte[v] # 0
    PROVE  copyout(pt, va, len) = CopyFrom(pt, va, len, 0)
<1>. DEFINE G == [d \in 0 .. len |-> CopyFrom(pt, va, len, d)]
            E(r) == r = [d \in 0 .. len |-> CopyRound(pt, va, len, r, d)]
            R == CHOOSE r : E(r)
<1>1. ASSUME NEW d \in 0 .. len PROVE CopyRound(pt, va, len, G, d) = CopyFrom(pt, va, len, d)
  <2>1. \A e \in d + 1 .. len : G[e] = CopyFrom(pt, va, len, e)
    <3>1. \A e \in d + 1 .. len : e \in 0 .. len
      OBVIOUS
    <3>. QED
      BY <3>1
  <2>. HIDE DEF G
  <2>. QED
    BY <2>1, CopyFromRound
<1>2. E(G)
  BY <1>1
<1>3. E(R)
  <2>. HIDE DEF E, G
  <2>. QED
    BY <1>2
<1>4. \A d \in 0 .. len : R[d] = CopyRound(pt, va, len, R, d)
  <2>. HIDE DEF R
  <2>. QED
    BY <1>3
<1>5. copyout(pt, va, len) = R[0]
  BY CopyoutIs
<1>. HIDE DEF R, E, G
<1>6. \A d \in 0 .. len : R[d] = CopyFrom(pt, va, len, d)
  <2>. DEFINE S == {d \in 0 .. len : R[d] # CopyFrom(pt, va, len, d)}
  <2>1. SUFFICES ASSUME S # {} PROVE FALSE
    OBVIOUS
  <2>2. S \in SUBSET (0 .. len)
    OBVIOUS
  <2>. HIDE DEF S
  <2>3. PICK d \in S : \A e \in S : d >= e
    BY <2>1, <2>2, Greatest
  <2>4. d \in 0 .. len /\ R[d] # CopyFrom(pt, va, len, d)
    BY <2>3 DEF S
  <2>5. \A e \in d + 1 .. len : R[e] = CopyFrom(pt, va, len, e)
    <3>1. ASSUME NEW e \in d + 1 .. len PROVE e \notin S /\ e \in 0 .. len
      BY <2>3, <2>4, <3>1
    <3>. QED
      BY <3>1 DEF S
  <2>6. CopyRound(pt, va, len, R, d) = CopyFrom(pt, va, len, d)
    BY <2>4, <2>5, CopyFromRound
  <2>. QED
    BY <1>4, <2>4, <2>6
<1>7. 0 \in 0 .. len
  OBVIOUS
<1>. QED
  BY <1>5, <1>6, <1>7

\* Every copy is right.
LEMMA CopyRightAlways ==
    ASSUME NEW pt, NEW va \in Nat, NEW len \in Nat,
           pt.user \subseteq VPage, \A v \in pt.user : pt.pte[v] # 0
    PROVE  CopyRight(pt, va, len)
<1>. DEFINE place(b) == Move(pt.pte[b \div PGSIZE], b % PGSIZE, b - va)
            B == va .. va + len - 1
            users == {b \in B : b \div PGSIZE \in pt.user}
            r == copyout(pt, va, len)
            C == {c \in 0 .. len - 1 : \A b \in 0 .. c : UserByte(pt, va, b)}
            F == {m \in {Failed} : \E c \in 0 .. len - 1 : ~UserByte(pt, va, c)}
<1>1. r = {MoveOf(pt, va, c) : c \in C} \cup F
  <2>1. r = CopyFrom(pt, va, len, 0)
    BY CopyoutMoves
  <2>2. CopyFrom(pt, va, len, 0) = {MoveOf(pt, va, c) : c \in C} \cup F
    BY Zenon DEF CopyFrom
  <2>. QED
    BY <2>1, <2>2, Zenon
<1>. HIDE DEF r
<1>2. ASSUME NEW c \in 0 .. len - 1
      PROVE  va + c \in B /\ place(va + c) = MoveOf(pt, va, c)
             /\ (UserByte(pt, va, c) <=> va + c \in users)
  <2>1. va + c \in B /\ (va + c) - va = c
    OBVIOUS
  <2>. QED
    BY <2>1 DEF MoveOf, UserByte
<1>3. ASSUME NEW b \in B
      PROVE  b - va \in 0 .. len - 1 /\ va + (b - va) = b /\ place(b) = MoveOf(pt, va, b - va)
             /\ (UserByte(pt, va, b - va) <=> b \in users)
  <2>1. b - va \in 0 .. len - 1 /\ va + (b - va) = b
    OBVIOUS
  <2>. QED
    BY <2>1 DEF MoveOf, UserByte
<1>4. users \subseteq B
  OBVIOUS
<1>. HIDE DEF place, B, users
<1>5. \A c \in C : c \in 0 .. len - 1 /\ UserByte(pt, va, c)
  <2>1. ASSUME NEW c \in C PROVE c \in 0 .. len - 1 /\ UserByte(pt, va, c)
    <3>1. c \in 0 .. len - 1 /\ c \in 0 .. c
      OBVIOUS
    <3>. QED
      BY <3>1
  <2>. QED
    BY <2>1
<1>6. CASE users = B
  <2>1. \A c \in 0 .. len - 1 : UserByte(pt, va, c)
    BY <1>2, <1>6
  <2>2. F = {}
    BY <2>1
  <2>3. C = 0 .. len - 1
    <3>1. \A c \in 0 .. len - 1 : \A b \in 0 .. c : b \in 0 .. len - 1
      OBVIOUS
    <3>. QED
      BY <2>1, <3>1
  <2>. HIDE DEF C, F
  <2>4. \A c \in 0 .. len - 1 : \E b \in users : MoveOf(pt, va, c) = place(b)
    BY <1>2, <2>1
  <2>5. \A b \in users : \E c \in 0 .. len - 1 : MoveOf(pt, va, c) = place(b)
    BY <1>3, <1>4
  <2>6. r = {place(b) : b \in users}
    BY <1>1, <2>2, <2>3, <2>4, <2>5
  <2>. QED
    BY <1>6, <2>6 DEF CopyRight, place, B, users, r
<1>7. CASE users # B
  <2>1. PICK b \in B : b \notin users
    BY <1>4, <1>7
  <2>2. \E c \in 0 .. len - 1 : ~UserByte(pt, va, c)
    BY <1>3, <2>1
  <2>3. F = {Failed}
    BY <2>2
  <2>. HIDE DEF C, F
  <2>4. \A c \in C : \E x \in users : MoveOf(pt, va, c) = place(x)
    BY <1>2, <1>5
  <2>5. Failed \in r /\ r \subseteq {place(x) : x \in users} \cup {Failed}
    BY <1>1, <2>3, <2>4
  <2>. QED
    BY <1>7, <2>5 DEF CopyRight, place, B, users, r
<1>. QED
  BY <1>6, <1>7

-----------------------------------------------------------------------------
(***************************************************************************)
(* The theorems.                                                           *)
(***************************************************************************)

\* The state of the page allocator, the process slots and the calls under way has
\* its type at every step of fork(), wait(), exec() and sbrk().
THEOREM VmTypeCorrect == VmSpec => []VmTypeOK
<1>1. VmInv => VmTypeOK
  BY DEF VmInv
<1>. QED
  BY <1>1, VmAlways, PTL

\* A set with one element or none has at most that cardinality.
LEMMA OneOf ==
    ASSUME NEW S, NEW x
    PROVE  /\ S = {} => Cardinality(S) = 0
           /\ S = {x} => Cardinality(S) = 1
  BY FS_EmptySet, FS_Singleton

\* Every page is free once or has one owner, in every state: no page is lost and
\* none is freed twice or used twice, for any number of pages and processes and
\* wherever kalloc() fails in uvmalloc(), uvmcopy(), proc_pagetable() or exec().
THEOREM VmPagesOwned == VmSpec => []PagesOwned
<1>1. ASSUME VmInv PROVE PagesOwned
  <2>. SUFFICES ASSUME NEW g \in Page
                PROVE  1 = free[g]
                         + Cardinality({p \in Proc : slot[p].tf = g})
                         + Cardinality({p \in Proc : arg[p] = g})
                         + Cardinality({p \in Proc : g \in OwnedBy(slot[p].pt)})
                         + Cardinality({p \in Proc : g \in OwnedBy(new[p])})
    BY DEF PagesOwned
  <2>. DEFINE T == {p \in Proc : slot[p].tf = g}
              A == {p \in Proc : arg[p] = g}
              S == {p \in Proc : g \in OwnedBy(slot[p].pt)}
              N == {p \in Proc : g \in OwnedBy(new[p])}
  <2>1. g # 0
    BY VmConstants DEF Page
  <2>2. \A p \in Proc :
           /\ p \in T <=> g \in Owning[OTf(p)]
           /\ p \in A <=> g \in Owning[OArg(p)]
           /\ p \in S <=> g \in Owning[OPt(p)]
           /\ p \in N <=> g \in Owning[ONew(p)]
    BY <1>1, <2>1, VmOwners
  <2>3. T \subseteq Proc /\ A \subseteq Proc /\ S \subseteq Proc /\ N \subseteq Proc
    OBVIOUS
  <2>4. /\ free[g] \in {0, 1}
        /\ \A x, y \in Owner : g \in Owning[x] /\ g \in Owning[y] => x = y
        /\ free[g] = 1 <=> \A x \in Owner : g \notin Owning[x]
    BY <1>1, VmOwners DEF Exact
  <2>. HIDE DEF T, A, S, N
  <2>5. CASE free[g] = 1
    <3>1. T = {} /\ A = {} /\ S = {} /\ N = {}
      BY <2>2, <2>3, <2>4, <2>5, OwnerFacts
    <3>2. Cardinality(T) = 0 /\ Cardinality(A) = 0 /\ Cardinality(S) = 0 /\ Cardinality(N) = 0
      BY <3>1, OneOf
    <3>3. 1 = free[g] + Cardinality(T) + Cardinality(A) + Cardinality(S) + Cardinality(N)
      BY <2>5, <3>2
    <3>. QED
      BY <3>3 DEF T, A, S, N
  <2>6. CASE free[g] = 0
    <3>1. PICK x \in Owner : g \in Owning[x]
      BY <2>4, <2>6
    <3>2. PICK p \in Proc : x \in {OTf(p), OArg(p), OPt(p), ONew(p)}
      BY OwnerFacts
    <3>3. \A y \in Owner : g \in Owning[y] => y = x
      BY <2>4, <3>1
    <3>4. /\ x = OTf(p) => T = {p} /\ A = {} /\ S = {} /\ N = {}
          /\ x = OArg(p) => A = {p} /\ T = {} /\ S = {} /\ N = {}
          /\ x = OPt(p) => S = {p} /\ A = {} /\ T = {} /\ N = {}
          /\ x = ONew(p) => N = {p} /\ A = {} /\ S = {} /\ T = {}
      <4>1. ASSUME x = OTf(p) PROVE T = {p} /\ A = {} /\ S = {} /\ N = {}
        BY <2>2, <2>3, <3>1, <3>3, <4>1, OwnerFacts
      <4>2. ASSUME x = OArg(p) PROVE A = {p} /\ T = {} /\ S = {} /\ N = {}
        BY <2>2, <2>3, <3>1, <3>3, <4>2, OwnerFacts
      <4>3. ASSUME x = OPt(p) PROVE S = {p} /\ A = {} /\ T = {} /\ N = {}
        BY <2>2, <2>3, <3>1, <3>3, <4>3, OwnerFacts
      <4>4. ASSUME x = ONew(p) PROVE N = {p} /\ A = {} /\ S = {} /\ T = {}
        BY <2>2, <2>3, <3>1, <3>3, <4>4, OwnerFacts
      <4>. QED
        BY <4>1, <4>2, <4>3, <4>4
    <3>5. 1 = free[g] + Cardinality(T) + Cardinality(A) + Cardinality(S) + Cardinality(N)
      <4>1. /\ (T = {} => Cardinality(T) = 0) /\ (A = {} => Cardinality(A) = 0)
            /\ (S = {} => Cardinality(S) = 0) /\ (N = {} => Cardinality(N) = 0)
            /\ (T = {p} => Cardinality(T) = 1) /\ (A = {p} => Cardinality(A) = 1)
            /\ (S = {p} => Cardinality(S) = 1) /\ (N = {p} => Cardinality(N) = 1)
        BY OneOf
      <4>2. CASE x = OTf(p)
        BY <2>6, <3>4, <4>1, <4>2
      <4>3. CASE x = OArg(p)
        BY <2>6, <3>4, <4>1, <4>3
      <4>4. CASE x = OPt(p)
        BY <2>6, <3>4, <4>1, <4>4
      <4>5. CASE x = ONew(p)
        BY <2>6, <3>4, <4>1, <4>5
      <4>. QED
        BY <3>2, <4>2, <4>3, <4>4, <4>5
    <3>. QED
      BY <3>5 DEF T, A, S, N
  <2>. QED
    BY <2>4, <2>5, <2>6
<1>. QED
  BY <1>1, VmAlways, PTL

\* A process has mapped the pages of its size and no others, all different, with
\* one guard page at most, and the kernel's two pages where trampoline.S expects
\* them; every copyin() and copyout() moves each byte to its place or fails; and
\* none of the panics of vm.c is reached.
THEOREM VmAddressSpaces == VmSpec => []AddressSpaces
<1>1. ASSUME VmInv PROVE AddressSpaces
  <2>1. ~panicked
    BY <1>1 DEF VmInv
  <2>2. ASSUME NEW p \in Proc, slot[p].used
        PROVE  /\ Maps(slot[p].pt, Mapped(p), slot[p].tf)
               /\ \A va \in Addrs : CopyRight(slot[p].pt, va, PGSIZE + 1)
    <3>0. PICK pt, k, tf : pt = slot[p].pt /\ k = Mapped(p) /\ tf = slot[p].tf
      OBVIOUS
    <3>1. /\ Distinct(pt) /\ Prefix(pt, k) /\ Guard(pt, k) /\ Top(pt, tf) /\ pt \in Table
      BY <1>1, <2>2, <3>0, VmParts DEF Rows, SlotRow
    <3>2. /\ USERPAGES \in Nat /\ k \in 0 .. USERPAGES /\ UserV = 0 .. USERPAGES - 1
          /\ 0 .. k - 1 \subseteq UserV /\ pt.user \subseteq 0 .. k - 1 /\ UserV \subseteq VPage
      BY <3>1, VmConstants DEF Prefix, UserV
    <3>3. \A v \in UserV : pt.pte[v] # 0 <=> v < k
      BY <3>1 DEF Prefix
    <3>4. \A v \in 0 .. k - 1 : pt.pte[v] # 0
      BY <3>2, <3>3
    <3>5. \A v1, v2 \in 0 .. k - 1 : pt.pte[v1] = pt.pte[v2] => v1 = v2
      BY <3>1, <3>2, <3>4 DEF Distinct
    <3>6. Cardinality((0 .. k - 1) \ pt.user) <= 1
      <4>. DEFINE S == (0 .. k - 1) \ pt.user
      <4>1. \A v, w \in S : v = w
        BY <3>1 DEF Guard
      <4>. HIDE DEF S
      <4>2. CASE S = {}
        <5>1. Cardinality(S) = 0
          BY <4>2, OneOf
        <5>. QED
          BY <5>1 DEF S
      <4>3. CASE S # {}
        <5>1. PICK v : v \in S
          BY <4>3
        <5>2. S = {v}
          BY <4>1, <5>1
        <5>3. Cardinality(S) = 1
          BY <5>2, OneOf
        <5>. QED
          BY <5>3 DEF S
      <4>. QED
        BY <4>2, <4>3
    <3>7. Maps(pt, k, tf)
      BY <3>1, <3>2, <3>3, <3>5, <3>6 DEF Maps, Top, UserV
    <3>8. ASSUME NEW va \in Addrs PROVE CopyRight(pt, va, PGSIZE + 1)
      <4>1. PICK len : len = PGSIZE + 1
        OBVIOUS
      <4>2. va \in Nat /\ len \in Nat
        BY <4>1, VmConstants
      <4>3. pt.user \subseteq VPage /\ \A v \in pt.user : pt.pte[v] # 0
        BY <3>2, <3>4
      <4>4. CopyRight(pt, va, len)
        BY <4>2, <4>3, CopyRightAlways
      <4>. QED
        BY <4>1, <4>4
    <3>. QED
      BY <3>0, <3>7, <3>8
  <2>. QED
    BY <2>1, <2>2 DEF AddressSpaces, Mapped
<1>. QED
  BY <1>1, VmAlways, PTL
=============================================================================
