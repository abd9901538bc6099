-------------------------------- MODULE Proc --------------------------------
(***************************************************************************)
(* The life of a process in kernel/proc.c: fork(), exit(), wait(),         *)
(* reparent(), wakeup1() and kill(), at the grain of the p->lock spinlocks.*)
(* A step is what a process does between waiting for one lock and waiting  *)
(* for the next, or one unlocked read of np->parent in a table scan.       *)
(*                                                                         *)
(* The scheduler is left out: a process whose state is RUNNABLE may take   *)
(* its next step, so RUNNABLE stands for RUNNABLE and RUNNING.  wait() is  *)
(* the only place where a process sleeps, so SLEEPING implies p->chan = p. *)
(* p->pid is abstracted to 0 and 1 for "not zero": pids are never reused.  *)
(***************************************************************************)
EXTENDS Integers, FiniteSets

CONSTANTS
    NPROC,      \* slots of the process table, 1 .. NPROC
    MaxForks,   \* bound: calls of allocproc() that find a slot
    Victims     \* bound: slots kill() is asked for; init exits if it is one

ASSUME ProcAssumption ==
    NPROC \in Nat \ {0} /\ MaxForks \in Nat /\ Victims \subseteq 2 .. NPROC

Slot == 1 .. NPROC
initproc == 1       \* userinit() takes the first slot
None == 0           \* null pointer, and the holder of a free lock

VARIABLES
    state, parent, pid, killed,     \* struct proc
    lock,       \* which process holds p->lock
    pc,         \* where the process that runs in the slot is
    op,         \* exit(): original_parent
    idx,        \* the slot a table scan has come to
    havekids,   \* wait(): havekids
    forks       \* allocations so far

tbl  == <<state, parent, pid, killed>>
loc  == <<op, idx, havekids>>
vars == <<tbl, lock, pc, loc, forks>>

ExitPCs == {"x_init", "x_parent", "x_lockop", "x_lockme", "x_reparent",
            "x_zombie", "x_switch"}
PCs == {"none", "user", "f_scan", "w_lock", "w_scan", "w_sleep"} \cup ExitPCs

\* userinit() has made the first process.
Init ==
    /\ state    = [s \in Slot |-> IF s = initproc THEN "RUNNABLE" ELSE "UNUSED"]
    /\ parent   = [s \in Slot |-> None]
    /\ pid      = [s \in Slot |-> IF s = initproc THEN 1 ELSE 0]
    /\ killed   = [s \in Slot |-> FALSE]
    /\ lock     = [s \in Slot |-> None]
    /\ pc       = [s \in Slot |-> IF s = initproc THEN "user" ELSE "none"]
    /\ op       = [s \in Slot |-> None]
    /\ idx      = [s \in Slot |-> 1]
    /\ havekids = [s \in Slot |-> FALSE]
    /\ forks    = 0

Goto(p, label) == pc' = [pc EXCEPT ![p] = label]
Free(s) == lock[s] = None
Children(p) == {s \in Slot : parent[s] = p}

\* wakeup1(): the new states of the table when q is woken from wait().
wakeup1(q) ==
    [state EXCEPT ![q] = IF @ = "SLEEPING" THEN "RUNNABLE" ELSE @]

\* A scan moves on to the next slot, or ends: its index is dead until the
\* next scan starts, at the first slot.
NextSlot(p) == idx' = [idx EXCEPT ![p] = @ + 1]
EndScan(p)  == idx' = [idx EXCEPT ![p] = 1]

-----------------------------------------------------------------------------
(***************************************************************************)
(* A process in user space makes a system call.  A killed process exits    *)
(* instead (usertrap()).  The first process behaves as user/init.c: it     *)
(* does not exit, calls wait() only while it has a child, and asks for no  *)
(* exit status, so its copyout() cannot fail.                              *)
(***************************************************************************)
syscall(p) ==
    /\ pc[p] = "user"
    /\ \/ ~killed[p] /\ Goto(p, "f_scan")
       \/ ~killed[p] /\ (p = initproc => Children(p) # {}) /\ Goto(p, "w_lock")
       \/ p # initproc /\ Goto(p, "x_init")
    /\ UNCHANGED <<tbl, lock, loc, forks>>

\* What freeproc(s) leaves in the table.
freeproc(s) ==
    /\ state'  = [state  EXCEPT ![s] = "UNUSED"]
    /\ parent' = [parent EXCEPT ![s] = None]
    /\ pid'    = [pid    EXCEPT ![s] = 0]
    /\ killed' = [killed EXCEPT ![s] = FALSE]

(***************************************************************************)
(* fork() starts with allocproc()'s scan, one slot at a time, which fails  *)
(* at the end of the table.  The slot found stays locked until fork()      *)
(* returns, so the rest is one step.                                       *)
(***************************************************************************)
allocproc(p) ==
    /\ pc[p] = "f_scan"
    /\ \/ /\ idx[p] > NPROC
          /\ Goto(p, "user")
          /\ EndScan(p)
       \/ /\ idx[p] <= NPROC
          /\ Free(idx[p])
          /\ state[idx[p]] # "UNUSED"
          /\ NextSlot(p)
          /\ UNCHANGED pc
    /\ UNCHANGED <<tbl, lock, op, havekids, forks>>

\* kalloc() fails for the trapframe: allocproc() returns 0 and leaves the
\* new pid behind.
allocproc_fail(p) ==
    /\ pid' = [pid EXCEPT ![idx[p]] = 1]
    /\ Goto(p, "user")
    /\ UNCHANGED <<state, parent, killed>>

\* The rest of fork(): a child, or no memory at the trapframe or later.
fork(p) ==
    /\ pc[p] = "f_scan"
    /\ idx[p] <= NPROC
    /\ Free(idx[p])
    /\ state[idx[p]] = "UNUSED"
    /\ forks < MaxForks
    /\ forks' = forks + 1
    /\ \/ /\ pid' = [pid EXCEPT ![idx[p]] = 1]
          /\ parent' = [parent EXCEPT ![idx[p]] = p]
          /\ state' = [state EXCEPT ![idx[p]] = "RUNNABLE"]
          /\ pc' = [pc EXCEPT ![p] = "user", ![idx[p]] = "user"]
          /\ UNCHANGED killed
       \/ allocproc_fail(p)
       \/ freeproc(idx[p]) /\ Goto(p, "user")
    /\ EndScan(p)
    /\ UNCHANGED <<lock, op, havekids>>

-----------------------------------------------------------------------------
(***************************************************************************)
(* exit(), after the files are closed.                                     *)
(***************************************************************************)

\* Wake init, whether that's necessary or not.
exit_wake_init(p) ==
    /\ pc[p] = "x_init"
    /\ Free(initproc)
    /\ state' = wakeup1(initproc)
    /\ Goto(p, "x_parent")
    /\ UNCHANGED <<parent, pid, killed, lock, loc, forks>>

\* Grab a copy of p->parent.
exit_read_parent(p) ==
    /\ pc[p] = "x_parent"
    /\ Free(p)
    /\ op' = [op EXCEPT ![p] = parent[p]]
    /\ Goto(p, "x_lockop")
    /\ UNCHANGED <<tbl, lock, idx, havekids, forks>>

exit_lock_parent(p) ==
    /\ pc[p] = "x_lockop"
    /\ Free(op[p])
    /\ lock' = [lock EXCEPT ![op[p]] = p]
    /\ Goto(p, "x_lockme")
    /\ UNCHANGED <<tbl, loc, forks>>

exit_lock_self(p) ==
    /\ pc[p] = "x_lockme"
    /\ Free(p)
    /\ lock' = [lock EXCEPT ![p] = p]
    /\ Goto(p, "x_reparent")
    /\ UNCHANGED <<tbl, loc, forks>>

\* Mutant: the scan stops before the last slot.
reparent_short(p) ==
    /\ pc[p] = "x_reparent"
    /\ IF idx[p] >= NPROC
       THEN Goto(p, "x_zombie") /\ EndScan(p) /\ UNCHANGED parent
       ELSE /\ parent[idx[p]] = p => Free(idx[p])
            /\ parent' = [parent EXCEPT ![idx[p]] = IF @ = p THEN initproc ELSE @]
            /\ NextSlot(p)
            /\ UNCHANGED pc
    /\ UNCHANGED <<state, pid, killed, lock, op, havekids, forks>>

\* One slot of reparent()'s scan.
reparent(p) ==
    /\ pc[p] = "x_reparent"
    /\ IF idx[p] > NPROC
       THEN Goto(p, "x_zombie") /\ EndScan(p) /\ UNCHANGED parent
       ELSE /\ parent[idx[p]] = p => Free(idx[p])
            /\ parent' = [parent EXCEPT ![idx[p]] = IF @ = p THEN initproc ELSE @]
            /\ NextSlot(p)
            /\ UNCHANGED pc
    /\ UNCHANGED <<state, pid, killed, lock, op, havekids, forks>>

\* Mutant: p->lock is released before the scheduler has left p's stack.
exit_zombie_unlocked(p) ==
    /\ pc[p] = "x_zombie"
    /\ state' = [wakeup1(op[p]) EXCEPT ![p] = "ZOMBIE"]
    /\ lock' = [lock EXCEPT ![op[p]] = None, ![p] = None]
    /\ op' = [op EXCEPT ![p] = None]
    /\ Goto(p, "x_switch")
    /\ UNCHANGED <<parent, pid, killed, idx, havekids, forks>>

\* wakeup1(original_parent), ZOMBIE, and the parent's lock is released.
exit_zombie(p) ==
    /\ pc[p] = "x_zombie"
    /\ state' = [wakeup1(op[p]) EXCEPT ![p] = "ZOMBIE"]
    /\ lock' = [lock EXCEPT ![op[p]] = None]
    /\ op' = [op EXCEPT ![p] = None]
    /\ Goto(p, "x_switch")
    /\ UNCHANGED <<parent, pid, killed, idx, havekids, forks>>

\* sched(): the scheduler, off p's stack, releases p->lock.
exit_switch(p) ==
    /\ pc[p] = "x_switch"
    /\ lock' = [lock EXCEPT ![p] = None]
    /\ Goto(p, "none")
    /\ UNCHANGED <<tbl, loc, forks>>

-----------------------------------------------------------------------------
(***************************************************************************)
(* wait().                                                                 *)
(***************************************************************************)
\* Mutant: wait() scans without its own lock.
wait_lock_none(p) ==
    /\ \/ pc[p] = "w_lock"
       \/ pc[p] = "w_sleep" /\ state[p] = "RUNNABLE"
    /\ Free(p)
    /\ Goto(p, "w_scan")
    /\ UNCHANGED <<tbl, lock, loc, forks>>

wait_lock(p) ==
    /\ \/ pc[p] = "w_lock"
       \/ pc[p] = "w_sleep" /\ state[p] = "RUNNABLE"
    /\ Free(p)
    /\ lock' = [lock EXCEPT ![p] = p]
    /\ Goto(p, "w_scan")
    /\ UNCHANGED <<tbl, loc, forks>>

\* One slot of the scan: reap a zombie and return, or go on.  A failing
\* copyout() returns without reaping.
wait_scan(p) ==
    /\ pc[p] = "w_scan"
    /\ idx[p] <= NPROC
    /\ parent[idx[p]] = p => Free(idx[p])
    /\ IF parent[idx[p]] = p /\ state[idx[p]] = "ZOMBIE"
       THEN /\ freeproc(idx[p]) \/ (p # initproc /\ UNCHANGED tbl)
            /\ lock' = [lock EXCEPT ![p] = None]
            /\ Goto(p, "user")
            /\ EndScan(p)
            /\ havekids' = [havekids EXCEPT ![p] = FALSE]
       ELSE /\ NextSlot(p)
            /\ havekids' = [havekids EXCEPT ![p] = @ \/ parent[idx[p]] = p]
            /\ UNCHANGED <<tbl, lock, pc>>
    /\ UNCHANGED <<op, forks>>

\* The end of the scan: return -1, or sleep(p, &p->lock).
wait_sleep(p) ==
    /\ pc[p] = "w_scan"
    /\ idx[p] > NPROC
    /\ IF ~havekids[p] \/ killed[p]
       THEN Goto(p, "user") /\ UNCHANGED state
       ELSE Goto(p, "w_sleep") /\ state' = [state EXCEPT ![p] = "SLEEPING"]
    /\ lock' = [lock EXCEPT ![p] = None]
    /\ EndScan(p)
    /\ havekids' = [havekids EXCEPT ![p] = FALSE]
    /\ UNCHANGED <<parent, pid, killed, op, forks>>

-----------------------------------------------------------------------------
(***************************************************************************)
(* kill(): the first slot whose pid matches, under its lock.  Any pid may  *)
(* be asked for, 0 too: slots that are UNUSED have pid 0.                  *)
(* The slots passed over are not changed, so the scan is one step.         *)
(***************************************************************************)
kill(s) ==
    /\ \E p \in Slot : pc[p] = "user" /\ ~killed[p]
    /\ Free(s)
    /\ pid[s] = 0 => \A t \in Slot : t < s => pid[t] # 0
    /\ killed' = [killed EXCEPT ![s] = TRUE]
    /\ state' = wakeup1(s)
    /\ UNCHANGED <<parent, pid, lock, pc, loc, forks>>

Exit(p) ==
    \/ exit_wake_init(p)
    \/ exit_read_parent(p)
    \/ exit_lock_parent(p)
    \/ exit_lock_self(p)
    \/ reparent(p)
    \/ exit_zombie(p)
    \/ exit_switch(p)

Wait(p) == wait_lock(p) \/ wait_scan(p) \/ wait_sleep(p)

Next ==
    \/ \E p \in Slot : syscall(p) \/ allocproc(p) \/ fork(p) \/ Exit(p) \/ Wait(p)
    \/ \E s \in Victims : kill(s)

Spec == Init /\ [][Next]_vars

-----------------------------------------------------------------------------
(***************************************************************************)
(* Properties.                                                             *)
(***************************************************************************)

\* Type invariant.
TypeOK ==
    /\ state \in [Slot -> {"UNUSED", "SLEEPING", "RUNNABLE", "ZOMBIE"}]
    /\ parent \in [Slot -> Slot \cup {None}]
    /\ pid \in [Slot -> {0, 1}]
    /\ killed \in [Slot -> BOOLEAN]
    /\ lock \in [Slot -> Slot \cup {None}]
    /\ pc \in [Slot -> PCs]
    /\ op \in [Slot -> Slot \cup {None}]
    /\ idx \in [Slot -> 1 .. NPROC + 1]
    /\ havekids \in [Slot -> BOOLEAN]
    /\ forks \in 0 .. MaxForks

\* A process always has a parent that can still wait for it: reparent() has
\* given away every child before exit() makes the parent a zombie, although
\* it reads pp->parent without pp->lock.
NoOrphan ==
    \A s \in Slot \ {initproc} : state[s] # "UNUSED" =>
        parent[s] \in Slot /\ state[parent[s]] \notin {"UNUSED", "ZOMBIE"}

\* The slot, and the kernel stack that goes with it, of a process that still
\* runs is never free: wait() cannot reap a zombie before the scheduler has
\* left its stack.
NoFreeWhileRunning ==
    \A s \in Slot : pc[s] # "none" => state[s] # "UNUSED"

\* A process other than init does not sleep in wait() with a zombie child:
\* the wakeup of exit() and the scan of wait() exclude each other by the
\* parent's lock.
NoLostWakeup ==
    \A p \in Slot \ {initproc} : state[p] = "SLEEPING" =>
        /\ ~killed[p]
        /\ \A c \in Children(p) : state[c] # "ZOMBIE"

\* "The result will be a harmless spurious wakeup to a dead or wrong process"
\* (exit()): no processes wait for each other's p->lock in a circle.  A slot
\* that was original_parent may meanwhile belong to a descendant of p.
WaitsFor(p) ==
    CASE pc[p] = "x_init"   -> initproc
      [] pc[p] = "x_lockop" -> op[p]
      [] pc[p] \in {"x_parent", "x_lockme", "w_lock"} -> p
      [] pc[p] \in {"x_reparent", "w_scan"} /\ idx[p] <= NPROC ->
            IF parent[idx[p]] = p THEN idx[p] ELSE None
      [] pc[p] = "f_scan" /\ idx[p] <= NPROC -> idx[p]
      [] OTHER -> None
NoLockCycle ==
    ~ \E S \in SUBSET Slot \ {{}} :
        \A p \in S : WaitsFor(p) # None /\ lock[WaitsFor(p)] \in S
=============================================================================
