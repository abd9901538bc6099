----------------------------- MODULE ProcProofs -----------------------------
(***************************************************************************)
(* Proofs about module Proc, for a process table of any size.              *)
(***************************************************************************)
EXTENDS Proc, TLAPS

-----------------------------------------------------------------------------
(***************************************************************************)
(* The inductive invariant.                                                *)
(***************************************************************************)
OpPCs   == {"x_lockop", "x_lockme", "x_reparent", "x_zombie"}
HoldsOp == {"x_lockme", "x_reparent", "x_zombie"}
HoldsMe == {"x_reparent", "x_zombie", "x_switch", "w_scan"}

\* A lock is held by the process that has taken it: exit() has its parent's
\* and its own, wait() its own.
LockInv ==
    \A s, q \in Slot : lock[s] = q <=>
        \/ pc[q] \in HoldsOp /\ op[q] = s
        \/ pc[q] \in HoldsMe /\ q = s

\* A process that runs is RUNNABLE but at the end of exit() and of sleep().
StateInv ==
    \A s \in Slot :
        /\ pc[s] = "none" => state[s] \in {"UNUSED", "ZOMBIE"}
        /\ pc[s] = "x_switch" => state[s] = "ZOMBIE"
        /\ pc[s] = "w_sleep" => state[s] \in {"RUNNABLE", "SLEEPING"}
        /\ pc[s] \notin {"none", "x_switch", "w_sleep"} => state[s] = "RUNNABLE"

\* init has no parent, does not exit and is not killed.
InitprocInv ==
    /\ initproc \in Slot
    /\ parent[initproc] = None
    /\ pc[initproc] \notin ExitPCs \cup {"none"}
    /\ ~killed[initproc]

\* A slot in use has a parent, another process that is there; the parent that
\* exit() has noted is still the parent, unless that has gone and init is now.
ParentInv ==
    \A s \in Slot :
        /\ parent[s] # s
        /\ state[s] = "UNUSED" <=> parent[s] = None /\ s # initproc
        /\ parent[s] # None => state[parent[s]] \notin {"UNUSED", "ZOMBIE"}
        /\ pc[s] \in OpPCs => op[s] \in Slot \ {s} /\ parent[s] \in {op[s], initproc}

\* An index that is not in use is at the first slot.
ScanInv == \A p \in Slot : pc[p] \notin {"f_scan", "x_reparent", "w_scan"} => idx[p] = 1

\* reparent() leaves no child behind it.
ReparentInv ==
    \A p, s \in Slot :
        \/ pc[p] = "x_reparent" /\ s < idx[p]
        \/ pc[p] = "x_zombie"
        => parent[s] # p

\* What wait() has passed over in its scan is no zombie child, and was none
\* when it fell asleep; nor was it killed.
WaitInv ==
    \A p \in Slot \ {initproc} :
        /\ state[p] = "SLEEPING" => ~killed[p]
        /\ \A s \in Slot :
              \/ pc[p] = "w_scan" /\ s < idx[p]
              \/ state[p] = "SLEEPING"
              => ~(parent[s] = p /\ state[s] = "ZOMBIE")

IInv ==
    /\ TypeOK /\ LockInv /\ StateInv /\ InitprocInv
    /\ ParentInv /\ ScanInv /\ ReparentInv /\ WaitInv

-----------------------------------------------------------------------------
\* The slots, for proofs that do not look into them.
LEMMA Constants ==
    /\ None \notin Slot /\ initproc \in Slot /\ Victims \subseteq Slot \ {initproc}
    /\ \A i \in 1 .. NPROC + 1 : i <= NPROC => i \in Slot /\ i + 1 \in 1 .. NPROC + 1
    /\ 1 \in 1 .. NPROC + 1
  BY ProcAssumption DEF None, initproc, Slot

\* What is behind the index of a scan, and when it is everything.
LEMMA Behind ==
    /\ \A s \in Slot : ~(s < 1)
    /\ \A s \in Slot, i \in 1 .. NPROC + 1 : s < i + 1 => s < i \/ s = i
    /\ \A s \in Slot, i \in 1 .. NPROC + 1 : i > NPROC => s < i
    /\ \A i \in 1 .. NPROC + 1 : i <= NPROC \/ i > NPROC
  BY ProcAssumption DEF Slot

(***************************************************************************)
(* One lemma for each conjunct, one step for each action.                  *)
(***************************************************************************)

\* Every step keeps the types.
LEMMA TypeStep ==
    ASSUME TypeOK, [Next]_vars
    PROVE  TypeOK'
<1>0. /\ TypeOK
      /\ None \notin Slot /\ initproc \in Slot /\ Victims \subseteq Slot
      /\ \A i \in 1 .. NPROC + 1 : i <= NPROC => i \in Slot /\ i + 1 \in 1 .. NPROC + 1
      /\ 1 \in 1 .. NPROC + 1
  BY Constants
<1>1. ASSUME NEW p \in Slot, syscall(p) PROVE TypeOK'
  BY <1>0, <1>1 DEF syscall, Goto, tbl, loc, TypeOK, PCs, ExitPCs
<1>2. ASSUME NEW p \in Slot, allocproc(p) PROVE TypeOK'
  BY <1>0, <1>2 DEF allocproc, Goto, NextSlot, EndScan, Free, tbl, loc, TypeOK, PCs, ExitPCs
<1>3. ASSUME NEW p \in Slot, fork(p) PROVE TypeOK'
  <2>1. idx[p] \in Slot /\ p \in Slot \cup {None}
    BY <1>0, <1>3 DEF fork, TypeOK
  <2>2. /\ state' \in [Slot -> {"UNUSED", "SLEEPING", "RUNNABLE", "ZOMBIE"}]
        /\ parent' \in [Slot -> Slot \cup {None}]
        /\ pid' \in [Slot -> {0, 1}] /\ killed' \in [Slot -> BOOLEAN]
    <3>1. CASE allocproc_fail(p)
      BY <3>1 DEF allocproc_fail, TypeOK
    <3>2. CASE freeproc(idx[p])
      BY <3>2 DEF freeproc, TypeOK
    <3>3. CASE /\ pid' = [pid EXCEPT ![idx[p]] = 1]
               /\ parent' = [parent EXCEPT ![idx[p]] = p]
               /\ state' = [state EXCEPT ![idx[p]] = "RUNNABLE"]
               /\ UNCHANGED killed
      BY <2>1, <3>3 DEF TypeOK
    <3>. QED
      BY <1>3, <3>1, <3>2, <3>3 DEF fork
  <2>3. pc' \in [Slot -> PCs]
    <3>1. pc \in [Slot -> PCs] /\ "user" \in PCs
      BY DEF TypeOK, PCs
    <3>2. \/ pc' = [pc EXCEPT ![p] = "user"]
          \/ pc' = [pc EXCEPT ![p] = "user", ![idx[p]] = "user"]
      BY <1>3 DEF fork, allocproc_fail, Goto
    <3>. QED
      BY <2>1, <3>1, <3>2
  <2>4. idx' \in [Slot -> 1 .. NPROC + 1] /\ forks' \in 0 .. MaxForks
    BY <1>0, <1>3, ProcAssumption DEF fork, EndScan, TypeOK
  <2>. QED
    BY <2>2, <2>3, <2>4, <1>3 DEF fork, TypeOK
<1>4. ASSUME NEW p \in Slot, exit_wake_init(p) PROVE TypeOK'
  BY <1>0, <1>4 DEF exit_wake_init, wakeup1, Goto, Free, tbl, loc, TypeOK, PCs, ExitPCs
<1>5. ASSUME NEW p \in Slot, exit_read_parent(p) PROVE TypeOK'
  BY <1>0, <1>5 DEF exit_read_parent, Goto, Free, tbl, loc, TypeOK, PCs, ExitPCs
<1>6. ASSUME NEW p \in Slot, exit_lock_parent(p) PROVE TypeOK'
  BY <1>0, <1>6 DEF exit_lock_parent, Goto, Free, tbl, loc, TypeOK, PCs, ExitPCs
<1>7. ASSUME NEW p \in Slot, exit_lock_self(p) PROVE TypeOK'
  BY <1>0, <1>7 DEF exit_lock_self, Goto, Free, tbl, loc, TypeOK, PCs, ExitPCs
<1>8. ASSUME NEW p \in Slot, reparent(p) PROVE TypeOK'
  <2>1. idx[p] <= NPROC \/ idx[p] > NPROC
    BY Behind DEF TypeOK
  <2>2. parent' \in [Slot -> Slot \cup {None}]
    BY <1>0, <1>8 DEF reparent, TypeOK
  <2>3. pc' \in [Slot -> PCs] /\ idx' \in [Slot -> 1 .. NPROC + 1]
    BY <1>0, <2>1, <1>8 DEF reparent, Goto, EndScan, NextSlot, TypeOK, PCs, ExitPCs
  <2>. QED
    BY <2>2, <2>3, <1>8 DEF reparent, TypeOK
<1>9. ASSUME NEW p \in Slot, exit_zombie(p) PROVE TypeOK'
  BY <1>0, <1>9 DEF exit_zombie, wakeup1, Goto, tbl, loc, TypeOK, PCs, ExitPCs
<1>10. ASSUME NEW p \in Slot, exit_switch(p) PROVE TypeOK'
  BY <1>0, <1>10 DEF exit_switch, Goto, tbl, loc, TypeOK, PCs, ExitPCs
<1>11. ASSUME NEW p \in Slot, wait_lock(p) PROVE TypeOK'
  BY <1>0, <1>11 DEF wait_lock, Goto, Free, tbl, loc, TypeOK, PCs, ExitPCs
<1>12. ASSUME NEW p \in Slot, wait_scan(p) PROVE TypeOK'
  <2>1. idx[p] \in Slot /\ idx[p] + 1 \in 1 .. NPROC + 1
    BY <1>0, <1>12 DEF wait_scan, TypeOK
  <2>2. /\ state' \in [Slot -> {"UNUSED", "SLEEPING", "RUNNABLE", "ZOMBIE"}]
        /\ parent' \in [Slot -> Slot \cup {None}]
        /\ pid' \in [Slot -> {0, 1}] /\ killed' \in [Slot -> BOOLEAN]
    <3>1. freeproc(idx[p]) \/ UNCHANGED tbl
      BY <1>12 DEF wait_scan
    <3>. QED
      BY <3>1 DEF freeproc, tbl, TypeOK
  <2>3. pc' \in [Slot -> PCs] /\ lock' \in [Slot -> Slot \cup {None}]
    BY <1>12 DEF wait_scan, Goto, TypeOK, PCs
  <2>4. idx' \in [Slot -> 1 .. NPROC + 1]
    BY <1>0, <2>1, <1>12 DEF wait_scan, EndScan, NextSlot, TypeOK
  <2>5. havekids' \in [Slot -> BOOLEAN]
    <3>1. \E b \in BOOLEAN : havekids' = [havekids EXCEPT ![p] = b]
      BY <1>12 DEF wait_scan, TypeOK
    <3>. QED
      BY <3>1 DEF TypeOK
  <2>. QED
    BY <2>2, <2>3, <2>4, <2>5, <1>12 DEF wait_scan, TypeOK
<1>13. ASSUME NEW p \in Slot, wait_sleep(p) PROVE TypeOK'
  BY <1>0, <1>13 DEF wait_sleep, Goto, EndScan, tbl, loc, TypeOK, PCs, ExitPCs
<1>14. ASSUME NEW s \in Victims, kill(s) PROVE TypeOK'
  BY <1>0, <1>14 DEF kill, wakeup1, Free, tbl, loc, TypeOK, PCs, ExitPCs
<1>15. CASE UNCHANGED vars
  BY <1>15 DEF vars, tbl, loc, TypeOK
<1>. QED
  BY <1>1, <1>2, <1>3, <1>4, <1>5, <1>6, <1>7, <1>8, <1>9, <1>10, <1>11, <1>12, <1>13,
     <1>14, <1>15 DEF Next, Exit, Wait

\* Locks are taken when they are free and given up by their holder.
LEMMA LockStep ==
    ASSUME TypeOK, LockInv, StateInv, ParentInv, [Next]_vars
    PROVE  LockInv'
<1>0. /\ state \in [Slot -> {"UNUSED", "SLEEPING", "RUNNABLE", "ZOMBIE"}]
      /\ parent \in [Slot -> Slot \cup {None}] /\ killed \in [Slot -> BOOLEAN]
      /\ lock \in [Slot -> Slot \cup {None}] /\ op \in [Slot -> Slot \cup {None}]
      /\ pc \in [Slot -> PCs] /\ idx \in [Slot -> 1 .. NPROC + 1]
      /\ None \notin Slot /\ initproc \in Slot /\ Victims \subseteq Slot \ {initproc}
      /\ \A i \in 1 .. NPROC + 1 : i <= NPROC => i \in Slot
  BY Constants DEF TypeOK
<1>1. ASSUME NEW p \in Slot, syscall(p) PROVE LockInv'
  BY <1>0, <1>1 DEF syscall, Goto, tbl, loc, LockInv, HoldsOp, HoldsMe, OpPCs, PCs,
     ExitPCs, StateInv, ParentInv
<1>2. ASSUME NEW p \in Slot, allocproc(p) PROVE LockInv'
  BY <1>0, <1>2 DEF allocproc, Goto, NextSlot, EndScan, Free, tbl, loc, LockInv, HoldsOp,
     HoldsMe, OpPCs, PCs, ExitPCs, StateInv, ParentInv
<1>3. ASSUME NEW p \in Slot, fork(p) PROVE LockInv'
  BY <1>0, <1>3 DEF fork, allocproc_fail, freeproc, Goto, EndScan, Free, tbl, loc,
     LockInv, HoldsOp, HoldsMe, OpPCs, PCs, ExitPCs, StateInv, ParentInv
<1>4. ASSUME NEW p \in Slot, exit_wake_init(p) PROVE LockInv'
  BY <1>0, <1>4 DEF exit_wake_init, wakeup1, Goto, Free, tbl, loc, LockInv, HoldsOp,
     HoldsMe, OpPCs, PCs, ExitPCs, StateInv, ParentInv
<1>5. ASSUME NEW p \in Slot, exit_read_parent(p) PROVE LockInv'
  BY <1>0, <1>5 DEF exit_read_parent, Goto, Free, tbl, loc, LockInv, HoldsOp, HoldsMe,
     OpPCs, PCs, ExitPCs, StateInv, ParentInv
<1>6. ASSUME NEW p \in Slot, exit_lock_parent(p) PROVE LockInv'
  BY <1>0, <1>6 DEF exit_lock_parent, Goto, Free, tbl, loc, LockInv, HoldsOp, HoldsMe,
     OpPCs, PCs, ExitPCs, StateInv, ParentInv
<1>7. ASSUME NEW p \in Slot, exit_lock_self(p) PROVE LockInv'
  BY <1>0, <1>7 DEF exit_lock_self, Goto, Free, tbl, loc, LockInv, HoldsOp, HoldsMe,
     OpPCs, PCs, ExitPCs, StateInv, ParentInv
<1>8. ASSUME NEW p \in Slot, reparent(p) PROVE LockInv'
  BY <1>0, <1>8 DEF reparent, Goto, NextSlot, EndScan, Free, tbl, loc, LockInv, HoldsOp,
     HoldsMe, OpPCs, PCs, ExitPCs, StateInv, ParentInv
<1>9. ASSUME NEW p \in Slot, exit_zombie(p) PROVE LockInv'
  BY <1>0, <1>9 DEF exit_zombie, wakeup1, Goto, tbl, loc, LockInv, HoldsOp, HoldsMe,
     OpPCs, PCs, ExitPCs, StateInv, ParentInv
<1>10. ASSUME NEW p \in Slot, exit_switch(p) PROVE LockInv'
  BY <1>0, <1>10 DEF exit_switch, Goto, tbl, loc, LockInv, HoldsOp, HoldsMe, OpPCs, PCs,
     ExitPCs, StateInv, ParentInv
<1>11. ASSUME NEW p \in Slot, wait_lock(p) PROVE LockInv'
  BY <1>0, <1>11 DEF wait_lock, Goto, Free, tbl, loc, LockInv, HoldsOp, HoldsMe, OpPCs,
     PCs, ExitPCs, StateInv, ParentInv
<1>12. ASSUME NEW p \in Slot, wait_scan(p) PROVE LockInv'
  BY <1>0, <1>12 DEF wait_scan, freeproc, Goto, NextSlot, EndScan, Free, tbl, loc,
     LockInv, HoldsOp, HoldsMe, OpPCs, PCs, ExitPCs, StateInv, ParentInv
<1>13. ASSUME NEW p \in Slot, wait_sleep(p) PROVE LockInv'
  BY <1>0, <1>13 DEF wait_sleep, Goto, EndScan, tbl, loc, LockInv, HoldsOp, HoldsMe,
     OpPCs, PCs, ExitPCs, StateInv, ParentInv
<1>14. ASSUME NEW s \in Victims, kill(s) PROVE LockInv'
  BY <1>0, <1>14 DEF kill, wakeup1, Free, tbl, loc, LockInv, HoldsOp, HoldsMe, OpPCs,
     PCs, ExitPCs, StateInv, ParentInv
<1>15. CASE UNCHANGED vars
  BY <1>15 DEF vars, tbl, loc, LockInv
<1>. QED
  BY <1>1, <1>2, <1>3, <1>4, <1>5, <1>6, <1>7, <1>8, <1>9, <1>10, <1>11, <1>12, <1>13,
     <1>14, <1>15 DEF Next, Exit, Wait

\* The state follows the control.
LEMMA StateStep ==
    ASSUME TypeOK, LockInv, StateInv, InitprocInv, [Next]_vars
    PROVE  StateInv'
<1>0. /\ state \in [Slot -> {"UNUSED", "SLEEPING", "RUNNABLE", "ZOMBIE"}]
      /\ parent \in [Slot -> Slot \cup {None}] /\ killed \in [Slot -> BOOLEAN]
      /\ lock \in [Slot -> Slot \cup {None}] /\ op \in [Slot -> Slot \cup {None}]
      /\ pc \in [Slot -> PCs] /\ idx \in [Slot -> 1 .. NPROC + 1]
      /\ None \notin Slot /\ initproc \in Slot /\ Victims \subseteq Slot \ {initproc}
      /\ \A i \in 1 .. NPROC + 1 : i <= NPROC => i \in Slot
  BY Constants DEF TypeOK
<1>1. ASSUME NEW p \in Slot, syscall(p) PROVE StateInv'
  BY <1>0, <1>1 DEF syscall, Goto, tbl, loc, StateInv, LockInv, HoldsOp, HoldsMe, PCs,
     ExitPCs, InitprocInv
<1>2. ASSUME NEW p \in Slot, allocproc(p) PROVE StateInv'
  BY <1>0, <1>2 DEF allocproc, Goto, NextSlot, EndScan, Free, tbl, loc, StateInv,
     LockInv, HoldsOp, HoldsMe, PCs, ExitPCs, InitprocInv
<1>3. ASSUME NEW p \in Slot, fork(p) PROVE StateInv'
  BY <1>0, <1>3 DEF fork, allocproc_fail, freeproc, Goto, EndScan, Free, tbl, loc,
     StateInv, LockInv, HoldsOp, HoldsMe, PCs, ExitPCs, InitprocInv
<1>4. ASSUME NEW p \in Slot, exit_wake_init(p) PROVE StateInv'
  BY <1>0, <1>4 DEF exit_wake_init, wakeup1, Goto, Free, tbl, loc, StateInv, LockInv,
     HoldsOp, HoldsMe, PCs, ExitPCs, InitprocInv
<1>5. ASSUME NEW p \in Slot, exit_read_parent(p) PROVE StateInv'
  BY <1>0, <1>5 DEF exit_read_parent, Goto, Free, tbl, loc, StateInv, LockInv, HoldsOp,
     HoldsMe, PCs, ExitPCs, InitprocInv
<1>6. ASSUME NEW p \in Slot, exit_lock_parent(p) PROVE StateInv'
  BY <1>0, <1>6 DEF exit_lock_parent, Goto, Free, tbl, loc, StateInv, LockInv, HoldsOp,
     HoldsMe, PCs, ExitPCs, InitprocInv
<1>7. ASSUME NEW p \in Slot, exit_lock_self(p) PROVE StateInv'
  BY <1>0, <1>7 DEF exit_lock_self, Goto, Free, tbl, loc, StateInv, LockInv, HoldsOp,
     HoldsMe, PCs, ExitPCs, InitprocInv
<1>8. ASSUME NEW p \in Slot, reparent(p) PROVE StateInv'
  BY <1>0, <1>8 DEF reparent, Goto, NextSlot, EndScan, Free, tbl, loc, StateInv, LockInv,
     HoldsOp, HoldsMe, PCs, ExitPCs, InitprocInv
<1>9. ASSUME NEW p \in Slot, exit_zombie(p) PROVE StateInv'
  BY <1>0, <1>9 DEF exit_zombie, wakeup1, Goto, tbl, loc, StateInv, LockInv, HoldsOp,
     HoldsMe, PCs, ExitPCs, InitprocInv
<1>10. ASSUME NEW p \in Slot, exit_switch(p) PROVE StateInv'
  BY <1>0, <1>10 DEF exit_switch, Goto, tbl, loc, StateInv, LockInv, HoldsOp, HoldsMe,
     PCs, ExitPCs, InitprocInv
<1>11. ASSUME NEW p \in Slot, wait_lock(p) PROVE StateInv'
  BY <1>0, <1>11 DEF wait_lock, Goto, Free, tbl, loc, StateInv, LockInv, HoldsOp,
     HoldsMe, PCs, ExitPCs, InitprocInv
<1>12. ASSUME NEW p \in Slot, wait_scan(p) PROVE StateInv'
  BY <1>0, <1>12 DEF wait_scan, freeproc, Goto, NextSlot, EndScan, Free, tbl, loc,
     StateInv, LockInv, HoldsOp, HoldsMe, PCs, ExitPCs, InitprocInv
<1>13. ASSUME NEW p \in Slot, wait_sleep(p) PROVE StateInv'
  BY <1>0, <1>13 DEF wait_sleep, Goto, EndScan, tbl, loc, StateInv, LockInv, HoldsOp,
     HoldsMe, PCs, ExitPCs, InitprocInv
<1>14. ASSUME NEW s \in Victims, kill(s) PROVE StateInv'
  BY <1>0, <1>14 DEF kill, wakeup1, Free, tbl, loc, StateInv, LockInv, HoldsOp, HoldsMe,
     PCs, ExitPCs, InitprocInv
<1>15. CASE UNCHANGED vars
  BY <1>15 DEF vars, tbl, loc, StateInv
<1>. QED
  BY <1>1, <1>2, <1>3, <1>4, <1>5, <1>6, <1>7, <1>8, <1>9, <1>10, <1>11, <1>12, <1>13,
     <1>14, <1>15 DEF Next, Exit, Wait

\* init stays.
LEMMA InitprocStep ==
    ASSUME TypeOK, InitprocInv, StateInv, LockInv, [Next]_vars
    PROVE  InitprocInv'
<1>0. /\ state \in [Slot -> {"UNUSED", "SLEEPING", "RUNNABLE", "ZOMBIE"}]
      /\ parent \in [Slot -> Slot \cup {None}] /\ killed \in [Slot -> BOOLEAN]
      /\ lock \in [Slot -> Slot \cup {None}] /\ op \in [Slot -> Slot \cup {None}]
      /\ pc \in [Slot -> PCs] /\ idx \in [Slot -> 1 .. NPROC + 1]
      /\ None \notin Slot /\ initproc \in Slot /\ Victims \subseteq Slot \ {initproc}
      /\ \A i \in 1 .. NPROC + 1 : i <= NPROC => i \in Slot
  BY Constants DEF TypeOK
<1>1. ASSUME NEW p \in Slot, syscall(p) PROVE InitprocInv'
  BY <1>0, <1>1 DEF syscall, Goto, tbl, loc, InitprocInv, StateInv, LockInv, HoldsMe,
     PCs, ExitPCs
<1>2. ASSUME NEW p \in Slot, allocproc(p) PROVE InitprocInv'
  BY <1>0, <1>2 DEF allocproc, Goto, NextSlot, EndScan, Free, tbl, loc, InitprocInv,
     StateInv, LockInv, HoldsMe, PCs, ExitPCs
<1>3. ASSUME NEW p \in Slot, fork(p) PROVE InitprocInv'
  BY <1>0, <1>3 DEF fork, allocproc_fail, freeproc, Goto, EndScan, Free, tbl, loc,
     InitprocInv, StateInv, LockInv, HoldsMe, PCs, ExitPCs
<1>4. ASSUME NEW p \in Slot, exit_wake_init(p) PROVE InitprocInv'
  BY <1>0, <1>4 DEF exit_wake_init, wakeup1, Goto, Free, tbl, loc, InitprocInv, StateInv,
     LockInv, HoldsMe, PCs, ExitPCs
<1>5. ASSUME NEW p \in Slot, exit_read_parent(p) PROVE InitprocInv'
  BY <1>0, <1>5 DEF exit_read_parent, Goto, Free, tbl, loc, InitprocInv, StateInv,
     LockInv, HoldsMe, PCs, ExitPCs
<1>6. ASSUME NEW p \in Slot, exit_lock_parent(p) PROVE InitprocInv'
  BY <1>0, <1>6 DEF exit_lock_parent, Goto, Free, tbl, loc, InitprocInv, StateInv,
     LockInv, HoldsMe, PCs, ExitPCs
<1>7. ASSUME NEW p \in Slot, exit_lock_self(p) PROVE InitprocInv'
  BY <1>0, <1>7 DEF exit_lock_self, Goto, Free, tbl, loc, InitprocInv, StateInv, LockInv,
     HoldsMe, PCs, ExitPCs
<1>8. ASSUME NEW p \in Slot, reparent(p) PROVE InitprocInv'
  BY <1>0, <1>8 DEF reparent, Goto, NextSlot, EndScan, Free, tbl, loc, InitprocInv,
     StateInv, LockInv, HoldsMe, PCs, ExitPCs
<1>9. ASSUME NEW p \in Slot, exit_zombie(p) PROVE InitprocInv'
  BY <1>0, <1>9 DEF exit_zombie, wakeup1, Goto, tbl, loc, InitprocInv, StateInv, LockInv,
     HoldsMe, PCs, ExitPCs
<1>10. ASSUME NEW p \in Slot, exit_switch(p) PROVE InitprocInv'
  BY <1>0, <1>10 DEF exit_switch, Goto, tbl, loc, InitprocInv, StateInv, LockInv,
     HoldsMe, PCs, ExitPCs
<1>11. ASSUME NEW p \in Slot, wait_lock(p) PROVE InitprocInv'
  BY <1>0, <1>11 DEF wait_lock, Goto, Free, tbl, loc, InitprocInv, StateInv, LockInv,
     HoldsMe, PCs, ExitPCs
<1>12. ASSUME NEW p \in Slot, wait_scan(p) PROVE InitprocInv'
  BY <1>0, <1>12 DEF wait_scan, freeproc, Goto, NextSlot, EndScan, Free, tbl, loc,
     InitprocInv, StateInv, LockInv, HoldsMe, PCs, ExitPCs
<1>13. ASSUME NEW p \in Slot, wait_sleep(p) PROVE InitprocInv'
  BY <1>0, <1>13 DEF wait_sleep, Goto, EndScan, tbl, loc, InitprocInv, StateInv, LockInv,
     HoldsMe, PCs, ExitPCs
<1>14. ASSUME NEW s \in Victims, kill(s) PROVE InitprocInv'
  BY <1>0, <1>14 DEF kill, wakeup1, Free, tbl, loc, InitprocInv, StateInv, LockInv,
     HoldsMe, PCs, ExitPCs
<1>15. CASE UNCHANGED vars
  BY <1>15 DEF vars, tbl, loc, InitprocInv
<1>. QED
  BY <1>1, <1>2, <1>3, <1>4, <1>5, <1>6, <1>7, <1>8, <1>9, <1>10, <1>11, <1>12, <1>13,
     <1>14, <1>15 DEF Next, Exit, Wait

\* exit() leaves no orphan.
LEMMA ParentStep ==
    ASSUME TypeOK, StateInv, InitprocInv, ParentInv, ReparentInv, [Next]_vars
    PROVE  ParentInv'
<1>0. /\ state \in [Slot -> {"UNUSED", "SLEEPING", "RUNNABLE", "ZOMBIE"}]
      /\ parent \in [Slot -> Slot \cup {None}] /\ killed \in [Slot -> BOOLEAN]
      /\ lock \in [Slot -> Slot \cup {None}] /\ op \in [Slot -> Slot \cup {None}]
      /\ pc \in [Slot -> PCs] /\ idx \in [Slot -> 1 .. NPROC + 1]
      /\ None \notin Slot /\ initproc \in Slot /\ Victims \subseteq Slot \ {initproc}
      /\ \A i \in 1 .. NPROC + 1 : i <= NPROC => i \in Slot
  BY Constants DEF TypeOK
<1>1. ASSUME NEW p \in Slot, syscall(p) PROVE ParentInv'
  BY <1>0, <1>1 DEF syscall, Goto, tbl, loc, ParentInv, ReparentInv, OpPCs, StateInv,
     InitprocInv, PCs, ExitPCs
<1>2. ASSUME NEW p \in Slot, allocproc(p) PROVE ParentInv'
  BY <1>0, <1>2 DEF allocproc, Goto, NextSlot, EndScan, Free, tbl, loc, ParentInv,
     ReparentInv, OpPCs, StateInv, InitprocInv, PCs, ExitPCs
<1>3. ASSUME NEW p \in Slot, fork(p) PROVE ParentInv'
  BY <1>0, <1>3 DEF fork, allocproc_fail, freeproc, Goto, EndScan, Free, tbl, loc,
     ParentInv, ReparentInv, OpPCs, StateInv, InitprocInv, PCs, ExitPCs
<1>4. ASSUME NEW p \in Slot, exit_wake_init(p) PROVE ParentInv'
  BY <1>0, <1>4 DEF exit_wake_init, wakeup1, Goto, Free, tbl, loc, ParentInv,
     ReparentInv, OpPCs, StateInv, InitprocInv, PCs, ExitPCs
<1>5. ASSUME NEW p \in Slot, exit_read_parent(p) PROVE ParentInv'
  BY <1>0, <1>5 DEF exit_read_parent, Goto, Free, tbl, loc, ParentInv, ReparentInv,
     OpPCs, StateInv, InitprocInv, PCs, ExitPCs
<1>6. ASSUME NEW p \in Slot, exit_lock_parent(p) PROVE ParentInv'
  BY <1>0, <1>6 DEF exit_lock_parent, Goto, Free, tbl, loc, ParentInv, ReparentInv,
     OpPCs, StateInv, InitprocInv, PCs, ExitPCs
<1>7. ASSUME NEW p \in Slot, exit_lock_self(p) PROVE ParentInv'
  BY <1>0, <1>7 DEF exit_lock_self, Goto, Free, tbl, loc, ParentInv, ReparentInv, OpPCs,
     StateInv, InitprocInv, PCs, ExitPCs
<1>8. ASSUME NEW p \in Slot, reparent(p) PROVE ParentInv'
  BY <1>0, <1>8 DEF reparent, Goto, NextSlot, EndScan, Free, tbl, loc, ParentInv,
     ReparentInv, OpPCs, StateInv, InitprocInv, PCs, ExitPCs
<1>9. ASSUME NEW p \in Slot, exit_zombie(p) PROVE ParentInv'
  BY <1>0, <1>9 DEF exit_zombie, wakeup1, Goto, tbl, loc, ParentInv, ReparentInv, OpPCs,
     StateInv, InitprocInv, PCs, ExitPCs
<1>10. ASSUME NEW p \in Slot, exit_switch(p) PROVE ParentInv'
  BY <1>0, <1>10 DEF exit_switch, Goto, tbl, loc, ParentInv, ReparentInv, OpPCs,
     StateInv, InitprocInv, PCs, ExitPCs
<1>11. ASSUME NEW p \in Slot, wait_lock(p) PROVE ParentInv'
  BY <1>0, <1>11 DEF wait_lock, Goto, Free, tbl, loc, ParentInv, ReparentInv, OpPCs,
     StateInv, InitprocInv, PCs, ExitPCs
<1>12. ASSUME NEW p \in Slot, wait_scan(p) PROVE ParentInv'
  BY <1>0, <1>12 DEF wait_scan, freeproc, Goto, NextSlot, EndScan, Free, tbl, loc,
     ParentInv, ReparentInv, OpPCs, StateInv, InitprocInv, PCs, ExitPCs
<1>13. ASSUME NEW p \in Slot, wait_sleep(p) PROVE ParentInv'
  BY <1>0, <1>13 DEF wait_sleep, Goto, EndScan, tbl, loc, ParentInv, ReparentInv, OpPCs,
     StateInv, InitprocInv, PCs, ExitPCs
<1>14. ASSUME NEW s \in Victims, kill(s) PROVE ParentInv'
  BY <1>0, <1>14 DEF kill, wakeup1, Free, tbl, loc, ParentInv, ReparentInv, OpPCs,
     StateInv, InitprocInv, PCs, ExitPCs
<1>15. CASE UNCHANGED vars
  BY <1>15 DEF vars, tbl, loc, ParentInv
<1>. QED
  BY <1>1, <1>2, <1>3, <1>4, <1>5, <1>6, <1>7, <1>8, <1>9, <1>10, <1>11, <1>12, <1>13,
     <1>14, <1>15 DEF Next, Exit, Wait

\* A scan that has ended starts again at the first slot.
LEMMA ScanStep ==
    ASSUME TypeOK, StateInv, ScanInv, [Next]_vars
    PROVE  ScanInv'
<1>0. /\ state \in [Slot -> {"UNUSED", "SLEEPING", "RUNNABLE", "ZOMBIE"}]
      /\ parent \in [Slot -> Slot \cup {None}] /\ killed \in [Slot -> BOOLEAN]
      /\ lock \in [Slot -> Slot \cup {None}] /\ op \in [Slot -> Slot \cup {None}]
      /\ pc \in [Slot -> PCs] /\ idx \in [Slot -> 1 .. NPROC + 1]
      /\ None \notin Slot /\ initproc \in Slot /\ Victims \subseteq Slot \ {initproc}
      /\ \A i \in 1 .. NPROC + 1 : i <= NPROC => i \in Slot
  BY Constants DEF TypeOK
<1>1. ASSUME NEW p \in Slot, syscall(p) PROVE ScanInv'
  BY <1>0, <1>1 DEF syscall, Goto, tbl, loc, ScanInv, StateInv, PCs, ExitPCs
<1>2. ASSUME NEW p \in Slot, allocproc(p) PROVE ScanInv'
  BY <1>0, <1>2 DEF allocproc, Goto, NextSlot, EndScan, Free, tbl, loc, ScanInv,
     StateInv, PCs, ExitPCs
<1>3. ASSUME NEW p \in Slot, fork(p) PROVE ScanInv'
  BY <1>0, <1>3 DEF fork, allocproc_fail, freeproc, Goto, EndScan, Free, tbl, loc,
     ScanInv, StateInv, PCs, ExitPCs
<1>4. ASSUME NEW p \in Slot, exit_wake_init(p) PROVE ScanInv'
  BY <1>0, <1>4 DEF exit_wake_init, wakeup1, Goto, Free, tbl, loc, ScanInv, StateInv,
     PCs, ExitPCs
<1>5. ASSUME NEW p \in Slot, exit_read_parent(p) PROVE ScanInv'
  BY <1>0, <1>5 DEF exit_read_parent, Goto, Free, tbl, loc, ScanInv, StateInv, PCs, ExitPCs
<1>6. ASSUME NEW p \in Slot, exit_lock_parent(p) PROVE ScanInv'
  BY <1>0, <1>6 DEF exit_lock_parent, Goto, Free, tbl, loc, ScanInv, StateInv, PCs, ExitPCs
<1>7. ASSUME NEW p \in Slot, exit_lock_self(p) PROVE ScanInv'
  BY <1>0, <1>7 DEF exit_lock_self, Goto, Free, tbl, loc, ScanInv, StateInv, PCs, ExitPCs
<1>8. ASSUME NEW p \in Slot, reparent(p) PROVE ScanInv'
  BY <1>0, <1>8 DEF reparent, Goto, NextSlot, EndScan, Free, tbl, loc, ScanInv, StateInv,
     PCs, ExitPCs
<1>9. ASSUME NEW p \in Slot, exit_zombie(p) PROVE ScanInv'
  BY <1>0, <1>9 DEF exit_zombie, wakeup1, Goto, tbl, loc, ScanInv, StateInv, PCs, ExitPCs
<1>10. ASSUME NEW p \in Slot, exit_switch(p) PROVE ScanInv'
  BY <1>0, <1>10 DEF exit_switch, Goto, tbl, loc, ScanInv, StateInv, PCs, ExitPCs
<1>11. ASSUME NEW p \in Slot, wait_lock(p) PROVE ScanInv'
  BY <1>0, <1>11 DEF wait_lock, Goto, Free, tbl, loc, ScanInv, StateInv, PCs, ExitPCs
<1>12. ASSUME NEW p \in Slot, wait_scan(p) PROVE ScanInv'
  BY <1>0, <1>12 DEF wait_scan, freeproc, Goto, NextSlot, EndScan, Free, tbl, loc,
     ScanInv, StateInv, PCs, ExitPCs
<1>13. ASSUME NEW p \in Slot, wait_sleep(p) PROVE ScanInv'
  BY <1>0, <1>13 DEF wait_sleep, Goto, EndScan, tbl, loc, ScanInv, StateInv, PCs, ExitPCs
<1>14. ASSUME NEW s \in Victims, kill(s) PROVE ScanInv'
  BY <1>0, <1>14 DEF kill, wakeup1, Free, tbl, loc, ScanInv, StateInv, PCs, ExitPCs
<1>15. CASE UNCHANGED vars
  BY <1>15 DEF vars, tbl, loc, ScanInv
<1>. QED
  BY <1>1, <1>2, <1>3, <1>4, <1>5, <1>6, <1>7, <1>8, <1>9, <1>10, <1>11, <1>12, <1>13,
     <1>14, <1>15 DEF Next, Exit, Wait

\* No child appears behind the scan.
LEMMA ReparentStep ==
    ASSUME TypeOK, StateInv, InitprocInv, ScanInv, ReparentInv, [Next]_vars
    PROVE  ReparentInv'
<1>0. /\ state \in [Slot -> {"UNUSED", "SLEEPING", "RUNNABLE", "ZOMBIE"}]
      /\ parent \in [Slot -> Slot \cup {None}] /\ killed \in [Slot -> BOOLEAN]
      /\ lock \in [Slot -> Slot \cup {None}] /\ op \in [Slot -> Slot \cup {None}]
      /\ pc \in [Slot -> PCs] /\ idx \in [Slot -> 1 .. NPROC + 1]
      /\ None \notin Slot /\ initproc \in Slot /\ Victims \subseteq Slot \ {initproc}
      /\ \A i \in 1 .. NPROC + 1 : i <= NPROC => i \in Slot
      /\ \A s \in Slot : ~(s < 1)
      /\ \A s \in Slot, i \in 1 .. NPROC + 1 : s < i + 1 => s < i \/ s = i
      /\ \A s \in Slot, i \in 1 .. NPROC + 1 : i > NPROC => s < i
      /\ \A i \in 1 .. NPROC + 1 : i <= NPROC \/ i > NPROC
  BY Constants, Behind DEF TypeOK
<1>1. ASSUME NEW p \in Slot, syscall(p) PROVE ReparentInv'
  BY <1>0, <1>1 DEF syscall, Goto, tbl, loc, ScanInv, ReparentInv, StateInv, InitprocInv,
     PCs, ExitPCs
<1>2. ASSUME NEW p \in Slot, allocproc(p) PROVE ReparentInv'
  BY <1>0, <1>2 DEF allocproc, Goto, NextSlot, EndScan, Free, tbl, loc, ScanInv,
     ReparentInv, StateInv, InitprocInv, PCs, ExitPCs
<1>3. ASSUME NEW p \in Slot, fork(p) PROVE ReparentInv'
  BY <1>0, <1>3 DEF fork, allocproc_fail, freeproc, Goto, EndScan, Free, tbl, loc,
     ScanInv, ReparentInv, StateInv, InitprocInv, PCs, ExitPCs
<1>4. ASSUME NEW p \in Slot, exit_wake_init(p) PROVE ReparentInv'
  BY <1>0, <1>4 DEF exit_wake_init, wakeup1, Goto, Free, tbl, loc, ScanInv, ReparentInv,
     StateInv, InitprocInv, PCs, ExitPCs
<1>5. ASSUME NEW p \in Slot, exit_read_parent(p) PROVE ReparentInv'
  BY <1>0, <1>5 DEF exit_read_parent, Goto, Free, tbl, loc, ScanInv, ReparentInv,
     StateInv, InitprocInv, PCs, ExitPCs
<1>6. ASSUME NEW p \in Slot, exit_lock_parent(p) PROVE ReparentInv'
  BY <1>0, <1>6 DEF exit_lock_parent, Goto, Free, tbl, loc, ScanInv, ReparentInv,
     StateInv, InitprocInv, PCs, ExitPCs
<1>7. ASSUME NEW p \in Slot, exit_lock_self(p) PROVE ReparentInv'
  BY <1>0, <1>7 DEF exit_lock_self, Goto, Free, tbl, loc, ScanInv, ReparentInv, StateInv,
     InitprocInv, PCs, ExitPCs
<1>8. ASSUME NEW p \in Slot, reparent(p) PROVE ReparentInv'
  BY <1>0, <1>8 DEF reparent, Goto, NextSlot, EndScan, Free, tbl, loc, ScanInv,
     ReparentInv, StateInv, InitprocInv, PCs, ExitPCs
<1>9. ASSUME NEW p \in Slot, exit_zombie(p) PROVE ReparentInv'
  BY <1>0, <1>9 DEF exit_zombie, wakeup1, Goto, tbl, loc, ScanInv, ReparentInv, StateInv,
     InitprocInv, PCs, ExitPCs
<1>10. ASSUME NEW p \in Slot, exit_switch(p) PROVE ReparentInv'
  BY <1>0, <1>10 DEF exit_switch, Goto, tbl, loc, ScanInv, ReparentInv, StateInv,
     InitprocInv, PCs, ExitPCs
<1>11. ASSUME NEW p \in Slot, wait_lock(p) PROVE ReparentInv'
  BY <1>0, <1>11 DEF wait_lock, Goto, Free, tbl, loc, ScanInv, ReparentInv, StateInv,
     InitprocInv, PCs, ExitPCs
<1>12. ASSUME NEW p \in Slot, wait_scan(p) PROVE ReparentInv'
  BY <1>0, <1>12 DEF wait_scan, freeproc, Goto, NextSlot, EndScan, Free, tbl, loc,
     ScanInv, ReparentInv, StateInv, InitprocInv, PCs, ExitPCs
<1>13. ASSUME NEW p \in Slot, wait_sleep(p) PROVE ReparentInv'
  BY <1>0, <1>13 DEF wait_sleep, Goto, EndScan, tbl, loc, ScanInv, ReparentInv, StateInv,
     InitprocInv, PCs, ExitPCs
<1>14. ASSUME NEW s \in Victims, kill(s) PROVE ReparentInv'
  BY <1>0, <1>14 DEF kill, wakeup1, Free, tbl, loc, ScanInv, ReparentInv, StateInv,
     InitprocInv, PCs, ExitPCs
<1>15. CASE UNCHANGED vars
  BY <1>15 DEF vars, tbl, loc, ReparentInv
<1>. QED
  BY <1>1, <1>2, <1>3, <1>4, <1>5, <1>6, <1>7, <1>8, <1>9, <1>10, <1>11, <1>12, <1>13,
     <1>14, <1>15 DEF Next, Exit, Wait

\* Nor does a zombie.
LEMMA WaitStep ==
    ASSUME TypeOK, LockInv, StateInv, InitprocInv, ParentInv, ScanInv, WaitInv, [Next]_vars
    PROVE  WaitInv'
<1>0. /\ state \in [Slot -> {"UNUSED", "SLEEPING", "RUNNABLE", "ZOMBIE"}]
      /\ parent \in [Slot -> Slot \cup {None}] /\ killed \in [Slot -> BOOLEAN]
      /\ lock \in [Slot -> Slot \cup {None}] /\ op \in [Slot -> Slot \cup {None}]
      /\ pc \in [Slot -> PCs] /\ idx \in [Slot -> 1 .. NPROC + 1]
      /\ None \notin Slot /\ initproc \in Slot /\ Victims \subseteq Slot \ {initproc}
      /\ \A i \in 1 .. NPROC + 1 : i <= NPROC => i \in Slot
      /\ \A s \in Slot : ~(s < 1)
      /\ \A s \in Slot, i \in 1 .. NPROC + 1 : s < i + 1 => s < i \/ s = i
      /\ \A s \in Slot, i \in 1 .. NPROC + 1 : i > NPROC => s < i
      /\ \A i \in 1 .. NPROC + 1 : i <= NPROC \/ i > NPROC
  BY Constants, Behind DEF TypeOK
<1>1. ASSUME NEW p \in Slot, syscall(p) PROVE WaitInv'
  BY <1>0, <1>1 DEF syscall, Goto, tbl, loc, ScanInv, WaitInv, LockInv, HoldsOp, HoldsMe,
     OpPCs, ParentInv, StateInv, InitprocInv, PCs,
     ExitPCs
<1>2. ASSUME NEW p \in Slot, allocproc(p) PROVE WaitInv'
  BY <1>0, <1>2 DEF allocproc, Goto, NextSlot, EndScan, Free, tbl, loc, ScanInv, WaitInv,
     LockInv, HoldsOp, HoldsMe, OpPCs, ParentInv, StateInv, InitprocInv, PCs,
     ExitPCs
<1>3. ASSUME NEW p \in Slot, fork(p) PROVE WaitInv'
  BY <1>0, <1>3 DEF fork, allocproc_fail, freeproc, Goto, EndScan, Free, tbl, loc,
     ScanInv, WaitInv, LockInv, HoldsOp, HoldsMe, OpPCs, ParentInv, StateInv, InitprocInv,
     PCs,
     ExitPCs
<1>4. ASSUME NEW p \in Slot, exit_wake_init(p) PROVE WaitInv'
  BY <1>0, <1>4 DEF exit_wake_init, wakeup1, Goto, Free, tbl, loc, ScanInv, WaitInv,
     LockInv, HoldsOp, HoldsMe, OpPCs, ParentInv, StateInv, InitprocInv, PCs,
     ExitPCs
<1>5. ASSUME NEW p \in Slot, exit_read_parent(p) PROVE WaitInv'
  BY <1>0, <1>5 DEF exit_read_parent, Goto, Free, tbl, loc, ScanInv, WaitInv, LockInv,
     HoldsOp, HoldsMe, OpPCs, ParentInv, StateInv, InitprocInv, PCs,
     ExitPCs
<1>6. ASSUME NEW p \in Slot, exit_lock_parent(p) PROVE WaitInv'
  BY <1>0, <1>6 DEF exit_lock_parent, Goto, Free, tbl, loc, ScanInv, WaitInv, LockInv,
     HoldsOp, HoldsMe, OpPCs, ParentInv, StateInv, InitprocInv, PCs,
     ExitPCs
<1>7. ASSUME NEW p \in Slot, exit_lock_self(p) PROVE WaitInv'
  BY <1>0, <1>7 DEF exit_lock_self, Goto, Free, tbl, loc, ScanInv, WaitInv, LockInv,
     HoldsOp, HoldsMe, OpPCs, ParentInv, StateInv, InitprocInv, PCs,
     ExitPCs
<1>8. ASSUME NEW p \in Slot, reparent(p) PROVE WaitInv'
  BY <1>0, <1>8 DEF reparent, Goto, NextSlot, EndScan, Free, tbl, loc, ScanInv, WaitInv,
     LockInv, HoldsOp, HoldsMe, OpPCs, ParentInv, StateInv, InitprocInv, PCs,
     ExitPCs
<1>9. ASSUME NEW p \in Slot, exit_zombie(p) PROVE WaitInv'
  BY <1>0, <1>9 DEF exit_zombie, wakeup1, Goto, tbl, loc, ScanInv, WaitInv, LockInv,
     HoldsOp, HoldsMe, OpPCs, ParentInv, StateInv, InitprocInv, PCs,
     ExitPCs
<1>10. ASSUME NEW p \in Slot, exit_switch(p) PROVE WaitInv'
  BY <1>0, <1>10 DEF exit_switch, Goto, tbl, loc, ScanInv, WaitInv, LockInv, HoldsOp,
     HoldsMe, OpPCs, ParentInv, StateInv, InitprocInv, PCs,
     ExitPCs
<1>11. ASSUME NEW p \in Slot, wait_lock(p) PROVE WaitInv'
  BY <1>0, <1>11 DEF wait_lock, Goto, Free, tbl, loc, ScanInv, WaitInv, LockInv, HoldsOp,
     HoldsMe, OpPCs, ParentInv, StateInv, InitprocInv, PCs,
     ExitPCs
<1>12. ASSUME NEW p \in Slot, wait_scan(p) PROVE WaitInv'
  BY <1>0, <1>12 DEF wait_scan, freeproc, Goto, NextSlot, EndScan, Free, tbl, loc,
     ScanInv, WaitInv, LockInv, HoldsOp, HoldsMe, OpPCs, ParentInv, StateInv, InitprocInv,
     PCs,
     ExitPCs
<1>13. ASSUME NEW p \in Slot, wait_sleep(p) PROVE WaitInv'
  BY <1>0, <1>13 DEF wait_sleep, Goto, EndScan, tbl, loc, ScanInv, WaitInv, LockInv,
     HoldsOp, HoldsMe, OpPCs, ParentInv, StateInv, InitprocInv, PCs,
     ExitPCs
<1>14. ASSUME NEW s \in Victims, kill(s) PROVE WaitInv'
  BY <1>0, <1>14 DEF kill, wakeup1, Free, tbl, loc, ScanInv, WaitInv, LockInv, HoldsOp,
     HoldsMe, OpPCs, ParentInv, StateInv, InitprocInv, PCs,
     ExitPCs
<1>15. CASE UNCHANGED vars
  BY <1>15 DEF vars, tbl, loc, WaitInv
<1>. QED
  BY <1>1, <1>2, <1>3, <1>4, <1>5, <1>6, <1>7, <1>8, <1>9, <1>10, <1>11, <1>12, <1>13,
     <1>14, <1>15 DEF Next, Exit, Wait

-----------------------------------------------------------------------------
(***************************************************************************)
(* The theorems.                                                           *)
(***************************************************************************)

\* userinit() has made init.
LEMMA InitInv ==
    ASSUME Init
    PROVE  IInv
<1>1. TypeOK /\ InitprocInv
  BY Constants, ProcAssumption DEF Init, TypeOK, InitprocInv, PCs, ExitPCs, None
<1>2. LockInv /\ StateInv /\ ParentInv /\ ScanInv /\ ReparentInv /\ WaitInv
  BY Constants DEF Init, LockInv, HoldsOp, HoldsMe, StateInv, ParentInv, OpPCs,
     ScanInv, ReparentInv, WaitInv
<1>. QED
  BY <1>1, <1>2 DEF IInv

\* The invariant is inductive.
LEMMA NextInv ==
    ASSUME IInv, [Next]_vars
    PROVE  IInv'
  BY TypeStep, LockStep, StateStep, InitprocStep, ParentStep, ScanStep, ReparentStep,
     WaitStep DEF IInv

\* It holds in every reachable state.
LEMMA Invariance == Spec => []IInv
<1>1. Init => IInv
  BY InitInv
<1>2. IInv /\ [Next]_vars => IInv'
  BY NextInv
<1>. QED
  BY <1>1, <1>2, PTL DEF Spec

\* Type correctness: the scans of fork(), exit() and wait() stay in the table,
\* and locks, parents and original_parent are slots or null.
THEOREM ProcTypeCorrect == Spec => []TypeOK
<1>1. IInv => TypeOK
  BY DEF IInv
<1>. QED
  BY <1>1, Invariance, PTL

\* exit() gives every child away before it becomes a zombie, although reparent()
\* reads pp->parent without pp->lock: in a table of any size every process has a
\* parent that can still wait for it.
THEOREM ProcNoOrphan == Spec => []NoOrphan
<1>1. IInv => NoOrphan
  BY Constants DEF IInv, TypeOK, ParentInv, NoOrphan
<1>. QED
  BY <1>1, Invariance, PTL

\* wait() does not free the slot, and the kernel stack, of a process the scheduler
\* has not left, and allocproc() does not take one.
THEOREM ProcNoFreeWhileRunning == Spec => []NoFreeWhileRunning
<1>1. IInv => NoFreeWhileRunning
  BY DEF IInv, StateInv, NoFreeWhileRunning
<1>. QED
  BY <1>1, Invariance, PTL

\* A process other than init never sleeps in wait() with a zombie child or killed:
\* the parent's lock, which exit() takes by the copy of p->parent it made earlier,
\* is the right one as long as the parent is not init.
THEOREM ProcNoLostWakeup == Spec => []NoLostWakeup
<1>1. IInv => NoLostWakeup
  BY DEF IInv, WaitInv, NoLostWakeup, Children
<1>. QED
  BY <1>1, Invariance, PTL
=============================================================================
