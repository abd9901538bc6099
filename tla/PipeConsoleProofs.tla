-------------------------- MODULE PipeConsoleProofs --------------------------
(***************************************************************************)
(* Proofs about modules Pipe and Console: a pipe for any number of readers *)
(* and writers, any size of the buffer and counters that wrap at any       *)
(* multiple of it; the console for any number of processes, any sizes of   *)
(* its two buffers and counters that wrap at any multiples of them.        *)
(***************************************************************************)
EXTENDS Pipe, Console, CommonLemmas

-----------------------------------------------------------------------------
(***************************************************************************)
(* Pipes: the inductive invariant.                                         *)
(***************************************************************************)
WriterPCs == {"w_acquire", "w_loop", "w_sleep", "w_asleep"}
ReaderPCs == {"r_acquire", "r_wait", "r_copy", "r_sleep", "r_asleep"}
LockPCs   == {"w_loop", "w_sleep", "r_wait", "r_copy", "r_sleep"}
\* pi->lock is held by the one process that is inside.
LockInv == \A p \in Procs : lock = p <=> pc[p] \in LockPCs

\* Readers read and writers write.
RoleInv ==
    \A p \in Procs :
        /\ pc[p] \in WriterPCs => p \in Writers
        /\ pc[p] \in ReaderPCs => p \in Readers

\* A process in a call has its file open; an end that is closed, or about to
\* be, has no user left.
SameEnd(p) == IF p \in Writers THEN Writers ELSE Readers
Gone(q) == ~holds[q] /\ pc[q] = "user"
CloseInv ==
    /\ \A p \in Procs : pc[p] \notin {"user", "c_acquire"} => holds[p]
    /\ \A p \in Procs : pc[p] = "c_acquire" =>
            ~holds[p] /\ \A q \in SameEnd(p) \ {p} : Gone(q)
    /\ ~readopen => \A q \in Readers : Gone(q)
    /\ ~writeopen => \A q \in Writers : Gone(q)
    /\ freed => ~readopen /\ ~writeopen

\* The counters are the numbers of bytes taken and sent, as uints; a byte that
\* is still to be read is in its place.
RingInv ==
    LET T == Len(taken)
        S == Len(sent)
    IN  /\ \A k \in 1 .. T : taken[k] = k
        /\ \A k \in 1 .. S : sent[k] = k
        /\ T <= S /\ S <= T + PIPESIZE
        /\ nread = T % UINT /\ nwrite = S % UINT
        /\ \A i \in T .. S - 1 : data[i % PIPESIZE] = i + 1

\* Who sleeps, or is about to, has a reason; and if the reason has gone, the
\* process that took it away still has the lock and will call wakeup().
SleepInv ==
    \A p \in Procs :
        /\ pc[p] = "r_sleep" => Empty /\ writeopen
        /\ pc[p] = "w_sleep" => Full /\ readopen
        /\ pc[p] = "r_asleep" => writeopen /\ (Empty \/ \E q \in Procs : pc[q] = "w_loop")
        /\ pc[p] = "w_asleep" => readopen /\ (Full \/ \E q \in Procs : pc[q] = "r_copy")

KillInv == \A p \in Procs : killed[p] => p \in Victims

IInv == TypeOK /\ LockInv /\ RoleInv /\ CloseInv /\ RingInv /\ KillInv

-----------------------------------------------------------------------------
(***************************************************************************)
(* The counters, for a process that looks at them.                         *)
(***************************************************************************)

\* Empty and Full as the numbers of bytes see them, and the places of the next
\* byte to read and to write.
LEMMA Counters ==
    ASSUME TypeOK, RingInv
    PROVE  /\ Len(taken) \in Nat /\ Len(sent) \in Nat
           /\ Empty <=> Len(taken) = Len(sent)
           /\ Full <=> Len(sent) = Len(taken) + PIPESIZE
           /\ nread % PIPESIZE = Len(taken) % PIPESIZE
           /\ nwrite % PIPESIZE = Len(sent) % PIPESIZE
           /\ Inc(nread) = (Len(taken) + 1) % UINT
           /\ Inc(nwrite) = (Len(sent) + 1) % UINT
<1>. DEFINE T == Len(taken)
            S == Len(sent)
<1>1. T \in Nat /\ S \in Nat
  BY LenProperties DEF TypeOK
<1>2. nread = T % UINT /\ nwrite = S % UINT /\ T <= S /\ S <= T + PIPESIZE
  BY DEF RingInv
<1>. HIDE DEF T, S
<1>3. PIPESIZE \in Nat \ {0} /\ UINT \in Nat \ {0} /\ PIPESIZE < UINT /\ UINT % PIPESIZE = 0
  BY PipeAssumption
<1>4. T \in Int /\ S \in Int /\ PIPESIZE \in Int /\ 0 \in Int /\ 1 \in Int
  BY <1>1, <1>3
<1>5. Empty <=> T = S
  <2>1. ASSUME T % UINT = S % UINT PROVE T = S
    <3>1. T - UINT < S /\ S < T + UINT
      BY <1>1, <1>2, <1>3
    <3>. QED
      BY <1>3, <1>4, <2>1, <3>1, ModInj
  <2>. QED
    BY <1>2, <2>1 DEF Empty
<1>6. Full <=> S = T + PIPESIZE
  <2>1. ((T % UINT) + PIPESIZE) % UINT = (T + PIPESIZE) % UINT
    BY <1>3, <1>4, ModAdd
  <2>2. ASSUME S % UINT = (T + PIPESIZE) % UINT PROVE S = T + PIPESIZE
    <3>1. /\ T + PIPESIZE \in Int
          /\ S - UINT < T + PIPESIZE /\ T + PIPESIZE < S + UINT
      BY <1>1, <1>2, <1>3
    <3>. QED
      BY <1>3, <1>4, <2>2, <3>1, ModInj
  <2>. QED
    BY <1>2, <2>1, <2>2 DEF Full
<1>7. nread % PIPESIZE = T % PIPESIZE /\ nwrite % PIPESIZE = S % PIPESIZE
  BY <1>2, <1>3, <1>4, ModModPlace
<1>8. Inc(nread) = (T + 1) % UINT /\ Inc(nwrite) = (S + 1) % UINT
  BY <1>2, <1>3, <1>4, ModAdd DEF Inc
<1>. QED
  BY <1>1, <1>5, <1>6, <1>7, <1>8 DEF T, S

-----------------------------------------------------------------------------
(***************************************************************************)
(* One lemma for each conjunct, one step for each action.                  *)
(***************************************************************************)

\* Where a step can take a process.
LEMMA PcStep ==
    ASSUME TypeOK, [Next]_vars
    PROVE  pc' \in [Procs -> PCs] /\ lock' \in Procs \cup {None}
<1>1. pc \in [Procs -> PCs] /\ lock \in Procs \cup {None}
  BY DEF TypeOK
<1>2. ASSUME NEW p \in Procs,
             syscall(p) \/ acquire(p) \/ pipewrite(p) \/ piperead_wait(p)
      PROVE  pc' \in [Procs -> PCs] /\ lock' \in Procs \cup {None}
  BY <1>1, <1>2 DEF PCs, syscall, acquire, pipewrite, pipewrite_full, pipewrite_end,
     piperead_wait, Goto, GotoAndWakeup
<1>3. ASSUME NEW p \in Procs,
             piperead_copy(p) \/ sleep(p) \/ fileclose(p) \/ pipeclose(p)
      PROVE  pc' \in [Procs -> PCs] /\ lock' \in Procs \cup {None}
  BY <1>1, <1>3 DEF PCs, piperead_copy, piperead_end, sleep, fileclose, pipeclose,
     Goto, GotoAndWakeup
<1>4. ASSUME NEW p \in Victims, kill(p)
      PROVE  pc' \in [Procs -> PCs] /\ lock' \in Procs \cup {None}
  BY <1>1, <1>4, PipeAssumption DEF PCs, kill
<1>5. CASE UNCHANGED vars
  BY <1>1, <1>5 DEF vars
<1>. QED
  BY <1>2, <1>3, <1>4, <1>5 DEF Next, Run

\* What is left to do of each call.
LEMMA LeftStep ==
    ASSUME TypeOK, [Next]_vars
    PROVE  left' \in [Procs -> 0 .. MaxN]
<1>1. left \in [Procs -> 0 .. MaxN] /\ MaxN \in Nat
  BY PipeAssumption DEF TypeOK
<1>2. 0 \in 0 .. MaxN /\ \A p \in Procs : left[p] > 0 => left[p] - 1 \in 0 .. MaxN
  BY <1>1
<1>3. ASSUME NEW p \in Procs, syscall(p) PROVE left' \in [Procs -> 0 .. MaxN]
  BY <1>1, <1>3 DEF syscall
<1>4. ASSUME NEW p \in Procs, pipewrite(p) PROVE left' \in [Procs -> 0 .. MaxN]
  BY <1>1, <1>2, <1>4 DEF pipewrite, Return
<1>5. ASSUME NEW p \in Procs, piperead_wait(p) PROVE left' \in [Procs -> 0 .. MaxN]
  BY <1>1, <1>2, <1>5 DEF piperead_wait, Return
<1>6. ASSUME NEW p \in Procs, piperead_copy(p) PROVE left' \in [Procs -> 0 .. MaxN]
  BY <1>1, <1>2, <1>6 DEF piperead_copy, Return
<1>7. CASE UNCHANGED left
  BY <1>1, <1>7
<1>. QED
  BY <1>3, <1>4, <1>5, <1>6, <1>7
  DEF Next, Run, acquire, sleep, fileclose, pipeclose, kill, vars

\* The steps that put a byte into the buffer and that take one out of it.
Put(p) ==
    /\ p \in Procs /\ pc[p] = "w_loop" /\ readopen /\ ~Full
    /\ data' = [data EXCEPT ![nwrite % PIPESIZE] = Len(sent) + 1]
    /\ nwrite' = Inc(nwrite)
    /\ sent' = Append(sent, Len(sent) + 1)
    /\ UNCHANGED <<nread, readopen, writeopen, freed, taken, holds, killed, pc, lock>>

Take(p) ==
    /\ p \in Procs /\ pc[p] = "r_copy" /\ ~Empty
    /\ taken' = Append(taken, data[nread % PIPESIZE])
    /\ nread' = Inc(nread)
    /\ UNCHANGED <<data, nwrite, readopen, writeopen, freed, sent, holds, killed>>

\* These and pipeclose() are all that changes struct pipe.
LEMMA StepKinds ==
    ASSUME [Next]_vars
    PROVE  UNCHANGED pipe \/ \E p \in Procs : Put(p) \/ Take(p) \/ pipeclose(p)
<1>1. ASSUME NEW p \in Procs, pipewrite(p) PROVE UNCHANGED pipe \/ Put(p)
  BY <1>1 DEF pipewrite, Put, pipe
<1>2. ASSUME NEW p \in Procs, piperead_copy(p) PROVE UNCHANGED pipe \/ Take(p)
  BY <1>2 DEF piperead_copy, Take, pipe
<1>3. ASSUME NEW p \in Procs, syscall(p) \/ acquire(p) \/ piperead_wait(p) \/ sleep(p) \/ fileclose(p)
      PROVE  UNCHANGED pipe
  BY <1>3 DEF syscall, acquire, piperead_wait, sleep, fileclose, pipe
<1>4. ASSUME NEW p \in Victims, kill(p) PROVE UNCHANGED pipe
  BY <1>4 DEF kill, pipe
<1>5. CASE UNCHANGED vars
  BY <1>5 DEF vars, pipe
<1>. QED
  BY <1>1, <1>2, <1>3, <1>4, <1>5 DEF Next, Run

\* Every step keeps the types.
LEMMA TypeStep ==
    ASSUME TypeOK, RingInv, [Next]_vars
    PROVE  TypeOK'
<1>1. pc' \in [Procs -> PCs] /\ lock' \in Procs \cup {None} /\ left' \in [Procs -> 0 .. MaxN]
  BY PcStep, LeftStep
<1>2. ASSUME UNCHANGED pipe PROVE TypeOK'
  <2>1. holds' \in [Procs -> BOOLEAN] /\ killed' \in [Procs -> BOOLEAN]
    BY PipeAssumption DEF TypeOK, Next, Run, syscall, acquire, pipewrite, piperead_wait,
       piperead_copy, sleep, fileclose, pipeclose, kill, vars
  <2>. QED
    BY <1>1, <1>2, <2>1 DEF TypeOK, pipe
<1>3. ASSUME NEW p \in Procs, pipeclose(p) PROVE TypeOK'
  BY <1>1, <1>3 DEF pipeclose, TypeOK
<1>4. ASSUME NEW p \in Procs, Put(p) PROVE TypeOK'
  <2>1. Len(sent) + 1 \in Nat /\ sent \in Seq(Nat)
    BY Counters DEF TypeOK
  <2>2. sent' \in Seq(Nat)
    BY <1>4, <2>1, AppendProperties DEF Put
  <2>3. data' \in [0 .. PIPESIZE - 1 -> Nat]
    BY <1>4, <2>1 DEF TypeOK, Put
  <2>4. nwrite' \in 0 .. UINT - 1
    BY <1>4, PipeAssumption DEF TypeOK, Inc, Put
  <2>. QED
    BY <1>1, <1>4, <2>2, <2>3, <2>4 DEF Put, TypeOK
<1>5. ASSUME NEW p \in Procs, Take(p) PROVE TypeOK'
  <2>1. nread % PIPESIZE \in 0 .. PIPESIZE - 1
    BY PipeAssumption, ModType DEF TypeOK
  <2>2. data[nread % PIPESIZE] \in Nat /\ taken \in Seq(Nat)
    BY <2>1 DEF TypeOK
  <2>3. taken' \in Seq(Nat)
    BY <1>5, <2>2, AppendProperties DEF Take
  <2>4. nread' \in 0 .. UINT - 1
    BY <1>5, PipeAssumption DEF TypeOK, Inc, Take
  <2>. QED
    BY <1>1, <1>5, <2>3, <2>4 DEF Take, TypeOK
<1>. QED
  BY <1>2, <1>3, <1>4, <1>5, StepKinds

\* The lock is taken when it is free and given up by its holder.
LEMMA LockStep ==
    ASSUME TypeOK, LockInv, [Next]_vars
    PROVE  LockInv'
<1>. USE DEF Procs
<1>0. /\ pc \in [Procs -> PCs] /\ lock \in Procs \cup {None}
      /\ Readers \cap Writers = {} /\ None \notin Procs /\ Victims \subseteq Procs
  BY PipeAssumption DEF TypeOK
<1>1. ASSUME NEW p \in Procs, syscall(p) PROVE LockInv'
  BY <1>1, <1>0 DEF syscall, LockInv, PCs, LockPCs, Goto,
     GotoAndWakeup
<1>2. ASSUME NEW p \in Procs, acquire(p) PROVE LockInv'
  BY <1>2, <1>0 DEF acquire, LockInv, PCs, LockPCs, Goto,
     GotoAndWakeup
<1>3. ASSUME NEW p \in Procs, pipewrite(p) PROVE LockInv'
  BY <1>3, <1>0 DEF pipewrite, pipewrite_full, pipewrite_end, LockInv, PCs, LockPCs, Goto,
     GotoAndWakeup
<1>4. ASSUME NEW p \in Procs, piperead_wait(p) PROVE LockInv'
  BY <1>4, <1>0 DEF piperead_wait, LockInv, PCs, LockPCs, Goto,
     GotoAndWakeup
<1>5. ASSUME NEW p \in Procs, piperead_copy(p) PROVE LockInv'
  BY <1>5, <1>0 DEF piperead_copy, piperead_end, LockInv, PCs, LockPCs, Goto,
     GotoAndWakeup
<1>6. ASSUME NEW p \in Procs, sleep(p) PROVE LockInv'
  BY <1>6, <1>0 DEF sleep, LockInv, PCs, LockPCs, Goto,
     GotoAndWakeup
<1>7. ASSUME NEW p \in Procs, fileclose(p) PROVE LockInv'
  BY <1>7, <1>0 DEF fileclose, LockInv, PCs, LockPCs, Goto,
     GotoAndWakeup
<1>8. ASSUME NEW p \in Procs, pipeclose(p) PROVE LockInv'
  BY <1>8, <1>0 DEF pipeclose, LockInv, PCs, LockPCs, Goto,
     GotoAndWakeup
<1>9. ASSUME NEW p \in Victims, kill(p) PROVE LockInv'
  BY <1>9, <1>0 DEF kill, LockInv, PCs, LockPCs, Goto,
     GotoAndWakeup
<1>10. CASE UNCHANGED vars
  BY <1>10 DEF vars, LockInv
<1>. QED
  BY <1>1, <1>2, <1>3, <1>4, <1>5, <1>6, <1>7, <1>8, <1>9, <1>10 DEF Next, Run

\* Nobody changes sides.
LEMMA RoleStep ==
    ASSUME TypeOK, RoleInv, [Next]_vars
    PROVE  RoleInv'
<1>. USE DEF Procs
<1>0. /\ pc \in [Procs -> PCs] /\ lock \in Procs \cup {None}
      /\ Readers \cap Writers = {} /\ None \notin Procs /\ Victims \subseteq Procs
  BY PipeAssumption DEF TypeOK
<1>1. ASSUME NEW p \in Procs, syscall(p) PROVE RoleInv'
  BY <1>1, <1>0 DEF syscall, RoleInv, PCs, WriterPCs, ReaderPCs, Goto,
     GotoAndWakeup
<1>2. ASSUME NEW p \in Procs, acquire(p) PROVE RoleInv'
  BY <1>2, <1>0 DEF acquire, RoleInv, PCs, WriterPCs, ReaderPCs, Goto,
     GotoAndWakeup
<1>3. ASSUME NEW p \in Procs, pipewrite(p) PROVE RoleInv'
  BY <1>3, <1>0 DEF pipewrite, pipewrite_full, pipewrite_end, RoleInv, PCs, WriterPCs,
     ReaderPCs, Goto,
     GotoAndWakeup
<1>4. ASSUME NEW p \in Procs, piperead_wait(p) PROVE RoleInv'
  BY <1>4, <1>0 DEF piperead_wait, RoleInv, PCs, WriterPCs, ReaderPCs, Goto,
     GotoAndWakeup
<1>5. ASSUME NEW p \in Procs, piperead_copy(p) PROVE RoleInv'
  BY <1>5, <1>0 DEF piperead_copy, piperead_end, RoleInv, PCs, WriterPCs, ReaderPCs, Goto,
     GotoAndWakeup
<1>6. ASSUME NEW p \in Procs, sleep(p) PROVE RoleInv'
  BY <1>6, <1>0 DEF sleep, RoleInv, PCs, WriterPCs, ReaderPCs, Goto,
     GotoAndWakeup
<1>7. ASSUME NEW p \in Procs, fileclose(p) PROVE RoleInv'
  BY <1>7, <1>0 DEF fileclose, RoleInv, PCs, WriterPCs, ReaderPCs, Goto,
     GotoAndWakeup
<1>8. ASSUME NEW p \in Procs, pipeclose(p) PROVE RoleInv'
  BY <1>8, <1>0 DEF pipeclose, RoleInv, PCs, WriterPCs, ReaderPCs, Goto,
     GotoAndWakeup
<1>9. ASSUME NEW p \in Victims, kill(p) PROVE RoleInv'
  BY <1>9, <1>0 DEF kill, RoleInv, PCs, WriterPCs, ReaderPCs, Goto,
     GotoAndWakeup
<1>10. CASE UNCHANGED vars
  BY <1>10 DEF vars, RoleInv
<1>. QED
  BY <1>1, <1>2, <1>3, <1>4, <1>5, <1>6, <1>7, <1>8, <1>9, <1>10 DEF Next, Run

\* Each byte goes in and comes out in its place.
LEMMA RingStep ==
    ASSUME TypeOK, RingInv, [Next]_vars
    PROVE  RingInv'
<1>. DEFINE T == Len(taken)
            S == Len(sent)
<1>1. /\ T \in Nat /\ S \in Nat
      /\ \A k \in 1 .. T : taken[k] = k
      /\ \A k \in 1 .. S : sent[k] = k
      /\ T <= S /\ S <= T + PIPESIZE
      /\ nread = T % UINT /\ nwrite = S % UINT
      /\ \A i \in T .. S - 1 : data[i % PIPESIZE] = i + 1
  BY Counters DEF RingInv
<1>2. /\ Empty <=> T = S
      /\ Full <=> S = T + PIPESIZE
      /\ nread % PIPESIZE = T % PIPESIZE /\ nwrite % PIPESIZE = S % PIPESIZE
      /\ Inc(nread) = (T + 1) % UINT /\ Inc(nwrite) = (S + 1) % UINT
  BY Counters
<1>3. /\ sent \in Seq(Nat) /\ taken \in Seq(Nat) /\ data \in [0 .. PIPESIZE - 1 -> Nat]
      /\ PIPESIZE \in Nat \ {0}
  BY PipeAssumption DEF TypeOK
<1>4. CASE UNCHANGED pipe
  BY <1>4 DEF pipe, RingInv
<1>5. ASSUME NEW p \in Procs, pipeclose(p) PROVE RingInv'
  BY <1>5 DEF pipeclose, RingInv
<1>6. ASSUME NEW p \in Procs, Put(p) PROVE RingInv'
  <2>1. S + 1 \in Nat /\ sent' = Append(sent, S + 1) /\ taken' = taken /\ nread' = nread
    BY <1>1, <1>6 DEF Put
  <2>2. /\ Len(sent') = S + 1
        /\ \A k \in 1 .. S : sent'[k] = sent[k]
        /\ sent'[S + 1] = S + 1
    BY <1>3, <2>1, AppendProperties
  <2>3. \A k \in 1 .. S + 1 : sent'[k] = k
    BY <1>1, <2>2
  <2>4. nwrite' = (S + 1) % UINT
    BY <1>2, <1>6 DEF Put
  <2>5. S < T + PIPESIZE
    BY <1>1, <1>2, <1>3, <1>6 DEF Put
  <2>6. ASSUME NEW i \in T .. S PROVE data'[i % PIPESIZE] = i + 1
    <3>1. /\ i \in Int /\ S \in Int /\ T <= i /\ i <= S
          /\ i - PIPESIZE < S /\ S < i + PIPESIZE
      BY <1>1, <1>3, <2>5, <2>6
    <3>2. i % PIPESIZE \in 0 .. PIPESIZE - 1 /\ S % PIPESIZE \in 0 .. PIPESIZE - 1
      BY <1>3, <3>1, ModType
    <3>3. data' = [data EXCEPT ![S % PIPESIZE] = S + 1]
      BY <1>2, <1>6 DEF Put
    <3>4. CASE i = S
      BY <1>3, <3>2, <3>3, <3>4
    <3>5. CASE i # S
      <4>1. i % PIPESIZE # S % PIPESIZE
        BY <1>3, <3>1, <3>5, ModInj
      <4>2. data'[i % PIPESIZE] = data[i % PIPESIZE]
        BY <1>3, <3>2, <3>3, <4>1
      <4>3. i \in T .. S - 1
        BY <1>1, <3>1, <3>5
      <4>. QED
        BY <1>1, <4>2, <4>3
    <3>. QED
      BY <3>4, <3>5
  <2>7. T <= S + 1 /\ S + 1 <= T + PIPESIZE /\ (S + 1) - 1 = S
    BY <1>1, <1>3, <2>5
  <2>. HIDE DEF T, S
  <2>8. Len(taken') = T
    BY <2>1 DEF T
  <2>. QED
    BY <1>1, <2>1, <2>2, <2>3, <2>4, <2>6, <2>7, <2>8 DEF RingInv
<1>7. ASSUME NEW p \in Procs, Take(p) PROVE RingInv'
  <2>1. T < S
    BY <1>1, <1>2, <1>7 DEF Take
  <2>2. T \in T .. S - 1 /\ T + 1 \in Nat
    BY <1>1, <2>1
  <2>3. data[nread % PIPESIZE] = T + 1
    BY <1>1, <1>2, <2>2
  <2>4. taken' = Append(taken, T + 1) /\ sent' = sent /\ data' = data /\ nwrite' = nwrite
    BY <1>7, <2>3 DEF Take
  <2>5. /\ Len(taken') = T + 1
        /\ \A k \in 1 .. T : taken'[k] = taken[k]
        /\ taken'[T + 1] = T + 1
    BY <1>3, <2>2, <2>4, AppendProperties
  <2>6. \A k \in 1 .. T + 1 : taken'[k] = k
    BY <1>1, <2>5
  <2>7. nread' = (T + 1) % UINT
    BY <1>2, <1>7 DEF Take
  <2>8. T + 1 <= S /\ S <= (T + 1) + PIPESIZE /\ \A i \in T + 1 .. S - 1 : i \in T .. S - 1
    BY <1>1, <1>3, <2>1
  <2>. HIDE DEF T, S
  <2>9. Len(sent') = S
    BY <2>4 DEF S
  <2>. QED
    BY <1>1, <2>4, <2>5, <2>6, <2>7, <2>8, <2>9 DEF RingInv
<1>. QED
  BY <1>4, <1>5, <1>6, <1>7, StepKinds

\* An end is closed after its last user has gone.
LEMMA CloseStep ==
    ASSUME TypeOK, LockInv, RoleInv, CloseInv, [Next]_vars
    PROVE  CloseInv'
<1>. USE DEF Procs
<1>0. /\ pc \in [Procs -> PCs] /\ holds \in [Procs -> BOOLEAN] /\ killed \in [Procs -> BOOLEAN]
      /\ readopen \in BOOLEAN /\ writeopen \in BOOLEAN /\ freed \in BOOLEAN
      /\ Readers \cap Writers = {} /\ None \notin Procs /\ Victims \subseteq Procs
  BY PipeAssumption DEF TypeOK
<1>1. ASSUME NEW p \in Procs, syscall(p) PROVE CloseInv'
  BY <1>0, <1>1 DEF syscall, CloseInv, SameEnd, Gone, RoleInv, PCs, WriterPCs,
     ReaderPCs, Goto, GotoAndWakeup, pipe
<1>2. ASSUME NEW p \in Procs, acquire(p) PROVE CloseInv'
  BY <1>0, <1>2 DEF acquire, CloseInv, SameEnd, Gone, RoleInv, PCs, WriterPCs,
     ReaderPCs, Goto, GotoAndWakeup, pipe
<1>3. ASSUME NEW p \in Procs, pipewrite(p) PROVE CloseInv'
  BY <1>0, <1>3 DEF pipewrite, pipewrite_full, pipewrite_end, CloseInv, SameEnd, Gone,
     RoleInv, PCs, WriterPCs,
     ReaderPCs, Goto, GotoAndWakeup, pipe
<1>4. ASSUME NEW p \in Procs, piperead_wait(p) PROVE CloseInv'
  BY <1>0, <1>4 DEF piperead_wait, CloseInv, SameEnd, Gone, RoleInv, PCs, WriterPCs,
     ReaderPCs, Goto, GotoAndWakeup, pipe
<1>5. ASSUME NEW p \in Procs, piperead_copy(p) PROVE CloseInv'
  BY <1>0, <1>5 DEF piperead_copy, piperead_end, CloseInv, SameEnd, Gone, RoleInv, PCs,
     WriterPCs,
     ReaderPCs, Goto, GotoAndWakeup, pipe
<1>6. ASSUME NEW p \in Procs, sleep(p) PROVE CloseInv'
  BY <1>0, <1>6 DEF sleep, CloseInv, SameEnd, Gone, RoleInv, PCs, WriterPCs,
     ReaderPCs, Goto, GotoAndWakeup, pipe
<1>7. ASSUME NEW p \in Procs, fileclose(p) PROVE CloseInv'
  BY <1>0, <1>7 DEF fileclose, CloseInv, SameEnd, Gone, RoleInv, PCs, WriterPCs,
     ReaderPCs, Goto, GotoAndWakeup, pipe
<1>8. ASSUME NEW p \in Procs, pipeclose(p) PROVE CloseInv'
  BY <1>0, <1>8 DEF pipeclose, CloseInv, SameEnd, Gone, RoleInv, PCs, WriterPCs,
     ReaderPCs, Goto, GotoAndWakeup, pipe
<1>9. ASSUME NEW p \in Victims, kill(p) PROVE CloseInv'
  BY <1>0, <1>9 DEF kill, CloseInv, SameEnd, Gone, RoleInv, PCs, WriterPCs,
     ReaderPCs, Goto, GotoAndWakeup, pipe
<1>10. CASE UNCHANGED vars
  BY <1>10 DEF vars, pipe, CloseInv, Empty, Full, Gone
<1>. QED
  BY <1>1, <1>2, <1>3, <1>4, <1>5, <1>6, <1>7, <1>8, <1>9, <1>10 DEF Next, Run

\* Who goes to sleep has looked, under the lock; who changes what a sleeper waits
\* for wakes it before it lets go of the lock.  It takes that no writer is killed:
\* pipewrite() returns without wakeup() then.
LEMMA SleepStep ==
    ASSUME TypeOK, LockInv, RoleInv, CloseInv, KillInv, SleepInv,
           Victims \cap Writers = {}, [Next]_vars
    PROVE  SleepInv'
<1>. USE DEF Procs
<1>0. /\ pc \in [Procs -> PCs] /\ holds \in [Procs -> BOOLEAN] /\ killed \in [Procs -> BOOLEAN]
      /\ readopen \in BOOLEAN /\ writeopen \in BOOLEAN /\ freed \in BOOLEAN
      /\ Readers \cap Writers = {} /\ None \notin Procs /\ Victims \subseteq Procs
  BY PipeAssumption DEF TypeOK
<1>1. ASSUME NEW p \in Procs, syscall(p) PROVE SleepInv'
  BY <1>0, <1>1 DEF syscall, SleepInv, LockInv, LockPCs, CloseInv, Gone, KillInv,
     RoleInv, PCs, WriterPCs,
     ReaderPCs, Goto, GotoAndWakeup, pipe, Empty, Full
<1>2. ASSUME NEW p \in Procs, acquire(p) PROVE SleepInv'
  BY <1>0, <1>2 DEF acquire, SleepInv, LockInv, LockPCs, CloseInv, Gone, KillInv,
     RoleInv, PCs, WriterPCs,
     ReaderPCs, Goto, GotoAndWakeup, pipe, Empty, Full
<1>3. ASSUME NEW p \in Procs, pipewrite(p) PROVE SleepInv'
  BY <1>0, <1>3 DEF pipewrite, pipewrite_full, pipewrite_end, SleepInv, LockInv, LockPCs,
     CloseInv, Gone, KillInv, RoleInv, PCs, WriterPCs,
     ReaderPCs, Goto, GotoAndWakeup, pipe, Empty, Full
<1>4. ASSUME NEW p \in Procs, piperead_wait(p) PROVE SleepInv'
  BY <1>0, <1>4 DEF piperead_wait, SleepInv, LockInv, LockPCs, CloseInv, Gone, KillInv,
     RoleInv, PCs, WriterPCs,
     ReaderPCs, Goto, GotoAndWakeup, pipe, Empty, Full
<1>5. ASSUME NEW p \in Procs, piperead_copy(p) PROVE SleepInv'
  BY <1>0, <1>5 DEF piperead_copy, piperead_end, SleepInv, LockInv, LockPCs, CloseInv,
     Gone, KillInv, RoleInv, PCs, WriterPCs,
     ReaderPCs, Goto, GotoAndWakeup, pipe, Empty, Full
<1>6. ASSUME NEW p \in Procs, sleep(p) PROVE SleepInv'
  BY <1>0, <1>6 DEF sleep, SleepInv, LockInv, LockPCs, CloseInv, Gone, KillInv, RoleInv,
     PCs, WriterPCs,
     ReaderPCs, Goto, GotoAndWakeup, pipe, Empty, Full
<1>7. ASSUME NEW p \in Procs, fileclose(p) PROVE SleepInv'
  BY <1>0, <1>7 DEF fileclose, SleepInv, LockInv, LockPCs, CloseInv, Gone, KillInv,
     RoleInv, PCs, WriterPCs,
     ReaderPCs, Goto, GotoAndWakeup, pipe, Empty, Full
<1>8. ASSUME NEW p \in Procs, pipeclose(p) PROVE SleepInv'
  BY <1>0, <1>8 DEF pipeclose, SleepInv, LockInv, LockPCs, CloseInv, Gone, KillInv,
     RoleInv, PCs, WriterPCs,
     ReaderPCs, Goto, GotoAndWakeup, pipe, Empty, Full
<1>9. ASSUME NEW p \in Victims, kill(p) PROVE SleepInv'
  BY <1>0, <1>9 DEF kill, SleepInv, LockInv, LockPCs, CloseInv, Gone, KillInv, RoleInv,
     PCs, WriterPCs,
     ReaderPCs, Goto, GotoAndWakeup, pipe, Empty, Full
<1>10. CASE UNCHANGED vars
  BY <1>10 DEF vars, pipe, SleepInv, Empty, Full, Gone
<1>. QED
  BY <1>1, <1>2, <1>3, <1>4, <1>5, <1>6, <1>7, <1>8, <1>9, <1>10 DEF Next, Run

\* kill() is asked for a victim.
LEMMA KillStep ==
    ASSUME TypeOK, KillInv, [Next]_vars
    PROVE  KillInv'
<1>1. ASSUME NEW p \in Victims, kill(p) PROVE KillInv'
  BY <1>1, PipeAssumption DEF kill, KillInv, TypeOK
<1>2. CASE UNCHANGED killed
  BY <1>2 DEF KillInv
<1>. QED
  BY <1>1, <1>2 DEF Next, Run, vars, syscall, acquire, pipewrite, piperead_wait, piperead_copy,
     sleep, fileclose, pipeclose

-----------------------------------------------------------------------------
(***************************************************************************)
(* The theorems.                                                           *)
(***************************************************************************)

\* A new pipe.
LEMMA InitInv ==
    ASSUME Init
    PROVE  IInv /\ SleepInv
<1>. USE DEF Init
<1>1. PIPESIZE \in Nat \ {0} /\ UINT \in Nat \ {0} /\ 0 \in 0 .. UINT - 1 /\ MaxN \in Nat
  BY PipeAssumption
<1>2. TypeOK
  <2>1. data \in [0 .. PIPESIZE - 1 -> Nat] /\ left \in [Procs -> 0 .. MaxN]
    BY <1>1
  <2>2. sent \in Seq(Nat) /\ taken \in Seq(Nat)
    OBVIOUS
  <2>3. pc \in [Procs -> PCs] /\ holds \in [Procs -> BOOLEAN] /\ killed \in [Procs -> BOOLEAN]
    BY DEF PCs
  <2>. QED
    BY <1>1, <2>1, <2>2, <2>3 DEF TypeOK
<1>3. LockInv /\ RoleInv /\ CloseInv /\ KillInv /\ SleepInv
  BY PipeAssumption DEF LockInv, LockPCs, RoleInv, WriterPCs, ReaderPCs, CloseInv,
     KillInv, SleepInv
<1>4. RingInv
  <2>1. 0 % UINT = 0
    BY <1>1, ModSmall
  <2>. QED
    BY <1>1, <2>1 DEF RingInv
<1>. QED
  BY <1>2, <1>3, <1>4 DEF IInv

\* The invariant is inductive.
LEMMA NextInv ==
    ASSUME IInv, [Next]_vars
    PROVE  IInv'
  BY TypeStep, LockStep, RoleStep, CloseStep, RingStep, KillStep DEF IInv

\* It holds in every reachable state.
LEMMA Invariance == Spec => []IInv
<1>1. Init => IInv
  BY InitInv
<1>2. IInv /\ [Next]_vars => IInv'
  BY NextInv
<1>. QED
  BY <1>1, <1>2, PTL DEF Spec

\* Type correctness: the counters stay uints, and the lock and every process are
\* where pipewrite(), piperead() and pipeclose() can put them.
THEOREM PipeTypeCorrect == Spec => []TypeOK
<1>1. IInv => TypeOK
  BY DEF IInv
<1>. QED
  BY <1>1, Invariance, PTL

\* pipe.c's ring loses, repeats and reorders no byte, whatever the number of
\* readers and writers, the sizes of their calls, the size of the buffer and the
\* number of times nread and nwrite have wrapped.
THEOREM PipeFifoHolds == Spec => []PipeFifo
<1>1. ASSUME IInv PROVE PipeFifo
  <2>. DEFINE T == Len(taken)
              S == Len(sent)
  <2>1. /\ T \in Nat /\ S \in Nat
        /\ \A k \in 1 .. T : taken[k] = k
        /\ \A k \in 1 .. S : sent[k] = k
        /\ T <= S /\ S <= T + PIPESIZE
        /\ nread = T % UINT /\ nwrite = S % UINT
        /\ \A i \in T .. S - 1 : data[i % PIPESIZE] = i + 1
    BY <1>1, Counters DEF IInv, RingInv
  <2>2. /\ PIPESIZE \in Nat \ {0} /\ UINT \in Nat \ {0} /\ PIPESIZE < UINT /\ UINT % PIPESIZE = 0
        /\ sent \in Seq(Nat) /\ taken \in Seq(Nat) /\ data \in [0 .. PIPESIZE - 1 -> Nat]
    BY <1>1, PipeAssumption DEF IInv, TypeOK
  <2>3. (nwrite - nread) % UINT = S - T
    <3>1. T \in Int /\ S \in Int /\ S - T \in 0 .. UINT - 1
      BY <2>1, <2>2
    <3>2. (nwrite - nread) % UINT = (S - T) % UINT
      BY <2>1, <2>2, <3>1, ModSub
    <3>. QED
      BY <2>2, <3>1, <3>2, ModSmall
  <2>4. ASSUME NEW k \in 1 .. S - T
        PROVE  data[(nread + k - 1) % PIPESIZE] = T + k
    <3>. DEFINE j == k - 1
    <3>1. T \in Int /\ j \in Int /\ T + j \in T .. S - 1 /\ (T + j) + 1 = T + k
      BY <2>1, <2>4
    <3>2. nread + k - 1 = nread + j
      BY <2>1, <2>2, <3>1
    <3>3. (nread + j) % PIPESIZE = (T + j) % PIPESIZE
      <4>. HIDE DEF T, j
      <4>1. nread = T % UINT
        BY <2>1
      <4>2. ((T % UINT) + j) % PIPESIZE = (T + j) % PIPESIZE
        BY <2>2, <3>1, ModMod
      <4>. QED
        BY <4>1, <4>2
    <3>4. data[(T + j) % PIPESIZE] = (T + j) + 1
      <4>. HIDE DEF j
      <4>1. (T + j) \in T .. S - 1
        BY <3>1
      <4>. DEFINE i == T + j
      <4>2. i \in T .. S - 1
        BY <4>1
      <4>. HIDE DEF i
      <4>3. data[i % PIPESIZE] = i + 1
        BY <2>1, <4>2
      <4>. QED
        BY <4>3 DEF i
    <3>. QED
      BY <3>1, <3>2, <3>3, <3>4
  <2>. HIDE DEF T, S
  <2>5. Buffered = [k \in 1 .. S - T |-> T + k]
    BY <2>3, <2>4 DEF Buffered
  <2>6. Len(taken) = T /\ Len(sent) = S
    BY DEF T, S
  <2>7. /\ Buffered \in Seq(Nat) /\ Len(Buffered) = S - T
        /\ \A k \in 1 .. S - T : Buffered[k] = T + k
    BY <2>1, <2>5
  <2>8. taken \o Buffered = sent
    BY <2>1, <2>2, <2>6, <2>7, NumberedConcat
  <2>. QED
    BY <2>8 DEF PipeFifo
<1>. QED
  BY <1>1, Invariance, PTL

\* pipeclose() frees the page of the pipe only when both ends are closed and nobody
\* is left in a call.
THEOREM PipeNoUseAfterFree == Spec => []NoUseAfterFree
<1>1. IInv => NoUseAfterFree
  BY DEF IInv, CloseInv, Gone, NoUseAfterFree, Procs
<1>. QED
  BY <1>1, Invariance, PTL

\* As long as no writer is killed, nobody sleeps in pipewrite() or piperead() whose
\* reason to sleep has gone.  The hypothesis is what the code needs: a killed writer
\* leaves at pipe.c:84-87 without the wakeup() for the bytes it has put.
THEOREM PipeNoLostWakeup ==
    ASSUME Victims \cap Writers = {}
    PROVE  Spec => []NoLostWakeup
<1>1. Init => IInv /\ SleepInv
  BY InitInv
<1>2. IInv /\ SleepInv /\ [Next]_vars => IInv' /\ SleepInv'
  BY NextInv, SleepStep DEF IInv
<1>3. IInv /\ SleepInv => NoLostWakeup
  BY PipeAssumption DEF IInv, LockInv, LockPCs, SleepInv, NoLostWakeup
<1>. QED
  BY <1>1, <1>2, <1>3, PTL DEF Spec

-----------------------------------------------------------------------------
(***************************************************************************)
(* Slices of a ring of P entries between two counters that wrap at U.      *)
(***************************************************************************)
Ring(U, P) == U \in Nat /\ P \in Nat \ {0} /\ U > P /\ U % P = 0

\* The D entries from counter a on are in V; some are the same in f and in g; and
\* the first D are the sequence s.
Holds(f, a, P, D, V) == \A i \in 0 .. D - 1 : f[(a + i) % P] \in V
Same(f, g, a, P, i, j) == \A k \in i .. j - 1 : g[(a + k) % P] = f[(a + k) % P]
IsSlice(s, f, a, P, D, V) ==
    s \in Seq(V) /\ Len(s) = D /\ \A k \in 1 .. D : s[k] = f[(a + (k - 1)) % P]

-----------------------------------------------------------------------------
(***************************************************************************)
(* The console: the inductive invariant.                                   *)
(***************************************************************************)
Key == {"x", "nl", "^D"}
Echo == Key \cup {"bs"}
Stages == {"idle", "putc", "putc_asleep", "start", "send", "rx", "echo", "echo_send",
           "reading", "read", "read_asleep"}
ReadStages == {"reading", "read", "read_asleep"}

\* The types of the console's and the UART's state.
InputTypes ==
    /\ r \in 0 .. UINTC - 1 /\ w \in 0 .. UINTC - 1 /\ e \in 0 .. UINTC - 1
    /\ buf \in [0 .. INPUT_BUF - 1 -> Key \cup {Nil}]
    /\ lines \in Seq(Key) /\ line \in Seq(Key)
OutputTypes ==
    /\ tx_r \in 0 .. UINTX - 1 /\ tx_w \in 0 .. UINTX - 1
    /\ tx_buf \in [0 .. UART_TX_BUF_SIZE - 1 -> Out \cup {Nil}]
    /\ echo \in Seq(Echo) /\ fifo \in Seq(Echo \cup Out) /\ written \in Seq(Out)
ControlTypes ==
    /\ clock \in Agent \cup {Nil} /\ tlock \in Agent \cup {Nil}
    /\ stage \in [Agent -> Stages]
    /\ n \in [Proc -> 0 .. MaxRead] /\ target \in [Proc -> 0 .. MaxRead]
    /\ rx \in BOOLEAN /\ irq \in BOOLEAN /\ conskilled \in [Proc -> BOOLEAN]
ConsoleTypeOK == InputTypes /\ OutputTypes /\ ControlTypes

\* A process in consoleread() still wants something.
WantInv == \A p \in Proc : stage[p] \in ReadStages => n[p] >= 1

\* From r to e the input buffer has the lines to read and the line being edited,
\* and w is where the one ends.  When the buffer is full there is no such line.
InRing(r0, w0, e0, b0, ls, li) ==
    LET D == (e0 - r0) % UINTC
    IN  /\ D <= INPUT_BUF
        /\ D = INPUT_BUF => li = <<>>
        /\ w0 = (r0 + Len(ls)) % UINTC
        /\ Holds(b0, r0, INPUT_BUF, D, Key)
        /\ Slice(b0, r0, e0, INPUT_BUF, UINTC) = ls \o li
InputInv == InRing(r, w, e, buf, lines, line)

\* Who sleeps in consoleread() has nothing to read: whoever completes a line wakes
\* him in the same critical section.
ReadSleepInv == \A p \in Proc : stage[p] = "read_asleep" => lines = <<>>

\* uart_tx_lock has one holder, who is in uartstart().
TxLockInv == \A a \in Agent : stage[a] \in {"start", "send"} <=> tlock = a

\* A cpu that saw the FIFO empty has not written to it yet; there are two such
\* at most, one with uart_tx_lock and one with an echo.
Sender == IF \E a \in Agent : stage[a] = "send" THEN 1 ELSE 0
Echoer == IF stage[Intr] = "echo_send" THEN 1 ELSE 0
FifoInv == Len(fifo) + Sender + Echoer <= 2 /\ (Echoer = 1 => echo # <<>>)

\* What was written and not sent, wr, is in the FIFO f, and then in the buffer tb
\* from counter a to counter b.
OutRing(a, b, tb, f, wr) ==
    LET D == (b - a) % UINTX
    IN  /\ D <= UART_TX_BUF_SIZE
        /\ Holds(tb, a, UART_TX_BUF_SIZE, D, Out)
        /\ OutOf(f) \o Slice(tb, a, b, UART_TX_BUF_SIZE, UINTX) = wr
OutInv ==
    /\ OutRing(tx_r, tx_w, tx_buf, fifo, written)
    /\ \A a \in Agent : stage[a] = "send" => tx_w # tx_r

\* Who sleeps in uartputc() finds the buffer full.
PutSleepInv == \A p \in Proc : stage[p] = "putc_asleep" => TxFull

\* Somebody will look at what waits for an idle UART.
StartInv == tx_r # tx_w /\ fifo = <<>> => irq \/ tlock # Nil \/ stage[Intr] # "idle"

ConsoleInv ==
    /\ ConsoleTypeOK /\ WantInv /\ InputInv /\ ReadSleepInv
    /\ TxLockInv /\ FifoInv /\ OutInv /\ PutSleepInv /\ StartInv

\* The counter m is j places after a, on the way to b.
Between(U, P, a, b, j, m) ==
    /\ (b - a) % U \in 0 .. U - 1
    /\ m \in 0 .. U - 1
    /\ (m - a) % U = j
    /\ (b - m) % U = ((b - a) % U) - j
    /\ \A i \in Nat : (m + i) % P = (a + (j + i)) % P

\* A counter on the way from one to the other.
LEMMA RingSpan ==
    ASSUME NEW U, NEW P, Ring(U, P), NEW a \in 0 .. U - 1, NEW b \in 0 .. U - 1,
           NEW j \in 0 .. (b - a) % U
    PROVE  Between(U, P, a, b, j, (a + j) % U)
<1>0. U \in Nat \ {0} /\ P \in Nat \ {0} /\ U % P = 0 /\ a \in Int /\ b \in Int
  BY DEF Ring
<1>. DEFINE D == (b - a) % U
            c == b - a
            s == a + j
            h == -j
<1>1. D \in 0 .. U - 1 /\ j \in 0 .. U - 1 /\ j \in Int /\ c \in Int /\ s \in Int /\ h \in Int
  <2>1. c \in Int
    BY <1>0
  <2>2. D \in 0 .. U - 1
    <3>. HIDE DEF c
    <3>1. c % U \in 0 .. U - 1
      BY <1>0, <2>1, ModType
    <3>. QED  BY <3>1 DEF c
  <2>. HIDE DEF D
  <2>3. j \in 0 .. D
    BY DEF D
  <2>. QED  BY <1>0, <2>1, <2>2, <2>3
<1>2. (s % U) \in 0 .. U - 1
  <2>. HIDE DEF s
  <2>. QED  BY <1>0, <1>1, ModType
<1>3. a % U = a /\ b % U = b /\ j % U = j
  BY <1>0, <1>1, ModSmall
<1>4. ((s % U) - (a % U)) % U = (s - a) % U
  <2>. HIDE DEF s
  <2>. QED  BY <1>0, <1>1, ModSub
<1>5. s - a = j
  BY <1>0, <1>1
<1>6. ((s % U) - a) % U = j
  BY <1>3, <1>4, <1>5
<1>7. ((b % U) - (s % U)) % U = (b - s) % U
  <2>. HIDE DEF s
  <2>. QED  BY <1>0, <1>1, ModSub
<1>8. ((c % U) + h) % U = (c + h) % U
  <2>. HIDE DEF c, h
  <2>. QED  BY <1>0, <1>1, ModAdd
<1>9. c + h = b - s /\ (c % U) + h = D - j
  <2>1. c + h = b - s
    BY <1>0, <1>1
  <2>2. D + h = D - j
    <3>. HIDE DEF D
    <3>. QED  BY <1>1
  <2>. QED  BY <2>1, <2>2
<1>10. (D - j) % U = D - j
  <2>. HIDE DEF D
  <2>1. D - j \in 0 .. U - 1
    BY <1>0, <1>1 DEF D
  <2>. QED  BY <1>0, <2>1, ModSmall
<1>11. (b - (s % U)) % U = D - j
  BY <1>3, <1>7, <1>8, <1>9, <1>10
<1>12. ASSUME NEW i \in Nat PROVE ((s % U) + i) % P = (a + (j + i)) % P
  <2>1. ((s % U) + i) % P = (s + i) % P
    <3>1. \A x, y \in Int : ((x % U) + y) % P = (x + y) % P
      BY <1>0, ModMod
    <3>. HIDE DEF s
    <3>. QED  BY <1>1, <3>1, i \in Int, Zenon
  <2>2. s + i = a + (j + i)
    BY <1>0, <1>1
  <2>. QED  BY <2>1, <2>2
<1>. HIDE DEF D
<1>. QED
  BY <1>1, <1>2, <1>6, <1>11, <1>12 DEF Between, D, s

\* Two places of the ring are the same only if their numbers are.
LEMMA RingPlaces ==
    ASSUME NEW U, NEW P, Ring(U, P), NEW a \in Int, NEW i \in 0 .. P - 1, NEW k \in 0 .. P - 1,
           (a + i) % P = (a + k) % P
    PROVE  i = k
<1>. DEFINE x == a + i
            y == a + k
<1>1. P \in Nat \ {0} /\ i \in Int /\ k \in Int
  BY DEF Ring
<1>2. x \in Int /\ y \in Int /\ x - P < y /\ y < x + P
  BY <1>1
<1>. HIDE DEF x, y
<1>3. x = y
  BY <1>1, <1>2, ModInj DEF x, y
<1>. QED
  BY <1>1, <1>3 DEF x, y

\* What a slice is.
LEMMA SliceIs ==
    ASSUME NEW U, NEW P, Ring(U, P), NEW a \in 0 .. U - 1, NEW b \in 0 .. U - 1,
           NEW D, D = (b - a) % U, NEW f, NEW V, Holds(f, a, P, D, V)
    PROVE  IsSlice(Slice(f, a, b, P, U), f, a, P, D, V) /\ D \in 0 .. U - 1
<1>. DEFINE s == Slice(f, a, b, P, U)
<1>1. D \in 0 .. U - 1 /\ U \in Nat
  <2>1. U \in Nat \ {0} /\ b - a \in Int
    BY DEF Ring
  <2>. DEFINE c == b - a
  <2>. HIDE DEF c
  <2>2. c % U \in 0 .. U - 1
    BY <2>1, ModType DEF c
  <2>. QED  BY <2>1, <2>2 DEF c
<1>2. s = [k \in 1 .. D |-> f[(a + k - 1) % P]]
  BY DEF Slice
<1>3. \A k \in 1 .. D : a + k - 1 = a + (k - 1) /\ k - 1 \in 0 .. D - 1
  BY <1>1
<1>4. \A i \in 0 .. D - 1 : f[(a + i) % P] \in V
  BY DEF Holds
<1>. HIDE DEF s
<1>5. s = [k \in 1 .. D |-> f[(a + (k - 1)) % P]]
  BY <1>2, <1>3
<1>6. s \in [1 .. D -> V]
  BY <1>3, <1>4, <1>5
<1>7. s \in Seq(V) /\ D \in Nat
  BY <1>1, <1>6, SeqDef
<1>8. Len(s) = D
  BY <1>6, <1>7, LenProperties
<1>. QED
  BY <1>1, <1>5, <1>7, <1>8 DEF s, IsSlice

\* One entry more at the end.
Extended(U, P, a, b, V, f, x, D) ==
    /\ Slice([f EXCEPT ![b % P] = x], a, (b + 1) % U, P, U) = Append(Slice(f, a, b, P, U), x)
    /\ (((b + 1) % U) - a) % U = D + 1
    /\ (b + 1) % U \in 0 .. U - 1
    /\ Holds([f EXCEPT ![b % P] = x], a, P, D + 1, V)

\* Its slice is the slice with one element more.
LEMMA SlicePush ==
    ASSUME NEW U, NEW P, Ring(U, P), NEW a \in 0 .. U - 1, NEW b \in 0 .. U - 1,
           NEW D, D = (b - a) % U, D < P,
           NEW V, NEW T, NEW f \in [0 .. P - 1 -> T], NEW x \in V, Holds(f, a, P, D, V)
    PROVE  Extended(U, P, a, b, V, f, x, D)
<1>. DEFINE g == [f EXCEPT ![b % P] = x]
            d == (b + 1) % U
            s == Slice(f, a, b, P, U)
            t == Slice(g, a, d, P, U)
<1>0. U \in Nat \ {0} /\ P \in Nat \ {0} /\ U % P = 0 /\ U > P /\ a \in Int /\ b \in Int
  BY DEF Ring
<1>7. IsSlice(s, f, a, P, D, V) /\ D \in 0 .. U - 1
  BY SliceIs
<1>1. D \in Nat /\ D + 1 < U
  BY <1>0, <1>7
<1>2. RingPushed(U, P, a, b, D)
  BY <1>0, <1>1, RingPush
<1>3. (d - a) % U = D + 1 /\ b % P = (a + D) % P
      /\ \A k \in 0 .. D - 1 : (a + k) % P # b % P
  BY <1>2 DEF RingPushed
<1>4. d \in 0 .. U - 1
  <2>. DEFINE c == b + 1
  <2>1. c \in Int
    BY <1>0
  <2>. HIDE DEF c
  <2>2. c % U \in 0 .. U - 1
    BY <1>0, <2>1, ModType
  <2>. QED  BY <2>2 DEF c
<1>5. b % P \in 0 .. P - 1
  BY <1>0, ModType
<1>6. g[b % P] = x /\ \A k \in 0 .. D - 1 : g[(a + k) % P] = f[(a + k) % P]
  <2>1. \A k \in 0 .. D - 1 : (a + k) % P \in 0 .. P - 1
    <3>1. \A c \in Int : c % P \in 0 .. P - 1
      BY <1>0, ModType
    <3>2. \A k \in 0 .. D - 1 : a + k \in Int
      BY <1>0, <1>1
    <3>. QED  BY <3>1, <3>2, Zenon
  <2>2. DOMAIN f = 0 .. P - 1
    OBVIOUS
  <2>3. \A y \in DOMAIN f : g[y] = IF y = b % P THEN x ELSE f[y]
    OBVIOUS
  <2>. HIDE DEF g
  <2>. QED  BY <1>3, <1>5, <2>1, <2>2, <2>3
<1>12. Holds(g, a, P, D + 1, V)
  <2>1. ASSUME NEW i \in 0 .. (D + 1) - 1 PROVE g[(a + i) % P] \in V
    <3>. HIDE DEF g
    <3>1. i \in 0 .. D - 1 \/ i = D
      BY <1>1
    <3>2. CASE i \in 0 .. D - 1
      BY <1>6, <3>2 DEF Holds
    <3>3. CASE i = D
      BY <1>3, <1>6, <3>3
    <3>. QED  BY <3>1, <3>2, <3>3
  <2>. QED  BY <2>1 DEF Holds
<1>8. IsSlice(t, g, a, P, D + 1, V)
  <2>. DEFINE D1 == D + 1
  <2>. HIDE DEF g, d, D1
  <2>1. D1 = (d - a) % U /\ Holds(g, a, P, D1, V)
    BY <1>3, <1>12 DEF D1
  <2>2. IsSlice(Slice(g, a, d, P, U), g, a, P, D1, V)
    BY <1>4, <2>1, SliceIs
  <2>. QED  BY <2>2 DEF D1
<1>9. /\ Append(s, x) \in Seq(V) /\ Len(Append(s, x)) = D + 1
      /\ \A k \in 1 .. D : Append(s, x)[k] = s[k]
      /\ Append(s, x)[D + 1] = x
  <2>. HIDE DEF s
  <2>. QED  BY <1>7, AppendProperties DEF IsSlice
<1>10. ASSUME NEW k \in 1 .. D + 1 PROVE t[k] = Append(s, x)[k]
  <2>. HIDE DEF s, t, g
  <2>1. k \in 1 .. D \/ k = D + 1
    BY <1>1
  <2>2. CASE k \in 1 .. D
    <3>1. k - 1 \in 0 .. D - 1
      BY <1>1, <2>2
    <3>. QED  BY <1>6, <1>7, <1>8, <1>9, <2>2, <3>1 DEF IsSlice
  <2>3. CASE k = D + 1
    <3>1. k - 1 = D
      BY <1>1, <2>3
    <3>. QED  BY <1>3, <1>6, <1>8, <1>9, <2>3, <3>1 DEF IsSlice
  <2>. QED  BY <2>1, <2>2, <2>3
<1>11. t = Append(s, x)
  <2>. HIDE DEF s, t, g
  <2>. QED  BY <1>8, <1>9, <1>10, SeqEqual DEF IsSlice
<1>. QED
  BY <1>3, <1>4, <1>11, <1>12 DEF Extended

\* The first j entries, in a ring that has not changed there.
Truncated(U, P, a, b, V, f, g, j) ==
    /\ Slice(g, a, (a + j) % U, P, U) = SubSeq(Slice(f, a, b, P, U), 1, j)
    /\ Holds(g, a, P, j, V)

\* Its slice is the beginning of the slice.
LEMMA SliceTrunc ==
    ASSUME NEW U, NEW P, Ring(U, P), NEW a \in 0 .. U - 1, NEW b \in 0 .. U - 1,
           NEW D, D = (b - a) % U, NEW j \in 0 .. D,
           NEW V, NEW f, NEW g, Holds(f, a, P, D, V),
           Same(f, g, a, P, 0, j)
    PROVE  Truncated(U, P, a, b, V, f, g, j)
<1>. DEFINE m == (a + j) % U
            s == Slice(f, a, b, P, U)
            t == Slice(g, a, m, P, U)
<1>1. Between(U, P, a, b, j, m)
  BY RingSpan
<1>2. D \in 0 .. U - 1 /\ m \in 0 .. U - 1 /\ (m - a) % U = j
  BY <1>1 DEF Between
<1>3. U \in Nat /\ j \in Nat /\ j <= D /\ D \in Nat
  BY <1>2 DEF Ring
<1>4. IsSlice(s, f, a, P, D, V)
  BY SliceIs
<1>5. Holds(g, a, P, j, V)
  <2>1. \A i \in 0 .. j - 1 : i \in 0 .. D - 1
    BY <1>3
  <2>. QED  BY <2>1 DEF Holds, Same
<1>6. IsSlice(t, g, a, P, j, V)
  <2>. HIDE DEF m
  <2>. QED  BY <1>2, <1>5, SliceIs
<1>. HIDE DEF s, t, m
<1>7. /\ SubSeq(s, 1, j) \in Seq(V) /\ Len(SubSeq(s, 1, j)) = j
      /\ \A k \in 1 .. j : SubSeq(s, 1, j)[k] = s[k]
  <2>1. \A i \in 1 .. j : s[i] \in V
    BY <1>3, <1>4, ElementOfSeq DEF IsSlice
  <2>2. 1 \in Int /\ j \in Int
    BY <1>3
  <2>3. /\ SubSeq(s, 1, j) \in Seq(V)
        /\ Len(SubSeq(s, 1, j)) = IF 1 <= j THEN j - 1 + 1 ELSE 0
        /\ \A i \in 1 .. j - 1 + 1 : SubSeq(s, 1, j)[i] = s[1 + i - 1]
    BY <2>1, <2>2, SubSeqProperties
  <2>4. j - 1 + 1 = j /\ (~(1 <= j) => j = 0) /\ \A i \in 1 .. j : 1 + i - 1 = i
    BY <1>3
  <2>. QED  BY <2>3, <2>4
<1>8. ASSUME NEW k \in 1 .. j PROVE t[k] = SubSeq(s, 1, j)[k]
  <2>1. k \in 1 .. D /\ k - 1 \in 0 .. j - 1
    BY <1>3
  <2>. QED  BY <1>4, <1>6, <1>7, <2>1 DEF IsSlice, Same
<1>9. t = SubSeq(s, 1, j)
  BY <1>6, <1>7, <1>8, SeqEqual DEF IsSlice
<1>. QED
  BY <1>5, <1>9 DEF t, s, m, Truncated

\* What follows the first j entries, in a ring that has not changed there.
Dropped(U, P, a, b, V, f, g, j, D) ==
    /\ Slice(g, (a + j) % U, b, P, U) = SubSeq(Slice(f, a, b, P, U), j + 1, D)
    /\ Holds(g, (a + j) % U, P, D - j, V)

\* Its slice is the end of the slice.
LEMMA SliceDrop ==
    ASSUME NEW U, NEW P, Ring(U, P), NEW a \in 0 .. U - 1, NEW b \in 0 .. U - 1,
           NEW D, D = (b - a) % U, NEW j \in 0 .. D,
           NEW V, NEW f, NEW g, Holds(f, a, P, D, V),
           Same(f, g, a, P, j, D)
    PROVE  Dropped(U, P, a, b, V, f, g, j, D)
<1>. DEFINE m == (a + j) % U
            s == Slice(f, a, b, P, U)
            t == Slice(g, m, b, P, U)
<1>1. Between(U, P, a, b, j, m)
  BY RingSpan
<1>2. D \in 0 .. U - 1 /\ m \in 0 .. U - 1 /\ (b - m) % U = D - j
      /\ \A i \in Nat : (m + i) % P = (a + (j + i)) % P
  BY <1>1 DEF Between
<1>3. U \in Nat /\ j \in Nat /\ j <= D /\ D \in Nat
  BY <1>2 DEF Ring
<1>4. IsSlice(s, f, a, P, D, V)
  BY SliceIs
<1>5. \A i \in 0 .. (D - j) - 1 : g[(m + i) % P] = f[(a + (j + i)) % P]
  <2>1. \A i \in 0 .. (D - j) - 1 : j + i \in j .. D - 1 /\ i \in Nat
    BY <1>3
  <2>. HIDE DEF m
  <2>. QED  BY <1>2, <2>1 DEF Same
<1>6. Holds(g, m, P, D - j, V)
  <2>1. \A i \in 0 .. (D - j) - 1 : j + i \in 0 .. D - 1
    BY <1>3
  <2>2. \A i \in 0 .. D - 1 : f[(a + i) % P] \in V
    BY DEF Holds
  <2>. HIDE DEF m
  <2>. QED  BY <1>5, <2>1, <2>2 DEF Holds
<1>7. IsSlice(t, g, m, P, D - j, V)
  <2>. DEFINE D1 == D - j
  <2>. HIDE DEF m, D1
  <2>1. D1 = (b - m) % U /\ Holds(g, m, P, D1, V)
    BY <1>2, <1>6 DEF D1
  <2>2. IsSlice(Slice(g, m, b, P, U), g, m, P, D1, V)
    BY <1>2, <2>1, SliceIs
  <2>. QED  BY <2>2 DEF D1
<1>. HIDE DEF s, t, m
<1>8. /\ SubSeq(s, j + 1, D) \in Seq(V) /\ Len(SubSeq(s, j + 1, D)) = D - j
      /\ \A k \in 1 .. D - j : SubSeq(s, j + 1, D)[k] = s[j + k]
  <2>1. \A i \in j + 1 .. D : s[i] \in V
    BY <1>3, <1>4, ElementOfSeq DEF IsSlice
  <2>2. j + 1 \in Int /\ D \in Int
    BY <1>3
  <2>3. /\ SubSeq(s, j + 1, D) \in Seq(V)
        /\ Len(SubSeq(s, j + 1, D)) = IF j + 1 <= D THEN D - (j + 1) + 1 ELSE 0
        /\ \A i \in 1 .. D - (j + 1) + 1 : SubSeq(s, j + 1, D)[i] = s[(j + 1) + i - 1]
    BY <2>1, <2>2, SubSeqProperties
  <2>4. /\ D - (j + 1) + 1 = D - j
        /\ ~(j + 1 <= D) => D - j = 0
        /\ \A i \in 1 .. D - j : (j + 1) + i - 1 = j + i
    BY <1>3
  <2>. QED  BY <2>3, <2>4
<1>9. ASSUME NEW k \in 1 .. D - j PROVE t[k] = SubSeq(s, j + 1, D)[k]
  <2>1. k - 1 \in 0 .. (D - j) - 1 /\ j + k \in 1 .. D /\ j + (k - 1) = (j + k) - 1
    BY <1>3
  <2>2. t[k] = f[(a + (j + (k - 1))) % P]
    BY <1>5, <1>7, <2>1 DEF IsSlice
  <2>. QED  BY <1>4, <1>8, <2>1, <2>2 DEF IsSlice
<1>10. t = SubSeq(s, j + 1, D)
  BY <1>7, <1>8, <1>9, SeqEqual DEF IsSlice
<1>. QED
  BY <1>6, <1>10 DEF t, s, m, Dropped

\* The last counter, from the first and the distance.
LEMMA RingEnd ==
    ASSUME NEW U, NEW P, Ring(U, P), NEW a \in 0 .. U - 1, NEW b \in 0 .. U - 1,
           NEW D, D = (b - a) % U
    PROVE  /\ D \in 0 .. U - 1
           /\ \A k \in Int : (a + (D + k)) % U = (b + k) % U
           /\ a # b /\ D <= P => D > 0
<1>0. U \in Nat \ {0} /\ P \in Nat \ {0} /\ U % P = 0 /\ a \in Int /\ b \in Int
  BY DEF Ring
<1>1. D \in 0 .. U - 1
  <2>. DEFINE c == b - a
  <2>1. c \in Int /\ D = c % U
    BY <1>0
  <2>. HIDE DEF c
  <2>. QED  BY <1>0, <2>1, ModType
<1>2. ASSUME NEW k \in Int PROVE (a + (D + k)) % U = (b + k) % U
  <2>. DEFINE c == b - a
              h == a + k
  <2>1. c \in Int /\ h \in Int /\ D = c % U /\ c + h = b + k /\ D + h = a + (D + k)
    BY <1>0, <1>1
  <2>. HIDE DEF c, h
  <2>2. ((c % U) + h) % U = (c + h) % U
    BY <1>0, <2>1, ModAdd
  <2>. QED  BY <2>1, <2>2
<1>3. ASSUME a # b, D <= P PROVE D > 0
  <2>1. Popped(U, P, a, b, D)
    BY <1>0, <1>1, <1>3, RingPop
  <2>. QED  BY <2>1 DEF Popped
<1>. QED
  BY <1>1, <1>2, <1>3

\* cons as the history variables see it.
InCounts(r0, w0, e0, b0, ls, li, D) ==
    /\ D = (e0 - r0) % UINTC /\ D \in Nat /\ D <= INPUT_BUF
    /\ Len(ls) \in Nat /\ Len(li) \in Nat /\ D = Len(ls) + Len(li)
    /\ (w0 - r0) % UINTC = Len(ls) /\ (e0 - w0) % UINTC = Len(li)
    /\ r0 = w0 <=> ls = <<>>
    /\ e0 = w0 <=> li = <<>>
    /\ \A k \in Int : (r0 + (D + k)) % UINTC = (e0 + k) % UINTC
    /\ \A i \in Nat : (w0 + i) % INPUT_BUF = (r0 + (Len(ls) + i)) % INPUT_BUF
    /\ Slice(b0, r0, w0, INPUT_BUF, UINTC) = ls
    /\ Slice(b0, w0, e0, INPUT_BUF, UINTC) = li

\* The two rings of the console.
LEMMA ConsoleRings == Ring(UINTC, INPUT_BUF) /\ Ring(UINTX, UART_TX_BUF_SIZE)
  BY ConsoleAssumption DEF Ring

\* Appending to a sequence that is put together from two.
LEMMA AppendConcat ==
    ASSUME NEW V, NEW s \in Seq(V), NEW t \in Seq(V), NEW x \in V
    PROVE  Append(s \o t, x) = s \o Append(t, x)
<1>. DEFINE y == <<x>>
<1>1. y \in Seq(V) /\ Append(t, x) = t \o y
  BY AppendIsConcat
<1>2. s \o t \in Seq(V)
  BY ConcatProperties
<1>3. Append(s \o t, x) = (s \o t) \o y
  BY <1>2, AppendIsConcat
<1>. HIDE DEF y
<1>4. (s \o t) \o y = s \o (t \o y)
  BY <1>1, ConcatAssociative
<1>. QED
  BY <1>1, <1>3, <1>4

\* The parts of a sequence that is put together from two.
LEMMA ConcatParts ==
    ASSUME NEW V, NEW ls \in Seq(V), NEW li \in Seq(V)
    PROVE  /\ SubSeq(ls \o li, 1, Len(ls)) = ls
           /\ SubSeq(ls \o li, Len(ls) + 1, Len(ls) + Len(li)) = li
<1>. DEFINE s == ls \o li
            L == Len(ls)
            M == Len(li)
<1>1. L \in Nat /\ M \in Nat
  BY LenProperties
<1>2. /\ s \in Seq(V) /\ Len(s) = L + M
      /\ \A i \in 1 .. L + M : s[i] = IF i <= L THEN ls[i] ELSE li[i - L]
  BY ConcatProperties
<1>. HIDE DEF s, L, M
<1>3. \A i \in 1 .. L + M : s[i] \in V
  BY <1>2, ElementOfSeq
<1>4. SubSeq(s, 1, L) = ls
  <2>1. \A i \in 1 .. L : s[i] \in V
    BY <1>1, <1>3
  <2>2. /\ SubSeq(s, 1, L) \in Seq(V)
        /\ Len(SubSeq(s, 1, L)) = IF 1 <= L THEN L - 1 + 1 ELSE 0
        /\ \A i \in 1 .. L - 1 + 1 : SubSeq(s, 1, L)[i] = s[1 + i - 1]
    BY <1>1, <2>1, 1 \in Int, L \in Int, SubSeqProperties
  <2>3. L - 1 + 1 = L /\ (~(1 <= L) => L = 0) /\ \A i \in 1 .. L : 1 + i - 1 = i /\ i \in 1 .. L + M /\ i <= L
    BY <1>1
  <2>4. Len(SubSeq(s, 1, L)) = L /\ \A i \in 1 .. L : SubSeq(s, 1, L)[i] = ls[i]
    BY <1>2, <2>2, <2>3
  <2>. QED  BY <2>2, <2>4, SeqEqual DEF L
<1>5. SubSeq(s, L + 1, L + M) = li
  <2>1. \A i \in L + 1 .. L + M : s[i] \in V
    BY <1>1, <1>3
  <2>2. /\ SubSeq(s, L + 1, L + M) \in Seq(V)
        /\ Len(SubSeq(s, L + 1, L + M))
             = IF L + 1 <= L + M THEN (L + M) - (L + 1) + 1 ELSE 0
        /\ \A i \in 1 .. (L + M) - (L + 1) + 1 : SubSeq(s, L + 1, L + M)[i] = s[(L + 1) + i - 1]
    BY <1>1, <2>1, L + 1 \in Int, L + M \in Int, SubSeqProperties
  <2>3. /\ (L + M) - (L + 1) + 1 = M /\ (~(L + 1 <= L + M) => M = 0)
        /\ \A i \in 1 .. M : /\ (L + 1) + i - 1 = L + i /\ L + i \in 1 .. L + M
                             /\ ~(L + i <= L) /\ (L + i) - L = i
    BY <1>1
  <2>4. Len(SubSeq(s, L + 1, L + M)) = M /\ \A i \in 1 .. M : SubSeq(s, L + 1, L + M)[i] = li[i]
    BY <1>2, <2>2, <2>3
  <2>. QED  BY <2>2, <2>4, SeqEqual DEF M
<1>. QED
  BY <1>4, <1>5 DEF s, L, M

\* What the invariant of the input buffer says of the counters.
LEMMA InputCounts ==
    ASSUME NEW r0 \in 0 .. UINTC - 1, NEW w0 \in 0 .. UINTC - 1, NEW e0 \in 0 .. UINTC - 1,
           NEW b0, NEW ls \in Seq(Key), NEW li \in Seq(Key),
           InRing(r0, w0, e0, b0, ls, li)
    PROVE  InCounts(r0, w0, e0, b0, ls, li, (e0 - r0) % UINTC)
<1>. DEFINE D == (e0 - r0) % UINTC
            L == Len(ls)
            M == Len(li)
            s == Slice(b0, r0, e0, INPUT_BUF, UINTC)
<1>0. Ring(UINTC, INPUT_BUF)
  BY ConsoleRings
<1>1. /\ D <= INPUT_BUF /\ w0 = (r0 + L) % UINTC
      /\ Holds(b0, r0, INPUT_BUF, D, Key) /\ s = ls \o li
  BY DEF InRing
<1>2. L \in Nat /\ M \in Nat
  BY LenProperties
<1>3. s \in Seq(Key) /\ Len(s) = L + M
  BY <1>1, ConcatProperties
<1>4. D = (e0 - r0) % UINTC
  OBVIOUS
<1>. HIDE DEF D, L, M, s
<1>5. IsSlice(s, b0, r0, INPUT_BUF, D, Key) /\ D \in 0 .. UINTC - 1
  BY <1>0, <1>1, <1>4, SliceIs DEF s
<1>6. D = L + M
  BY <1>3, <1>5 DEF IsSlice
<1>7. D \in Nat /\ L \in 0 .. D /\ D - L = M
  BY <1>2, <1>6
<1>8. Between(UINTC, INPUT_BUF, r0, e0, L, w0)
  <2>1. L \in 0 .. (e0 - r0) % UINTC
    BY <1>4, <1>7
  <2>. QED  BY <1>0, <1>1, <2>1, RingSpan
<1>9. /\ (w0 - r0) % UINTC = L /\ (e0 - w0) % UINTC = M
      /\ \A i \in Nat : (w0 + i) % INPUT_BUF = (r0 + (L + i)) % INPUT_BUF
  BY <1>4, <1>7, <1>8 DEF Between
<1>10. INPUT_BUF \in Nat \ {0} /\ UINTC \in Nat \ {0} /\ r0 \in Int /\ e0 \in Int /\ w0 \in Int
  BY <1>0 DEF Ring
<1>11. \A x \in Int : x - x = 0
  OBVIOUS
<1>12. 0 % UINTC = 0
  BY <1>10, ModSmall
<1>13. r0 = w0 <=> ls = <<>>
  <2>1. ASSUME r0 = w0 PROVE ls = <<>>
    <3>1. L = 0
      BY <1>9, <1>10, <1>11, <1>12, <2>1
    <3>. QED  BY <3>1, EmptySeq DEF L
  <2>2. ASSUME ls = <<>> PROVE r0 = w0
    <3>1. L = 0
      BY <2>2, EmptySeq DEF L
    <3>2. L <= INPUT_BUF
      BY <1>10, <3>1
    <3>3. r0 # w0 /\ (w0 - r0) % UINTC <= INPUT_BUF => (w0 - r0) % UINTC > 0
      BY <1>0, RingEnd
    <3>. QED  BY <1>9, <3>1, <3>2, <3>3
  <2>. QED  BY <2>1, <2>2
<1>14. e0 = w0 <=> li = <<>>
  <2>1. ASSUME e0 = w0 PROVE li = <<>>
    <3>1. M = 0
      BY <1>9, <1>10, <1>11, <1>12, <2>1
    <3>. QED  BY <3>1, EmptySeq DEF M
  <2>2. ASSUME li = <<>> PROVE e0 = w0
    <3>1. M = 0
      BY <2>2, EmptySeq DEF M
    <3>2. M <= INPUT_BUF
      BY <1>10, <3>1
    <3>3. w0 # e0 /\ (e0 - w0) % UINTC <= INPUT_BUF => (e0 - w0) % UINTC > 0
      BY <1>0, RingEnd
    <3>. QED  BY <1>9, <3>1, <3>2, <3>3
  <2>. QED  BY <2>1, <2>2
<1>15. \A k \in Int : (r0 + (D + k)) % UINTC = (e0 + k) % UINTC
  BY <1>0, <1>4, RingEnd
<1>16. Slice(b0, r0, w0, INPUT_BUF, UINTC) = ls
  <2>0. Same(b0, b0, r0, INPUT_BUF, 0, L)
    BY DEF Same
  <2>1. Slice(b0, r0, (r0 + L) % UINTC, INPUT_BUF, UINTC) = SubSeq(s, 1, L)
    <3>1. Truncated(UINTC, INPUT_BUF, r0, e0, Key, b0, b0, L)
      BY <1>0, <1>1, <1>4, <1>7, <2>0, SliceTrunc
    <3>. QED  BY <3>1 DEF Truncated, s
  <2>2. SubSeq(ls \o li, 1, L) = ls
    BY ConcatParts DEF L
  <2>. QED  BY <1>1, <2>1, <2>2
<1>17. Slice(b0, w0, e0, INPUT_BUF, UINTC) = li
  <2>0. Same(b0, b0, r0, INPUT_BUF, L, D)
    BY DEF Same
  <2>1. Slice(b0, (r0 + L) % UINTC, e0, INPUT_BUF, UINTC) = SubSeq(s, L + 1, D)
    <3>1. Dropped(UINTC, INPUT_BUF, r0, e0, Key, b0, b0, L, D)
      BY <1>0, <1>1, <1>4, <1>7, <2>0, SliceDrop
    <3>. QED  BY <3>1 DEF Dropped, s
  <2>2. SubSeq(ls \o li, L + 1, L + M) = li
    BY ConcatParts DEF L, M
  <2>. QED  BY <1>1, <1>6, <2>1, <2>2
<1>18. InCounts(r0, w0, e0, b0, ls, li, D)
  BY <1>1, <1>2, <1>4, <1>6, <1>7, <1>9, <1>13, <1>14, <1>15, <1>16, <1>17 DEF InCounts, L, M
<1>. QED
  BY <1>4, <1>18

-----------------------------------------------------------------------------
(***************************************************************************)
(* What consoleintr() and consoleread() do to the input buffer.            *)
(***************************************************************************)

\* Appending to what the buffer holds.
LEMMA KeyAppend ==
    ASSUME NEW ls \in Seq(Key), NEW li \in Seq(Key), NEW x \in Key
    PROVE  Append(ls \o li, x) = ls \o Append(li, x)
<1>. DEFINE V == Key
<1>1. ls \in Seq(V) /\ li \in Seq(V) /\ x \in V
  OBVIOUS
<1>. HIDE DEF V
<1>. QED
  BY <1>1, AppendConcat

\* A character is stored: it is the last of the line being edited, or completes it.
StoredIn(r0, w0, e0, e1, b1, ls, li, x) ==
    /\ e1 # (r0 + INPUT_BUF) % UINTC => InRing(r0, w0, e1, b1, ls, Append(li, x))
    /\ InRing(r0, e1, e1, b1, ls \o Append(li, x), <<>>)

PutKey(b0, i, x) == [b0 EXCEPT ![i % INPUT_BUF] = x]

\* Storing into a buffer that is not full.
LEMMA InStore ==
    ASSUME NEW r0 \in 0 .. UINTC - 1, NEW w0 \in 0 .. UINTC - 1, NEW e0 \in 0 .. UINTC - 1,
           NEW b0 \in [0 .. INPUT_BUF - 1 -> Key \cup {Nil}],
           NEW ls \in Seq(Key), NEW li \in Seq(Key), NEW x \in Key,
           InRing(r0, w0, e0, b0, ls, li), (e0 - r0) % UINTC < INPUT_BUF,
           NEW e1, e1 = (e0 + 1) % UINTC, NEW b1, b1 = PutKey(b0, e0, x)
    PROVE  /\ e1 \in 0 .. UINTC - 1 /\ b1 \in [0 .. INPUT_BUF - 1 -> Key \cup {Nil}]
           /\ StoredIn(r0, w0, e0, e1, b1, ls, li, x)
<1>. DEFINE D == (e0 - r0) % UINTC
            s == Slice(b0, r0, e0, INPUT_BUF, UINTC)
            t == Slice(b1, r0, e1, INPUT_BUF, UINTC)
            al == Append(li, x)
<1>0. Ring(UINTC, INPUT_BUF)
  BY ConsoleRings
<1>1. InCounts(r0, w0, e0, b0, ls, li, D)
  BY InputCounts
<1>2. D = (e0 - r0) % UINTC /\ D < INPUT_BUF
  OBVIOUS
<1>3. Holds(b0, r0, INPUT_BUF, D, Key) /\ s = ls \o li /\ w0 = (r0 + Len(ls)) % UINTC
  BY DEF InRing
<1>. HIDE DEF D
<1>4. D \in Nat /\ Len(ls) \in Nat /\ Len(li) \in Nat /\ D = Len(ls) + Len(li)
      /\ (r0 + (D + 1)) % UINTC = (e0 + 1) % UINTC
  BY <1>1, 1 \in Int DEF InCounts
<1>5. Extended(UINTC, INPUT_BUF, r0, e0, Key, b0, x, D)
  BY <1>0, <1>2, <1>3, SlicePush
<1>6. /\ t = Append(s, x) /\ (e1 - r0) % UINTC = D + 1 /\ e1 \in 0 .. UINTC - 1
      /\ Holds(b1, r0, INPUT_BUF, D + 1, Key)
  BY <1>5 DEF Extended, PutKey
<1>7. b1 \in [0 .. INPUT_BUF - 1 -> Key \cup {Nil}]
  BY Zenon DEF PutKey
<1>8. al \in Seq(Key) /\ Len(al) = Len(li) + 1
  BY AppendProperties
<1>9. ls \o al \in Seq(Key) /\ Len(ls \o al) = D + 1
  <2>1. ls \o al \in Seq(Key) /\ Len(ls \o al) = Len(ls) + Len(al)
    <3>. HIDE DEF al
    <3>. QED  BY <1>8, ConcatProperties
  <2>. QED  BY <1>4, <1>8, <2>1
<1>10. t = ls \o al
  BY <1>3, <1>6, KeyAppend
<1>11. INPUT_BUF \in Nat \ {0}
  BY <1>0 DEF Ring
<1>. HIDE DEF t, s, al
<1>12. ASSUME e1 # (r0 + INPUT_BUF) % UINTC PROVE InRing(r0, w0, e1, b1, ls, al)
  <2>1. D + 1 # INPUT_BUF
    BY <1>4, <1>12
  <2>2. D + 1 <= INPUT_BUF
    BY <1>2, <1>4, <1>11
  <2>. QED  BY <1>3, <1>6, <1>10, <2>1, <2>2 DEF InRing, t
<1>13. InRing(r0, e1, e1, b1, ls \o al, <<>>)
  <2>1. (ls \o al) \o <<>> = ls \o al
    BY <1>9, ConcatEmptySeq
  <2>2. D + 1 <= INPUT_BUF
    BY <1>2, <1>4, <1>11
  <2>3. e1 = (r0 + Len(ls \o al)) % UINTC
    BY <1>4, <1>9
  <2>. QED  BY <1>6, <1>10, <2>1, <2>2, <2>3 DEF InRing, t
<1>. QED
  BY <1>6, <1>7, <1>12, <1>13 DEF StoredIn, al

\* Characters of the line being edited are erased, until j are left in the buffer.
LEMMA InErase ==
    ASSUME NEW r0 \in 0 .. UINTC - 1, NEW w0 \in 0 .. UINTC - 1, NEW e0 \in 0 .. UINTC - 1,
           NEW b0, NEW b1, NEW ls \in Seq(Key), NEW li \in Seq(Key), NEW l1,
           InRing(r0, w0, e0, b0, ls, li),
           NEW j \in Nat, Len(ls) <= j, j <= (e0 - r0) % UINTC,
           NEW e1, e1 = (r0 + j) % UINTC, l1 = SubSeq(li, 1, j - Len(ls)),
           Same(b0, b1, r0, INPUT_BUF, 0, j)
    PROVE  e1 \in 0 .. UINTC - 1 /\ l1 \in Seq(Key) /\ InRing(r0, w0, e1, b1, ls, l1)
<1>. DEFINE D == (e0 - r0) % UINTC
            s == Slice(b0, r0, e0, INPUT_BUF, UINTC)
            t == Slice(b1, r0, e1, INPUT_BUF, UINTC)
            L == Len(ls)
            M == Len(li)
<1>0. Ring(UINTC, INPUT_BUF)
  BY ConsoleRings
<1>1. InCounts(r0, w0, e0, b0, ls, li, D)
  BY InputCounts
<1>2. D = (e0 - r0) % UINTC /\ L <= j /\ j <= D
  OBVIOUS
<1>3. /\ Holds(b0, r0, INPUT_BUF, D, Key) /\ s = ls \o li /\ w0 = (r0 + L) % UINTC
      /\ D <= INPUT_BUF /\ (D = INPUT_BUF => li = <<>>)
  BY DEF InRing
<1>4. D \in Nat /\ L \in Nat /\ M \in Nat /\ D = L + M
  BY <1>1 DEF InCounts
<1>. HIDE DEF D
<1>5. j \in 0 .. D
  BY <1>2, <1>4
<1>6. Truncated(UINTC, INPUT_BUF, r0, e0, Key, b0, b1, j)
  BY <1>0, <1>2, <1>3, <1>5, SliceTrunc
<1>7. t = SubSeq(s, 1, j) /\ Holds(b1, r0, INPUT_BUF, j, Key)
  BY <1>6 DEF Truncated
<1>8. Between(UINTC, INPUT_BUF, r0, e0, j, e1)
  <2>1. j \in 0 .. (e0 - r0) % UINTC
    BY <1>2, <1>5
  <2>. QED  BY <1>0, <2>1, RingSpan
<1>9. e1 \in 0 .. UINTC - 1 /\ (e1 - r0) % UINTC = j
  BY <1>8 DEF Between
<1>. DEFINE J == j - L
            c == ls \o li
<1>10. J \in 0 .. M /\ j = L + J
  BY <1>2, <1>4
<1>11. /\ c \in Seq(Key) /\ Len(c) = L + M
       /\ \A i \in 1 .. L + M : c[i] = IF i <= L THEN ls[i] ELSE li[i - L]
  BY ConcatProperties
<1>. HIDE DEF L, M, J, c
<1>12. /\ l1 \in Seq(Key) /\ Len(l1) = J /\ \A i \in 1 .. J : l1[i] = li[i]
  <2>1. \A i \in 1 .. J : li[i] \in Key
    <3>1. \A i \in 1 .. J : i \in 1 .. M
      BY <1>4, <1>10
    <3>. QED  BY <3>1, ElementOfSeq DEF M
  <2>2. J \in Int /\ l1 = SubSeq(li, 1, J)
    BY <1>4, <1>10 DEF J, L
  <2>3. /\ SubSeq(li, 1, J) \in Seq(Key)
        /\ Len(SubSeq(li, 1, J)) = IF 1 <= J THEN J - 1 + 1 ELSE 0
        /\ \A i \in 1 .. J - 1 + 1 : SubSeq(li, 1, J)[i] = li[1 + i - 1]
    BY <2>1, <2>2, 1 \in Int, SubSeqProperties
  <2>4. J - 1 + 1 = J /\ (~(1 <= J) => J = 0) /\ \A i \in 1 .. J : 1 + i - 1 = i
    BY <1>4, <1>10
  <2>. QED  BY <2>2, <2>3, <2>4
<1>13. /\ SubSeq(c, 1, j) \in Seq(Key) /\ Len(SubSeq(c, 1, j)) = j
       /\ \A i \in 1 .. j : SubSeq(c, 1, j)[i] = c[i]
  <2>1. \A i \in 1 .. j : i \in 1 .. Len(c)
    BY <1>4, <1>5, <1>11
  <2>2. \A i \in 1 .. j : c[i] \in Key
    BY <1>11, <2>1, ElementOfSeq
  <2>3. /\ SubSeq(c, 1, j) \in Seq(Key)
        /\ Len(SubSeq(c, 1, j)) = IF 1 <= j THEN j - 1 + 1 ELSE 0
        /\ \A i \in 1 .. j - 1 + 1 : SubSeq(c, 1, j)[i] = c[1 + i - 1]
    BY <2>2, 1 \in Int, j \in Int, SubSeqProperties
  <2>4. j - 1 + 1 = j /\ (~(1 <= j) => j = 0) /\ \A i \in 1 .. j : 1 + i - 1 = i
    OBVIOUS
  <2>. QED  BY <2>3, <2>4
<1>14. /\ ls \o l1 \in Seq(Key) /\ Len(ls \o l1) = L + J
       /\ \A i \in 1 .. L + J : (ls \o l1)[i] = IF i <= L THEN ls[i] ELSE l1[i - L]
  BY <1>12, ConcatProperties DEF L
<1>15. ASSUME NEW i \in 1 .. j PROVE SubSeq(c, 1, j)[i] = (ls \o l1)[i]
  <2>1. i \in 1 .. L + M /\ i \in 1 .. L + J /\ (~(i <= L) => i - L \in 1 .. J)
    BY <1>4, <1>10
  <2>. QED  BY <1>11, <1>12, <1>13, <1>14, <2>1
<1>16. SubSeq(c, 1, j) = ls \o l1
  BY <1>10, <1>13, <1>14, <1>15, SeqEqual
<1>17. ASSUME j = INPUT_BUF PROVE l1 = <<>>
  <2>1. D = INPUT_BUF
    BY <1>2, <1>3, <1>4, <1>17 DEF Ring
  <2>2. li = <<>>
    BY <1>3, <2>1
  <2>3. M = 0
    BY <2>2, EmptySeq DEF M
  <2>4. J = 0
    BY <1>10, <2>3
  <2>. QED  BY <1>12, <2>4, EmptySeq
<1>18. j <= INPUT_BUF
  <2>1. INPUT_BUF \in Nat
    BY ConsoleAssumption
  <2>. QED  BY <1>2, <1>3, <1>4, <2>1
<1>. QED
  BY <1>3, <1>7, <1>9, <1>12, <1>16, <1>17, <1>18 DEF InRing, c, t, L

\* The first character is taken.
TakenFrom(r1, w0, e0, b1, ls, li) ==
    /\ ls # <<>> /\ Tail(ls) \in Seq(Key)
    /\ r1 \in 0 .. UINTC - 1 /\ InRing(r1, w0, e0, b1, Tail(ls), li)

\* Reading from a buffer that has a complete line.
LEMMA InTake ==
    ASSUME NEW r0 \in 0 .. UINTC - 1, NEW w0 \in 0 .. UINTC - 1, NEW e0 \in 0 .. UINTC - 1,
           NEW b0, NEW b1, NEW ls \in Seq(Key), NEW li \in Seq(Key),
           InRing(r0, w0, e0, b0, ls, li), r0 # w0,
           NEW r1, r1 = (r0 + 1) % UINTC, NEW D, D = (e0 - r0) % UINTC,
           Same(b0, b1, r0, INPUT_BUF, 1, D)
    PROVE  TakenFrom(r1, w0, e0, b1, ls, li)
<1>. DEFINE s == Slice(b0, r0, e0, INPUT_BUF, UINTC)
            t == Slice(b1, r1, e0, INPUT_BUF, UINTC)
            L == Len(ls)
            M == Len(li)
<1>0. Ring(UINTC, INPUT_BUF)
  BY ConsoleRings
<1>1. InCounts(r0, w0, e0, b0, ls, li, D)
  BY InputCounts
<1>3. /\ Holds(b0, r0, INPUT_BUF, D, Key) /\ s = ls \o li /\ w0 = (r0 + L) % UINTC
      /\ D <= INPUT_BUF /\ (D = INPUT_BUF => li = <<>>)
  BY DEF InRing
<1>4. D \in Nat /\ L \in Nat /\ M \in Nat /\ D = L + M /\ ls # <<>>
  BY <1>1 DEF InCounts
<1>5. L > 0
  BY <1>4, EmptySeq
<1>6. 1 \in 0 .. D
  BY <1>4, <1>5
<1>7. Dropped(UINTC, INPUT_BUF, r0, e0, Key, b0, b1, 1, D)
  BY <1>0, <1>3, <1>6, SliceDrop
<1>8. t = SubSeq(s, 1 + 1, D) /\ Holds(b1, r1, INPUT_BUF, D - 1, Key)
  BY <1>7 DEF Dropped
<1>9. Between(UINTC, INPUT_BUF, r0, e0, 1, r1)
  <2>1. 1 \in 0 .. (e0 - r0) % UINTC
    BY <1>6
  <2>. QED  BY <1>0, <2>1, RingSpan
<1>10. r1 \in 0 .. UINTC - 1 /\ (e0 - r1) % UINTC = D - 1
  BY <1>9 DEF Between
<1>11. Tail(ls) \in Seq(Key) /\ Len(Tail(ls)) = L - 1 /\ \A i \in 1 .. L - 1 : Tail(ls)[i] = ls[i + 1]
  BY <1>4, HeadTailProperties
<1>. DEFINE c == ls \o li
<1>12. /\ c \in Seq(Key) /\ Len(c) = L + M
       /\ \A i \in 1 .. L + M : c[i] = IF i <= L THEN ls[i] ELSE li[i - L]
  BY ConcatProperties
<1>. HIDE DEF L, M, c
<1>13. /\ SubSeq(c, 2, D) \in Seq(Key) /\ Len(SubSeq(c, 2, D)) = D - 1
       /\ \A i \in 1 .. D - 1 : SubSeq(c, 2, D)[i] = c[i + 1]
  <2>1. \A i \in 2 .. D : i \in 1 .. Len(c)
    BY <1>4, <1>12
  <2>2. \A i \in 2 .. D : c[i] \in Key
    BY <1>12, <2>1, ElementOfSeq
  <2>3. /\ SubSeq(c, 2, D) \in Seq(Key)
        /\ Len(SubSeq(c, 2, D)) = IF 2 <= D THEN D - 2 + 1 ELSE 0
        /\ \A i \in 1 .. D - 2 + 1 : SubSeq(c, 2, D)[i] = c[2 + i - 1]
    BY <1>4, <2>2, 2 \in Int, D \in Int, SubSeqProperties
  <2>4. D - 2 + 1 = D - 1 /\ (~(2 <= D) => D - 1 = 0) /\ \A i \in 1 .. D - 1 : 2 + i - 1 = i + 1
    BY <1>4, <1>5
  <2>. QED  BY <2>3, <2>4
<1>. DEFINE u == Tail(ls) \o li
<1>14. /\ u \in Seq(Key) /\ Len(u) = (L - 1) + M
       /\ \A i \in 1 .. (L - 1) + M : u[i] = IF i <= L - 1 THEN Tail(ls)[i] ELSE li[i - (L - 1)]
  BY <1>11, ConcatProperties DEF M
<1>. HIDE DEF u
<1>15. (L - 1) + M = D - 1
  BY <1>4
<1>16. ASSUME NEW i \in 1 .. D - 1 PROVE SubSeq(c, 2, D)[i] = u[i]
  <2>1. /\ i + 1 \in 1 .. L + M /\ (i <= L - 1 <=> i + 1 <= L) /\ (i <= L - 1 => i \in 1 .. L - 1)
        /\ (i + 1) - L = i - (L - 1)
    BY <1>4
  <2>. QED  BY <1>11, <1>12, <1>13, <1>14, <1>15, <2>1
<1>17. SubSeq(c, 2, D) = u
  BY <1>13, <1>14, <1>15, <1>16, SeqEqual
<1>18. D - 1 <= INPUT_BUF /\ D - 1 # INPUT_BUF
  <2>1. INPUT_BUF \in Nat
    BY ConsoleAssumption
  <2>. QED  BY <1>3, <1>4, <2>1
<1>19. w0 = (r1 + Len(Tail(ls))) % UINTC
  <2>. DEFINE d == r0 + 1
              h == L - 1
  <2>1. d \in Int /\ h \in Int /\ d + h = r0 + L /\ UINTC \in Nat \ {0} /\ r1 = d % UINTC
    BY <1>0, <1>4 DEF Ring
  <2>. HIDE DEF d, h
  <2>2. ((d % UINTC) + h) % UINTC = (d + h) % UINTC
    BY <2>1, ModAdd
  <2>. QED  BY <1>3, <1>11, <2>1, <2>2 DEF h
<1>20. t = u
  BY <1>3, <1>8, <1>17, 1 + 1 = 2 DEF c
<1>21. InRing(r1, w0, e0, b1, Tail(ls), li)
  BY <1>8, <1>10, <1>18, <1>19, <1>20 DEF InRing, t, u
<1>. QED
  BY <1>4, <1>10, <1>11, <1>21 DEF TakenFrom

-----------------------------------------------------------------------------
(***************************************************************************)
(* The UART's FIFO, which never holds more than two characters.            *)
(***************************************************************************)
One(x) == IF x \in Out THEN <<x>> ELSE <<>>
SelectStep(f, g) ==
    [k \in 0 .. Len(f) |->
        IF k = 0 THEN <<>> ELSE IF f[k] \in Out THEN Append(g[k - 1], f[k]) ELSE g[k - 1]]

\* One character is one, or none.
LEMMA OneIs ==
    ASSUME NEW x
    PROVE  One(x) \in Seq(Out) /\ (x \in Out => One(x) = <<x>>) /\ (x \notin Out => One(x) = <<>>)
  BY DEF One

\* What OutOf() selects from a FIFO of at most two characters.
Selected(f) ==
    /\ Len(f) = 0 => OutOf(f) = <<>>
    /\ Len(f) = 1 => OutOf(f) = One(f[1])
    /\ Len(f) = 2 => OutOf(f) = One(f[1]) \o One(f[2])

\* It is the one, or both, or none.
LEMMA OutOfIs ==
    ASSUME NEW C, NEW f \in Seq(C), Len(f) <= 2
    PROVE  Selected(f)
<1>1. OutOf(f) = (CHOOSE g : g = SelectStep(f, g))[Len(f)]
  BY DEF OutOf, SelectStep
<1>2. Len(f) \in Nat
  BY LenProperties
<1>. DEFINE a == One(f[1])
            b == One(f[2])
            G == [k \in 0 .. Len(f) |-> IF k = 0 THEN <<>> ELSE IF k = 1 THEN a ELSE a \o b]
<1>3. a \in Seq(Out) /\ b \in Seq(Out)
  BY OneIs
<1>4. a = IF f[1] \in Out THEN Append(<<>>, f[1]) ELSE <<>>
  BY OneIs
<1>5. a \o b = IF f[2] \in Out THEN Append(a, f[2]) ELSE a
  <2>1. CASE f[2] \in Out
    <3>1. b = <<f[2]>>
      BY <2>1, OneIs
    <3>. HIDE DEF a
    <3>2. Append(a, f[2]) = a \o <<f[2]>>
      BY <1>3, <2>1, AppendIsConcat
    <3>. QED  BY <2>1, <3>1, <3>2
  <2>2. CASE f[2] \notin Out
    <3>1. b = <<>>
      BY <2>2, OneIs
    <3>. HIDE DEF a
    <3>. QED  BY <1>3, <2>2, <3>1, ConcatEmptySeq
  <2>. QED  BY <2>1, <2>2
<1>6. G = SelectStep(f, G)
  <2>1. ASSUME NEW k \in 0 .. Len(f)
        PROVE  G[k] = IF k = 0 THEN <<>>
                      ELSE IF f[k] \in Out THEN Append(G[k - 1], f[k]) ELSE G[k - 1]
    <3>1. k = 0 \/ k = 1 \/ k = 2
      BY <1>2
    <3>. HIDE DEF a, b
    <3>2. CASE k = 0
      BY <3>2
    <3>3. CASE k = 1
      <4>1. G[k] = a /\ G[k - 1] = <<>>
        BY <1>2, <3>3
      <4>. HIDE DEF G
      <4>. QED  BY <1>4, <3>3, <4>1, k # 0, Zenon
    <3>4. CASE k = 2
      <4>1. G[k] = a \o b /\ G[k - 1] = a
        BY <1>2, <3>4
      <4>. HIDE DEF G
      <4>. QED  BY <1>5, <3>4, <4>1, k # 0, Zenon
    <3>. QED  BY <3>1, <3>2, <3>3, <3>4
  <2>2. G = [k \in 0 .. Len(f) |-> G[k]]
    OBVIOUS
  <2>. HIDE DEF G
  <2>. QED  BY <2>1, <2>2 DEF SelectStep
<1>7. PICK h : h = SelectStep(f, h) /\ OutOf(f) = h[Len(f)]
  <2>. HIDE DEF G
  <2>1. \E g : g = SelectStep(f, g)
    BY <1>6
  <2>. QED  BY <1>1, <2>1
<1>8. \A k \in 0 .. Len(f) : h[k] = IF k = 0 THEN <<>>
                      ELSE IF f[k] \in Out THEN Append(h[k - 1], f[k]) ELSE h[k - 1]
  <2>. DEFINE H == SelectStep(f, h)
  <2>1. \A k \in 0 .. Len(f) : H[k] = IF k = 0 THEN <<>>
                      ELSE IF f[k] \in Out THEN Append(h[k - 1], f[k]) ELSE h[k - 1]
    BY DEF SelectStep
  <2>2. H = h
    BY <1>7
  <2>. HIDE DEF H
  <2>. QED  BY <2>1, <2>2
<1>9. h[0] = <<>>
  BY <1>2, <1>8
<1>. HIDE DEF a, b
<1>10. ASSUME Len(f) >= 1 PROVE h[1] = a
  <2>1. 1 \in 0 .. Len(f) /\ 1 # 0 /\ 1 - 1 = 0
    BY <1>2, <1>10
  <2>2. h[1] = IF f[1] \in Out THEN Append(h[0], f[1]) ELSE h[0]
    BY <1>8, <2>1
  <2>. QED  BY <1>4, <1>9, <2>2, Zenon
<1>11. ASSUME Len(f) = 2 PROVE h[2] = a \o b
  <2>1. h[1] = a
    BY <1>2, <1>10, <1>11
  <2>2. 2 \in 0 .. Len(f) /\ 2 # 0 /\ 2 - 1 = 1
    BY <1>2, <1>11
  <2>3. h[2] = IF f[2] \in Out THEN Append(h[1], f[2]) ELSE h[1]
    BY <1>8, <2>2
  <2>. QED  BY <1>5, <2>1, <2>3, Zenon
<1>12. ASSUME Len(f) = 0 PROVE OutOf(f) = <<>>
  BY <1>7, <1>9, <1>12
<1>13. ASSUME Len(f) = 1 PROVE OutOf(f) = a
  <2>1. Len(f) >= 1
    BY <1>13
  <2>. QED  BY <1>7, <1>10, <1>13, <2>1
<1>14. ASSUME Len(f) = 2 PROVE OutOf(f) = a \o b
  BY <1>7, <1>11, <1>14
<1>. QED
  BY <1>12, <1>13, <1>14 DEF a, b, Selected

\* A character is put into the FIFO.
LEMMA OutAppend ==
    ASSUME NEW C, NEW f \in Seq(C), Len(f) <= 1, NEW x \in C
    PROVE  /\ OutOf(f) \in Seq(Out) /\ Append(f, x) \in Seq(C)
           /\ Len(Append(f, x)) = Len(f) + 1
           /\ OutOf(Append(f, x)) = OutOf(f) \o One(x)
<1>. DEFINE g == Append(f, x)
<1>0. Len(f) \in Nat
  BY LenProperties
<1>1. Len(f) = 0 \/ Len(f) = 1
  <2>1. \A k \in Nat : k <= 1 => k = 0 \/ k = 1
    OBVIOUS
  <2>. QED  BY <1>0, <2>1, Zenon
<1>2. /\ g \in Seq(C) /\ Len(g) = Len(f) + 1
      /\ \A i \in 1 .. Len(f) : g[i] = f[i]
      /\ g[Len(f) + 1] = x
  BY AppendProperties
<1>3. One(x) \in Seq(Out) /\ One(f[1]) \in Seq(Out)
  BY OneIs
<1>. HIDE DEF g
<1>6. Selected(f) /\ Selected(g)
  <2>1. Len(f) <= 2 /\ Len(g) <= 2
    BY <1>0, <1>2
  <2>. QED  BY <1>2, <2>1, OutOfIs
<1>4. CASE Len(f) = 0
  <2>1. OutOf(f) = <<>>
    BY <1>4, <1>6 DEF Selected
  <2>2. OutOf(g) = One(g[1]) /\ g[1] = x
    BY <1>2, <1>4, <1>6 DEF Selected
  <2>3. <<>> \o One(x) = One(x)
    BY <1>3, ConcatEmptySeq
  <2>. QED  BY <1>2, <2>1, <2>2, <2>3, EmptySeq DEF g
<1>5. CASE Len(f) = 1
  <2>1. OutOf(f) = One(f[1])
    BY <1>5, <1>6 DEF Selected
  <2>2. OutOf(g) = One(g[1]) \o One(g[2]) /\ g[1] = f[1] /\ g[2] = x
    BY <1>2, <1>5, <1>6 DEF Selected
  <2>. QED  BY <1>2, <1>3, <2>1, <2>2 DEF g
<1>. QED
  BY <1>1, <1>4, <1>5

\* The FIFO sends a character.
LEMMA OutTail ==
    ASSUME NEW C, NEW f \in Seq(C), Len(f) <= 2, f # <<>>
    PROVE  /\ Tail(f) \in Seq(C) /\ Len(Tail(f)) = Len(f) - 1
           /\ OutOf(Tail(f)) \in Seq(Out)
           /\ OutOf(f) = One(Head(f)) \o OutOf(Tail(f))
<1>. DEFINE g == Tail(f)
<1>0. Len(f) \in Nat /\ Len(f) # 0
  BY LenProperties, EmptySeq
<1>1. Len(f) = 1 \/ Len(f) = 2
  <2>1. \A k \in Nat : k <= 2 => k = 0 \/ k = 1 \/ k = 2
    OBVIOUS
  <2>. QED  BY <1>0, <2>1, Zenon
<1>2. /\ g \in Seq(C) /\ Len(g) = Len(f) - 1 /\ \A i \in 1 .. Len(g) : g[i] = f[i + 1]
      /\ Head(f) = f[1]
  BY HeadTailProperties
<1>3. One(f[1]) \in Seq(Out) /\ One(f[2]) \in Seq(Out)
  BY OneIs
<1>. HIDE DEF g
<1>6. Selected(f) /\ Selected(g)
  <2>1. Len(g) <= 2
    BY <1>0, <1>2
  <2>. QED  BY <1>2, <2>1, OutOfIs
<1>4. CASE Len(f) = 1
  <2>1. OutOf(g) = <<>>
    BY <1>2, <1>4, <1>6 DEF Selected
  <2>2. OutOf(f) = One(f[1])
    BY <1>4, <1>6 DEF Selected
  <2>3. One(f[1]) \o <<>> = One(f[1])
    BY <1>3, ConcatEmptySeq
  <2>. QED  BY <1>2, <2>1, <2>2, <2>3, EmptySeq DEF g
<1>5. CASE Len(f) = 2
  <2>1. OutOf(f) = One(f[1]) \o One(f[2])
    BY <1>5, <1>6 DEF Selected
  <2>2. OutOf(g) = One(g[1]) /\ g[1] = f[2]
    BY <1>2, <1>5, <1>6 DEF Selected
  <2>. QED  BY <1>2, <1>3, <2>1, <2>2 DEF g
<1>. QED
  BY <1>1, <1>4, <1>5

-----------------------------------------------------------------------------
(***************************************************************************)
(* Each part of the invariant, action by action.  First the input buffer.  *)
(***************************************************************************)

\* Clearing some entries leaves the others alone.
LEMMA ClearSame ==
    ASSUME buf \in [0 .. INPUT_BUF - 1 -> Key \cup {Nil}], NEW K, NEW r0 \in Int,
           NEW i \in Int, NEW j \in Int,
           \A m \in i .. j - 1 : \A k \in K : k % INPUT_BUF # (r0 + m) % INPUT_BUF
    PROVE  /\ Clear(K) \in [0 .. INPUT_BUF - 1 -> Key \cup {Nil}]
           /\ Same(buf, Clear(K), r0, INPUT_BUF, i, j)
<1>1. DOMAIN buf = 0 .. INPUT_BUF - 1
  OBVIOUS
<1>2. Clear(K) \in [0 .. INPUT_BUF - 1 -> Key \cup {Nil}]
  BY <1>1 DEF Clear
<1>3. ASSUME NEW m \in i .. j - 1
      PROVE  Clear(K)[(r0 + m) % INPUT_BUF] = buf[(r0 + m) % INPUT_BUF]
  <2>. DEFINE y == (r0 + m) % INPUT_BUF
  <2>1. y \in 0 .. INPUT_BUF - 1
    <3>. DEFINE z == r0 + m
    <3>1. z \in Int /\ INPUT_BUF \in Nat \ {0}
      BY ConsoleAssumption
    <3>. HIDE DEF z
    <3>2. z % INPUT_BUF \in 0 .. INPUT_BUF - 1
      BY <3>1, ModType
    <3>. QED  BY <3>2 DEF z
  <2>2. ~ \E k \in K : k % INPUT_BUF = y
    OBVIOUS
  <2>. HIDE DEF y
  <2>3. Clear(K)[y] = buf[y]
    BY <1>1, <2>1, <2>2 DEF Clear
  <2>. QED  BY <2>3 DEF y
<1>. QED
  BY <1>2, <1>3 DEF Same

\* What the actions below know of the input buffer.
LEMMA InputFacts ==
    ASSUME InputTypes, InputInv
    PROVE  /\ InCounts(r, w, e, buf, lines, line, (e - r) % UINTC)
           /\ Ring(UINTC, INPUT_BUF) /\ INPUT_BUF \in Nat \ {0} /\ UINTC \in Nat \ {0}
           /\ r \in Int /\ e \in Int /\ w \in Int
<1>1. InCounts(r, w, e, buf, lines, line, (e - r) % UINTC)
  BY InputCounts DEF InputTypes, InputInv
<1>2. Ring(UINTC, INPUT_BUF)
  BY ConsoleRings
<1>. QED
  BY <1>1, <1>2 DEF Ring, InputTypes

\* The line is killed.
LEMMA KillLine ==
    ASSUME InputTypes, InputInv, UNCHANGED <<r, w, lines>>,
           e' = w, line' = <<>>, buf' = Clear(Edited)
    PROVE  InputTypes' /\ InputInv'
<1>. DEFINE D == (e - r) % UINTC
            L == Len(lines)
            M == Len(line)
<1>1. InCounts(r, w, e, buf, lines, line, D) /\ Ring(UINTC, INPUT_BUF)
      /\ INPUT_BUF \in Nat \ {0} /\ UINTC \in Nat \ {0} /\ r \in Int /\ e \in Int /\ w \in Int
  BY InputFacts
<1>2. /\ L \in Nat /\ M \in Nat /\ D \in Nat /\ D = L + M /\ D <= INPUT_BUF /\ (e - w) % UINTC = M
      /\ \A i \in Nat : (w + i) % INPUT_BUF = (r + (L + i)) % INPUT_BUF
      /\ D = (e - r) % UINTC
  BY <1>1 DEF InCounts
<1>. HIDE DEF D
<1>3. ASSUME NEW m \in 0 .. L - 1, NEW k \in Edited PROVE k % INPUT_BUF # (r + m) % INPUT_BUF
  <2>1. PICK i \in 0 .. M - 1 : k = (w + i) % UINTC
    BY <1>2 DEF Edited
  <2>. DEFINE z == w + i
  <2>2. z \in Int /\ UINTC % INPUT_BUF = 0
    BY <1>1, <1>2 DEF Ring
  <2>. HIDE DEF z
  <2>3. (z % UINTC) % INPUT_BUF = z % INPUT_BUF
    BY <1>1, <2>2, ModModPlace
  <2>4. k % INPUT_BUF = (r + (L + i)) % INPUT_BUF
    <3>1. i \in Nat
      BY <1>2
    <3>2. (w + i) % INPUT_BUF = (r + (L + i)) % INPUT_BUF
      BY <1>2, <3>1
    <3>. QED  BY <2>1, <2>3, <3>2 DEF z
  <2>5. L + i \in 0 .. INPUT_BUF - 1 /\ m \in 0 .. INPUT_BUF - 1 /\ L + i # m
    BY <1>1, <1>2
  <2>6. ASSUME (r + (L + i)) % INPUT_BUF = (r + m) % INPUT_BUF PROVE FALSE
    <3>. DEFINE q == L + i
    <3>. HIDE DEF q
    <3>1. q = m
      BY <1>1, <2>5, <2>6, RingPlaces DEF q
    <3>. QED  BY <2>5, <3>1 DEF q
  <2>. QED  BY <2>4, <2>6
<1>4. Clear(Edited) \in [0 .. INPUT_BUF - 1 -> Key \cup {Nil}]
      /\ Same(buf, Clear(Edited), r, INPUT_BUF, 0, L)
  <2>1. \A m \in 0 .. L - 1 : \A k \in Edited : k % INPUT_BUF # (r + m) % INPUT_BUF
    BY <1>3
  <2>. DEFINE K == Edited
  <2>. HIDE DEF K
  <2>2. L \in Int /\ 0 \in Int
    BY <1>2
  <2>. QED  BY <1>1, <2>1, <2>2, ClearSame DEF InputTypes, K
<1>5. <<>> = SubSeq(line, 1, L - L)
  <2>1. L - L = 0
    BY <1>2
  <2>. QED  BY <2>1, SubSeqEmpty
<1>6. w = (r + L) % UINTC
  BY DEF InputInv, InRing
<1>7. L <= L /\ L <= (e - r) % UINTC
  BY <1>2
<1>. HIDE DEF M
<1>8. PICK b1, l1 : b1 = buf' /\ l1 = line'
  OBVIOUS
<1>9. w \in 0 .. UINTC - 1 /\ l1 \in Seq(Key) /\ InRing(r, w, w, b1, lines, l1)
  <2>1. Same(buf, b1, r, INPUT_BUF, 0, L) /\ l1 = SubSeq(line, 1, L - L)
    BY <1>4, <1>5, <1>8
  <2>. QED  BY <1>2, <1>6, <1>7, <2>1, InErase DEF InputTypes, InputInv
<1>. QED
  BY <1>4, <1>8, <1>9 DEF InputTypes, InputInv

\* A character is erased.
LEMMA EraseOne ==
    ASSUME InputTypes, InputInv, UNCHANGED <<r, w, lines>>, e # w,
           e' = (e - 1) % UINTC, line' = Front(line), NEW e1, e1 = (e - 1) % UINTC,
           buf' = Clear({e1})
    PROVE  InputTypes' /\ InputInv'
<1>. DEFINE D == (e - r) % UINTC
            L == Len(lines)
            M == Len(line)
            j == D - 1
<1>1. InCounts(r, w, e, buf, lines, line, D) /\ Ring(UINTC, INPUT_BUF)
      /\ INPUT_BUF \in Nat \ {0} /\ UINTC \in Nat \ {0} /\ r \in Int /\ e \in Int /\ w \in Int
  BY InputFacts
<1>2. /\ L \in Nat /\ M \in Nat /\ D \in Nat /\ D = L + M /\ D <= INPUT_BUF /\ line # <<>>
      /\ \A k \in Int : (r + (D + k)) % UINTC = (e + k) % UINTC
      /\ D = (e - r) % UINTC
  BY <1>1 DEF InCounts
<1>. HIDE DEF D
<1>3. M > 0
  BY <1>2, EmptySeq DEF InputTypes
<1>4. j \in Nat /\ L <= j /\ j <= D /\ j < INPUT_BUF /\ j - L = M - 1 /\ D + (-1) = j /\ e + (-1) = e - 1
  BY <1>1, <1>2, <1>3
<1>5. e1 = (r + j) % UINTC
  <2>1. (r + (D + (-1))) % UINTC = (e + (-1)) % UINTC
    BY <1>2, -1 \in Int
  <2>. QED  BY <1>4, <2>1
<1>. HIDE DEF j
<1>6. e1 % INPUT_BUF = (r + j) % INPUT_BUF
  <2>. DEFINE z == r + j
  <2>1. z \in Int /\ UINTC % INPUT_BUF = 0
    BY <1>1, <1>4 DEF Ring
  <2>. HIDE DEF z
  <2>2. (z % UINTC) % INPUT_BUF = z % INPUT_BUF
    BY <1>1, <2>1, ModModPlace
  <2>. QED  BY <1>5, <2>2 DEF z
<1>7. ASSUME NEW m \in 0 .. j - 1, NEW k \in {e1} PROVE k % INPUT_BUF # (r + m) % INPUT_BUF
  <2>1. ASSUME (r + j) % INPUT_BUF = (r + m) % INPUT_BUF PROVE FALSE
    <3>1. j \in 0 .. INPUT_BUF - 1 /\ m \in 0 .. INPUT_BUF - 1 /\ j # m
      BY <1>1, <1>4
    <3>2. j = m
      BY <1>1, <2>1, <3>1, RingPlaces
    <3>. QED  BY <3>1, <3>2
  <2>. QED  BY <1>6, <2>1
<1>8. PICK K, b1, l1 : K = {e1} /\ b1 = buf' /\ l1 = line'
  OBVIOUS
<1>9. Clear(K) \in [0 .. INPUT_BUF - 1 -> Key \cup {Nil}]
      /\ Same(buf, Clear(K), r, INPUT_BUF, 0, j)
  <2>1. \A m \in 0 .. j - 1 : \A k \in K : k % INPUT_BUF # (r + m) % INPUT_BUF
    BY <1>7, <1>8
  <2>2. j \in Int /\ 0 \in Int
    BY <1>4
  <2>. QED  BY <1>1, <2>1, <2>2, ClearSame DEF InputTypes
<1>10. e1 \in 0 .. UINTC - 1 /\ l1 \in Seq(Key) /\ InRing(r, w, e1, b1, lines, l1)
  <2>1. Same(buf, b1, r, INPUT_BUF, 0, j) /\ b1 = Clear(K)
    BY <1>8, <1>9
  <2>2. l1 = SubSeq(line, 1, j - Len(lines))
    BY <1>4, <1>8 DEF Front
  <2>3. Len(lines) <= j /\ j <= (e - r) % UINTC
    BY <1>2, <1>4
  <2>. QED  BY <1>4, <1>5, <2>1, <2>2, <2>3, InErase DEF InputTypes, InputInv
<1>. QED
  BY <1>8, <1>9, <1>10 DEF InputTypes, InputInv

\* A character is stored.
LEMMA StoreOne ==
    ASSUME InputTypes, InputInv, NEW x \in Key, ~InputFull, r' = r,
           NEW e1, e1 = (e + 1) % UINTC, e' = e1,
           buf' = PutKey(buf, e, x),
           \/ w' = e1 /\ lines' = lines \o Append(line, x) /\ line' = <<>>
           \/ /\ e1 # (r + INPUT_BUF) % UINTC
              /\ line' = Append(line, x) /\ UNCHANGED <<w, lines>>
    PROVE  InputTypes' /\ InputInv'
<1>1. PICK b1 : b1 = buf' /\ b1 = PutKey(buf, e, x)
  BY DEF PutKey
<1>2. (e - r) % UINTC < INPUT_BUF
  <2>. DEFINE D == (e - r) % UINTC
  <2>1. D \in Nat /\ INPUT_BUF \in Nat
    BY InputFacts DEF InCounts
  <2>2. ~(D >= INPUT_BUF)
    BY DEF InputFull
  <2>. HIDE DEF D
  <2>3. D < INPUT_BUF
    BY <2>1, <2>2
  <2>. QED  BY <2>3 DEF D
<1>3. /\ e1 \in 0 .. UINTC - 1 /\ b1 \in [0 .. INPUT_BUF - 1 -> Key \cup {Nil}]
      /\ StoredIn(r, w, e, e1, b1, lines, line, x)
  BY <1>1, <1>2, InStore DEF InputTypes, InputInv
<1>4. Append(line, x) \in Seq(Key)
  BY AppendProperties DEF InputTypes
<1>5. CASE w' = e1 /\ lines' = lines \o Append(line, x) /\ line' = <<>>
  <2>1. InRing(r, e1, e1, b1, lines \o Append(line, x), <<>>)
    BY <1>3 DEF StoredIn
  <2>2. lines \o Append(line, x) \in Seq(Key) /\ <<>> \in Seq(Key)
    <3>. DEFINE y == Append(line, x)
    <3>. HIDE DEF y
    <3>1. lines \o y \in Seq(Key)
      BY <1>4, ConcatProperties DEF y, InputTypes
    <3>. QED  BY <3>1, EmptySeq DEF y
  <2>. QED  BY <1>1, <1>3, <1>5, <2>1, <2>2 DEF InputTypes, InputInv
<1>6. CASE /\ e1 # (r + INPUT_BUF) % UINTC
           /\ line' = Append(line, x) /\ UNCHANGED <<w, lines>>
  <2>1. InRing(r, w, e1, b1, lines, Append(line, x))
    BY <1>3, <1>6 DEF StoredIn
  <2>. QED  BY <1>1, <1>3, <1>4, <1>6, <2>1 DEF InputTypes, InputInv
<1>. QED
  BY <1>5, <1>6

\* A character is read.
LEMMA TakeOne ==
    ASSUME InputTypes, InputInv, r # w,
           r' = (r + 1) % UINTC, lines' = Tail(lines), buf' = Clear({r}), UNCHANGED <<w, e, line>>
    PROVE  InputTypes' /\ InputInv' /\ lines # <<>>
<1>. DEFINE D == (e - r) % UINTC
<1>1. InCounts(r, w, e, buf, lines, line, D) /\ Ring(UINTC, INPUT_BUF)
      /\ INPUT_BUF \in Nat \ {0} /\ UINTC \in Nat \ {0} /\ r \in Int /\ e \in Int /\ w \in Int
  BY InputFacts
<1>2. D \in Nat /\ D <= INPUT_BUF /\ D = (e - r) % UINTC
  BY <1>1 DEF InCounts
<1>. HIDE DEF D
<1>3. PICK K, b1, r1, l1 : K = {r} /\ b1 = buf' /\ r1 = r' /\ l1 = lines'
  OBVIOUS
<1>4. ASSUME NEW m \in 1 .. D - 1, NEW k \in K PROVE k % INPUT_BUF # (r + m) % INPUT_BUF
  <2>1. ASSUME (r + 0) % INPUT_BUF = (r + m) % INPUT_BUF PROVE FALSE
    <3>1. 0 \in 0 .. INPUT_BUF - 1 /\ m \in 0 .. INPUT_BUF - 1 /\ 0 # m
      BY <1>1, <1>2
    <3>2. 0 = m
      BY <1>1, <2>1, <3>1, RingPlaces
    <3>. QED  BY <3>1, <3>2
  <2>2. k = r + 0
    BY <1>1, <1>3
  <2>. QED  BY <2>1, <2>2
<1>5. Clear(K) \in [0 .. INPUT_BUF - 1 -> Key \cup {Nil}]
      /\ Same(buf, Clear(K), r, INPUT_BUF, 1, D)
  <2>1. \A m \in 1 .. D - 1 : \A k \in K : k % INPUT_BUF # (r + m) % INPUT_BUF
    BY <1>4
  <2>2. D \in Int /\ 1 \in Int
    BY <1>2
  <2>. QED  BY <1>1, <2>1, <2>2, ClearSame DEF InputTypes
<1>6. TakenFrom(r1, w, e, b1, lines, line)
  <2>1. Same(buf, b1, r, INPUT_BUF, 1, D) /\ r1 = (r + 1) % UINTC
    BY <1>3, <1>5
  <2>. QED  BY <1>2, <2>1, InTake DEF InputTypes, InputInv
<1>. QED
  BY <1>3, <1>5, <1>6 DEF InputTypes, InputInv, TakenFrom

\* Only consoleintr() and consoleread() touch the input buffer.
LEMMA InputStep ==
    ASSUME ConsoleInv, [ConsoleNext]_consolevars
    PROVE  InputTypes' /\ InputInv'
<1>0. InputTypes /\ InputInv
  BY DEF ConsoleInv, ConsoleTypeOK
<1>1. CASE UNCHANGED input
  BY <1>0, <1>1 DEF input, InputTypes, InputInv
<1>2. ASSUME NEW c \in Typed, consoleintr(c) PROVE InputTypes' /\ InputInv'
  <2>1. CASE c = "^U"
    <3>1. UNCHANGED <<r, w, lines>> /\ e' = w /\ line' = <<>> /\ buf' = Clear(Edited)
      BY <1>2, <2>1 DEF consoleintr
    <3>. QED  BY <1>0, <3>1, KillLine
  <2>2. CASE c = "^H"
    <3>1. CASE e = w
      BY <1>1, <1>2, <2>2, <3>1 DEF consoleintr
    <3>2. CASE e # w
      <4>. DEFINE e1 == (e - 1) % UINTC
      <4>1. UNCHANGED <<r, w, lines>> /\ e' = e1 /\ line' = Front(line) /\ buf' = Clear({e'})
        BY <1>2, <2>2, <3>2 DEF consoleintr
      <4>2. buf' = Clear({e1})
        BY <4>1 DEF Clear
      <4>. QED  BY <1>0, <3>2, <4>1, <4>2, EraseOne
    <3>. QED  BY <3>1, <3>2
  <2>3. CASE c \in {"x", "cr", "^D"}
    <3>1. CASE InputFull
      BY <1>1, <1>2, <2>3, <3>1 DEF consoleintr
    <3>2. CASE ~InputFull
      <4>. DEFINE e1 == (e + 1) % UINTC
                  x == Stored(c)
      <4>1. x \in Key
        BY <2>3 DEF Stored, Key
      <4>2. /\ r' = r /\ e' = e1 /\ buf' = PutKey(buf, e, x)
            /\ IF Completes(c)
               THEN w' = e' /\ lines' = lines \o Append(line, x) /\ line' = <<>>
               ELSE line' = Append(line, x) /\ UNCHANGED <<w, lines>>
        BY <1>2, <2>3, <3>2 DEF consoleintr, PutKey
      <4>3. ~Completes(c) => e1 # (r + INPUT_BUF) % UINTC
        BY DEF Completes
      <4>. HIDE DEF x
      <4>4. \/ w' = e1 /\ lines' = lines \o Append(line, x) /\ line' = <<>>
            \/ /\ e1 # (r + INPUT_BUF) % UINTC
               /\ line' = Append(line, x) /\ UNCHANGED <<w, lines>>
        BY <4>2, <4>3
      <4>. HIDE DEF e1
      <4>5. e1 = (e + 1) % UINTC
        BY DEF e1
      <4>. QED  BY <1>0, <3>2, <4>1, <4>2, <4>4, <4>5, StoreOne
    <3>. QED  BY <3>1, <3>2
  <2>. QED  BY <2>1, <2>2, <2>3 DEF Typed
<1>3. ASSUME NEW p \in Proc, NEW copied \in BOOLEAN, consoleread(p, copied)
      PROVE  InputTypes' /\ InputInv'
  <2>1. \/ UNCHANGED input
        \/ /\ r # w /\ r' = (r + 1) % UINTC /\ lines' = Tail(lines) /\ buf' = Clear({r})
           /\ UNCHANGED <<w, e, line>>
    BY <1>3 DEF consoleread
  <2>. QED  BY <1>0, <1>1, <2>1, TakeOne
<1>4. CASE ConsoleNext
  <2>1. \/ UNCHANGED input \/ (\E c \in Typed : consoleintr(c))
        \/ \E p \in Proc : \E copied \in BOOLEAN : consoleread(p, copied)
    BY <1>4 DEF ConsoleNext, uart_send, uart_receive, uartintr, uartintr_tx, consoleintr_end,
       uartputc_sync, uartputc_sync_send, uartstart, uartstart_send, uartputc, sys_read,
       consoleread_awake, consoleread_wait, consolekill
  <2>. QED  BY <1>1, <1>2, <1>3, <2>1
<1>5. CASE UNCHANGED consolevars
  BY <1>1, <1>5 DEF consolevars
<1>. QED
  BY <1>4, <1>5

-----------------------------------------------------------------------------
(***************************************************************************)
(* What the UART's driver does to its buffer and to the FIFO.              *)
(***************************************************************************)

\* A ring is full when one counter is a buffer ahead of the other.
LEMMA RingFull ==
    ASSUME NEW U, NEW P, Ring(U, P), NEW a \in 0 .. U - 1, NEW b \in 0 .. U - 1
    PROVE  b = (a + P) % U <=> (b - a) % U = P
<1>0. U \in Nat \ {0} /\ P \in Nat \ {0} /\ P \in 0 .. U - 1 /\ a \in Int /\ b \in Int
  BY DEF Ring
<1>1. ASSUME (b - a) % U = P PROVE b = (a + P) % U
  <2>. DEFINE D == (b - a) % U
  <2>1. D = (b - a) % U /\ D = P
    BY <1>1
  <2>. HIDE DEF D
  <2>2. (a + (D + 0)) % U = (b + 0) % U
    BY <2>1, RingEnd, 0 \in Int
  <2>3. D + 0 = P /\ b + 0 = b /\ b % U = b
    BY <1>0, <2>1, ModSmall
  <2>. QED  BY <2>2, <2>3
<1>2. ASSUME b = (a + P) % U PROVE (b - a) % U = P
  <2>. DEFINE z == a + P
  <2>1. z \in Int /\ z - a = P /\ a % U = a /\ P % U = P /\ b = z % U
    BY <1>0, <1>2, ModSmall
  <2>. HIDE DEF z
  <2>2. ((z % U) - (a % U)) % U = (z - a) % U
    BY <1>0, <2>1, ModSub
  <2>. QED  BY <2>1, <2>2
<1>. QED
  BY <1>1, <1>2

\* The head and the rest make the sequence; and the rest is what follows the head.
LEMMA HeadRest ==
    ASSUME NEW V, NEW s \in Seq(V), NEW x \in V
    PROVE  /\ s # <<>> => <<s[1]>> \o SubSeq(s, 2, Len(s)) = s
           /\ Tail(<<x>> \o s) = s
<1>1. ASSUME s # <<>> PROVE <<s[1]>> \o SubSeq(s, 2, Len(s)) = s
  <2>1. Len(s) \in Nat /\ Len(s) # 0
    BY <1>1, EmptySeq, LenProperties
  <2>2. 1 \in 1 .. Len(s) /\ Len(s) \in 1 .. Len(s)
    BY <2>1
  <2>3. SubSeq(s, 1, Len(s)) = <<s[1]>> \o SubSeq(s, 1 + 1, Len(s))
    BY <2>2, SubSeqRecursiveFirst
  <2>4. SubSeq(s, 1, Len(s)) = s /\ 1 + 1 = 2
    BY SubSeqFull
  <2>. QED  BY <2>3, <2>4
<1>2. Tail(<<x>> \o s) = s
  <2>. DEFINE y == <<x>>
              t == y \o s
  <2>1. y \in Seq(V) /\ Len(y) = 1
    OBVIOUS
  <2>. HIDE DEF y
  <2>2. /\ t \in Seq(V) /\ Len(t) = 1 + Len(s)
        /\ \A i \in 1 .. 1 + Len(s) : t[i] = IF i <= 1 THEN y[i] ELSE s[i - 1]
    <3>1. /\ y \o s \in Seq(V) /\ Len(y \o s) = Len(y) + Len(s)
          /\ \A i \in 1 .. Len(y) + Len(s) : (y \o s)[i] = IF i <= Len(y) THEN y[i] ELSE s[i - Len(y)]
      BY <2>1, ConcatProperties
    <3>. QED  BY <2>1, <3>1
  <2>3. Len(s) \in Nat
    BY LenProperties
  <2>. HIDE DEF t
  <2>4. t # <<>>
    BY <2>2, <2>3, EmptySeq
  <2>5. Tail(t) \in Seq(V) /\ Len(Tail(t)) = Len(t) - 1
        /\ \A i \in 1 .. Len(Tail(t)) : Tail(t)[i] = t[i + 1]
    BY <2>2, <2>4, HeadTailProperties
  <2>6. Len(Tail(t)) = Len(s)
    BY <2>2, <2>3, <2>5
  <2>7. ASSUME NEW i \in 1 .. Len(s) PROVE Tail(t)[i] = s[i]
    <3>1. i + 1 \in 1 .. 1 + Len(s) /\ ~(i + 1 <= 1) /\ (i + 1) - 1 = i
      BY <2>3
    <3>. QED  BY <2>2, <2>5, <2>6, <3>1
  <2>8. Tail(t) = s
    BY <2>5, <2>6, <2>7, SeqEqual
  <2>. QED  BY <2>8 DEF t, y
<1>. QED
  BY <1>1, <1>2

\* The same facts for what processes wrote.
LEMMA OutConcat ==
    ASSUME NEW s \in Seq(Out), NEW t \in Seq(Out), NEW u \in Seq(Out)
    PROVE  (s \o t) \o u = s \o (t \o u)
<1>. DEFINE V == Out
<1>1. s \in Seq(V) /\ t \in Seq(V) /\ u \in Seq(V)
  OBVIOUS
<1>. HIDE DEF V
<1>. QED
  BY <1>1, ConcatAssociative

\* And one for a character more.
LEMMA OutAppendTo ==
    ASSUME NEW ls \in Seq(Out), NEW li \in Seq(Out), NEW x \in Out
    PROVE  Append(ls \o li, x) = ls \o Append(li, x)
<1>. DEFINE V == Out
<1>1. ls \in Seq(V) /\ li \in Seq(V) /\ x \in V
  OBVIOUS
<1>. HIDE DEF V
<1>. QED
  BY <1>1, AppendConcat

\* What the FIFO sends, the buffer with a character put in it, and the counters.
Sent == Echo \cup Out
PutOut(tb, i, x) == [tb EXCEPT ![i % UART_TX_BUF_SIZE] = x]
OutCounts(a, b, tb, D) ==
    /\ D = (b - a) % UINTX /\ D \in 0 .. UINTX - 1 /\ D <= UART_TX_BUF_SIZE
    /\ Holds(tb, a, UART_TX_BUF_SIZE, D, Out)
    /\ IsSlice(Slice(tb, a, b, UART_TX_BUF_SIZE, UINTX), tb, a, UART_TX_BUF_SIZE, D, Out)
    /\ b = (a + UART_TX_BUF_SIZE) % UINTX <=> D = UART_TX_BUF_SIZE
    /\ a # b => D > 0
    /\ Ring(UINTX, UART_TX_BUF_SIZE) /\ UART_TX_BUF_SIZE \in Nat \ {0} /\ UINTX \in Nat \ {0}

\* What the invariant of the transmit buffer says of the counters.
LEMMA OutputCounts ==
    ASSUME NEW a \in 0 .. UINTX - 1, NEW b \in 0 .. UINTX - 1, NEW tb, NEW f, NEW wr,
           OutRing(a, b, tb, f, wr)
    PROVE  OutCounts(a, b, tb, (b - a) % UINTX)
<1>. DEFINE D == (b - a) % UINTX
<1>1. D = (b - a) % UINTX /\ D <= UART_TX_BUF_SIZE /\ Holds(tb, a, UART_TX_BUF_SIZE, D, Out)
  BY DEF OutRing
<1>. HIDE DEF D
<1>2. Ring(UINTX, UART_TX_BUF_SIZE)
  BY ConsoleRings
<1>3. /\ IsSlice(Slice(tb, a, b, UART_TX_BUF_SIZE, UINTX), tb, a, UART_TX_BUF_SIZE, D, Out)
      /\ D \in 0 .. UINTX - 1
  BY <1>1, <1>2, SliceIs
<1>4. b = (a + UART_TX_BUF_SIZE) % UINTX <=> (b - a) % UINTX = UART_TX_BUF_SIZE
  BY <1>2, RingFull
<1>5. a # b => D > 0
  BY <1>1, <1>2, RingEnd
<1>6. UART_TX_BUF_SIZE \in Nat \ {0} /\ UINTX \in Nat \ {0}
  BY <1>2 DEF Ring
<1>. QED
  BY <1>1, <1>2, <1>3, <1>4, <1>5, <1>6 DEF OutCounts

\* What OutOf() selects was written by processes.
LEMMA OutOfType ==
    ASSUME NEW C, NEW f \in Seq(C), Len(f) <= 2
    PROVE  OutOf(f) \in Seq(Out)
<1>1. CASE f = <<>>
  <2>1. Selected(f) /\ Len(f) = 0
    BY <1>1, OutOfIs, EmptySeq
  <2>. QED  BY <2>1, EmptySeq DEF Selected
<1>2. CASE f # <<>>
  <2>1. /\ OutOf(Tail(f)) \in Seq(Out) /\ OutOf(f) = One(Head(f)) \o OutOf(Tail(f))
    BY <1>2, OutTail
  <2>2. One(Head(f)) \in Seq(Out)
    BY OneIs
  <2>. QED  BY <2>1, <2>2, ConcatProperties
<1>. QED
  BY <1>1, <1>2

\* uartputc() puts a character into the buffer.
LEMMA OutPut ==
    ASSUME NEW a \in 0 .. UINTX - 1, NEW b \in 0 .. UINTX - 1,
           NEW tb \in [0 .. UART_TX_BUF_SIZE - 1 -> Out \cup {Nil}],
           NEW f \in Seq(Sent), Len(f) <= 2, NEW wr \in Seq(Out), NEW x \in Out,
           OutRing(a, b, tb, f, wr), b # (a + UART_TX_BUF_SIZE) % UINTX,
           NEW b1, b1 = (b + 1) % UINTX, NEW tb1, tb1 = PutOut(tb, b, x)
    PROVE  /\ b1 \in 0 .. UINTX - 1 /\ tb1 \in [0 .. UART_TX_BUF_SIZE - 1 -> Out \cup {Nil}]
           /\ OutRing(a, b1, tb1, f, Append(wr, x)) /\ Append(wr, x) \in Seq(Out)
<1>. DEFINE D == (b - a) % UINTX
            s == Slice(tb, a, b, UART_TX_BUF_SIZE, UINTX)
            t == Slice(tb1, a, b1, UART_TX_BUF_SIZE, UINTX)
            o == OutOf(f)
<1>1. OutCounts(a, b, tb, D)
  BY OutputCounts
<1>2. wr = o \o s
  BY DEF OutRing
<1>3. o \in Seq(Out)
  BY OutOfType
<1>. HIDE DEF D
<1>4. D < UART_TX_BUF_SIZE /\ D \in Nat /\ s \in Seq(Out)
  BY <1>1 DEF OutCounts, IsSlice
<1>5. Extended(UINTX, UART_TX_BUF_SIZE, a, b, Out, tb, x, D)
  BY <1>1, <1>4, SlicePush DEF OutCounts
<1>6. /\ t = Append(s, x) /\ (b1 - a) % UINTX = D + 1 /\ b1 \in 0 .. UINTX - 1
      /\ Holds(tb1, a, UART_TX_BUF_SIZE, D + 1, Out)
  BY <1>5 DEF Extended, PutOut
<1>7. tb1 \in [0 .. UART_TX_BUF_SIZE - 1 -> Out \cup {Nil}]
  BY Zenon DEF PutOut
<1>. HIDE DEF s, t, o
<1>8. Append(o \o s, x) = o \o Append(s, x)
  BY <1>3, <1>4, OutAppendTo
<1>9. Append(wr, x) \in Seq(Out)
  BY AppendProperties
<1>10. D + 1 <= UART_TX_BUF_SIZE
  BY <1>1, <1>4 DEF OutCounts
<1>11. o \o t = Append(wr, x)
  BY <1>2, <1>6, <1>8
<1>12. OutRing(a, b1, tb1, f, Append(wr, x))
  BY <1>6, <1>10, <1>11 DEF OutRing, o, t
<1>. QED
  BY <1>6, <1>7, <1>9, <1>12

\* uartstart() moves a character from the buffer to the FIFO.
FifoMoved(f, f1, tb, a) == f1 = Append(f, tb[a % UART_TX_BUF_SIZE])
LEMMA OutMove ==
    ASSUME NEW a \in 0 .. UINTX - 1, NEW b \in 0 .. UINTX - 1,
           NEW tb \in [0 .. UART_TX_BUF_SIZE - 1 -> Out \cup {Nil}],
           NEW f \in Seq(Sent), Len(f) <= 1, NEW wr \in Seq(Out),
           OutRing(a, b, tb, f, wr), a # b,
           NEW a1, a1 = (a + 1) % UINTX, NEW tb1, tb1 = PutOut(tb, a, Nil),
           NEW f1, FifoMoved(f, f1, tb, a)
    PROVE  /\ a1 \in 0 .. UINTX - 1 /\ tb1 \in [0 .. UART_TX_BUF_SIZE - 1 -> Out \cup {Nil}]
           /\ f1 \in Seq(Sent) /\ Len(f1) = Len(f) + 1
           /\ OutRing(a1, b, tb1, f1, wr)
<1>. DEFINE D == (b - a) % UINTX
            P == UART_TX_BUF_SIZE
            s == Slice(tb, a, b, P, UINTX)
            t == Slice(tb1, a1, b, P, UINTX)
            o == OutOf(f)
            x == tb[a % P]
<1>1. OutCounts(a, b, tb, D)
  BY OutputCounts
<1>2. wr = o \o s
  BY DEF OutRing
<1>. HIDE DEF D, P
<1>3. /\ D \in 0 .. UINTX - 1 /\ D > 0 /\ D <= P /\ P \in Nat \ {0} /\ UINTX \in Nat \ {0}
      /\ Holds(tb, a, P, D, Out) /\ IsSlice(s, tb, a, P, D, Out) /\ D = (b - a) % UINTX
      /\ Ring(UINTX, P)
  BY <1>1 DEF OutCounts, P
<1>4. D \in Nat /\ 1 \in 0 .. D /\ 0 \in 0 .. D - 1 /\ a + 0 = a /\ a \in Int
  BY <1>3
<1>5. x \in Out
  BY <1>3, <1>4 DEF Holds
<1>6. ASSUME NEW k \in 1 .. D - 1 PROVE tb1[(a + k) % P] = tb[(a + k) % P]
  <2>1. (a + k) % P # (a + 0) % P
    <3>1. ASSUME (a + k) % P = (a + 0) % P PROVE FALSE
      <4>1. 0 \in 0 .. P - 1 /\ k \in 0 .. P - 1 /\ 0 # k
        BY <1>3, <1>4
      <4>2. k = 0
        BY <1>3, <1>4, <3>1, <4>1, RingPlaces
      <4>. QED  BY <4>1, <4>2
    <3>. QED  BY <3>1
  <2>2. (a + k) % P \in 0 .. P - 1
    <3>. DEFINE z == a + k
    <3>1. z \in Int
      BY <1>4
    <3>. HIDE DEF z
    <3>2. z % P \in 0 .. P - 1
      BY <1>3, <3>1, ModType
    <3>. QED  BY <3>2 DEF z
  <2>3. DOMAIN tb = 0 .. P - 1
    BY DEF P
  <2>. DEFINE y == (a + k) % P
  <2>4. y # a % P /\ y \in DOMAIN tb
    BY <1>4, <2>1, <2>2, <2>3
  <2>. HIDE DEF y
  <2>5. tb1[y] = tb[y]
    BY <2>4, Zenon DEF PutOut, P
  <2>. QED  BY <2>5 DEF y
<1>7. Same(tb, tb1, a, P, 1, D)
  BY <1>6 DEF Same
<1>8. Dropped(UINTX, P, a, b, Out, tb, tb1, 1, D)
  BY <1>3, <1>4, <1>7, SliceDrop
<1>9. t = SubSeq(s, 1 + 1, D) /\ Holds(tb1, a1, P, D - 1, Out)
  BY <1>8 DEF Dropped
<1>10. Between(UINTX, P, a, b, 1, a1)
  <2>1. 1 \in 0 .. (b - a) % UINTX
    BY <1>3, <1>4
  <2>. QED  BY <1>3, <2>1, RingSpan
<1>11. a1 \in 0 .. UINTX - 1 /\ (b - a1) % UINTX = D - 1
  BY <1>3, <1>10 DEF Between
<1>12. s \in Seq(Out) /\ Len(s) = D /\ s[1] = x
  <2>1. 1 \in 1 .. D /\ 1 - 1 = 0
    BY <1>4, <1>3
  <2>. QED  BY <1>3, <1>4, <2>1 DEF IsSlice
<1>13. s # <<>>
  BY <1>3, <1>12, EmptySeq
<1>. HIDE DEF s, t, x
<1>14. t \in Seq(Out) /\ <<x>> \o t = s
  <2>1. t = SubSeq(s, 2, D)
    BY <1>9, 1 + 1 = 2
  <2>2. \A i \in 2 .. D : s[i] \in Out
    BY <1>4, <1>12, ElementOfSeq
  <2>3. SubSeq(s, 2, D) \in Seq(Out)
    BY <1>4, <2>2, 2 \in Int, D \in Int, SubSeqProperties
  <2>4. <<s[1]>> \o SubSeq(s, 2, Len(s)) = s
    BY <1>5, <1>12, <1>13, HeadRest
  <2>. QED  BY <1>12, <2>1, <2>3, <2>4
<1>15. x \in Sent
  BY <1>5 DEF Sent
<1>16. /\ o \in Seq(Out) /\ f1 \in Seq(Sent) /\ Len(f1) = Len(f) + 1
       /\ OutOf(f1) = o \o One(x)
  <2>1. f1 = Append(f, x)
    BY DEF x, P, FifoMoved
  <2>. QED  BY <1>15, <2>1, OutAppend
<1>. HIDE DEF o
<1>17. OutOf(f1) \o t = wr
  <2>. DEFINE y == <<x>>
  <2>1. One(x) = y /\ y \in Seq(Out)
    BY <1>5, OneIs
  <2>2. y \o t = s
    BY <1>14
  <2>. HIDE DEF y
  <2>3. (o \o y) \o t = o \o (y \o t)
    BY <1>5, <1>14, <1>16, <2>1, OutConcat
  <2>. QED  BY <1>2, <1>16, <2>1, <2>2, <2>3
<1>18. tb1 \in [0 .. P - 1 -> Out \cup {Nil}]
  BY Zenon DEF PutOut, P
<1>19. D - 1 <= P
  BY <1>3, <1>4
<1>20. OutRing(a1, b, tb1, f1, wr)
  BY <1>9, <1>11, <1>17, <1>19 DEF OutRing, t, P
<1>. QED
  BY <1>11, <1>16, <1>18, <1>20 DEF P

\* An echo is put into the FIFO.
LEMMA OutEcho ==
    ASSUME NEW a, NEW b, NEW tb, NEW f \in Seq(Sent), Len(f) <= 1, NEW wr,
           NEW x \in Echo, OutRing(a, b, tb, f, wr)
    PROVE  /\ Append(f, x) \in Seq(Sent) /\ Len(Append(f, x)) = Len(f) + 1
           /\ OutRing(a, b, tb, Append(f, x), wr)
<1>1. x \in Sent /\ x \notin Out
  BY ConsoleAssumption DEF Sent, Echo, Key, Out
<1>2. /\ OutOf(f) \in Seq(Out) /\ Append(f, x) \in Seq(Sent) /\ Len(Append(f, x)) = Len(f) + 1
      /\ OutOf(Append(f, x)) = OutOf(f) \o One(x)
  BY <1>1, OutAppend
<1>3. One(x) = <<>>
  BY <1>1, OneIs
<1>4. OutOf(f) \o <<>> = OutOf(f)
  BY <1>2, ConcatEmptySeq
<1>. QED
  BY <1>2, <1>3, <1>4 DEF OutRing

\* The FIFO sends a character.
LEMMA OutSend ==
    ASSUME NEW a \in 0 .. UINTX - 1, NEW b \in 0 .. UINTX - 1, NEW tb,
           NEW f \in Seq(Sent), Len(f) <= 2, f # <<>>, NEW wr \in Seq(Out),
           OutRing(a, b, tb, f, wr),
           NEW w1, w1 = IF Head(f) \in Out THEN Tail(wr) ELSE wr
    PROVE  /\ Tail(f) \in Seq(Sent) /\ Len(Tail(f)) = Len(f) - 1
           /\ w1 \in Seq(Out) /\ OutRing(a, b, tb, Tail(f), w1)
<1>. DEFINE s == Slice(tb, a, b, UART_TX_BUF_SIZE, UINTX)
            h == Head(f)
            o == OutOf(Tail(f))
<1>1. OutCounts(a, b, tb, (b - a) % UINTX)
  BY OutputCounts
<1>2. wr = OutOf(f) \o s /\ s \in Seq(Out)
  BY <1>1 DEF OutRing, OutCounts, IsSlice
<1>3. /\ Tail(f) \in Seq(Sent) /\ Len(Tail(f)) = Len(f) - 1
      /\ o \in Seq(Out) /\ OutOf(f) = One(h) \o o
  BY OutTail
<1>. HIDE DEF s, h, o
<1>4. o \o s \in Seq(Out)
  BY <1>2, <1>3, ConcatProperties
<1>5. w1 = o \o s
  <2>1. CASE h \in Out
    <3>. DEFINE y == <<h>>
                z == o \o s
    <3>1. One(h) = y /\ y \in Seq(Out)
      BY <2>1, OneIs
    <3>2. Tail(<<h>> \o z) = z
      BY <1>4, <2>1, HeadRest
    <3>3. Tail(y \o z) = z
      BY <3>2
    <3>. HIDE DEF y
    <3>4. (y \o o) \o s = y \o (o \o s)
      BY <1>2, <1>3, <2>1, <3>1, OutConcat
    <3>. QED  BY <1>2, <1>3, <2>1, <3>1, <3>3, <3>4 DEF h
  <2>2. CASE h \notin Out
    <3>1. One(h) = <<>>
      BY <2>2, OneIs
    <3>2. <<>> \o o = o
      BY <1>3, ConcatEmptySeq
    <3>. QED  BY <1>2, <1>3, <2>2, <3>1, <3>2 DEF h
  <2>. QED  BY <2>1, <2>2
<1>. QED
  BY <1>3, <1>4, <1>5 DEF OutRing, o, s

-----------------------------------------------------------------------------
(***************************************************************************)
(* The stages of the agents, and the locks.                                *)
(***************************************************************************)

\* Who the agents are.
LEMMA Agents ==
    /\ Intr \in Agent /\ Intr \notin Proc /\ Nil \notin Agent
    /\ \A p \in Proc : p \in Agent /\ p # Intr
  BY ConsoleAssumption DEF Agent

\* One agent moves, or it does and wakes the others that sleep at c.
Moves(a, s) ==
    /\ stage' \in [Agent -> Stages] /\ stage'[a] = s
    /\ \A q \in Agent \ {a} : stage'[q] = stage[q]
Wakes(a, s, c, d) ==
    /\ stage' \in [Agent -> Stages] /\ stage'[a] = s
    /\ \A q \in Agent \ {a} : stage'[q] = IF stage[q] = c THEN d ELSE stage[q]

\* The stage after Enter() and after EnterAndWakeup().
LEMMA EnterMoves ==
    ASSUME ControlTypes, NEW a \in Agent, NEW s \in Stages
    PROVE  /\ Enter(a, s) => Moves(a, s)
           /\ \A c, d \in Stages : EnterAndWakeup(a, s, c, d) => Wakes(a, s, c, d)
<1>1. Enter(a, s) => Moves(a, s)
  BY DEF Enter, Moves, ControlTypes
<1>2. ASSUME NEW c \in Stages, NEW d \in Stages, EnterAndWakeup(a, s, c, d) PROVE Wakes(a, s, c, d)
  BY <1>2 DEF EnterAndWakeup, Wakes, ControlTypes
<1>. QED
  BY <1>1, <1>2

\* What the actions do to the stages and to uart_tx_lock.
StageStep ==
    \/ UNCHANGED <<stage, tlock>>
    \/ /\ stage[Intr] = "idle" /\ Moves(Intr, "rx") /\ UNCHANGED tlock
    \/ /\ stage[Intr] = "rx" /\ tlock = Nil /\ tlock' = Intr /\ Moves(Intr, "start")
    \/ /\ stage[Intr] = "rx" /\ UNCHANGED tlock
       /\ Moves(Intr, "echo") \/ Wakes(Intr, "echo", "read_asleep", "read")
    \/ /\ stage[Intr] = "echo" /\ Moves(Intr, "echo_send") /\ UNCHANGED tlock
    \/ /\ stage[Intr] = "echo_send" /\ Moves(Intr, "echo") /\ UNCHANGED tlock
    \/ /\ stage[Intr] = "echo" /\ Moves(Intr, "rx") /\ UNCHANGED tlock
    \/ \E a \in Agent :
         \/ stage[a] = "start" /\ tlock = a /\ tlock' = Nil /\ Moves(a, "idle")
         \/ stage[a] = "start" /\ tlock = a /\ UNCHANGED tlock /\ Moves(a, "send")
         \/ stage[a] = "send" /\ UNCHANGED tlock /\ Wakes(a, "start", "putc_asleep", "putc")
    \/ \E p \in Proc :
         \/ /\ stage[p] \in {"idle", "putc"} /\ UNCHANGED tlock /\ Moves(p, "putc_asleep")
         \/ /\ stage[p] \in {"idle", "putc"} /\ tlock = Nil /\ tlock' = p /\ Moves(p, "start")
         \/ /\ stage[p] \in {"idle", "read"} /\ UNCHANGED tlock /\ Moves(p, "reading")
         \/ /\ stage[p] = "reading" /\ UNCHANGED tlock /\ \E s \in {"idle", "read_asleep", "reading"} : Moves(p, s)
         \/ /\ stage[p] = "read_asleep" /\ UNCHANGED tlock /\ Moves(p, "read")
         \/ /\ stage[p] = "putc_asleep" /\ UNCHANGED tlock /\ Moves(p, "putc")

\* Every step is one of them.
LEMMA StageSteps ==
    ASSUME ControlTypes, [ConsoleNext]_consolevars
    PROVE  StageStep
<1>0. /\ Intr \in Agent /\ \A p \in Proc : p \in Agent
      /\ {"idle", "putc", "putc_asleep", "start", "send", "rx", "echo", "echo_send",
          "reading", "read", "read_asleep"} \subseteq Stages
  BY Agents DEF Stages
<1>1. CASE uart_send \/ uart_receive \/ UNCHANGED consolevars
  BY <1>1 DEF uart_send, uart_receive, consolevars, StageStep
<1>2. CASE uartintr \/ uartintr_tx \/ consoleintr_end \/ uartputc_sync \/ uartputc_sync_send
  BY <1>0, <1>2, EnterMoves DEF uartintr, uartintr_tx, consoleintr_end, uartputc_sync,
     uartputc_sync_send, StageStep
<1>3. ASSUME NEW c \in Typed, consoleintr(c) PROVE StageStep
  <2>1. /\ stage[Intr] = "rx" /\ UNCHANGED tlock
        /\ Enter(Intr, "echo") \/ EnterAndWakeup(Intr, "echo", "read_asleep", "read")
    BY <1>3 DEF consoleintr
  <2>. QED  BY <1>0, <2>1, EnterMoves DEF StageStep
<1>4. ASSUME NEW a \in Agent, uartstart(a) \/ uartstart_send(a) PROVE StageStep
  BY <1>0, <1>4, EnterMoves DEF uartstart, uartstart_send, StageStep
<1>5. ASSUME NEW p \in Proc, uartputc(p) PROVE StageStep
  BY <1>0, <1>5, EnterMoves DEF uartputc, StageStep
<1>6. ASSUME NEW p \in Proc, consoleread_awake(p) \/ \E k \in 1 .. MaxRead : sys_read(p, k) PROVE StageStep
  BY <1>0, <1>6, EnterMoves DEF consoleread_awake, sys_read, StageStep
<1>7. ASSUME NEW p \in Proc, consoleread_wait(p) \/ \E copied \in BOOLEAN : consoleread(p, copied)
      PROVE  StageStep
  <2>1. /\ stage[p] = "reading" /\ UNCHANGED tlock
        /\ Enter(p, "idle") \/ Enter(p, "read_asleep") \/ UNCHANGED stage
    BY <1>7 DEF consoleread_wait, consoleread, ReadDone
  <2>. QED  BY <1>0, <2>1, EnterMoves DEF StageStep
<1>8. ASSUME NEW p \in Proc, consolekill(p) PROVE StageStep
  <2>1. /\ UNCHANGED tlock
        /\ \/ stage[p] = "read_asleep" /\ Enter(p, "read")
           \/ stage[p] = "reading" /\ Enter(p, "reading")
           \/ stage[p] = "putc_asleep" /\ Enter(p, "putc")
    BY <1>8 DEF consolekill
  <2>. QED  BY <1>0, <2>1, EnterMoves DEF StageStep
<1>. QED
  BY <1>1, <1>2, <1>3, <1>4, <1>5, <1>6, <1>7, <1>8 DEF ConsoleNext

\* uart_tx_lock has one holder: whoever enters uartstart() took the lock, and gives
\* it back on the way out.
LEMMA TxLockStep ==
    ASSUME ControlTypes, TxLockInv, [ConsoleNext]_consolevars
    PROVE  TxLockInv'
<1>1. StageStep
  BY StageSteps
<1>2. /\ Intr \in Agent /\ Intr \notin Proc /\ Nil \notin Agent /\ \A p \in Proc : p \in Agent
  BY Agents
<1>. SUFFICES ASSUME NEW b \in Agent PROVE (stage[b] \in {"start", "send"} <=> tlock = b)'
  BY DEF TxLockInv
<1>3. \A q \in Agent : stage[q] \in {"start", "send"} <=> tlock = q
  BY DEF TxLockInv
<1>. QED
  BY <1>1, <1>2, <1>3 DEF StageStep, Moves, Wakes

\* Types, and a reader still wants something: the last character it wants ends the
\* read.
LEMMA ControlStep ==
    ASSUME ControlTypes, WantInv, [ConsoleNext]_consolevars
    PROVE  ControlTypes' /\ WantInv'
<1>0. /\ Intr \in Agent /\ Intr \notin Proc /\ Nil \notin Agent /\ \A p \in Proc : p \in Agent
  BY Agents
<1>1. stage' \in [Agent -> Stages]
  BY StageSteps DEF StageStep, Moves, Wakes, ControlTypes
<1>2. rx' \in BOOLEAN /\ irq' \in BOOLEAN
  <2>1. CASE uart_send
    BY <2>1, Zenon DEF uart_send, ControlTypes
  <2>2. CASE ~uart_send
    <3>1. UNCHANGED <<rx, irq>> \/ uart_receive \/ uartintr \/ \E c \in Typed : consoleintr(c)
      BY <2>2, Zenon DEF ConsoleNext, consolevars, uartintr_tx, consoleintr_end,
         uartputc_sync, uartputc_sync_send, uartstart, uartstart_send, uartputc,
         sys_read, consoleread_awake, consoleread_wait, consoleread, consolekill
    <3>2. uart_receive => rx' = TRUE /\ irq' = TRUE
      BY DEF uart_receive
    <3>3. uartintr => rx' = rx /\ irq' = FALSE
      BY DEF uartintr
    <3>4. (\E c \in Typed : consoleintr(c)) => rx' = FALSE /\ irq' = irq
      BY DEF consoleintr
    <3>. QED  BY <3>1, <3>2, <3>3, <3>4, Zenon DEF ControlTypes
  <2>. QED  BY <2>1, <2>2
<1>3. /\ clock' \in Agent \cup {Nil} /\ tlock' \in Agent \cup {Nil}
  <2>1. tlock' \in Agent \cup {Nil}
    BY <1>0, StageSteps DEF StageStep, ControlTypes
  <2>2. clock' = clock \/ clock' = Intr \/ clock' = Nil \/ clock' \in Proc
    BY Zenon DEF ConsoleNext, consolevars, uart_send, uart_receive, uartintr, uartintr_tx, consoleintr,
       consoleintr_end, uartputc_sync, uartputc_sync_send, uartstart, uartstart_send, uartputc,
       sys_read, consoleread_awake, consoleread_wait, consoleread, consolekill, ReadDone
  <2>. QED  BY <1>0, <2>1, <2>2 DEF ControlTypes
<1>. DEFINE W == /\ n' \in [Proc -> 0 .. MaxRead] /\ target' \in [Proc -> 0 .. MaxRead]
                 /\ conskilled' \in [Proc -> BOOLEAN] /\ WantInv'
<1>4. ASSUME UNCHANGED <<n, target, conskilled>>,
             \A p \in Proc : stage'[p] \in ReadStages => stage[p] \in ReadStages
      PROVE  W
  BY <1>4 DEF ControlTypes, WantInv
<1>5. ASSUME NEW p \in Proc, Moves(p, "idle"), conskilled' = [conskilled EXCEPT ![p] = FALSE],
             n' = [n EXCEPT ![p] = 0], target' = [target EXCEPT ![p] = 0]
      PROVE  W
  <2>1. MaxRead \in Nat
    BY ConsoleAssumption
  <2>. QED  BY <1>0, <1>5, <2>1 DEF ControlTypes, WantInv, Moves, ReadStages
<1>6. ASSUME NEW p \in Proc, ReadDone(p) PROVE W
  BY <1>0, <1>5, <1>6, EnterMoves DEF ReadDone, Stages
<1>7. ASSUME UNCHANGED <<n, target, conskilled>> PROVE W
  <2>1. ASSUME NEW p \in Proc PROVE stage'[p] \in ReadStages => stage[p] \in ReadStages \/ stage[p] = "idle"
    BY <1>0, StageSteps DEF StageStep, Moves, Wakes, ReadStages
  <2>2. CASE \E p \in Proc : \E k \in 1 .. MaxRead : sys_read(p, k)
    <3>1. PICK p \in Proc, k \in 1 .. MaxRead : sys_read(p, k)
      BY <2>2
    <3>2. n[p] = k /\ k >= 1
      BY <1>7, <3>1 DEF sys_read, ControlTypes
    <3>3. \A q \in Proc \ {p} : stage'[q] = stage[q]
      BY <1>0, <3>1 DEF sys_read, Enter, ControlTypes
    <3>4. WantInv'
      BY <1>7, <3>2, <3>3 DEF WantInv
    <3>. QED  BY <1>7, <3>4 DEF ControlTypes
  <2>3. CASE ~\E p \in Proc : \E k \in 1 .. MaxRead : sys_read(p, k)
    <3>1. ASSUME NEW p \in Proc, stage'[p] \in ReadStages, stage[p] = "idle" PROVE FALSE
      <4>1. stage'[p] # stage[p]
        BY <3>1 DEF ReadStages
      <4>2. CASE UNCHANGED stage
        BY <4>1, <4>2
      <4>3. ASSUME NEW a \in Agent, NEW s \in Stages, Enter(a, s), s # "reading" \/ stage[a] # "idle",
                   s \notin {"read", "read_asleep"} \/ stage[a] # "idle"
            PROVE  FALSE
        BY <1>0, <3>1, <4>1, <4>3 DEF Enter, ControlTypes, ReadStages
      <4>4. ASSUME NEW a \in Agent, NEW s \in Stages, s \notin ReadStages, NEW c, c # "idle", NEW d,
                   EnterAndWakeup(a, s, c, d)
            PROVE  FALSE
        BY <1>0, <3>1, <4>1, <4>4 DEF EnterAndWakeup, ControlTypes
      <4>5. {"idle", "putc", "putc_asleep", "start", "send", "rx", "echo", "echo_send",
             "reading", "read", "read_asleep"} \subseteq Stages
        BY DEF Stages
      <4>6. CASE \E c \in Typed : consoleintr(c)
        <5>1. Enter(Intr, "echo") \/ EnterAndWakeup(Intr, "echo", "read_asleep", "read")
          BY <4>6 DEF consoleintr
        <5>2. "echo" \notin ReadStages
          BY DEF ReadStages
        <5>. QED  BY <1>0, <4>3, <4>4, <4>5, <5>1, <5>2
      <4>7. CASE \E a \in Agent : uartstart(a) \/ uartstart_send(a)
        <5>1. \E a \in Agent : \/ Enter(a, "idle") \/ Enter(a, "send")
                               \/ EnterAndWakeup(a, "start", "putc_asleep", "putc")
          BY <4>7 DEF uartstart, uartstart_send
        <5>2. "start" \notin ReadStages
          BY DEF ReadStages
        <5>. QED  BY <4>3, <4>4, <4>5, <5>1, <5>2
      <4>8. CASE uart_send \/ uart_receive \/ UNCHANGED consolevars
        BY <4>2, <4>8 DEF uart_send, uart_receive, consolevars
      <4>9. CASE uartintr \/ uartintr_tx \/ consoleintr_end \/ uartputc_sync \/ uartputc_sync_send
        BY <1>0, <4>3, <4>5, <4>9 DEF uartintr, uartintr_tx, consoleintr_end, uartputc_sync, uartputc_sync_send
      <4>10. CASE \E q \in Proc : uartputc(q)
        BY <1>0, <4>3, <4>5, <4>10 DEF uartputc
      <4>11. CASE \E q \in Proc : consoleread_awake(q) \/ consoleread_wait(q)
        <5>1. \E q \in Proc : /\ stage[q] \in {"read", "reading"}
                              /\ Enter(q, "reading") \/ Enter(q, "idle") \/ Enter(q, "read_asleep")
          BY <4>11 DEF consoleread_awake, consoleread_wait, ReadDone
        <5>. QED  BY <1>0, <4>3, <4>5, <5>1
      <4>12. CASE \E q \in Proc : \E copied \in BOOLEAN : consoleread(q, copied)
        <5>1. UNCHANGED stage \/ \E q \in Proc : stage[q] = "reading" /\ Enter(q, "idle")
          BY <4>12 DEF consoleread, ReadDone
        <5>. QED  BY <1>0, <4>2, <4>3, <4>5, <5>1
      <4>13. CASE \E q \in Proc : consolekill(q)
        <5>1. \E q \in Proc : \/ stage[q] = "read_asleep" /\ Enter(q, "read")
                              \/ stage[q] = "reading" /\ Enter(q, "reading")
                              \/ stage[q] = "putc_asleep" /\ Enter(q, "putc")
          BY <4>13 DEF consolekill
        <5>. QED  BY <1>0, <4>3, <4>5, <5>1
      <4>. QED  BY <2>3, <4>6, <4>7, <4>8, <4>9, <4>10, <4>11, <4>12, <4>13 DEF ConsoleNext
    <3>2. \A p \in Proc : stage'[p] \in ReadStages => stage[p] \in ReadStages
      BY <2>1, <3>1
    <3>. HIDE DEF W
    <3>. QED  BY <1>4, <1>7, <3>2
  <2>. QED  BY <2>2, <2>3
<1>8. ASSUME NEW p \in Proc, NEW k \in 1 .. MaxRead, sys_read(p, k) PROVE W
  <2>1. /\ n' = [n EXCEPT ![p] = k] /\ target' = [target EXCEPT ![p] = k] /\ UNCHANGED conskilled
        /\ Moves(p, "reading") /\ k \in 0 .. MaxRead /\ k >= 1
    BY <1>0, <1>8, EnterMoves, ConsoleAssumption DEF sys_read, Stages
  <2>. QED  BY <1>0, <2>1 DEF ControlTypes, WantInv, Moves
<1>9. ASSUME NEW p \in Proc, NEW copied \in BOOLEAN, consoleread(p, copied) PROVE W
  <2>1. CASE ReadDone(p)
    BY <1>6, <2>1
  <2>2. CASE n[p] # 1 /\ n' = [n EXCEPT ![p] = @ - 1] /\ UNCHANGED <<stage, target, conskilled>>
    <3>1. n[p] \in 0 .. MaxRead /\ n[p] >= 1 /\ MaxRead \in Nat
      BY <1>9, ConsoleAssumption DEF ControlTypes, WantInv, consoleread, ReadStages
    <3>2. n[p] - 1 \in 0 .. MaxRead /\ n[p] - 1 >= 1
      BY <2>2, <3>1
    <3>. QED  BY <2>2, <3>2 DEF ControlTypes, WantInv
  <2>. QED  BY <1>9, <2>1, <2>2 DEF consoleread
<1>10. ASSUME NEW p \in Proc, consolekill(p) PROVE W
  <2>1. /\ UNCHANGED <<n, target>> /\ conskilled' \in [Proc -> BOOLEAN]
        /\ \/ stage[p] = "read_asleep" /\ Enter(p, "read")
           \/ stage[p] = "reading" /\ Enter(p, "reading")
           \/ stage[p] = "putc_asleep" /\ Enter(p, "putc")
    BY <1>10 DEF consolekill, ControlTypes
  <2>2. \A q \in Proc : stage'[q] \in ReadStages => stage[q] \in ReadStages
    BY <1>0, <2>1 DEF Enter, ControlTypes, ReadStages
  <2>. QED  BY <2>1, <2>2 DEF ControlTypes, WantInv
<1>11. W
  <2>1. \/ UNCHANGED <<n, target, conskilled>>
        \/ \E p \in Proc : \E k \in 1 .. MaxRead : sys_read(p, k)
        \/ \E p \in Proc : ReadDone(p)
        \/ \E p \in Proc : \E copied \in BOOLEAN : consoleread(p, copied)
        \/ \E p \in Proc : consolekill(p)
    BY Zenon DEF ConsoleNext, consolevars, uart_send, uart_receive, uartintr, uartintr_tx, consoleintr,
       consoleintr_end, uartputc_sync, uartputc_sync_send, uartstart, uartstart_send, uartputc,
       consoleread_awake, consoleread_wait
  <2>. HIDE DEF W
  <2>. QED  BY <1>6, <1>7, <1>8, <1>9, <1>10, <2>1
<1>. QED
  BY <1>1, <1>2, <1>3, <1>11 DEF ControlTypes

\* Who goes to sleep in consoleread() saw r = w under cons.lock; who adds a line
\* wakes everybody; and who takes a character finds one, so that nobody slept.
LEMMA ReadSleepStep ==
    ASSUME ControlTypes, InputTypes, InputInv, ReadSleepInv, [ConsoleNext]_consolevars
    PROVE  ReadSleepInv'
<1>0. /\ Intr \in Agent /\ Intr \notin Proc /\ Nil \notin Agent /\ \A p \in Proc : p \in Agent
  BY Agents
<1>1. r = w => lines = <<>>
  <2>1. InCounts(r, w, e, buf, lines, line, (e - r) % UINTC)
    BY InputFacts
  <2>. QED  BY <2>1 DEF InCounts
<1>2. ASSUME lines' = lines, \A p \in Proc : stage'[p] = "read_asleep" => stage[p] = "read_asleep"
      PROVE  ReadSleepInv'
  BY <1>2 DEF ReadSleepInv
<1>3. ASSUME NEW c \in Typed, consoleintr(c) PROVE ReadSleepInv'
  <2>1. CASE EnterAndWakeup(Intr, "echo", "read_asleep", "read")
    BY <1>0, <2>1 DEF EnterAndWakeup, ReadSleepInv
  <2>2. CASE Enter(Intr, "echo") /\ lines' = lines
    BY <1>0, <1>2, <2>2 DEF Enter, ControlTypes
  <2>. QED  BY <1>3, <2>1, <2>2 DEF consoleintr, input
<1>4. ASSUME NEW p \in Proc, consoleread_wait(p) PROVE ReadSleepInv'
  <2>1. lines' = lines /\ r = w
    BY <1>4 DEF consoleread_wait, input
  <2>. QED  BY <1>1, <2>1 DEF ReadSleepInv
<1>5. ASSUME NEW p \in Proc, NEW copied \in BOOLEAN, consoleread(p, copied) PROVE ReadSleepInv'
  <2>. DEFINE T == /\ r # w /\ r' = (r + 1) % UINTC /\ lines' = Tail(lines) /\ buf' = Clear({r})
                   /\ UNCHANGED <<w, e, line>>
  <2>1. /\ Enter(p, "idle") \/ UNCHANGED stage
        /\ lines' = lines \/ T
    BY <1>5 DEF consoleread, input, ReadDone
  <2>2. \A q \in Proc : stage'[q] = "read_asleep" => stage[q] = "read_asleep"
    BY <1>0, <2>1 DEF Enter, ControlTypes
  <2>3. T => lines # <<>>
    BY TakeOne
  <2>. HIDE DEF T
  <2>. QED  BY <1>2, <2>1, <2>2, <2>3 DEF ReadSleepInv
<1>6. ASSUME NEW a \in Agent, uartstart(a) \/ uartstart_send(a) PROVE ReadSleepInv'
  BY <1>0, <1>2, <1>6 DEF uartstart, uartstart_send, Enter, EnterAndWakeup, ControlTypes, input
<1>7. CASE uart_send \/ uart_receive \/ UNCHANGED consolevars
  BY <1>2, <1>7 DEF uart_send, uart_receive, consolevars, input
<1>8. CASE uartintr \/ uartintr_tx \/ consoleintr_end \/ uartputc_sync \/ uartputc_sync_send
  BY <1>0, <1>2, <1>8 DEF uartintr, uartintr_tx, consoleintr_end, uartputc_sync, uartputc_sync_send,
     Enter, ControlTypes, input
<1>9. ASSUME NEW p \in Proc, uartputc(p) PROVE ReadSleepInv'
  BY <1>0, <1>2, <1>9 DEF uartputc, Enter, ControlTypes, input
<1>10. ASSUME NEW p \in Proc, consoleread_awake(p) \/ consolekill(p)
                              \/ \E k \in 1 .. MaxRead : sys_read(p, k)
       PROVE  ReadSleepInv'
  BY <1>0, <1>2, <1>10 DEF consoleread_awake, consolekill, sys_read, Enter, ControlTypes, input
<1>. QED
  BY <1>3, <1>4, <1>5, <1>6, <1>7, <1>8, <1>9, <1>10 DEF ConsoleNext

\* The counts of those about to write to the FIFO.
LEMMA SenderCounts ==
    /\ Sender \in {0, 1} /\ Echoer \in {0, 1}
    /\ Sender' \in {0, 1} /\ Echoer' \in {0, 1}
    /\ (\A a \in Agent : stage'[a] = "send" => stage[a] = "send") => Sender' <= Sender
    /\ (\A a \in Agent : stage'[a] # "send") => Sender' = 0
    /\ (\E a \in Agent : stage[a] = "send") => Sender = 1
    /\ (stage'[Intr] = "echo_send" => stage[Intr] = "echo_send") => Echoer' <= Echoer
    /\ stage'[Intr] # "echo_send" => Echoer' = 0
    /\ stage[Intr] = "echo_send" <=> Echoer = 1
  BY DEF Sender, Echoer

\* A cpu about to write saw the FIFO empty; nobody else writes to it but the holder of
\* uart_tx_lock and the handler with an echo, so that it holds two characters at most.
LEMMA FifoStep ==
    ASSUME ControlTypes, OutputTypes, TxLockInv, FifoInv, [ConsoleNext]_consolevars
    PROVE  FifoInv'
<1>0. /\ Intr \in Agent /\ Intr \notin Proc /\ Nil \notin Agent /\ \A p \in Proc : p \in Agent
  BY Agents
<1>. DEFINE L == Len(fifo)
            M == Len(fifo')
<1>1. /\ L \in Nat /\ L + Sender + Echoer <= 2 /\ (Echoer = 1 => echo # <<>>)
      /\ \A a \in Agent : stage[a] \in {"start", "send"} <=> tlock = a
      /\ fifo = <<>> => L = 0
      /\ fifo \in Seq(Sent)
  BY LenProperties, EmptySeq DEF FifoInv, OutputTypes, TxLockInv, Sent
<1>2. PICK s \in 0 .. 1, t \in 0 .. 1, u \in 0 .. 1, v \in 0 .. 1 :
        s = Sender /\ t = Echoer /\ u = Sender' /\ v = Echoer'
  BY SenderCounts
<1>a. /\ FifoInv' <=> M + u + v <= 2 /\ (v = 1 => echo' # <<>>)
      /\ L \in Nat /\ L + s + t <= 2 /\ (t = 1 => echo # <<>>)
  BY <1>1, <1>2 DEF FifoInv
<1>. HIDE DEF L, M
<1>3. ASSUME M <= L, M \in Nat, echo' = echo,
             \A a \in Agent : stage'[a] = "send" => stage[a] = "send",
             stage'[Intr] = "echo_send" => stage[Intr] = "echo_send"
      PROVE  FifoInv'
  <2>1. u <= s /\ v <= t
    BY <1>2, <1>3, SenderCounts
  <2>. QED  BY <1>a, <1>3, <2>1
<1>4. ASSUME fifo' = fifo, echo' = echo,
             \A a \in Agent : stage'[a] = "send" => stage[a] = "send",
             stage'[Intr] = "echo_send" => stage[Intr] = "echo_send"
      PROVE  FifoInv'
  <2>1. M = L
    BY <1>4 DEF L, M
  <2>. QED  BY <1>1, <1>3, <1>4, <2>1
<1>5. CASE uart_send
  <2>1. M = L - 1 /\ M \in Nat /\ UNCHANGED <<stage, echo>>
    <3>1. fifo' = Tail(fifo) /\ fifo # <<>> /\ UNCHANGED <<stage, echo>>
      BY <1>5 DEF uart_send
    <3>2. Len(Tail(fifo)) = Len(fifo) - 1 /\ Len(Tail(fifo)) \in Nat
      BY <1>1, <3>1, HeadTailProperties, LenProperties
    <3>. QED  BY <3>1, <3>2 DEF L, M
  <2>. QED  BY <1>1, <1>3, <2>1
<1>6. ASSUME NEW a \in Agent, uartstart(a) PROVE FifoInv'
  <2>1. CASE Enter(a, "idle")
    BY <1>0, <1>4, <1>6, <2>1 DEF uartstart, Enter, ControlTypes
  <2>2. CASE Enter(a, "send") /\ fifo = <<>>
    <3>2. M = L /\ L = 0 /\ echo' = echo
      BY <1>1, <1>6, <2>2 DEF uartstart, L, M
    <3>3. stage'[Intr] = "echo_send" => stage[Intr] = "echo_send"
      BY <1>0, <2>2 DEF Enter, ControlTypes
    <3>4. v <= t
      BY <1>2, <3>3, SenderCounts
    <3>. QED  BY <1>a, <3>2, <3>4
  <2>. QED  BY <1>6, <2>1, <2>2 DEF uartstart
<1>7. ASSUME NEW a \in Agent, uartstart_send(a) PROVE FifoInv'
  <2>1. /\ stage[a] = "send" /\ Wakes(a, "start", "putc_asleep", "putc") /\ echo' = echo
        /\ fifo' = Append(fifo, tx_buf[tx_r % UART_TX_BUF_SIZE])
    BY <1>7, EnterMoves DEF uartstart_send, Stages
  <2>2. \A b \in Agent : stage'[b] # "send"
    BY <1>1, <2>1 DEF Wakes
  <2>3. stage'[Intr] = "echo_send" => stage[Intr] = "echo_send"
    BY <1>0, <2>1 DEF Wakes
  <2>4. M = L + 1
    <3>. DEFINE x == tx_buf[tx_r % UART_TX_BUF_SIZE]
    <3>1. fifo' = Append(fifo, x)
      BY <2>1
    <3>. HIDE DEF x
    <3>2. Len(Append(fifo, x)) = Len(fifo) + 1
      BY <1>1
    <3>. QED  BY <3>1, <3>2 DEF L, M
  <2>5. s = 1 /\ u = 0 /\ v <= t
    BY <1>2, <2>1, <2>2, <2>3, SenderCounts
  <2>. QED  BY <1>a, <2>1, <2>4, <2>5
<1>8. CASE uartputc_sync
  <2>1. fifo = <<>> /\ fifo' = fifo /\ echo # <<>> /\ echo' = echo /\ Moves(Intr, "echo_send")
    BY <1>0, <1>8, EnterMoves DEF uartputc_sync, Stages
  <2>2. L = 0 /\ M = 0
    BY <1>1, <2>1 DEF L, M
  <2>. QED  BY <1>a, <2>1, <2>2
<1>9. CASE uartputc_sync_send
  <2>1. /\ fifo' = Append(fifo, Head(echo)) /\ stage[Intr] = "echo_send" /\ Moves(Intr, "echo")
    BY <1>0, <1>9, EnterMoves DEF uartputc_sync_send, Stages
  <2>2. M = L + 1
    <3>. DEFINE x == Head(echo)
    <3>1. fifo' = Append(fifo, x)
      BY <2>1
    <3>. HIDE DEF x
    <3>2. Len(Append(fifo, x)) = Len(fifo) + 1
      BY <1>1
    <3>. QED  BY <3>1, <3>2 DEF L, M
  <2>3. /\ stage'[Intr] # "echo_send"
        /\ \A a \in Agent : stage'[a] = "send" => stage[a] = "send"
    BY <2>1 DEF Moves
  <2>4. t = 1 /\ v = 0 /\ u <= s
    BY <1>2, <2>1, <2>3, SenderCounts
  <2>. QED  BY <1>a, <2>2, <2>4
<1>10. ASSUME NEW c \in Typed, consoleintr(c) PROVE FifoInv'
  <2>1. /\ fifo' = fifo /\ stage'[Intr] = "echo"
        /\ \A a \in Agent : stage'[a] = "send" => stage[a] = "send"
    <3>1. Enter(Intr, "echo") \/ EnterAndWakeup(Intr, "echo", "read_asleep", "read")
      BY <1>10 DEF consoleintr
    <3>2. fifo' = fifo
      BY <1>10 DEF consoleintr
    <3>. QED  BY <1>0, <3>1, <3>2 DEF Enter, EnterAndWakeup, ControlTypes
  <2>2. M = L
    BY <2>1 DEF L, M
  <2>3. u <= s /\ v = 0
    BY <1>2, <2>1, SenderCounts
  <2>. QED  BY <1>a, <2>2, <2>3
<1>11. CASE uart_receive \/ UNCHANGED consolevars
  BY <1>4, <1>11 DEF uart_receive, consolevars
<1>12. CASE uartintr \/ uartintr_tx \/ consoleintr_end
  BY <1>0, <1>4, <1>12 DEF uartintr, uartintr_tx, consoleintr_end, Enter, ControlTypes
<1>13. ASSUME NEW p \in Proc, uartputc(p) PROVE FifoInv'
  BY <1>0, <1>4, <1>13 DEF uartputc, Enter, ControlTypes
<1>14. ASSUME NEW p \in Proc, consoleread_awake(p) \/ consolekill(p)
                              \/ \E k \in 1 .. MaxRead : sys_read(p, k)
       PROVE  FifoInv'
  BY <1>0, <1>4, <1>14 DEF consoleread_awake, consolekill, sys_read, Enter, ControlTypes
<1>15. ASSUME NEW p \in Proc, consoleread_wait(p) \/ \E copied \in BOOLEAN : consoleread(p, copied)
       PROVE  FifoInv'
  <2>1. /\ fifo' = fifo /\ echo' = echo
        /\ Enter(p, "idle") \/ Enter(p, "read_asleep") \/ UNCHANGED stage
    BY <1>15 DEF consoleread_wait, consoleread, ReadDone
  <2>. QED  BY <1>0, <1>4, <2>1 DEF Enter, ControlTypes
<1>. QED
  BY <1>5, <1>6, <1>7, <1>8, <1>9, <1>10, <1>11, <1>12, <1>13, <1>14, <1>15 DEF ConsoleNext

-----------------------------------------------------------------------------
(***************************************************************************)
(* Output.                                                                 *)
(***************************************************************************)

\* The echo of some erased characters, of one stored, and of none.
LEMMA EchoType ==
    /\ \A k \in Nat : Erase(k) \in Seq(Echo)
    /\ \A c \in {"x", "cr", "^D"} : <<Stored(c)>> \in Seq(Echo)
    /\ <<>> \in Seq(Echo)
<1>1. ASSUME NEW k \in Nat PROVE Erase(k) \in Seq(Echo)
  <2>1. "bs" \in Echo
    BY DEF Echo
  <2>. QED  BY <2>1, IsASeq DEF Erase
<1>2. ASSUME NEW c \in {"x", "cr", "^D"} PROVE <<Stored(c)>> \in Seq(Echo)
  <2>1. Stored(c) \in Echo
    BY DEF Stored, Echo, Key
  <2>. QED  BY <2>1
<1>. QED
  BY <1>1, <1>2

\* What consoleintr() has to echo.
LEMMA EchoStep ==
    ASSUME InputTypes, OutputTypes, InputInv, NEW c \in Typed, consoleintr(c)
    PROVE  echo' \in Seq(Echo)
<1>1. (e - w) % UINTC \in Nat
  <2>1. InCounts(r, w, e, buf, lines, line, (e - r) % UINTC)
    BY InputFacts
  <2>. QED  BY <2>1, LenProperties DEF InCounts, InputTypes
<1>2. CASE c = "^U"
  BY <1>1, <1>2, EchoType DEF consoleintr
<1>3. CASE c = "^H"
  BY <1>3, EchoType DEF consoleintr
<1>4. CASE c \in {"x", "cr", "^D"}
  BY <1>4, EchoType DEF consoleintr
<1>. QED
  BY <1>2, <1>3, <1>4 DEF Typed

\* The output: what a process puts in the buffer, what uartstart() moves to the FIFO,
\* what is echoed beside it, and what is sent.
LEMMA OutStep ==
    ASSUME ConsoleInv, [ConsoleNext]_consolevars
    PROVE  OutputTypes' /\ OutInv'
<1>0. /\ Intr \in Agent /\ Intr \notin Proc /\ Nil \notin Agent /\ \A p \in Proc : p \in Agent
  BY Agents
<1>1. /\ InputTypes /\ OutputTypes /\ ControlTypes /\ TxLockInv /\ FifoInv /\ OutInv /\ InputInv
  BY DEF ConsoleInv, ConsoleTypeOK
<1>2. /\ tx_r \in 0 .. UINTX - 1 /\ tx_w \in 0 .. UINTX - 1
      /\ tx_buf \in [0 .. UART_TX_BUF_SIZE - 1 -> Out \cup {Nil}]
      /\ fifo \in Seq(Sent) /\ written \in Seq(Out) /\ echo \in Seq(Echo)
      /\ OutRing(tx_r, tx_w, tx_buf, fifo, written)
      /\ \A a \in Agent : stage[a] = "send" => tx_w # tx_r
      /\ \A a \in Agent : stage[a] \in {"start", "send"} <=> tlock = a
  BY <1>1 DEF OutputTypes, OutInv, TxLockInv, Sent
<1>3. /\ Len(fifo) \in Nat /\ Len(fifo) <= 2
      /\ (\E a \in Agent : stage[a] = "send") => Len(fifo) <= 1
      /\ stage[Intr] = "echo_send" => Len(fifo) <= 1 /\ echo # <<>>
  <2>1. PICK s \in 0 .. 1, t \in 0 .. 1 : s = Sender /\ t = Echoer
    BY SenderCounts
  <2>2. Len(fifo) + s + t <= 2 /\ (t = 1 => echo # <<>>) /\ Len(fifo) \in Nat
    BY <1>1, <1>2, <2>1, LenProperties DEF FifoInv
  <2>3. /\ (\E a \in Agent : stage[a] = "send") => s = 1
        /\ stage[Intr] = "echo_send" => t = 1
    BY <2>1, SenderCounts
  <2>. QED  BY <2>2, <2>3
<1>4. ASSUME NEW a1 \in 0 .. UINTX - 1, NEW b1 \in 0 .. UINTX - 1,
             NEW tb1 \in [0 .. UART_TX_BUF_SIZE - 1 -> Out \cup {Nil}],
             NEW f1 \in Seq(Sent), NEW w1 \in Seq(Out), OutRing(a1, b1, tb1, f1, w1),
             tx_r' = a1, tx_w' = b1, tx_buf' = tb1, fifo' = f1, written' = w1, echo' \in Seq(Echo),
             \A a \in Agent : stage'[a] = "send" => tx_w' # tx_r'
      PROVE  OutputTypes' /\ OutInv'
  BY <1>4 DEF OutputTypes, OutInv, Sent
<1>5. ASSUME UNCHANGED <<tx_r, tx_w, tx_buf, fifo, written>>, echo' \in Seq(Echo),
             \A a \in Agent : stage'[a] = "send" => stage[a] = "send" \/ tx_w # tx_r
      PROVE  OutputTypes' /\ OutInv'
  BY <1>2, <1>5 DEF OutputTypes, OutInv, Sent
<1>6. CASE uart_send
  <2>. DEFINE f1 == Tail(fifo)
              w1 == IF Head(fifo) \in Out THEN Tail(written) ELSE written
  <2>1. /\ fifo # <<>> /\ fifo' = f1 /\ written' = w1
        /\ UNCHANGED <<tx_r, tx_w, tx_buf, stage, echo>>
    BY <1>6 DEF uart_send, output
  <2>2. w1 = IF Head(fifo) \in Out THEN Tail(written) ELSE written
    OBVIOUS
  <2>. HIDE DEF w1
  <2>3. f1 \in Seq(Sent) /\ w1 \in Seq(Out) /\ OutRing(tx_r, tx_w, tx_buf, f1, w1)
    BY <1>2, <1>3, <2>1, <2>2, OutSend
  <2>. HIDE DEF f1
  <2>. QED  BY <1>2, <1>4, <2>1, <2>3
<1>7. ASSUME NEW p \in Proc, uartputc(p) PROVE OutputTypes' /\ OutInv'
  <2>1. CASE TxFull
    <3>1. UNCHANGED <<tx_r, tx_w, tx_buf, fifo, written, echo>> /\ Enter(p, "putc_asleep")
      BY <1>7, <2>1 DEF uartputc, output
    <3>. QED  BY <1>0, <1>1, <1>2, <1>5, <3>1 DEF Enter, ControlTypes
  <2>2. CASE ~TxFull
    <3>. DEFINE b1 == (tx_w + 1) % UINTX
                tb1 == PutOut(tx_buf, tx_w, p)
                w1 == Append(written, p)
    <3>1. /\ tx_w' = b1 /\ tx_buf' = tb1 /\ written' = w1 /\ UNCHANGED <<tx_r, fifo, echo>>
          /\ Enter(p, "start") /\ tlock = Nil
      BY <1>7, <2>2 DEF uartputc, output, PutOut
    <3>2. \A a \in Agent : stage'[a] # "send"
      BY <1>0, <1>1, <1>2, <3>1 DEF Enter, ControlTypes
    <3>3. tx_w # (tx_r + UART_TX_BUF_SIZE) % UINTX /\ p \in Out
      BY <2>2 DEF TxFull, Out
    <3>4. b1 = (tx_w + 1) % UINTX /\ tb1 = PutOut(tx_buf, tx_w, p)
      OBVIOUS
    <3>. HIDE DEF b1, tb1
    <3>5. /\ b1 \in 0 .. UINTX - 1 /\ tb1 \in [0 .. UART_TX_BUF_SIZE - 1 -> Out \cup {Nil}]
          /\ OutRing(tx_r, b1, tb1, fifo, w1) /\ w1 \in Seq(Out)
      BY <1>2, <1>3, <3>3, <3>4, OutPut
    <3>. HIDE DEF w1
    <3>. QED  BY <1>2, <1>4, <3>1, <3>2, <3>5
  <2>. QED  BY <2>1, <2>2
<1>8. ASSUME NEW a \in Agent, uartstart_send(a) PROVE OutputTypes' /\ OutInv'
  <2>. DEFINE a1 == (tx_r + 1) % UINTX
              tb1 == PutOut(tx_buf, tx_r, Nil)
              f1 == Append(fifo, tx_buf[tx_r % UART_TX_BUF_SIZE])
  <2>1. /\ tx_r' = a1 /\ tx_buf' = tb1 /\ fifo' = f1 /\ UNCHANGED <<tx_w, written, echo>>
        /\ stage[a] = "send" /\ EnterAndWakeup(a, "start", "putc_asleep", "putc")
    BY <1>8 DEF uartstart_send, PutOut
  <2>2. \A b \in Agent : stage'[b] # "send"
    BY <1>2, <2>1 DEF EnterAndWakeup
  <2>3. tx_r # tx_w /\ Len(fifo) <= 1
    BY <1>2, <1>3, <2>1
  <2>4. /\ a1 = (tx_r + 1) % UINTX /\ tb1 = PutOut(tx_buf, tx_r, Nil)
        /\ FifoMoved(fifo, f1, tx_buf, tx_r)
    BY DEF FifoMoved
  <2>. HIDE DEF a1, tb1, f1
  <2>5. /\ a1 \in 0 .. UINTX - 1 /\ tb1 \in [0 .. UART_TX_BUF_SIZE - 1 -> Out \cup {Nil}]
        /\ f1 \in Seq(Sent) /\ OutRing(a1, tx_w, tb1, f1, written)
    BY <1>2, <2>3, <2>4, OutMove
  <2>. QED  BY <1>2, <1>4, <2>1, <2>2, <2>5
<1>9. CASE uartputc_sync_send
  <2>. DEFINE x == Head(echo)
  <2>1. /\ fifo' = Append(fifo, x) /\ echo' = Tail(echo) /\ stage[Intr] = "echo_send"
        /\ UNCHANGED <<tx_r, tx_w, tx_buf, written>> /\ Enter(Intr, "echo")
    BY <1>9 DEF uartputc_sync_send, output
  <2>2. x \in Echo /\ Tail(echo) \in Seq(Echo) /\ Len(fifo) <= 1
    BY <1>2, <1>3, <2>1, HeadTailProperties
  <2>3. \A a \in Agent : stage'[a] = "send" => stage[a] = "send"
    BY <1>0, <1>1, <2>1 DEF Enter, ControlTypes
  <2>. HIDE DEF x
  <2>4. Append(fifo, x) \in Seq(Sent) /\ OutRing(tx_r, tx_w, tx_buf, Append(fifo, x), written)
    BY <1>2, <2>2, OutEcho
  <2>5. PICK f1 : f1 = Append(fifo, x)
    OBVIOUS
  <2>. QED  BY <1>2, <1>4, <2>1, <2>2, <2>3, <2>4, <2>5
<1>10. ASSUME NEW c \in Typed, consoleintr(c) PROVE OutputTypes' /\ OutInv'
  <2>1. echo' \in Seq(Echo)
    BY <1>1, <1>10, EchoStep
  <2>2. /\ UNCHANGED <<tx_r, tx_w, tx_buf, fifo, written>>
        /\ Enter(Intr, "echo") \/ EnterAndWakeup(Intr, "echo", "read_asleep", "read")
    BY <1>10 DEF consoleintr, output
  <2>3. \A a \in Agent : stage'[a] = "send" => stage[a] = "send"
    BY <1>0, <1>1, <2>2 DEF Enter, EnterAndWakeup, ControlTypes
  <2>. QED  BY <1>5, <2>1, <2>2, <2>3
<1>11. ASSUME NEW a \in Agent, uartstart(a) PROVE OutputTypes' /\ OutInv'
  <2>1. /\ UNCHANGED <<tx_r, tx_w, tx_buf, fifo, written, echo>>
        /\ Enter(a, "idle") \/ (Enter(a, "send") /\ tx_w # tx_r)
    BY <1>11 DEF uartstart, output
  <2>. QED  BY <1>1, <1>2, <1>5, <2>1 DEF Enter, ControlTypes
<1>12. CASE uart_receive \/ UNCHANGED consolevars
  BY <1>2, <1>5, <1>12 DEF uart_receive, consolevars, output
<1>13. CASE uartintr \/ uartintr_tx \/ consoleintr_end \/ uartputc_sync
  BY <1>0, <1>1, <1>2, <1>5, <1>13
     DEF uartintr, uartintr_tx, consoleintr_end, uartputc_sync, Enter, ControlTypes, output
<1>14. ASSUME NEW p \in Proc, consoleread_awake(p) \/ consolekill(p)
                              \/ \E k \in 1 .. MaxRead : sys_read(p, k)
       PROVE  OutputTypes' /\ OutInv'
  BY <1>0, <1>1, <1>2, <1>5, <1>14
     DEF consoleread_awake, consolekill, sys_read, Enter, ControlTypes, output
<1>15. ASSUME NEW p \in Proc, consoleread_wait(p) \/ \E copied \in BOOLEAN : consoleread(p, copied)
       PROVE  OutputTypes' /\ OutInv'
  <2>1. /\ UNCHANGED <<tx_r, tx_w, tx_buf, fifo, written, echo>>
        /\ Enter(p, "idle") \/ Enter(p, "read_asleep") \/ UNCHANGED stage
    BY <1>15 DEF consoleread_wait, consoleread, ReadDone, output
  <2>. QED  BY <1>0, <1>1, <1>2, <1>5, <2>1 DEF Enter, ControlTypes
<1>. QED
  BY <1>6, <1>7, <1>8, <1>9, <1>10, <1>11, <1>12, <1>13, <1>14, <1>15 DEF ConsoleNext

\* Who sleeps in uartputc() saw the buffer full under uart_tx_lock; nobody fills it
\* further, and who makes room wakes everybody.
LEMMA PutSleepStep ==
    ASSUME ControlTypes, PutSleepInv, [ConsoleNext]_consolevars
    PROVE  PutSleepInv'
<1>0. /\ Intr \in Agent /\ Intr \notin Proc /\ Nil \notin Agent /\ \A p \in Proc : p \in Agent
  BY Agents
<1>1. ASSUME UNCHANGED <<tx_r, tx_w>>,
             \A p \in Proc : stage'[p] = "putc_asleep" => stage[p] = "putc_asleep" \/ TxFull
      PROVE  PutSleepInv'
  BY <1>1 DEF PutSleepInv, TxFull
<1>2. ASSUME NEW p \in Proc, uartputc(p) PROVE PutSleepInv'
  <2>1. CASE TxFull
    BY <1>1, <1>2, <2>1 DEF uartputc, output
  <2>2. CASE ~TxFull
    <3>1. Enter(p, "start")
      BY <1>2, <2>2 DEF uartputc
    <3>. QED  BY <1>0, <2>2, <3>1 DEF Enter, ControlTypes, PutSleepInv
  <2>. QED  BY <2>1, <2>2
<1>3. ASSUME NEW a \in Agent, uartstart_send(a) PROVE PutSleepInv'
  BY <1>0, <1>3 DEF uartstart_send, EnterAndWakeup, PutSleepInv
<1>4. ASSUME NEW c \in Typed, consoleintr(c) PROVE PutSleepInv'
  <2>1. /\ UNCHANGED <<tx_r, tx_w>>
        /\ Enter(Intr, "echo") \/ EnterAndWakeup(Intr, "echo", "read_asleep", "read")
    BY <1>4 DEF consoleintr, output
  <2>. QED  BY <1>0, <1>1, <2>1 DEF Enter, EnterAndWakeup, ControlTypes
<1>5. ASSUME NEW a \in Agent, uartstart(a) PROVE PutSleepInv'
  BY <1>0, <1>1, <1>5 DEF uartstart, Enter, ControlTypes, output
<1>6. CASE uart_send \/ uart_receive \/ UNCHANGED consolevars
  BY <1>1, <1>6 DEF uart_send, uart_receive, consolevars, output
<1>7. CASE uartintr \/ uartintr_tx \/ consoleintr_end \/ uartputc_sync \/ uartputc_sync_send
  BY <1>0, <1>1, <1>7 DEF uartintr, uartintr_tx, consoleintr_end, uartputc_sync, uartputc_sync_send,
     Enter, ControlTypes, output
<1>8. ASSUME NEW p \in Proc, consoleread_awake(p) \/ consolekill(p)
                             \/ \E k \in 1 .. MaxRead : sys_read(p, k)
      PROVE  PutSleepInv'
  BY <1>0, <1>1, <1>8 DEF consoleread_awake, consolekill, sys_read, Enter, ControlTypes, output
<1>9. ASSUME NEW p \in Proc, consoleread_wait(p) \/ \E copied \in BOOLEAN : consoleread(p, copied)
      PROVE  PutSleepInv'
  <2>1. /\ UNCHANGED <<tx_r, tx_w>>
        /\ Enter(p, "idle") \/ Enter(p, "read_asleep") \/ UNCHANGED stage
    BY <1>9 DEF consoleread_wait, consoleread, ReadDone, output
  <2>. QED  BY <1>0, <1>1, <2>1 DEF Enter, ControlTypes
<1>. QED
  BY <1>2, <1>3, <1>4, <1>5, <1>6, <1>7, <1>8, <1>9 DEF ConsoleNext

\* Who leaves characters in the buffer leaves somebody to send them: the UART is busy
\* and will ask for an interrupt, or one is asked for, or a cpu is on its way.
LEMMA StartStep ==
    ASSUME ControlTypes, OutputTypes, TxLockInv, StartInv, [ConsoleNext]_consolevars
    PROVE  StartInv'
<1>0. /\ Intr \in Agent /\ Intr \notin Proc /\ Nil \notin Agent /\ \A p \in Proc : p \in Agent
  BY Agents
<1>1. ASSUME UNCHANGED <<tx_r, tx_w, fifo, irq, tlock>>, stage'[Intr] = stage[Intr] PROVE StartInv'
  BY <1>1 DEF StartInv
<1>2. CASE uart_send
  <2>1. fifo # <<>> /\ fifo' = Tail(fifo) /\ irq' = (irq \/ Len(fifo) = 1)
    BY <1>2 DEF uart_send
  <2>2. ASSUME fifo' = <<>> PROVE Len(fifo) = 1
    <3>1. fifo \in Seq(Sent)
      BY DEF OutputTypes, Sent
    <3>2. PICK k \in Nat : k = Len(fifo) /\ Len(Tail(fifo)) = k - 1
      BY <2>1, <3>1, HeadTailProperties, LenProperties
    <3>3. k - 1 = 0
      BY <2>1, <2>2, <3>2, EmptySeq
    <3>4. k = 1
      BY <3>3
    <3>. QED  BY <3>2, <3>4
  <2>3. fifo' = <<>> => irq'
    BY <2>1, <2>2, Zenon
  <2>. QED  BY <2>3, Zenon DEF StartInv
<1>3. CASE uart_receive
  <2>1. irq' = TRUE
    BY <1>3 DEF uart_receive
  <2>. QED  BY <2>1 DEF StartInv
<1>4. CASE uartintr \/ uartputc_sync \/ uartputc_sync_send \/ consoleintr_end
  <2>1. stage'[Intr] # "idle"
    BY <1>0, <1>4 DEF uartintr, uartputc_sync, uartputc_sync_send, consoleintr_end, Enter, ControlTypes
  <2>. QED  BY <2>1 DEF StartInv
<1>5. CASE uartintr_tx
  <2>1. tlock' # Nil
    BY <1>0, <1>5 DEF uartintr_tx
  <2>. QED  BY <2>1 DEF StartInv
<1>6. ASSUME NEW c \in Typed, consoleintr(c) PROVE StartInv'
  <2>1. Enter(Intr, "echo") \/ EnterAndWakeup(Intr, "echo", "read_asleep", "read")
    BY <1>6 DEF consoleintr
  <2>2. stage'[Intr] # "idle"
    BY <1>0, <2>1 DEF Enter, EnterAndWakeup, ControlTypes
  <2>. QED  BY <2>2 DEF StartInv
<1>7. ASSUME NEW a \in Agent, uartstart(a) PROVE StartInv'
  <2>1. UNCHANGED <<tx_r, tx_w, fifo>> /\ tlock = a /\ (tx_w = tx_r \/ fifo # <<>> \/ tlock' = tlock)
    BY <1>7 DEF uartstart, output
  <2>. QED  BY <1>0, <2>1 DEF StartInv
<1>8. ASSUME NEW a \in Agent, uartstart_send(a) PROVE StartInv'
  <2>1. tlock' = a
    BY <1>8 DEF uartstart_send, TxLockInv
  <2>. QED  BY <1>0, <2>1 DEF StartInv
<1>9. ASSUME NEW p \in Proc, uartputc(p) PROVE StartInv'
  <2>1. CASE TxFull
    BY <1>0, <1>1, <1>9, <2>1 DEF uartputc, Enter, ControlTypes, output
  <2>2. CASE ~TxFull
    <3>1. tlock' = p
      BY <1>9, <2>2 DEF uartputc
    <3>. QED  BY <1>0, <3>1 DEF StartInv
  <2>. QED  BY <2>1, <2>2
<1>10. ASSUME NEW p \in Proc, consoleread_awake(p) \/ consolekill(p)
                              \/ \E k \in 1 .. MaxRead : sys_read(p, k)
       PROVE  StartInv'
  BY <1>0, <1>1, <1>10 DEF consoleread_awake, consolekill, sys_read, Enter, ControlTypes, output
<1>11. ASSUME NEW p \in Proc, consoleread_wait(p) \/ \E copied \in BOOLEAN : consoleread(p, copied)
       PROVE  StartInv'
  <2>1. /\ UNCHANGED <<tx_r, tx_w, fifo, irq, tlock>>
        /\ Enter(p, "idle") \/ Enter(p, "read_asleep") \/ UNCHANGED stage
    BY <1>11 DEF consoleread_wait, consoleread, ReadDone, output
  <2>. QED  BY <1>0, <1>1, <2>1 DEF Enter, ControlTypes
<1>12. CASE UNCHANGED consolevars
  BY <1>1, <1>12 DEF consolevars, output
<1>. QED
  BY <1>2, <1>3, <1>4, <1>5, <1>6, <1>7, <1>8, <1>9, <1>10, <1>11, <1>12 DEF ConsoleNext

-----------------------------------------------------------------------------
(***************************************************************************)
(* The theorems.                                                           *)
(***************************************************************************)

\* Nothing is typed, written or waited for when the console starts.
LEMMA ConsoleInitInv ==
    ASSUME ConsoleInit
    PROVE  ConsoleInv
<1>0. /\ Intr \in Agent /\ Intr \notin Proc /\ Nil \notin Agent /\ \A p \in Proc : p \in Agent
  BY Agents
<1>1. /\ UINTC \in Nat \ {0} /\ INPUT_BUF \in Nat \ {0} /\ MaxRead \in Nat
      /\ UINTX \in Nat \ {0} /\ UART_TX_BUF_SIZE \in Nat \ {0}
      /\ 0 % UINTC = 0 /\ 0 % UINTX = 0
  <2>1. /\ UINTC \in Nat \ {0} /\ INPUT_BUF \in Nat \ {0} /\ MaxRead \in Nat
        /\ UINTX \in Nat \ {0} /\ UART_TX_BUF_SIZE \in Nat \ {0}
    BY ConsoleAssumption
  <2>. QED  BY <2>1, 0 \in 0 .. UINTC - 1, 0 \in 0 .. UINTX - 1, ModSmall
<1>2. /\ <<>> \in Seq(Key) /\ <<>> \in Seq(Echo) /\ <<>> \in Seq(Echo \cup Out) /\ <<>> \in Seq(Out)
      /\ Len(<<>>) = 0 /\ <<>> \o <<>> = <<>>
  BY EmptySeq, ConcatEmptySeq
<1>3. InputTypes
  BY <1>1, <1>2 DEF ConsoleInit, InputTypes
<1>4. OutputTypes
  BY <1>1, <1>2 DEF ConsoleInit, OutputTypes
<1>5. ControlTypes
  <2>1. /\ clock \in Agent \cup {Nil} /\ tlock \in Agent \cup {Nil} /\ stage \in [Agent -> Stages]
        /\ n \in [Proc -> 0 .. MaxRead] /\ target \in [Proc -> 0 .. MaxRead]
    BY <1>1 DEF ConsoleInit, Stages
  <2>2. rx \in BOOLEAN /\ irq \in BOOLEAN /\ conskilled \in [Proc -> BOOLEAN]
    BY DEF ConsoleInit
  <2>. QED  BY <2>1, <2>2 DEF ControlTypes
<1>6. ASSUME NEW f, NEW P, NEW U, 0 % U = 0 PROVE Slice(f, 0, 0, P, U) = <<>>
  <2>1. Slice(f, 0, 0, P, U) = [k \in 1 .. 0 |-> f[(0 + k - 1) % P]]
    BY <1>6, 0 - 0 = 0 DEF Slice
  <2>. QED  BY <2>1
<1>7. InputInv
  <2>1. InRing(0, 0, 0, buf, <<>>, <<>>)
    <3>1. (0 - 0) % UINTC = 0 /\ (0 + Len(<<>>)) % UINTC = 0
      BY <1>1, <1>2
    <3>2. Slice(buf, 0, 0, INPUT_BUF, UINTC) = <<>>
      BY <1>1, <1>6
    <3>3. Holds(buf, 0, INPUT_BUF, 0, Key)
      BY DEF Holds
    <3>. QED  BY <1>1, <1>2, <3>1, <3>2, <3>3 DEF InRing
  <2>. QED  BY <2>1 DEF ConsoleInit, InputInv
<1>8. OutInv
  <2>1. OutOf(<<>>) = <<>>
    <3>1. PICK f : f = <<>> /\ f \in Seq(Out) /\ Len(f) = 0
      BY <1>2
    <3>2. Len(f) <= 2
      BY <3>1
    <3>3. Selected(f)
      BY <3>1, <3>2, OutOfIs
    <3>. QED  BY <3>1, <3>3 DEF Selected
  <2>2. (0 - 0) % UINTX = 0
    BY <1>1
  <2>3. Slice(tx_buf, 0, 0, UART_TX_BUF_SIZE, UINTX) = <<>>
    BY <1>1, <1>6
  <2>4. Holds(tx_buf, 0, UART_TX_BUF_SIZE, 0, Out)
    BY DEF Holds
  <2>5. OutRing(0, 0, tx_buf, <<>>, <<>>)
    BY <1>1, <1>2, <2>1, <2>2, <2>3, <2>4 DEF OutRing
  <2>. QED  BY <2>5 DEF ConsoleInit, OutInv
<1>9. FifoInv
  <2>1. Sender = 0 /\ Echoer = 0
    BY <1>0 DEF ConsoleInit, Sender, Echoer
  <2>. QED  BY <1>2, <2>1 DEF ConsoleInit, FifoInv
<1>10. WantInv /\ ReadSleepInv /\ PutSleepInv /\ StartInv
  BY <1>0 DEF ConsoleInit, WantInv, ReadSleepInv, PutSleepInv, StartInv, ReadStages
<1>11. TxLockInv
  BY <1>0 DEF ConsoleInit, TxLockInv
<1>. QED
  BY <1>3, <1>4, <1>5, <1>7, <1>8, <1>9, <1>10, <1>11 DEF ConsoleInv, ConsoleTypeOK

\* Every step keeps the invariant.
LEMMA ConsoleStep ==
    ASSUME ConsoleInv, [ConsoleNext]_consolevars
    PROVE  ConsoleInv'
<1>1. /\ InputTypes /\ OutputTypes /\ ControlTypes /\ WantInv /\ InputInv /\ ReadSleepInv
      /\ TxLockInv /\ FifoInv /\ OutInv /\ PutSleepInv /\ StartInv
  BY DEF ConsoleInv, ConsoleTypeOK
<1>2. InputTypes' /\ InputInv'
  BY InputStep
<1>3. OutputTypes' /\ OutInv'
  BY OutStep
<1>4. ControlTypes' /\ WantInv'
  BY <1>1, ControlStep
<1>5. ReadSleepInv' /\ TxLockInv' /\ FifoInv' /\ PutSleepInv' /\ StartInv'
  BY <1>1, ReadSleepStep, TxLockStep, FifoStep, PutSleepStep, StartStep
<1>. QED
  BY <1>2, <1>3, <1>4, <1>5 DEF ConsoleInv, ConsoleTypeOK

\* What the console keeps: its counters and its buffers always agree with the history.
LEMMA ConsoleAlways == ConsoleSpec => []ConsoleInv
<1>1. ConsoleInit => ConsoleInv
  BY ConsoleInitInv
<1>2. ConsoleInv /\ [ConsoleNext]_consolevars => ConsoleInv'
  BY ConsoleStep
<1>. QED
  BY <1>1, <1>2, PTL DEF ConsoleSpec

\* The input buffer has what InputKept says, in two parts.
LEMMA InputIsKept ==
    ASSUME ConsoleInv
    PROVE  InputKept
<1>1. InputTypes /\ InputInv /\ ReadSleepInv
  BY DEF ConsoleInv, ConsoleTypeOK
<1>. DEFINE D == (e - r) % UINTC
<1>2. InCounts(r, w, e, buf, lines, line, D) /\ INPUT_BUF \in Nat \ {0}
  BY <1>1, InputFacts
<1>3. D <= INPUT_BUF /\ (D = INPUT_BUF => line = <<>>)
  BY <1>1 DEF InputInv, InRing
<1>4. InputFull => D = INPUT_BUF
  <2>1. D \in Nat
    BY <1>2 DEF InCounts
  <2>2. InputFull => D >= INPUT_BUF
    BY DEF InputFull
  <2>. HIDE DEF D
  <2>. QED  BY <1>2, <1>3, <2>1, <2>2
<1>5. /\ Slice(buf, r, w, INPUT_BUF, UINTC) = lines
      /\ Slice(buf, w, e, INPUT_BUF, UINTC) = line
      /\ (r = w <=> lines = <<>>) /\ (e = w <=> line = <<>>)
  BY <1>2 DEF InCounts
<1>. QED
  BY <1>1, <1>3, <1>4, <1>5 DEF InputKept, ReadSleepInv

\* The output is what OutputKept says.
LEMMA OutputIsKept ==
    ASSUME ConsoleInv
    PROVE  OutputKept
<1>1. OutputTypes /\ OutInv /\ FifoInv /\ PutSleepInv /\ StartInv
  BY DEF ConsoleInv, ConsoleTypeOK
<1>2. Len(fifo) <= FIFO
  <2>1. PICK s \in 0 .. 1, t \in 0 .. 1 : s = Sender /\ t = Echoer
    BY SenderCounts
  <2>2. Len(fifo) \in Nat /\ Len(fifo) + s + t <= 2
    BY <1>1, <2>1, LenProperties DEF FifoInv, OutputTypes
  <2>3. FIFO \in Nat /\ FIFO >= 2
    BY ConsoleAssumption
  <2>. QED  BY <2>2, <2>3
<1>3. OutOf(fifo) \o Slice(tx_buf, tx_r, tx_w, UART_TX_BUF_SIZE, UINTX) = written
  BY <1>1 DEF OutInv, OutRing
<1>. QED
  BY <1>1, <1>2, <1>3 DEF OutputKept, PutSleepInv, StartInv

\* The state of the console, of the transmit buffer and of the UART has its types: the
\* counters stay within their range, the buffers hold characters or nothing, and
\* what waits in the FIFO is an echo or was written by a process.
THEOREM ConsoleTypeCorrect == ConsoleSpec => []ConsoleTypeOK
<1>1. ConsoleInv => ConsoleTypeOK
  BY DEF ConsoleInv
<1>. QED
  BY <1>1, ConsoleAlways, PTL

\* InputKept: whatever is typed, killed, erased and read, and wherever r, w and e wrap,
\* cons.buf holds the lines to read and then the line being edited; a full
\* buffer has a line to read; and no reader sleeps beside one.
THEOREM ConsoleInputKept == ConsoleSpec => []InputKept
<1>1. ConsoleInv => InputKept
  BY InputIsKept
<1>. QED
  BY <1>1, ConsoleAlways, PTL

\* OutputKept: what processes write is sent in order, nothing lost or sent twice, beside
\* the echoes that take no lock; the FIFO does not overflow; no writer sleeps beside
\* free space; and what waits has an interrupt or a cpu on its way.
THEOREM ConsoleOutputKept == ConsoleSpec => []OutputKept
<1>1. ConsoleInv => OutputKept
  BY OutputIsKept
<1>. QED
  BY <1>1, ConsoleAlways, PTL
=============================================================================
