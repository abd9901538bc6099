----------------------------- MODULE LogProofs -----------------------------
(***************************************************************************)
(* Proofs about module Log: its invariants and its refinement of TxnStore, *)
(* for any number of processes, blocks and values.                         *)
(***************************************************************************)
EXTENDS LogInv, TLAPS, FiniteSetTheorems, SequenceTheorems

-----------------------------------------------------------------------------
(***************************************************************************)
(* Facts used in many places.                                              *)
(***************************************************************************)

\* An index of a loop over log.lh is within the header and within the log.
LEMMA LoopIndex ==
    ASSUME TypeOK, HeaderInv, NEW p \in Proc,
           pc[p] \in {"write_log", "install", "r_install"}
    PROVE  /\ tail[p] + 1 \in 1 .. Len(lh)
           /\ tail[p] + 1 \in LogSlot
           /\ lh[tail[p] + 1] \in Block
           /\ tail[p] + 1 <= Len(lh)
           /\ Len(lh) \in Nat
<1>1. tail[p] \in Nat /\ tail[p] < Len(lh) /\ Len(lh) \in Nat /\ lh \in Seq(Block)
  BY DEF TypeOK, HeaderInv
<1>2. Len(lh) <= nlog - 1 /\ nlog \in Nat
  BY ConstAssumption DEF HeaderInv
<1>. QED
  BY <1>1, <1>2 DEF LogSlot

\* The open operations are finitely many, and log.outstanding is positive
\* while there is one.
LEMMA OpenFinite ==
    /\ IsFiniteSet(Open)
    /\ CountInv => \A p \in Open : outstanding \in Nat /\ outstanding >= 1
<1>1. IsFiniteSet(Open)
  BY ConstAssumption, FS_Subset DEF Open
<1>2. ASSUME CountInv, NEW p \in Open PROVE outstanding \in Nat /\ outstanding >= 1
  BY <1>1, <1>2, FS_EmptySet, FS_CardinalityType DEF CountInv
<1>. QED
  BY <1>1, <1>2

\* The labels, so that their sets need not be expanded.
LEMMA Labels ==
    /\ {"idle", "begin", "asleep"} \subseteq PCs
    /\ {"op", "check", "append"} \subseteq PCs
    /\ {"commit", "write_log", "write_head", "install", "erase",
        "committed"} \subseteq PCs
    /\ {"read_head", "r_install", "r_erase"} \subseteq PCs
  BY DEF PCs, OpPCs, CommitPCs, RecoveryPCs

\* One turn of a loop over log.lh keeps the types of tail and pc.
LEMMA LoopTypes ==
    ASSUME TypeOK, NEW p \in Proc, NEW again \in PCs, NEW done \in PCs,
           LoopNext(p, again, done)
    PROVE  tail' \in [Proc -> Nat] /\ pc' \in [Proc -> PCs]
<1>1. tail \in [Proc -> Nat] /\ pc \in [Proc -> PCs]
  BY DEF TypeOK
<1>2. \E t \in Nat : tail' = [tail EXCEPT ![p] = t]
  BY <1>1 DEF LoopNext
<1>3. \E label \in PCs : pc' = [pc EXCEPT ![p] = label]
  BY DEF LoopNext, Goto
<1>. QED
  BY <1>1, <1>2, <1>3

-----------------------------------------------------------------------------
\* Every step keeps the types.
LEMMA TypeStep ==
    ASSUME TypeOK, HeaderInv, HeldInv, CountInv, [Next]_vars
    PROVE  TypeOK'
<1>1. ASSUME NEW p \in Proc, begin_op(p) PROVE TypeOK'
  <2>1. CASE committing \/ NoSpace
    BY <1>1, <2>1, Labels DEF begin_op, TypeOK, Goto, disk
  <2>2. CASE ~(committing \/ NoSpace)
    <3>1. outstanding' \in Nat /\ wset' \in [Proc -> SUBSET Block]
      BY <1>1, <2>2 DEF begin_op, TypeOK
    <3>. QED
      BY <1>1, <2>2, <3>1, Labels DEF begin_op, TypeOK, Goto, disk
  <2>. QED
    BY <2>1, <2>2
<1>2. ASSUME NEW p \in Proc, NEW b \in Block, NEW v \in Val, modify(p, b, v)
      PROVE  TypeOK'
  BY <1>2, Labels DEF modify, TypeOK, Goto, disk
<1>3. ASSUME NEW p \in Proc, log_write_check(p) PROVE TypeOK'
  BY <1>3, Labels DEF log_write_check, TypeOK, Goto, disk, mem
<1>4. ASSUME NEW p \in Proc, log_write(p) PROVE TypeOK'
  <2>1. held[p] \in Block
    BY <1>4, ConstAssumption DEF log_write, TypeOK, HeldInv
  <2>2. lh' \in Seq(Block) /\ pinned' \subseteq Block
    <3>1. CASE held[p] \in Logged
      BY <1>4, <3>1 DEF log_write, TypeOK
    <3>2. CASE held[p] \notin Logged
      <4>1. lh' = Append(lh, held[p]) /\ pinned' = pinned \cup {held[p]}
        BY <1>4, <3>2 DEF log_write
      <4>. QED
        BY <2>1, <4>1, AppendProperties DEF TypeOK
    <3>. QED
      BY <3>1, <3>2
  <2>3. wset' \in [Proc -> SUBSET Block]
    BY <1>4, <2>1 DEF log_write, TypeOK
  <2>. QED
    BY <1>4, <2>2, <2>3, Labels DEF log_write, TypeOK, Goto, disk
<1>5. ASSUME NEW p \in Proc, end_op(p) PROVE TypeOK'
  <2>1. outstanding' \in Nat
    BY <1>5, OpenFinite DEF end_op, Open, OpPCs
  <2>2. pc' \in [Proc -> PCs]
    BY <1>5, Labels DEF end_op, TypeOK, Goto, GotoAndWakeup
  <2>3. committing' \in BOOLEAN /\ panicked' \in BOOLEAN
    BY <1>5 DEF end_op, TypeOK
  <2>. QED
    BY <1>5, <2>1, <2>2, <2>3 DEF end_op, TypeOK, disk
<1>6. ASSUME NEW p \in Proc, commit(p) PROVE TypeOK'
  BY <1>6, Labels DEF commit, TypeOK, Goto, disk, mem
<1>7. ASSUME NEW p \in Proc, write_log(p) PROVE TypeOK'
  <2>1. lh[tail[p] + 1] \in Block
    BY <1>7, LoopIndex DEF write_log
  <2>2. logblk' \in [LogSlot -> Val \cup {Torn}]
    BY <1>7, <2>1 DEF write_log, TypeOK
  <2>3. tail' \in [Proc -> Nat] /\ pc' \in [Proc -> PCs]
    BY <1>7, LoopTypes, Labels DEF write_log
  <2>. QED
    BY <1>7, <2>2, <2>3 DEF write_log, TypeOK, mem
<1>8. ASSUME NEW p \in Proc, write_head(p) PROVE TypeOK'
  BY <1>8, Labels DEF write_head, TypeOK, Goto, mem
<1>9. ASSUME NEW p \in Proc, install_trans(p) PROVE TypeOK'
  <2>1. lh[tail[p] + 1] \in Block /\ logblk[tail[p] + 1] \in Val \cup {Torn}
    BY <1>9, LoopIndex DEF install_trans, TypeOK
  <2>2. /\ home' \in [Block -> Val \cup {Torn}]
        /\ cache' \in [Block -> Val \cup {Torn}]
    BY <1>9, <2>1 DEF install_trans, install_block, TypeOK
  <2>3. tail' \in [Proc -> Nat] /\ pc' \in [Proc -> PCs]
    BY <1>9, LoopTypes, Labels DEF install_trans
  <2>. QED
    BY <1>9, <2>2, <2>3 DEF install_trans, TypeOK
<1>10. ASSUME NEW p \in Proc, commit_erase(p) PROVE TypeOK'
  BY <1>10, Labels DEF commit_erase, TypeOK, Goto
<1>11. ASSUME NEW p \in Proc, end_commit(p) PROVE TypeOK'
  BY <1>11, Labels DEF end_commit, TypeOK, GotoAndWakeup, disk
<1>12. ASSUME NEW p \in Proc, read_head(p) PROVE TypeOK'
  BY <1>12, Labels DEF read_head, TypeOK, Goto, disk
<1>13. ASSUME NEW p \in Proc, recover_install(p) PROVE TypeOK'
  <2>1. lh[tail[p] + 1] \in Block /\ logblk[tail[p] + 1] \in Val \cup {Torn}
    BY <1>13, LoopIndex DEF recover_install, TypeOK
  <2>2. /\ home' \in [Block -> Val \cup {Torn}]
        /\ cache' \in [Block -> Val \cup {Torn}]
    BY <1>13, <2>1 DEF recover_install, install_block, TypeOK
  <2>3. tail' \in [Proc -> Nat] /\ pc' \in [Proc -> PCs]
    BY <1>13, LoopTypes, Labels DEF recover_install
  <2>. QED
    BY <1>13, <2>2, <2>3 DEF recover_install, TypeOK
<1>14. ASSUME NEW p \in Proc, recover_erase(p) PROVE TypeOK'
  BY <1>14, Labels DEF recover_erase, TypeOK, Goto
<1>15. ASSUME NEW b \in Block, Evict(b) PROVE TypeOK'
  BY <1>15 DEF Evict, TypeOK, disk, proc
<1>16. ASSUME Crash PROVE TypeOK'
  <2>1. home' \in [Block -> Val \cup {Torn}]
    BY <1>16 DEF Crash, TornHomes, TypeOK
  <2>2. logblk' \in [LogSlot -> Val \cup {Torn}]
    BY <1>16 DEF Crash, TornLogs, TypeOK
  <2>3. pc' \in [Proc -> PCs]
    BY <1>16, Labels DEF Crash
  <2>. QED
    <3>1. /\ tail' \in [Proc -> Nat] /\ held' \in [Proc -> Block \cup {NoBlock}]
          /\ wset' \in [Proc -> SUBSET Block]
      BY <1>16 DEF Crash
    <3>2. lh' \in Seq(Block) /\ dhead' \in Seq(Block) /\ outstanding' \in Nat
      BY <1>16 DEF Crash, TypeOK
    <3>. QED
      BY <1>16, <2>1, <2>2, <2>3, <3>1, <3>2 DEF Crash, TypeOK
<1>17. CASE UNCHANGED vars
  BY <1>17 DEF TypeOK, vars, disk, mem, proc
<1>. QED
  BY <1>1, <1>2, <1>3, <1>4, <1>5, <1>6, <1>7, <1>8, <1>9, <1>10, <1>11,
     <1>12, <1>13, <1>14, <1>15, <1>16, <1>17
     DEF Next, Op, CommitStep, RecoveryStep

-----------------------------------------------------------------------------
\* The last open operation leaves none behind.
LEMMA LastOpen ==
    ASSUME CountInv, NEW p \in Open, outstanding - 1 = 0
    PROVE  Open = {p}
<1>1. IsFiniteSet(Open)
  BY OpenFinite
<1>2. /\ IsFiniteSet(Open \ {p})
      /\ Cardinality(Open \ {p}) = Cardinality(Open) - 1
  BY <1>1, FS_RemoveElement
<1>3. Cardinality(Open \ {p}) = 0
  BY <1>2 DEF CountInv
<1>4. Open \ {p} = {}
  BY <1>2, <1>3, FS_EmptySet
<1>. QED
  BY <1>4

\* commit() and recovery stay alone.
LEMMA ControlStep ==
    ASSUME TypeOK, ControlInv, CountInv, [Next]_vars
    PROVE  ControlInv'
<1>. USE DEF ControlInv, CommitAlone, Up, Open, OpPCs, CommitPCs, RecoveryPCs
<1>0. pc \in [Proc -> PCs] /\ initproc \in Proc
  BY ConstAssumption DEF TypeOK
<1>1. ASSUME NEW p \in Proc, begin_op(p) PROVE ControlInv'
  BY <1>0, <1>1 DEF begin_op, Goto
<1>2. ASSUME NEW p \in Proc, NEW b \in Block, NEW v \in Val, modify(p, b, v)
      PROVE  ControlInv'
  BY <1>0, <1>2 DEF modify, Goto
<1>3. ASSUME NEW p \in Proc, log_write_check(p) PROVE ControlInv'
  BY <1>0, <1>3 DEF log_write_check, Goto, mem
<1>4. ASSUME NEW p \in Proc, log_write(p) PROVE ControlInv'
  BY <1>0, <1>4 DEF log_write, Goto
<1>5. ASSUME NEW p \in Proc, end_op(p) PROVE ControlInv'
  <2>1. CASE committing
    BY <1>5, <2>1 DEF end_op
  <2>2. CASE ~committing /\ outstanding' = 0
    <3>1. Open = {p}
      BY <1>5, <2>2, LastOpen DEF end_op
    <3>. QED
      BY <1>0, <1>5, <2>2, <3>1 DEF end_op, Goto
  <2>3. CASE ~committing /\ outstanding' # 0
    BY <1>0, <1>5, <2>3 DEF end_op, GotoAndWakeup
  <2>. QED
    BY <2>1, <2>2, <2>3
<1>6. ASSUME NEW p \in Proc, commit(p) PROVE ControlInv'
  BY <1>0, <1>6 DEF commit, Goto, mem
<1>7. ASSUME NEW p \in Proc, write_log(p) PROVE ControlInv'
  BY <1>0, <1>7 DEF write_log, LoopNext, Goto, mem
<1>8. ASSUME NEW p \in Proc, write_head(p) PROVE ControlInv'
  BY <1>0, <1>8 DEF write_head, Goto, mem
<1>9. ASSUME NEW p \in Proc, install_trans(p) PROVE ControlInv'
  BY <1>0, <1>9 DEF install_trans, LoopNext, Goto
<1>10. ASSUME NEW p \in Proc, commit_erase(p) PROVE ControlInv'
  BY <1>0, <1>10 DEF commit_erase, Goto
<1>11. ASSUME NEW p \in Proc, end_commit(p) PROVE ControlInv'
  BY <1>0, <1>11 DEF end_commit, GotoAndWakeup
<1>12. ASSUME NEW p \in Proc, read_head(p) PROVE ControlInv'
  BY <1>0, <1>12 DEF read_head, Goto
<1>13. ASSUME NEW p \in Proc, recover_install(p) PROVE ControlInv'
  BY <1>0, <1>13 DEF recover_install, LoopNext, Goto
<1>14. ASSUME NEW p \in Proc, recover_erase(p) PROVE ControlInv'
  BY <1>0, <1>14 DEF recover_erase, Goto
<1>15. ASSUME NEW b \in Block, Evict(b) PROVE ControlInv'
  BY <1>15 DEF Evict, proc
<1>16. ASSUME Crash PROVE ControlInv'
  BY <1>0, <1>16 DEF Crash
<1>17. CASE UNCHANGED vars
  BY <1>17 DEF vars, mem, proc
<1>. QED
  BY <1>1, <1>2, <1>3, <1>4, <1>5, <1>6, <1>7, <1>8, <1>9, <1>10, <1>11,
     <1>12, <1>13, <1>14, <1>15, <1>16, <1>17
     DEF Next, Op, CommitStep, RecoveryStep

-----------------------------------------------------------------------------
\* A step that moves no process into or out of an operation.
LEMMA CountSame ==
    ASSUME CountInv, outstanding' = outstanding, Open' = Open
    PROVE  CountInv'
  BY DEF CountInv

\* log.outstanding keeps counting the open operations.
LEMMA CountStep ==
    ASSUME TypeOK, ControlInv, CountInv, [Next]_vars
    PROVE  CountInv'
<1>. USE DEF Open, OpPCs
<1>0. pc \in [Proc -> PCs] /\ CountInv
  BY DEF TypeOK
<1>1. ASSUME NEW p \in Proc, begin_op(p) PROVE CountInv'
  <2>1. CASE committing \/ NoSpace
    BY <1>0, <1>1, <2>1, CountSame DEF begin_op, Goto
  <2>2. CASE ~(committing \/ NoSpace)
    <3>1. Open' = Open \cup {p} /\ p \notin Open
      BY <1>0, <1>1, <2>2 DEF begin_op, Goto
    <3>2. Cardinality(Open \cup {p}) = Cardinality(Open) + 1
      BY <3>1, OpenFinite, FS_AddElement
    <3>. QED
      BY <1>1, <2>2, <3>1, <3>2 DEF begin_op, CountInv
  <2>. QED
    BY <2>1, <2>2
<1>2. ASSUME NEW p \in Proc, NEW b \in Block, NEW v \in Val, modify(p, b, v)
      PROVE  CountInv'
  BY <1>0, <1>2, CountSame DEF modify, Goto
<1>3. ASSUME NEW p \in Proc, log_write_check(p) PROVE CountInv'
  BY <1>0, <1>3, CountSame DEF log_write_check, Goto, mem
<1>4. ASSUME NEW p \in Proc, log_write(p) PROVE CountInv'
  BY <1>0, <1>4, CountSame DEF log_write, Goto
<1>5. ASSUME NEW p \in Proc, end_op(p) PROVE CountInv'
  <2>1. p \in Open /\ ~committing
    BY <1>5 DEF end_op, ControlInv, CommitAlone
  <2>2. Open' = Open \ {p}
    BY <1>0, <1>5, <2>1 DEF end_op, Goto, GotoAndWakeup
  <2>3. Cardinality(Open \ {p}) = Cardinality(Open) - 1
    BY <2>1, OpenFinite, FS_RemoveElement
  <2>. QED
    BY <1>5, <2>2, <2>3 DEF end_op, CountInv
<1>6. ASSUME NEW p \in Proc, commit(p) PROVE CountInv'
  BY <1>0, <1>6, CountSame DEF commit, Goto, mem
<1>7. ASSUME NEW p \in Proc, write_log(p) PROVE CountInv'
  BY <1>0, <1>7, CountSame DEF write_log, LoopNext, Goto, mem
<1>8. ASSUME NEW p \in Proc, write_head(p) PROVE CountInv'
  BY <1>0, <1>8, CountSame DEF write_head, Goto, mem
<1>9. ASSUME NEW p \in Proc, install_trans(p) PROVE CountInv'
  BY <1>0, <1>9, CountSame DEF install_trans, LoopNext, Goto
<1>10. ASSUME NEW p \in Proc, commit_erase(p) PROVE CountInv'
  BY <1>0, <1>10, CountSame DEF commit_erase, Goto
<1>11. ASSUME NEW p \in Proc, end_commit(p) PROVE CountInv'
  BY <1>0, <1>11, CountSame DEF end_commit, GotoAndWakeup
<1>12. ASSUME NEW p \in Proc, read_head(p) PROVE CountInv'
  BY <1>0, <1>12, CountSame DEF read_head, Goto
<1>13. ASSUME NEW p \in Proc, recover_install(p) PROVE CountInv'
  BY <1>0, <1>13, CountSame DEF recover_install, LoopNext, Goto
<1>14. ASSUME NEW p \in Proc, recover_erase(p) PROVE CountInv'
  BY <1>0, <1>14, CountSame DEF recover_erase, Goto
<1>15. ASSUME NEW b \in Block, Evict(b) PROVE CountInv'
  BY <1>0, <1>15, CountSame DEF Evict, proc
<1>16. ASSUME Crash PROVE CountInv'
  <2>1. Open' = {}
    BY <1>16 DEF Crash
  <2>. QED
    BY <1>16, <2>1, FS_EmptySet DEF Crash, CountInv
<1>17. CASE UNCHANGED vars
  BY <1>0, <1>17, CountSame DEF vars, mem, proc
<1>. QED
  BY <1>1, <1>2, <1>3, <1>4, <1>5, <1>6, <1>7, <1>8, <1>9, <1>10, <1>11,
     <1>12, <1>13, <1>14, <1>15, <1>16, <1>17
     DEF Next, Op, CommitStep, RecoveryStep

\* Buffers stay locked by one process.
LEMMA HeldStep ==
    ASSUME TypeOK, ControlInv, HeldInv, [Next]_vars
    PROVE  HeldInv'
<1>. USE DEF HeldInv
<1>0. pc \in [Proc -> PCs] /\ held \in [Proc -> Block \cup {NoBlock}]
      /\ NoBlock \notin Block
  BY ConstAssumption DEF TypeOK
<1>1. ASSUME NEW p \in Proc, begin_op(p) PROVE HeldInv'
  BY <1>0, <1>1 DEF begin_op, Goto
<1>2. ASSUME NEW p \in Proc, NEW b \in Block, NEW v \in Val, modify(p, b, v)
      PROVE  HeldInv'
  BY <1>0, <1>2 DEF modify, Goto
<1>3. ASSUME NEW p \in Proc, log_write_check(p) PROVE HeldInv'
  BY <1>0, <1>3 DEF log_write_check, Goto, mem
<1>4. ASSUME NEW p \in Proc, log_write(p) PROVE HeldInv'
  BY <1>0, <1>4 DEF log_write, Goto
<1>5. ASSUME NEW p \in Proc, end_op(p) PROVE HeldInv'
  BY <1>0, <1>5 DEF end_op, Goto, GotoAndWakeup
<1>6. ASSUME NEW p \in Proc, commit(p) PROVE HeldInv'
  BY <1>0, <1>6 DEF commit, Goto, mem
<1>7. ASSUME NEW p \in Proc, write_log(p) PROVE HeldInv'
  BY <1>0, <1>7 DEF write_log, LoopNext, Goto, mem
<1>8. ASSUME NEW p \in Proc, write_head(p) PROVE HeldInv'
  BY <1>0, <1>8 DEF write_head, Goto, mem
<1>9. ASSUME NEW p \in Proc, install_trans(p) PROVE HeldInv'
  BY <1>0, <1>9 DEF install_trans, LoopNext, Goto
<1>10. ASSUME NEW p \in Proc, commit_erase(p) PROVE HeldInv'
  BY <1>0, <1>10 DEF commit_erase, Goto
<1>11. ASSUME NEW p \in Proc, end_commit(p) PROVE HeldInv'
  BY <1>0, <1>11 DEF end_commit, GotoAndWakeup
<1>12. ASSUME NEW p \in Proc, read_head(p) PROVE HeldInv'
  BY <1>0, <1>12 DEF read_head, Goto
<1>13. ASSUME NEW p \in Proc, recover_install(p) PROVE HeldInv'
  BY <1>0, <1>13 DEF recover_install, LoopNext, Goto
<1>14. ASSUME NEW p \in Proc, recover_erase(p) PROVE HeldInv'
  BY <1>0, <1>14 DEF recover_erase, Goto
<1>15. ASSUME NEW b \in Block, Evict(b) PROVE HeldInv'
  BY <1>0, <1>15 DEF Evict, proc
<1>16. ASSUME Crash PROVE HeldInv'
  BY <1>0, <1>16 DEF Crash
<1>17. CASE UNCHANGED vars
  BY <1>0, <1>17 DEF vars, disk, mem, proc
<1>. QED
  BY <1>1, <1>2, <1>3, <1>4, <1>5, <1>6, <1>7, <1>8, <1>9, <1>10, <1>11,
     <1>12, <1>13, <1>14, <1>15, <1>16, <1>17
     DEF Next, Op, CommitStep, RecoveryStep

\* Nobody falls asleep, or is left asleep, with no end_op() to come.
LEMMA WakeupStep ==
    ASSUME TypeOK, ControlInv, CountInv, HeaderInv, NoLostWakeup, [Next]_vars
    PROVE  NoLostWakeup'
<1>. USE DEF NoLostWakeup
<1>0. pc \in [Proc -> PCs] /\ outstanding \in Nat
  BY DEF TypeOK
<1>1. ASSUME NEW p \in Proc, begin_op(p) PROVE NoLostWakeup'
  <2>1. ASSUME NoSpace, ~committing PROVE outstanding > 0
    <3>1. SUFFICES ASSUME outstanding = 0 PROVE FALSE
      BY <1>0
    <3>2. Open = {}
      BY <3>1, OpenFinite, FS_EmptySet DEF CountInv
    <3>3. lh = << >>
      BY <1>1, <2>1, <3>2 DEF begin_op, HeaderInv
    <3>. QED
      BY <2>1, <3>1, <3>3, ConstAssumption DEF NoSpace
  <2>. QED
    BY <1>0, <1>1, <2>1 DEF begin_op, Goto
<1>2. ASSUME NEW p \in Proc, NEW b \in Block, NEW v \in Val, modify(p, b, v)
      PROVE  NoLostWakeup'
  BY <1>0, <1>2 DEF modify, Goto
<1>3. ASSUME NEW p \in Proc, log_write_check(p) PROVE NoLostWakeup'
  BY <1>0, <1>3 DEF log_write_check, Goto, mem
<1>4. ASSUME NEW p \in Proc, log_write(p) PROVE NoLostWakeup'
  BY <1>0, <1>4 DEF log_write, Goto
<1>5. ASSUME NEW p \in Proc, end_op(p) PROVE NoLostWakeup'
  <2>1. ~committing /\ outstanding >= 1
    BY <1>5, OpenFinite DEF end_op, ControlInv, CommitAlone, Open, OpPCs
  <2>. QED
    BY <1>0, <1>5, <2>1 DEF end_op, Goto, GotoAndWakeup
<1>6. ASSUME NEW p \in Proc, commit(p) PROVE NoLostWakeup'
  BY <1>0, <1>6 DEF commit, Goto, mem
<1>7. ASSUME NEW p \in Proc, write_log(p) PROVE NoLostWakeup'
  BY <1>0, <1>7 DEF write_log, LoopNext, Goto, mem
<1>8. ASSUME NEW p \in Proc, write_head(p) PROVE NoLostWakeup'
  BY <1>0, <1>8 DEF write_head, Goto, mem
<1>9. ASSUME NEW p \in Proc, install_trans(p) PROVE NoLostWakeup'
  BY <1>0, <1>9 DEF install_trans, LoopNext, Goto
<1>10. ASSUME NEW p \in Proc, commit_erase(p) PROVE NoLostWakeup'
  BY <1>0, <1>10 DEF commit_erase, Goto
<1>11. ASSUME NEW p \in Proc, end_commit(p) PROVE NoLostWakeup'
  BY <1>0, <1>11 DEF end_commit, GotoAndWakeup
<1>12. ASSUME NEW p \in Proc, read_head(p) PROVE NoLostWakeup'
  BY <1>0, <1>12 DEF read_head, Goto
<1>13. ASSUME NEW p \in Proc, recover_install(p) PROVE NoLostWakeup'
  BY <1>0, <1>13 DEF recover_install, LoopNext, Goto
<1>14. ASSUME NEW p \in Proc, recover_erase(p) PROVE NoLostWakeup'
  BY <1>0, <1>14 DEF recover_erase, Goto
<1>15. ASSUME NEW b \in Block, Evict(b) PROVE NoLostWakeup'
  BY <1>0, <1>15 DEF Evict, proc
<1>16. ASSUME Crash PROVE NoLostWakeup'
  BY <1>0, <1>16 DEF Crash
<1>17. CASE UNCHANGED vars
  BY <1>0, <1>17 DEF vars, disk, mem, proc
<1>. QED
  BY <1>1, <1>2, <1>3, <1>4, <1>5, <1>6, <1>7, <1>8, <1>9, <1>10, <1>11,
     <1>12, <1>13, <1>14, <1>15, <1>16, <1>17
     DEF Next, Op, CommitStep, RecoveryStep

-----------------------------------------------------------------------------
(***************************************************************************)
(* Log space.                                                              *)
(***************************************************************************)

\* The reservations are finitely many: MAXOPBLOCKS for each open operation.
LEMMA PairsFinite ==
    ASSUME NEW O, IsFiniteSet(O), NEW R \in SUBSET (O \X (1 .. MAXOPBLOCKS))
    PROVE  /\ IsFiniteSet(R) /\ Cardinality(R) \in Nat
           /\ Cardinality(R) <= Cardinality(O) * MAXOPBLOCKS
<1>1. IsFiniteSet(1 .. MAXOPBLOCKS) /\ Cardinality(1 .. MAXOPBLOCKS) = MAXOPBLOCKS
  BY FS_Interval, ConstAssumption
<1>2. /\ IsFiniteSet(O \X (1 .. MAXOPBLOCKS))
      /\ Cardinality(O \X (1 .. MAXOPBLOCKS)) = Cardinality(O) * MAXOPBLOCKS
  BY <1>1, FS_Product
<1>. QED
  BY <1>2, FS_Subset, FS_CardinalityType

\* The space reserved is finite, and what begin_op() counts bounds it.
LEMMA ReserveFinite ==
    ASSUME CountInv
    PROVE  /\ IsFiniteSet(Reserve) /\ Cardinality(Reserve) \in Nat
           /\ Cardinality(Reserve) <= outstanding * MAXOPBLOCKS
<1>1. Reserve \in SUBSET (Open \X (1 .. MAXOPBLOCKS))
  BY DEF Reserve
<1>. QED
  BY <1>1, OpenFinite, PairsFinite DEF CountInv

\* An open operation that has logged c distinct blocks still has the
\* reservation of the other MAXOPBLOCKS - c.
LEMMA OwnReserve ==
    ASSUME CountInv, SpaceInv, OpBlocks <= MAXOPBLOCKS, NEW p \in Open
    PROVE  /\ Cardinality(wset[p]) \in Nat
           /\ MAXOPBLOCKS - Cardinality(wset[p]) <= Cardinality(Reserve)
<1>. DEFINE c == Cardinality(wset[p])
            Own == {p} \X ((c + 1) .. MAXOPBLOCKS)
<1>1. c \in Nat /\ c <= OpBlocks
  BY FS_CardinalityType DEF SpaceInv
<1>2. c \in Nat /\ MAXOPBLOCKS \in Nat /\ OpBlocks \in Nat /\ c <= MAXOPBLOCKS
  BY <1>1, ConstAssumption
<1>. HIDE DEF c
<1>3. /\ IsFiniteSet((c + 1) .. MAXOPBLOCKS)
      /\ Cardinality((c + 1) .. MAXOPBLOCKS) = MAXOPBLOCKS - c
  <2>1. c + 1 \in Int /\ MAXOPBLOCKS \in Int
    BY <1>2
  <2>2. /\ IsFiniteSet((c + 1) .. MAXOPBLOCKS)
        /\ Cardinality((c + 1) .. MAXOPBLOCKS) =
             IF c + 1 > MAXOPBLOCKS THEN 0 ELSE MAXOPBLOCKS - (c + 1) + 1
    BY <2>1, FS_Interval
  <2>. QED
    BY <1>2, <2>2
<1>4. IsFiniteSet({p}) /\ Cardinality({p}) = 1
  BY FS_Singleton
<1>5. IsFiniteSet(Own) /\ Cardinality(Own) = 1 * (MAXOPBLOCKS - c)
  BY <1>3, <1>4, FS_Product
<1>6. Own \in SUBSET Reserve
  <2>1. SUFFICES ASSUME NEW i \in (c + 1) .. MAXOPBLOCKS PROVE <<p, i>> \in Reserve
    OBVIOUS
  <2>2. i \in 1 .. MAXOPBLOCKS /\ i > c
    BY <1>2
  <2>. QED
    BY <2>2 DEF Reserve, c
<1>7. Cardinality(Own) <= Cardinality(Reserve)
  BY <1>6, ReserveFinite, FS_Subset
<1>. QED
  BY <1>2, <1>5, <1>7, ReserveFinite DEF c

\* log_write() finds room: what the operation has not used of its
\* reservation is not in the log.
LEMMA Room ==
    ASSUME LogRoom, TypeOK, CountInv, SpaceInv, NEW p \in Open
    PROVE  /\ Len(lh) \in Nat
           /\ Len(lh) < LOGSIZE /\ Len(lh) < nlog - 1
           /\ held[p] \in Block \ wset[p] =>
                Len(lh) + 1 < LOGSIZE /\ Len(lh) + 1 < nlog - 1
<1>1. /\ Cardinality(wset[p]) \in Nat
      /\ MAXOPBLOCKS - Cardinality(wset[p]) <= Cardinality(Reserve)
  BY OwnReserve, ConstAssumption DEF LogRoom
<1>2. Len(lh) + Cardinality(Reserve) <= LOGSIZE /\ Len(lh) \in Nat
  BY DEF SpaceInv, TypeOK
<1>3. /\ Cardinality(wset[p]) <= OpBlocks
      /\ held[p] \in Block \ wset[p] => Cardinality(wset[p]) < OpBlocks
  BY DEF SpaceInv
<1>. QED
  BY <1>1, <1>2, <1>3, ReserveFinite, ConstAssumption DEF LogRoom

\* None of the three panics is reached.
LEMMA NoPanicStep ==
    ASSUME LogRoom, TypeOK, ControlInv, CountInv, SpaceInv, NoPanic, [Next]_vars
    PROVE  NoPanic'
<1>. USE DEF NoPanic
<1>0. ~panicked
  OBVIOUS
<1>1. ASSUME NEW p \in Proc, begin_op(p) PROVE NoPanic'
  BY <1>0, <1>1 DEF begin_op
<1>2. ASSUME NEW p \in Proc, NEW b \in Block, NEW v \in Val, modify(p, b, v)
      PROVE  NoPanic'
  BY <1>0, <1>2 DEF modify
<1>3. ASSUME NEW p \in Proc, log_write_check(p) PROVE NoPanic'
  <2>1. p \in Open
    BY <1>3 DEF log_write_check, Open, OpPCs
  <2>2. ~TooBig /\ outstanding \in Nat /\ outstanding >= 1
    BY <2>1, Room, OpenFinite, ConstAssumption DEF TooBig
  <2>. QED
    BY <1>3, <2>2 DEF log_write_check
<1>4. ASSUME NEW p \in Proc, log_write(p) PROVE NoPanic'
  BY <1>0, <1>4 DEF log_write
<1>5. ASSUME NEW p \in Proc, end_op(p) PROVE NoPanic'
  <2>1. ~committing
    BY <1>5 DEF end_op, ControlInv, CommitAlone, Open, OpPCs
  <2>. QED
    BY <1>5, <2>1 DEF end_op
<1>6. ASSUME NEW p \in Proc, commit(p) PROVE NoPanic'
  BY <1>0, <1>6 DEF commit
<1>7. ASSUME NEW p \in Proc, write_log(p) PROVE NoPanic'
  BY <1>0, <1>7 DEF write_log
<1>8. ASSUME NEW p \in Proc, write_head(p) PROVE NoPanic'
  BY <1>0, <1>8 DEF write_head
<1>9. ASSUME NEW p \in Proc, install_trans(p) PROVE NoPanic'
  BY <1>0, <1>9 DEF install_trans
<1>10. ASSUME NEW p \in Proc, commit_erase(p) PROVE NoPanic'
  BY <1>0, <1>10 DEF commit_erase
<1>11. ASSUME NEW p \in Proc, end_commit(p) PROVE NoPanic'
  BY <1>0, <1>11 DEF end_commit
<1>12. ASSUME NEW p \in Proc, read_head(p) PROVE NoPanic'
  BY <1>0, <1>12 DEF read_head
<1>13. ASSUME NEW p \in Proc, recover_install(p) PROVE NoPanic'
  BY <1>0, <1>13 DEF recover_install
<1>14. ASSUME NEW p \in Proc, recover_erase(p) PROVE NoPanic'
  BY <1>0, <1>14 DEF recover_erase
<1>15. ASSUME NEW b \in Block, Evict(b) PROVE NoPanic'
  BY <1>0, <1>15 DEF Evict, proc
<1>16. ASSUME Crash PROVE NoPanic'
  BY <1>0, <1>16 DEF Crash
<1>17. CASE UNCHANGED vars
  BY <1>0, <1>17 DEF vars, disk, mem, proc
<1>. QED
  BY <1>1, <1>2, <1>3, <1>4, <1>5, <1>6, <1>7, <1>8, <1>9, <1>10, <1>11,
     <1>12, <1>13, <1>14, <1>15, <1>16, <1>17
     DEF Next, Op, CommitStep, RecoveryStep

\* A step after which no more is reserved and no more is logged.
LEMMA ReserveShrinks ==
    ASSUME CountInv, SpaceInv, TypeOK, Reserve' \subseteq Reserve,
           lh' \in Seq(Block), Len(lh') <= Len(lh)
    PROVE  Len(lh') + Cardinality(Reserve') <= LOGSIZE
<1>1. Cardinality(Reserve') \in Nat /\ Cardinality(Reserve') <= Cardinality(Reserve)
  BY ReserveFinite, FS_Subset, FS_CardinalityType
<1>2. Len(lh) \in Nat /\ Len(lh') \in Nat
  BY DEF TypeOK
<1>. QED
  BY <1>1, <1>2, ReserveFinite, ConstAssumption DEF SpaceInv

\* A step that at most ends operations keeps the space invariant.
LEMMA SpaceSame ==
    ASSUME TypeOK, CountInv, SpaceInv, Open' \subseteq Open,
           UNCHANGED <<lh, wset, dhead>>,
           \A p \in Open' : held'[p] = held[p]
    PROVE  SpaceInv'
<1>1. Reserve' \subseteq Reserve
  BY DEF Reserve
<1>2. Len(lh') + Cardinality(Reserve') <= LOGSIZE
  BY <1>1, ReserveShrinks DEF TypeOK
<1>. QED
  BY <1>2 DEF SpaceInv, Logged

\* While no operation is open nothing is reserved.
LEMMA SpaceEmpty ==
    ASSUME Open' = {}, lh' \in Seq(Block), Len(lh') <= LOGSIZE,
           Len(dhead') <= LOGSIZE
    PROVE  SpaceInv'
<1>1. Reserve' = {}
  BY DEF Reserve
<1>2. Cardinality(Reserve') = 0
  BY <1>1, FS_EmptySet
<1>. QED
  BY <1>2 DEF SpaceInv

\* What a new block does to the header.
LEMMA AppendHeader ==
    ASSUME TypeOK, NEW b \in Block, b \notin Logged, lh' = Append(lh, b)
    PROVE  /\ lh' \in Seq(Block)
           /\ Len(lh) \in Nat /\ Len(lh') = Len(lh) + 1
           /\ \A i \in 1 .. Len(lh) : lh'[i] = lh[i]
           /\ lh'[Len(lh) + 1] = b
           /\ Logged' = Logged \cup {b}
<1>1. lh \in Seq(Block) /\ Len(lh) \in Nat
  BY DEF TypeOK
<1>2. /\ lh' \in Seq(Block) /\ Len(lh') = Len(lh) + 1
      /\ \A i \in 1 .. Len(lh) : lh'[i] = lh[i]
      /\ lh'[Len(lh) + 1] = b
  BY <1>1
<1>3. Logged' = Logged \cup {b}
  BY <1>1, <1>2 DEF Logged
<1>. QED
  BY <1>1, <1>2, <1>3

\* What is logged and reserved keeps fitting in the log.
LEMMA SpaceStep ==
    ASSUME LogRoom, TypeOK, TypeOK', ControlInv, CountInv, CountInv', HeldInv,
           SpaceInv, [Next]_vars
    PROVE  SpaceInv'
<1>0. /\ pc \in [Proc -> PCs] /\ held \in [Proc -> Block \cup {NoBlock}]
      /\ wset \in [Proc -> SUBSET Block] /\ lh' \in Seq(Block)
      /\ Len(lh) \in Nat /\ Len(dhead) \in Nat /\ LOGSIZE \in Nat
      /\ NoBlock \notin Block
  BY ConstAssumption DEF TypeOK
<1>00. Len(lh) <= LOGSIZE /\ Len(dhead) <= LOGSIZE
  BY <1>0, ReserveFinite DEF SpaceInv
<1>1. ASSUME NEW p \in Proc, begin_op(p) PROVE SpaceInv'
  <2>1. CASE committing \/ NoSpace
    BY <1>0, <1>1, <2>1, SpaceSame DEF begin_op, Open, OpPCs, Goto, disk
  <2>2. CASE ~(committing \/ NoSpace)
    <3>1. /\ Open' = Open \cup {p} /\ lh' = lh /\ held' = held /\ dhead' = dhead
          /\ outstanding' = outstanding + 1
      BY <1>0, <1>1, <2>2 DEF begin_op, Open, OpPCs, Goto, disk
    <3>2. wset'[p] = {} /\ \A q \in Proc \ {p} : wset'[q] = wset[q]
      BY <1>0, <1>1, <2>2 DEF begin_op
    <3>3. /\ Cardinality(Reserve') \in Nat
          /\ Cardinality(Reserve') <= outstanding' * MAXOPBLOCKS
      <4>1. IsFiniteSet(Open')
        BY <3>1, OpenFinite, FS_AddElement
      <4>2. Reserve' \in SUBSET (Open' \X (1 .. MAXOPBLOCKS))
        BY DEF Reserve
      <4>. QED
        BY <4>1, <4>2, PairsFinite DEF CountInv
    <3>4. Len(lh) + (outstanding + 1) * MAXOPBLOCKS <= LOGSIZE
      BY <1>0, <2>2, ConstAssumption DEF NoSpace, TypeOK
    <3>5. Len(lh') + Cardinality(Reserve') <= LOGSIZE
      <4>. DEFINE n == (outstanding + 1) * MAXOPBLOCKS
      <4>1. n \in Nat
        BY ConstAssumption DEF TypeOK
      <4>2. Cardinality(Reserve') <= n /\ Len(lh) + n <= LOGSIZE
        BY <3>1, <3>3, <3>4
      <4>. HIDE DEF n
      <4>. QED
        BY <1>0, <3>1, <3>3, <4>1, <4>2
    <3>6. ASSUME NEW q \in Open'
          PROVE  /\ IsFiniteSet(wset'[q]) /\ wset'[q] \subseteq Logged'
                 /\ Cardinality(wset'[q]) <= OpBlocks
                 /\ held'[q] \in Block \ wset'[q] => Cardinality(wset'[q]) < OpBlocks
      <4>1. CASE q = p
        <5>1. held[p] = NoBlock
          BY <1>1 DEF begin_op, HeldInv
        <5>2. IsFiniteSet(wset'[p]) /\ Cardinality(wset'[p]) = 0
          BY <3>2, FS_EmptySet
        <5>3. OpBlocks \in Nat
          BY ConstAssumption
        <5>4. wset'[q] = {} /\ held'[q] = NoBlock /\ NoBlock \notin Block
          BY <1>0, <3>1, <3>2, <4>1, <5>1
        <5>5. Cardinality(wset'[q]) = 0 /\ IsFiniteSet(wset'[q])
          BY <4>1, <5>2
        <5>6. Cardinality(wset'[q]) <= OpBlocks
          BY <5>3, <5>5
        <5>. QED
          BY <5>4, <5>5, <5>6
      <4>2. CASE q # p
        BY <3>1, <3>2, <4>2 DEF SpaceInv, Logged, Open
      <4>. QED
        BY <4>1, <4>2
    <3>. QED
      BY <1>00, <3>1, <3>5, <3>6 DEF SpaceInv
  <2>. QED
    BY <2>1, <2>2
<1>2. ASSUME NEW p \in Proc, NEW b \in Block, NEW v \in Val, modify(p, b, v)
      PROVE  SpaceInv'
  <2>1. /\ Open' = Open /\ p \in Open /\ lh' = lh /\ wset' = wset
        /\ dhead' = dhead /\ Logged' = Logged
    BY <1>0, <1>2 DEF modify, Open, OpPCs, Goto, disk, Logged
  <2>2. Reserve' = Reserve
    BY <2>1 DEF Reserve
  <2>3. held'[p] = b /\ \A q \in Proc \ {p} : held'[q] = held[q]
    BY <1>0, <1>2 DEF modify
  <2>4. b \notin wset[p] => Cardinality(wset[p]) < OpBlocks
    BY <1>2 DEF modify
  <2>. QED
    BY <2>1, <2>2, <2>3, <2>4 DEF SpaceInv, Open
<1>3. ASSUME NEW p \in Proc, log_write_check(p) PROVE SpaceInv'
  BY <1>0, <1>3, SpaceSame DEF log_write_check, Open, OpPCs, Goto, disk, mem
<1>4. ASSUME NEW p \in Proc, log_write(p) PROVE SpaceInv'
  <2>1. /\ Open' = Open /\ p \in Open /\ dhead' = dhead
        /\ held[p] \in Block
    BY <1>0, <1>4 DEF log_write, Open, OpPCs, Goto, disk, HeldInv
  <2>2. /\ wset'[p] = wset[p] \cup {held[p]} /\ held'[p] = NoBlock
        /\ \A q \in Proc \ {p} : wset'[q] = wset[q] /\ held'[q] = held[q]
    BY <1>0, <1>4 DEF log_write
  <2>3. Logged \subseteq Logged' /\ held[p] \in Logged'
    <3>1. CASE held[p] \in Logged
      BY <1>4, <3>1 DEF log_write, Logged
    <3>2. CASE held[p] \notin Logged
      BY <1>4, <2>1, <3>2, AppendHeader DEF log_write
    <3>. QED
      BY <3>1, <3>2
  <2>4. /\ IsFiniteSet(wset[p]) /\ Cardinality(wset[p]) \in Nat
        /\ IsFiniteSet(wset'[p])
        /\ Cardinality(wset'[p]) =
             IF held[p] \in wset[p] THEN Cardinality(wset[p])
             ELSE Cardinality(wset[p]) + 1
    BY <2>1, <2>2, FS_AddElement, FS_CardinalityType DEF SpaceInv
  <2>5. Cardinality(wset'[p]) <= OpBlocks
    BY <2>1, <2>4, ConstAssumption DEF SpaceInv
  <2>6. ASSUME NEW q \in Open'
        PROVE  /\ IsFiniteSet(wset'[q]) /\ wset'[q] \subseteq Logged'
               /\ Cardinality(wset'[q]) <= OpBlocks
               /\ held'[q] \in Block \ wset'[q] => Cardinality(wset'[q]) < OpBlocks
    <3>1. CASE q = p
      BY <1>0, <2>1, <2>2, <2>3, <2>4, <2>5, <3>1 DEF SpaceInv
    <3>2. CASE q # p
      BY <2>1, <2>2, <2>3, <3>2 DEF SpaceInv, Open
    <3>. QED
      BY <3>1, <3>2
  <2>7. Reserve' \subseteq Reserve
    <3>1. ASSUME NEW q \in Open
          PROVE  /\ Cardinality(wset[q]) \in Nat
                 /\ Cardinality(wset'[q]) \in Nat
                 /\ Cardinality(wset[q]) <= Cardinality(wset'[q])
      <4>1. Cardinality(wset[q]) \in Nat
        BY FS_CardinalityType DEF SpaceInv
      <4>2. CASE q = p
        BY <2>4, <4>2
      <4>3. CASE q # p
        BY <2>2, <4>1, <4>3 DEF Open
      <4>. QED
        BY <4>2, <4>3
    <3>. QED
      BY <2>1, <3>1 DEF Reserve
  <2>8. Len(lh') + Cardinality(Reserve') <= LOGSIZE
    <3>1. CASE held[p] \in Logged
      BY <1>0, <1>4, <2>7, <3>1, ReserveShrinks DEF log_write
    <3>2. CASE held[p] \notin Logged
      <4>. DEFINE c == Cardinality(wset[p])
                  r == <<p, c + 1>>
      <4>1. held[p] \notin wset[p] /\ c \in Nat /\ c < OpBlocks
        BY <2>1, <2>4, <3>2 DEF SpaceInv
      <4>2. c + 1 \in 1 .. MAXOPBLOCKS
        BY <4>1, ConstAssumption DEF LogRoom
      <4>3. r \in Reserve
        BY <2>1, <4>1, <4>2 DEF Reserve
      <4>4. r \notin Reserve'
        BY <2>4, <4>1 DEF Reserve
      <4>5. /\ IsFiniteSet(Reserve \ {r})
            /\ Cardinality(Reserve \ {r}) = Cardinality(Reserve) - 1
        BY <4>3, ReserveFinite, FS_RemoveElement
      <4>6. Reserve' \in SUBSET (Reserve \ {r})
        BY <2>7, <4>4
      <4>7. /\ Cardinality(Reserve') \in Nat
            /\ Cardinality(Reserve') <= Cardinality(Reserve) - 1
        BY <4>5, <4>6, FS_Subset, FS_CardinalityType
      <4>8. Len(lh') = Len(lh) + 1
        BY <1>4, <2>1, <3>2, AppendHeader DEF log_write
      <4>. QED
        BY <1>0, <4>7, <4>8, ReserveFinite DEF SpaceInv
    <3>. QED
      BY <3>1, <3>2
  <2>. QED
    BY <1>00, <2>1, <2>6, <2>8 DEF SpaceInv
<1>5. ASSUME NEW p \in Proc, end_op(p) PROVE SpaceInv'
  BY <1>0, <1>5, SpaceSame DEF end_op, Open, OpPCs, Goto, GotoAndWakeup, disk
<1>6. ASSUME NEW p \in Proc, commit(p) PROVE SpaceInv'
  BY <1>0, <1>6, SpaceSame DEF commit, Open, OpPCs, Goto, disk, mem
<1>7. ASSUME NEW p \in Proc, write_log(p) PROVE SpaceInv'
  BY <1>0, <1>7, SpaceSame DEF write_log, Open, OpPCs, LoopNext, Goto, mem
<1>8. ASSUME NEW p \in Proc, write_head(p) PROVE SpaceInv'
  <2>1. Open' = {}
    BY <1>0, <1>8 DEF write_head, mem, Open, OpPCs, ControlInv, CommitAlone, CommitPCs,
                     RecoveryPCs, Goto
  <2>. QED
    BY <1>0, <1>00, <1>8, <2>1, SpaceEmpty DEF write_head, mem
<1>9. ASSUME NEW p \in Proc, install_trans(p) PROVE SpaceInv'
  BY <1>0, <1>9, SpaceSame DEF install_trans, Open, OpPCs, LoopNext, Goto
<1>10. ASSUME NEW p \in Proc, commit_erase(p) PROVE SpaceInv'
  <2>1. Open' = {}
    BY <1>0, <1>10 DEF commit_erase, Open, OpPCs, ControlInv, CommitAlone, CommitPCs,
                     RecoveryPCs, Goto
  <2>. QED
    BY <1>0, <1>00, <1>10, <2>1, SpaceEmpty DEF commit_erase
<1>11. ASSUME NEW p \in Proc, end_commit(p) PROVE SpaceInv'
  BY <1>0, <1>11, SpaceSame DEF end_commit, Open, OpPCs, GotoAndWakeup, disk
<1>12. ASSUME NEW p \in Proc, read_head(p) PROVE SpaceInv'
  <2>1. Open' = {}
    BY <1>0, <1>12 DEF read_head, disk, Open, OpPCs, ControlInv, CommitAlone, CommitPCs,
                     RecoveryPCs, Goto
  <2>. QED
    BY <1>0, <1>00, <1>12, <2>1, SpaceEmpty DEF read_head, disk
<1>13. ASSUME NEW p \in Proc, recover_install(p) PROVE SpaceInv'
  BY <1>0, <1>13, SpaceSame DEF recover_install, Open, OpPCs, LoopNext, Goto
<1>14. ASSUME NEW p \in Proc, recover_erase(p) PROVE SpaceInv'
  <2>1. Open' = {}
    BY <1>0, <1>14 DEF recover_erase, Open, OpPCs, ControlInv, CommitAlone, CommitPCs,
                     RecoveryPCs, Goto
  <2>. QED
    BY <1>0, <1>00, <1>14, <2>1, SpaceEmpty DEF recover_erase
<1>15. ASSUME NEW b \in Block, Evict(b) PROVE SpaceInv'
  BY <1>0, <1>15, SpaceSame DEF Evict, disk, proc, Open, OpPCs
<1>16. ASSUME Crash PROVE SpaceInv'
  <2>1. Open' = {}
    BY <1>16 DEF Crash, Open, OpPCs
  <2>. QED
    BY <1>0, <1>00, <1>16, <2>1, SpaceEmpty DEF Crash
<1>17. CASE UNCHANGED vars
  BY <1>17, SpaceSame DEF vars, disk, mem, proc, Open
<1>. QED
  BY <1>1, <1>2, <1>3, <1>4, <1>5, <1>6, <1>7, <1>8, <1>9, <1>10, <1>11,
     <1>12, <1>13, <1>14, <1>15, <1>16, <1>17
     DEF Next, Op, CommitStep, RecoveryStep

-----------------------------------------------------------------------------
(***************************************************************************)
(* The two headers.                                                        *)
(***************************************************************************)

\* The headers keep naming distinct blocks and agree as HeaderInv says.
LEMMA HeaderStep ==
    ASSUME LogRoom, TypeOK, ControlInv, CountInv, HeldInv, SpaceInv, HeaderInv,
           [Next]_vars
    PROVE  HeaderInv'
<1>. USE DEF HeaderInv, Up
<1>0. /\ pc \in [Proc -> PCs] /\ tail \in [Proc -> Nat] /\ initproc \in Proc
      /\ lh \in Seq(Block) /\ dhead \in Seq(Block)
      /\ Len(lh) \in Nat /\ Len(dhead) \in Nat /\ nlog \in Nat \ {0}
  BY ConstAssumption DEF TypeOK
<1>00. Distinct(<< >>) /\ Len(<< >>) = 0
  BY DEF Distinct
<1>. USE DEF Open, OpPCs, CommitPCs, RecoveryPCs
<1>1. ASSUME NEW p \in Proc, begin_op(p) PROVE HeaderInv'
  BY <1>0, <1>1 DEF begin_op, Goto, disk, ControlInv, CommitAlone
<1>2. ASSUME NEW p \in Proc, NEW b \in Block, NEW v \in Val, modify(p, b, v)
      PROVE  HeaderInv'
  BY <1>0, <1>2 DEF modify, Goto, disk, ControlInv, CommitAlone
<1>3. ASSUME NEW p \in Proc, log_write_check(p) PROVE HeaderInv'
  BY <1>0, <1>3 DEF log_write_check, Goto, mem, disk, ControlInv, CommitAlone
<1>4. ASSUME NEW p \in Proc, log_write(p) PROVE HeaderInv'
  <2>1. p \in Open /\ held[p] \in Block
    BY <1>4, ConstAssumption DEF log_write, HeldInv, TypeOK
  <2>2. Distinct(lh') /\ Len(lh') <= nlog - 1
    <3>1. CASE held[p] \in Logged
      BY <1>4, <3>1 DEF log_write
    <3>2. CASE held[p] \notin Logged
      <4>1. lh' = Append(lh, held[p])
        BY <1>4, <3>2 DEF log_write
      <4>2. held[p] \notin wset[p]
        BY <2>1, <3>2 DEF SpaceInv
      <4>3. Len(lh) + 1 < nlog - 1
        BY <2>1, <4>2, Room
      <4>4. /\ Len(lh') = Len(lh) + 1
            /\ \A i \in 1 .. Len(lh) : lh'[i] = lh[i]
            /\ lh'[Len(lh) + 1] = held[p]
        BY <2>1, <3>2, <4>1, AppendHeader
      <4>5. \A i \in 1 .. Len(lh) : lh[i] # held[p]
        BY <3>2 DEF Logged
      <4>. QED
        BY <1>0, <4>3, <4>4, <4>5 DEF Distinct
    <3>. QED
      BY <3>1, <3>2
  <2>3. /\ dhead' = dhead /\ tail' = tail /\ committing' = committing
        /\ \A q \in Proc : pc[q] \notin CommitPCs \cup RecoveryPCs
        /\ pc' = [pc EXCEPT ![p] = "op"]
    BY <1>0, <1>4, <2>1 DEF log_write, Goto, disk, ControlInv, CommitAlone
  <2>. QED
    BY <1>0, <2>1, <2>2, <2>3
<1>5. ASSUME NEW p \in Proc, end_op(p) PROVE HeaderInv'
  <2>1. /\ p \in Open /\ ~committing
        /\ \A q \in Proc : pc[q] \notin CommitPCs \cup RecoveryPCs
    BY <1>5 DEF end_op, ControlInv, CommitAlone
  <2>2. CASE outstanding' = 0
    BY <1>0, <1>5, <2>1, <2>2 DEF end_op, Goto, disk
  <2>3. CASE outstanding' # 0
    <3>1. outstanding' = Cardinality(Open')
      BY CountStep DEF CountInv
    <3>2. Open' # {}
      BY <2>3, <3>1, FS_EmptySet
    <3>. QED
      BY <1>0, <1>5, <2>1, <2>3, <3>2 DEF end_op, GotoAndWakeup, disk
  <2>. QED
    BY <2>2, <2>3
<1>6. ASSUME NEW p \in Proc, commit(p) PROVE HeaderInv'
  BY <1>0, <1>6 DEF commit, Goto, mem, disk, ControlInv, CommitAlone
<1>7. ASSUME NEW p \in Proc, write_log(p) PROVE HeaderInv'
  <2>1. /\ UNCHANGED <<lh, dhead, committing>>
        /\ tail[p] \in Nat /\ tail[p] < Len(lh)
        /\ \A q \in Proc \ {p} : pc[q] \notin CommitPCs \cup RecoveryPCs
    BY <1>0, <1>7 DEF write_log, mem, ControlInv, CommitAlone
  <2>2. CASE tail[p] + 1 < Len(lh)
    <3>1. pc' = pc /\ tail' = [tail EXCEPT ![p] = tail[p] + 1]
      BY <1>0, <1>7, <2>2 DEF write_log, LoopNext, Goto
    <3>. QED
      BY <1>0, <1>7, <2>1, <2>2, <3>1 DEF write_log
  <2>3. CASE ~(tail[p] + 1 < Len(lh))
    <3>1. /\ pc' = [pc EXCEPT ![p] = "write_head"]
          /\ tail' = [tail EXCEPT ![p] = 0]
      BY <1>0, <1>7, <2>3 DEF write_log, LoopNext, Goto
    <3>. QED
      BY <1>0, <1>7, <2>1, <2>3, <3>1 DEF write_log
  <2>. QED
    BY <2>2, <2>3
<1>8. ASSUME NEW p \in Proc, write_head(p) PROVE HeaderInv'
  BY <1>0, <1>8 DEF write_head, Goto, mem, ControlInv, CommitAlone
<1>9. ASSUME NEW p \in Proc, install_trans(p) PROVE HeaderInv'
  BY <1>0, <1>9 DEF install_trans, LoopNext, Goto, ControlInv, CommitAlone
<1>10. ASSUME NEW p \in Proc, commit_erase(p) PROVE HeaderInv'
  BY <1>0, <1>00, <1>10 DEF commit_erase, Goto, ControlInv, CommitAlone
<1>11. ASSUME NEW p \in Proc, end_commit(p) PROVE HeaderInv'
  BY <1>0, <1>11 DEF end_commit, GotoAndWakeup, disk, ControlInv, CommitAlone
<1>12. ASSUME NEW p \in Proc, read_head(p) PROVE HeaderInv'
  BY <1>0, <1>12 DEF read_head, Goto, disk, ControlInv, CommitAlone
<1>13. ASSUME NEW p \in Proc, recover_install(p) PROVE HeaderInv'
  BY <1>0, <1>13 DEF recover_install, LoopNext, Goto, ControlInv, CommitAlone
<1>14. ASSUME NEW p \in Proc, recover_erase(p) PROVE HeaderInv'
  BY <1>0, <1>00, <1>14 DEF recover_erase, Goto, ControlInv, CommitAlone
<1>15. ASSUME NEW b \in Block, Evict(b) PROVE HeaderInv'
  BY <1>0, <1>15 DEF Evict, disk, proc
<1>16. ASSUME Crash PROVE HeaderInv'
  BY <1>0, <1>00, <1>16 DEF Crash
<1>17. CASE UNCHANGED vars
  BY <1>0, <1>17 DEF vars, disk, mem, proc
<1>. QED
  BY <1>1, <1>2, <1>3, <1>4, <1>5, <1>6, <1>7, <1>8, <1>9, <1>10, <1>11,
     <1>12, <1>13, <1>14, <1>15, <1>16, <1>17
     DEF Next, Op, CommitStep, RecoveryStep

-----------------------------------------------------------------------------
(***************************************************************************)
(* Pins.                                                                   *)
(***************************************************************************)

\* A step that changes neither log.lh nor the pins, while nobody installs.
LEMMA PinSame ==
    ASSUME PinInv, UNCHANGED <<lh, pinned>>, Up, Up',
           \A p \in Proc : pc[p] \notin {"install", "erase"},
           \A p \in Proc : pc'[p] \notin {"install", "erase"}
    PROVE  PinInv'
  BY DEF PinInv, Logged

\* The pins follow the logged blocks.
LEMMA PinStep ==
    ASSUME TypeOK, ControlInv, HeldInv, HeaderInv, PinInv, [Next]_vars
    PROVE  PinInv'
<1>0. /\ pc \in [Proc -> PCs] /\ tail \in [Proc -> Nat] /\ initproc \in Proc
      /\ lh \in Seq(Block) /\ Len(lh) \in Nat
  BY ConstAssumption DEF TypeOK
<1>. USE DEF Up, CommitPCs, RecoveryPCs
<1>1. ASSUME NEW p \in Proc, begin_op(p) PROVE PinInv'
  <2>1. /\ UNCHANGED <<lh, pinned, tail>> /\ pc[p] \in {"idle", "begin"}
        /\ \E label \in {"asleep", "op"} : pc' = [pc EXCEPT ![p] = label]
    BY <1>1 DEF begin_op, Goto
  <2>. QED
    BY <1>0, <2>1 DEF PinInv, Logged
<1>2. ASSUME NEW p \in Proc, NEW b \in Block, NEW v \in Val, modify(p, b, v)
      PROVE  PinInv'
  BY <1>0, <1>2, PinSame DEF modify, Goto,
        ControlInv, CommitAlone, Open, OpPCs
<1>3. ASSUME NEW p \in Proc, log_write_check(p) PROVE PinInv'
  BY <1>0, <1>3, PinSame DEF log_write_check, Goto, mem,
        ControlInv, CommitAlone, Open, OpPCs
<1>4. ASSUME NEW p \in Proc, log_write(p) PROVE PinInv'
  <2>1. /\ pc[p] \in OpPCs /\ held[p] \in Block
        /\ \A q \in Proc : pc[q] \notin CommitPCs \cup RecoveryPCs
    BY <1>4, ConstAssumption DEF log_write, HeldInv, TypeOK, ControlInv,
                                 CommitAlone, Open, OpPCs
  <2>2. pinned = Logged
    BY <1>0, <2>1 DEF PinInv
  <2>3. pinned' = Logged'
    <3>1. CASE held[p] \in Logged
      BY <1>4, <2>2, <3>1 DEF log_write, Logged
    <3>2. CASE held[p] \notin Logged
      BY <1>4, <2>1, <2>2, <3>2, AppendHeader DEF log_write
    <3>. QED
      BY <3>1, <3>2
  <2>4. \A q \in Proc : pc'[q] \notin CommitPCs \cup RecoveryPCs
    BY <1>0, <1>4, <2>1 DEF log_write, Goto
  <2>. QED
    BY <1>0, <2>3, <2>4 DEF PinInv
<1>5. ASSUME NEW p \in Proc, end_op(p) PROVE PinInv'
  BY <1>0, <1>5, PinSame DEF end_op, Goto, GotoAndWakeup,
        ControlInv, CommitAlone, Open, OpPCs
<1>6. ASSUME NEW p \in Proc, commit(p) PROVE PinInv'
  BY <1>0, <1>6, PinSame DEF commit, Goto, mem,
        ControlInv, CommitAlone, Open, OpPCs
<1>7. ASSUME NEW p \in Proc, write_log(p) PROVE PinInv'
  BY <1>0, <1>7, PinSame DEF write_log, LoopNext, Goto, mem,
        ControlInv, CommitAlone, Open, OpPCs
<1>8. ASSUME NEW p \in Proc, write_head(p) PROVE PinInv'
  <2>1. /\ \A q \in Proc \ {p} : pc[q] \notin CommitPCs \cup RecoveryPCs
        /\ pc[p] = "write_head" /\ tail[p] = 0
        /\ pc' = [pc EXCEPT ![p] = "install"]
        /\ UNCHANGED <<lh, pinned, tail>>
    BY <1>0, <1>8 DEF write_head, Goto, mem, ControlInv, CommitAlone, HeaderInv
  <2>2. pinned = {lh[i] : i \in 1 .. Len(lh)}
    BY <1>0, <2>1 DEF PinInv, Logged
  <2>3. pinned' = {lh'[i] : i \in (tail'[p] + 1) .. Len(lh')}
    BY <1>0, <2>1, <2>2
  <2>. QED
    BY <1>0, <2>1, <2>3 DEF PinInv
<1>9. ASSUME NEW p \in Proc, install_trans(p) PROVE PinInv'
  <2>1. /\ \A q \in Proc \ {p} : pc[q] \notin CommitPCs \cup RecoveryPCs
        /\ pc[p] = "install" /\ tail[p] \in Nat /\ tail[p] < Len(lh)
        /\ UNCHANGED lh /\ Distinct(lh)
    BY <1>0, <1>9 DEF install_trans, ControlInv, CommitAlone, HeaderInv
  <2>2. pinned = {lh[i] : i \in (tail[p] + 1) .. Len(lh)}
    BY <2>1 DEF PinInv
  <2>3. pinned' = {lh[i] : i \in (tail[p] + 2) .. Len(lh)}
    <3>1. pinned' = pinned \ {lh[tail[p] + 1]}
      BY <1>9 DEF install_trans
    <3>2. \A i \in (tail[p] + 2) .. Len(lh) : lh[i] # lh[tail[p] + 1]
      BY <1>0, <2>1 DEF Distinct
    <3>3. (tail[p] + 1) .. Len(lh) = {tail[p] + 1} \cup ((tail[p] + 2) .. Len(lh))
      BY <1>0, <2>1
    <3>. QED
      BY <2>2, <3>1, <3>2, <3>3
  <2>4. CASE tail[p] + 1 < Len(lh)
    <3>1. pc' = pc /\ tail' = [tail EXCEPT ![p] = tail[p] + 1]
      BY <1>0, <1>9, <2>4 DEF install_trans, LoopNext, Goto
    <3>2. tail'[p] + 1 = tail[p] + 2
      BY <1>0, <3>1
    <3>3. pinned' = {lh'[i] : i \in (tail'[p] + 1) .. Len(lh')}
      BY <2>1, <2>3, <3>2
    <3>. QED
      BY <1>0, <2>1, <3>1, <3>3 DEF PinInv
  <2>5. CASE ~(tail[p] + 1 < Len(lh))
    <3>1. pc' = [pc EXCEPT ![p] = "erase"]
      BY <1>9, <2>5 DEF install_trans, LoopNext, Goto
    <3>2. pinned' = {}
      BY <1>0, <2>1, <2>3, <2>5
    <3>. QED
      BY <1>0, <2>1, <3>1, <3>2 DEF PinInv
  <2>. QED
    BY <2>4, <2>5
<1>10. ASSUME NEW p \in Proc, commit_erase(p) PROVE PinInv'
  <2>1. Logged' = {}
    BY <1>10 DEF commit_erase, Logged
  <2>. QED
    BY <1>0, <1>10, <2>1 DEF commit_erase, Goto, PinInv, ControlInv, CommitAlone
<1>11. ASSUME NEW p \in Proc, end_commit(p) PROVE PinInv'
  BY <1>0, <1>11, PinSame DEF end_commit, GotoAndWakeup,
        ControlInv, CommitAlone, Open, OpPCs
<1>12. ASSUME NEW p \in Proc, read_head(p) PROVE PinInv'
  BY <1>0, <1>12 DEF read_head, Goto, PinInv, ControlInv, CommitAlone
<1>13. ASSUME NEW p \in Proc, recover_install(p) PROVE PinInv'
  BY <1>0, <1>13 DEF recover_install, LoopNext, Goto, PinInv, ControlInv, CommitAlone
<1>14. ASSUME NEW p \in Proc, recover_erase(p) PROVE PinInv'
  <2>1. Logged' = {}
    BY <1>14 DEF recover_erase, Logged
  <2>. QED
    BY <1>0, <1>14, <2>1 DEF recover_erase, Goto, PinInv, ControlInv, CommitAlone
<1>15. ASSUME NEW b \in Block, Evict(b) PROVE PinInv'
  BY <1>15 DEF Evict, proc, PinInv, Logged
<1>16. ASSUME Crash PROVE PinInv'
  BY <1>0, <1>16 DEF Crash, PinInv
<1>17. CASE UNCHANGED vars
  BY <1>17 DEF vars, mem, proc, PinInv, Logged
<1>. QED
  BY <1>1, <1>2, <1>3, <1>4, <1>5, <1>6, <1>7, <1>8, <1>9, <1>10, <1>11,
     <1>12, <1>13, <1>14, <1>15, <1>16, <1>17
     DEF Next, Op, CommitStep, RecoveryStep

-----------------------------------------------------------------------------
(***************************************************************************)
(* Block contents.                                                         *)
(***************************************************************************)

\* A buffer that bget() may recycle equals its home block.
LEMMA EvictSame ==
    ASSUME TypeOK, DirtyIsKept, NEW b \in Block, Evict(b)
    PROVE  cache' = cache
<1>1. cache[b] = home[b] /\ cache \in [Block -> Val \cup {Torn}]
  BY DEF Evict, DirtyIsKept, TypeOK
<1>2. cache' = [cache EXCEPT ![b] = home[b]]
  BY DEF Evict
<1>. QED
  BY <1>1, <1>2

\* A step that moves processes only between labels DataInv does not mention.
LEMMA DataSame ==
    ASSUME DataInv, UNCHANGED <<disk, cache, pinned, lh, tail, held>>, Up' = Up,
           \A q \in Proc : \/ pc'[q] = pc[q]
                           \/ pc'[q] \notin CommitPCs \cup RecoveryPCs
    PROVE  DataInv'
  BY DEF DataInv, DirtyIsKept, disk, CommitPCs, RecoveryPCs

\* Log blocks, home blocks and buffers keep agreeing.
LEMMA DataStep ==
    ASSUME TypeOK, TypeOK', ControlInv, HeldInv, HeldInv', HeaderInv, PinInv,
           DataInv, [Next]_vars
    PROVE  DataInv'
<1>0. /\ pc \in [Proc -> PCs] /\ tail \in [Proc -> Nat] /\ initproc \in Proc
      /\ lh \in Seq(Block) /\ Len(lh) \in Nat /\ Torn \notin Val
      /\ dhead \in Seq(Block) /\ Len(dhead) \in Nat
      /\ cache \in [Block -> Val \cup {Torn}] /\ home \in [Block -> Val \cup {Torn}]
      /\ logblk \in [LogSlot -> Val \cup {Torn}]
      /\ held \in [Proc -> Block \cup {NoBlock}] /\ NoBlock \notin Block
  BY ConstAssumption DEF TypeOK
<1>. USE DEF Up, DirtyIsKept
<1>1. ASSUME NEW p \in Proc, begin_op(p) PROVE DataInv'
  <2>1. /\ UNCHANGED <<disk, cache, pinned, lh, tail, held>> /\ pc[p] \in {"idle", "begin"}
        /\ \E label \in {"asleep", "op"} : pc' = [pc EXCEPT ![p] = label]
        /\ Up
    BY <1>1 DEF begin_op, Goto
  <2>2. \A q \in Proc : \/ pc'[q] = pc[q]
                        \/ pc'[q] \notin CommitPCs \cup RecoveryPCs
    BY <1>0, <2>1 DEF CommitPCs, RecoveryPCs
  <2>3. Up' = Up
    BY <1>0, <2>1 DEF RecoveryPCs
  <2>. QED
    BY <1>0, <2>1, <2>2, <2>3, DataSame
<1>2. ASSUME NEW p \in Proc, NEW b \in Block, NEW v \in Val, modify(p, b, v)
      PROVE  DataInv'
  <2>1. /\ UNCHANGED <<disk, pinned, lh, tail>>
        /\ cache' = [cache EXCEPT ![b] = v]
        /\ held' = [held EXCEPT ![p] = b] /\ held[p] = NoBlock
        /\ pc' = [pc EXCEPT ![p] = "check"] /\ pc[p] = "op"
    BY <1>2 DEF modify, Goto, HeldInv
  <2>2. \A q \in Proc : pc[q] \notin CommitPCs \cup RecoveryPCs
    BY <2>1 DEF ControlInv, CommitAlone, Open, OpPCs
  <2>3. \A q \in Proc : pc'[q] \notin CommitPCs \cup RecoveryPCs
    BY <1>0, <2>1, <2>2 DEF CommitPCs, RecoveryPCs
  <2>4. DirtyIsKept'
    BY <1>0, <2>1 DEF DataInv, disk
  <2>. QED
    BY <1>0, <2>1, <2>2, <2>3, <2>4 DEF DataInv, disk, CommitPCs, RecoveryPCs
<1>3. ASSUME NEW p \in Proc, log_write_check(p) PROVE DataInv'
  <2>1. /\ UNCHANGED <<disk, cache, pinned, lh, tail, held>> /\ pc[p] = "check"
        /\ pc' = pc \/ pc' = [pc EXCEPT ![p] = "append"]
    BY <1>3 DEF log_write_check, Goto, mem
  <2>2. \A q \in Proc : \/ pc'[q] = pc[q]
                        \/ pc'[q] \notin CommitPCs \cup RecoveryPCs
    BY <1>0, <2>1 DEF CommitPCs, RecoveryPCs
  <2>3. Up' = Up
    BY <1>0, <2>1 DEF RecoveryPCs
  <2>. QED
    BY <1>0, <2>1, <2>2, <2>3, DataSame
<1>4. ASSUME NEW p \in Proc, log_write(p) PROVE DataInv'
  <2>1. /\ UNCHANGED <<disk, cache, tail>> /\ pc[p] = "append"
        /\ held' = [held EXCEPT ![p] = NoBlock] /\ held[p] \in Block
        /\ pc' = [pc EXCEPT ![p] = "op"]
    BY <1>0, <1>4 DEF log_write, Goto, HeldInv
  <2>2. \A q \in Proc : pc[q] \notin CommitPCs \cup RecoveryPCs
    BY <2>1 DEF ControlInv, CommitAlone, Open, OpPCs
  <2>3. \A q \in Proc : pc'[q] \notin CommitPCs \cup RecoveryPCs
    BY <1>0, <2>1, <2>2 DEF CommitPCs, RecoveryPCs
  <2>4. pinned' = pinned \cup {held[p]}
    <3>1. pinned = Logged
      BY <1>0, <2>2 DEF PinInv, CommitPCs
    <3>. QED
      BY <1>4, <3>1 DEF log_write
  <2>5. DirtyIsKept'
    <3>1. SUFFICES ASSUME NEW b \in Block, cache[b] # home[b]
                   PROVE  b \in pinned' \/ \E q \in Proc : held'[q] = b
      BY <2>1 DEF disk
    <3>2. CASE b \in pinned \/ b = held[p]
      BY <2>4, <3>2
    <3>3. CASE \E q \in Proc \ {p} : held[q] = b
      BY <1>0, <2>1, <3>3
    <3>. QED
      BY <3>1, <3>2, <3>3 DEF DataInv
  <2>. QED
    BY <1>0, <2>1, <2>2, <2>3, <2>5 DEF DataInv, disk, CommitPCs, RecoveryPCs
<1>5. ASSUME NEW p \in Proc, end_op(p) PROVE DataInv'
  <2>1. /\ UNCHANGED <<disk, cache, pinned, lh, tail, held>> /\ pc[p] = "op"
        /\ \A q \in Proc : pc[q] \notin CommitPCs \cup RecoveryPCs
    BY <1>5 DEF end_op, ControlInv, CommitAlone, Open, OpPCs
  <2>2. Up' = Up
    BY <1>0, <1>5 DEF end_op, Goto, GotoAndWakeup, RecoveryPCs
  <2>3. CASE pc' = [pc EXCEPT ![p] = "commit"]
    BY <1>0, <2>1, <2>2, <2>3 DEF DataInv, disk, CommitPCs, RecoveryPCs
  <2>4. CASE pc' # [pc EXCEPT ![p] = "commit"]
    <3>1. \A q \in Proc : \/ pc'[q] = pc[q]
                          \/ pc'[q] \notin CommitPCs \cup RecoveryPCs
      BY <1>0, <1>5, <2>4 DEF end_op, Goto, GotoAndWakeup, CommitPCs, RecoveryPCs
    <3>. QED
      BY <2>1, <2>2, <3>1, DataSame
  <2>. QED
    BY <2>3, <2>4
<1>6. ASSUME NEW p \in Proc, commit(p) PROVE DataInv'
  <2>1. /\ UNCHANGED <<disk, cache, pinned, lh, held>> /\ pc[p] = "commit"
        /\ tail' = [tail EXCEPT ![p] = 0]
        /\ \E label \in {"committed", "write_log"} : pc' = [pc EXCEPT ![p] = label]
    BY <1>6 DEF commit, Goto, mem
  <2>. QED
    BY <1>0, <2>1 DEF DataInv, disk, RecoveryPCs
<1>7. ASSUME NEW p \in Proc, write_log(p) PROVE DataInv'
  <2>1. /\ UNCHANGED <<home, dhead, cache, pinned, lh, held>>
        /\ pc[p] = "write_log" /\ Up /\ dhead = << >>
        /\ \A q \in Proc \ {p} : pc[q] \notin CommitPCs \cup RecoveryPCs
        /\ logblk' = [logblk EXCEPT ![tail[p] + 1] = cache[lh[tail[p] + 1]]]
    BY <1>0, <1>7 DEF write_log, mem, ControlInv, CommitAlone, HeaderInv,
                      CommitPCs, RecoveryPCs
  <2>2. tail[p] + 1 \in LogSlot /\ tail[p] + 1 <= Len(lh) /\ tail[p] \in Nat
    BY <1>0, <2>1, LoopIndex
  <2>3. \A i \in 1 .. (tail[p] + 1) : i \in LogSlot /\ logblk'[i] = cache[lh[i]]
    <3>1. ASSUME NEW i \in 1 .. (tail[p] + 1) PROVE i \in LogSlot
      BY <2>2, ConstAssumption DEF LogSlot
    <3>. QED
      BY <1>0, <2>1, <2>2, <3>1 DEF DataInv
  <2>4. CASE tail[p] + 1 < Len(lh)
    <3>1. pc' = pc /\ tail' = [tail EXCEPT ![p] = tail[p] + 1]
      BY <1>0, <1>7, <2>4 DEF write_log, LoopNext, Goto
    <3>2. \A i \in 1 .. tail'[p] : logblk'[i] = cache'[lh'[i]]
      BY <1>0, <2>1, <2>3, <3>1
    <3>. QED
      BY <1>0, <2>1, <3>1, <3>2 DEF DataInv, CommitPCs, RecoveryPCs
  <2>5. CASE ~(tail[p] + 1 < Len(lh))
    <3>1. pc' = [pc EXCEPT ![p] = "write_head"]
      BY <1>0, <1>7, <2>5 DEF write_log, LoopNext, Goto
    <3>2. Len(lh) = tail[p] + 1
      BY <1>0, <2>2, <2>5
    <3>3. \A i \in 1 .. Len(lh') : logblk'[i] = cache'[lh'[i]]
      BY <1>0, <2>1, <2>3, <3>2
    <3>. QED
      BY <1>0, <2>1, <3>1, <3>3 DEF DataInv, CommitPCs, RecoveryPCs
  <2>. QED
    BY <2>4, <2>5
<1>8. ASSUME NEW p \in Proc, write_head(p) PROVE DataInv'
  <2>1. /\ UNCHANGED <<home, logblk, cache, pinned, lh, held, tail>>
        /\ pc[p] = "write_head" /\ Up /\ dhead' = lh /\ tail[p] = 0
        /\ \A q \in Proc \ {p} : pc[q] \notin CommitPCs \cup RecoveryPCs
        /\ pc' = [pc EXCEPT ![p] = "install"]
    BY <1>0, <1>8 DEF write_head, mem, Goto, ControlInv, CommitAlone, HeaderInv,
                      CommitPCs, RecoveryPCs
  <2>2. \A i \in 1 .. Len(lh) : lh[i] \in Block /\ logblk[i] = cache[lh[i]]
    BY <1>0, <2>1 DEF DataInv
  <2>3. \A i \in 1 .. Len(dhead') : logblk'[i] \in Val
    BY <2>1, <2>2 DEF DataInv
  <2>. QED
    BY <1>0, <2>1, <2>2, <2>3 DEF DataInv, CommitPCs, RecoveryPCs
<1>9. ASSUME NEW p \in Proc, install_trans(p) PROVE DataInv'
  <2>1. /\ UNCHANGED <<logblk, dhead, lh, held>>
        /\ pc[p] = "install" /\ Up
        /\ \A q \in Proc \ {p} : pc[q] \notin CommitPCs \cup RecoveryPCs
        /\ dhead = lh /\ Distinct(lh)
        /\ pinned' = pinned \ {lh[tail[p] + 1]}
    BY <1>0, <1>9 DEF install_trans, ControlInv, CommitAlone, HeaderInv,
                      CommitPCs, RecoveryPCs
  <2>2. /\ tail[p] + 1 \in 1 .. Len(lh) /\ tail[p] + 1 <= Len(lh)
        /\ lh[tail[p] + 1] \in Block /\ tail[p] \in Nat
    BY <1>0, <2>1, LoopIndex
  <2>3. /\ logblk[tail[p] + 1] = cache[lh[tail[p] + 1]]
        /\ logblk[tail[p] + 1] \in Val
    BY <2>1, <2>2 DEF DataInv
  <2>4. /\ cache' = cache
        /\ home' = [home EXCEPT ![lh[tail[p] + 1]] = logblk[tail[p] + 1]]
    BY <1>0, <1>9, <2>2, <2>3 DEF install_trans, install_block
  <2>5. \A i \in 1 .. (tail[p] + 1) : home'[lh[i]] = logblk[i]
    BY <1>0, <2>1, <2>2, <2>4 DEF DataInv, Distinct
  <2>6. DirtyIsKept'
    BY <1>0, <2>1, <2>2, <2>3, <2>4 DEF DataInv
  <2>7. \A b \in Block : home'[b] \in Val /\ cache'[b] \in Val
    BY <1>0, <2>1, <2>2, <2>3, <2>4 DEF DataInv
  <2>8. CASE tail[p] + 1 < Len(lh)
    <3>1. pc' = pc /\ tail' = [tail EXCEPT ![p] = tail[p] + 1]
      BY <1>0, <1>9, <2>8 DEF install_trans, LoopNext, Goto
    <3>2. \A i \in 1 .. tail'[p] : home'[lh'[i]] = logblk'[i]
      BY <1>0, <2>1, <2>5, <3>1
    <3>. QED
      BY <1>0, <2>1, <2>4, <2>6, <2>7, <3>1, <3>2 DEF DataInv, CommitPCs, RecoveryPCs
  <2>9. CASE ~(tail[p] + 1 < Len(lh))
    <3>1. pc' = [pc EXCEPT ![p] = "erase"]
      BY <1>0, <1>9, <2>9 DEF install_trans, LoopNext, Goto
    <3>2. Len(lh) = tail[p] + 1
      BY <1>0, <2>2, <2>9
    <3>3. \A i \in 1 .. Len(lh') : home'[lh'[i]] = logblk'[i]
      BY <1>0, <2>1, <2>5, <3>2
    <3>. QED
      BY <1>0, <2>1, <2>4, <2>6, <2>7, <3>1, <3>3 DEF DataInv, CommitPCs, RecoveryPCs
  <2>. QED
    BY <2>8, <2>9
<1>10. ASSUME NEW p \in Proc, commit_erase(p) PROVE DataInv'
  <2>1. /\ UNCHANGED <<home, logblk, cache, pinned, held, tail>>
        /\ pc[p] = "erase" /\ Up /\ dhead' = << >>
        /\ \A q \in Proc \ {p} : pc[q] \notin CommitPCs \cup RecoveryPCs
        /\ pc' = [pc EXCEPT ![p] = "committed"]
    BY <1>0, <1>10 DEF commit_erase, Goto, ControlInv, CommitAlone,
                       CommitPCs, RecoveryPCs
  <2>. QED
    BY <1>0, <2>1 DEF DataInv, CommitPCs, RecoveryPCs
<1>11. ASSUME NEW p \in Proc, end_commit(p) PROVE DataInv'
  <2>1. /\ UNCHANGED <<disk, cache, pinned, lh, tail, held>> /\ pc[p] = "committed"
        /\ pc' = [q \in Proc |-> IF q = p THEN "idle"
                                ELSE IF pc[q] = "asleep" THEN "begin"
                                ELSE pc[q]]
    BY <1>0, <1>11 DEF end_commit, GotoAndWakeup
  <2>2. \A q \in Proc : \/ pc'[q] = pc[q]
                        \/ pc'[q] \notin CommitPCs \cup RecoveryPCs
    BY <1>0, <2>1 DEF CommitPCs, RecoveryPCs
  <2>3. Up' = Up
    BY <1>0, <2>1 DEF RecoveryPCs
  <2>. QED
    BY <1>0, <2>1, <2>2, <2>3, DataSame
<1>12. ASSUME NEW p \in Proc, read_head(p) PROVE DataInv'
  <2>1. /\ UNCHANGED <<disk, cache, pinned, held>> /\ lh' = dhead
        /\ pc[p] = "read_head" /\ p = initproc
        /\ \A q \in Proc \ {p} : pc[q] = "idle"
        /\ tail' = [tail EXCEPT ![p] = 0]
        /\ pc' = [pc EXCEPT ![p] = IF dhead = << >> THEN "r_erase" ELSE "r_install"]
    BY <1>0, <1>12 DEF read_head, Goto, ControlInv, RecoveryPCs
  <2>. QED
    BY <1>0, <2>1 DEF DataInv, disk, RecoveryPCs
<1>13. ASSUME NEW p \in Proc, recover_install(p) PROVE DataInv'
  <2>1. /\ UNCHANGED <<logblk, dhead, lh, held, pinned>>
        /\ pc[p] = "r_install" /\ p = initproc
        /\ \A q \in Proc \ {p} : pc[q] = "idle"
        /\ dhead = lh /\ Distinct(lh)
    BY <1>0, <1>13 DEF recover_install, ControlInv, HeaderInv, RecoveryPCs
  <2>2. /\ tail[p] + 1 \in 1 .. Len(lh) /\ tail[p] + 1 <= Len(lh)
        /\ lh[tail[p] + 1] \in Block /\ tail[p] \in Nat
    BY <1>0, <2>1, LoopIndex
  <2>3. logblk[tail[p] + 1] \in Val
    BY <2>1, <2>2 DEF DataInv
  <2>4. /\ cache' = home'
        /\ home' = [home EXCEPT ![lh[tail[p] + 1]] = logblk[tail[p] + 1]]
    BY <1>0, <1>13, <2>1, <2>2 DEF recover_install, install_block, DataInv, RecoveryPCs
  <2>5. \A i \in 1 .. (tail[p] + 1) : home'[lh[i]] = logblk[i]
    <3>1. SUFFICES ASSUME NEW i \in 1 .. (tail[p] + 1)
                   PROVE  home'[lh[i]] = logblk[i]
      OBVIOUS
    <3>2. CASE i = tail[p] + 1
      BY <1>0, <2>2, <2>4, <3>2
    <3>3. CASE i # tail[p] + 1
      <4>1. i \in 1 .. tail[p] /\ i \in 1 .. Len(lh)
        BY <1>0, <2>2, <3>3
      <4>2. home[lh[i]] = logblk[i] /\ lh[i] # lh[tail[p] + 1] /\ lh[i] \in Block
        BY <1>0, <2>1, <2>2, <3>3, <4>1 DEF DataInv, Distinct
      <4>. QED
        BY <1>0, <2>4, <4>2
    <3>. QED
      BY <3>2, <3>3
  <2>6. \A b \in Block : home'[b] = Torn => \E i \in 1 .. Len(dhead') : dhead'[i] = b
    BY <1>0, <2>1, <2>2, <2>3, <2>4 DEF DataInv
  <2>8. CASE tail[p] + 1 < Len(lh)
    <3>1. pc' = pc /\ tail' = [tail EXCEPT ![p] = tail[p] + 1]
      BY <1>0, <1>13, <2>8 DEF recover_install, LoopNext, Goto
    <3>2. \A i \in 1 .. tail'[p] : home'[lh'[i]] = logblk'[i]
      BY <1>0, <2>1, <2>5, <3>1
    <3>. QED
      BY <1>0, <2>1, <2>4, <2>6, <3>1, <3>2 DEF DataInv, RecoveryPCs
  <2>9. CASE ~(tail[p] + 1 < Len(lh))
    <3>1. pc' = [pc EXCEPT ![p] = "r_erase"]
      BY <1>0, <1>13, <2>9 DEF recover_install, LoopNext, Goto
    <3>2. Len(lh) = tail[p] + 1
      BY <1>0, <2>2, <2>9
    <3>3. \A i \in 1 .. Len(lh') : home'[lh'[i]] = logblk'[i]
      BY <1>0, <2>1, <2>5, <3>2
    <3>. QED
      BY <1>0, <2>1, <2>4, <2>6, <3>1, <3>3 DEF DataInv, RecoveryPCs
  <2>. QED
    BY <2>8, <2>9
<1>14. ASSUME NEW p \in Proc, recover_erase(p) PROVE DataInv'
  <2>1. /\ UNCHANGED <<home, logblk, cache, pinned, held, tail>>
        /\ pc[p] = "r_erase" /\ p = initproc /\ dhead = lh
        /\ \A q \in Proc \ {p} : pc[q] = "idle"
        /\ dhead' = << >> /\ cache = home
        /\ pc' = [pc EXCEPT ![p] = "idle"]
    BY <1>0, <1>14 DEF recover_erase, Goto, ControlInv, HeaderInv, DataInv, RecoveryPCs
  <2>2. \A b \in Block : home[b] \in Val
    <3>1. SUFFICES ASSUME NEW b \in Block, home[b] = Torn PROVE FALSE
      BY <1>0
    <3>2. PICK i \in 1 .. Len(dhead) : dhead[i] = b
      BY <3>1 DEF DataInv
    <3>3. home[lh[i]] = logblk[i] /\ logblk[i] \in Val
      BY <2>1, <3>2 DEF DataInv
    <3>. QED
      BY <1>0, <2>1, <3>1, <3>2, <3>3
  <2>. QED
    BY <1>0, <2>1, <2>2 DEF DataInv, RecoveryPCs
<1>15. ASSUME NEW b \in Block, Evict(b) PROVE DataInv'
  <2>1. UNCHANGED <<disk, cache, pinned, lh, proc>>
    BY <1>15, EvictSame DEF Evict, DataInv
  <2>. QED
    BY <2>1 DEF DataInv, disk, proc
<1>16. ASSUME Crash PROVE DataInv'
  <2>1. /\ dhead' = dhead /\ cache' = home' /\ initproc \in Proc
        /\ pc' = [p \in Proc |-> IF p = initproc THEN "read_head" ELSE "idle"]
    BY <1>0, <1>16 DEF Crash
  <2>2. \A i \in 1 .. Len(dhead') : logblk'[i] \in Val
    <3>1. CASE logblk' = logblk
      BY <2>1, <3>1 DEF DataInv
    <3>2. CASE logblk' # logblk
      <4>1. PICK p \in Proc : pc[p] = "write_log"
        BY <1>16, <3>2 DEF Crash, TornLogs
      <4>2. dhead = << >>
        BY <1>0, <4>1 DEF ControlInv, CommitAlone, HeaderInv, CommitPCs, RecoveryPCs
      <4>. QED
        BY <2>1, <4>2
    <3>. QED
      BY <3>1, <3>2
  <2>3. \A b \in Block : home'[b] = Torn => \E i \in 1 .. Len(dhead') : dhead'[i] = b
    <3>1. CASE home' = home
      BY <2>1, <3>1 DEF DataInv
    <3>2. CASE home' # home
      <4>1. PICK p \in Proc : /\ pc[p] \in {"install", "r_install"}
                              /\ home' = [home EXCEPT ![lh[tail[p] + 1]] = Torn]
        BY <1>16, <3>2 DEF Crash, TornHomes
      <4>2. dhead = lh /\ tail[p] + 1 \in 1 .. Len(lh)
        BY <4>1, LoopIndex DEF HeaderInv
      <4>. QED
        BY <1>0, <2>1, <4>1, <4>2 DEF DataInv
    <3>. QED
      BY <3>1, <3>2
  <2>. QED
    BY <2>1, <2>2, <2>3 DEF DataInv, RecoveryPCs
<1>17. CASE UNCHANGED vars
  BY <1>17 DEF vars, disk, mem, proc, DataInv
<1>. QED
  BY <1>1, <1>2, <1>3, <1>4, <1>5, <1>6, <1>7, <1>8, <1>9, <1>10, <1>11,
     <1>12, <1>13, <1>14, <1>15, <1>16, <1>17
     DEF Next, Op, CommitStep, RecoveryStep

-----------------------------------------------------------------------------
(***************************************************************************)
(* The inductive invariant.                                                *)
(***************************************************************************)

\* A machine that boots from a freshly made disk satisfies the invariant.
LEMMA IInvInit ==
    ASSUME Init PROVE IInv
<1>0. initproc \in Proc /\ Torn \notin Val /\ nlog \in Nat \ {0} /\ LOGSIZE \in Nat
  BY ConstAssumption
<1>1. TypeOK
  <2>1. pc \in [Proc -> PCs]
    BY Labels DEF Init
  <2>2. lh \in Seq(Block) /\ dhead \in Seq(Block)
    BY DEF Init
  <2>3. wset \in [Proc -> SUBSET Block]
    BY DEF Init
  <2>. QED
    BY <2>1, <2>2, <2>3 DEF Init, TypeOK
<1>2. Open = {} /\ ~Up /\ Reserve = {}
  BY <1>0 DEF Init, Open, OpPCs, Up, RecoveryPCs, Reserve
<1>3. ControlInv
  BY <1>0, <1>2 DEF Init, ControlInv, CommitAlone, CommitPCs, RecoveryPCs
<1>4. CountInv
  BY <1>2, FS_EmptySet DEF Init, CountInv
<1>5. HeldInv
  BY DEF Init, HeldInv
<1>6. SpaceInv
  <2>1. Cardinality(Reserve) = 0 /\ Len(lh) = 0 /\ Len(dhead) = 0
    BY <1>2, FS_EmptySet DEF Init
  <2>. QED
    BY <1>0, <1>2, <2>1 DEF SpaceInv
<1>7. HeaderInv
  BY <1>0, <1>2 DEF Init, HeaderInv, Distinct
<1>8. PinInv
  BY <1>2 DEF Init, PinInv
<1>9. DataInv
  BY <1>0, <1>2 DEF Init, DataInv, DirtyIsKept
<1>10. NoLostWakeup /\ NoPanic
  BY DEF Init, NoLostWakeup, NoPanic
<1>. QED
  BY <1>1, <1>3, <1>4, <1>5, <1>6, <1>7, <1>8, <1>9, <1>10 DEF IInv

\* Every step keeps the invariant, provided operations leave LogRoom.
LEMMA IInvStep ==
    ASSUME LogRoom, IInv, [Next]_vars PROVE IInv'
<1>1. TypeOK'
  BY TypeStep DEF IInv
<1>2. ControlInv'
  BY ControlStep DEF IInv
<1>3. CountInv'
  BY CountStep DEF IInv
<1>4. HeldInv'
  BY HeldStep DEF IInv
<1>5. SpaceInv'
  BY <1>1, <1>3, SpaceStep DEF IInv
<1>6. HeaderInv'
  BY HeaderStep DEF IInv
<1>7. PinInv'
  BY PinStep DEF IInv
<1>8. DataInv'
  BY <1>1, <1>4, DataStep DEF IInv
<1>9. NoLostWakeup'
  BY WakeupStep DEF IInv
<1>10. NoPanic'
  BY NoPanicStep DEF IInv
<1>. QED
  BY <1>1, <1>2, <1>3, <1>4, <1>5, <1>6, <1>7, <1>8, <1>9, <1>10 DEF IInv

\* The inductive invariant holds in every reachable state of the log.
THEOREM LogInvariant ==
    ASSUME LogRoom PROVE Spec => []IInv
<1>1. Init => IInv
  BY IInvInit
<1>2. IInv /\ [Next]_vars => IInv'
  BY IInvStep
<1>. QED
  BY <1>1, <1>2, PTL DEF Spec

\* Type correctness of struct log, the buffers and the disk.
THEOREM LogTypeCorrect ==
    ASSUME LogRoom PROVE Spec => []TypeOK
<1>1. IInv => TypeOK
  BY DEF IInv
<1>. QED
  BY <1>1, LogInvariant, PTL

\* log_write() and end_op() never panic, however many processes race: the
\* space begin_op() reserves is enough if operations leave LogRoom.
THEOREM LogNeverPanics ==
    ASSUME LogRoom PROVE Spec => []NoPanic
<1>1. IInv => NoPanic
  BY DEF IInv
<1>. QED
  BY <1>1, LogInvariant, PTL

\* A process asleep in begin_op() has an end_op() or a commit to wait for.
THEOREM LogNoLostWakeup ==
    ASSUME LogRoom PROVE Spec => []NoLostWakeup
<1>1. IInv => NoLostWakeup
  BY DEF IInv
<1>. QED
  BY <1>1, LogInvariant, PTL

\* commit() and recovery run with no operation open and nobody beside them.
THEOREM LogCommitAlone ==
    ASSUME LogRoom PROVE Spec => []CommitAlone
<1>1. IInv => CommitAlone
  BY DEF IInv, ControlInv
<1>. QED
  BY <1>1, LogInvariant, PTL

\* The buffer cache never drops an update that is not on disk.
THEOREM LogDirtyIsKept ==
    ASSUME LogRoom PROVE Spec => []DirtyIsKept
<1>1. IInv => DirtyIsKept
  BY DEF IInv, DataInv
<1>. QED
  BY <1>1, LogInvariant, PTL

\* A block torn by a crash is repaired before the file system reads it.
THEOREM LogNoTornRead ==
    ASSUME LogRoom PROVE Spec => []NoTornRead
<1>1. IInv => NoTornRead
  BY ConstAssumption DEF IInv, DataInv, NoTornRead
<1>. QED
  BY <1>1, LogInvariant, PTL

-----------------------------------------------------------------------------
(***************************************************************************)
(* The refinement of TxnStore.                                             *)
(***************************************************************************)

\* What recovery restores: a function that agrees with the log on the blocks
\* of the header and with the home blocks elsewhere.
LEMMA RecoveredUnique ==
    ASSUME NEW h, NEW l, NEW d \in Seq(Block), Distinct(d),
           NEW f, f = [b \in Block |-> f[b]],
           \A i \in 1 .. Len(d) : f[d[i]] = l[i],
           \A b \in Block : (\A i \in 1 .. Len(d) : d[i] # b) => f[b] = h[b]
    PROVE  RecoveredFrom(h, l, d) = f
<1>1. ASSUME NEW b \in Block PROVE RecoveredFrom(h, l, d)[b] = f[b]
  <2>1. CASE \E i \in 1 .. Len(d) : d[i] = b
    <3>1. PICK i \in 1 .. Len(d) : d[i] = b
      BY <2>1
    <3>2. \A j \in 1 .. Len(d) : d[j] = b => j = i
      BY <3>1 DEF Distinct
    <3>3. (CHOOSE j \in 1 .. Len(d) : d[j] = b) = i
      BY <3>1, <3>2
    <3>. QED
      BY <2>1, <3>1, <3>3 DEF RecoveredFrom
  <2>2. CASE ~ \E i \in 1 .. Len(d) : d[i] = b
    BY <2>2 DEF RecoveredFrom
  <2>. QED
    BY <2>1, <2>2
<1>2. RecoveredFrom(h, l, d) = [b \in Block |-> RecoveredFrom(h, l, d)[b]]
  BY DEF RecoveredFrom
<1>. QED
  BY <1>1, <1>2

\* The same, read from the other side.
LEMMA RecoveredBlock ==
    ASSUME NEW h, NEW l, NEW d \in Seq(Block), Distinct(d)
    PROVE  /\ \A i \in 1 .. Len(d) : RecoveredFrom(h, l, d)[d[i]] = l[i]
           /\ \A b \in Block : (\A i \in 1 .. Len(d) : d[i] # b) =>
                                RecoveredFrom(h, l, d)[b] = h[b]
<1>1. ASSUME NEW i \in 1 .. Len(d) PROVE RecoveredFrom(h, l, d)[d[i]] = l[i]
  <2>1. d[i] \in Block
    OBVIOUS
  <2>2. \A j \in 1 .. Len(d) : d[j] = d[i] => j = i
    BY DEF Distinct
  <2>3. (CHOOSE j \in 1 .. Len(d) : d[j] = d[i]) = i
    BY <2>2
  <2>. QED
    BY <2>1, <2>3 DEF RecoveredFrom
<1>2. ASSUME NEW b \in Block, \A i \in 1 .. Len(d) : d[i] # b
      PROVE  RecoveredFrom(h, l, d)[b] = h[b]
  BY <1>2 DEF RecoveredFrom
<1>. QED
  BY <1>1, <1>2

\* With an empty header recovery restores the home blocks.
LEMMA RecoveredHome ==
    ASSUME NEW S, NEW h \in [Block -> S], NEW l
    PROVE  RecoveredFrom(h, l, << >>) = h
<1>1. ~ \E i \in 1 .. Len(<< >>) : TRUE
  OBVIOUS
<1>2. RecoveredFrom(h, l, << >>) = [b \in Block |-> h[b]]
  BY <1>1 DEF RecoveredFrom
<1>. QED
  BY <1>2

\* When no operation is open and nobody commits, everything is on disk.
LEMMA Quiescent ==
    ASSUME IInv, Up, Open = {}, ~committing
    PROVE  lh = << >> /\ dhead = << >> /\ pinned = {} /\ cache = home
<1>1. \A p \in Proc : pc[p] \notin CommitPCs
  BY DEF IInv, ControlInv
<1>2. lh = << >> /\ dhead = << >>
  BY <1>1 DEF IInv, HeaderInv, CommitPCs
<1>3. pinned = {}
  BY <1>1, <1>2 DEF IInv, PinInv, CommitPCs, Logged
<1>4. \A p \in Proc : held[p] = NoBlock
  BY DEF IInv, HeldInv, Open, OpPCs
<1>5. \A b \in Block : cache[b] = home[b]
  BY <1>3, <1>4, ConstAssumption DEF IInv, DataInv, DirtyIsKept
<1>. QED
  BY <1>2, <1>3, <1>5 DEF IInv, TypeOK

\* After the last end_op() has returned, what the operations wrote is what a
\* crash would leave, and no buffer stays pinned.
THEOREM LogDurableAtRest ==
    ASSUME LogRoom PROVE Spec => []DurableAtRest
<1>1. IInv => DurableAtRest
  <2>1. SUFFICES ASSUME IInv, Up, outstanding = 0, ~committing
                 PROVE  Recovered = cache /\ pinned = {}
    BY DEF DurableAtRest
  <2>2. Open = {}
    BY <2>1, OpenFinite, FS_EmptySet DEF IInv, CountInv
  <2>. QED
    BY <2>1, <2>2, Quiescent, RecoveredHome DEF IInv, TypeOK, Recovered
<1>. QED
  BY <1>1, LogInvariant, PTL

\* The two facts about the state.
LEMMA RecoveredNow ==
    ASSUME TypeOK, HeaderInv
    PROVE  /\ \A i \in 1 .. Len(dhead) : Recovered[dhead[i]] = logblk[i]
           /\ \A b \in Block : (\A i \in 1 .. Len(dhead) : dhead[i] # b) =>
                                Recovered[b] = home[b]
<1>1. dhead \in Seq(Block) /\ Distinct(dhead)
  BY DEF TypeOK, HeaderInv
<1>. QED
  BY <1>1, RecoveredBlock DEF Recovered

\* A step after which the log and the home blocks hold what was recoverable.
LEMMA RecoveredNext ==
    ASSUME NEW f, f = [b \in Block |-> f[b]], TypeOK', HeaderInv',
           \A i \in 1 .. Len(dhead') : f[dhead'[i]] = logblk'[i],
           \A b \in Block : (\A i \in 1 .. Len(dhead') : dhead'[i] # b) =>
                             f[b] = home'[b]
    PROVE  Recovered' = f
<1>1. dhead' \in Seq(Block) /\ Distinct(dhead')
  BY DEF TypeOK, HeaderInv
<1>2. RecoveredFrom(home', logblk', dhead') = f
  BY <1>1, RecoveredUnique
<1>. QED
  BY <1>2 DEF Recovered

\* A machine that has just been switched on is an initial TxnStore.
LEMMA RefineInit ==
    ASSUME Init PROVE Store!Init
<1>1. ~Up /\ Open = {}
  BY ConstAssumption DEF Init, Up, RecoveryPCs, Open, OpPCs
<1>2. Recovered = home /\ home \in [Block -> Val]
  BY RecoveredHome DEF Init, Recovered
<1>. QED
  BY <1>1, <1>2 DEF Store!Init

\* A step that changes nothing the abstract store can see.
LEMMA RefineSame ==
    ASSUME UNCHANGED <<disk, cache>>, Up' = Up, Open' = Open
    PROVE  UNCHANGED Store!vars
<1>1. Recovered' = Recovered
  BY DEF Recovered, disk
<1>. QED
  BY <1>1 DEF Store!vars

\* Every step of the log is a step of the store or invisible in it.
LEMMA RefineStep ==
    ASSUME IInv, IInv', [Next]_vars
    PROVE  [Store!Next]_(Store!vars)
<1>0. /\ pc \in [Proc -> PCs] /\ tail \in [Proc -> Nat] /\ initproc \in Proc
      /\ lh \in Seq(Block) /\ Len(lh) \in Nat
      /\ dhead \in Seq(Block) /\ Len(dhead) \in Nat /\ Distinct(dhead)
      /\ cache \in [Block -> Val \cup {Torn}] /\ home \in [Block -> Val \cup {Torn}]
      /\ home' \in [Block -> Val \cup {Torn}]
  BY ConstAssumption DEF IInv, TypeOK, HeaderInv
<1>00. /\ TypeOK /\ ControlInv /\ HeaderInv /\ DataInv
       /\ TypeOK' /\ HeaderInv'
       /\ Recovered = [b \in Block |-> Recovered[b]]
       /\ cache = [b \in Block |-> cache[b]]
  BY DEF IInv, Recovered, RecoveredFrom, TypeOK
<1>1. ASSUME NEW p \in Proc, begin_op(p) PROVE [Store!Next]_(Store!vars)
  <2>1. CASE committing \/ NoSpace
    <3>1. UNCHANGED <<disk, cache>> /\ Up' = Up /\ Open' = Open
      BY <1>0, <1>1, <2>1 DEF begin_op, Goto, Up, Open, OpPCs, RecoveryPCs
    <3>. QED
      BY <3>1, RefineSame
  <2>2. CASE ~(committing \/ NoSpace)
    <3>1. /\ UNCHANGED <<disk, cache>> /\ Up' = Up /\ Open' = Open \cup {p}
          /\ p \notin Open
      BY <1>0, <1>1, <2>2 DEF begin_op, Goto, Up, Open, OpPCs, RecoveryPCs
    <3>2. Recovered' = Recovered
      BY <3>1 DEF Recovered, disk
    <3>3. Store!Begin(p)
      BY <3>1, <3>2 DEF Store!Begin
    <3>. QED
      BY <3>3 DEF Store!Next
  <2>. QED
    BY <2>1, <2>2
<1>2. ASSUME NEW p \in Proc, NEW b \in Block, NEW v \in Val, modify(p, b, v)
      PROVE  [Store!Next]_(Store!vars)
  <2>1. /\ UNCHANGED disk /\ cache' = [cache EXCEPT ![b] = v]
        /\ Up' = Up /\ Open' = Open /\ p \in Open
    BY <1>0, <1>2 DEF modify, Goto, Up, Open, OpPCs, RecoveryPCs
  <2>2. Up
    BY <1>0, <1>00, <2>1 DEF ControlInv, CommitAlone, Up
  <2>3. Recovered' = Recovered
    BY <2>1 DEF Recovered, disk
  <2>4. Store!Write(p, b, v)
    BY <2>1, <2>2, <2>3 DEF Store!Write
  <2>. QED
    BY <2>4 DEF Store!Next
<1>3. ASSUME NEW p \in Proc, log_write_check(p) PROVE [Store!Next]_(Store!vars)
  <2>1. UNCHANGED <<disk, cache>> /\ Up' = Up /\ Open' = Open
    BY <1>0, <1>3 DEF log_write_check, Goto, mem, Up, Open, OpPCs, RecoveryPCs
  <2>. QED
    BY <2>1, RefineSame
<1>4. ASSUME NEW p \in Proc, log_write(p) PROVE [Store!Next]_(Store!vars)
  <2>1. UNCHANGED <<disk, cache>> /\ Up' = Up /\ Open' = Open
    BY <1>0, <1>4 DEF log_write, Goto, Up, Open, OpPCs, RecoveryPCs
  <2>. QED
    BY <2>1, RefineSame
<1>5. ASSUME NEW p \in Proc, end_op(p) PROVE [Store!Next]_(Store!vars)
  <2>1. ~committing
    BY <1>00, <1>5 DEF end_op, ControlInv, CommitAlone, Open, OpPCs
  <2>2. /\ UNCHANGED <<disk, cache>> /\ Up' = Up
        /\ p \in Open /\ Open' = Open \ {p}
    BY <1>0, <1>5, <2>1 DEF end_op, Goto, GotoAndWakeup, Up, Open, OpPCs, RecoveryPCs
  <2>3. Recovered' = Recovered
    BY <2>2 DEF Recovered, disk
  <2>4. Store!End(p)
    BY <2>2, <2>3 DEF Store!End
  <2>. QED
    BY <2>4 DEF Store!Next
<1>6. ASSUME NEW p \in Proc, commit(p) PROVE [Store!Next]_(Store!vars)
  <2>1. UNCHANGED <<disk, cache>> /\ Up' = Up /\ Open' = Open
    BY <1>0, <1>6 DEF commit, Goto, mem, Up, Open, OpPCs, RecoveryPCs
  <2>. QED
    BY <2>1, RefineSame
<1>7. ASSUME NEW p \in Proc, write_log(p) PROVE [Store!Next]_(Store!vars)
  <2>1. UNCHANGED <<home, dhead, cache>> /\ Up' = Up /\ Open' = Open
    BY <1>0, <1>7 DEF write_log, LoopNext, Goto, mem, Up, Open, OpPCs, RecoveryPCs
  <2>2. dhead = << >>
    BY <1>0, <1>00, <1>7 DEF write_log, ControlInv, CommitAlone, HeaderInv, Up,
                             CommitPCs, RecoveryPCs
  <2>3. Recovered = home /\ Recovered' = home'
    BY <1>0, <2>1, <2>2, RecoveredHome DEF Recovered
  <2>. QED
    BY <2>1, <2>3 DEF Store!vars
<1>8. ASSUME NEW p \in Proc, write_head(p) PROVE [Store!Next]_(Store!vars)
  <2>1. /\ UNCHANGED <<home, logblk, cache, lh>> /\ dhead' = lh /\ pc[p] = "write_head"
        /\ Up' = Up /\ Open' = Open
    BY <1>0, <1>8 DEF write_head, Goto, mem, Up, Open, OpPCs, RecoveryPCs
  <2>2. /\ Up /\ Open = {}
        /\ \A q \in Proc : pc[q] \notin {"install", "erase"} /\ pc[q] \notin OpPCs
    BY <1>0, <1>00, <2>1 DEF ControlInv, CommitAlone, Up, CommitPCs, RecoveryPCs, Open
  <2>3. \A i \in 1 .. Len(lh) : cache[lh[i]] = logblk[i]
    BY <1>00, <2>1 DEF DataInv
  <2>4. ASSUME NEW b \in Block, \A i \in 1 .. Len(lh) : lh[i] # b
        PROVE  cache[b] = home[b]
    <3>1. b \notin pinned
      BY <1>00, <2>2, <2>4 DEF IInv, PinInv, Logged
    <3>2. \A q \in Proc : held[q] = NoBlock
      BY <2>2 DEF IInv, HeldInv, OpPCs
    <3>. QED
      BY <3>1, <3>2, ConstAssumption DEF IInv, DataInv, DirtyIsKept
  <2>6. Recovered' = cache
    BY <1>00, <2>1, <2>3, <2>4, RecoveredNext
  <2>7. Store!Commit
    BY <2>1, <2>2, <2>6 DEF Store!Commit
  <2>. QED
    BY <2>7 DEF Store!Next
<1>9. ASSUME NEW p \in Proc, install_trans(p) PROVE [Store!Next]_(Store!vars)
  <2>1. /\ UNCHANGED <<logblk, dhead>> /\ pc[p] = "install"
        /\ Up' = Up /\ Open' = Open /\ dhead = lh
    BY <1>0, <1>00, <1>9 DEF install_trans, LoopNext, Goto, Up, Open, OpPCs,
                            RecoveryPCs, HeaderInv
  <2>2. /\ tail[p] + 1 \in 1 .. Len(lh) /\ lh[tail[p] + 1] \in Block
    BY <1>00, <2>1, LoopIndex
  <2>3. /\ home' = [home EXCEPT ![lh[tail[p] + 1]] = logblk[tail[p] + 1]]
        /\ cache' = [cache EXCEPT ![lh[tail[p] + 1]] = logblk[tail[p] + 1]]
    BY <1>9 DEF install_trans, install_block
  <2>4. /\ \A i \in 1 .. Len(dhead) : Recovered[dhead[i]] = logblk[i]
        /\ \A b \in Block : (\A i \in 1 .. Len(dhead) : dhead[i] # b) =>
                             Recovered[b] = home[b]
    BY <1>00, RecoveredNow
  <2>5. \A b \in Block : (\A i \in 1 .. Len(dhead) : dhead[i] # b) =>
                             Recovered[b] = home'[b]
    BY <1>0, <2>1, <2>2, <2>3, <2>4
  <2>6. Recovered' = Recovered
    BY <1>00, <2>1, <2>4, <2>5, RecoveredNext
  <2>7. cache' = cache
    <3>1. logblk[tail[p] + 1] = cache[lh[tail[p] + 1]]
      BY <1>00, <2>1, <2>2 DEF DataInv
    <3>. QED
      BY <1>0, <2>2, <2>3, <3>1
  <2>. QED
    BY <2>1, <2>6, <2>7 DEF Store!vars
<1>10. ASSUME NEW p \in Proc, commit_erase(p) PROVE [Store!Next]_(Store!vars)
  <2>1. /\ UNCHANGED <<home, logblk, cache>> /\ dhead' = << >>
        /\ pc[p] = "erase" /\ dhead = lh /\ Open' = Open
    BY <1>0, <1>00, <1>10 DEF commit_erase, Goto, Open, OpPCs, HeaderInv
  <2>2. \A i \in 1 .. Len(dhead) : home[dhead[i]] = logblk[i]
    BY <1>00, <2>1 DEF DataInv
  <2>3. Recovered = home
    BY <1>0, <2>2, RecoveredUnique DEF Recovered
  <2>4. Recovered' = home
    BY <1>0, <2>1, RecoveredHome DEF Recovered
  <2>5. Up' = Up
    BY <1>0, <1>10 DEF commit_erase, Goto, Up, RecoveryPCs
  <2>. QED
    BY <2>1, <2>3, <2>4, <2>5 DEF Store!vars
<1>11. ASSUME NEW p \in Proc, end_commit(p) PROVE [Store!Next]_(Store!vars)
  <2>1. UNCHANGED <<disk, cache>> /\ Up' = Up /\ Open' = Open
    BY <1>0, <1>11 DEF end_commit, GotoAndWakeup, Up, Open, OpPCs, RecoveryPCs
  <2>. QED
    BY <2>1, RefineSame
<1>12. ASSUME NEW p \in Proc, read_head(p) PROVE [Store!Next]_(Store!vars)
  <2>1. UNCHANGED <<disk, cache>> /\ Up' = Up /\ Open' = Open
    BY <1>0, <1>12 DEF read_head, Goto, Up, Open, OpPCs, RecoveryPCs
  <2>. QED
    BY <2>1, RefineSame
<1>13. ASSUME NEW p \in Proc, recover_install(p) PROVE [Store!Next]_(Store!vars)
  <2>1. /\ UNCHANGED <<logblk, dhead>> /\ pc[p] = "r_install"
        /\ Up' = Up /\ Open' = Open /\ dhead = lh
    BY <1>0, <1>00, <1>13 DEF recover_install, LoopNext, Goto, Up, Open, OpPCs,
                            RecoveryPCs, HeaderInv
  <2>2. /\ tail[p] + 1 \in 1 .. Len(lh) /\ lh[tail[p] + 1] \in Block
    BY <1>00, <2>1, LoopIndex
  <2>3. /\ home' = [home EXCEPT ![lh[tail[p] + 1]] = logblk[tail[p] + 1]]
        /\ cache' = [cache EXCEPT ![lh[tail[p] + 1]] = logblk[tail[p] + 1]]
    BY <1>13 DEF recover_install, install_block
  <2>4. /\ \A i \in 1 .. Len(dhead) : Recovered[dhead[i]] = logblk[i]
        /\ \A b \in Block : (\A i \in 1 .. Len(dhead) : dhead[i] # b) =>
                             Recovered[b] = home[b]
    BY <1>00, RecoveredNow
  <2>5. \A b \in Block : (\A i \in 1 .. Len(dhead) : dhead[i] # b) =>
                             Recovered[b] = home'[b]
    BY <1>0, <2>1, <2>2, <2>3, <2>4
  <2>6. Recovered' = Recovered
    BY <1>00, <2>1, <2>4, <2>5, RecoveredNext
  <2>7. ~Up
    BY <1>0, <1>00, <2>1 DEF ControlInv, Up, RecoveryPCs
  <2>. QED
    BY <2>1, <2>6, <2>7 DEF Store!vars
<1>14. ASSUME NEW p \in Proc, recover_erase(p) PROVE [Store!Next]_(Store!vars)
  <2>1. /\ UNCHANGED <<home, logblk, cache>> /\ dhead' = << >>
        /\ pc[p] = "r_erase" /\ dhead = lh /\ Open' = Open
    BY <1>0, <1>00, <1>14 DEF recover_erase, Goto, Open, OpPCs, HeaderInv
  <2>2. \A i \in 1 .. Len(dhead) : home[dhead[i]] = logblk[i]
    BY <1>00, <2>1 DEF DataInv
  <2>3. Recovered = home
    BY <1>0, <2>2, RecoveredUnique DEF Recovered
  <2>4. Recovered' = home
    BY <1>0, <2>1, RecoveredHome DEF Recovered
  <2>5. ~Up /\ cache = home
    BY <1>0, <1>00, <2>1 DEF ControlInv, DataInv, Up, RecoveryPCs
  <2>. QED
    BY <2>1, <2>3, <2>4, <2>5 DEF Store!vars
<1>15. ASSUME NEW b \in Block, Evict(b) PROVE [Store!Next]_(Store!vars)
  <2>1. UNCHANGED <<disk, cache>> /\ Up' = Up /\ Open' = Open
    BY <1>00, <1>15, EvictSame DEF Evict, DataInv, proc, Up, Open
  <2>. QED
    BY <2>1, RefineSame
<1>16. ASSUME Crash PROVE [Store!Next]_(Store!vars)
  <2>1. dhead' = dhead /\ ~Up' /\ Open' = {}
    BY <1>0, <1>16 DEF Crash, Up, RecoveryPCs, Open, OpPCs
  <2>2. /\ \A i \in 1 .. Len(dhead) : Recovered[dhead[i]] = logblk[i]
        /\ \A b \in Block : (\A i \in 1 .. Len(dhead) : dhead[i] # b) =>
                             Recovered[b] = home[b]
    BY <1>00, RecoveredNow
  <2>3. \A i \in 1 .. Len(dhead) : logblk'[i] = logblk[i]
    <3>1. CASE logblk' = logblk
      BY <3>1
    <3>2. CASE logblk' # logblk
      <4>1. PICK p \in Proc : pc[p] = "write_log"
        BY <1>16, <3>2 DEF Crash, TornLogs
      <4>2. dhead = << >>
        BY <1>0, <1>00, <4>1 DEF ControlInv, CommitAlone, HeaderInv, Up,
                                 CommitPCs, RecoveryPCs
      <4>. QED
        BY <4>2
    <3>. QED
      BY <3>1, <3>2
  <2>4. ASSUME NEW b \in Block, \A i \in 1 .. Len(dhead) : dhead[i] # b
        PROVE  home'[b] = home[b]
    <3>1. CASE home' = home
      BY <3>1
    <3>2. CASE home' # home
      <4>1. PICK p \in Proc : /\ pc[p] \in {"install", "r_install"}
                              /\ home' = [home EXCEPT ![lh[tail[p] + 1]] = Torn]
        BY <1>16, <3>2 DEF Crash, TornHomes
      <4>2. dhead = lh /\ tail[p] + 1 \in 1 .. Len(lh)
        BY <1>00, <4>1, LoopIndex DEF HeaderInv
      <4>. QED
        BY <1>0, <2>4, <4>1, <4>2
    <3>. QED
      BY <3>1, <3>2
  <2>5. \A i \in 1 .. Len(dhead) : Recovered[dhead[i]] = logblk'[i]
    BY <2>2, <2>3
  <2>6. \A b \in Block : (\A i \in 1 .. Len(dhead) : dhead[i] # b) =>
                             Recovered[b] = home'[b]
    BY <2>2, <2>4
  <2>7. Recovered' = Recovered
    BY <1>00, <2>1, <2>5, <2>6, RecoveredNext
  <2>8. Store!Crash
    BY <2>1, <2>7 DEF Store!Crash
  <2>. QED
    BY <2>8 DEF Store!Next
<1>17. CASE UNCHANGED vars
  <2>1. UNCHANGED <<disk, cache>> /\ Up' = Up /\ Open' = Open
    BY <1>17 DEF vars, mem, proc, Up, Open
  <2>. QED
    BY <2>1, RefineSame
<1>. QED
  BY <1>1, <1>2, <1>3, <1>4, <1>5, <1>6, <1>7, <1>8, <1>9, <1>10, <1>11,
     <1>12, <1>13, <1>14, <1>15, <1>16, <1>17
     DEF Next, Op, CommitStep, RecoveryStep

\* log.c implements the transactional store: every commit takes effect at
\* once and a crash, during a commit or a recovery too, loses no committed
\* update and keeps none that was not committed.
THEOREM LogRefinesTxnStore ==
    ASSUME LogRoom PROVE Spec => RefinesTxnStore
<1>1. Init => Store!Init
  BY RefineInit
<1>2. IInv /\ IInv' /\ [Next]_vars => [Store!Next]_(Store!vars)
  BY RefineStep
<1>. QED
  BY <1>1, <1>2, LogInvariant, PTL DEF Spec, RefinesTxnStore, Store!Spec
=============================================================================
