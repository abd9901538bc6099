------------------------------ MODULE FsProofs ------------------------------
(***************************************************************************)
(* Proofs about modules Inode and Fs, for any number of processes, inodes, *)
(* blocks, files and descriptors, any names and any menu of calls; those   *)
(* on links and panics, for any menu whose paths do not have "..".         *)
(***************************************************************************)
EXTENDS FsInvariant, FiniteSetTheorems

-----------------------------------------------------------------------------
(***************************************************************************)
(* The counted properties follow from the invariant's form of them.        *)
(***************************************************************************)
\* TypeOK is these five parts, before a step and after it.
LEMMA TypeParts ==
    /\ TypeOK <=> DiskType /\ CacheType /\ ProcType /\ FileType /\ RestType
    /\ TypeOK' <=> DiskType' /\ CacheType' /\ ProcType' /\ FileType' /\ RestType'
  BY DEF TypeOK, DiskType, CacheType, ProcType, FileType, RestType, PutRec, FileRec

\* The sets that are counted over are finite.
LEMMA Finite ==
    /\ IsFiniteSet(Proc) /\ IsFiniteSet(1 .. NFILE) /\ IsFiniteSet(1 .. NOFILE)
    /\ IsFiniteSet(Proc \X (1 .. NOFILE))
<1>1. IsFiniteSet(Proc)
  BY InodeAssumption
<1>2. IsFiniteSet(1 .. NFILE) /\ IsFiniteSet(1 .. NOFILE)
  BY FsAssumption, FS_Interval, 1 \in Int, NFILE \in Int, NOFILE \in Int
<1>3. IsFiniteSet(Proc \X (1 .. NOFILE))
  BY <1>1, <1>2, FS_Product
<1>. QED
  BY <1>1, <1>2, <1>3

\* RefsCounted.
LEMMA RefsForm ==
    ASSUME TypeOK, PutInv, RefSum, FdSum
    PROVE  RefsCounted
<1>1. ASSUME NEW i \in Inum
      PROVE  Cardinality({x \in Proc \X (1 .. 2) :
                             x[2] \in DOMAIN puts[x[1]] /\ puts[x[1]][x[2]].i = i})
             = NumOf(Firsts, i) + NumOf(Seconds, i)
  <2>. DEFINE A == {p \in Proc : Firsts[p] = i}
              B == {p \in Proc : Seconds[p] = i}
              P == {<<p, 1>> : p \in A}
              Q == {<<p, 2>> : p \in B}
  <2>1. i # 0
    BY DEF Inum
  <2>2. \A p \in Proc : /\ p \in A <=> 1 \in DOMAIN puts[p] /\ puts[p][1].i = i
                        /\ p \in B <=> 2 \in DOMAIN puts[p] /\ puts[p][2].i = i
    BY <2>1 DEF Firsts, Seconds, First, Second
  <2>3. {x \in Proc \X (1 .. 2) : x[2] \in DOMAIN puts[x[1]] /\ puts[x[1]][x[2]].i = i} = P \cup Q
    <3>1. A \subseteq Proc /\ B \subseteq Proc
      OBVIOUS
    <3>. HIDE DEF A, B
    <3>2. ASSUME NEW x \in Proc \X (1 .. 2), x[2] \in DOMAIN puts[x[1]], puts[x[1]][x[2]].i = i
          PROVE  x \in P \cup Q
      <4>1. PICK p \in Proc, k \in 1 .. 2 : x = <<p, k>>
        OBVIOUS
      <4>2. k = 1 \/ k = 2
        OBVIOUS
      <4>. QED
        BY <2>2, <3>2, <4>1, <4>2
    <3>3. ASSUME NEW p \in A
          PROVE  <<p, 1>> \in Proc \X (1 .. 2) /\ 1 \in DOMAIN puts[p] /\ puts[p][1].i = i
      BY <2>2, <3>1
    <3>4. ASSUME NEW p \in B
          PROVE  <<p, 2>> \in Proc \X (1 .. 2) /\ 2 \in DOMAIN puts[p] /\ puts[p][2].i = i
      BY <2>2, <3>1
    <3>. QED
      BY <3>2, <3>3, <3>4
  <2>4. IsFiniteSet(A) /\ IsFiniteSet(B)
    BY Finite, FS_Subset
  <2>5. NumOf(Firsts, i) = Cardinality(A) /\ NumOf(Seconds, i) = Cardinality(B)
    BY DEF NumOf, Firsts, Seconds
  <2>. HIDE DEF A, B
  <2>6. /\ IsFiniteSet(P) /\ Cardinality(P) = Cardinality(A)
        /\ IsFiniteSet(Q) /\ Cardinality(Q) = Cardinality(B)
    BY <2>4, CardTag
  <2>7. P \cap Q = {}
    OBVIOUS
  <2>. HIDE DEF P, Q
  <2>8. Cardinality(P \cup Q) = Cardinality(P) + Cardinality(Q)
    BY <2>6, <2>7, CardDisjoint
  <2>. QED
    BY <2>3, <2>5, <2>6, <2>8
<1>2. ASSUME NEW i \in Inum
      PROVE  /\ NumOf(cwd, i) = Cardinality({p \in Proc : cwd[p] = i})
             /\ NumOf(dp, i) = Cardinality({p \in Proc : dp[p] = i})
             /\ NumOf(ip, i) = Cardinality({p \in Proc : ip[p] = i})
             /\ NumOf(FileIps, i) = Cardinality({f \in 1 .. NFILE : file[f].ref > 0 /\ file[f].ip = i})
  <2>1. DOMAIN cwd = Proc /\ DOMAIN dp = Proc /\ DOMAIN ip = Proc
    BY DEF TypeOK
  <2>2. {f \in DOMAIN FileIps : FileIps[f] = i} = {f \in 1 .. NFILE : file[f].ref > 0 /\ file[f].ip = i}
    BY DEF FileIps, FileIp, Inum
  <2>. QED
    BY <2>1, <2>2 DEF NumOf
<1>3. ASSUME NEW i \in Inum
      PROVE  /\ NumOf(Firsts, i) \in Nat /\ NumOf(Seconds, i) \in Nat /\ NumOf(FileIps, i) \in Nat
             /\ NumOf(cwd, i) \in Nat /\ NumOf(dp, i) \in Nat /\ NumOf(ip, i) \in Nat
  <2>1. /\ DOMAIN cwd = Proc /\ DOMAIN dp = Proc /\ DOMAIN ip = Proc
        /\ DOMAIN Firsts = Proc /\ DOMAIN Seconds = Proc /\ DOMAIN FileIps = 1 .. NFILE
    BY DEF TypeOK, Firsts, Seconds, FileIps
  <2>. QED
    BY <2>1, Finite, CountAtLeast
<1>4. ASSUME NEW f \in 1 .. NFILE
      PROVE  /\ NumOf(Fds, f) = Cardinality({x \in Proc \X (1 .. NOFILE) : ofile[x[1]][x[2]] = f})
             /\ Piping(f) = {p \in Proc : f \in Range(ends[p])}
  <2>1. {x \in DOMAIN Fds : Fds[x] = f} = {x \in Proc \X (1 .. NOFILE) : ofile[x[1]][x[2]] = f}
    BY DEF Fds
  <2>. QED
    BY <2>1 DEF NumOf, Piping
<1>5. ASSUME NEW i \in Inum
      PROVE  ref[i] = Cardinality({p \in Proc : cwd[p] = i})
        + Cardinality({p \in Proc : dp[p] = i}) + Cardinality({p \in Proc : ip[p] = i})
        + Cardinality({x \in Proc \X (1 .. 2) :
                          x[2] \in DOMAIN puts[x[1]] /\ puts[x[1]][x[2]].i = i})
        + Cardinality({f \in 1 .. NFILE : file[f].ref > 0 /\ file[f].ip = i})
  BY <1>1, <1>2, <1>3 DEF RefSum
<1>. QED
  BY <1>4, <1>5 DEF RefsCounted, FdSum

-----------------------------------------------------------------------------
(***************************************************************************)
(* The references of one process.                                          *)
(***************************************************************************)
Ptrs(p, i) == Is(cwd[p], i) + Is(dp[p], i) + Is(ip[p], i) + Is(First(p), i) + Is(Second(p), i)

\* The pointers of one process, and of two, are among those counted.
LEMMA RefAtLeast ==
    ASSUME ProcType, FileType, RefSum, NEW i \in Inum
    PROVE  /\ \A p \in Proc : ref[i] >= Ptrs(p, i)
           /\ \A p, q \in Proc : p # q => ref[i] >= Ptrs(p, i) + Ptrs(q, i)
<1>1. /\ DOMAIN cwd = Proc /\ DOMAIN dp = Proc /\ DOMAIN ip = Proc
      /\ DOMAIN Firsts = Proc /\ DOMAIN Seconds = Proc /\ DOMAIN FileIps = 1 .. NFILE
  BY DEF ProcType, FileType, Firsts, Seconds, FileIps
<1>2. \A p \in Proc : Firsts[p] = First(p) /\ Seconds[p] = Second(p)
  BY DEF Firsts, Seconds
<1>3. /\ NumOf(cwd, i) \in Nat /\ \A p \in Proc : NumOf(cwd, i) >= Is(cwd[p], i)
      /\ \A p, q \in Proc : p # q => NumOf(cwd, i) >= Is(cwd[p], i) + Is(cwd[q], i)
  BY <1>1, Finite, CountAtLeast
<1>4. /\ NumOf(dp, i) \in Nat /\ \A p \in Proc : NumOf(dp, i) >= Is(dp[p], i)
      /\ \A p, q \in Proc : p # q => NumOf(dp, i) >= Is(dp[p], i) + Is(dp[q], i)
  BY <1>1, Finite, CountAtLeast
<1>5. /\ NumOf(ip, i) \in Nat /\ \A p \in Proc : NumOf(ip, i) >= Is(ip[p], i)
      /\ \A p, q \in Proc : p # q => NumOf(ip, i) >= Is(ip[p], i) + Is(ip[q], i)
  BY <1>1, Finite, CountAtLeast
<1>6. /\ NumOf(Firsts, i) \in Nat /\ \A p \in Proc : NumOf(Firsts, i) >= Is(First(p), i)
      /\ \A p, q \in Proc : p # q => NumOf(Firsts, i) >= Is(First(p), i) + Is(First(q), i)
  BY <1>1, <1>2, Finite, CountAtLeast
<1>7. /\ NumOf(Seconds, i) \in Nat /\ \A p \in Proc : NumOf(Seconds, i) >= Is(Second(p), i)
      /\ \A p, q \in Proc : p # q => NumOf(Seconds, i) >= Is(Second(p), i) + Is(Second(q), i)
  BY <1>1, <1>2, Finite, CountAtLeast
<1>8. NumOf(FileIps, i) \in Nat
  BY <1>1, Finite, CountAtLeast
<1>9. ref[i] = NumOf(cwd, i) + NumOf(dp, i) + NumOf(ip, i)
             + NumOf(Firsts, i) + NumOf(Seconds, i) + NumOf(FileIps, i)
  BY DEF RefSum
<1>10. \A x : Is(x, i) \in {0, 1}
  BY DEF Is
<1>11. ASSUME NEW p \in Proc
       PROVE  ref[i] >= Ptrs(p, i)
  BY <1>3, <1>4, <1>5, <1>6, <1>7, <1>8, <1>9, <1>10 DEF Ptrs
<1>12. ASSUME NEW p \in Proc, NEW q \in Proc, p # q
       PROVE  ref[i] >= Ptrs(p, i) + Ptrs(q, i)
  BY <1>3, <1>4, <1>5, <1>6, <1>7, <1>8, <1>9, <1>10, <1>12 DEF Ptrs
<1>. QED
  BY <1>11, <1>12

\* What a step of p with its pointers must do to the reference counts.
LEMMA RefMove ==
    ASSUME ProcType, FileType, ProcType', FileType', CacheType, RefSum,
           NEW p \in Proc, NEW f \in 1 .. NFILE,
           \A q \in Proc : q # p => /\ cwd'[q] = cwd[q] /\ dp'[q] = dp[q]
                                    /\ ip'[q] = ip[q] /\ puts'[q] = puts[q],
           \A g \in 1 .. NFILE : g # f => FileIp(g)' = FileIp(g),
           \A i \in Inum : ref'[i] = ref[i] + Ptrs(p, i)' - Ptrs(p, i)
                                            + Is(FileIp(f), i)' - Is(FileIp(f), i)
    PROVE  RefSum'
<1>1. /\ DOMAIN cwd = Proc /\ DOMAIN dp = Proc /\ DOMAIN ip = Proc
      /\ DOMAIN Firsts = Proc /\ DOMAIN Seconds = Proc /\ DOMAIN FileIps = 1 .. NFILE
      /\ DOMAIN cwd' = Proc /\ DOMAIN dp' = Proc /\ DOMAIN ip' = Proc
      /\ DOMAIN Firsts' = Proc /\ DOMAIN Seconds' = Proc /\ DOMAIN FileIps' = 1 .. NFILE
  BY DEF ProcType, FileType, Firsts, Seconds, FileIps
<1>2. /\ \A q \in Proc : /\ Firsts[q] = First(q) /\ Seconds[q] = Second(q)
                         /\ Firsts'[q] = First(q)' /\ Seconds'[q] = Second(q)'
      /\ \A g \in 1 .. NFILE : FileIps[g] = FileIp(g) /\ FileIps'[g] = FileIp(g)'
  BY DEF Firsts, Seconds, FileIps
<1>3. /\ \A q \in Proc : q # p => Firsts'[q] = Firsts[q] /\ Seconds'[q] = Seconds[q]
      /\ \A g \in 1 .. NFILE : g # f => FileIps'[g] = FileIps[g]
  <2>1. \A q \in Proc : q # p => First(q)' = First(q) /\ Second(q)' = Second(q)
    BY DEF First, Second
  <2>. QED
    BY <1>2, <2>1
<1>. SUFFICES ASSUME NEW i \in Inum
              PROVE  ref'[i] = NumOf(cwd', i) + NumOf(dp', i) + NumOf(ip', i)
                             + NumOf(Firsts', i) + NumOf(Seconds', i) + NumOf(FileIps', i)
  BY DEF RefSum
<1>4. /\ NumOf(cwd, i) \in Nat /\ NumOf(cwd', i) \in Nat
      /\ NumOf(cwd', i) = NumOf(cwd, i) - Is(cwd[p], i) + Is(cwd'[p], i)
  <2>1. OneMove(Proc, cwd, cwd', p)
    BY <1>1, Finite DEF OneMove
  <2>. QED
    BY ONLY <2>1, CountMove
<1>5. /\ NumOf(dp, i) \in Nat /\ NumOf(dp', i) \in Nat
      /\ NumOf(dp', i) = NumOf(dp, i) - Is(dp[p], i) + Is(dp'[p], i)
  <2>1. OneMove(Proc, dp, dp', p)
    BY <1>1, Finite DEF OneMove
  <2>. QED
    BY ONLY <2>1, CountMove
<1>6. /\ NumOf(ip, i) \in Nat /\ NumOf(ip', i) \in Nat
      /\ NumOf(ip', i) = NumOf(ip, i) - Is(ip[p], i) + Is(ip'[p], i)
  <2>1. OneMove(Proc, ip, ip', p)
    BY <1>1, Finite DEF OneMove
  <2>. QED
    BY ONLY <2>1, CountMove
<1>7. /\ NumOf(Firsts, i) \in Nat /\ NumOf(Firsts', i) \in Nat
      /\ NumOf(Firsts', i) = NumOf(Firsts, i) - Is(First(p), i) + Is(First(p)', i)
  <2>1. OneMove(Proc, Firsts, Firsts', p)
    BY <1>1, <1>3, Finite DEF OneMove
  <2>2. Firsts[p] = First(p) /\ Firsts'[p] = First(p)'
    BY <1>2
  <2>. QED
    BY ONLY <2>1, <2>2, CountMove
<1>8. /\ NumOf(Seconds, i) \in Nat /\ NumOf(Seconds', i) \in Nat
      /\ NumOf(Seconds', i) = NumOf(Seconds, i) - Is(Second(p), i) + Is(Second(p)', i)
  <2>1. OneMove(Proc, Seconds, Seconds', p)
    BY <1>1, <1>3, Finite DEF OneMove
  <2>2. Seconds[p] = Second(p) /\ Seconds'[p] = Second(p)'
    BY <1>2
  <2>. QED
    BY ONLY <2>1, <2>2, CountMove
<1>9. /\ NumOf(FileIps, i) \in Nat /\ NumOf(FileIps', i) \in Nat
      /\ NumOf(FileIps', i) = NumOf(FileIps, i) - Is(FileIp(f), i) + Is(FileIp(f)', i)
  <2>1. OneMove(1 .. NFILE, FileIps, FileIps', f)
    BY <1>1, <1>3, Finite DEF OneMove
  <2>2. FileIps[f] = FileIp(f) /\ FileIps'[f] = FileIp(f)'
    BY <1>2
  <2>. QED
    BY ONLY <2>1, <2>2, CountMove
<1>10. ref[i] = NumOf(cwd, i) + NumOf(dp, i) + NumOf(ip, i)
              + NumOf(Firsts, i) + NumOf(Seconds, i) + NumOf(FileIps, i)
  BY DEF RefSum
<1>11. /\ Is(cwd[p], i) \in {0, 1} /\ Is(dp[p], i) \in {0, 1} /\ Is(ip[p], i) \in {0, 1}
       /\ Is(cwd'[p], i) \in {0, 1} /\ Is(dp'[p], i) \in {0, 1} /\ Is(ip'[p], i) \in {0, 1}
       /\ Is(First(p), i) \in {0, 1} /\ Is(Second(p), i) \in {0, 1}
       /\ Is(First(p)', i) \in {0, 1} /\ Is(Second(p)', i) \in {0, 1}
       /\ Is(FileIp(f), i) \in {0, 1} /\ Is(FileIp(f)', i) \in {0, 1}
  BY DEF Is
<1>12. Ptrs(p, i)' = Is(cwd'[p], i) + Is(dp'[p], i) + Is(ip'[p], i)
                    + Is(First(p)', i) + Is(Second(p)', i)
  BY DEF Ptrs, Is
<1>13. Is(FileIp(f), i)' = Is(FileIp(f)', i)
  BY DEF Is
<1>14. Ptrs(p, i) = Is(cwd[p], i) + Is(dp[p], i) + Is(ip[p], i)
                    + Is(First(p), i) + Is(Second(p), i)
  BY DEF Ptrs
<1>15. ref'[i] = ref[i] + Ptrs(p, i)' - Ptrs(p, i) + Is(FileIp(f)', i) - Is(FileIp(f), i)
  BY <1>13
<1>16. ref'[i] = ref[i]
               + (Is(cwd'[p], i) + Is(dp'[p], i) + Is(ip'[p], i) + Is(First(p)', i) + Is(Second(p)', i))
               - (Is(cwd[p], i) + Is(dp[p], i) + Is(ip[p], i) + Is(First(p), i) + Is(Second(p), i))
               + Is(FileIp(f)', i) - Is(FileIp(f), i)
  BY <1>12, <1>14, <1>15, Zenon
<1>. QED
  <2>1. PICK a1 \in Nat, b1 \in Nat, x1 \in {0, 1}, y1 \in {0, 1} :
           /\ a1 = NumOf(cwd, i) /\ b1 = NumOf(cwd', i) /\ x1 = Is(cwd[p], i) /\ y1 = Is(cwd'[p], i)
           /\ b1 = a1 - x1 + y1
    BY <1>4, <1>11, Zenon
  <2>2. PICK a2 \in Nat, b2 \in Nat, x2 \in {0, 1}, y2 \in {0, 1} :
           /\ a2 = NumOf(dp, i) /\ b2 = NumOf(dp', i) /\ x2 = Is(dp[p], i) /\ y2 = Is(dp'[p], i)
           /\ b2 = a2 - x2 + y2
    BY <1>5, <1>11, Zenon
  <2>3. PICK a3 \in Nat, b3 \in Nat, x3 \in {0, 1}, y3 \in {0, 1} :
           /\ a3 = NumOf(ip, i) /\ b3 = NumOf(ip', i) /\ x3 = Is(ip[p], i) /\ y3 = Is(ip'[p], i)
           /\ b3 = a3 - x3 + y3
    BY <1>6, <1>11, Zenon
  <2>4. PICK a4 \in Nat, b4 \in Nat, x4 \in {0, 1}, y4 \in {0, 1} :
           /\ a4 = NumOf(Firsts, i) /\ b4 = NumOf(Firsts', i) /\ x4 = Is(First(p), i) /\ y4 = Is(First(p)', i)
           /\ b4 = a4 - x4 + y4
    BY <1>7, <1>11, Zenon
  <2>5. PICK a5 \in Nat, b5 \in Nat, x5 \in {0, 1}, y5 \in {0, 1} :
           /\ a5 = NumOf(Seconds, i) /\ b5 = NumOf(Seconds', i) /\ x5 = Is(Second(p), i) /\ y5 = Is(Second(p)', i)
           /\ b5 = a5 - x5 + y5
    BY <1>8, <1>11, Zenon
  <2>6. PICK a6 \in Nat, b6 \in Nat, x6 \in {0, 1}, y6 \in {0, 1} :
           /\ a6 = NumOf(FileIps, i) /\ b6 = NumOf(FileIps', i) /\ x6 = Is(FileIp(f), i) /\ y6 = Is(FileIp(f)', i)
           /\ b6 = a6 - x6 + y6
    BY <1>9, <1>11, Zenon
  <2>7. PICK r \in Nat : r = ref[i]
    BY DEF CacheType
  <2>8. r = a1 + a2 + a3 + a4 + a5 + a6
    BY <1>10, <2>1, <2>2, <2>3, <2>4, <2>5, <2>6, <2>7, Zenon
  <2>9. ref'[i] = r + (y1 + y2 + y3 + y4 + y5) - (x1 + x2 + x3 + x4 + x5) + y6 - x6
    BY <1>16, <2>1, <2>2, <2>3, <2>4, <2>5, <2>6, <2>7, Zenon
  <2>10. ref'[i] = b1 + b2 + b3 + b4 + b5 + b6
    <3>1. \A s : s = r + (y1 + y2 + y3 + y4 + y5) - (x1 + x2 + x3 + x4 + x5) + y6 - x6
                 => s = b1 + b2 + b3 + b4 + b5 + b6
      BY ONLY <2>1, <2>2, <2>3, <2>4, <2>5, <2>6, <2>8
    <3>. QED
      BY <2>9, <3>1, Zenon
  <2>. QED
    BY <2>1, <2>2, <2>3, <2>4, <2>5, <2>6, <2>10, Zenon

\* The same when the files' inodes stay as they are.
LEMMA RefMoveProc ==
    ASSUME ProcType, FileType, ProcType', FileType', CacheType, RefSum,
           NEW p \in Proc,
           \A q \in Proc : q # p => /\ cwd'[q] = cwd[q] /\ dp'[q] = dp[q]
                                    /\ ip'[q] = ip[q] /\ puts'[q] = puts[q],
           \A g \in 1 .. NFILE : FileIp(g)' = FileIp(g),
           \A i \in Inum : ref'[i] = ref[i] + Ptrs(p, i)' - Ptrs(p, i)
    PROVE  RefSum'
<1>1. 1 \in 1 .. NFILE
  BY FsAssumption
<1>. DEFINE f == 1
<1>2. \A g \in 1 .. NFILE : g # f => FileIp(g)' = FileIp(g)
  OBVIOUS
<1>3. ASSUME NEW i \in Inum
      PROVE  ref'[i] = ref[i] + Ptrs(p, i)' - Ptrs(p, i) + Is(FileIp(f), i)' - Is(FileIp(f), i)
  <2>1. Is(FileIp(f), i)' = Is(FileIp(f), i) /\ Is(FileIp(f), i) \in Int
    BY <1>1 DEF Is
  <2>2. Ptrs(p, i)' \in Int /\ Ptrs(p, i) \in Int /\ ref[i] \in Int
    BY DEF Ptrs, Is, CacheType
  <2>3. ref'[i] = ref[i] + Ptrs(p, i)' - Ptrs(p, i)
    OBVIOUS
  <2>. QED
    BY <2>1, <2>2, <2>3
<1>. QED
  BY <1>1, <1>2, <1>3, RefMove

-----------------------------------------------------------------------------
(***************************************************************************)
(* A step of a call.  It moves p to c, leaves it the pointers d and n and  *)
(* the iput()s of a and b (0 for none), and does not concern other         *)
(* processes.                                                              *)
(***************************************************************************)
Entries(a, b) ==
    IF a = 0 THEN <<>>
    ELSE IF b = 0 THEN <<[i |-> a, at |-> "test"]>>
    ELSE <<[i |-> a, at |-> "test"], [i |-> b, at |-> "test"]>>

Move(p, c, d, n, a, b) ==
    /\ pc' = [pc EXCEPT ![p] = c]
    /\ dp' = [dp EXCEPT ![p] = d] /\ ip' = [ip EXCEPT ![p] = n]
    /\ puts' = [puts EXCEPT ![p] = Entries(a, b)]
    /\ \E cl \in Calls \cup {NoCall} : call' = [call EXCEPT ![p] = cl]
    /\ \E s \in Seq(Entry) : path' = [path EXCEPT ![p] = s]

\* What is left of the other processes.
Others(p) ==
    \A q \in Proc : q # p => /\ pc'[q] = pc[q] /\ dp'[q] = dp[q] /\ ip'[q] = ip[q]
                             /\ puts'[q] = puts[q] /\ call'[q] = call[q] /\ path'[q] = path[q]

\* The types of Entries.
LEMMA EntriesType ==
    ASSUME NEW a \in Inum \cup {0}, NEW b \in Inum \cup {0}
    PROVE  Entries(a, b) \in Seq(PutRec)
<1>1. CASE a = 0
  BY <1>1 DEF Entries
<1>2. CASE a # 0 /\ b = 0
  BY <1>2 DEF Entries, PutRec
<1>3. CASE a # 0 /\ b # 0
  BY <1>3 DEF Entries, PutRec
<1>. QED
  BY <1>1, <1>2, <1>3

\* Put() of no, one or two inodes.
LEMMA PutEntries ==
    ASSUME NEW p \in Proc
    PROVE  /\ Put(p, <<>>) => puts' = [puts EXCEPT ![p] = Entries(0, 0)]
           /\ \A a \in Inum : Put(p, <<a>>) => puts' = [puts EXCEPT ![p] = Entries(a, 0)]
           /\ \A a, b \in Inum : Put(p, <<a, b>>) => puts' = [puts EXCEPT ![p] = Entries(a, b)]
<1>0. \A a \in Inum : a # 0
  BY DEF Inum
<1>1. [k \in DOMAIN <<>> |-> [i |-> <<>>[k], at |-> "test"]] = Entries(0, 0)
  BY DEF Entries
<1>2. ASSUME NEW a \in Inum
      PROVE  [k \in DOMAIN <<a>> |-> [i |-> <<a>>[k], at |-> "test"]] = Entries(a, 0)
  BY <1>0 DEF Entries
<1>3. ASSUME NEW a \in Inum, NEW b \in Inum
      PROVE  [k \in DOMAIN <<a, b>> |-> [i |-> <<a, b>>[k], at |-> "test"]] = Entries(a, b)
  BY <1>0 DEF Entries
<1>. QED
  BY <1>1, <1>2, <1>3 DEF Put

\* The state of the processes after the step.
LEMMA MoveRow ==
    ASSUME ProcType, NEW p \in Proc, NEW c \in PCs,
           NEW d \in Inum \cup {0}, NEW n \in Inum \cup {0},
           NEW a \in Inum \cup {0}, NEW b \in Inum \cup {0}, a = 0 => b = 0,
           Move(p, c, d, n, a, b)
    PROVE  /\ ProcType' /\ Others(p)
           /\ pc'[p] = c /\ dp'[p] = d /\ ip'[p] = n
           /\ puts'[p] = Entries(a, b) /\ First(p)' = a /\ Second(p)' = b
           /\ Len(puts'[p]) <= 2 /\ (2 \in DOMAIN puts'[p] => puts'[p][2].at = "test")
           /\ a = 0 => puts'[p] = <<>>
           /\ \A i, at : Iputting(p, i, at)' => at = "test"
<1>1. ProcType'
  BY EntriesType DEF Move, ProcType
<1>2. Others(p)
  BY DEF Move, ProcType, Others
<1>3. pc'[p] = c /\ dp'[p] = d /\ ip'[p] = n /\ puts'[p] = Entries(a, b)
  BY DEF Move, ProcType
<1>4. CASE a = 0
  <2>1. puts'[p] = <<>>
    BY <1>3, <1>4 DEF Entries
  <2>2. 1 \notin DOMAIN puts'[p] /\ 2 \notin DOMAIN puts'[p] /\ Len(puts'[p]) = 0
    BY <2>1
  <2>. QED
    BY <1>1, <1>2, <1>3, <1>4, <2>1, <2>2 DEF First, Second, Iputting
<1>5. CASE a # 0 /\ b = 0
  <2>1. puts'[p] = <<[i |-> a, at |-> "test"]>>
    BY <1>3, <1>5 DEF Entries
  <2>2. /\ 1 \in DOMAIN puts'[p] /\ 2 \notin DOMAIN puts'[p] /\ Len(puts'[p]) = 1
        /\ puts'[p][1] = [i |-> a, at |-> "test"]
    BY <2>1
  <2>. QED
    BY <1>1, <1>2, <1>3, <1>5, <2>2 DEF First, Second, Iputting
<1>6. CASE a # 0 /\ b # 0
  <2>1. puts'[p] = <<[i |-> a, at |-> "test"], [i |-> b, at |-> "test"]>>
    BY <1>3, <1>6 DEF Entries
  <2>2. /\ 1 \in DOMAIN puts'[p] /\ 2 \in DOMAIN puts'[p] /\ Len(puts'[p]) = 2
        /\ puts'[p][1] = [i |-> a, at |-> "test"] /\ puts'[p][2] = [i |-> b, at |-> "test"]
    BY <2>1
  <2>. QED
    BY <1>1, <1>2, <1>3, <1>6, <2>2 DEF First, Second, Iputting
<1>. QED
  BY <1>4, <1>5, <1>6

\* p is between iput()s, and takes the step.
Step(p, c, d, n, a, b) ==
    /\ c \in PCs /\ d \in Inum \cup {0} /\ n \in Inum \cup {0}
    /\ a \in Inum \cup {0} /\ b \in Inum \cup {0} /\ (a = 0 => b = 0)
    /\ puts[p] = <<>> /\ ~panicked
    /\ Move(p, c, d, n, a, b)

\* The inode it keeps locked.
Kept(c, d, n) == IF c \in {"create_new", "unlink"} THEN d
                 ELSE IF c \in {"created", "unlinked"} THEN n ELSE 0

\* MoveRow for such a step, with the state before it.
LEMMA StepRow ==
    ASSUME ProcType, NEW p \in Proc, NEW c, NEW d, NEW n, NEW a, NEW b, Step(p, c, d, n, a, b)
    PROVE  /\ ProcType' /\ Others(p)
           /\ pc'[p] = c /\ dp'[p] = d /\ ip'[p] = n
           /\ First(p)' = a /\ Second(p)' = b
           /\ Len(puts'[p]) <= 2 /\ (2 \in DOMAIN puts'[p] => puts'[p][2].at = "test")
           /\ a = 0 => puts'[p] = <<>>
           /\ First(p) = 0 /\ Second(p) = 0
           /\ \A i, at : ~Iputting(p, i, at)
           /\ \A q \in Proc : \A i, at : at # "test" => (Iputting(q, i, at)' <=> Iputting(q, i, at))
<1>1. /\ ProcType' /\ Others(p)
      /\ pc'[p] = c /\ dp'[p] = d /\ ip'[p] = n
      /\ First(p)' = a /\ Second(p)' = b
      /\ Len(puts'[p]) <= 2 /\ (2 \in DOMAIN puts'[p] => puts'[p][2].at = "test")
      /\ a = 0 => puts'[p] = <<>>
      /\ \A i, at : Iputting(p, i, at)' => at = "test"
  <2>1. /\ c \in PCs /\ d \in Inum \cup {0} /\ n \in Inum \cup {0}
        /\ a \in Inum \cup {0} /\ b \in Inum \cup {0} /\ (a = 0 => b = 0)
        /\ Move(p, c, d, n, a, b)
    BY DEF Step
  <2>. QED
    BY <2>1, MoveRow
<1>2. puts[p] = <<>>
  BY DEF Step
<1>3. First(p) = 0 /\ Second(p) = 0 /\ \A i, at : ~Iputting(p, i, at)
  BY <1>2 DEF First, Second, Iputting
<1>4. ASSUME NEW q \in Proc, NEW i, NEW at, at # "test"
      PROVE  Iputting(q, i, at)' <=> Iputting(q, i, at)
  <2>1. CASE q = p
    BY <1>1, <1>3, <1>4, <2>1
  <2>2. CASE q # p
    BY <1>1, <2>2 DEF Iputting, Others
  <2>. QED
    BY <2>1, <2>2
<1>. QED
  BY <1>1, <1>3, <1>4

\* The pointers of the others stay as they are.
LEMMA StepPtr ==
    ASSUME PtrInv, NEW p \in Proc, Others(p), ~panicked, PtrRow(p)',
           \A q \in Proc : q # p => cwd'[q] = cwd[q] /\ ofile'[q] = ofile[q]
    PROVE  PtrInv'
<1>1. ASSUME NEW q \in Proc, q # p
      PROVE  PtrRow(q)'
  <2>1. PtrRow(q)
    BY DEF PtrInv
  <2>2. /\ pc'[q] = pc[q] /\ dp'[q] = dp[q] /\ ip'[q] = ip[q] /\ call'[q] = call[q]
        /\ path'[q] = path[q] /\ cwd'[q] = cwd[q] /\ ofile'[q] = ofile[q]
    BY <1>1 DEF Others
  <2>. QED
    BY <2>1, <2>2 DEF PtrRow
<1>. QED
  BY <1>1 DEF PtrInv

\* So do their iput()s.
LEMMA StepPut ==
    ASSUME ProcType, PutInv, NEW p \in Proc, NEW c, NEW d, NEW n, NEW a, NEW b,
           Step(p, c, d, n, a, b),
           c \in {"created", "unlinked"} => a # n /\ b = 0,
           c \in {"parent", "create_new", "unlink"} => a = 0
    PROVE  PutInv'
<1>1. /\ pc'[p] = c /\ ip'[p] = n /\ First(p)' = a /\ Second(p)' = b /\ Others(p)
      /\ Len(puts'[p]) <= 2 /\ (2 \in DOMAIN puts'[p] => puts'[p][2].at = "test")
      /\ a = 0 => puts'[p] = <<>>
  BY StepRow
<1>2. PutRow(p)'
  BY <1>1 DEF PutRow
<1>3. ASSUME NEW q \in Proc, q # p
      PROVE  PutRow(q)'
  <2>1. PutRow(q) /\ pc'[q] = pc[q] /\ ip'[q] = ip[q] /\ puts'[q] = puts[q]
    BY <1>1, <1>3 DEF PutInv, Others
  <2>. QED
    BY <2>1 DEF PutRow, First, Second
<1>. QED
  BY <1>2, <1>3 DEF PutInv

\* p unlocks what it held and locks what it keeps, if that was free.
LEMMA StepLock ==
    ASSUME ProcType, CacheType, LockInv, NEW p \in Proc, NEW c, NEW d, NEW n, NEW a, NEW b,
           Step(p, c, d, n, a, b),
           \A j \in Inum : lock'[j] = IF j = Kept(c, d, n) THEN p
                                      ELSE IF lock[j] = p THEN None ELSE lock[j],
           Kept(c, d, n) # 0 => lock[Kept(c, d, n)] \in {None, p}
    PROVE  LockInv'
<1>1. /\ pc'[p] = c /\ dp'[p] = d /\ ip'[p] = n /\ Others(p)
      /\ \A q \in Proc : \A i, at : at # "test" => (Iputting(q, i, at)' <=> Iputting(q, i, at))
      /\ \A i, at : ~Iputting(p, i, at)
  BY StepRow
<1>2. \A i \in Inum : Holds(p, i)' <=> i = Kept(c, d, n)
  <2>1. \A i \in Inum : i # 0
    BY DEF Inum
  <2>. QED
    BY <1>1, <2>1 DEF Holds, Kept
<1>3. ASSUME NEW q \in Proc, q # p, NEW i \in Inum
      PROVE  Holds(q, i)' <=> Holds(q, i)
  BY <1>1, <1>3 DEF Holds, Others
<1>4. p # None /\ \A q \in Proc : q # None
  BY InodeAssumption
<1>5. ASSUME NEW q \in Proc, NEW i \in Inum
      PROVE  lock'[i] = q <=> Holds(q, i)'
  <2>1. lock[i] = q <=> Holds(q, i)
    BY DEF LockInv
  <2>2. i # 0
    BY DEF Inum
  <2>. QED
    BY <1>2, <1>3, <1>4, <2>1, <2>2
<1>. QED
  BY <1>5 DEF LockInv

\* The reference counts follow the pointers.
LEMMA StepRef ==
    ASSUME ProcType, CacheType, FileType, FileType', RefSum,
           NEW p \in Proc, NEW c, NEW d, NEW n, NEW a, NEW b,
           Step(p, c, d, n, a, b),
           \A q \in Proc : q # p => cwd'[q] = cwd[q],
           \A g \in 1 .. NFILE : FileIp(g)' = FileIp(g),
           \A i \in Inum : ref'[i] = ref[i] + (Is(cwd'[p], i) + Is(d, i) + Is(n, i) + Is(a, i) + Is(b, i))
                                     - (Is(cwd[p], i) + Is(dp[p], i) + Is(ip[p], i))
    PROVE  RefSum'
<1>1. /\ ProcType' /\ Others(p) /\ dp'[p] = d /\ ip'[p] = n
      /\ First(p)' = a /\ Second(p)' = b /\ First(p) = 0 /\ Second(p) = 0
  BY StepRow
<1>2. \A q \in Proc : q # p => /\ cwd'[q] = cwd[q] /\ dp'[q] = dp[q]
                               /\ ip'[q] = ip[q] /\ puts'[q] = puts[q]
  BY <1>1 DEF Others
<1>3. ASSUME NEW i \in Inum
      PROVE  ref'[i] = ref[i] + Ptrs(p, i)' - Ptrs(p, i)
  <2>1. Is(0, i) = 0
    BY DEF Is, Inum
  <2>2. /\ Is(cwd'[p], i) \in {0, 1} /\ Is(d, i) \in {0, 1} /\ Is(n, i) \in {0, 1}
        /\ Is(a, i) \in {0, 1} /\ Is(b, i) \in {0, 1}
        /\ Is(cwd[p], i) \in {0, 1} /\ Is(dp[p], i) \in {0, 1} /\ Is(ip[p], i) \in {0, 1}
    BY DEF Is
  <2>3. Ptrs(p, i)' = Is(cwd'[p], i) + Is(d, i) + Is(n, i) + Is(a, i) + Is(b, i)
    BY <1>1 DEF Ptrs, Is
  <2>4. Ptrs(p, i) = Is(cwd[p], i) + Is(dp[p], i) + Is(ip[p], i)
    BY <1>1, <2>1, <2>2 DEF Ptrs
  <2>. QED
    BY <2>3, <2>4
<1>. QED
  BY <1>1, <1>2, <1>3, RefMoveProc

\* The files are not concerned.
LEMMA StepFile ==
    ASSUME ProcType, FileInv, FdSum, NEW p \in Proc, NEW c, NEW d, NEW n, NEW a, NEW b,
           Step(p, c, d, n, a, b), UNCHANGED <<file, ofile, ends>>,
           pc[p] \notin {"pipealloc", "pipe"}, c \notin {"pipealloc", "pipe"}
    PROVE  FileInv' /\ FdSum'
<1>1. pc'[p] = c /\ Others(p)
  BY StepRow
<1>2. FdSum'
  <2>1. Fds' = Fds /\ \A f : Piping(f)' = Piping(f)
    BY DEF Fds, Piping
  <2>. QED
    BY <2>1 DEF FdSum
<1>3. ASSUME NEW q \in Proc
      PROVE  EndRow(q)'
  <2>1. EndRow(q)
    BY DEF FileInv
  <2>2. q # p => pc'[q] = pc[q]
    BY <1>1 DEF Others
  <2>. QED
    BY <1>1, <2>1, <2>2 DEF EndRow
<1>. QED
  BY <1>2, <1>3 DEF FileInv

\* Copies in the cache stay true, and what is locked is there.
LEMMA StepCache ==
    ASSUME ProcType, CacheInv, NEW p \in Proc, NEW c, NEW d, NEW n, NEW a, NEW b,
           Step(p, c, d, n, a, b),
           \A j \in Inum : /\ lock'[j] # None => valid'[j]
                           /\ valid'[j] => Copy(j)' \/ (valid[j] /\ ~Copy(j))
    PROVE  CacheInv'
<1>1. \A q \in Proc : \A i, at : at # "test" => (Iputting(q, i, at)' <=> Iputting(q, i, at))
  BY StepRow
<1>2. ASSUME NEW j \in Inum, valid'[j], ~Copy(j)'
      PROVE  \E q \in Proc : Iputting(q, j, "unlock")'
  BY <1>1, <1>2 DEF CacheInv
<1>. QED
  BY <1>2 DEF CacheInv

\* What p pins from now on it had pinned or locks.
LEMMA StepPin ==
    ASSUME ProcType, LockInv, PinInv, NEW p \in Proc, NEW c, NEW d, NEW n, NEW a, NEW b,
           Step(p, c, d, n, a, b), PtrInv,
           \A j \in Inum : dinode[j].type # "none" => dinode'[j].type = dinode[j].type,
           PinRow(p)',
           \A i \in Inum : Pins(p, i)' => Pins(p, i) \/ lock[i] \in {None, p}
    PROVE  PinInv'
<1>1. /\ Others(p)
      /\ \A q \in Proc : \A i, at : at # "test" => (Iputting(q, i, at)' <=> Iputting(q, i, at))
      /\ \A i, at : ~Iputting(p, i, at)
  BY StepRow
<1>2. ASSUME NEW q \in Proc, q # p
      PROVE  PinRow(q)'
  <2>1. PinRow(q) /\ pc'[q] = pc[q] /\ dp'[q] = dp[q] /\ ip'[q] = ip[q] /\ call'[q] = call[q]
    BY <1>1, <1>2 DEF PinInv, Others
  <2>2. /\ pc[q] \in DirPCs => dp[q] \in Inum
        /\ ip[q] # 0 => ip[q] \in Inum
        /\ ~panicked
    BY DEF ProcType, PtrInv, PtrRow, DirPCs, Step
  <2>. QED
    BY <2>1, <2>2 DEF PinRow
<1>3. ASSUME NEW q \in Proc, NEW r \in Proc, NEW i \in Inum, Pins(q, i)'
      PROVE  ~Iputting(r, i, "free")' /\ ~Iputting(r, i, "unlock")'
  <2>1. CASE Pins(q, i)
    BY <1>1, <2>1 DEF PinInv
  <2>2. CASE ~Pins(q, i)
    <3>1. q = p
      BY <1>1, <1>3, <2>2 DEF Others, Pins
    <3>2. lock[i] \in {None, p}
      BY <1>3, <2>2, <3>1
    <3>3. r # p => lock[i] # r
      BY <3>2, InodeAssumption
    <3>4. r # p => ~Holds(r, i)
      BY <3>3 DEF LockInv
    <3>. QED
      BY <1>1, <3>4 DEF Holds
  <2>. QED
    BY <2>1, <2>2
<1>. QED
  BY <1>2, <1>3 DEF PinInv

\* Blocks do not change hands.
SameBlocks(j) ==
    /\ dinode'[j].direct = dinode[j].direct /\ dinode'[j].indirect = dinode[j].indirect
    /\ \/ dinode'[j].type = dinode[j].type /\ dinode'[j].size = dinode[j].size
       \/ dinode[j].type = "none" /\ dinode'[j].size = 0
\* A step that leaves every inode its blocks, and at most empties the size of a
\* free one, keeps the disk's invariants.
LEMMA StepDisk ==
    ASSUME FreeInv, BlkInv, UNCHANGED <<used, ind>>, \A j \in Inum : SameBlocks(j)
    PROVE  FreeInv' /\ BlkInv'
<1>1. FreeInv'
  BY DEF FreeInv, SameBlocks
<1>2. \A i \in Inum : \A k, b : OwnedBy(i, k, b)' <=> OwnedBy(i, k, b)
  BY DEF OwnedBy, BlkOf, SameBlocks
<1>3. ASSUME NEW i \in Inum
      PROVE  Sized(dinode[i], ind)'
  BY DEF BlkInv, Sized, SameBlocks
<1>. QED
  BY <1>1, <1>2, <1>3 DEF BlkInv

-----------------------------------------------------------------------------
(***************************************************************************)
(* Steps of a call that leave files and blocks alone.                      *)
(***************************************************************************)
LEMMA CallStep ==
    ASSUME IInv, NEW p \in Proc, NEW c, NEW d, NEW n, NEW a, NEW b, Step(p, c, d, n, a, b),
           DiskType', CacheType', RestType', cwd' \in [Proc -> Inum \cup {0}],
           UNCHANGED <<file, ofile, ends, used, ind>>,
           \A q \in Proc : q # p => cwd'[q] = cwd[q],
           pc[p] \notin {"pipealloc", "pipe"}, c \notin {"pipealloc", "pipe"},
           PtrRow(p)',
           c \in {"created", "unlinked"} => a # n /\ b = 0,
           c \in {"parent", "create_new", "unlink"} => a = 0,
           \A j \in Inum : lock'[j] = IF j = Kept(c, d, n) THEN p
                                      ELSE IF lock[j] = p THEN None ELSE lock[j],
           Kept(c, d, n) # 0 => lock[Kept(c, d, n)] \in {None, p},
           \A i \in Inum : ref'[i] = ref[i] + (Is(cwd'[p], i) + Is(d, i) + Is(n, i) + Is(a, i) + Is(b, i))
                                     - (Is(cwd[p], i) + Is(dp[p], i) + Is(ip[p], i)),
           \A j \in Inum : /\ lock'[j] # None => valid'[j]
                           /\ valid'[j] => Copy(j)' \/ (valid[j] /\ ~Copy(j)),
           \A j \in Inum : dinode[j].type # "none" => dinode'[j].type = dinode[j].type,
           PinRow(p)',
           \A i \in Inum : Pins(p, i)' => Pins(p, i) \/ lock[i] \in {None, p},
           \A j \in Inum : SameBlocks(j)
    PROVE  IInv'
<1>1. DiskType /\ CacheType /\ ProcType /\ FileType /\ RestType
  BY TypeParts DEF IInv
<1>2. /\ PtrInv /\ PutInv /\ LockInv /\ FileInv /\ RefSum /\ FdSum
      /\ CacheInv /\ PinInv /\ FreeInv /\ BlkInv
  BY DEF IInv
<1>3. ProcType' /\ Others(p) /\ ~panicked
  BY <1>1, StepRow DEF Step
<1>4. FileType'
  BY <1>1 DEF FileType
<1>5. \A g \in 1 .. NFILE : FileIp(g)' = FileIp(g)
  BY DEF FileIp
<1>6. TypeOK'
  BY <1>3, <1>4, TypeParts
<1>7. PtrInv'
  BY <1>2, <1>3, StepPtr
<1>8. PutInv'
  BY <1>1, <1>2, StepPut
<1>9. LockInv'
  BY <1>1, <1>2, StepLock
<1>10. RefSum'
  BY <1>1, <1>2, <1>4, <1>5, StepRef
<1>11. FileInv' /\ FdSum'
  BY <1>1, <1>2, StepFile
<1>12. CacheInv'
  BY <1>1, <1>2, StepCache
<1>13. PinInv'
  BY <1>1, <1>2, StepPin
<1>14. FreeInv' /\ BlkInv'
  BY <1>2, StepDisk
<1>. QED
  BY <1>6, <1>7, <1>8, <1>9, <1>10, <1>11, <1>12, <1>13, <1>14 DEF IInv

\* What a lock says of the cache, and who can be trusted with it.
LEMMA CacheFacts ==
    ASSUME IInv, NEW i \in Inum
    PROVE  /\ lock[i] # None => valid[i] /\ ref[i] >= 1
           /\ lock[i] = None => Cur(i) = dinode[i] /\ (valid[i] => Copy(i))
           /\ \A p \in Proc : lock[i] = p /\ puts[p] = <<>> => Copy(i)
           /\ \A p \in Proc : cwd[p] = i \/ dp[p] = i \/ ip[p] = i \/ First(p) = i => ref[i] >= 1
<1>1. ProcType /\ FileType /\ CacheType /\ LockInv /\ CacheInv /\ RefSum
  BY TypeParts DEF IInv
<1>2. ASSUME NEW p \in Proc, cwd[p] = i \/ dp[p] = i \/ ip[p] = i \/ First(p) = i
      PROVE  ref[i] >= 1
  <2>1. ref[i] >= Ptrs(p, i) /\ ref[i] \in Nat
    BY <1>1, RefAtLeast DEF CacheType
  <2>2. Ptrs(p, i) >= 1 /\ Ptrs(p, i) \in Nat
    BY <1>2 DEF Ptrs, Is
  <2>. QED
    BY <2>1, <2>2
<1>3. ASSUME lock[i] # None
      PROVE  valid[i] /\ ref[i] >= 1
  <2>1. PICK p \in Proc : lock[i] = p
    BY <1>1, <1>3 DEF CacheType
  <2>2. dp[p] = i \/ ip[p] = i \/ First(p) = i
    BY <1>1, <2>1 DEF LockInv, Holds, Iputting, First
  <2>. QED
    BY <1>1, <1>2, <1>3, <2>2 DEF CacheInv
<1>4. ASSUME NEW p \in Proc, Iputting(p, i, "unlock")
      PROVE  lock[i] = p /\ puts[p] # <<>>
  BY <1>1, <1>4 DEF LockInv, Holds, Iputting
<1>5. ASSUME lock[i] = None
      PROVE  Cur(i) = dinode[i] /\ (valid[i] => Copy(i))
  <2>1. valid[i] => Copy(i)
    BY <1>1, <1>4, <1>5, InodeAssumption DEF CacheInv
  <2>. QED
    BY <2>1 DEF Cur, Copy
<1>6. ASSUME NEW p \in Proc, lock[i] = p, puts[p] = <<>>
      PROVE  Copy(i)
  BY <1>1, <1>3, <1>4, <1>6, InodeAssumption DEF CacheInv
<1>. QED
  BY <1>2, <1>3, <1>5, <1>6

\* iget().
LEMMA IgetFacts ==
    ASSUME CacheType, NEW s \in Inum
    PROVE  /\ iget_ref(s) \in [Inum -> Nat]
           /\ \A i \in Inum : iget_ref(s)[i] = ref[i] + Is(s, i)
           /\ \A v \in [Inum -> BOOLEAN] :
                /\ iget_valid(v, s) \in [Inum -> BOOLEAN]
                /\ \A j \in Inum : /\ iget_valid(v, s)[j] => v[j]
                                   /\ ref[j] >= 1 => iget_valid(v, s)[j] = v[j]
<1>1. iget_ref(s) \in [Inum -> Nat] /\ \A i \in Inum : iget_ref(s)[i] = ref[i] + Is(s, i)
  BY DEF CacheType, iget_ref, Is
<1>2. ASSUME NEW v \in [Inum -> BOOLEAN]
      PROVE  /\ iget_valid(v, s) \in [Inum -> BOOLEAN]
             /\ \A j \in Inum : /\ iget_valid(v, s)[j] => v[j]
                                /\ ref[j] >= 1 => iget_valid(v, s)[j] = v[j]
  <2>1. \A j \in Inum : ref[j] >= 1 => ref[j] # 0
    BY DEF CacheType
  <2>2. CASE ref[s] = 0
    <3>1. iget_valid(v, s) = [v EXCEPT ![s] = FALSE]
      BY <2>2 DEF iget_valid
    <3>2. [v EXCEPT ![s] = FALSE] \in [Inum -> BOOLEAN]
      OBVIOUS
    <3>3. \A j \in Inum : [v EXCEPT ![s] = FALSE][j] = IF j = s THEN FALSE ELSE v[j]
      OBVIOUS
    <3>. QED
      BY <2>1, <2>2, <3>1, <3>2, <3>3, Zenon
  <2>3. CASE ref[s] # 0
    <3>1. iget_valid(v, s) = v
      BY <2>3 DEF iget_valid
    <3>. QED
      BY <3>1
  <2>. QED
    BY <2>2, <2>3
<1>. QED
  BY <1>1, <1>2

\* ilock() and the record it reads.
LEMMA IlockFacts ==
    ASSUME CacheType, DiskType, NEW i \in Inum
    PROVE  /\ Cur(i) \in Dinode
           /\ ilock(i) \in [Inum -> Dinode]
           /\ ilock(i)[i] = Cur(i) /\ \A j \in Inum : j # i => ilock(i)[j] = inode[j]
           /\ Loaded(i) \in [Inum -> BOOLEAN]
           /\ Loaded(i)[i] /\ \A j \in Inum : j # i => Loaded(i)[j] = valid[j]
           /\ NoType(i) \in BOOLEAN
  BY DEF CacheType, DiskType, Cur, ilock, Loaded, NoType

\* The ways a step moves a process.
LEMMA Moves ==
    ASSUME ProcType, NEW p \in Proc, puts[p] = <<>>
    PROVE  /\ Return(p, <<>>) => Move(p, "run", 0, 0, 0, 0)
           /\ \A a \in Inum : Return(p, <<a>>) => Move(p, "run", 0, 0, a, 0)
           /\ \A a, b \in Inum : Return(p, <<a, b>>) => Move(p, "run", 0, 0, a, b)
           /\ puts' = puts => puts' = [puts EXCEPT ![p] = Entries(0, 0)]
           /\ pc' = pc => pc' = [pc EXCEPT ![p] = pc[p]]
           /\ dp' = dp => dp' = [dp EXCEPT ![p] = dp[p]]
           /\ ip' = ip => ip' = [ip EXCEPT ![p] = ip[p]]
           /\ call' = call => \E cl \in Calls \cup {NoCall} : call' = [call EXCEPT ![p] = cl]
           /\ path' = path => \E s \in Seq(Entry) : path' = [path EXCEPT ![p] = s]
<1>1. <<>> \in Seq(Entry) /\ NoCall \in Calls \cup {NoCall}
  OBVIOUS
<1>2. ASSUME NEW s, Return(p, s), NEW a, NEW b,
             Put(p, s) => puts' = [puts EXCEPT ![p] = Entries(a, b)]
      PROVE  Move(p, "run", 0, 0, a, b)
  BY <1>1, <1>2 DEF Return, Move
<1>3. /\ Return(p, <<>>) => Move(p, "run", 0, 0, 0, 0)
      /\ \A a \in Inum : Return(p, <<a>>) => Move(p, "run", 0, 0, a, 0)
      /\ \A a, b \in Inum : Return(p, <<a, b>>) => Move(p, "run", 0, 0, a, b)
  BY <1>2, PutEntries
<1>4. puts' = puts => puts' = [puts EXCEPT ![p] = Entries(0, 0)]
  BY DEF ProcType, Entries
<1>5. /\ pc' = pc => pc' = [pc EXCEPT ![p] = pc[p]]
      /\ dp' = dp => dp' = [dp EXCEPT ![p] = dp[p]]
      /\ ip' = ip => ip' = [ip EXCEPT ![p] = ip[p]]
  BY DEF ProcType
<1>6. call' = call => \E cl \in Calls \cup {NoCall} : call' = [call EXCEPT ![p] = cl]
  BY DEF ProcType
<1>7. path' = path => \E s \in Seq(Entry) : path' = [path EXCEPT ![p] = s]
  BY DEF ProcType
<1>. QED
  BY <1>3, <1>4, <1>5, <1>6, <1>7

\* Where namex() starts.
LEMMA StartType ==
    ASSUME FileType, NEW p \in Proc, cwd[p] # 0, NEW s
    PROVE  Start(p, s) \in Inum
  BY InodeAssumption DEF FileType, Start, ROOTINO, Inum

\* The invariant in parts.
LEMMA Parts ==
    ASSUME IInv
    PROVE  /\ DiskType /\ CacheType /\ ProcType /\ FileType /\ RestType
           /\ PtrInv /\ PutInv /\ LockInv /\ FileInv /\ RefSum /\ FdSum
           /\ CacheInv /\ PinInv /\ FreeInv /\ BlkInv
  BY TypeParts DEF IInv

\* Nothing of the disk changes.
LEMMA SameDisk ==
    ASSUME UNCHANGED diskvars, DiskType
    PROVE  /\ DiskType' /\ UNCHANGED <<used, ind>>
           /\ \A j \in Inum : dinode'[j].type = dinode[j].type /\ SameBlocks(j)
  BY DEF diskvars, DiskType, SameBlocks

\* Starting a call on a path: idup() of the root or of the current directory.
LEMMA sys_pathInv ==
    ASSUME IInv, NEW p \in Proc, NEW c \in Calls, sys_path(p, c)
    PROVE  IInv'
<1>1. /\ DiskType /\ CacheType /\ ProcType /\ FileType /\ RestType
      /\ PtrInv /\ PutInv /\ LockInv /\ CacheInv /\ PinInv
  BY Parts
<1>. DEFINE s == Start(p, c.path)
<1>2. /\ pc[p] = "run" /\ puts[p] = <<>> /\ ~panicked /\ cwd[p] # 0
      /\ ip[p] = 0 /\ dp[p] = 0
  BY <1>1 DEF sys_path, At, PtrInv, PtrRow
<1>3. s \in Inum
  BY <1>1, <1>2, StartType
<1>4. /\ ref' = iget_ref(s) /\ valid' = iget_valid(valid, s)
      /\ dp' = [dp EXCEPT ![p] = s] /\ call' = [call EXCEPT ![p] = c]
      /\ path' = [path EXCEPT ![p] = Elems(c.path)] /\ pc' = [pc EXCEPT ![p] = "walk"]
      /\ UNCHANGED <<diskvars, inode, lock, puts, panicked, ip, cwd, ofile, ends, file, lost>>
      /\ calls < MaxCalls /\ calls' = calls + 1
  BY DEF sys_path, Goto, filevars
<1>. HIDE DEF s
<1>5. Step(p, "walk", s, ip[p], 0, 0)
  <2>1. Elems(c.path) \in Seq(Entry)
    BY CallsAssumption
  <2>2. puts' = [puts EXCEPT ![p] = Entries(0, 0)] /\ ip' = [ip EXCEPT ![p] = ip[p]]
    BY <1>1, <1>2, <1>4, Moves
  <2>. QED
    BY <1>1, <1>2, <1>3, <1>4, <2>1, <2>2 DEF Step, Move, PCs
<1>6. /\ ref' \in [Inum -> Nat] /\ \A i \in Inum : ref'[i] = ref[i] + Is(s, i)
      /\ valid' \in [Inum -> BOOLEAN]
      /\ \A j \in Inum : (valid'[j] => valid[j]) /\ (ref[j] >= 1 => valid'[j] = valid[j])
  BY <1>1, <1>3, <1>4, IgetFacts DEF CacheType
<1>7. pc'[p] = "walk" /\ dp'[p] = s /\ ip'[p] = ip[p] /\ call'[p] = c
  BY <1>1, <1>4 DEF ProcType
<1>8. CacheType' /\ RestType' /\ cwd' \in [Proc -> Inum \cup {0}]
  BY <1>1, <1>4, <1>6, FsAssumption DEF CacheType, RestType, FileType
<1>9. PtrRow(p)'
  BY <1>2, <1>3, <1>4, <1>7 DEF PtrRow, Inum
<1>10. Kept("walk", s, ip[p]) = 0 /\ \A j \in Inum : lock[j] # p /\ j # 0
  BY <1>1, <1>2 DEF Kept, LockInv, Holds, Iputting, Inum
<1>11. \A i \in Inum : ref'[i] = ref[i] + (Is(cwd'[p], i) + Is(s, i) + Is(ip[p], i) + Is(0, i) + Is(0, i))
                                     - (Is(cwd[p], i) + Is(dp[p], i) + Is(ip[p], i))
  BY <1>1, <1>2, <1>4, <1>6 DEF Is, CacheType, Inum
<1>12. ASSUME NEW j \in Inum
       PROVE  /\ lock'[j] # None => valid'[j]
              /\ valid'[j] => Copy(j)' \/ (valid[j] /\ ~Copy(j))
  <2>1. lock[j] # None => valid[j] /\ ref[j] >= 1
    BY CacheFacts
  <2>. QED
    BY <1>4, <1>6, <2>1 DEF Copy, diskvars
<1>13. PinRow(p)' /\ \A i \in Inum : ~Pins(p, i)'
  BY <1>2, <1>7 DEF PinRow, Pins, DirPCs, Inum
<1>. QED
  BY <1>1, <1>2, <1>4, <1>5, <1>8, <1>9, <1>10, <1>11, <1>12, <1>13, SameDisk, CallStep

\* A step that locks inode i and reads it, with at most one more iget().
LEMMA LoadStep ==
    ASSUME IInv, NEW p \in Proc, NEW c, NEW d, NEW n, NEW a, NEW b, Step(p, c, d, n, a, b),
           UNCHANGED <<dinode, used, ind, file, ofile, ends>>,
           DiskType', RestType', panicked' \in BOOLEAN,
           cwd' \in [Proc -> Inum \cup {0}], \A q \in Proc : q # p => cwd'[q] = cwd[q],
           NEW i \in Inum, lock[i] = None, inode' = ilock(i), NoType(i) => panicked',
           valid' = Loaded(i) \/ \E s \in Inum : valid' = iget_valid(Loaded(i), s) /\ ref[i] >= 1,
           ref' \in [Inum -> Nat], lock' \in [Inum -> Proc \cup {None}],
           pc[p] \notin {"pipealloc", "pipe"}, c \notin {"pipealloc", "pipe"},
           PtrRow(p)',
           c \in {"created", "unlinked"} => a # n /\ b = 0,
           c \in {"parent", "create_new", "unlink"} => a = 0,
           \A j \in Inum : lock'[j] = IF j = Kept(c, d, n) THEN p
                                      ELSE IF lock[j] = p THEN None ELSE lock[j],
           Kept(c, d, n) \in {0, i},
           \A j \in Inum : ref'[j] = ref[j] + (Is(cwd'[p], j) + Is(d, j) + Is(n, j) + Is(a, j) + Is(b, j))
                                     - (Is(cwd[p], j) + Is(dp[p], j) + Is(ip[p], j)),
           PinRow(p)',
           \A j \in Inum : Pins(p, j)' => Pins(p, j) \/ j = i
    PROVE  IInv'
<1>1. DiskType /\ CacheType /\ CacheInv /\ ~panicked
  BY Parts DEF Step
<1>2. /\ Cur(i) = dinode[i] /\ (valid[i] => Copy(i))
      /\ \A j \in Inum : lock[j] # None => valid[j] /\ ref[j] >= 1
  BY CacheFacts
<1>3. /\ inode' \in [Inum -> Dinode] /\ Loaded(i) \in [Inum -> BOOLEAN]
      /\ inode'[i] = dinode[i] /\ Loaded(i)[i]
      /\ \A j \in Inum : j # i => inode'[j] = inode[j] /\ Loaded(i)[j] = valid[j]
  BY <1>1, <1>2, IlockFacts
<1>4. /\ valid' \in [Inum -> BOOLEAN]
      /\ \A j \in Inum : (valid'[j] => Loaded(i)[j]) /\ (ref[j] >= 1 => valid'[j] = Loaded(i)[j])
      /\ valid'[i]
  <2>1. CASE valid' = Loaded(i)
    BY <1>3, <2>1
  <2>2. CASE \E s \in Inum : valid' = iget_valid(Loaded(i), s) /\ ref[i] >= 1
    <3>1. PICK s \in Inum : valid' = iget_valid(Loaded(i), s) /\ ref[i] >= 1
      BY <2>2
    <3>. DEFINE v == Loaded(i)
    <3>2. v \in [Inum -> BOOLEAN]
      BY <1>3
    <3>. HIDE DEF v
    <3>3. /\ iget_valid(v, s) \in [Inum -> BOOLEAN]
          /\ \A j \in Inum : /\ iget_valid(v, s)[j] => v[j]
                             /\ ref[j] >= 1 => iget_valid(v, s)[j] = v[j]
      BY <1>1, <3>2, IgetFacts
    <3>4. v[i]
      BY <1>3 DEF v
    <3>5. valid' = iget_valid(v, s)
      BY <3>1 DEF v
    <3>6. valid'[i]
      BY <3>1, <3>3, <3>4, <3>5, Zenon
    <3>7. /\ valid' \in [Inum -> BOOLEAN]
          /\ \A j \in Inum : (valid'[j] => v[j]) /\ (ref[j] >= 1 => valid'[j] = v[j])
      BY <3>3, <3>5
    <3>. QED
      BY <3>6, <3>7 DEF v
  <2>. QED
    BY <2>1, <2>2
<1>5. Copy(i)'
  BY <1>1, <1>2, <1>3 DEF Copy, NoType
<1>6. ASSUME NEW j \in Inum
      PROVE  /\ lock'[j] # None => valid'[j]
             /\ valid'[j] => Copy(j)' \/ (valid[j] /\ ~Copy(j))
  <2>1. CASE j = i
    BY <1>4, <1>5, <2>1
  <2>2. CASE j # i
    <3>1. lock'[j] # None => lock[j] # None
      BY <2>2 DEF Inum
    <3>2. lock'[j] # None => valid'[j]
      <4>. HAVE lock'[j] # None
      <4>1. valid[j] /\ ref[j] >= 1
        BY <1>2, <3>1
      <4>2. valid'[j] = Loaded(i)[j] /\ Loaded(i)[j] = valid[j]
        BY <1>3, <1>4, <2>2, <4>1
      <4>. QED
        BY <4>1, <4>2
    <3>3. valid'[j] => Copy(j)' \/ (valid[j] /\ ~Copy(j))
      <4>. HAVE valid'[j]
      <4>1. valid[j] /\ inode'[j] = inode[j]
        BY <1>3, <1>4, <2>2
      <4>. QED
        BY <1>1, <4>1 DEF Copy
    <3>. QED
      BY <3>2, <3>3
  <2>. QED
    BY <2>1, <2>2
<1>7. CacheType'
  BY <1>3, <1>4 DEF CacheType
<1>8. \A j \in Inum : dinode'[j].type = dinode[j].type /\ SameBlocks(j)
  BY DEF SameBlocks
<1>9. /\ \A j \in Inum : Pins(p, j)' => Pins(p, j) \/ lock[j] \in {None, p}
      /\ Kept(c, d, n) # 0 => lock[Kept(c, d, n)] \in {None, p}
  OBVIOUS
<1>. QED
  BY <1>6, <1>7, <1>8, <1>9, CallStep

\* A process that is between two of its locks.
LEMMA Unlocked ==
    ASSUME IInv, NEW p \in Proc, puts[p] = <<>>,
           pc[p] \notin {"create_new", "unlink", "created", "unlinked"}
    PROVE  \A j \in Inum : lock[j] # p /\ j # 0
  BY Parts DEF LockInv, Holds, Iputting, Inum

\* A lookup that fails.
LEMMA FailMove ==
    ASSUME IInv, NEW p \in Proc, At(p, "walk"), namex_fail(p, dp[p]), UNCHANGED <<cwd, ofile>>
    PROVE  \E c \in {"run", "link_bad"} :
             /\ Step(p, c, 0, ip[p], dp[p], 0) /\ PtrRow(p)'
             /\ c = "link_bad" => call' = call
             /\ c = "run" => call'[p].op = "none"
<1>1. /\ ProcType /\ PtrRow(p) /\ puts[p] = <<>> /\ ~panicked /\ pc[p] = "walk"
      /\ dp[p] \in Inum /\ ip[p] \in Inum \cup {0}
  BY Parts DEF PtrInv, PtrRow, At, ProcType
<1>2. CASE call[p].op = "link" /\ ip[p] # 0
  <2>1. /\ pc' = [pc EXCEPT ![p] = "link_bad"] /\ dp' = [dp EXCEPT ![p] = 0]
        /\ Put(p, <<dp[p]>>) /\ UNCHANGED <<call, path, ip>>
    BY <1>2 DEF namex_fail, Goto
  <2>2. /\ puts' = [puts EXCEPT ![p] = Entries(dp[p], 0)] /\ ip' = [ip EXCEPT ![p] = ip[p]]
        /\ \E cl \in Calls \cup {NoCall} : call' = [call EXCEPT ![p] = cl]
        /\ \E s \in Seq(Entry) : path' = [path EXCEPT ![p] = s]
    BY <1>1, <2>1, PutEntries, Moves
  <2>3. Step(p, "link_bad", 0, ip[p], dp[p], 0)
    BY <1>1, <2>1, <2>2 DEF Step, Move, PCs
  <2>4. pc'[p] = "link_bad" /\ dp'[p] = 0
    BY <1>1, <2>1 DEF ProcType
  <2>5. PtrRow(p)'
    BY <1>1, <1>2, <2>1, <2>4 DEF PtrRow
  <2>. QED
    BY <2>1, <2>3, <2>5
<1>3. CASE ~(call[p].op = "link" /\ ip[p] # 0)
  <2>1. Return(p, <<dp[p]>>) /\ ip[p] = 0
    BY <1>1, <1>3 DEF namex_fail, PtrRow
  <2>2. Step(p, "run", 0, ip[p], dp[p], 0)
    BY <1>1, <2>1, Moves DEF Step, PCs
  <2>3. pc'[p] = "run" /\ dp'[p] = 0 /\ ip'[p] = 0 /\ call'[p] = NoCall
    BY <1>1, <2>1 DEF ProcType, Return
  <2>4. PtrRow(p)'
    BY <1>1, <2>3 DEF PtrRow
  <2>. QED
    BY <2>2, <2>3, <2>4 DEF NoCall
<1>. QED
  BY <1>2, <1>3

\* One step of namex(): lock a directory, look the name up, iget() the next.
LEMMA namexInv ==
    ASSUME IInv, NEW p \in Proc, namex(p)
    PROVE  IInv'
<1>. DEFINE i == dp[p]
<1>1. /\ DiskType /\ CacheType /\ ProcType /\ FileType /\ RestType
      /\ PtrRow(p) /\ PinRow(p)
  BY Parts DEF PtrInv, PinInv
<1>2. /\ At(p, "walk") /\ pc[p] = "walk" /\ puts[p] = <<>> /\ ~panicked
      /\ i \in Inum /\ ip[p] \in Inum \cup {0}
  BY <1>1 DEF namex, At, PtrRow, ProcType
<1>3. /\ UNCHANGED <<dinode, ents, used, ind, lock, cwd, ofile, ends, file, calls, lost>>
      /\ DiskType' /\ RestType' /\ cwd' \in [Proc -> Inum \cup {0}]
      /\ \A q \in Proc : q # p => cwd'[q] = cwd[q]
      /\ lock' \in [Inum -> Proc \cup {None}]
  BY <1>1 DEF namex, diskvars, filevars, DiskType, RestType, FileType, CacheType
<1>4. /\ ref[i] >= 1
      /\ \A j \in Inum : lock[j] # p /\ j # 0
  BY <1>2, CacheFacts, Unlocked
<1>5. \A j \in Inum : ref[j] \in Nat /\ Is(0, j) = 0 /\ \A x : Is(x, j) \in {0, 1}
  BY <1>1, <1>4 DEF Is, CacheType
<1>6. ASSUME NEW c \in {"run", "link_bad"}, Step(p, c, 0, ip[p], i, 0), PtrRow(p)',
             c = "link_bad" => call' = call, c = "run" => call'[p].op = "none"
      PROVE  /\ PinRow(p)' /\ \A j \in Inum : Pins(p, j)' => Pins(p, j)
             /\ Kept(c, 0, ip[p]) = 0
             /\ ref' = ref =>
                \A j \in Inum : ref'[j] = ref[j] + (Is(cwd'[p], j) + Is(0, j) + Is(ip[p], j) + Is(i, j) + Is(0, j))
                                        - (Is(cwd[p], j) + Is(dp[p], j) + Is(ip[p], j))
  <2>1. pc'[p] = c /\ dp'[p] = 0 /\ ip'[p] = ip[p]
    BY <1>1, <1>6, StepRow
  <2>2. PinRow(p)' /\ \A j \in Inum : Pins(p, j)' => Pins(p, j)
    BY <1>1, <1>2, <1>3, <1>6, <2>1 DEF PinRow, Pins, DirPCs
  <2>3. Kept(c, 0, ip[p]) = 0
    BY <1>6 DEF Kept
  <2>4. \A j \in Inum : ref[j] = ref[j] + (Is(cwd'[p], j) + Is(0, j) + Is(ip[p], j) + Is(i, j) + Is(0, j))
                                        - (Is(cwd[p], j) + Is(dp[p], j) + Is(ip[p], j))
    BY <1>3, <1>5
  <2>. QED
    BY <2>2, <2>3, <2>4
<1>7. CASE path[p] = <<>>
  <2>1. namex_fail(p, i) /\ UNCHANGED <<inode, ref, valid, panicked>>
    BY <1>7 DEF namex
  <2>2. PICK c \in {"run", "link_bad"} : /\ Step(p, c, 0, ip[p], i, 0) /\ PtrRow(p)'
                                         /\ c = "link_bad" => call' = call
                                         /\ c = "run" => call'[p].op = "none"
    BY <1>2, <1>3, <2>1, FailMove
  <2>3. CacheType'
    BY <1>1, <1>3, <2>1 DEF CacheType
  <2>4. \A j \in Inum : /\ lock'[j] # None => valid'[j]
                        /\ valid'[j] => Copy(j)' \/ (valid[j] /\ ~Copy(j))
    BY <1>3, <2>1, CacheFacts DEF Copy
  <2>5. \A j \in Inum : dinode'[j].type = dinode[j].type /\ SameBlocks(j)
    BY <1>3 DEF SameBlocks
  <2>. QED
    BY <1>2, <1>3, <1>4, <1>6, <2>1, <2>2, <2>3, <2>4, <2>5, CallStep
<1>8. CASE path[p] # <<>>
  <2>1. /\ lock[i] = None /\ inode' = ilock(i) /\ panicked' = NoType(i)
        /\ panicked' \in BOOLEAN /\ (NoType(i) => panicked')
    BY <1>8 DEF namex, Free, NoType
  <2>2. CASE namex_fail(p, i) /\ valid' = Loaded(i) /\ UNCHANGED ref
    <3>1. PICK c \in {"run", "link_bad"} : /\ Step(p, c, 0, ip[p], i, 0) /\ PtrRow(p)'
                                           /\ c = "link_bad" => call' = call
                                           /\ c = "run" => call'[p].op = "none"
      BY <1>2, <1>3, <2>2, FailMove
    <3>2. ref' \in [Inum -> Nat]
      BY <1>1, <2>2 DEF CacheType
    <3>. QED
      BY <1>2, <1>3, <1>4, <1>6, <2>1, <2>2, <3>1, <3>2, LoadStep
  <2>3. CASE /\ Cur(i).type = "dir" /\ Parent(p) /\ Len(path[p]) = 1
             /\ Goto(p, "parent") /\ valid' = Loaded(i)
             /\ UNCHANGED <<ref, puts, call, path, dp, ip>>
    <3>1. pc' = [pc EXCEPT ![p] = "parent"] /\ pc'[p] = "parent"
      BY <1>1, <2>3 DEF Goto, ProcType
    <3>2. Step(p, "parent", i, ip[p], 0, 0)
      BY <1>1, <1>2, <2>3, <3>1, Moves DEF Step, Move, PCs
    <3>3. PtrRow(p)'
      <4>1. call[p].op = "link" <=> ip[p] # 0
        BY <1>1, <1>2, <2>3 DEF PtrRow, Parent
      <4>. QED
        BY <1>1, <1>2, <1>3, <1>8, <2>3, <3>1, <4>1 DEF PtrRow
    <3>4. dinode[i].type = "dir"
      BY <1>2, <2>1, <2>3, CacheFacts
    <3>5. PinRow(p)' /\ \A j \in Inum : Pins(p, j)' => Pins(p, j) \/ j = i
      BY <1>1, <1>2, <1>3, <2>3, <3>1, <3>4 DEF PinRow, Pins, DirPCs
    <3>6. ref' \in [Inum -> Nat]
      BY <1>1, <2>3 DEF CacheType
    <3>7. \A j \in Inum : ref'[j] = ref[j] + (Is(cwd'[p], j) + Is(i, j) + Is(ip[p], j) + Is(0, j) + Is(0, j))
                                        - (Is(cwd[p], j) + Is(dp[p], j) + Is(ip[p], j))
      BY <1>3, <1>5, <2>3
    <3>8. Kept("parent", i, ip[p]) = 0
      BY DEF Kept
    <3>. QED
      BY <1>2, <1>3, <1>4, <2>1, <2>3, <3>2, <3>3, <3>5, <3>6, <3>7, <3>8, LoadStep, SMTT(30)
  <2>4. CASE \E next \in Inum :
               /\ ref' = iget_ref(next)
               /\ valid' = iget_valid(Loaded(i), next)
               /\ dp' = [dp EXCEPT ![p] = next]
               /\ path' = [path EXCEPT ![p] = Tail(@)]
               /\ Put(p, <<i>>) /\ UNCHANGED <<pc, call, ip>>
    <3>1. PICK next \in Inum :
               /\ ref' = iget_ref(next)
               /\ valid' = iget_valid(Loaded(i), next)
               /\ dp' = [dp EXCEPT ![p] = next]
               /\ path' = [path EXCEPT ![p] = Tail(@)]
               /\ Put(p, <<i>>) /\ UNCHANGED <<pc, call, ip>>
      BY <2>4
    <3>2. Tail(path[p]) \in Seq(Entry)
      BY <1>1, <1>8 DEF ProcType
    <3>3. Step(p, "walk", next, ip[p], i, 0)
      <4>1. /\ puts' = [puts EXCEPT ![p] = Entries(i, 0)] /\ pc' = [pc EXCEPT ![p] = "walk"]
            /\ ip' = [ip EXCEPT ![p] = ip[p]]
            /\ \E cl \in Calls \cup {NoCall} : call' = [call EXCEPT ![p] = cl]
        BY <1>1, <1>2, <3>1, PutEntries, Moves
      <4>2. path' = [path EXCEPT ![p] = Tail(path[p])]
        BY <3>1
      <4>. QED
        BY <1>2, <3>1, <3>2, <4>1, <4>2 DEF Step, Move, PCs
    <3>4. dp'[p] = next
      BY <1>1, <3>1 DEF ProcType
    <3>5. PtrRow(p)'
      BY <1>1, <1>2, <1>3, <1>4, <3>1, <3>4 DEF PtrRow
    <3>6. PinRow(p)' /\ \A j \in Inum : Pins(p, j)' => Pins(p, j)
      BY <1>1, <1>2, <1>3, <3>1 DEF PinRow, Pins, DirPCs
    <3>7. ref' \in [Inum -> Nat] /\ \A j \in Inum : ref'[j] = ref[j] + Is(next, j)
      BY <1>1, <3>1, IgetFacts
    <3>8. \A j \in Inum : ref'[j] = ref[j] + (Is(cwd'[p], j) + Is(next, j) + Is(ip[p], j) + Is(i, j) + Is(0, j))
                                        - (Is(cwd[p], j) + Is(dp[p], j) + Is(ip[p], j))
      BY <1>3, <1>5, <3>7
    <3>9. Kept("walk", next, ip[p]) = 0
      BY DEF Kept
    <3>10. \E s \in Inum : valid' = iget_valid(Loaded(i), s) /\ ref[i] >= 1
      BY <1>4, <3>1
    <3>. QED
      BY <1>2, <1>3, <1>4, <2>1, <3>3, <3>5, <3>6, <3>7, <3>8, <3>9, <3>10, LoadStep
  <2>. QED
    <3>1. ents[i][Head(path[p])] \in Inum \cup {0}
      BY <1>1, <1>2, <1>8 DEF DiskType, ProcType
    <3>. QED
      BY <1>8, <2>2, <2>3, <2>4, <3>1 DEF namex, dirlookup
<1>. QED
  BY <1>7, <1>8

-----------------------------------------------------------------------------
(***************************************************************************)
(* create() and open().                                                    *)
(***************************************************************************)
\* The directory that nameiparent() returned.
LEMMA ParentFacts ==
    ASSUME IInv, NEW p \in Proc, NEW ops, Nameiparent(p, ops)
    PROVE  /\ pc[p] = "parent" /\ puts[p] = <<>> /\ ~panicked /\ call[p].op \in ops
           /\ dp[p] \in Inum /\ lock[dp[p]] = None /\ ref[dp[p]] >= 1
           /\ dinode[dp[p]].type = "dir" /\ Cur(dp[p]) = dinode[dp[p]] /\ ~NoType(dp[p])
           /\ ip[p] \in Inum \cup {0} /\ (ip[p] # 0 <=> call[p].op = "link")
           /\ Name1(p) \in Entry /\ ents[dp[p]][Name1(p)] \in Inum \cup {0}
           /\ path[p] # <<>> /\ cwd[p] # 0
           /\ \A j \in Inum : lock[j] # p /\ j # 0
<1>1. DiskType /\ ProcType /\ PtrRow(p) /\ PinRow(p)
  BY Parts DEF PtrInv, PinInv
<1>2. /\ pc[p] = "parent" /\ puts[p] = <<>> /\ ~panicked /\ call[p].op \in ops
      /\ dp[p] \in Inum /\ lock[dp[p]] = None
      /\ ip[p] \in Inum \cup {0} /\ (ip[p] # 0 <=> call[p].op = "link")
      /\ path[p] # <<>> /\ cwd[p] # 0 /\ dinode[dp[p]].type = "dir"
  BY <1>1 DEF Nameiparent, At, Free, PtrRow, PinRow, DirPCs, ProcType
<1>3. Cur(dp[p]) = dinode[dp[p]] /\ ref[dp[p]] >= 1 /\ ~NoType(dp[p])
  BY <1>2, CacheFacts DEF NoType
<1>4. \A j \in Inum : lock[j] # p /\ j # 0
  BY <1>2, Unlocked
<1>5. Name1(p) \in Entry
  BY <1>1, <1>2 DEF Name1, ProcType
<1>6. ents[dp[p]][Name1(p)] \in Inum \cup {0}
  BY <1>1, <1>2, <1>5 DEF DiskType
<1>. QED
  BY <1>2, <1>3, <1>4, <1>5, <1>6

\* ialloc() finds a free inode if there is one.
LEMMA IallocFacts ==
    ASSUME DiskType, FreeInodes # {}
    PROVE  ialloc \in Inum /\ dinode[ialloc].type = "none"
<1>1. FreeInodes \in SUBSET Nat
  BY DEF FreeInodes, Inum
<1>2. \E i \in FreeInodes : \A j \in FreeInodes : i <= j
  BY <1>1, Least
<1>3. ialloc \in FreeInodes
  BY <1>2, Zenon DEF ialloc
<1>. QED
  BY <1>3 DEF FreeInodes

\* create(): the parent locked, and the name found, or a new inode taken by
\* ialloc(), or the call refused.
LEMMA createInv ==
    ASSUME IInv, NEW p \in Proc, create(p)
    PROVE  IInv'
<1>. DEFINE d == dp[p]
            j == ents[d][Name1(p)]
<1>1. /\ DiskType /\ CacheType /\ ProcType /\ FileType /\ RestType
      /\ PtrRow(p) /\ PinRow(p) /\ FreeInv
  BY Parts DEF PtrInv, PinInv
<1>2. /\ pc[p] = "parent" /\ puts[p] = <<>> /\ ~panicked
      /\ d \in Inum /\ lock[d] = None /\ ref[d] >= 1
      /\ dinode[d].type = "dir" /\ Cur(d) = dinode[d] /\ ~NoType(d)
      /\ ip[p] = 0 /\ call[p].op # "link" /\ j \in Inum \cup {0} /\ path[p] # <<>> /\ cwd[p] # 0
      /\ \A k \in Inum : lock[k] # p /\ k # 0
  BY ParentFacts DEF create
<1>3. /\ UNCHANGED <<ents, used, ind, call, path, cwd, ofile, ends, file, calls, lost>>
      /\ RestType' /\ cwd' \in [Proc -> Inum \cup {0}] /\ inode' = ilock(d)
      /\ \A q \in Proc : q # p => cwd'[q] = cwd[q]
  BY <1>1 DEF create, filevars, RestType, FileType
<1>4. \A k \in Inum : ref[k] \in Nat /\ Is(0, k) = 0 /\ \A x : Is(x, k) \in {0, 1}
  BY <1>1, <1>2 DEF Is, CacheType
<1>5. CASE j # 0
  <2>1. /\ ref' = iget_ref(j) /\ valid' = iget_valid(Loaded(d), j)
        /\ ip' = [ip EXCEPT ![p] = j] /\ dp' = [dp EXCEPT ![p] = 0]
        /\ Put(p, <<d>>) /\ pc' = [pc EXCEPT ![p] = "create_found"]
        /\ UNCHANGED <<lock, dinode, panicked>>
    BY <1>5 DEF create, dirlookup, Goto
  <2>2. /\ j \in Inum /\ \E s \in Inum : valid' = iget_valid(Loaded(d), s) /\ ref[d] >= 1
    BY <1>2, <1>5, <2>1
  <2>. HIDE DEF j
  <2>3. Step(p, "create_found", 0, j, d, 0)
    BY <1>1, <1>2, <1>3, <2>1, <2>2, PutEntries, Moves DEF Step, Move, PCs
  <2>4. pc'[p] = "create_found" /\ dp'[p] = 0 /\ ip'[p] = j /\ call'[p].op # "link"
    BY <1>1, <1>2, <1>3, <2>1 DEF ProcType
  <2>5. PtrRow(p)' /\ PinRow(p)' /\ (\A k \in Inum : ~Pins(p, k)') /\ Kept("create_found", 0, j) = 0
    BY <1>2, <1>3, <2>2, <2>4 DEF PtrRow, PinRow, Pins, DirPCs, Kept
  <2>6. ref' \in [Inum -> Nat] /\ \A k \in Inum : ref'[k] = ref[k] + Is(j, k)
    BY <1>1, <2>1, <2>2, IgetFacts
  <2>7. \A k \in Inum : ref'[k] = ref[k] + (Is(cwd'[p], k) + Is(0, k) + Is(j, k) + Is(d, k) + Is(0, k))
                                        - (Is(cwd[p], k) + Is(dp[p], k) + Is(ip[p], k))
    BY <1>2, <1>3, <1>4, <2>6
  <2>8. /\ DiskType' /\ panicked' \in BOOLEAN /\ lock' \in [Inum -> Proc \cup {None}]
        /\ UNCHANGED <<dinode, lock, panicked>>
    BY <1>1, <1>3, <2>1 DEF DiskType, CacheType
  <2>. QED
    BY <1>2, <1>3, <2>2, <2>3, <2>5, <2>6, <2>7, <2>8, LoadStep
<1>6. CASE j = 0
  <2>1. /\ panicked' = (FreeInodes = {}) /\ lock' = [lock EXCEPT ![d] = p]
        /\ pc' = [pc EXCEPT ![p] = "create_new"] /\ UNCHANGED <<puts, dp>>
    BY <1>6 DEF create, dirlookup, Goto
  <2>2. /\ lock' \in [Inum -> Proc \cup {None}] /\ panicked' \in BOOLEAN
        /\ \A k \in Inum : lock'[k] = IF k = d THEN p ELSE lock[k]
        /\ pc'[p] = "create_new" /\ dp'[p] = d /\ call'[p].op # "link"
    BY <1>1, <1>2, <1>3, <2>1 DEF CacheType, ProcType
  <2>3. CASE FreeInodes = {}
    <3>1. UNCHANGED <<ref, dinode, ip>> /\ panicked'
      BY <1>6, <2>1, <2>3 DEF create, dirlookup
    <3>2. valid' = Loaded(d)
      BY <1>6, <2>3 DEF create, dirlookup
    <3>3. Step(p, "create_new", d, ip[p], 0, 0)
      BY <1>1, <1>2, <1>3, <2>1, <3>1, Moves DEF Step, Move, PCs
    <3>4. /\ PtrRow(p)' /\ PinRow(p)' /\ (\A k \in Inum : Pins(p, k)' => Pins(p, k))
          /\ Kept("create_new", d, ip[p]) = d
      BY <1>1, <1>2, <1>3, <2>2, <3>1 DEF PtrRow, PinRow, Pins, DirPCs, Kept
    <3>5. \A k \in Inum : ref'[k] = ref[k] + (Is(cwd'[p], k) + Is(d, k) + Is(ip[p], k) + Is(0, k) + Is(0, k))
                                        - (Is(cwd[p], k) + Is(dp[p], k) + Is(ip[p], k))
      BY <1>2, <1>3, <1>4, <3>1
    <3>6. DiskType' /\ ref' \in [Inum -> Nat]
      BY <1>1, <1>3, <3>1 DEF DiskType, CacheType
    <3>7. \A k \in Inum : lock'[k] = IF k = Kept("create_new", d, ip[p]) THEN p
                                    ELSE IF lock[k] = p THEN None ELSE lock[k]
      BY <1>2, <2>2, <3>4
    <3>8. UNCHANGED <<dinode, used, ind, file, ofile, ends>> /\ panicked' \in BOOLEAN
      BY <1>3, <2>2, <3>1
    <3>9. \A k \in Inum : Pins(p, k)' => Pins(p, k) \/ k = d
      BY <3>4
    <3>10. Kept("create_new", d, ip[p]) \in {0, d}
      BY <3>4
    <3>. HIDE DEF d, j
    <3>. QED
      BY <1>2, <1>3, <2>2, <3>1, <3>2, <3>3, <3>4, <3>5, <3>6, <3>7, <3>8, <3>9, <3>10, LoadStep
  <2>4. CASE FreeInodes # {}
    <3>. DEFINE n == ialloc
                r == dinode'[n]
    <3>1. n \in Inum /\ dinode[n].type = "none"
      BY <1>1, <2>4, IallocFacts
    <3>2. /\ ref' = iget_ref(n) /\ valid' = iget_valid(Loaded(d), n)
          /\ ip' = [ip EXCEPT ![p] = n] /\ ~panicked'
          /\ dinode' = [dinode EXCEPT ![n] =
                 [Unused EXCEPT !.type = CASE call[p].op = "open" -> "file"
                                           [] call[p].op = "mkdir" -> "dir"
                                           [] OTHER -> "device"]]
      BY <1>6, <2>1, <2>4 DEF create, dirlookup
    <3>. HIDE DEF n
    <3>3. /\ dinode' \in [Inum -> Dinode]
          /\ r.direct = 0 /\ r.indirect = 0 /\ r.size = 0
          /\ \A k \in Inum : k # n => dinode'[k] = dinode[k]
      <4>. DEFINE t == CASE call[p].op = "open" -> "file"
                         [] call[p].op = "mkdir" -> "dir"
                         [] OTHER -> "device"
      <4>1. t \in {"file", "dir", "device"}
        OBVIOUS
      <4>2. dinode' = [dinode EXCEPT ![n] = [Unused EXCEPT !.type = t]]
        BY <3>2
      <4>. HIDE DEF t
      <4>3. /\ [Unused EXCEPT !.type = t] \in Dinode
            /\ [Unused EXCEPT !.type = t].direct = 0 /\ [Unused EXCEPT !.type = t].indirect = 0
            /\ [Unused EXCEPT !.type = t].size = 0
        BY <4>1 DEF Unused, Dinode
      <4>. QED
        BY <1>1, <3>1, <4>2, <4>3 DEF DiskType
    <3>4. d # n
      BY <1>2, <3>1
    <3>5. /\ ref' \in [Inum -> Nat] /\ \A k \in Inum : ref'[k] = ref[k] + Is(n, k)
      BY <1>1, <3>1, <3>2, IgetFacts
    <3>6. /\ inode' \in [Inum -> Dinode] /\ Loaded(d) \in [Inum -> BOOLEAN]
          /\ inode'[d] = dinode[d] /\ Loaded(d)[d]
          /\ \A k \in Inum : k # d => inode'[k] = inode[k] /\ Loaded(d)[k] = valid[k]
      BY <1>1, <1>2, <1>3, IlockFacts
    <3>7. /\ valid' \in [Inum -> BOOLEAN]
          /\ \A k \in Inum : (valid'[k] => Loaded(d)[k]) /\ (ref[k] >= 1 => valid'[k] = Loaded(d)[k])
      <4>. DEFINE v == Loaded(d)
      <4>1. v \in [Inum -> BOOLEAN] /\ valid' = iget_valid(v, n)
        BY <3>2, <3>6
      <4>. HIDE DEF v
      <4>2. /\ valid' \in [Inum -> BOOLEAN]
            /\ \A k \in Inum : (valid'[k] => v[k]) /\ (ref[k] >= 1 => valid'[k] = v[k])
        BY <1>1, <3>1, <4>1, IgetFacts
      <4>. QED
        BY <4>2 DEF v
    <3>8. ASSUME NEW k \in Inum
          PROVE  /\ lock'[k] # None => valid'[k]
                 /\ valid'[k] => Copy(k)' \/ (valid[k] /\ ~Copy(k))
      <4>1. lock[k] # None => valid[k] /\ ref[k] >= 1
        BY CacheFacts
      <4>2. CASE k = d
        <5>1. valid'[d] = Loaded(d)[d]
          BY <1>2, <3>7
        <5>2. Copy(k)'
          BY <1>2, <3>3, <3>4, <3>6, <4>2 DEF Copy
        <5>. QED
          BY <3>6, <4>2, <5>1, <5>2
      <4>3. CASE k # d
        <5>1. lock'[k] # None => valid'[k]
          <6>. HAVE lock'[k] # None
          <6>1. valid[k] /\ ref[k] >= 1
            BY <2>2, <4>1, <4>3
          <6>2. valid'[k] = Loaded(d)[k] /\ Loaded(d)[k] = valid[k]
            BY <3>6, <3>7, <4>3, <6>1
          <6>. QED
            BY <6>1, <6>2
        <5>2. valid'[k] => valid[k]
          BY <3>6, <3>7, <4>3
        <5>3. k = n => ~Copy(k)
          BY <1>2, <3>1 DEF Copy
        <5>4. k # n => Copy(k)' \/ ~Copy(k)
          BY <1>2, <3>2, <3>3, <3>6, <4>3 DEF Copy
        <5>. QED
          BY <5>1, <5>2, <5>3, <5>4
      <4>. QED
        BY <4>2, <4>3
    <3>9. Step(p, "create_new", d, n, 0, 0)
      BY <1>1, <1>2, <1>3, <2>1, <3>1, <3>2, Moves DEF Step, Move, PCs
    <3>10. /\ PtrRow(p)' /\ PinRow(p)' /\ (\A k \in Inum : Pins(p, k)' => Pins(p, k))
           /\ Kept("create_new", d, n) = d
      <4>1. ip'[p] = n
        BY <1>1, <3>2 DEF ProcType
      <4>. QED
        BY <1>1, <1>2, <1>3, <2>2, <3>1, <3>3, <3>4, <4>1 DEF PtrRow, PinRow, Pins, DirPCs, Kept
    <3>11. \A k \in Inum : ref'[k] = ref[k] + (Is(cwd'[p], k) + Is(d, k) + Is(n, k) + Is(0, k) + Is(0, k))
                                        - (Is(cwd[p], k) + Is(dp[p], k) + Is(ip[p], k))
      BY <1>2, <1>3, <1>4, <3>5
    <3>12. DiskType' /\ CacheType' /\ UNCHANGED <<file, ofile, ends, used, ind>>
      BY <1>1, <1>3, <2>2, <3>3, <3>5, <3>6, <3>7 DEF DiskType, CacheType
    <3>13. \A k \in Inum : /\ dinode[k].type # "none" => dinode'[k].type = dinode[k].type
                           /\ SameBlocks(k)
      BY <1>1, <3>1, <3>3 DEF FreeInv, SameBlocks
    <3>. QED
      BY <1>2, <1>3, <2>2, <3>8, <3>9, <3>10, <3>11, <3>12, <3>13, CallStep
  <2>. QED
    BY <2>3, <2>4
<1>. QED
  BY <1>5, <1>6

\* create() of a name that is there: the inode locked and its type tested.
LEMMA create_foundInv ==
    ASSUME IInv, NEW p \in Proc, create_found(p)
    PROVE  IInv'
<1>. DEFINE i == ip[p]
<1>1. /\ DiskType /\ CacheType /\ ProcType /\ FileType /\ RestType
      /\ PtrRow(p) /\ PinRow(p)
  BY Parts DEF PtrInv, PinInv
<1>2. /\ pc[p] = "create_found" /\ puts[p] = <<>> /\ ~panicked
      /\ i \in Inum /\ lock[i] = None /\ dp[p] = 0 /\ cwd[p] # 0
  BY <1>1 DEF create_found, At, Free, PtrRow, ProcType
<1>3. \A k \in Inum : lock[k] # p /\ k # 0
  BY <1>2, Unlocked
<1>4. /\ UNCHANGED <<dinode, ents, used, ind, ref, cwd, ofile, ends, file, calls, lost>>
      /\ DiskType' /\ RestType' /\ cwd' \in [Proc -> Inum \cup {0}]
      /\ \A q \in Proc : q # p => cwd'[q] = cwd[q]
      /\ inode' = ilock(i) /\ valid' = Loaded(i) /\ panicked' = NoType(i)
      /\ panicked' \in BOOLEAN /\ ref' \in [Inum -> Nat]
  BY <1>1 DEF create_found, diskvars, filevars, DiskType, RestType, FileType, CacheType, NoType
<1>5. \A k \in Inum : ref[k] \in Nat /\ Is(0, k) = 0 /\ \A x : Is(x, k) \in {0, 1}
  BY <1>1, <1>3 DEF Is, CacheType
<1>6. CASE call[p].op = "open" /\ Cur(i).type \in {"file", "device"}
  <2>1. /\ lock' = [lock EXCEPT ![i] = p] /\ pc' = [pc EXCEPT ![p] = "created"]
        /\ UNCHANGED <<puts, call, path, dp, ip>>
    BY <1>6 DEF create_found, Goto
  <2>2. Step(p, "created", 0, i, 0, 0)
    BY <1>1, <1>2, <2>1, Moves DEF Step, Move, PCs
  <2>3. pc'[p] = "created"
    BY <1>1, <2>1 DEF ProcType
  <2>4. /\ PtrRow(p)' /\ PinRow(p)' /\ (\A k \in Inum : Pins(p, k)' => Pins(p, k) \/ k = i)
        /\ Kept("created", 0, i) = i
    BY <1>1, <1>2, <1>4, <1>6, <2>1, <2>3 DEF PtrRow, PinRow, Pins, DirPCs, Kept
  <2>5. \A k \in Inum : ref'[k] = ref[k] + (Is(cwd'[p], k) + Is(0, k) + Is(i, k) + Is(0, k) + Is(0, k))
                                        - (Is(cwd[p], k) + Is(dp[p], k) + Is(ip[p], k))
    BY <1>2, <1>4, <1>5
  <2>6. /\ lock' \in [Inum -> Proc \cup {None}]
        /\ \A k \in Inum : lock'[k] = IF k = Kept("created", 0, i) THEN p
                                      ELSE IF lock[k] = p THEN None ELSE lock[k]
    BY <1>1, <1>2, <1>3, <2>1, <2>4 DEF CacheType
  <2>7. 0 # i /\ Kept("created", 0, i) \in {0, i}
    BY <1>2, <1>3, <2>4
  <2>. HIDE DEF i
  <2>. QED
    BY <1>2, <1>4, <2>2, <2>4, <2>5, <2>6, <2>7, LoadStep
<1>7. CASE ~(call[p].op = "open" /\ Cur(i).type \in {"file", "device"})
  <2>1. Return(p, <<i>>) /\ UNCHANGED lock
    BY <1>7 DEF create_found
  <2>2. Step(p, "run", 0, 0, i, 0)
    BY <1>1, <1>2, <2>1, Moves DEF Step, PCs
  <2>3. pc'[p] = "run" /\ dp'[p] = 0 /\ ip'[p] = 0
    BY <1>1, <2>1 DEF Return, ProcType
  <2>4. /\ PtrRow(p)' /\ PinRow(p)' /\ (\A k \in Inum : Pins(p, k)' => Pins(p, k) \/ k = i)
        /\ Kept("run", 0, 0) = 0
    BY <1>2, <1>3, <1>4, <2>3 DEF PtrRow, PinRow, Pins, DirPCs, Kept
  <2>5. \A k \in Inum : ref'[k] = ref[k] + (Is(cwd'[p], k) + Is(0, k) + Is(0, k) + Is(i, k) + Is(0, k))
                                        - (Is(cwd[p], k) + Is(dp[p], k) + Is(ip[p], k))
    BY <1>2, <1>4, <1>5
  <2>6. /\ lock' \in [Inum -> Proc \cup {None}]
        /\ \A k \in Inum : lock'[k] = IF k = Kept("run", 0, 0) THEN p
                                      ELSE IF lock[k] = p THEN None ELSE lock[k]
    BY <1>1, <1>2, <1>3, <2>1, <2>4 DEF CacheType
  <2>7. Kept("run", 0, 0) \in {0, i}
    BY <2>4
  <2>. HIDE DEF i
  <2>. QED
    BY <1>2, <1>4, <2>2, <2>4, <2>5, <2>6, <2>7, LoadStep
<1>. QED
  BY <1>6, <1>7

\* An inode record with another link count.
WithLinks(r, m) == [r EXCEPT !.nlink = m]
\* It differs from the old one in nothing else.
LEMMA LinkRecord ==
    ASSUME NEW r \in Dinode, NEW m \in Int
    PROVE  /\ WithLinks(r, m) \in Dinode /\ WithLinks(r, m).type = r.type
           /\ WithLinks(r, m).size = r.size /\ WithLinks(r, m).direct = r.direct
           /\ WithLinks(r, m).indirect = r.indirect
  BY DEF Dinode, WithLinks

\* create() of a new inode: its links, its entries and the parent's, with both
\* locked.
LEMMA create_newInv ==
    ASSUME IInv, NEW p \in Proc, create_new(p)
    PROVE  IInv'
<1>. DEFINE i == ip[p]
            d == dp[p]
            r == [Cur(i) EXCEPT !.nlink = 1]
            dr == IF r.type = "dir" THEN [inode[d] EXCEPT !.nlink = @ + 1] ELSE inode[d]
            dots == IF r.type = "dir" THEN [ents[i] EXCEPT !["."] = i, ![".."] = d] ELSE ents[i]
<1>1. /\ DiskType /\ CacheType /\ ProcType /\ FileType /\ RestType
      /\ PtrRow(p) /\ PinRow(p) /\ LockInv
  BY Parts DEF PtrInv, PinInv
<1>2. /\ pc[p] = "create_new" /\ puts[p] = <<>> /\ ~panicked
      /\ i \in Inum /\ lock[i] = None /\ d \in Inum /\ lock[d] = p /\ i # d
      /\ cwd[p] # 0 /\ path[p] # <<>>
  BY <1>1, InodeAssumption DEF create_new, At, Free, PtrRow, ProcType, LockInv, Holds
<1>3. \A k \in Inum : k # 0 /\ (lock[k] = p => k = d)
  BY <1>1, <1>2 DEF LockInv, Holds, Iputting, Inum
<1>4. /\ Cur(i) = dinode[i] /\ (valid[i] => Copy(i)) /\ Copy(d) /\ valid[d]
  BY <1>2, CacheFacts, InodeAssumption
<1>5. /\ inode' = [inode EXCEPT ![i] = r, ![d] = dr]
      /\ dinode' = [dinode EXCEPT ![i] = r, ![d] = dr]
      /\ ents' = [dirlink(d, Name1(p), i) EXCEPT ![i] = dots]
      /\ valid' = Loaded(i) /\ panicked' = NoType(i)
      /\ lock' = [iunlock(d) EXCEPT ![i] = p]
      /\ dp' = [dp EXCEPT ![p] = 0] /\ Put(p, <<d>>)
      /\ pc' = [pc EXCEPT ![p] = "created"]
      /\ UNCHANGED <<used, ind, ref, call, path, ip, cwd, ofile, ends, file, calls, lost>>
  BY DEF create_new, Goto, filevars
<1>6. /\ r \in Dinode /\ r.type = dinode[i].type /\ r.size = dinode[i].size
      /\ r.direct = dinode[i].direct /\ r.indirect = dinode[i].indirect
  <2>1. r = WithLinks(dinode[i], 1) /\ dinode[i] \in Dinode
    BY <1>1, <1>2, <1>4 DEF DiskType, WithLinks
  <2>. HIDE DEF r
  <2>. QED
    BY <2>1, LinkRecord
<1>7. /\ dr \in Dinode /\ dr.type = dinode[d].type /\ dr.size = dinode[d].size
      /\ dr.direct = dinode[d].direct /\ dr.indirect = dinode[d].indirect
  <2>1. inode[d] = dinode[d] /\ dinode[d] \in Dinode /\ dinode[d].nlink + 1 \in Int
    BY <1>1, <1>2, <1>4 DEF Copy, DiskType, Dinode
  <2>2. dr = inode[d] \/ dr = WithLinks(inode[d], inode[d].nlink + 1)
    BY DEF WithLinks
  <2>. HIDE DEF dr
  <2>. QED
    BY <2>1, <2>2, LinkRecord
<1>8. dots \in [Entry -> Inum \cup {0}] /\ Name1(p) \in Entry
  <2>1. PICK e : e = ents[i] /\ e \in [Entry -> Inum \cup {0}]
    BY <1>1, <1>2 DEF DiskType
  <2>2. [e EXCEPT !["."] = i, ![".."] = d] \in [Entry -> Inum \cup {0}]
    BY <1>2, <2>1 DEF Entry
  <2>3. Name1(p) \in Entry
    BY <1>1, <1>2 DEF Name1, ProcType
  <2>4. dots = IF r.type = "dir" THEN [e EXCEPT !["."] = i, ![".."] = d] ELSE e
    BY <2>1
  <2>. HIDE DEF dots, r, i, d
  <2>. QED
    BY <2>1, <2>2, <2>3, <2>4
<1>. HIDE DEF r, dr, dots
<1>9. /\ dinode' \in [Inum -> Dinode] /\ inode' \in [Inum -> Dinode]
      /\ dinode'[i] = r /\ inode'[i] = r /\ dinode'[d] = dr /\ inode'[d] = dr
      /\ \A k \in Inum : k # i /\ k # d => dinode'[k] = dinode[k] /\ inode'[k] = inode[k]
  BY <1>1, <1>2, <1>5, <1>6, <1>7 DEF DiskType, CacheType
<1>10. ents' \in [Inum -> [Entry -> Inum \cup {0}]]
  BY <1>1, <1>2, <1>5, <1>8 DEF DiskType, dirlink
<1>11. /\ lock' \in [Inum -> Proc \cup {None}]
       /\ \A k \in Inum : lock'[k] = IF k = i THEN p ELSE IF k = d THEN None ELSE lock[k]
  BY <1>1, <1>2, <1>5 DEF CacheType, iunlock
<1>12. /\ valid' \in [Inum -> BOOLEAN] /\ valid'[i]
       /\ \A k \in Inum : k # i => valid'[k] = valid[k]
  BY <1>1, <1>2, <1>5, IlockFacts
<1>13. DiskType' /\ CacheType' /\ RestType' /\ cwd' \in [Proc -> Inum \cup {0}]
  <2>1. panicked' \in BOOLEAN
    BY <1>5 DEF NoType
  <2>. QED
    BY <1>1, <1>2, <1>5, <1>9, <1>10, <1>11, <1>12, <2>1 DEF DiskType, CacheType,
       RestType, FileType
<1>14. Step(p, "created", 0, i, d, 0)
  BY <1>1, <1>2, <1>5, PutEntries, Moves DEF Step, Move, PCs
<1>15. pc'[p] = "created" /\ dp'[p] = 0 /\ ip'[p] = i
  BY <1>1, <1>5 DEF ProcType
<1>16. \A k \in Inum : dinode'[k].type = dinode[k].type /\ SameBlocks(k)
  BY <1>5, <1>6, <1>7, <1>9 DEF SameBlocks
<1>17. /\ PtrRow(p)' /\ PinRow(p)' /\ (\A k \in Inum : Pins(p, k)' => Pins(p, k))
       /\ Kept("created", 0, i) = i
  BY <1>1, <1>2, <1>3, <1>5, <1>15, <1>16 DEF PtrRow, PinRow, Pins, DirPCs, Kept
<1>18. \A k \in Inum : ref'[k] = ref[k] + (Is(cwd'[p], k) + Is(0, k) + Is(i, k) + Is(d, k) + Is(0, k))
                                        - (Is(cwd[p], k) + Is(dp[p], k) + Is(ip[p], k))
  <2>1. \A k \in Inum : ref[k] \in Nat /\ Is(0, k) = 0 /\ \A x : Is(x, k) \in {0, 1}
    BY <1>1, <1>3 DEF Is, CacheType
  <2>. QED
    BY <1>5, <2>1
<1>19. ASSUME NEW k \in Inum
       PROVE  /\ lock'[k] # None => valid'[k]
              /\ valid'[k] => Copy(k)' \/ (valid[k] /\ ~Copy(k))
  <2>1. lock[k] # None => valid[k]
    BY CacheFacts
  <2>2. CASE k = i
    <3>1. dinode[i].type # "none" \/ panicked'
      BY <1>2, <1>4, <1>5 DEF Copy, NoType
    <3>. QED
      BY <1>6, <1>9, <1>12, <2>2, <3>1 DEF Copy
  <2>3. CASE k = d
    <3>1. dinode[d].type # "none"
      BY <1>2, <1>4 DEF Copy
    <3>. QED
      BY <1>2, <1>4, <1>7, <1>9, <1>11, <2>3, <3>1 DEF Copy
  <2>4. CASE k # i /\ k # d
    <3>1. lock'[k] # None => valid'[k]
      BY <1>11, <1>12, <2>1, <2>4
    <3>2. valid'[k] => valid[k]
      BY <1>12, <2>4
    <3>3. Copy(k) => Copy(k)'
      BY <1>2, <1>9, <2>4 DEF Copy
    <3>. QED
      BY <3>1, <3>2, <3>3
  <2>. QED
    BY <2>2, <2>3, <2>4
<1>20. \A k \in Inum : lock'[k] = IF k = Kept("created", 0, i) THEN p
                                  ELSE IF lock[k] = p THEN None ELSE lock[k]
  BY <1>2, <1>3, <1>11, <1>17
<1>21. /\ UNCHANGED <<file, ofile, ends, used, ind>> /\ \A q \in Proc : q # p => cwd'[q] = cwd[q]
       /\ d # i /\ lock[Kept("created", 0, i)] \in {None, p}
  BY <1>2, <1>5, <1>17
<1>. HIDE DEF i, d
<1>. QED
  BY <1>2, <1>13, <1>14, <1>16, <1>17, <1>18, <1>19, <1>20, <1>21, CallStep

\* The cache as it was.
LEMMA KeepCache ==
    ASSUME IInv, UNCHANGED <<dinode, inode, valid, panicked>>,
           \A k \in Inum : lock'[k] # None => lock[k] # None
    PROVE  /\ \A k \in Inum : /\ lock'[k] # None => valid'[k]
                              /\ valid'[k] => Copy(k)' \/ (valid[k] /\ ~Copy(k))
           /\ \A k \in Inum : dinode'[k].type = dinode[k].type /\ SameBlocks(k)
<1>1. ASSUME NEW k \in Inum
      PROVE  lock'[k] # None => valid'[k]
  BY CacheFacts
<1>2. ASSUME NEW k \in Inum
      PROVE  valid'[k] => Copy(k)' \/ (valid[k] /\ ~Copy(k))
  BY DEF Copy
<1>3. ASSUME NEW k \in Inum
      PROVE  dinode'[k].type = dinode[k].type /\ SameBlocks(k)
  BY DEF SameBlocks
<1>. QED
  BY <1>1, <1>2, <1>3

\* The inode that create() or open() has locked.
LEMMA CreatedFacts ==
    ASSUME IInv, NEW p \in Proc, At(p, "created") \/ At(p, "unlinked")
    PROVE  /\ puts[p] = <<>> /\ ~panicked /\ pc[p] \in {"created", "unlinked"}
           /\ ip[p] \in Inum /\ lock[ip[p]] = p /\ Copy(ip[p]) /\ dp[p] = 0 /\ cwd[p] # 0
           /\ \A k \in Inum : k # 0 /\ (lock[k] = p => k = ip[p])
           /\ \A k \in Inum : ref[k] \in Nat /\ Is(0, k) = 0 /\ \A x : Is(x, k) \in {0, 1}
<1>1. ProcType /\ CacheType /\ PtrRow(p) /\ LockInv
  BY Parts DEF PtrInv
<1>2. /\ puts[p] = <<>> /\ ~panicked /\ pc[p] \in {"created", "unlinked"}
      /\ ip[p] \in Inum /\ dp[p] = 0 /\ cwd[p] # 0
  BY <1>1 DEF At, PtrRow, ProcType
<1>3. lock[ip[p]] = p /\ \A k \in Inum : k # 0 /\ (lock[k] = p => k = ip[p])
  BY <1>1, <1>2 DEF LockInv, Holds, Iputting, Inum
<1>4. Copy(ip[p])
  BY <1>2, <1>3, CacheFacts
<1>5. \A k \in Inum : ref[k] \in Nat /\ Is(0, k) = 0 /\ \A x : Is(x, k) \in {0, 1}
  BY <1>1, <1>3 DEF Is, CacheType
<1>. QED
  BY <1>2, <1>3, <1>4, <1>5

\* It is unlocked as the call returns with its iput().
LEMMA ReturnUnlocked ==
    ASSUME IInv, NEW p \in Proc, At(p, "created") \/ At(p, "unlinked"),
           lock' = iunlock(ip[p]), Return(p, <<ip[p]>>), UNCHANGED <<ref, cwd, ofile>>
    PROVE  /\ Step(p, "run", 0, 0, ip[p], 0) /\ PtrRow(p)' /\ PinRow(p)'
           /\ \A k \in Inum : ~Pins(p, k)'
           /\ lock' \in [Inum -> Proc \cup {None}]
           /\ Kept("run", 0, 0) = 0
           /\ \A k \in Inum : /\ lock'[k] = IF k = Kept("run", 0, 0) THEN p
                                            ELSE IF lock[k] = p THEN None ELSE lock[k]
                              /\ lock'[k] # None => lock[k] # None
           /\ \A k \in Inum : ref'[k] = ref[k] + (Is(cwd'[p], k) + Is(0, k) + Is(0, k) + Is(ip[p], k) + Is(0, k))
                                        - (Is(cwd[p], k) + Is(dp[p], k) + Is(ip[p], k))
<1>1. ProcType /\ CacheType
  BY Parts
<1>2. /\ puts[p] = <<>> /\ ~panicked /\ ip[p] \in Inum /\ lock[ip[p]] = p /\ dp[p] = 0 /\ cwd[p] # 0
      /\ \A k \in Inum : k # 0 /\ (lock[k] = p => k = ip[p])
      /\ \A k \in Inum : ref[k] \in Nat /\ Is(0, k) = 0 /\ \A x : Is(x, k) \in {0, 1}
  BY CreatedFacts
<1>3. Step(p, "run", 0, 0, ip[p], 0)
  BY <1>1, <1>2, Moves DEF Step, PCs
<1>4. pc'[p] = "run" /\ dp'[p] = 0 /\ ip'[p] = 0
  BY <1>1 DEF Return, ProcType
<1>5. /\ PtrRow(p)' /\ PinRow(p)' /\ (\A k \in Inum : ~Pins(p, k)') /\ Kept("run", 0, 0) = 0
  BY <1>2, <1>4 DEF PtrRow, PinRow, Pins, DirPCs, Kept
<1>6. /\ lock' \in [Inum -> Proc \cup {None}]
      /\ \A k \in Inum : /\ lock'[k] = IF k = Kept("run", 0, 0) THEN p
                                       ELSE IF lock[k] = p THEN None ELSE lock[k]
                         /\ lock'[k] # None => lock[k] # None
  BY <1>1, <1>2, <1>5 DEF CacheType, iunlock
<1>7. \A k \in Inum : ref'[k] = ref[k] + (Is(cwd'[p], k) + Is(0, k) + Is(0, k) + Is(ip[p], k) + Is(0, k))
                                        - (Is(cwd[p], k) + Is(dp[p], k) + Is(ip[p], k))
  BY <1>2
<1>. QED
  BY <1>3, <1>5, <1>6, <1>7

\* mkdir() and mknod() unlock and put what create() returned.
LEMMA sys_mkdirInv ==
    ASSUME IInv, NEW p \in Proc, sys_mkdir(p)
    PROVE  IInv'
<1>1. DiskType /\ CacheType /\ FileType /\ RestType
  BY Parts
<1>2. /\ At(p, "created") /\ lock' = iunlock(ip[p]) /\ Return(p, <<ip[p]>>)
      /\ UNCHANGED <<dinode, ents, used, ind, inode, ref, valid, panicked>>
      /\ UNCHANGED <<cwd, ofile, ends, file, calls, lost>>
  BY DEF sys_mkdir, diskvars, filevars
<1>3. pc[p] = "created"
  BY <1>2 DEF At
<1>4. /\ Step(p, "run", 0, 0, ip[p], 0) /\ PtrRow(p)' /\ PinRow(p)'
      /\ \A k \in Inum : ~Pins(p, k)'
      /\ lock' \in [Inum -> Proc \cup {None}]
      /\ Kept("run", 0, 0) = 0
      /\ \A k \in Inum : /\ lock'[k] = IF k = Kept("run", 0, 0) THEN p
                                       ELSE IF lock[k] = p THEN None ELSE lock[k]
                         /\ lock'[k] # None => lock[k] # None
      /\ \A k \in Inum : ref'[k] = ref[k] + (Is(cwd'[p], k) + Is(0, k) + Is(0, k) + Is(ip[p], k) + Is(0, k))
                                   - (Is(cwd[p], k) + Is(dp[p], k) + Is(ip[p], k))
  BY <1>2, ReturnUnlocked
<1>5. DiskType' /\ CacheType' /\ RestType' /\ cwd' \in [Proc -> Inum \cup {0}]
  BY <1>1, <1>2, <1>4 DEF DiskType, CacheType, RestType, FileType
<1>6. /\ \A k \in Inum : /\ lock'[k] # None => valid'[k]
                         /\ valid'[k] => Copy(k)' \/ (valid[k] /\ ~Copy(k))
      /\ \A k \in Inum : dinode'[k].type = dinode[k].type /\ SameBlocks(k)
  BY <1>2, <1>4, KeepCache
<1>. QED
  BY <1>2, <1>3, <1>4, <1>5, <1>6, CallStep

\* What namei() returned.
LEMMA NameiFacts ==
    ASSUME IInv, NEW p \in Proc, NEW op, op # "none", Namei(p, op)
    PROVE  /\ pc[p] = "walk" /\ puts[p] = <<>> /\ ~panicked /\ call[p].op = op
           /\ call[p] \in Calls
           /\ dp[p] \in Inum /\ lock[dp[p]] = None /\ ref[dp[p]] >= 1
           /\ Cur(dp[p]) = dinode[dp[p]] /\ dinode[dp[p]] \in Dinode
           /\ ip[p] = 0 /\ cwd[p] # 0
           /\ \A j \in Inum : lock[j] # p /\ j # 0
           /\ \A k \in Inum : ref[k] \in Nat /\ Is(0, k) = 0 /\ \A x : Is(x, k) \in {0, 1}
<1>1. DiskType /\ CacheType /\ ProcType /\ PtrRow(p)
  BY Parts DEF PtrInv
<1>2. /\ pc[p] = "walk" /\ puts[p] = <<>> /\ ~panicked /\ call[p].op = op
      /\ dp[p] \in Inum /\ lock[dp[p]] = None /\ cwd[p] # 0
      /\ ip[p] = 0 /\ dinode[dp[p]] \in Dinode
  BY <1>1 DEF Namei, At, Free, PtrRow, Parent, ProcType, DiskType
<1>3. call[p] \in Calls
  BY <1>1, <1>2 DEF ProcType, NoCall
<1>4. Cur(dp[p]) = dinode[dp[p]] /\ ref[dp[p]] >= 1
  BY <1>2, CacheFacts
<1>5. \A j \in Inum : lock[j] # p /\ j # 0
  BY <1>2, Unlocked
<1>6. \A k \in Inum : ref[k] \in Nat /\ Is(0, k) = 0 /\ \A x : Is(x, k) \in {0, 1}
  BY <1>1, <1>5 DEF Is, CacheType
<1>. QED
  BY <1>2, <1>3, <1>4, <1>5, <1>6

\* The call returns with the iput() of the inode dp[p], which it only read.
LEMMA ReturnLoaded ==
    ASSUME IInv, NEW p \in Proc, pc[p] \in {"walk", "parent"}, puts[p] = <<>>, ~panicked,
           Return(p, <<dp[p]>>), UNCHANGED <<dinode, ents, used, ind, ref, lock>>,
           UNCHANGED <<cwd, ofile, ends, file, calls, lost>>, ip[p] = 0, cwd[p] # 0,
           lock[dp[p]] = None, inode' = ilock(dp[p]), valid' = Loaded(dp[p]),
           panicked' \in BOOLEAN, NoType(dp[p]) => panicked'
    PROVE  IInv'
<1>. DEFINE i == dp[p]
<1>1. DiskType /\ CacheType /\ ProcType /\ FileType /\ RestType /\ PtrRow(p)
  BY Parts DEF PtrInv
<1>2. i \in Inum
  BY <1>1 DEF PtrRow, ProcType
<1>3. \A k \in Inum : lock[k] # p /\ k # 0
  BY <1>2, Unlocked
<1>4. Step(p, "run", 0, 0, i, 0)
  BY <1>1, <1>2, Moves DEF Step, PCs
<1>5. pc'[p] = "run" /\ dp'[p] = 0 /\ ip'[p] = 0
  BY <1>1 DEF Return, ProcType
<1>6. /\ PtrRow(p)' /\ PinRow(p)' /\ (\A k \in Inum : Pins(p, k)' => Pins(p, k) \/ k = i)
      /\ Kept("run", 0, 0) = 0 /\ Kept("run", 0, 0) \in {0, i}
  BY <1>3, <1>5 DEF PtrRow, PinRow, Pins, DirPCs, Kept
<1>7. \A k \in Inum : ref'[k] = ref[k] + (Is(cwd'[p], k) + Is(0, k) + Is(0, k) + Is(i, k) + Is(0, k))
                                        - (Is(cwd[p], k) + Is(dp[p], k) + Is(ip[p], k))
  BY <1>1, <1>3 DEF Is, CacheType
<1>8. /\ DiskType' /\ RestType' /\ ref' \in [Inum -> Nat] /\ lock' \in [Inum -> Proc \cup {None}]
      /\ cwd' \in [Proc -> Inum \cup {0}] /\ \A q \in Proc : q # p => cwd'[q] = cwd[q]
      /\ pc[p] \notin {"pipealloc", "pipe"}
  BY <1>1 DEF DiskType, CacheType, RestType, FileType
<1>9. \A k \in Inum : lock'[k] = IF k = Kept("run", 0, 0) THEN p
                                 ELSE IF lock[k] = p THEN None ELSE lock[k]
  BY <1>3, <1>6
<1>. HIDE DEF i
<1>10. lock[i] = None /\ inode' = ilock(i) /\ valid' = Loaded(i) /\ (NoType(i) => panicked')
  BY DEF i
<1>. QED
  BY <1>2, <1>4, <1>6, <1>7, <1>8, <1>9, <1>10, LoadStep

\* open() of a path that was there: the inode locked and its type tested.
LEMMA sys_openInv ==
    ASSUME IInv, NEW p \in Proc, sys_open(p)
    PROVE  IInv'
<1>. DEFINE i == dp[p]
<1>1. DiskType /\ CacheType /\ ProcType /\ FileType /\ RestType
  BY Parts
<1>2. /\ pc[p] = "walk" /\ puts[p] = <<>> /\ ~panicked /\ call[p].op = "open"
      /\ i \in Inum /\ lock[i] = None /\ ip[p] = 0 /\ cwd[p] # 0
      /\ \A j \in Inum : lock[j] # p /\ j # 0
      /\ \A k \in Inum : ref[k] \in Nat /\ Is(0, k) = 0 /\ \A x : Is(x, k) \in {0, 1}
  BY NameiFacts DEF sys_open
<1>3. /\ UNCHANGED <<dinode, ents, used, ind, ref, cwd, ofile, ends, file, calls, lost>>
      /\ inode' = ilock(i) /\ valid' = Loaded(i) /\ panicked' = NoType(i)
      /\ panicked' \in BOOLEAN
  BY DEF sys_open, diskvars, filevars, NoType
<1>4. CASE Cur(i).type = "dir" /\ call[p].mode # "rdonly"
  <2>1. Return(p, <<i>>) /\ UNCHANGED lock
    BY <1>4 DEF sys_open
  <2>. QED
    BY <1>2, <1>3, <2>1, ReturnLoaded
<1>5. CASE ~(Cur(i).type = "dir" /\ call[p].mode # "rdonly")
  <2>1. /\ lock' = [lock EXCEPT ![i] = p] /\ ip' = [ip EXCEPT ![p] = i]
        /\ dp' = [dp EXCEPT ![p] = 0] /\ pc' = [pc EXCEPT ![p] = "created"]
        /\ UNCHANGED <<puts, call, path>>
    BY <1>5 DEF sys_open, Goto
  <2>2. Step(p, "created", 0, i, 0, 0)
    BY <1>1, <1>2, <2>1, Moves DEF Step, Move, PCs
  <2>3. pc'[p] = "created" /\ dp'[p] = 0 /\ ip'[p] = i
    BY <1>1, <2>1 DEF ProcType
  <2>4. /\ PtrRow(p)' /\ PinRow(p)' /\ (\A k \in Inum : ~Pins(p, k)')
        /\ Kept("created", 0, i) = i /\ 0 # i
    BY <1>2, <1>3, <2>1, <2>3 DEF PtrRow, PinRow, Pins, DirPCs, Kept
  <2>5. \A k \in Inum : ref'[k] = ref[k] + (Is(cwd'[p], k) + Is(0, k) + Is(i, k) + Is(0, k) + Is(0, k))
                                        - (Is(cwd[p], k) + Is(dp[p], k) + Is(ip[p], k))
    BY <1>2, <1>3
  <2>6. /\ lock' \in [Inum -> Proc \cup {None}]
        /\ \A k \in Inum : lock'[k] = IF k = Kept("created", 0, i) THEN p
                                      ELSE IF lock[k] = p THEN None ELSE lock[k]
    BY <1>1, <1>2, <2>1, <2>4 DEF CacheType
  <2>7. /\ DiskType' /\ RestType' /\ ref' \in [Inum -> Nat]
        /\ cwd' \in [Proc -> Inum \cup {0}] /\ \A q \in Proc : q # p => cwd'[q] = cwd[q]
    BY <1>1, <1>3 DEF DiskType, CacheType, RestType, FileType
  <2>8. /\ pc[p] \notin {"pipealloc", "pipe"} /\ i \in Inum /\ lock[i] = None
        /\ Kept("created", 0, i) \in {0, i}
        /\ \A k \in Inum : Pins(p, k)' => Pins(p, k) \/ k = i
    BY <1>2, <2>4
  <2>. HIDE DEF i
  <2>. QED
    BY <1>3, <2>2, <2>4, <2>5, <2>6, <2>7, <2>8, LoadStep
<1>. QED
  BY <1>4, <1>5

-----------------------------------------------------------------------------
(***************************************************************************)
(* unlink(), link() and chdir().                                           *)
(***************************************************************************)
LEMMA sys_unlinkInv ==
    ASSUME IInv, NEW p \in Proc, sys_unlink(p)
    PROVE  IInv'
<1>. DEFINE d == dp[p]
            j == ents[d][Name1(p)]
<1>1. /\ DiskType /\ CacheType /\ ProcType /\ FileType /\ RestType
      /\ PtrRow(p) /\ PinRow(p)
  BY Parts DEF PtrInv, PinInv
<1>2. /\ pc[p] = "parent" /\ puts[p] = <<>> /\ ~panicked
      /\ d \in Inum /\ lock[d] = None /\ ref[d] >= 1 /\ ~NoType(d)
      /\ ip[p] = 0 /\ call[p].op # "link" /\ j \in Inum \cup {0} /\ path[p] # <<>> /\ cwd[p] # 0
      /\ \A k \in Inum : lock[k] # p /\ k # 0
  BY ParentFacts DEF sys_unlink
<1>3. /\ UNCHANGED <<dinode, ents, used, ind, panicked, cwd, ofile, ends, file, calls, lost>>
      /\ inode' = ilock(d)
  BY DEF sys_unlink, filevars, diskvars
<1>4. CASE j = 0 \/ Name1(p) \in {".", ".."}
  <2>1. Return(p, <<d>>) /\ valid' = Loaded(d) /\ UNCHANGED <<ref, lock>>
    BY <1>4 DEF sys_unlink, dirlookup
  <2>2. panicked' \in BOOLEAN
    BY <1>1, <1>3 DEF CacheType
  <2>. HIDE DEF j
  <2>. QED
    BY <1>2, <1>3, <2>1, <2>2, ReturnLoaded
<1>5. CASE ~(j = 0 \/ Name1(p) \in {".", ".."})
  <2>1. /\ ref' = iget_ref(j) /\ valid' = iget_valid(Loaded(d), j)
        /\ lock' = [lock EXCEPT ![d] = p] /\ ip' = [ip EXCEPT ![p] = j]
        /\ pc' = [pc EXCEPT ![p] = "unlink"] /\ UNCHANGED <<puts, call, path, dp>>
    BY <1>5 DEF sys_unlink, dirlookup, Goto
  <2>2. j \in Inum
    BY <1>2, <1>5
  <2>3. \E s \in Inum : valid' = iget_valid(Loaded(d), s) /\ ref[d] >= 1
    BY <1>2, <2>1, <2>2
  <2>. HIDE DEF j
  <2>4. Step(p, "unlink", d, j, 0, 0)
    BY <1>1, <1>2, <2>1, <2>2, Moves DEF Step, Move, PCs
  <2>5. pc'[p] = "unlink" /\ dp'[p] = d /\ ip'[p] = j
    BY <1>1, <2>1 DEF ProcType
  <2>6. /\ PtrRow(p)' /\ PinRow(p)' /\ (\A k \in Inum : Pins(p, k)' => Pins(p, k) \/ k = d)
        /\ Kept("unlink", d, j) = d
    BY <1>1, <1>2, <1>3, <2>1, <2>2, <2>5 DEF PtrRow, PinRow, Pins, DirPCs, Kept
  <2>7. ref' \in [Inum -> Nat] /\ \A k \in Inum : ref'[k] = ref[k] + Is(j, k)
    BY <1>1, <2>1, <2>2, IgetFacts
  <2>8. \A k \in Inum : ref'[k] = ref[k] + (Is(cwd'[p], k) + Is(d, k) + Is(j, k) + Is(0, k) + Is(0, k))
                                        - (Is(cwd[p], k) + Is(dp[p], k) + Is(ip[p], k))
    BY <1>1, <1>2, <1>3, <2>7 DEF Is, CacheType
  <2>9. /\ lock' \in [Inum -> Proc \cup {None}]
        /\ \A k \in Inum : lock'[k] = IF k = Kept("unlink", d, j) THEN p
                                      ELSE IF lock[k] = p THEN None ELSE lock[k]
    BY <1>1, <1>2, <2>1, <2>6 DEF CacheType
  <2>10. /\ DiskType' /\ RestType' /\ panicked' \in BOOLEAN
         /\ cwd' \in [Proc -> Inum \cup {0}] /\ \A q \in Proc : q # p => cwd'[q] = cwd[q]
    BY <1>1, <1>3 DEF DiskType, CacheType, RestType, FileType
  <2>11. /\ pc[p] \notin {"pipealloc", "pipe"} /\ Kept("unlink", d, j) \in {0, d}
         /\ d \in Inum /\ lock[d] = None /\ ~NoType(d)
    BY <1>2, <2>6
  <2>. HIDE DEF d
  <2>. QED
    BY <1>3, <2>3, <2>4, <2>6, <2>7, <2>8, <2>9, <2>10, <2>11, LoadStep
<1>. QED
  BY <1>4, <1>5

\* unlink() of the entry it found: the entry erased and the links counted down,
\* with the parent and the inode locked.
LEMMA unlink_entryInv ==
    ASSUME IInv, NEW p \in Proc, unlink_entry(p)
    PROVE  IInv'
<1>. DEFINE i == ip[p]
            d == dp[p]
            isdir == Cur(i).type = "dir"
            dr == IF isdir THEN [inode[d] EXCEPT !.nlink = @ - 1] ELSE inode[d]
<1>1. /\ DiskType /\ CacheType /\ ProcType /\ FileType /\ RestType
      /\ PtrRow(p) /\ PinRow(p) /\ LockInv
  BY Parts DEF PtrInv, PinInv
<1>2. /\ pc[p] = "unlink" /\ puts[p] = <<>> /\ ~panicked
      /\ i \in Inum /\ lock[i] = None /\ d \in Inum /\ lock[d] = p /\ i # d
      /\ cwd[p] # 0 /\ path[p] # <<>>
  BY <1>1, InodeAssumption DEF unlink_entry, At, Free, PtrRow, ProcType, LockInv, Holds
<1>3. \A k \in Inum : k # 0 /\ (lock[k] = p => k = d)
  BY <1>1, <1>2 DEF LockInv, Holds, Iputting, Inum
<1>4. /\ Cur(i) = dinode[i] /\ (valid[i] => Copy(i)) /\ Copy(d) /\ valid[d]
  BY <1>2, CacheFacts, InodeAssumption
<1>5. /\ panicked' = (NoType(i) \/ Cur(i).nlink < 1) /\ panicked' \in BOOLEAN
      /\ valid' = Loaded(i)
      /\ UNCHANGED <<used, ind, ref, cwd, ofile, ends, file, calls, lost>>
      /\ RestType' /\ ref' \in [Inum -> Nat]
      /\ cwd' \in [Proc -> Inum \cup {0}] /\ \A q \in Proc : q # p => cwd'[q] = cwd[q]
  BY <1>1 DEF unlink_entry, filevars, RestType, FileType, CacheType
<1>6. \A k \in Inum : ref[k] \in Nat /\ Is(0, k) = 0 /\ \A x : Is(x, k) \in {0, 1}
  BY <1>1, <1>3 DEF Is, CacheType
<1>7. CASE isdir /\ ~isdirempty(i)
  <2>1. /\ inode' = ilock(i) /\ lock' = iunlock(d) /\ Return(p, <<i, d>>)
        /\ UNCHANGED <<dinode, ents>>
    BY <1>7 DEF unlink_entry
  <2>2. Step(p, "run", 0, 0, i, d)
    BY <1>1, <1>2, <1>3, <2>1, Moves DEF Step, PCs
  <2>3. pc'[p] = "run" /\ dp'[p] = 0 /\ ip'[p] = 0
    BY <1>1, <2>1 DEF Return, ProcType
  <2>4. /\ PtrRow(p)' /\ PinRow(p)' /\ (\A k \in Inum : Pins(p, k)' => Pins(p, k) \/ k = i)
        /\ Kept("run", 0, 0) = 0 /\ Kept("run", 0, 0) \in {0, i}
    BY <1>2, <1>3, <1>5, <2>3 DEF PtrRow, PinRow, Pins, DirPCs, Kept
  <2>5. \A k \in Inum : ref'[k] = ref[k] + (Is(cwd'[p], k) + Is(0, k) + Is(0, k) + Is(i, k) + Is(d, k))
                                        - (Is(cwd[p], k) + Is(dp[p], k) + Is(ip[p], k))
    BY <1>5, <1>6
  <2>6. /\ lock' \in [Inum -> Proc \cup {None}]
        /\ \A k \in Inum : lock'[k] = IF k = Kept("run", 0, 0) THEN p
                                      ELSE IF lock[k] = p THEN None ELSE lock[k]
    BY <1>1, <1>2, <1>3, <2>1, <2>4 DEF CacheType, iunlock
  <2>7. DiskType' /\ (NoType(i) => panicked') /\ UNCHANGED <<dinode, used, ind, file, ofile, ends>>
    BY <1>1, <1>5, <2>1 DEF DiskType
  <2>8. i \in Inum /\ lock[i] = None /\ pc[p] \notin {"pipealloc", "pipe"}
    BY <1>2
  <2>. HIDE DEF i, d, isdir, dr
  <2>. QED
    BY <1>5, <2>1, <2>2, <2>4, <2>5, <2>6, <2>7, <2>8, LoadStep
<1>8. CASE ~(isdir /\ ~isdirempty(i))
  <2>1. /\ inode' = [inode EXCEPT ![i] = Cur(i), ![d] = dr]
        /\ dinode' = [dinode EXCEPT ![d] = dr]
        /\ ents' = [ents EXCEPT ![d][Name1(p)] = 0]
        /\ lock' = [iunlock(d) EXCEPT ![i] = p]
        /\ dp' = [dp EXCEPT ![p] = 0]
        /\ Put(p, <<d>>) /\ pc' = [pc EXCEPT ![p] = "unlinked"] /\ UNCHANGED <<call, path, ip>>
    BY <1>8 DEF unlink_entry, Goto
  <2>2. /\ dr \in Dinode /\ dr.type = dinode[d].type /\ dr.size = dinode[d].size
        /\ dr.direct = dinode[d].direct /\ dr.indirect = dinode[d].indirect
    <3>1. inode[d] = dinode[d] /\ dinode[d] \in Dinode /\ dinode[d].nlink - 1 \in Int
      BY <1>1, <1>2, <1>4 DEF Copy, DiskType, Dinode
    <3>2. dr = inode[d] \/ dr = WithLinks(inode[d], inode[d].nlink - 1)
      BY DEF WithLinks
    <3>. HIDE DEF dr
    <3>. QED
      BY <3>1, <3>2, LinkRecord
  <2>. HIDE DEF dr, isdir
  <2>3. /\ dinode' \in [Inum -> Dinode] /\ inode' \in [Inum -> Dinode]
        /\ inode'[i] = dinode[i] /\ dinode'[d] = dr /\ inode'[d] = dr
        /\ \A k \in Inum : k # d => dinode'[k] = dinode[k]
        /\ \A k \in Inum : k # i /\ k # d => inode'[k] = inode[k]
    BY <1>1, <1>2, <1>4, <2>1, <2>2 DEF DiskType, CacheType
  <2>4. Name1(p) \in Entry
    BY <1>1, <1>2 DEF Name1, ProcType
  <2>5. ents' \in [Inum -> [Entry -> Inum \cup {0}]]
    BY <1>1, <1>2, <2>1, <2>4 DEF DiskType
  <2>6. /\ lock' \in [Inum -> Proc \cup {None}]
        /\ \A k \in Inum : lock'[k] = IF k = i THEN p ELSE IF k = d THEN None ELSE lock[k]
    BY <1>1, <1>2, <2>1 DEF CacheType, iunlock
  <2>7. /\ valid' \in [Inum -> BOOLEAN] /\ valid'[i]
        /\ \A k \in Inum : k # i => valid'[k] = valid[k]
    BY <1>1, <1>2, <1>5, IlockFacts
  <2>8. DiskType' /\ CacheType'
    BY <1>1, <1>5, <2>3, <2>5, <2>6, <2>7 DEF DiskType, CacheType
  <2>9. Step(p, "unlinked", 0, i, d, 0)
    BY <1>1, <1>2, <2>1, PutEntries, Moves DEF Step, Move, PCs
  <2>10. pc'[p] = "unlinked" /\ dp'[p] = 0 /\ ip'[p] = i
    BY <1>1, <2>1 DEF ProcType
  <2>11. \A k \in Inum : dinode'[k].type = dinode[k].type /\ SameBlocks(k)
    BY <2>2, <2>3 DEF SameBlocks
  <2>12. /\ PtrRow(p)' /\ PinRow(p)' /\ (\A k \in Inum : Pins(p, k)' => Pins(p, k))
         /\ Kept("unlinked", 0, i) = i
    BY <1>1, <1>2, <1>3, <1>5, <2>1, <2>10, <2>11 DEF PtrRow, PinRow, Pins, DirPCs, Kept
  <2>13. \A k \in Inum : ref'[k] = ref[k] + (Is(cwd'[p], k) + Is(0, k) + Is(i, k) + Is(d, k) + Is(0, k))
                                        - (Is(cwd[p], k) + Is(dp[p], k) + Is(ip[p], k))
    BY <1>5, <1>6
  <2>14. ASSUME NEW k \in Inum
         PROVE  /\ lock'[k] # None => valid'[k]
                /\ valid'[k] => Copy(k)' \/ (valid[k] /\ ~Copy(k))
    <3>1. lock[k] # None => valid[k]
      BY CacheFacts
    <3>2. CASE k = i
      <4>1. dinode[i].type # "none" \/ panicked'
        BY <1>2, <1>4, <1>5 DEF Copy, NoType
      <4>. QED
        BY <1>2, <2>3, <2>7, <3>2, <4>1 DEF Copy
    <3>3. CASE k = d
      <4>1. dinode[d].type # "none"
        BY <1>2, <1>4 DEF Copy
      <4>. QED
        BY <1>2, <1>4, <2>2, <2>3, <2>6, <3>3, <4>1 DEF Copy
    <3>4. CASE k # i /\ k # d
      <4>1. lock'[k] # None => valid'[k]
        BY <2>6, <2>7, <3>1, <3>4
      <4>2. valid'[k] => valid[k]
        BY <2>7, <3>4
      <4>3. Copy(k) => Copy(k)'
        BY <1>2, <2>3, <3>4 DEF Copy
      <4>. QED
        BY <4>1, <4>2, <4>3
    <3>. QED
      BY <3>2, <3>3, <3>4
  <2>15. \A k \in Inum : lock'[k] = IF k = Kept("unlinked", 0, i) THEN p
                                    ELSE IF lock[k] = p THEN None ELSE lock[k]
    BY <1>2, <1>3, <2>6, <2>12
  <2>16. UNCHANGED <<file, ofile, ends, used, ind>> /\ d # i /\ lock[Kept("unlinked", 0, i)] \in {None, p}
    BY <1>2, <1>5, <2>12
  <2>. HIDE DEF i, d
  <2>. QED
    BY <1>2, <1>5, <2>8, <2>9, <2>11, <2>12, <2>13, <2>14, <2>15, <2>16, CallStep
<1>. QED
  BY <1>7, <1>8

\* A new link count for one inode.
LEMMA WriteLinks ==
    ASSUME IInv, NEW i \in Inum, NEW m \in Int, NEW r, r = WithLinks(dinode[i], m), Write(i, r),
           ~panicked, dinode[i].type # "none" \/ panicked'
    PROVE  /\ dinode' \in [Inum -> Dinode] /\ inode' \in [Inum -> Dinode]
           /\ \A k \in Inum : dinode'[k].type = dinode[k].type /\ SameBlocks(k)
           /\ \A k \in Inum : k = i \/ Copy(k) => Copy(k)'
<1>1. dinode \in [Inum -> Dinode] /\ inode \in [Inum -> Dinode]
  BY Parts DEF DiskType, CacheType
<1>2. /\ r \in Dinode /\ r.type = dinode[i].type /\ r.size = dinode[i].size
      /\ r.direct = dinode[i].direct /\ r.indirect = dinode[i].indirect
  BY <1>1, LinkRecord
<1>3. /\ dinode' \in [Inum -> Dinode] /\ inode' \in [Inum -> Dinode]
      /\ dinode'[i] = r /\ inode'[i] = r
      /\ \A k \in Inum : k # i => dinode'[k] = dinode[k] /\ inode'[k] = inode[k]
  BY <1>1, <1>2 DEF Write
<1>4. \A k \in Inum : dinode'[k].type = dinode[k].type /\ SameBlocks(k)
  BY <1>2, <1>3 DEF SameBlocks
<1>5. \A k \in Inum : k = i \/ Copy(k) => Copy(k)'
  BY <1>2, <1>3 DEF Copy
<1>. QED
  BY <1>3, <1>4, <1>5

\* The end of unlink().
LEMMA unlink_inodeInv ==
    ASSUME IInv, NEW p \in Proc, unlink_inode(p)
    PROVE  IInv'
<1>. DEFINE i == ip[p]
            m == inode[i].nlink - 1
            r == [inode[i] EXCEPT !.nlink = m]
<1>1. DiskType /\ CacheType /\ FileType /\ RestType
  BY Parts
<1>2. /\ At(p, "unlinked") /\ lock' = iunlock(i) /\ Return(p, <<i>>)
      /\ UNCHANGED <<ents, used, ind, ref, valid, panicked>>
      /\ UNCHANGED <<cwd, ofile, ends, file, calls, lost>>
      /\ Write(i, r)
  BY DEF unlink_inode, filevars
<1>3. pc[p] = "unlinked" /\ ~panicked /\ i \in Inum /\ lock[i] = p /\ Copy(i)
  BY <1>2, CreatedFacts DEF At
<1>4. m \in Int /\ r = WithLinks(dinode[i], m) /\ dinode[i].type # "none"
  BY <1>1, <1>3 DEF Copy, WithLinks, CacheType, Dinode
<1>5. /\ Step(p, "run", 0, 0, ip[p], 0) /\ PtrRow(p)' /\ PinRow(p)'
      /\ \A k \in Inum : ~Pins(p, k)'
      /\ lock' \in [Inum -> Proc \cup {None}]
      /\ Kept("run", 0, 0) = 0
      /\ \A k \in Inum : /\ lock'[k] = IF k = Kept("run", 0, 0) THEN p
                                       ELSE IF lock[k] = p THEN None ELSE lock[k]
                         /\ lock'[k] # None => lock[k] # None
      /\ \A k \in Inum : ref'[k] = ref[k] + (Is(cwd'[p], k) + Is(0, k) + Is(0, k) + Is(ip[p], k) + Is(0, k))
                                   - (Is(cwd[p], k) + Is(dp[p], k) + Is(ip[p], k))
  BY <1>2, ReturnUnlocked
<1>. HIDE DEF m, r
<1>6. /\ dinode' \in [Inum -> Dinode] /\ inode' \in [Inum -> Dinode]
      /\ \A k \in Inum : dinode'[k].type = dinode[k].type /\ SameBlocks(k)
      /\ \A k \in Inum : k = i \/ Copy(k) => Copy(k)'
  <2>. HIDE DEF i
  <2>. QED
    BY <1>2, <1>3, <1>4, WriteLinks
<1>7. DiskType' /\ CacheType' /\ RestType' /\ cwd' \in [Proc -> Inum \cup {0}]
  BY <1>1, <1>2, <1>5, <1>6 DEF DiskType, CacheType, RestType, FileType
<1>8. ASSUME NEW k \in Inum
      PROVE  /\ lock'[k] # None => valid'[k]
             /\ valid'[k] => Copy(k)' \/ (valid[k] /\ ~Copy(k))
  <2>1. lock'[k] # None => valid'[k]
    BY <1>2, <1>5, CacheFacts
  <2>. QED
    BY <1>2, <1>6, <2>1
<1>. QED
  BY <1>2, <1>3, <1>5, <1>7, <1>8, <1>6, CallStep

\* link() counts the link and starts on the other path.
LEMMA sys_linkInv ==
    ASSUME IInv, NEW p \in Proc, sys_link(p)
    PROVE  IInv'
<1>. DEFINE i == dp[p]
            s == Start(p, call[p].to)
            m == Cur(i).nlink + 1
            r == [Cur(i) EXCEPT !.nlink = m]
<1>1. DiskType /\ CacheType /\ ProcType /\ FileType /\ RestType
  BY Parts
<1>2. /\ pc[p] = "walk" /\ puts[p] = <<>> /\ ~panicked /\ call[p].op = "link" /\ call[p] \in Calls
      /\ i \in Inum /\ lock[i] = None /\ ref[i] >= 1 /\ ip[p] = 0 /\ cwd[p] # 0
      /\ Cur(i) = dinode[i] /\ dinode[i] \in Dinode
      /\ \A j \in Inum : lock[j] # p /\ j # 0
      /\ \A k \in Inum : ref[k] \in Nat /\ Is(0, k) = 0 /\ \A x : Is(x, k) \in {0, 1}
  BY NameiFacts DEF sys_link
<1>3. /\ UNCHANGED <<ents, used, ind, lock, cwd, ofile, ends, file, calls, lost>>
      /\ panicked' = NoType(i) /\ panicked' \in BOOLEAN
  BY DEF sys_link, filevars, NoType
<1>4. CASE Cur(i).type = "dir"
  <2>1. Return(p, <<i>>) /\ inode' = ilock(i) /\ valid' = Loaded(i) /\ UNCHANGED <<ref, dinode>>
    BY <1>4 DEF sys_link
  <2>2. pc[p] \in {"walk", "parent"} /\ (NoType(i) => panicked')
    BY <1>2, <1>3
  <2>. QED
    BY <1>2, <1>3, <2>1, <2>2, ReturnLoaded
<1>5. CASE Cur(i).type # "dir"
  <2>1. /\ Write(i, r) /\ ref' = iget_ref(s) /\ valid' = iget_valid(Loaded(i), s)
        /\ ip' = [ip EXCEPT ![p] = i] /\ dp' = [dp EXCEPT ![p] = s]
        /\ path' = [path EXCEPT ![p] = Elems(call[p].to)]
        /\ UNCHANGED <<pc, call, puts>>
    BY <1>5 DEF sys_link
  <2>2. s \in Inum
    BY <1>1, <1>2, StartType
  <2>3. Elems(call[p].to) \in Seq(Entry)
    BY <1>2, CallsAssumption
  <2>4. dinode[i].type # "none" \/ panicked'
    <3>1. valid[i] => dinode[i].type # "none"
      BY <1>2, CacheFacts DEF Copy
    <3>. QED
      BY <1>3, <3>1 DEF NoType
  <2>5. m \in Int /\ r = WithLinks(dinode[i], m)
    BY <1>2 DEF Dinode, WithLinks
  <2>. HIDE DEF s, m, r
  <2>6. /\ dinode' \in [Inum -> Dinode] /\ inode' \in [Inum -> Dinode]
        /\ \A k \in Inum : dinode'[k].type = dinode[k].type /\ SameBlocks(k)
        /\ \A k \in Inum : k = i \/ Copy(k) => Copy(k)'
    <3>. HIDE DEF i
    <3>. QED
      BY <1>2, <2>1, <2>4, <2>5, WriteLinks
  <2>7. /\ Loaded(i) \in [Inum -> BOOLEAN] /\ Loaded(i)[i]
        /\ \A k \in Inum : k # i => Loaded(i)[k] = valid[k]
    BY <1>1, <1>2, IlockFacts
  <2>8. /\ ref' \in [Inum -> Nat] /\ \A k \in Inum : ref'[k] = ref[k] + Is(s, k)
        /\ valid' \in [Inum -> BOOLEAN]
        /\ \A k \in Inum : (valid'[k] => Loaded(i)[k]) /\ (ref[k] >= 1 => valid'[k] = Loaded(i)[k])
    <3>. DEFINE v == Loaded(i)
    <3>. HIDE DEF v
    <3>1. v \in [Inum -> BOOLEAN] /\ valid' = iget_valid(v, s)
      BY <2>1, <2>7 DEF v
    <3>2. /\ iget_ref(s) \in [Inum -> Nat] /\ \A k \in Inum : iget_ref(s)[k] = ref[k] + Is(s, k)
          /\ iget_valid(v, s) \in [Inum -> BOOLEAN]
          /\ \A k \in Inum : /\ iget_valid(v, s)[k] => v[k]
                             /\ ref[k] >= 1 => iget_valid(v, s)[k] = v[k]
      BY <1>1, <2>2, <3>1, IgetFacts
    <3>. QED
      BY <2>1, <3>1, <3>2 DEF v
  <2>9. ASSUME NEW k \in Inum
        PROVE  /\ lock'[k] # None => valid'[k]
               /\ valid'[k] => Copy(k)' \/ (valid[k] /\ ~Copy(k))
    <3>1. lock[k] # None => valid[k] /\ ref[k] >= 1
      BY CacheFacts
    <3>2. lock'[k] # None => valid'[k]
      <4>. HAVE lock'[k] # None
      <4>1. k # i /\ valid[k] /\ ref[k] >= 1
        BY <1>2, <1>3, <3>1
      <4>2. valid'[k] = Loaded(i)[k] /\ Loaded(i)[k] = valid[k]
        BY <2>7, <2>8, <4>1
      <4>. QED
        BY <4>1, <4>2
    <3>3. valid'[k] => k = i \/ valid[k]
      BY <2>7, <2>8
    <3>. QED
      BY <2>6, <3>2, <3>3
  <2>10. Step(p, "walk", s, i, 0, 0)
    <3>1. /\ puts' = [puts EXCEPT ![p] = Entries(0, 0)] /\ pc' = [pc EXCEPT ![p] = "walk"]
          /\ \E cl \in Calls \cup {NoCall} : call' = [call EXCEPT ![p] = cl]
      BY <1>1, <1>2, <2>1, Moves
    <3>2. \E e \in Seq(Entry) : path' = [path EXCEPT ![p] = e]
      BY <2>1, <2>3
    <3>. QED
      BY <1>2, <2>1, <2>2, <3>1, <3>2 DEF Step, Move, PCs
  <2>11. pc'[p] = "walk" /\ dp'[p] = s /\ ip'[p] = i /\ call'[p] = call[p]
    BY <1>1, <1>2, <2>1 DEF ProcType
  <2>12. DiskType' /\ CacheType' /\ RestType' /\ cwd' \in [Proc -> Inum \cup {0}]
    BY <1>1, <1>3, <2>6, <2>8 DEF DiskType, CacheType, RestType, FileType
  <2>13. PtrRow(p)' /\ Kept("walk", s, i) = 0
    BY <1>2, <1>3, <2>2, <2>11 DEF PtrRow, Kept
  <2>14. PinRow(p)'
    BY <1>2, <2>4, <2>6, <2>11 DEF PinRow, DirPCs
  <2>15. \A k \in Inum : Pins(p, k)' => Pins(p, k) \/ lock[k] \in {None, p}
    BY <1>2, <2>11 DEF Pins, DirPCs
  <2>16. \A k \in Inum : ref'[k] = ref[k] + (Is(cwd'[p], k) + Is(s, k) + Is(i, k) + Is(0, k) + Is(0, k))
                                        - (Is(cwd[p], k) + Is(dp[p], k) + Is(ip[p], k))
    BY <1>2, <1>3, <2>8
  <2>17. /\ pc[p] \notin {"pipealloc", "pipe"} /\ UNCHANGED <<file, ofile, ends, used, ind>>
         /\ \A q \in Proc : q # p => cwd'[q] = cwd[q]
         /\ \A k \in Inum : lock'[k] = IF k = Kept("walk", s, i) THEN p
                                       ELSE IF lock[k] = p THEN None ELSE lock[k]
    BY <1>2, <1>3, <2>13
  <2>. HIDE DEF i
  <2>. QED
    BY <2>6, <2>9, <2>10, <2>12, <2>13, <2>14, <2>15, <2>16, <2>17, CallStep
<1>. QED
  BY <1>4, <1>5

\* link() enters the name, or finds it taken.
LEMMA link_entryInv ==
    ASSUME IInv, NEW p \in Proc, link_entry(p)
    PROVE  IInv'
<1>. DEFINE d == dp[p]
            j == ents[d][Name1(p)]
            i == ip[p]
<1>1. /\ DiskType /\ CacheType /\ ProcType /\ FileType /\ RestType /\ PinRow(p)
  BY Parts DEF PinInv
<1>2. /\ pc[p] = "parent" /\ puts[p] = <<>> /\ ~panicked /\ call[p].op = "link"
      /\ d \in Inum /\ lock[d] = None /\ ref[d] >= 1 /\ ~NoType(d)
      /\ i \in Inum /\ j \in Inum \cup {0} /\ path[p] # <<>> /\ cwd[p] # 0 /\ Name1(p) \in Entry
      /\ \A k \in Inum : lock[k] # p /\ k # 0
  BY ParentFacts DEF link_entry
<1>3. /\ UNCHANGED <<dinode, used, ind, lock, panicked, cwd, ofile, ends, file, calls, lost>>
      /\ inode' = ilock(d)
  BY DEF link_entry, filevars
<1>4. \A k \in Inum : ref[k] \in Nat /\ Is(0, k) = 0 /\ \A x : Is(x, k) \in {0, 1}
  BY <1>1, <1>2 DEF Is, CacheType
<1>5. /\ panicked' \in BOOLEAN /\ cwd' \in [Proc -> Inum \cup {0}]
      /\ \A q \in Proc : q # p => cwd'[q] = cwd[q]
      /\ lock' \in [Inum -> Proc \cup {None}]
      /\ pc[p] \notin {"pipealloc", "pipe"} /\ d \in Inum /\ lock[d] = None /\ ~NoType(d)
      /\ UNCHANGED <<dinode, used, ind, file, ofile, ends>>
  BY <1>1, <1>2, <1>3 DEF CacheType, FileType
<1>6. CASE j # 0
  <2>1. /\ ref' = iget_ref(j) /\ valid' = iget_valid(Loaded(d), j)
        /\ Put(p, <<j, d>>) /\ pc' = [pc EXCEPT ![p] = "link_bad"]
        /\ dp' = [dp EXCEPT ![p] = 0] /\ UNCHANGED <<ents, call, path, ip, lost>>
    BY <1>6 DEF link_entry, dirlookup, Goto
  <2>2. j \in Inum
    BY <1>2, <1>6
  <2>. HIDE DEF j
  <2>3. \E s \in Inum : valid' = iget_valid(Loaded(d), s) /\ ref[d] >= 1
    BY <1>2, <2>1, <2>2
  <2>4. Step(p, "link_bad", 0, i, j, d)
    <3>1. puts' = [puts EXCEPT ![p] = Entries(j, d)]
      BY <1>2, <2>1, <2>2, PutEntries
    <3>2. /\ ip' = [ip EXCEPT ![p] = i]
          /\ \E cl \in Calls \cup {NoCall} : call' = [call EXCEPT ![p] = cl]
          /\ \E e \in Seq(Entry) : path' = [path EXCEPT ![p] = e]
      BY <1>1, <1>2, <2>1, Moves
    <3>. QED
      BY <1>2, <2>1, <2>2, <3>1, <3>2 DEF Step, Move, PCs
  <2>5. pc'[p] = "link_bad" /\ dp'[p] = 0 /\ ip'[p] = i /\ call'[p] = call[p]
    BY <1>1, <2>1 DEF ProcType
  <2>6. /\ PtrRow(p)' /\ PinRow(p)' /\ (\A k \in Inum : Pins(p, k)' => Pins(p, k) \/ k = d)
        /\ Kept("link_bad", 0, i) = 0
    BY <1>1, <1>2, <1>3, <2>5 DEF PtrRow, PinRow, Pins, DirPCs, Kept
  <2>7. ref' \in [Inum -> Nat] /\ \A k \in Inum : ref'[k] = ref[k] + Is(j, k)
    BY <1>1, <2>1, <2>2, IgetFacts
  <2>8. \A k \in Inum : ref'[k] = ref[k] + (Is(cwd'[p], k) + Is(0, k) + Is(i, k) + Is(j, k) + Is(d, k))
                                        - (Is(cwd[p], k) + Is(dp[p], k) + Is(ip[p], k))
    BY <1>3, <1>4, <2>7
  <2>9. /\ DiskType' /\ RestType' /\ Kept("link_bad", 0, i) \in {0, d}
        /\ \A k \in Inum : lock'[k] = IF k = Kept("link_bad", 0, i) THEN p
                                      ELSE IF lock[k] = p THEN None ELSE lock[k]
    BY <1>1, <1>2, <1>3, <2>1, <2>6 DEF DiskType, RestType
  <2>. HIDE DEF i, d
  <2>. QED
    BY <1>3, <1>5, <2>3, <2>4, <2>6, <2>7, <2>8, <2>9, LoadStep
<1>7. CASE j = 0
  <2>1. /\ ents' = [ents EXCEPT ![d][Name1(p)] = i]
        /\ Return(p, <<d, i>>) /\ valid' = Loaded(d) /\ UNCHANGED ref
    BY <1>7 DEF link_entry, dirlookup, dirlink
  <2>. HIDE DEF j
  <2>2. Step(p, "run", 0, 0, d, i)
    BY <1>1, <1>2, <2>1, Moves DEF Step, PCs
  <2>3. pc'[p] = "run" /\ dp'[p] = 0 /\ ip'[p] = 0
    BY <1>1, <2>1 DEF Return, ProcType
  <2>4. /\ PtrRow(p)' /\ PinRow(p)' /\ (\A k \in Inum : Pins(p, k)' => Pins(p, k) \/ k = d)
        /\ Kept("run", 0, 0) = 0
    BY <1>2, <1>3, <2>3 DEF PtrRow, PinRow, Pins, DirPCs, Kept
  <2>5. \A k \in Inum : ref'[k] = ref[k] + (Is(cwd'[p], k) + Is(0, k) + Is(0, k) + Is(d, k) + Is(i, k))
                                        - (Is(cwd[p], k) + Is(dp[p], k) + Is(ip[p], k))
    BY <1>3, <1>4, <2>1
  <2>6. ents' \in [Inum -> [Entry -> Inum \cup {0}]]
    BY <1>1, <1>2, <2>1 DEF DiskType
  <2>7. DiskType' /\ RestType' /\ ref' \in [Inum -> Nat]
    BY <1>1, <1>2, <1>3, <2>1, <2>6 DEF DiskType, RestType, CacheType
  <2>8. /\ Kept("run", 0, 0) \in {0, d}
        /\ \A k \in Inum : lock'[k] = IF k = Kept("run", 0, 0) THEN p
                                      ELSE IF lock[k] = p THEN None ELSE lock[k]
    BY <1>2, <1>3, <2>4
  <2>. HIDE DEF i, d
  <2>. QED
    BY <1>3, <1>5, <2>1, <2>2, <2>4, <2>5, <2>7, <2>8, LoadStep
<1>. QED
  BY <1>6, <1>7

\* The way out of link(): the link is not counted after all.
LEMMA link_badInv ==
    ASSUME IInv, NEW p \in Proc, link_bad(p)
    PROVE  IInv'
<1>. DEFINE i == ip[p]
            m == Cur(i).nlink - 1
            r == [Cur(i) EXCEPT !.nlink = m]
<1>1. DiskType /\ CacheType /\ ProcType /\ FileType /\ RestType /\ PtrRow(p) /\ PinRow(p)
  BY Parts DEF PtrInv, PinInv
<1>2. /\ pc[p] = "link_bad" /\ puts[p] = <<>> /\ ~panicked /\ call[p].op = "link"
      /\ i \in Inum /\ lock[i] = None /\ dp[p] = 0 /\ cwd[p] # 0 /\ dinode[i].type # "none"
  BY <1>1 DEF link_bad, At, Free, PtrRow, PinRow, ProcType
<1>3. /\ Cur(i) = dinode[i] /\ dinode[i] \in Dinode
      /\ \A k \in Inum : lock[k] # p /\ k # 0
  BY <1>1, <1>2, CacheFacts, Unlocked DEF DiskType
<1>4. \A k \in Inum : ref[k] \in Nat /\ Is(0, k) = 0 /\ \A x : Is(x, k) \in {0, 1}
  BY <1>1, <1>3 DEF Is, CacheType
<1>5. /\ Write(i, r) /\ valid' = Loaded(i) /\ Return(p, <<i>>)
      /\ UNCHANGED <<ents, used, ind, ref, lock, panicked, cwd, ofile, ends, file, calls, lost>>
  BY DEF link_bad, filevars
<1>6. m \in Int /\ r = WithLinks(dinode[i], m)
  BY <1>3 DEF Dinode, WithLinks
<1>. HIDE DEF m, r
<1>7. /\ dinode' \in [Inum -> Dinode] /\ inode' \in [Inum -> Dinode]
      /\ \A k \in Inum : dinode'[k].type = dinode[k].type /\ SameBlocks(k)
      /\ \A k \in Inum : k = i \/ Copy(k) => Copy(k)'
  <2>. HIDE DEF i
  <2>. QED
    BY <1>2, <1>5, <1>6, WriteLinks
<1>8. /\ valid' \in [Inum -> BOOLEAN] /\ valid'[i]
      /\ \A k \in Inum : k # i => valid'[k] = valid[k]
  BY <1>1, <1>2, <1>5, IlockFacts
<1>9. ASSUME NEW k \in Inum
      PROVE  /\ lock'[k] # None => valid'[k]
             /\ valid'[k] => Copy(k)' \/ (valid[k] /\ ~Copy(k))
  <2>1. lock'[k] # None => valid'[k]
    BY <1>2, <1>5, <1>8, CacheFacts
  <2>2. valid'[k] => k = i \/ valid[k]
    BY <1>8
  <2>. QED
    BY <1>7, <2>1, <2>2
<1>10. Step(p, "run", 0, 0, i, 0)
  BY <1>1, <1>2, <1>5, Moves DEF Step, PCs
<1>11. pc'[p] = "run" /\ dp'[p] = 0 /\ ip'[p] = 0
  BY <1>1, <1>5 DEF Return, ProcType
<1>12. /\ PtrRow(p)' /\ PinRow(p)' /\ (\A k \in Inum : ~Pins(p, k)') /\ Kept("run", 0, 0) = 0
  BY <1>2, <1>3, <1>5, <1>11 DEF PtrRow, PinRow, Pins, DirPCs, Kept
<1>13. DiskType' /\ CacheType' /\ RestType' /\ cwd' \in [Proc -> Inum \cup {0}]
  BY <1>1, <1>5, <1>7, <1>8 DEF DiskType, CacheType, RestType, FileType
<1>14. \A k \in Inum : ref'[k] = ref[k] + (Is(cwd'[p], k) + Is(0, k) + Is(0, k) + Is(i, k) + Is(0, k))
                                        - (Is(cwd[p], k) + Is(dp[p], k) + Is(ip[p], k))
  BY <1>2, <1>4, <1>5
<1>15. /\ pc[p] \notin {"pipealloc", "pipe"} /\ UNCHANGED <<file, ofile, ends, used, ind>>
       /\ \A q \in Proc : q # p => cwd'[q] = cwd[q]
       /\ \A k \in Inum : lock'[k] = IF k = Kept("run", 0, 0) THEN p
                                     ELSE IF lock[k] = p THEN None ELSE lock[k]
  BY <1>2, <1>3, <1>5, <1>12
<1>. HIDE DEF i
<1>. QED
  BY <1>7, <1>9, <1>10, <1>12, <1>13, <1>14, <1>15, CallStep

\* chdir() puts the old directory, or what is not a directory.
LEMMA sys_chdirInv ==
    ASSUME IInv, NEW p \in Proc, sys_chdir(p)
    PROVE  IInv'
<1>. DEFINE i == dp[p]
<1>1. DiskType /\ CacheType /\ ProcType /\ FileType /\ RestType
  BY Parts
<1>2. /\ pc[p] = "walk" /\ puts[p] = <<>> /\ ~panicked
      /\ i \in Inum /\ lock[i] = None /\ ip[p] = 0 /\ cwd[p] # 0
      /\ \A k \in Inum : lock[k] # p /\ k # 0
      /\ \A k \in Inum : ref[k] \in Nat /\ Is(0, k) = 0 /\ \A x : Is(x, k) \in {0, 1}
  BY NameiFacts DEF sys_chdir
<1>3. /\ UNCHANGED <<dinode, ents, used, ind, ref, lock, ofile, ends, file, calls, lost>>
      /\ inode' = ilock(i) /\ valid' = Loaded(i)
      /\ panicked' = NoType(i) /\ panicked' \in BOOLEAN
  BY DEF sys_chdir, diskvars, NoType
<1>4. CASE Cur(i).type # "dir"
  <2>1. Return(p, <<i>>) /\ UNCHANGED cwd
    BY <1>4 DEF sys_chdir
  <2>2. pc[p] \in {"walk", "parent"} /\ (NoType(i) => panicked')
    BY <1>2, <1>3
  <2>. QED
    BY <1>2, <1>3, <2>1, <2>2, ReturnLoaded
<1>5. CASE Cur(i).type = "dir"
  <2>. DEFINE o == cwd[p]
  <2>1. cwd' = [cwd EXCEPT ![p] = i] /\ Return(p, <<o>>)
    BY <1>5 DEF sys_chdir
  <2>2. o \in Inum
    BY <1>1, <1>2 DEF FileType
  <2>3. Step(p, "run", 0, 0, o, 0)
    BY <1>1, <1>2, <2>1, <2>2, Moves DEF Step, PCs
  <2>4. pc'[p] = "run" /\ dp'[p] = 0 /\ ip'[p] = 0
    BY <1>1, <2>1 DEF Return, ProcType
  <2>5. /\ cwd' \in [Proc -> Inum \cup {0}] /\ cwd'[p] = i
        /\ \A q \in Proc : q # p => cwd'[q] = cwd[q]
    BY <1>1, <1>2, <2>1 DEF FileType
  <2>6. /\ PtrRow(p)' /\ PinRow(p)' /\ (\A k \in Inum : Pins(p, k)' => Pins(p, k) \/ k = i)
        /\ Kept("run", 0, 0) = 0 /\ Kept("run", 0, 0) \in {0, i}
    BY <1>2, <2>4, <2>5 DEF PtrRow, PinRow, Pins, DirPCs, Kept
  <2>7. \A k \in Inum : ref'[k] = ref[k] + (Is(cwd'[p], k) + Is(0, k) + Is(0, k) + Is(o, k) + Is(0, k))
                                        - (Is(cwd[p], k) + Is(dp[p], k) + Is(ip[p], k))
    BY <1>2, <1>3, <2>5
  <2>8. DiskType' /\ RestType' /\ ref' \in [Inum -> Nat] /\ lock' \in [Inum -> Proc \cup {None}]
    BY <1>1, <1>3 DEF DiskType, CacheType, RestType
  <2>9. /\ pc[p] \notin {"pipealloc", "pipe"} /\ lock[i] = None
        /\ \A k \in Inum : lock'[k] = IF k = Kept("run", 0, 0) THEN p
                                      ELSE IF lock[k] = p THEN None ELSE lock[k]
    BY <1>2, <1>3, <2>6
  <2>10. i \in Inum /\ UNCHANGED <<dinode, used, ind, file, ofile, ends>>
    BY <1>2, <1>3
  <2>. HIDE DEF i, o
  <2>. QED
    BY <1>3, <2>3, <2>5, <2>6, <2>7, <2>8, <2>9, <2>10, LoadStep
<1>. QED
  BY <1>4, <1>5

-----------------------------------------------------------------------------
(***************************************************************************)
(* iput().                                                                 *)
(***************************************************************************)
\* The iput() under way is done.
LEMMA TailRow ==
    ASSUME ProcType, PutInv, NEW p \in Proc, puts[p] # <<>>, puts' = [puts EXCEPT ![p] = Tail(@)]
    PROVE  /\ puts' \in [Proc -> Seq(PutRec)]
           /\ \A q \in Proc : q # p => puts'[q] = puts[q]
           /\ First(p)' = Second(p) /\ Second(p)' = 0
           /\ Len(puts'[p]) <= 2 /\ 2 \notin DOMAIN puts'[p]
           /\ \A i, at : Iputting(p, i, at)' => at = "test"
<1>. DEFINE s == puts[p]
            t == Tail(s)
<1>1. s \in Seq(PutRec) /\ s # <<>> /\ Len(s) <= 2 /\ (2 \in DOMAIN s => s[2].at = "test")
  BY DEF ProcType, PutInv, PutRow
<1>2. Len(s) \in {1, 2}
  <2>1. Len(s) \in Nat /\ Len(s) # 0
    BY <1>1
  <2>2. \A n \in Nat : n # 0 /\ n <= 2 => n \in {1, 2}
    BY ONLY TRUE
  <2>. QED
    BY <1>1, <2>1, <2>2, Zenon
<1>3. t \in Seq(PutRec) /\ Len(t) = Len(s) - 1 /\ \A k \in 1 .. Len(t) : t[k] = s[k + 1]
  BY <1>1
<1>4. puts' \in [Proc -> Seq(PutRec)] /\ puts'[p] = t /\ \A q \in Proc : q # p => puts'[q] = puts[q]
  BY <1>3 DEF ProcType
<1>5. /\ 1 \in DOMAIN t <=> 2 \in DOMAIN s
      /\ 1 \in DOMAIN t => t[1] = s[2]
      /\ 2 \notin DOMAIN t /\ Len(t) <= 2
  BY <1>1, <1>2, <1>3
<1>. HIDE DEF t
<1>. QED
  BY <1>1, <1>4, <1>5 DEF First, Second, Iputting

\* The iput() under way is at its next part.
LEMMA AtRow ==
    ASSUME ProcType, PutInv, NEW p \in Proc, puts[p] # <<>>,
           NEW a \in {"test", "free", "unlock", "drop"}, puts' = [puts EXCEPT ![p][1].at = a]
    PROVE  /\ puts' \in [Proc -> Seq(PutRec)]
           /\ \A q \in Proc : q # p => puts'[q] = puts[q]
           /\ First(p)' = First(p) /\ Second(p)' = Second(p)
           /\ Len(puts'[p]) <= 2 /\ (2 \in DOMAIN puts'[p] => puts'[p][2].at = "test")
           /\ puts'[p] # <<>>
           /\ \A i, at : Iputting(p, i, at)' <=> First(p) = i /\ at = a
<1>. DEFINE s == puts[p]
            e == [s[1] EXCEPT !.at = a]
            t == [s EXCEPT ![1] = e]
<1>1. s \in Seq(PutRec) /\ s # <<>> /\ Len(s) <= 2 /\ (2 \in DOMAIN s => s[2].at = "test")
  BY DEF ProcType, PutInv, PutRow
<1>2. 1 \in DOMAIN s /\ s[1] \in PutRec
  BY <1>1
<1>3. e \in PutRec /\ e.i = s[1].i /\ e.at = a
  BY <1>2 DEF PutRec
<1>4. puts' = [puts EXCEPT ![p] = t]
  OBVIOUS
<1>. HIDE DEF e
<1>5. /\ t \in Seq(PutRec) /\ Len(t) = Len(s) /\ DOMAIN t = DOMAIN s /\ t[1] = e
      /\ 2 \in DOMAIN s => t[2] = s[2]
  BY <1>1, <1>2, <1>3
<1>. HIDE DEF t
<1>6. puts' \in [Proc -> Seq(PutRec)] /\ puts'[p] = t /\ \A q \in Proc : q # p => puts'[q] = puts[q]
  <2>1. puts \in [Proc -> Seq(PutRec)] /\ t \in Seq(PutRec)
    BY <1>5 DEF ProcType
  <2>. QED
    BY ONLY <1>4, <2>1, p \in Proc
<1>7. First(p)' = First(p) /\ Second(p)' = Second(p) /\ First(p) = e.i
  BY <1>2, <1>3, <1>5, <1>6 DEF First, Second
<1>8. \A i, at : Iputting(p, i, at)' <=> First(p) = i /\ at = a
  BY <1>2, <1>3, <1>5, <1>6, <1>7 DEF Iputting
<1>9. puts'[p] # <<>>
  BY <1>2, <1>5, <1>6
<1>. QED
  BY <1>1, <1>5, <1>6, <1>7, <1>8, <1>9

\* What every part of iput() keeps: all that is of processes and files.
LEMMA PutStep ==
    ASSUME IInv, NEW p \in Proc, puts[p] # <<>>, ~panicked,
           UNCHANGED procvars, UNCHANGED filevars, UNCHANGED calls, lost' = lost \/ lost' \subseteq Inum,
           puts' \in [Proc -> Seq(PutRec)], \A q \in Proc : q # p => puts'[q] = puts[q],
           Len(puts'[p]) <= 2, 2 \in DOMAIN puts'[p] => puts'[p][2].at = "test",
           pc[p] \in {"created", "unlinked"} => First(p)' # ip[p] /\ Second(p)' = 0,
           DiskType', CacheType',
           \A k \in Inum : ref'[k] = ref[k] + (Is(First(p)', k) + Is(Second(p)', k))
                                     - (Is(First(p), k) + Is(Second(p), k)),
           LockInv', CacheInv', PinInv', FreeInv', BlkInv'
    PROVE  IInv'
<1>1. /\ DiskType /\ CacheType /\ ProcType /\ FileType /\ RestType
      /\ PtrInv /\ PutInv /\ FileInv /\ RefSum /\ FdSum
  BY Parts
<1>2. UNCHANGED <<pc, call, path, dp, ip, cwd, ofile, ends, file>>
  BY DEF procvars, filevars
<1>3. ProcType' /\ FileType' /\ RestType'
  BY <1>1, <1>2 DEF ProcType, FileType, RestType
<1>4. TypeOK'
  BY <1>3, TypeParts
<1>5. PtrInv'
  <2>1. \A q \in Proc : PtrRow(q) => PtrRow(q)'
    BY <1>2 DEF PtrRow
  <2>. QED
    BY <1>1, <2>1 DEF PtrInv
<1>6. PutInv'
  <2>1. PutRow(p)'
    <3>1. pc[p] \notin {"parent", "create_new", "unlink"}
      BY <1>1 DEF PutInv, PutRow
    <3>. QED
      BY <1>2, <3>1 DEF PutRow
  <2>2. \A q \in Proc : q # p /\ PutRow(q) => PutRow(q)'
    BY <1>2 DEF PutRow, First, Second
  <2>. QED
    BY <1>1, <2>1, <2>2 DEF PutInv
<1>7. FileInv'
  <2>1. \A q \in Proc : EndRow(q) => EndRow(q)'
    BY <1>2 DEF EndRow
  <2>. QED
    BY <1>1, <1>2, <2>1 DEF FileInv
<1>8. FdSum'
  <2>1. Fds' = Fds /\ \A f : Piping(f)' = Piping(f)
    BY <1>2 DEF Fds, Piping
  <2>. QED
    BY <1>1, <1>2, <2>1 DEF FdSum
<1>9. RefSum'
  <2>1. \A q \in Proc : q # p => /\ cwd'[q] = cwd[q] /\ dp'[q] = dp[q]
                                 /\ ip'[q] = ip[q] /\ puts'[q] = puts[q]
    BY <1>2
  <2>2. \A g \in 1 .. NFILE : FileIp(g)' = FileIp(g)
    BY <1>2 DEF FileIp
  <2>3. ASSUME NEW k \in Inum
        PROVE  ref'[k] = ref[k] + Ptrs(p, k)' - Ptrs(p, k)
    <3>. DEFINE b == Is(cwd[p], k) + Is(dp[p], k) + Is(ip[p], k)
    <3>1. /\ Is(First(p), k) \in {0, 1} /\ Is(Second(p), k) \in {0, 1}
          /\ Is(First(p)', k) \in {0, 1} /\ Is(Second(p)', k) \in {0, 1} /\ b \in Int
          /\ ref[k] \in Int
      BY <1>1 DEF Is, CacheType
    <3>2. Ptrs(p, k) = b + Is(First(p), k) + Is(Second(p), k)
      BY DEF Ptrs
    <3>3. Ptrs(p, k)' = b + Is(First(p)', k) + Is(Second(p)', k)
      BY <1>2 DEF Ptrs, Is
    <3>4. ref'[k] = ref[k] + (Is(First(p)', k) + Is(Second(p)', k))
                           - (Is(First(p), k) + Is(Second(p), k))
      OBVIOUS
    <3>. HIDE DEF b
    <3>. QED
      BY <3>1, <3>2, <3>3, <3>4
  <2>. QED
    BY <1>1, <1>3, <2>1, <2>2, <2>3, RefMoveProc
<1>. QED
  BY <1>4, <1>5, <1>6, <1>7, <1>8, <1>9 DEF IInv

\* The iput() under way.
LEMMA PutFacts ==
    ASSUME IInv, NEW p \in Proc, puts[p] # <<>>
    PROVE  /\ First(p) = Head(puts[p]).i /\ Head(puts[p]).i \in Inum
           /\ \A i, at : Iputting(p, i, at) <=> First(p) = i /\ at = Head(puts[p]).at
           /\ ref[First(p)] >= 1 /\ First(p) # 0
           /\ \A q \in Proc : q # p /\ (dp[q] = First(p) \/ ip[q] = First(p) \/ First(q) = First(p))
                              => ref[First(p)] >= 2
           /\ dp[p] = First(p) \/ ip[p] = First(p) => ref[First(p)] >= 2
<1>1. ProcType /\ FileType /\ CacheType /\ RefSum
  BY Parts
<1>2. /\ 1 \in DOMAIN puts[p] /\ Head(puts[p]) = puts[p][1]
      /\ First(p) = Head(puts[p]).i /\ Head(puts[p]).i \in Inum
  <2>1. puts[p] \in Seq(PutRec)
    BY <1>1 DEF ProcType
  <2>2. 1 \in DOMAIN puts[p] /\ Head(puts[p]) = puts[p][1] /\ puts[p][1] \in PutRec
    BY <2>1
  <2>. QED
    BY <2>2 DEF First, PutRec
<1>. DEFINE i == First(p)
<1>3. i \in Inum
  BY <1>2
<1>. HIDE DEF i
<1>4. ref[i] \in Nat /\ Ptrs(p, i) \in Nat /\ Ptrs(p, i) >= 1 /\ \A q \in Proc : Ptrs(q, i) \in Nat
  BY <1>1, <1>3 DEF Ptrs, Is, CacheType, i
<1>5. /\ \A q \in Proc : ref[i] >= Ptrs(q, i)
      /\ \A q \in Proc : q # p => ref[i] >= Ptrs(p, i) + Ptrs(q, i)
  BY <1>1, <1>3, RefAtLeast
<1>6. \A q \in Proc : dp[q] = i \/ ip[q] = i \/ First(q) = i => Ptrs(q, i) >= 1
  BY DEF Ptrs, Is
<1>7. dp[p] = i \/ ip[p] = i => Ptrs(p, i) >= 2
  BY DEF Ptrs, Is, i
<1>8. ref[i] >= 1 /\ \A q \in Proc : q # p /\ (dp[q] = i \/ ip[q] = i \/ First(q) = i) => ref[i] >= 2
  BY <1>4, <1>5, <1>6
<1>9. dp[p] = i \/ ip[p] = i => ref[i] >= 2
  BY <1>4, <1>5, <1>7
<1>10. \A j, at : Iputting(p, j, at) <=> First(p) = j /\ at = Head(puts[p]).at
  BY <1>2 DEF Iputting
<1>11. i # 0
  BY <1>3 DEF Inum
<1>. QED
  BY <1>2, <1>8, <1>9, <1>10, <1>11 DEF i

\* iput() that only drops a reference, at its start or at its end.
LEMMA DropStep ==
    ASSUME IInv, NEW p \in Proc, puts[p] # <<>>, ~panicked, Head(puts[p]).at \in {"test", "drop"},
           UNCHANGED procvars, UNCHANGED filevars, UNCHANGED <<calls, lost>>,
           UNCHANGED <<dinode, ents, used, ind, inode, valid, lock, panicked>>,
           ref' = [ref EXCEPT ![Head(puts[p]).i] = @ - 1],
           puts' = [puts EXCEPT ![p] = Tail(@)]
    PROVE  IInv'
<1>1. /\ DiskType /\ CacheType /\ ProcType
      /\ PutInv /\ LockInv /\ CacheInv /\ PinInv /\ FreeInv /\ BlkInv
  BY Parts
<1>2. /\ First(p) = Head(puts[p]).i /\ First(p) \in Inum /\ ref[First(p)] >= 1
      /\ \A i, at : Iputting(p, i, at) <=> First(p) = i /\ at = Head(puts[p]).at
  BY PutFacts
<1>3. /\ puts' \in [Proc -> Seq(PutRec)]
      /\ \A q \in Proc : q # p => puts'[q] = puts[q]
      /\ First(p)' = Second(p) /\ Second(p)' = 0
      /\ Len(puts'[p]) <= 2 /\ 2 \notin DOMAIN puts'[p]
      /\ \A i, at : Iputting(p, i, at)' => at = "test"
  BY <1>1, TailRow
<1>4. UNCHANGED <<pc, call, path, dp, ip>>
  BY DEF procvars
<1>5. \A q \in Proc : \A i, at : at \in {"free", "unlock"} => (Iputting(q, i, at)' <=> Iputting(q, i, at))
  <2>1. \A i, at : at \in {"free", "unlock"} => ~Iputting(p, i, at)' /\ ~Iputting(p, i, at)
    BY <1>2, <1>3
  <2>2. \A q \in Proc : \A i, at : q # p => (Iputting(q, i, at)' <=> Iputting(q, i, at))
    BY <1>3 DEF Iputting
  <2>. QED
    BY <2>1, <2>2
<1>6. LockInv'
  <2>1. \A q \in Proc, i \in Inum : Holds(q, i)' <=> Holds(q, i)
    BY <1>4, <1>5 DEF Holds
  <2>. QED
    BY <1>1, <2>1 DEF LockInv
<1>7. CacheInv'
  <2>1. \A i \in Inum : Copy(i)' <=> Copy(i)
    BY DEF Copy
  <2>. QED
    BY <1>1, <1>5, <2>1 DEF CacheInv
<1>8. PinInv'
  <2>1. \A q \in Proc : PinRow(q) => PinRow(q)'
    BY <1>4 DEF PinRow
  <2>2. \A q \in Proc, i \in Inum : Pins(q, i)' <=> Pins(q, i)
    BY <1>4 DEF Pins
  <2>. QED
    BY <1>1, <1>5, <2>1, <2>2 DEF PinInv
<1>9. FreeInv' /\ BlkInv'
  <2>1. \A j \in Inum : SameBlocks(j)
    BY DEF SameBlocks
  <2>. QED
    BY <1>1, <2>1, StepDisk
<1>10. ref' \in [Inum -> Nat] /\ \A k \in Inum : ref'[k] = ref[k] - Is(First(p), k)
  BY <1>1, <1>2 DEF CacheType, Is
<1>11. \A k \in Inum : ref'[k] = ref[k] + (Is(First(p)', k) + Is(Second(p)', k))
                                  - (Is(First(p), k) + Is(Second(p), k))
  <2>1. \A k \in Inum : /\ Is(0, k) = 0 /\ Is(First(p), k) \in {0, 1} /\ Is(Second(p), k) \in {0, 1}
                        /\ ref[k] \in Nat
    BY <1>1 DEF Is, Inum, CacheType
  <2>2. \A k \in Inum : Is(First(p)', k) = Is(Second(p), k) /\ Is(Second(p)', k) = Is(0, k)
    BY <1>3
  <2>. QED
    <3>. TAKE k \in Inum
    <3>1. PICK x \in {0, 1}, y \in {0, 1}, r \in Nat :
             x = Is(First(p), k) /\ y = Is(Second(p), k) /\ r = ref[k]
      BY <2>1
    <3>2. ref'[k] = r - x /\ Is(First(p)', k) = y /\ Is(Second(p)', k) = 0
      BY <1>10, <2>1, <2>2, <3>1
    <3>3. r - x = r + (y + 0) - (x + y)
      BY ONLY TRUE
    <3>. QED
      BY <3>1, <3>2, <3>3, Zenon
<1>12. DiskType' /\ CacheType'
  BY <1>1, <1>10 DEF DiskType, CacheType
<1>13. pc[p] \in {"created", "unlinked"} => First(p)' # ip[p] /\ Second(p)' = 0
  <2>1. pc[p] \in {"created", "unlinked"} => Second(p) = 0 /\ ip[p] # 0
    BY <1>1, Parts DEF PutInv, PutRow, PtrInv, PtrRow
  <2>. QED
    BY <1>3, <2>1
<1>. QED
  BY <1>3, <1>6, <1>7, <1>8, <1>9, <1>11, <1>12, <1>13, PutStep

\* What iput() keeps from one part to the next.
LEMMA AtStep ==
    ASSUME IInv, NEW p \in Proc, puts[p] # <<>>, ~panicked,
           NEW a \in {"free", "unlock", "drop"}, puts' = [puts EXCEPT ![p][1].at = a],
           UNCHANGED procvars, UNCHANGED filevars, UNCHANGED <<calls, ref>>,
           lost' = lost \/ lost' \subseteq Inum,
           DiskType', CacheType',
           LockInv', CacheInv', PinInv', FreeInv', BlkInv'
    PROVE  IInv'
<1>1. CacheType /\ ProcType /\ PutInv
  BY Parts
<1>2. /\ puts' \in [Proc -> Seq(PutRec)]
      /\ \A q \in Proc : q # p => puts'[q] = puts[q]
      /\ First(p)' = First(p) /\ Second(p)' = Second(p)
      /\ Len(puts'[p]) <= 2 /\ (2 \in DOMAIN puts'[p] => puts'[p][2].at = "test")
  BY <1>1, AtRow
<1>3. \A k \in Inum : ref'[k] = ref[k] + (Is(First(p)', k) + Is(Second(p)', k))
                                 - (Is(First(p), k) + Is(Second(p), k))
  <2>1. \A k \in Inum : Is(First(p), k) \in {0, 1} /\ Is(Second(p), k) \in {0, 1} /\ ref[k] \in Nat
    BY <1>1 DEF Is, CacheType
  <2>2. \A k \in Inum : Is(First(p)', k) = Is(First(p), k) /\ Is(Second(p)', k) = Is(Second(p), k)
    BY <1>2
  <2>. QED
    BY <2>1, <2>2
<1>4. pc[p] \in {"created", "unlinked"} => First(p)' # ip[p] /\ Second(p)' = 0
  BY <1>1, <1>2 DEF PutInv, PutRow
<1>. QED
  BY <1>2, <1>3, <1>4, PutStep

\* The locks when an iput() goes from a part without the lock to one with it, or
\* back.
LEMMA AtLock ==
    ASSUME IInv, NEW p \in Proc, puts[p] # <<>>,
           NEW a \in {"free", "unlock", "drop"}, puts' = [puts EXCEPT ![p][1].at = a],
           UNCHANGED procvars,
           \A k \in Inum : lock'[k] = IF k # First(p) THEN lock[k] ELSE IF a = "drop" THEN None ELSE p,
           lock[First(p)] \in {None, p}
    PROVE  LockInv'
<1>1. CacheType /\ ProcType /\ PutInv /\ LockInv
  BY Parts
<1>2. /\ \A q \in Proc : q # p => puts'[q] = puts[q]
      /\ \A i, at : Iputting(p, i, at)' <=> First(p) = i /\ at = a
  BY <1>1, AtRow
<1>3. /\ First(p) \in Inum
      /\ \A i, at : Iputting(p, i, at) => First(p) = i
  BY PutFacts
<1>4. UNCHANGED <<pc, dp, ip>> /\ \A q \in Proc : q # None
  BY InodeAssumption DEF procvars
<1>5. ASSUME NEW q \in Proc, NEW k \in Inum, q # p
      PROVE  lock'[k] = q <=> Holds(q, k)'
  <2>1. Holds(q, k)' <=> Holds(q, k)
    BY <1>2, <1>4, <1>5 DEF Holds, Iputting
  <2>2. lock'[k] = q <=> lock[k] = q
    BY <1>4, <1>5
  <2>. QED
    BY <1>1, <2>1, <2>2 DEF LockInv
<1>6. ASSUME NEW k \in Inum, k # First(p)
      PROVE  lock'[k] = p <=> Holds(p, k)'
  <2>1. Holds(p, k)' <=> Holds(p, k)
    BY <1>2, <1>3, <1>4, <1>6 DEF Holds
  <2>. QED
    BY <1>1, <1>6, <2>1 DEF LockInv
<1>7. ASSUME NEW k \in Inum, k = First(p)
      PROVE  lock'[k] = p <=> Holds(p, k)'
  <2>1. CASE a = "drop"
    <3>1. /\ pc[p] \notin {"create_new", "unlink"}
          /\ pc[p] \in {"created", "unlinked"} => First(p) # ip[p]
      BY <1>1 DEF PutInv, PutRow
    <3>. QED
      BY <1>2, <1>4, <1>7, <2>1, <3>1 DEF Holds
  <2>2. CASE a # "drop"
    BY <1>2, <1>4, <1>7, <2>2 DEF Holds
  <2>. QED
    BY <2>1, <2>2
<1>. QED
  BY <1>5, <1>6, <1>7 DEF LockInv

\* The first part of iput().
LEMMA iputInv ==
    ASSUME IInv, NEW p \in Proc, iput(p), UNCHANGED procvars, UNCHANGED filevars,
           UNCHANGED <<calls, lost>>
    PROVE  IInv'
<1>. DEFINE i == Head(puts[p]).i
<1>1. /\ DiskType /\ CacheType /\ ProcType
      /\ PutInv /\ LockInv /\ CacheInv /\ PinInv /\ FreeInv /\ BlkInv
  BY Parts
<1>2. /\ puts[p] # <<>> /\ Head(puts[p]).at = "test" /\ ~panicked
      /\ UNCHANGED <<dinode, ents, used, ind, inode, valid, panicked>>
  BY DEF iput, diskvars
<1>3. CASE ~iput_last(i)
  <2>1. /\ ref' = [ref EXCEPT ![i] = @ - 1] /\ puts' = [puts EXCEPT ![p] = Tail(@)]
        /\ UNCHANGED lock
    BY <1>3 DEF iput
  <2>. QED
    BY <1>2, <2>1, DropStep
<1>4. CASE iput_last(i)
  <2>1. /\ lock[i] = None /\ lock' = [lock EXCEPT ![i] = p]
        /\ puts' = [puts EXCEPT ![p][1].at = "free"] /\ UNCHANGED ref
    BY <1>4 DEF iput, Free
  <2>2. /\ First(p) = i /\ i \in Inum
        /\ \A k, at : Iputting(p, k, at) <=> First(p) = k /\ at = Head(puts[p]).at
        /\ \A q \in Proc : q # p /\ (dp[q] = i \/ ip[q] = i \/ First(q) = i) => ref[i] >= 2
        /\ dp[p] = i \/ ip[p] = i => ref[i] >= 2
    BY <1>2, PutFacts
  <2>3. ref[i] = 1 /\ valid[i]
    BY <1>4 DEF iput_last
  <2>. HIDE DEF i
  <2>4. /\ lock' \in [Inum -> Proc \cup {None}]
        /\ \A k \in Inum : lock'[k] = IF k # First(p) THEN lock[k] ELSE IF "free" = "drop" THEN None ELSE p
    BY <1>1, <2>1, <2>2 DEF CacheType
  <2>5. LockInv'
    BY <1>2, <2>1, <2>2, <2>4, AtLock
  <2>6. /\ \A q \in Proc : q # p => puts'[q] = puts[q]
        /\ \A k, at : Iputting(p, k, at)' <=> First(p) = k /\ at = "free"
    BY <1>1, <1>2, <2>1, AtRow
  <2>7. \A q \in Proc : \A k, at : q # p => (Iputting(q, k, at)' <=> Iputting(q, k, at))
    BY <2>6 DEF Iputting
  <2>8. CacheInv'
    <3>1. \A k \in Inum : Copy(k)' <=> Copy(k)
      BY <1>2 DEF Copy
    <3>2. \A q \in Proc, k \in Inum : Iputting(q, k, "unlock") => Iputting(q, k, "unlock")'
      BY <1>2, <2>2, <2>7
    <3>3. \A k \in Inum : lock'[k] # None => valid'[k]
      BY <1>1, <1>2, <2>2, <2>3, <2>4 DEF CacheInv
    <3>. QED
      BY <1>1, <1>2, <3>1, <3>2, <3>3 DEF CacheInv
  <2>9. PinInv'
    <3>1. UNCHANGED <<pc, call, dp, ip>>
      BY DEF procvars
    <3>2. \A q \in Proc : PinRow(q) => PinRow(q)'
      BY <1>2, <3>1 DEF PinRow
    <3>3. \A q \in Proc, k \in Inum : Pins(q, k)' <=> Pins(q, k)
      BY <3>1 DEF Pins
    <3>4. \A q \in Proc : ~Pins(q, i)
      BY <2>2, <2>3 DEF Pins
    <3>5. \A r \in Proc, k \in Inum, at \in {"free", "unlock"} :
             k # i => (Iputting(r, k, at)' => Iputting(r, k, at))
      BY <2>2, <2>6, <2>7
    <3>. QED
      BY <1>1, <3>2, <3>3, <3>4, <3>5 DEF PinInv
  <2>10. FreeInv' /\ BlkInv'
    <3>1. \A j \in Inum : SameBlocks(j)
      BY <1>2 DEF SameBlocks
    <3>. QED
      BY <1>1, <1>2, <3>1, StepDisk
  <2>11. DiskType' /\ CacheType'
    BY <1>1, <1>2, <2>1, <2>4 DEF DiskType, CacheType
  <2>. QED
    BY <1>2, <2>1, <2>5, <2>8, <2>9, <2>10, <2>11, AtStep
<1>. QED
  BY <1>3, <1>4

\* Its last parts.
LEMMA iput_dropInv ==
    ASSUME IInv, NEW p \in Proc, iput_drop(p), UNCHANGED procvars, UNCHANGED filevars,
           UNCHANGED <<calls, lost>>
    PROVE  IInv'
<1>1. /\ puts[p] # <<>> /\ Head(puts[p]).at = "drop" /\ ~panicked
      /\ ref' = [ref EXCEPT ![Head(puts[p]).i] = @ - 1] /\ puts' = [puts EXCEPT ![p] = Tail(@)]
      /\ UNCHANGED <<dinode, ents, used, ind, inode, valid, lock, panicked>>
  BY DEF iput_drop, diskvars
<1>. QED
  BY <1>1, DropStep

\* The copy in the cache is not valid any more, nor locked.
LEMMA iput_unlockInv ==
    ASSUME IInv, NEW p \in Proc, iput_unlock(p), UNCHANGED procvars, UNCHANGED filevars,
           UNCHANGED <<calls, lost>>
    PROVE  IInv'
<1>. DEFINE i == Head(puts[p]).i
<1>1. /\ DiskType /\ CacheType /\ ProcType
      /\ PutInv /\ LockInv /\ CacheInv /\ PinInv /\ FreeInv /\ BlkInv
  BY Parts
<1>2. /\ puts[p] # <<>> /\ Head(puts[p]).at = "unlock" /\ ~panicked
      /\ valid' = [valid EXCEPT ![i] = FALSE] /\ lock' = iunlock(i)
      /\ puts' = [puts EXCEPT ![p][1].at = "drop"]
      /\ UNCHANGED <<dinode, ents, used, ind, inode, ref, panicked>>
  BY DEF iput_unlock, diskvars
<1>3. /\ First(p) = i /\ i \in Inum
      /\ \A k, at : Iputting(p, k, at) <=> First(p) = k /\ at = Head(puts[p]).at
  BY <1>2, PutFacts
<1>. HIDE DEF i
<1>4. lock[i] = p
  BY <1>1, <1>2, <1>3 DEF LockInv, Holds
<1>5. /\ lock' \in [Inum -> Proc \cup {None}] /\ lock'[i] = None
      /\ \A k \in Inum : k # i => lock'[k] = lock[k]
  BY <1>1, <1>2, <1>3 DEF CacheType, iunlock
<1>6. /\ valid' \in [Inum -> BOOLEAN] /\ ~valid'[i]
      /\ \A k \in Inum : k # i => valid'[k] = valid[k]
  BY <1>1, <1>2, <1>3 DEF CacheType
<1>7. LockInv'
  <2>1. \A k \in Inum : lock'[k] = IF k # First(p) THEN lock[k] ELSE IF "drop" = "drop" THEN None ELSE p
    BY <1>3, <1>5
  <2>2. lock[First(p)] \in {None, p}
    BY <1>3, <1>4
  <2>. QED
    BY <1>2, <2>1, <2>2, AtLock
<1>8. /\ \A q \in Proc : q # p => puts'[q] = puts[q]
      /\ \A k, at : Iputting(p, k, at)' <=> First(p) = k /\ at = "drop"
  BY <1>1, <1>2, AtRow
<1>9. \A q \in Proc : \A k, at : q # p => (Iputting(q, k, at)' <=> Iputting(q, k, at))
  BY <1>8 DEF Iputting
<1>10. CacheInv'
  <2>1. \A k \in Inum : Copy(k)' <=> Copy(k)
    BY <1>2 DEF Copy
  <2>2. \A q \in Proc, k \in Inum : k # i /\ Iputting(q, k, "unlock") => Iputting(q, k, "unlock")'
    BY <1>3, <1>9
  <2>3. ASSUME NEW k \in Inum, k # i
        PROVE  /\ lock'[k] # None => valid'[k]
               /\ valid'[k] => Copy(k)' \/ \E q \in Proc : Iputting(q, k, "unlock")'
    <3>1. lock'[k] = lock[k] /\ valid'[k] = valid[k]
      BY <1>5, <1>6, <2>3
    <3>. QED
      BY <1>1, <2>1, <2>2, <2>3, <3>1 DEF CacheInv
  <2>. QED
    BY <1>5, <1>6, <2>3 DEF CacheInv
<1>11. PinInv'
  <2>1. UNCHANGED <<pc, call, dp, ip>>
    BY DEF procvars
  <2>2. \A q \in Proc : PinRow(q) => PinRow(q)'
    BY <1>2, <2>1 DEF PinRow
  <2>3. \A q \in Proc, k \in Inum : Pins(q, k)' <=> Pins(q, k)
    BY <2>1 DEF Pins
  <2>4. \A r \in Proc, k \in Inum, at \in {"free", "unlock"} : Iputting(r, k, at)' => Iputting(r, k, at)
    BY <1>8, <1>9
  <2>. QED
    BY <1>1, <2>2, <2>3, <2>4 DEF PinInv
<1>12. FreeInv' /\ BlkInv'
  <2>1. \A j \in Inum : SameBlocks(j)
    BY <1>2 DEF SameBlocks
  <2>. QED
    BY <1>1, <1>2, <2>1, StepDisk
<1>13. DiskType' /\ CacheType'
  BY <1>1, <1>2, <1>5, <1>6 DEF DiskType, CacheType
<1>. QED
  BY <1>2, <1>7, <1>10, <1>11, <1>12, <1>13, AtStep

-----------------------------------------------------------------------------
(***************************************************************************)
(* Blocks.                                                                 *)
(***************************************************************************)
\* The places of a record and their blocks.
LEMMA PlaceBlocks ==
    ASSUME NEW r \in Dinode, ind \in [Block -> Block \cup {0}]
    PROVE  /\ \A pl \in Places(r) : /\ pl[1] \in Kinds /\ pl[2] = BlkOf(r, ind, pl[1])
                                    /\ pl[2] \in Block /\ pl = <<pl[1], pl[2]>>
           /\ \A k \in Kinds : BlkOf(r, ind, k) \in Block \cup {0}
           /\ \A k \in Kinds : BlkOf(r, ind, k) # 0 => <<k, BlkOf(r, ind, k)>> \in Places(r)
           /\ 0 \notin Block
<1>1. r.direct \in Block \cup {0} /\ r.indirect \in Block \cup {0} /\ 0 \notin Block
  BY InodeAssumption DEF Dinode
<1>2. \A k \in Kinds : BlkOf(r, ind, k) \in Block \cup {0}
  BY <1>1 DEF BlkOf, Kinds
<1>3. ASSUME NEW pl \in Places(r)
      PROVE  /\ pl[1] \in Kinds /\ pl[2] = BlkOf(r, ind, pl[1])
             /\ pl[2] \in Block /\ pl = <<pl[1], pl[2]>>
  <2>1. \/ pl = <<"direct", r.direct>> /\ r.direct # 0
        \/ pl = <<"indirect", r.indirect>> /\ r.indirect # 0
        \/ pl = <<"entry", ind[r.indirect]>> /\ r.indirect # 0 /\ ind[r.indirect] # 0
    BY DEF Places
  <2>2. CASE pl = <<"direct", r.direct>> /\ r.direct # 0
    BY <1>1, <2>2 DEF BlkOf, Kinds
  <2>3. CASE pl = <<"indirect", r.indirect>> /\ r.indirect # 0
    BY <1>1, <2>3 DEF BlkOf, Kinds
  <2>4. CASE pl = <<"entry", ind[r.indirect]>> /\ r.indirect # 0 /\ ind[r.indirect] # 0
    <3>1. r.indirect \in Block /\ ind[r.indirect] \in Block
      BY <1>1, <2>4
    <3>2. BlkOf(r, ind, "entry") = ind[r.indirect]
      BY <2>4 DEF BlkOf
    <3>. QED
      BY <2>4, <3>1, <3>2 DEF Kinds
  <2>. QED
    BY <2>1, <2>2, <2>3, <2>4
<1>4. ASSUME NEW k \in Kinds, BlkOf(r, ind, k) # 0
      PROVE  <<k, BlkOf(r, ind, k)>> \in Places(r)
  <2>1. CASE k = "direct"
    <3>1. BlkOf(r, ind, k) = r.direct
      BY <2>1 DEF BlkOf
    <3>. QED
      BY <1>4, <2>1, <3>1 DEF Places
  <2>2. CASE k = "indirect"
    <3>1. BlkOf(r, ind, k) = r.indirect
      BY <2>2 DEF BlkOf
    <3>. QED
      BY <1>4, <2>2, <3>1 DEF Places
  <2>3. CASE k = "entry"
    <3>1. r.indirect # 0 /\ BlkOf(r, ind, k) = ind[r.indirect]
      BY <1>4, <2>3 DEF BlkOf
    <3>. QED
      BY <1>4, <2>3, <3>1 DEF Places
  <2>. QED
    BY <2>1, <2>2, <2>3 DEF Kinds
<1>. QED
  BY <1>1, <1>2, <1>3, <1>4

\* BlocksOwned.
LEMMA BlocksForm ==
    ASSUME DiskType, BlkInv
    PROVE  BlocksOwned
<1>. DEFINE All == UNION {{<<i, pl>> : pl \in Places(dinode[i])} : i \in Inum}
<1>1. dinode \in [Inum -> Dinode] /\ ind \in [Block -> Block \cup {0}] /\ used \subseteq Block
  BY DEF DiskType
<1>2. ASSUME NEW x \in All
      PROVE  \E i \in Inum, k \in Kinds, b \in Block : x = <<i, <<k, b>>>> /\ OwnedBy(i, k, b)
  <2>1. PICK i \in Inum : \E pl \in Places(dinode[i]) : x = <<i, pl>>
    BY <1>2
  <2>2. PICK pl \in Places(dinode[i]) : x = <<i, pl>>
    BY <2>1
  <2>3. /\ pl[1] \in Kinds /\ pl[2] = BlkOf(dinode[i], ind, pl[1])
        /\ pl[2] \in Block /\ pl = <<pl[1], pl[2]>>
    BY <1>1, PlaceBlocks
  <2>4. OwnedBy(i, pl[1], pl[2])
    BY <2>3 DEF OwnedBy
  <2>. QED
    BY <2>2, <2>3, <2>4
<1>3. ASSUME NEW i \in Inum, NEW k \in Kinds, NEW b \in Block, OwnedBy(i, k, b)
      PROVE  <<i, <<k, b>>>> \in All
  <2>1. BlkOf(dinode[i], ind, k) = b /\ b # 0
    BY <1>3, InodeAssumption DEF OwnedBy
  <2>2. <<k, b>> \in Places(dinode[i])
    BY <1>1, <2>1, PlaceBlocks
  <2>. QED
    BY <2>2
<1>4. \A x, y \in All : x[2][2] = y[2][2] => x = y
  <2>. SUFFICES ASSUME NEW x \in All, NEW y \in All, x[2][2] = y[2][2]
                PROVE  x = y
    OBVIOUS
  <2>1. PICK i \in Inum, k \in Kinds, b \in Block : x = <<i, <<k, b>>>> /\ OwnedBy(i, k, b)
    BY <1>2
  <2>2. PICK j \in Inum, l \in Kinds, c \in Block : y = <<j, <<l, c>>>> /\ OwnedBy(j, l, c)
    BY <1>2
  <2>3. b = c
    BY <2>1, <2>2
  <2>4. i = j /\ k = l
    BY <2>1, <2>2, <2>3 DEF BlkInv
  <2>. QED
    BY <2>1, <2>2, <2>3, <2>4
<1>5. {x[2][2] : x \in All} = used
  <2>1. ASSUME NEW x \in All
        PROVE  x[2][2] \in used
    <3>1. PICK i \in Inum, k \in Kinds, b \in Block : x = <<i, <<k, b>>>> /\ OwnedBy(i, k, b)
      BY <1>2
    <3>2. b \in used
      BY <3>1 DEF BlkInv
    <3>. QED
      BY <3>1, <3>2
  <2>2. ASSUME NEW b \in used
        PROVE  \E x \in All : x[2][2] = b
    <3>1. PICK i \in Inum, k \in Kinds : OwnedBy(i, k, b)
      BY <1>1 DEF BlkInv
    <3>2. <<i, <<k, b>>>> \in All
      BY <1>1, <1>3, <3>1
    <3>. HIDE DEF All
    <3>. QED
      BY <3>2
  <2>. HIDE DEF All
  <2>. QED
    BY <2>1, <2>2
<1>6. \A i \in Inum : dinode[i].type = "file" =>
              /\ dinode[i].size > 0 => dinode[i].direct # 0
              /\ dinode[i].size > 1 => dinode[i].indirect # 0 /\ ind[dinode[i].indirect] # 0
  BY DEF BlkInv, Sized
<1>. QED
  BY <1>4, <1>5, <1>6 DEF BlocksOwned

\* itrunc() frees the blocks of an inode, and only those.
LEMMA Itrunc ==
    ASSUME DiskType, BlkInv, FreeInv, NEW i \in Inum, NEW r \in Dinode,
           r.direct = 0, r.indirect = 0, r.size = 0,
           dinode' = [dinode EXCEPT ![i] = r], used' = bfree(itrunc(dinode[i])), ind' = ind
    PROVE  BlkInv' /\ FreeInv' /\ ~bfree_panics(itrunc(dinode[i])) /\ used' \subseteq Block
<1>. DEFINE F == itrunc(dinode[i])
<1>1. dinode \in [Inum -> Dinode] /\ ind \in [Block -> Block \cup {0}] /\ used \subseteq Block
      /\ 0 \notin Block
  BY InodeAssumption DEF DiskType
<1>2. \A b \in Block : b \in F <=> \E k \in Kinds : OwnedBy(i, k, b)
  <2>. SUFFICES ASSUME NEW b \in Block
                PROVE  b \in F <=> \E k \in Kinds : OwnedBy(i, k, b)
    OBVIOUS
  <2>1. ASSUME b \in F
        PROVE  \E k \in Kinds : OwnedBy(i, k, b)
    <3>1. PICK pl \in Places(dinode[i]) : b = pl[2]
      BY <2>1 DEF itrunc
    <3>2. pl[1] \in Kinds /\ pl[2] = BlkOf(dinode[i], ind, pl[1])
      BY <1>1, PlaceBlocks
    <3>. QED
      BY <3>1, <3>2 DEF OwnedBy
  <2>2. ASSUME NEW k \in Kinds, OwnedBy(i, k, b)
        PROVE  b \in F
    <3>1. BlkOf(dinode[i], ind, k) = b /\ b # 0
      BY <1>1, <2>2 DEF OwnedBy
    <3>2. <<k, b>> \in Places(dinode[i])
      BY <1>1, <3>1, PlaceBlocks
    <3>. QED
      BY <3>2 DEF itrunc
  <2>. QED
    BY <2>1, <2>2
<1>3. F \subseteq Block
  <2>1. \A pl \in Places(dinode[i]) : pl[2] \in Block
    BY <1>1, PlaceBlocks
  <2>. QED
    BY <2>1 DEF itrunc
<1>. HIDE DEF F
<1>4. F \subseteq used
  BY <1>2, <1>3 DEF BlkInv
<1>5. used' = used \ F
  BY DEF bfree, F
<1>6. /\ dinode'[i] = r
      /\ \A j \in Inum : j # i => dinode'[j] = dinode[j]
  BY <1>1
<1>7. \A k \in Kinds : BlkOf(r, ind, k) = 0
  BY DEF BlkOf, Kinds
<1>8. \A k \in Kinds, b \in Block : ~OwnedBy(i, k, b)'
  BY <1>1, <1>6, <1>7 DEF OwnedBy
<1>9. \A j \in Inum : \A k, b : j # i => (OwnedBy(j, k, b)' <=> OwnedBy(j, k, b))
  BY <1>6 DEF OwnedBy
<1>10. \A j, h \in Inum, k, l \in Kinds, b \in Block :
            OwnedBy(j, k, b)' /\ OwnedBy(h, l, b)' => j = h /\ k = l
  BY <1>8, <1>9 DEF BlkInv
<1>11. ASSUME NEW b \in Block
       PROVE  b \in used' <=> \E j \in Inum, k \in Kinds : OwnedBy(j, k, b)'
  <2>1. ASSUME b \in used'
        PROVE  \E j \in Inum, k \in Kinds : OwnedBy(j, k, b)'
    <3>1. b \in used /\ ~\E k \in Kinds : OwnedBy(i, k, b)
      BY <1>2, <1>5, <2>1
    <3>2. PICK j \in Inum, k \in Kinds : OwnedBy(j, k, b)
      BY <3>1 DEF BlkInv
    <3>. QED
      BY <1>9, <3>1, <3>2
  <2>2. ASSUME NEW j \in Inum, NEW k \in Kinds, OwnedBy(j, k, b)'
        PROVE  b \in used'
    <3>1. j # i /\ OwnedBy(j, k, b)
      BY <1>8, <1>9, <2>2
    <3>2. b \in used
      BY <3>1 DEF BlkInv
    <3>3. ~\E l \in Kinds : OwnedBy(i, l, b)
      BY <3>1 DEF BlkInv
    <3>. QED
      BY <1>2, <1>5, <3>2, <3>3
  <2>. QED
    BY <2>1, <2>2
<1>12. \A j \in Inum : Sized(dinode[j], ind)'
  <2>1. Sized(r, ind)
    BY DEF Sized
  <2>. QED
    BY <1>6, <2>1 DEF BlkInv, Sized
<1>13. BlkInv'
  BY <1>10, <1>11, <1>12 DEF BlkInv
<1>14. FreeInv'
  BY <1>6 DEF FreeInv
<1>. QED
  BY <1>1, <1>4, <1>5, <1>13, <1>14 DEF bfree_panics, F

\* What itrunc() leaves of a record, and iput() of one it frees.
Freed(r) == [Truncated(r) EXCEPT !.type = "none"]
\* Neither keeps a block.
LEMMA TruncRecord ==
    ASSUME NEW r \in Dinode
    PROVE  /\ Truncated(r) \in Dinode /\ Truncated(r).type = r.type /\ Truncated(r).size = 0
           /\ Truncated(r).direct = 0 /\ Truncated(r).indirect = 0
           /\ Freed(r) \in Dinode /\ Freed(r).type = "none" /\ Freed(r).size = 0
           /\ Freed(r).direct = 0 /\ Freed(r).indirect = 0
<1>1. /\ Truncated(r) \in Dinode /\ Truncated(r).type = r.type /\ Truncated(r).size = 0
      /\ Truncated(r).direct = 0 /\ Truncated(r).indirect = 0
  <2>. DEFINE a == [r EXCEPT !.size = 0]
              b == [a EXCEPT !.direct = 0]
              c == [b EXCEPT !.indirect = 0]
  <2>1. a \in Dinode /\ a.type = r.type /\ a.size = 0
    BY DEF Dinode
  <2>. HIDE DEF a
  <2>2. b \in Dinode /\ b.type = r.type /\ b.size = 0 /\ b.direct = 0
    BY <2>1 DEF Dinode
  <2>. HIDE DEF b
  <2>3. c \in Dinode /\ c.type = r.type /\ c.size = 0 /\ c.direct = 0 /\ c.indirect = 0
    BY <2>2 DEF Dinode
  <2>4. Truncated(r) = c
    BY DEF Truncated, a, b, c
  <2>. QED
    BY <2>3, <2>4
<1>. DEFINE t == Truncated(r)
<1>. HIDE DEF t
<1>2. t \in Dinode /\ t.size = 0 /\ t.direct = 0 /\ t.indirect = 0 /\ Freed(r) = [t EXCEPT !.type = "none"]
  BY <1>1 DEF t, Freed
<1>3. /\ Freed(r) \in Dinode /\ Freed(r).type = "none" /\ Freed(r).size = 0
      /\ Freed(r).direct = 0 /\ Freed(r).indirect = 0
  BY <1>2 DEF Dinode
<1>. QED
  BY <1>1, <1>3

\* The part of iput() that frees the inode and its blocks.
LEMMA iput_freeInv ==
    ASSUME IInv, NEW p \in Proc, iput_free(p), UNCHANGED procvars, UNCHANGED filevars,
           calls' = calls, lost' = lost \cup Listed(Head(puts[p]).i)
    PROVE  IInv'
<1>. DEFINE i == Head(puts[p]).i
            r == Freed(inode[i])
<1>1. /\ DiskType /\ CacheType /\ ProcType
      /\ PutInv /\ LockInv /\ CacheInv /\ PinInv /\ FreeInv /\ BlkInv
  BY Parts
<1>2. /\ puts[p] # <<>> /\ Head(puts[p]).at = "free" /\ ~panicked
      /\ panicked' = bfree_panics(itrunc(inode[i])) /\ used' = bfree(itrunc(inode[i]))
      /\ Write(i, r) /\ ents' = [ents EXCEPT ![i] = NoEnts]
      /\ puts' = [puts EXCEPT ![p][1].at = "unlock"]
      /\ UNCHANGED <<ind, ref, valid, lock>>
  BY DEF iput_free, Freed
<1>3. /\ First(p) = i /\ i \in Inum
      /\ \A k, at : Iputting(p, k, at) <=> First(p) = k /\ at = Head(puts[p]).at
  BY <1>2, PutFacts
<1>15. lost' \subseteq Inum
  BY <1>1, <1>3, Parts DEF Listed, DiskType, RestType, Entry
<1>. HIDE DEF i
<1>4. lock[i] = p /\ Iputting(p, i, "free")
  BY <1>1, <1>2, <1>3 DEF LockInv, Holds
<1>5. inode[i] = dinode[i] /\ dinode[i] \in Dinode
  <2>1. lock[i] # None /\ valid[i]
    BY <1>1, <1>3, <1>4, InodeAssumption DEF CacheInv
  <2>2. ~\E q \in Proc : Iputting(q, i, "unlock")
    <3>1. \A q \in Proc : Iputting(q, i, "unlock") => lock[i] = q
      BY <1>1, <1>3 DEF LockInv, Holds
    <3>. QED
      BY <1>2, <1>3, <1>4, <3>1
  <2>. QED
    BY <1>1, <1>3, <2>1, <2>2 DEF CacheInv, Copy, DiskType
<1>6. /\ r \in Dinode /\ r.type = "none" /\ r.direct = 0 /\ r.indirect = 0 /\ r.size = 0
  BY <1>5, TruncRecord
<1>. HIDE DEF r
<1>7. /\ dinode' = [dinode EXCEPT ![i] = r] /\ inode' = [inode EXCEPT ![i] = r]
      /\ dinode' \in [Inum -> Dinode] /\ inode' \in [Inum -> Dinode]
      /\ \A k \in Inum : k # i => dinode'[k] = dinode[k] /\ inode'[k] = inode[k]
  BY <1>1, <1>2, <1>3, <1>6 DEF Write, DiskType, CacheType
<1>8. BlkInv' /\ FreeInv' /\ ~panicked' /\ used' \subseteq Block
  BY <1>1, <1>2, <1>3, <1>5, <1>6, <1>7, Itrunc
<1>9. DiskType' /\ CacheType'
  <2>1. ents' \in [Inum -> [Entry -> Inum \cup {0}]]
    BY <1>1, <1>2 DEF DiskType, NoEnts
  <2>2. panicked' \in BOOLEAN
    BY <1>2 DEF bfree_panics
  <2>. QED
    BY <1>1, <1>2, <1>7, <1>8, <2>1, <2>2 DEF DiskType, CacheType
<1>10. /\ \A q \in Proc : q # p => puts'[q] = puts[q]
       /\ \A k, at : Iputting(p, k, at)' <=> First(p) = k /\ at = "unlock"
  BY <1>1, <1>2, AtRow
<1>11. \A q \in Proc : \A k, at : q # p => (Iputting(q, k, at)' <=> Iputting(q, k, at))
  BY <1>10 DEF Iputting
<1>12. LockInv'
  <2>1. \A k \in Inum : lock'[k] = IF k # First(p) THEN lock[k] ELSE IF "unlock" = "drop" THEN None ELSE p
    BY <1>2, <1>3, <1>4
  <2>2. lock[First(p)] \in {None, p}
    BY <1>3, <1>4
  <2>. QED
    BY <1>2, <2>1, <2>2, AtLock
<1>13. CacheInv'
  <2>1. \A k \in Inum : k # i /\ Copy(k) => Copy(k)'
    BY <1>2, <1>7 DEF Copy
  <2>2. \A q \in Proc, k \in Inum : Iputting(q, k, "unlock") => Iputting(q, k, "unlock")'
    BY <1>2, <1>3, <1>11
  <2>3. ASSUME NEW k \in Inum
        PROVE  /\ lock'[k] # None => valid'[k]
               /\ valid'[k] => Copy(k)' \/ \E q \in Proc : Iputting(q, k, "unlock")'
    <3>1. CASE k = i
      <4>1. Iputting(p, k, "unlock")'
        BY <1>3, <1>10, <3>1
      <4>. QED
        BY <1>1, <1>2, <4>1 DEF CacheInv
    <3>2. CASE k # i
      BY <1>1, <1>2, <2>1, <2>2, <3>2 DEF CacheInv
    <3>. QED
      BY <3>1, <3>2
  <2>. QED
    BY <2>3 DEF CacheInv
<1>14. PinInv'
  <2>1. UNCHANGED <<pc, call, dp, ip>>
    BY DEF procvars
  <2>2. \A q \in Proc, k \in Inum : Pins(q, k)' <=> Pins(q, k)
    BY <2>1 DEF Pins
  <2>3. \A q \in Proc : ~Pins(q, i)
    BY <1>1, <1>3, <1>4 DEF PinInv
  <2>4. ASSUME NEW q \in Proc
        PROVE  PinRow(q)'
    <3>1. PinRow(q) /\ dp[q] \in Inum \cup {0} /\ ip[q] \in Inum \cup {0}
      BY <1>1 DEF PinInv, ProcType
    <3>2. pc[q] \in DirPCs => dp[q] # i /\ dp[q] \in Inum
      BY <2>3, <3>1, Parts DEF Pins, PtrInv, PtrRow, DirPCs
    <3>3. call[q].op = "link" => ip[q] # i
      BY <2>3 DEF Pins
    <3>. QED
      BY <1>2, <1>7, <2>1, <3>1, <3>2, <3>3 DEF PinRow
  <2>5. \A s \in Proc, k \in Inum, at \in {"free", "unlock"} :
           k # i => (Iputting(s, k, at)' => Iputting(s, k, at))
    BY <1>3, <1>10, <1>11
  <2>. QED
    BY <1>1, <2>2, <2>3, <2>4, <2>5 DEF PinInv
<1>. QED
  BY <1>2, <1>8, <1>9, <1>12, <1>13, <1>14, <1>15, AtStep

\* iput(), all parts.
LEMMA IputInv ==
    ASSUME IInv, NEW p \in Proc, Iput(p)
    PROVE  IInv'
<1>1. UNCHANGED procvars /\ UNCHANGED filevars /\ calls' = calls
  BY DEF Iput
<1>2. \/ (iput(p) \/ iput_unlock(p) \/ iput_drop(p)) /\ UNCHANGED <<calls, lost>>
      \/ iput_free(p) /\ lost' = lost \cup Listed(Head(puts[p]).i)
  BY DEF Iput
<1>. QED
  BY <1>1, <1>2, iputInv, iput_freeInv, iput_unlockInv, iput_dropInv

-----------------------------------------------------------------------------
(***************************************************************************)
(* Files and descriptors.                                                  *)
(***************************************************************************)
\* A step that concerns files: what it keeps of processes and of the cache.
LEMMA FileStep ==
    ASSUME IInv, NEW p \in Proc, NEW c, NEW a, Step(p, c, 0, 0, a, 0),
           c \in {"run", "pipealloc", "pipe"},
           DiskType', CacheType', FileType', RestType', PtrRow(p)',
           \A q \in Proc : q # p => cwd'[q] = cwd[q] /\ ofile'[q] = ofile[q],
           \A j \in Inum : lock'[j] = IF lock[j] = p THEN None ELSE lock[j],
           \A j \in Inum : /\ lock'[j] # None => valid'[j]
                           /\ valid'[j] => Copy(j)' \/ (valid[j] /\ ~Copy(j)),
           \A j \in Inum : dinode[j].type # "none" => dinode'[j].type = dinode[j].type,
           FileInv', FdSum', RefSum', FreeInv', BlkInv'
    PROVE  IInv'
<1>1. /\ DiskType /\ CacheType /\ ProcType /\ FileType /\ RestType
      /\ PtrInv /\ PutInv /\ LockInv /\ CacheInv /\ PinInv
  BY Parts
<1>2. ProcType' /\ Others(p) /\ ~panicked /\ pc'[p] = c /\ dp'[p] = 0 /\ ip'[p] = 0
  BY <1>1, StepRow DEF Step
<1>3. TypeOK'
  BY <1>2, TypeParts
<1>4. PtrInv'
  BY <1>1, <1>2, StepPtr
<1>5. PutInv'
  BY <1>1, StepPut
<1>6. LockInv'
  <2>1. Kept(c, 0, 0) = 0 /\ \A j \in Inum : j # 0
    BY DEF Kept, Inum
  <2>2. \A j \in Inum : lock'[j] = IF j = Kept(c, 0, 0) THEN p
                                   ELSE IF lock[j] = p THEN None ELSE lock[j]
    BY <2>1
  <2>. QED
    BY <1>1, <2>1, <2>2, StepLock
<1>7. CacheInv'
  BY <1>1, StepCache
<1>8. PinInv'
  <2>1. PinRow(p)'
    BY <1>2 DEF PinRow, DirPCs
  <2>2. \A i \in Inum : Pins(p, i)' => Pins(p, i) \/ lock[i] \in {None, p}
    BY <1>2 DEF Pins, DirPCs, Inum
  <2>. QED
    BY <1>1, <2>1, <2>2, StepPin
<1>. QED
  BY <1>3, <1>4, <1>5, <1>6, <1>7, <1>8 DEF IInv

\* The reference counts over such a step, with one file f that changes inodes.
LEMMA FileRef ==
    ASSUME IInv, FileType', NEW p \in Proc, NEW c, NEW a, Step(p, c, 0, 0, a, 0),
           \A q \in Proc : q # p => cwd'[q] = cwd[q],
           NEW f \in 1 .. NFILE, \A g \in 1 .. NFILE : g # f => FileIp(g)' = FileIp(g),
           \A k \in Inum : ref'[k] = ref[k] + (Is(cwd'[p], k) + Is(a, k) + Is(FileIp(f)', k))
                                     - (Is(cwd[p], k) + Is(dp[p], k) + Is(ip[p], k) + Is(FileIp(f), k))
    PROVE  RefSum'
<1>1. CacheType /\ ProcType /\ FileType /\ RefSum
  BY Parts
<1>2. /\ ProcType' /\ Others(p) /\ dp'[p] = 0 /\ ip'[p] = 0
      /\ First(p)' = a /\ Second(p)' = 0 /\ First(p) = 0 /\ Second(p) = 0
  BY <1>1, StepRow
<1>3. \A q \in Proc : q # p => /\ cwd'[q] = cwd[q] /\ dp'[q] = dp[q]
                               /\ ip'[q] = ip[q] /\ puts'[q] = puts[q]
  BY <1>2 DEF Others
<1>4. ASSUME NEW k \in Inum
      PROVE  ref'[k] = ref[k] + Ptrs(p, k)' - Ptrs(p, k) + Is(FileIp(f), k)' - Is(FileIp(f), k)
  <2>1. Is(0, k) = 0
    BY DEF Is, Inum
  <2>2. /\ Is(cwd'[p], k) \in {0, 1} /\ Is(a, k) \in {0, 1} /\ Is(FileIp(f)', k) \in {0, 1}
        /\ Is(cwd[p], k) \in {0, 1} /\ Is(dp[p], k) \in {0, 1} /\ Is(ip[p], k) \in {0, 1}
        /\ Is(FileIp(f), k) \in {0, 1} /\ ref[k] \in Nat
    BY <1>1 DEF Is, CacheType
  <2>3. Ptrs(p, k)' = Is(cwd'[p], k) + Is(a, k)
    BY <1>2, <2>1, <2>2 DEF Ptrs, Is
  <2>4. Ptrs(p, k) = Is(cwd[p], k) + Is(dp[p], k) + Is(ip[p], k)
    BY <1>2, <2>1, <2>2 DEF Ptrs
  <2>5. Is(FileIp(f), k)' = Is(FileIp(f)', k)
    BY DEF Is
  <2>6. PICK x1 \in {0, 1}, x2 \in {0, 1}, x3 \in {0, 1}, x4 \in {0, 1} :
           /\ x1 = Is(cwd[p], k) /\ x2 = Is(dp[p], k) /\ x3 = Is(ip[p], k) /\ x4 = Is(FileIp(f), k)
    BY <2>2, Zenon
  <2>7. PICK y1 \in {0, 1}, y2 \in {0, 1}, y3 \in {0, 1}, r \in Nat :
           /\ y1 = Is(cwd'[p], k) /\ y2 = Is(a, k) /\ y3 = Is(FileIp(f)', k) /\ r = ref[k]
    BY <2>2, Zenon
  <2>8. ref'[k] = r + (y1 + y2 + y3) - (x1 + x2 + x3 + x4)
    BY <2>6, <2>7, Zenon
  <2>9. r + (y1 + y2 + y3) - (x1 + x2 + x3 + x4) = r + (y1 + y2) - (x1 + x2 + x3) + y3 - x4
    BY ONLY TRUE
  <2>. QED
    BY <2>3, <2>4, <2>5, <2>6, <2>8, <2>9, <2>7, Zenon
<1>. QED
  BY <1>1, <1>2, <1>3, <1>4, RefMove

\* The descriptors of a file are those of q and those of others.
FdsOf(o) == [x \in Proc \X (1 .. NOFILE) |-> o[x[1]][x[2]]]
Elsewhere(o, q, f) == {x \in Proc \X (1 .. NOFILE) : x[1] # q /\ o[x[1]][x[2]] = f}
\* The count of all is the sum of the two.
LEMMA RowSplit ==
    ASSUME NEW o \in [Proc -> [1 .. NOFILE -> 0 .. NFILE]], NEW q \in Proc, NEW f
    PROVE  /\ NumOf(FdsOf(o), f) = Cardinality(Elsewhere(o, q, f)) + NumOf(o[q], f)
           /\ NumOf(FdsOf(o), f) \in Nat /\ NumOf(o[q], f) \in Nat
           /\ Cardinality(Elsewhere(o, q, f)) \in Nat
<1>. DEFINE S == 1 .. NOFILE
            A == {fd \in S : o[q][fd] = f}
            R == {<<q, fd>> : fd \in A}
            E == Elsewhere(o, q, f)
            D == FdsOf(o)
<1>1. IsFiniteSet(S) /\ IsFiniteSet(Proc \X S) /\ DOMAIN o[q] = S
  BY Finite
<1>2. E \subseteq Proc \X S /\ A \subseteq S
  BY DEF Elsewhere
<1>3. IsFiniteSet(E) /\ IsFiniteSet(A)
  BY <1>1, <1>2, FS_Subset
<1>4. E \cap R = {}
  BY DEF Elsewhere
<1>5. {x \in DOMAIN D : D[x] = f} = E \cup R
  <2>1. ASSUME NEW x \in DOMAIN D, D[x] = f
        PROVE  x \in E \cup R
    <3>1. PICK r \in Proc, fd \in S : x = <<r, fd>>
      BY DEF FdsOf
    <3>2. o[r][fd] = f
      BY <2>1, <3>1 DEF FdsOf
    <3>3. CASE r = q
      BY <3>1, <3>2, <3>3
    <3>4. CASE r # q
      BY <3>1, <3>2, <3>4 DEF Elsewhere
    <3>. QED
      BY <3>3, <3>4
  <2>2. ASSUME NEW x \in E
        PROVE  x \in DOMAIN D /\ D[x] = f
    BY <2>2 DEF Elsewhere, FdsOf
  <2>3. ASSUME NEW fd \in A
        PROVE  <<q, fd>> \in DOMAIN D /\ D[<<q, fd>>] = f
    BY <2>3 DEF FdsOf
  <2>. HIDE DEF A, E, D
  <2>. QED
    BY <2>1, <2>2, <2>3
<1>6. NumOf(o[q], f) = Cardinality(A)
  BY <1>1 DEF NumOf
<1>7. IsFiniteSet(R) /\ Cardinality(R) = Cardinality(A)
  <2>. HIDE DEF A
  <2>. QED
    BY <1>3, CardRow
<1>. HIDE DEF A, E, S, R
<1>8. Cardinality(E \cup R) = Cardinality(E) + Cardinality(R)
  BY <1>3, <1>4, <1>7, CardDisjoint
<1>9. Cardinality(E) \in Nat /\ Cardinality(A) \in Nat
  BY <1>3, FS_CardinalityType
<1>10. NumOf(D, f) = Cardinality(E \cup R)
  <2>. HIDE DEF D
  <2>. QED
    BY <1>5 DEF NumOf
<1>. QED
  BY <1>6, <1>7, <1>8, <1>9, <1>10 DEF E

\* The descriptors of one process change.
LEMMA RowMove ==
    ASSUME FileType, FileType', NEW q \in Proc, \A r \in Proc : r # q => ofile'[r] = ofile[r], NEW f
    PROVE  /\ NumOf(Fds', f) \in Nat /\ NumOf(Fds, f) \in Nat
           /\ NumOf(ofile[q], f) \in Nat /\ NumOf(ofile'[q], f) \in Nat
           /\ NumOf(Fds, f) >= NumOf(ofile[q], f)
           /\ NumOf(Fds', f) = NumOf(Fds, f) - NumOf(ofile[q], f) + NumOf(ofile'[q], f)
<1>1. Elsewhere(ofile', q, f) = Elsewhere(ofile, q, f)
  <2>1. \A x \in Proc \X (1 .. NOFILE) : x[1] # q => ofile'[x[1]] = ofile[x[1]]
    OBVIOUS
  <2>. QED
    BY <2>1 DEF Elsewhere
<1>2. Fds = FdsOf(ofile) /\ Fds' = FdsOf(ofile')
  BY DEF Fds, FdsOf
<1>3. /\ NumOf(Fds, f) = Cardinality(Elsewhere(ofile, q, f)) + NumOf(ofile[q], f)
      /\ NumOf(Fds, f) \in Nat /\ NumOf(ofile[q], f) \in Nat
      /\ Cardinality(Elsewhere(ofile, q, f)) \in Nat
  BY <1>2, RowSplit DEF FileType
<1>4. /\ NumOf(Fds', f) = Cardinality(Elsewhere(ofile', q, f)) + NumOf(ofile'[q], f)
      /\ NumOf(Fds', f) \in Nat /\ NumOf(ofile'[q], f) \in Nat
  BY <1>2, RowSplit DEF FileType
<1>. QED
  BY <1>1, <1>3, <1>4

\* The ends that a pipe() under way holds.
End(s, f) == IF f \in Range(s) THEN 1 ELSE 0
\* A step of p alone changes the count by what p's own pipe() lets go and takes.
LEMMA PipingMove ==
    ASSUME NEW p \in Proc, \A q \in Proc : q # p => ends'[q] = ends[q], NEW f
    PROVE  /\ Cardinality(Piping(f)) \in Nat /\ Cardinality(Piping(f)') \in Nat
           /\ Cardinality(Piping(f)') = Cardinality(Piping(f)) - End(ends[p], f) + End(ends'[p], f)
<1>. DEFINE A == Piping(f)
            B == Piping(f)'
<1>1. A \in SUBSET Proc /\ B \in SUBSET Proc
  BY DEF Piping
<1>2. \A q \in Proc : /\ q \in A <=> f \in Range(ends[q])
                      /\ q \in B <=> f \in Range(ends'[q])
  BY DEF Piping
<1>3. \A q \in Proc : q # p => (q \in A <=> q \in B)
  BY <1>2
<1>. HIDE DEF A, B
<1>4. /\ Cardinality(A) \in Nat /\ Cardinality(B) \in Nat
      /\ Cardinality(B) = Cardinality(A) - (IF p \in A THEN 1 ELSE 0)
                                         + (IF p \in B THEN 1 ELSE 0)
  BY <1>1, <1>3, Finite, CardMove
<1>5. /\ (IF p \in A THEN 1 ELSE 0) = End(ends[p], f)
      /\ (IF p \in B THEN 1 ELSE 0) = End(ends'[p], f)
  BY <1>2 DEF End
<1>. QED
  BY <1>4, <1>5 DEF A, B

\* Who may refer to a file.
LEMMA FileFacts ==
    ASSUME IInv, NEW f \in 1 .. NFILE
    PROVE  /\ file[f] \in FileRec /\ file[f].ref \in Nat
           /\ \A p \in Proc, fd \in 1 .. NOFILE :
                ofile[p][fd] = f => file[f].ref >= 1 /\ \A q \in Proc : f \notin Range(ends[q])
           /\ file[f].ref = 0 => file[f] = NoFile /\ \A q \in Proc : f \notin Range(ends[q])
           /\ \A p \in Proc : f \in Range(ends[p]) =>
                /\ file[f].ref = 1 /\ file[f].ip = 0
                /\ \A q \in Proc : q # p => f \notin Range(ends[q])
           /\ \A q \in Proc : file[f].ref >= NumOf(ofile[q], f) /\ NumOf(ofile[q], f) \in Nat
<1>1. FileType /\ FileInv /\ FdSum
  BY Parts
<1>2. file[f] \in FileRec /\ file[f].ref \in Nat
  BY <1>1 DEF FileType, FileRec
<1>. DEFINE A == Piping(f)
<1>3. A \in SUBSET Proc /\ \A q \in Proc : q \in A <=> f \in Range(ends[q])
  BY DEF Piping
<1>4. file[f].ref = NumOf(Fds, f) + Cardinality(A)
  BY <1>1 DEF FdSum
<1>. HIDE DEF A
<1>5. IsFiniteSet(A) /\ Cardinality(A) \in Nat
  BY <1>3, Finite, FS_Subset, FS_CardinalityType
<1>6. ASSUME NEW q \in Proc, f \in Range(ends[q])
      PROVE  file[f].ref = 1 /\ file[f].ip = 0
  <2>1. PICK k \in DOMAIN ends[q] : f = ends[q][k]
    BY <1>6 DEF Range
  <2>. QED
    BY <1>1, <2>1 DEF FileInv, EndRow
<1>7. \A q \in A : Cardinality(A) >= 1
  <2>1. Cardinality(A) = 0 => A = {}
    BY <1>5, FS_EmptySet
  <2>. QED
    BY <1>5, <2>1
<1>8. \A p, q \in A : p # q => Cardinality(A) >= 2
  <2>. SUFFICES ASSUME NEW p \in A, NEW q \in A, p # q
                PROVE  Cardinality(A) >= 2
    OBVIOUS
  <2>1. Cardinality(A \ {p}) = Cardinality(A) - 1
    BY <1>5, FS_RemoveElement
  <2>. DEFINE B == A \ {p}
  <2>2. IsFiniteSet(B) /\ q \in B
    BY <1>5, FS_Subset
  <2>3. Cardinality(B) = Cardinality(A) - 1
    BY <2>1
  <2>. HIDE DEF B
  <2>4. Cardinality(B) \in Nat /\ Cardinality(B) # 0
    BY <2>2, FS_CardinalityType, FS_EmptySet
  <2>. QED
    BY <1>5, <2>3, <2>4
<1>9. /\ NumOf(Fds, f) \in Nat
      /\ \A q \in Proc : /\ NumOf(ofile[q], f) \in Nat
                         /\ NumOf(Fds, f) >= NumOf(ofile[q], f)
  <2>1. ofile \in [Proc -> [1 .. NOFILE -> 0 .. NFILE]] /\ Fds = FdsOf(ofile)
    BY <1>1 DEF FileType, Fds, FdsOf
  <2>2. \A q \in Proc :
          /\ NumOf(FdsOf(ofile), f) = Cardinality(Elsewhere(ofile, q, f)) + NumOf(ofile[q], f)
          /\ NumOf(FdsOf(ofile), f) \in Nat /\ NumOf(ofile[q], f) \in Nat
          /\ Cardinality(Elsewhere(ofile, q, f)) \in Nat
    BY <2>1, RowSplit
  <2>3. \A q \in Proc : NumOf(ofile[q], f) \in Nat /\ NumOf(FdsOf(ofile), f) >= NumOf(ofile[q], f)
    BY <2>2
  <2>4. \E q : q \in Proc
    BY FsAssumption
  <2>. QED
    BY <2>1, <2>2, <2>3, <2>4
<1>10. ASSUME NEW p \in Proc, NEW fd \in 1 .. NOFILE, ofile[p][fd] = f
       PROVE  NumOf(ofile[p], f) >= 1
  <2>. DEFINE S == 1 .. NOFILE
  <2>1. IsFiniteSet(S) /\ DOMAIN ofile[p] = S /\ fd \in S
    BY <1>1, Finite DEF FileType
  <2>. HIDE DEF S
  <2>2. NumOf(ofile[p], f) >= Is(ofile[p][fd], f)
    BY <2>1, CountAtLeast
  <2>. QED
    BY <1>10, <2>2 DEF Is
<1>11. ASSUME NEW p \in Proc, NEW fd \in 1 .. NOFILE, ofile[p][fd] = f
       PROVE  file[f].ref >= 1 /\ \A q \in Proc : f \notin Range(ends[q])
  <2>1. NumOf(Fds, f) >= 1
    BY <1>9, <1>10, <1>11
  <2>2. ASSUME NEW q \in Proc, f \in Range(ends[q])
        PROVE  FALSE
    BY <1>3, <1>4, <1>5, <1>6, <1>7, <1>9, <2>1, <2>2
  <2>. QED
    BY <1>4, <1>5, <1>9, <2>1, <2>2
<1>12. file[f].ref = 0 => file[f] = NoFile /\ \A q \in Proc : f \notin Range(ends[q])
  BY <1>1, <1>6 DEF FileInv
<1>13. ASSUME NEW p \in Proc, f \in Range(ends[p])
       PROVE  /\ file[f].ref = 1 /\ file[f].ip = 0
              /\ \A q \in Proc : q # p => f \notin Range(ends[q])
  <2>1. ASSUME NEW q \in Proc, q # p, f \in Range(ends[q])
        PROVE  FALSE
    BY <1>3, <1>4, <1>5, <1>6, <1>8, <1>9, <1>13, <2>1
  <2>. QED
    BY <1>6, <1>13, <2>1
<1>14. \A q \in Proc : file[f].ref >= NumOf(ofile[q], f) /\ NumOf(ofile[q], f) \in Nat
  BY <1>4, <1>5, <1>9
<1>. QED
  BY <1>2, <1>11, <1>12, <1>13, <1>14

\* The counts of the files, when p's descriptors and its pipe() change.
LEMMA FdStep ==
    ASSUME IInv, FileType', NEW p \in Proc,
           \A q \in Proc : q # p => ofile'[q] = ofile[q] /\ ends'[q] = ends[q],
           \A f \in 1 .. NFILE :
              file'[f].ref = file[f].ref - (NumOf(ofile[p], f) + End(ends[p], f))
                                         + (NumOf(ofile'[p], f) + End(ends'[p], f))
    PROVE  FdSum'
<1>1. FileType /\ FdSum
  BY Parts
<1>. SUFFICES ASSUME NEW f \in 1 .. NFILE
              PROVE  file'[f].ref = NumOf(Fds', f) + Cardinality(Piping(f)')
  BY DEF FdSum, Piping, NumOf
<1>2. /\ NumOf(Fds', f) \in Nat /\ NumOf(Fds, f) \in Nat
      /\ NumOf(ofile[p], f) \in Nat /\ NumOf(ofile'[p], f) \in Nat
      /\ NumOf(Fds', f) = NumOf(Fds, f) - NumOf(ofile[p], f) + NumOf(ofile'[p], f)
  BY <1>1, RowMove
<1>3. /\ Cardinality(Piping(f)) \in Nat /\ Cardinality(Piping(f)') \in Nat
      /\ Cardinality(Piping(f)') = Cardinality(Piping(f)) - End(ends[p], f) + End(ends'[p], f)
  BY PipingMove
<1>4. file[f].ref = NumOf(Fds, f) + Cardinality(Piping(f))
  BY <1>1 DEF FdSum
<1>5. End(ends[p], f) \in {0, 1} /\ End(ends'[p], f) \in {0, 1}
  BY DEF End
<1>6. file'[f].ref = file[f].ref - (NumOf(ofile[p], f) + End(ends[p], f))
                                 + (NumOf(ofile'[p], f) + End(ends'[p], f))
  OBVIOUS
<1>. QED
  BY <1>2, <1>3, <1>4, <1>5, <1>6

\* The elements of a sequence.
LEMMA SeqElement ==
    ASSUME NEW S, NEW s \in Seq(S), NEW k \in DOMAIN s
    PROVE  s[k] \in S /\ s[k] \in Range(s)
  BY DEF Range

\* The files of the other pipe()s are not concerned.
LEMMA EndStep ==
    ASSUME IInv, NEW p \in Proc, NEW c, NEW a, Step(p, c, 0, 0, a, 0), EndRow(p)',
           \A q \in Proc : q # p => ends'[q] = ends[q],
           \A f \in 1 .. NFILE : file'[f] # file[f] => \A q \in Proc : q # p => f \notin Range(ends[q]),
           \A f \in 1 .. NFILE : file'[f].ref = 0 => file'[f] = NoFile
    PROVE  FileInv'
<1>1. ProcType /\ FileType /\ FileInv
  BY Parts
<1>2. Others(p)
  BY <1>1, StepRow
<1>3. ASSUME NEW q \in Proc, q # p
      PROVE  EndRow(q)'
  <2>1. EndRow(q) /\ ends'[q] = ends[q] /\ pc'[q] = pc[q] /\ ends[q] \in Seq(1 .. NFILE)
    BY <1>1, <1>2, <1>3 DEF FileInv, Others, FileType
  <2>2. ASSUME NEW k \in DOMAIN ends[q]
        PROVE  file'[ends[q][k]] = file[ends[q][k]]
    <3>1. ends[q][k] \in 1 .. NFILE /\ ends[q][k] \in Range(ends[q])
      BY <2>1, SeqElement
    <3>. QED
      BY <1>3, <3>1
  <2>. QED
    BY <2>1, <2>2 DEF EndRow
<1>. QED
  BY <1>3 DEF FileInv

\* A process that is not in a call with a path.
LEMMA RunFacts ==
    ASSUME IInv, NEW p \in Proc, pc[p] \in {"run", "pipealloc", "pipe"}, puts[p] = <<>>, ~panicked
    PROVE  /\ dp[p] = 0 /\ ip[p] = 0
           /\ \A k \in Inum : ref[k] \in Nat /\ Is(0, k) = 0 /\ \A x : Is(x, k) \in {0, 1}
           /\ \A c \in PCs, a \in Inum \cup {0} :
                /\ pc' = [pc EXCEPT ![p] = c] /\ puts' = [puts EXCEPT ![p] = Entries(a, 0)]
                /\ UNCHANGED <<call, path, dp, ip>>
                => Step(p, c, 0, 0, a, 0)
           /\ UNCHANGED <<pc, puts, call, path, dp, ip>> => Step(p, pc[p], 0, 0, 0, 0)
<1>1. ProcType /\ CacheType /\ PtrRow(p)
  BY Parts DEF PtrInv
<1>2. dp[p] = 0 /\ ip[p] = 0 /\ pc[p] \in PCs
  BY <1>1 DEF PtrRow, ProcType
<1>3. \A k \in Inum : ref[k] \in Nat /\ Is(0, k) = 0 /\ \A x : Is(x, k) \in {0, 1}
  BY <1>1 DEF Is, CacheType, Inum
<1>4. UNCHANGED <<call, path, dp, ip>> =>
         /\ dp' = [dp EXCEPT ![p] = 0] /\ ip' = [ip EXCEPT ![p] = 0]
         /\ \E cl \in Calls \cup {NoCall} : call' = [call EXCEPT ![p] = cl]
         /\ \E s \in Seq(Entry) : path' = [path EXCEPT ![p] = s]
  BY <1>1, <1>2, Moves
<1>5. ASSUME NEW c \in PCs, NEW a \in Inum \cup {0},
             pc' = [pc EXCEPT ![p] = c], puts' = [puts EXCEPT ![p] = Entries(a, 0)],
             UNCHANGED <<call, path, dp, ip>>
      PROVE  Step(p, c, 0, 0, a, 0)
  BY <1>4, <1>5 DEF Step, Move
<1>6. UNCHANGED <<pc, puts, call, path, dp, ip>> => Step(p, pc[p], 0, 0, 0, 0)
  <2>. HAVE UNCHANGED <<pc, puts, call, path, dp, ip>>
  <2>1. pc' = [pc EXCEPT ![p] = pc[p]] /\ puts' = [puts EXCEPT ![p] = Entries(0, 0)]
    BY <1>1, Moves
  <2>. QED
    BY <1>2, <1>5, <2>1
<1>. QED
  BY <1>2, <1>3, <1>5, <1>6

\* A step of such a process that leaves disk and cache alone, but for references.
LEMMA OnlyFiles ==
    ASSUME IInv, NEW p \in Proc, NEW c, NEW a, Step(p, c, 0, 0, a, 0),
           c \in {"run", "pipealloc", "pipe"}, pc[p] \in {"run", "pipealloc", "pipe"},
           UNCHANGED <<dinode, ents, used, ind, inode, valid, lock, lost>>,
           ref' \in [Inum -> Nat], panicked' \in BOOLEAN, calls' \in 0 .. MaxCalls,
           FileType', cwd'[p] = 0 => c = "run" /\ \A fd \in 1 .. NOFILE : ofile'[p][fd] = 0,
           \A q \in Proc : q # p => cwd'[q] = cwd[q] /\ ofile'[q] = ofile[q],
           FileInv', FdSum', RefSum'
    PROVE  IInv'
<1>1. DiskType /\ CacheType /\ ProcType /\ RestType /\ FreeInv /\ BlkInv
  BY Parts
<1>2. puts[p] = <<>> /\ ~panicked
  BY DEF Step
<1>3. \A j \in Inum : lock[j] # p
  BY <1>2, Unlocked
<1>4. DiskType' /\ CacheType' /\ RestType'
  BY <1>1 DEF DiskType, CacheType, RestType
<1>5. PtrRow(p)'
  <2>1. pc'[p] = c /\ dp'[p] = 0 /\ ip'[p] = 0
    BY <1>1, StepRow
  <2>. QED
    BY <2>1 DEF PtrRow
<1>6. \A j \in Inum : lock'[j] = IF lock[j] = p THEN None ELSE lock[j]
  BY <1>3
<1>7. \A j \in Inum : /\ lock'[j] # None => valid'[j]
                      /\ valid'[j] => Copy(j)' \/ (valid[j] /\ ~Copy(j))
  <2>1. \A j \in Inum : lock'[j] # None => valid'[j]
    BY CacheFacts
  <2>2. \A j \in Inum : Copy(j) => Copy(j)'
    BY <1>2 DEF Copy
  <2>. QED
    BY <2>1, <2>2
<1>8. FreeInv' /\ BlkInv'
  <2>1. \A j \in Inum : SameBlocks(j)
    BY DEF SameBlocks
  <2>. QED
    BY <1>1, <2>1, StepDisk
<1>. QED
  BY <1>4, <1>5, <1>6, <1>7, <1>8, FileStep

\* No file changes inodes.
LEMMA SameFileRef ==
    ASSUME IInv, FileType', NEW p \in Proc, NEW c, NEW a, Step(p, c, 0, 0, a, 0),
           dp[p] = 0, ip[p] = 0,
           \A q \in Proc : q # p => cwd'[q] = cwd[q],
           \A g \in 1 .. NFILE : FileIp(g)' = FileIp(g),
           \A k \in Inum : ref'[k] = ref[k] + (Is(cwd'[p], k) + Is(a, k)) - Is(cwd[p], k)
    PROVE  RefSum'
<1>1. 1 \in 1 .. NFILE
  BY FsAssumption
<1>2. ASSUME NEW k \in Inum, NEW x \in {0, 1}
      PROVE  ref'[k] = ref[k] + (Is(cwd'[p], k) + Is(a, k) + x)
                              - (Is(cwd[p], k) + Is(dp[p], k) + Is(ip[p], k) + x)
  <2>1. /\ Is(0, k) = 0 /\ Is(cwd'[p], k) \in {0, 1} /\ Is(a, k) \in {0, 1}
        /\ Is(cwd[p], k) \in {0, 1} /\ ref[k] \in Nat
    BY Parts DEF Is, Inum, CacheType
  <2>. QED
    BY <2>1
<1>. DEFINE f == 1
<1>3. FileIp(f)' = FileIp(f) /\ \A k \in Inum : Is(FileIp(f), k) \in {0, 1}
  BY <1>1 DEF Is
<1>4. \A k \in Inum : ref'[k] = ref[k] + (Is(cwd'[p], k) + Is(a, k) + Is(FileIp(f)', k))
                              - (Is(cwd[p], k) + Is(dp[p], k) + Is(ip[p], k) + Is(FileIp(f), k))
  BY <1>2, <1>3
<1>. HIDE DEF f
<1>5. f \in 1 .. NFILE
  BY <1>1 DEF f
<1>. QED
  BY <1>4, <1>5, FileRef

\* exit() puts the directory.
LEMMA exitInv ==
    ASSUME IInv, NEW p \in Proc, exit(p)
    PROVE  IInv'
<1>. DEFINE a == cwd[p]
<1>1. FileType /\ CacheType /\ ProcType /\ RestType /\ FileInv /\ FdSum
  BY Parts
<1>2. /\ pc[p] = "run" /\ puts[p] = <<>> /\ ~panicked /\ a # 0
      /\ calls < MaxCalls /\ calls' = calls + 1 /\ Put(p, <<a>>) /\ cwd' = [cwd EXCEPT ![p] = 0]
      /\ \A fd \in 1 .. NOFILE : ofile[p][fd] = 0
      /\ UNCHANGED <<pc, call, path, dp, ip, dinode, ents, used, ind>>
      /\ UNCHANGED <<inode, ref, valid, lock, panicked, ofile, ends, file, lost>>
  BY DEF exit, At, diskvars, cachevars, procvars
<1>3. a \in Inum
  BY <1>1, <1>2 DEF FileType
<1>4. puts' = [puts EXCEPT ![p] = Entries(a, 0)] /\ pc' = [pc EXCEPT ![p] = "run"]
  BY <1>1, <1>2, <1>3, PutEntries DEF ProcType
<1>5. /\ Step(p, "run", 0, 0, a, 0) /\ dp[p] = 0 /\ ip[p] = 0
      /\ \A k \in Inum : ref[k] \in Nat /\ Is(0, k) = 0 /\ \A x : Is(x, k) \in {0, 1}
  BY <1>2, <1>3, <1>4, RunFacts DEF PCs
<1>6. FileType' /\ cwd'[p] = 0 /\ \A q \in Proc : q # p => cwd'[q] = cwd[q]
  BY <1>1, <1>2 DEF FileType
<1>7. FileInv' /\ FdSum'
  <2>1. \A f \in 1 .. NFILE : file'[f].ref = 0 => file'[f] = NoFile
    BY <1>1, <1>2 DEF FileInv
  <2>2. EndRow(p)'
    BY <1>1, <1>2 DEF FileInv, EndRow
  <2>3. FileInv'
    BY <1>2, <1>5, <2>1, <2>2, EndStep
  <2>4. Fds' = Fds /\ \A f : Piping(f)' = Piping(f)
    BY <1>2 DEF Fds, Piping
  <2>. QED
    BY <1>1, <1>2, <2>3, <2>4 DEF FdSum
<1>8. RefSum'
  <2>1. \A g \in 1 .. NFILE : FileIp(g)' = FileIp(g)
    BY <1>2 DEF FileIp
  <2>2. \A k \in Inum : ref'[k] = ref[k] + (Is(cwd'[p], k) + Is(a, k)) - Is(cwd[p], k)
    BY <1>2, <1>5, <1>6
  <2>. HIDE DEF a
  <2>. QED
    BY <1>5, <1>6, <2>1, <2>2, SameFileRef
<1>9. ref' \in [Inum -> Nat] /\ panicked' \in BOOLEAN /\ calls' \in 0 .. MaxCalls
  BY <1>1, <1>2, FsAssumption DEF CacheType, RestType
<1>. HIDE DEF a
<1>. QED
  BY <1>2, <1>5, <1>6, <1>7, <1>8, <1>9, OnlyFiles

\* A new count for a file.
WithRef(r, m) == [r EXCEPT !.ref = m]
\* It differs from the old one in nothing else.
LEMMA RefRecord ==
    ASSUME NEW r \in FileRec, NEW m \in Nat
    PROVE  /\ WithRef(r, m) \in FileRec /\ WithRef(r, m).ref = m /\ WithRef(r, m).ip = r.ip
           /\ r.ref = m => WithRef(r, m) = r
           /\ r.ref \in Nat
  BY DEF FileRec, WithRef

\* fork() gives q what p has.
LEMMA forkInv ==
    ASSUME IInv, NEW p \in Proc, NEW q \in Proc, fork(p, q)
    PROVE  IInv'
<1>. DEFINE s == cwd[p]
            D(f) == NumOf(ofile[p], f)
<1>1. FileType /\ CacheType /\ ProcType /\ RestType /\ FileInv /\ PtrRow(q)
  BY Parts DEF PtrInv
<1>2. /\ ~panicked /\ s # 0 /\ cwd[q] = 0 /\ puts[q] = <<>> /\ p # q
      /\ calls < MaxCalls /\ calls' = calls + 1
      /\ ofile' = [ofile EXCEPT ![q] = ofile[p]] /\ cwd' = [cwd EXCEPT ![q] = s]
      /\ ref' = iget_ref(s)
      /\ UNCHANGED <<pc, call, path, dp, ip, puts, dinode, ents, used, ind>>
      /\ UNCHANGED <<inode, valid, lock, panicked, ends, lost>>
  BY DEF fork, At, diskvars, procvars
<1>3. s \in Inum /\ pc[q] = "run" /\ \A fd \in 1 .. NOFILE : ofile[q][fd] = 0
  BY <1>1, <1>2 DEF FileType, PtrRow
<1>4. file' = [f \in 1 .. NFILE |-> WithRef(file[f], file[f].ref + D(f))]
  <2>1. DOMAIN ofile[p] = 1 .. NOFILE
    BY <1>1 DEF FileType
  <2>2. \A f : D(f) = Cardinality({fd \in 1 .. NOFILE : ofile[p][fd] = f})
    BY <2>1 DEF NumOf
  <2>. QED
    BY <2>2 DEF fork, WithRef
<1>5. \A f \in 1 .. NFILE : /\ file[f] \in FileRec /\ file[f].ref \in Nat
                            /\ D(f) \in Nat /\ file[f].ref >= D(f)
  BY FileFacts
<1>6. ASSUME NEW f \in 1 .. NFILE
      PROVE  /\ file'[f] \in FileRec /\ file'[f].ref = file[f].ref + D(f) /\ file'[f].ip = file[f].ip
             /\ D(f) = 0 => file'[f] = file[f]
  <2>. DEFINE m == file[f].ref + D(f)
  <2>1. file'[f] = WithRef(file[f], m)
    BY <1>4
  <2>. HIDE DEF D
  <2>2. file[f] \in FileRec /\ m \in Nat /\ (D(f) = 0 => m = file[f].ref)
    BY <1>5
  <2>3. m = file[f].ref + D(f)
    OBVIOUS
  <2>. HIDE DEF m
  <2>4. /\ WithRef(file[f], m) \in FileRec /\ WithRef(file[f], m).ref = m
        /\ WithRef(file[f], m).ip = file[f].ip
        /\ file[f].ref = m => WithRef(file[f], m) = file[f]
    BY <2>2, RefRecord
  <2>. QED
    BY <2>1, <2>2, <2>3, <2>4
<1>7. FileType' /\ cwd'[q] = s /\ ofile'[q] = ofile[p]
      /\ \A r \in Proc : r # q => cwd'[r] = cwd[r] /\ ofile'[r] = ofile[r]
  <2>1. DOMAIN file' = 1 .. NFILE /\ file' = [f \in DOMAIN file' |-> file'[f]]
    BY <1>4
  <2>2. file' \in [1 .. NFILE -> FileRec]
    BY <1>6, <2>1
  <2>. QED
    BY <1>1, <1>2, <1>3, <2>2 DEF FileType
<1>8. /\ Step(q, "run", 0, 0, 0, 0) /\ dp[q] = 0 /\ ip[q] = 0
      /\ \A k \in Inum : ref[k] \in Nat /\ Is(0, k) = 0 /\ \A x : Is(x, k) \in {0, 1}
  BY <1>2, <1>3, RunFacts
<1>9. FdSum'
  <2>1. ASSUME NEW f \in 1 .. NFILE
        PROVE  NumOf(ofile[q], f) = 0
    <3>1. DOMAIN ofile[q] = 1 .. NOFILE /\ f # 0
      BY <1>1 DEF FileType
    <3>2. {fd \in DOMAIN ofile[q] : ofile[q][fd] = f} = {}
      BY <1>3, <3>1
    <3>. QED
      BY <3>2, FS_EmptySet DEF NumOf
  <2>2. \A f \in 1 .. NFILE : End(ends[q], f) \in {0, 1} /\ End(ends'[q], f) = End(ends[q], f)
    BY <1>2 DEF End
  <2>3. \A f \in 1 .. NFILE : NumOf(ofile'[q], f) = D(f)
    BY <1>7
  <2>. HIDE DEF D
  <2>4. \A f \in 1 .. NFILE :
              file'[f].ref = file[f].ref - (NumOf(ofile[q], f) + End(ends[q], f))
                                         + (NumOf(ofile'[q], f) + End(ends'[q], f))
    BY <1>5, <1>6, <2>1, <2>2, <2>3
  <2>5. \A r \in Proc : r # q => ofile'[r] = ofile[r] /\ ends'[r] = ends[r]
    BY <1>2, <1>7
  <2>. QED
    BY <1>7, <2>4, <2>5, FdStep
<1>10. ASSUME NEW f \in 1 .. NFILE, NEW r \in Proc, f \in Range(ends[r])
       PROVE  D(f) = 0
  <2>1. \A fd \in 1 .. NOFILE : ofile[p][fd] # f
    BY <1>10, FileFacts
  <2>2. {fd \in DOMAIN ofile[p] : ofile[p][fd] = f} = {}
    BY <1>1, <2>1 DEF FileType
  <2>. QED
    BY <2>2, FS_EmptySet DEF NumOf
<1>11. FileInv'
  <2>1. \A f \in 1 .. NFILE : file'[f] # file[f] => \A r \in Proc : f \notin Range(ends[r])
    BY <1>6, <1>10
  <2>2. ASSUME NEW f \in 1 .. NFILE, file'[f].ref = 0
        PROVE  file'[f] = NoFile
    <3>. HIDE DEF D
    <3>1. file[f].ref = 0 /\ D(f) = 0
      BY <1>5, <1>6, <2>2
    <3>. QED
      BY <1>1, <1>6, <3>1 DEF FileInv
  <2>3. EndRow(q)'
    <3>1. ends[q] = <<>> /\ ends'[q] = <<>> /\ pc'[q] = "run"
      BY <1>1, <1>2, <1>3 DEF FileInv, EndRow
    <3>. QED
      BY <3>1 DEF EndRow
  <2>4. \A r \in Proc : r # q => ends'[r] = ends[r]
    BY <1>2
  <2>. QED
    BY <1>8, <2>1, <2>2, <2>3, <2>4, EndStep
<1>12. ref' \in [Inum -> Nat] /\ \A k \in Inum : ref'[k] = ref[k] + Is(s, k)
  BY <1>1, <1>2, <1>3, IgetFacts
<1>13. RefSum'
  <2>1. \A f \in 1 .. NFILE : FileIp(f)' = FileIp(f)
    <3>. HIDE DEF D
    <3>. QED
      BY <1>5, <1>6 DEF FileIp
  <2>2. \A k \in Inum : ref'[k] = ref[k] + (Is(cwd'[q], k) + Is(0, k)) - Is(cwd[q], k)
    BY <1>2, <1>7, <1>8, <1>12
  <2>. QED
    BY <1>7, <1>8, <2>1, <2>2, SameFileRef
<1>14. panicked' \in BOOLEAN /\ calls' \in 0 .. MaxCalls
  BY <1>1, <1>2, FsAssumption DEF CacheType, RestType
<1>. HIDE DEF s, D
<1>. QED
  BY <1>2, <1>3, <1>7, <1>8, <1>9, <1>11, <1>12, <1>13, <1>14, OnlyFiles

\* One descriptor of p changes.
SetFd(p, e, x) == ofile' = [ofile EXCEPT ![p][e] = x]
\* The descriptors of p change by the old value and the new one, and those of
\* other processes do not.
LEMMA FdSet ==
    ASSUME FileType, NEW p \in Proc, NEW e \in 1 .. NOFILE, NEW x \in 0 .. NFILE,
           SetFd(p, e, x)
    PROVE  /\ ofile' \in [Proc -> [1 .. NOFILE -> 0 .. NFILE]]
           /\ \A q \in Proc : q # p => ofile'[q] = ofile[q]
           /\ \A g \in 1 .. NFILE :
                     /\ NumOf(ofile[p], g) \in Nat /\ NumOf(ofile'[p], g) \in Nat
                     /\ NumOf(ofile'[p], g) = NumOf(ofile[p], g) - Is(ofile[p][e], g) + Is(x, g)
<1>. DEFINE S == 1 .. NOFILE
            R == [S -> 0 .. NFILE]
<1>1. ofile \in [Proc -> R] /\ ofile[p] \in R
  BY DEF FileType
<1>2. ofile'[p] = [ofile[p] EXCEPT ![e] = x] /\ \A q \in Proc : q # p => ofile'[q] = ofile[q]
  BY <1>1 DEF SetFd
<1>3. ofile'[p] \in R /\ ofile'[p][e] = x /\ \A d \in S : d # e => ofile'[p][d] = ofile[p][d]
  BY <1>1, <1>2
<1>4. ofile' \in [Proc -> R]
  BY <1>1, <1>2, <1>3 DEF SetFd
<1>5. DOMAIN ofile[p] = S /\ DOMAIN ofile'[p] = S /\ IsFiniteSet(S) /\ e \in S
  BY <1>1, <1>3, Finite
<1>6. ASSUME NEW g \in 1 .. NFILE
      PROVE  /\ NumOf(ofile[p], g) \in Nat /\ NumOf(ofile'[p], g) \in Nat
             /\ NumOf(ofile'[p], g) = NumOf(ofile[p], g) - Is(ofile[p][e], g) + Is(x, g)
  <2>. HIDE DEF S
  <2>1. /\ NumOf(ofile[p], g) \in Nat /\ NumOf(ofile'[p], g) \in Nat
        /\ NumOf(ofile'[p], g) = NumOf(ofile[p], g) - Is(ofile[p][e], g) + Is(ofile'[p][e], g)
    <3>1. OneMove(S, ofile[p], ofile'[p], e)
      BY <1>3, <1>5 DEF OneMove
    <3>. QED
      BY ONLY <3>1, CountMove
  <2>. QED
    BY <1>3, <2>1
<1>. QED
  BY <1>2, <1>4, <1>6

\* A step that changes one file f, and one descriptor.
LEMMA FileSet ==
    ASSUME IInv, NEW p \in Proc, NEW a, Step(p, "run", 0, 0, a, 0),
           pc[p] \notin {"pipealloc", "pipe"},
           NEW f \in 1 .. NFILE, NEW r \in FileRec, file' = [file EXCEPT ![f] = r],
           r.ref = 0 => r = NoFile, \A q \in Proc : f \notin Range(ends[q]),
           NEW e \in 1 .. NOFILE, NEW x \in 0 .. NFILE, SetFd(p, e, x),
           UNCHANGED <<cwd, ends>>,
           r.ref = file[f].ref - Is(ofile[p][e], f) + Is(x, f),
           \A g \in 1 .. NFILE : g # f => Is(ofile[p][e], g) = Is(x, g)
    PROVE  /\ FileType' /\ FdSum' /\ FileInv'
           /\ \A g \in 1 .. NFILE : g # f => FileIp(g)' = FileIp(g)
           /\ FileIp(f)' = IF r.ref > 0 THEN r.ip ELSE 0
           /\ \A q \in Proc : q # p => cwd'[q] = cwd[q] /\ ofile'[q] = ofile[q]
<1>1. FileType /\ ProcType /\ FileInv
  BY Parts
<1>2. file'[f] = r /\ \A g \in 1 .. NFILE : g # f => file'[g] = file[g]
  BY <1>1 DEF FileType
<1>3. file' \in [1 .. NFILE -> FileRec]
  BY <1>1 DEF FileType
<1>4. /\ ofile' \in [Proc -> [1 .. NOFILE -> 0 .. NFILE]]
      /\ \A q \in Proc : q # p => ofile'[q] = ofile[q]
      /\ \A g \in 1 .. NFILE :
                /\ NumOf(ofile[p], g) \in Nat /\ NumOf(ofile'[p], g) \in Nat
                /\ NumOf(ofile'[p], g) = NumOf(ofile[p], g) - Is(ofile[p][e], g) + Is(x, g)
  BY <1>1, FdSet
<1>5. FileType'
  BY <1>1, <1>3, <1>4 DEF FileType
<1>6. ASSUME NEW g \in 1 .. NFILE
      PROVE  file'[g].ref = file[g].ref - (NumOf(ofile[p], g) + End(ends[p], g))
                                        + (NumOf(ofile'[p], g) + End(ends'[p], g))
  <2>1. End(ends[p], g) \in {0, 1} /\ End(ends'[p], g) = End(ends[p], g)
    BY DEF End
  <2>2. file[g].ref \in Nat /\ Is(ofile[p][e], g) \in {0, 1} /\ Is(x, g) \in {0, 1}
    BY <1>1 DEF FileType, FileRec, Is
  <2>3. file'[g].ref = file[g].ref - Is(ofile[p][e], g) + Is(x, g)
    BY <1>2, <2>2
  <2>4. /\ NumOf(ofile[p], g) \in Nat /\ NumOf(ofile'[p], g) \in Nat
        /\ NumOf(ofile'[p], g) = NumOf(ofile[p], g) - Is(ofile[p][e], g) + Is(x, g)
    BY <1>4
  <2>. QED
    BY ONLY <2>1, <2>2, <2>3, <2>4
<1>7. FdSum'
  BY <1>4, <1>5, <1>6, FdStep
<1>8. FileInv'
  <2>1. \A g \in 1 .. NFILE : file'[g] # file[g] => \A q \in Proc : q # p => g \notin Range(ends[q])
    BY <1>2
  <2>2. \A g \in 1 .. NFILE : file'[g].ref = 0 => file'[g] = NoFile
    BY <1>1, <1>2 DEF FileInv
  <2>3. ends[p] = <<>> /\ pc'[p] = "run"
    BY <1>1, StepRow DEF FileInv, EndRow
  <2>4. EndRow(p)'
    BY <2>3 DEF EndRow
  <2>. QED
    BY <2>1, <2>2, <2>4, EndStep
<1>9. \A g \in 1 .. NFILE : g # f => FileIp(g)' = FileIp(g)
  BY <1>2 DEF FileIp
<1>10. FileIp(f)' = IF r.ref > 0 THEN r.ip ELSE 0
  BY <1>2 DEF FileIp
<1>. QED
  BY <1>4, <1>5, <1>7, <1>8, <1>9, <1>10

\* A call on a descriptor finds a file.
LEMMA OnFdFacts ==
    ASSUME IInv, NEW p \in Proc, NEW fd \in 1 .. NOFILE, OnFd(p, fd)
    PROVE  /\ pc[p] = "run" /\ puts[p] = <<>> /\ ~panicked /\ cwd[p] # 0 /\ calls < MaxCalls
           /\ ofile[p][fd] \in 1 .. NFILE /\ file[ofile[p][fd]] \in FileRec
           /\ file[ofile[p][fd]].ref \in Nat /\ file[ofile[p][fd]].ref >= 1
           /\ \A q \in Proc : ofile[p][fd] \notin Range(ends[q])
<1>1. FileType
  BY Parts
<1>2. /\ pc[p] = "run" /\ puts[p] = <<>> /\ ~panicked /\ cwd[p] # 0 /\ calls < MaxCalls
      /\ ofile[p][fd] # 0
  BY DEF OnFd, At
<1>3. ofile[p][fd] \in 1 .. NFILE
  BY <1>1, <1>2, FsAssumption DEF FileType
<1>. QED
  BY <1>2, <1>3, FileFacts

\* dup() takes a free descriptor and counts it.
LEMMA sys_dupInv ==
    ASSUME IInv, NEW p \in Proc, NEW fd \in 1 .. NOFILE, sys_dup(p, fd)
    PROVE  IInv'
<1>1. FileType /\ CacheType /\ ProcType /\ RestType
  BY Parts
<1>2. OnFd(p, fd)
  BY DEF sys_dup
<1>0. PICK f \in 1 .. NFILE : f = ofile[p][fd]
  BY <1>2, OnFdFacts
<1>. DEFINE m == file[f].ref + 1
            r == WithRef(file[f], m)
<1>3. /\ pc[p] = "run" /\ puts[p] = <<>> /\ ~panicked /\ cwd[p] # 0 /\ calls < MaxCalls
      /\ f \in 1 .. NFILE /\ file[f] \in FileRec /\ file[f].ref \in Nat /\ file[f].ref >= 1
      /\ \A q \in Proc : f \notin Range(ends[q])
  BY <1>0, <1>2, OnFdFacts
<1>4. /\ calls' = calls + 1 /\ panicked' = (file[f].ref < 1)
      /\ UNCHANGED <<pc, call, path, dp, ip, puts, dinode, ents, used, ind>>
      /\ UNCHANGED <<inode, ref, valid, lock, cwd, ends, lost>>
  BY <1>0 DEF sys_dup, diskvars, cachevars, procvars
<1>5. file' = [file EXCEPT ![f] = r]
  BY <1>0 DEF sys_dup, filedup, WithRef
<1>6. PICK e \in fdalloc(p) : SetFd(p, e, f)
  BY <1>0 DEF sys_dup, SetFd
<1>7. e \in 1 .. NOFILE /\ ofile[p][e] = 0
  BY DEF fdalloc
<1>8. m \in Nat /\ m = file[f].ref + 1 /\ m > 0
  BY <1>3
<1>. HIDE DEF m
<1>9. r \in FileRec /\ r.ref = m /\ r.ip = file[f].ip
  BY <1>3, <1>8, RefRecord
<1>10. /\ Step(p, "run", 0, 0, 0, 0) /\ dp[p] = 0 /\ ip[p] = 0
       /\ \A k \in Inum : ref[k] \in Nat /\ Is(0, k) = 0 /\ \A x : Is(x, k) \in {0, 1}
  BY <1>3, <1>4, RunFacts
<1>. HIDE DEF r
<1>11. /\ f \in 0 .. NFILE /\ r.ref = file[f].ref - Is(ofile[p][e], f) + Is(f, f)
       /\ \A g \in 1 .. NFILE : g # f => Is(ofile[p][e], g) = Is(f, g)
  BY <1>3, <1>7, <1>8, <1>9 DEF Is
<1>12. /\ FileType' /\ FdSum' /\ FileInv'
       /\ \A g \in 1 .. NFILE : g # f => FileIp(g)' = FileIp(g)
       /\ FileIp(f)' = IF r.ref > 0 THEN r.ip ELSE 0
       /\ \A q \in Proc : q # p => cwd'[q] = cwd[q] /\ ofile'[q] = ofile[q]
  <2>1. r.ref = 0 => r = NoFile
    BY <1>8, <1>9
  <2>2. pc[p] \notin {"pipealloc", "pipe"} /\ UNCHANGED <<cwd, ends>>
    BY <1>3, <1>4
  <2>. QED
    BY <1>3, <1>5, <1>6, <1>7, <1>9, <1>10, <1>11, <2>1, <2>2, FileSet
<1>13. RefSum'
  <2>1. FileIp(f) = file[f].ip /\ FileIp(f)' = file[f].ip
    BY <1>3, <1>8, <1>9, <1>12 DEF FileIp
  <2>2. \A g \in 1 .. NFILE : FileIp(g)' = FileIp(g)
    BY <1>12, <2>1
  <2>3. \A k \in Inum : ref'[k] = ref[k] + (Is(cwd'[p], k) + Is(0, k)) - Is(cwd[p], k)
    BY <1>4, <1>10
  <2>. QED
    BY <1>10, <1>12, <2>2, <2>3, SameFileRef
<1>14. ref' \in [Inum -> Nat] /\ panicked' \in BOOLEAN /\ calls' \in 0 .. MaxCalls
  BY <1>1, <1>3, <1>4, FsAssumption DEF CacheType, RestType
<1>15. cwd'[p] # 0
  BY <1>3, <1>4
<1>. QED
  BY <1>3, <1>4, <1>10, <1>12, <1>13, <1>14, <1>15, OnlyFiles

\* close() of the last descriptor puts the inode.
LEMMA sys_closeInv ==
    ASSUME IInv, NEW p \in Proc, NEW fd \in 1 .. NOFILE, sys_close(p, fd)
    PROVE  IInv'
<1>1. FileType /\ CacheType /\ ProcType /\ RestType
  BY Parts
<1>2. OnFd(p, fd)
  BY DEF sys_close
<1>0. PICK f \in 1 .. NFILE : f = ofile[p][fd]
  BY <1>2, OnFdFacts
<1>. DEFINE last == file[f].ref = 1
            m == file[f].ref - 1
            a == IF last THEN file[f].ip ELSE 0
            r == IF last THEN NoFile ELSE WithRef(file[f], m)
<1>3. /\ pc[p] = "run" /\ puts[p] = <<>> /\ ~panicked /\ cwd[p] # 0 /\ calls < MaxCalls
      /\ f \in 1 .. NFILE /\ file[f] \in FileRec /\ file[f].ref \in Nat /\ file[f].ref >= 1
      /\ \A q \in Proc : f \notin Range(ends[q])
  BY <1>0, <1>2, OnFdFacts
<1>4. /\ calls' = calls + 1 /\ panicked' = (file[f].ref < 1)
      /\ UNCHANGED <<pc, call, path, dp, ip, dinode, ents, used, ind>>
      /\ UNCHANGED <<inode, ref, valid, lock, cwd, ends, lost>>
  BY <1>0 DEF sys_close, diskvars, cachevars, procvars
<1>5. file' = [file EXCEPT ![f] = r]
  <2>1. file' = fileclose(f)
    BY <1>0 DEF sys_close
  <2>2. CASE last
    BY <1>1, <2>1, <2>2 DEF fileclose, FileType
  <2>3. CASE ~last
    BY <1>1, <2>1, <2>3 DEF fileclose, FileType, WithRef
  <2>. QED
    BY <2>2, <2>3
<1>6. SetFd(p, fd, 0)
  BY DEF sys_close, SetFd
<1>7. a \in Inum \cup {0} /\ file[f].ip \in Inum \cup {0}
  BY <1>3 DEF FileRec
<1>8. puts' = [puts EXCEPT ![p] = Entries(a, 0)]
  <2>1. Put(p, IF last /\ file[f].ip # 0 THEN <<file[f].ip>> ELSE <<>>)
    BY <1>0 DEF sys_close
  <2>2. CASE a = 0
    <3>1. Put(p, <<>>)
      BY <2>1, <2>2
    <3>. QED
      BY <1>1, <2>2, <3>1, PutEntries
  <2>3. CASE a # 0
    <3>1. Put(p, <<a>>) /\ a \in Inum
      BY <1>7, <2>1, <2>3
    <3>. QED
      BY <1>1, <3>1, PutEntries
  <2>. QED
    BY <2>2, <2>3
<1>9. pc' = [pc EXCEPT ![p] = "run"]
  BY <1>1, <1>3, <1>4 DEF ProcType
<1>10. /\ Step(p, "run", 0, 0, a, 0) /\ dp[p] = 0 /\ ip[p] = 0
       /\ \A k \in Inum : ref[k] \in Nat /\ Is(0, k) = 0 /\ \A x : Is(x, k) \in {0, 1}
  <2>. HIDE DEF a
  <2>. QED
    BY <1>3, <1>4, <1>7, <1>8, <1>9, RunFacts DEF PCs
<1>11. m \in Nat /\ m = file[f].ref - 1 /\ (last => m = 0) /\ (~last => m > 0)
  BY <1>3
<1>. HIDE DEF m
<1>12. r \in FileRec /\ r.ref = m /\ (r.ref = 0 => r = NoFile) /\ (~last => r.ip = file[f].ip)
  <2>1. NoFile \in FileRec /\ NoFile.ref = 0
    BY DEF NoFile, FileRec, MAXFILE
  <2>2. /\ WithRef(file[f], m) \in FileRec /\ WithRef(file[f], m).ref = m
        /\ WithRef(file[f], m).ip = file[f].ip
    BY <1>3, <1>11, RefRecord
  <2>. QED
    BY <1>11, <2>1, <2>2
<1>13. FileIp(f) = file[f].ip /\ a = (IF last THEN file[f].ip ELSE 0)
  BY <1>3 DEF FileIp
<1>. HIDE DEF r, a
<1>14. /\ 0 \in 0 .. NFILE /\ r.ref = file[f].ref - Is(ofile[p][fd], f) + Is(0, f)
       /\ \A g \in 1 .. NFILE : g # f => Is(ofile[p][fd], g) = Is(0, g)
  BY <1>0, <1>3, <1>11, <1>12, FsAssumption DEF Is
<1>15. /\ FileType' /\ FdSum' /\ FileInv'
       /\ \A g \in 1 .. NFILE : g # f => FileIp(g)' = FileIp(g)
       /\ FileIp(f)' = IF r.ref > 0 THEN r.ip ELSE 0
       /\ \A q \in Proc : q # p => cwd'[q] = cwd[q] /\ ofile'[q] = ofile[q]
  <2>1. pc[p] \notin {"pipealloc", "pipe"} /\ UNCHANGED <<cwd, ends>>
    BY <1>3, <1>4
  <2>. QED
    BY <1>3, <1>5, <1>6, <1>10, <1>12, <1>14, <2>1, FileSet
<1>16. RefSum'
  <2>1. FileIp(f)' = IF last THEN 0 ELSE file[f].ip
    BY <1>11, <1>12, <1>15
  <2>2. ASSUME NEW k \in Inum
        PROVE  ref'[k] = ref[k] + (Is(cwd'[p], k) + Is(a, k) + Is(FileIp(f)', k))
                                - (Is(cwd[p], k) + Is(dp[p], k) + Is(ip[p], k) + Is(FileIp(f), k))
    <3>1. /\ ref'[k] = ref[k] /\ ref[k] \in Nat /\ Is(dp[p], k) = 0 /\ Is(ip[p], k) = 0
          /\ Is(cwd'[p], k) = Is(cwd[p], k) /\ Is(cwd[p], k) \in {0, 1}
      BY <1>4, <1>10
    <3>2. Is(a, k) + Is(FileIp(f)', k) = Is(FileIp(f), k) /\ Is(FileIp(f), k) \in {0, 1}
          /\ Is(a, k) \in {0, 1} /\ Is(FileIp(f)', k) \in {0, 1}
      BY <1>10, <1>13, <2>1
    <3>. QED
      BY ONLY <3>1, <3>2
  <2>. QED
    BY <1>10, <1>15, <2>2, FileRef
<1>17. ref' \in [Inum -> Nat] /\ panicked' \in BOOLEAN /\ calls' \in 0 .. MaxCalls
  BY <1>1, <1>3, <1>4, FsAssumption DEF CacheType, RestType
<1>18. cwd'[p] # 0
  BY <1>3, <1>4
<1>. QED
  BY <1>3, <1>4, <1>10, <1>15, <1>16, <1>17, <1>18, OnlyFiles

\* A new offset for a file.
WithOff(r, m) == [r EXCEPT !.off = m]
\* It differs from the old one in nothing else.
LEMMA OffRecord ==
    ASSUME NEW r \in FileRec, NEW m \in 0 .. MAXFILE
    PROVE  /\ WithOff(r, m) \in FileRec /\ WithOff(r, m).ref = r.ref /\ WithOff(r, m).ip = r.ip
           /\ r.off \in 0 .. MAXFILE
  BY DEF FileRec, WithOff

\* A call that moves the offset of f keeps the counts.
LEMMA OffSet ==
    ASSUME IInv, NEW p \in Proc, NEW fd \in 1 .. NOFILE, OnFd(p, fd), Step(p, "run", 0, 0, 0, 0),
           NEW f \in 1 .. NFILE, f = ofile[p][fd], NEW m \in 0 .. MAXFILE,
           file' = [file EXCEPT ![f] = WithOff(file[f], m)],
           UNCHANGED <<ref, cwd, ofile, ends>>
    PROVE  FileType' /\ FdSum' /\ FileInv' /\ RefSum'
<1>. DEFINE r == WithOff(file[f], m)
<1>1. FileType
  BY Parts
<1>2. /\ pc[p] = "run" /\ puts[p] = <<>> /\ ~panicked
      /\ file[f] \in FileRec /\ file[f].ref \in Nat /\ file[f].ref >= 1
      /\ \A q \in Proc : f \notin Range(ends[q])
  BY OnFdFacts
<1>3. r \in FileRec /\ r.ref = file[f].ref /\ r.ip = file[f].ip /\ file' = [file EXCEPT ![f] = r]
  BY <1>2, OffRecord
<1>4. SetFd(p, fd, f)
  BY <1>1 DEF FileType, SetFd
<1>5. /\ dp[p] = 0 /\ ip[p] = 0
      /\ \A k \in Inum : ref[k] \in Nat /\ Is(0, k) = 0 /\ \A x : Is(x, k) \in {0, 1}
  BY <1>2, RunFacts
<1>. HIDE DEF r
<1>6. /\ f \in 0 .. NFILE /\ r.ref = file[f].ref - Is(ofile[p][fd], f) + Is(f, f)
      /\ \A g \in 1 .. NFILE : g # f => Is(ofile[p][fd], g) = Is(f, g)
  BY <1>2, <1>3 DEF Is
<1>7. /\ FileType' /\ FdSum' /\ FileInv'
      /\ \A g \in 1 .. NFILE : g # f => FileIp(g)' = FileIp(g)
      /\ FileIp(f)' = IF r.ref > 0 THEN r.ip ELSE 0
  <2>1. r.ref = 0 => r = NoFile
    BY <1>2, <1>3
  <2>2. pc[p] \notin {"pipealloc", "pipe"} /\ UNCHANGED <<cwd, ends>>
    BY <1>2
  <2>3. /\ IInv /\ p \in Proc /\ fd \in 1 .. NOFILE /\ f \in 1 .. NFILE
        /\ Step(p, "run", 0, 0, 0, 0) /\ \A q \in Proc : f \notin Range(ends[q])
    BY <1>2
  <2>. QED
    BY ONLY <1>3, <1>4, <1>6, <2>1, <2>2, <2>3, FileSet
<1>8. RefSum'
  <2>1. FileIp(f)' = FileIp(f)
    BY <1>2, <1>3, <1>7 DEF FileIp
  <2>2. \A g \in 1 .. NFILE : FileIp(g)' = FileIp(g)
    BY <1>7, <2>1
  <2>3. \A k \in Inum : ref'[k] = ref[k] + (Is(cwd'[p], k) + Is(0, k)) - Is(cwd[p], k)
    BY <1>5
  <2>. QED
    BY <1>5, <1>7, <2>2, <2>3, SameFileRef
<1>. QED
  BY <1>7, <1>8

\* read() moves the offset up to the size.
LEMMA filereadInv ==
    ASSUME IInv, NEW p \in Proc, NEW fd \in 1 .. NOFILE, fileread(p, fd)
    PROVE  IInv'
<1>1. FileType /\ CacheType /\ DiskType /\ ProcType /\ RestType
  BY Parts
<1>2. OnFd(p, fd)
  BY DEF fileread
<1>3. PICK f \in 1 .. NFILE : f = ofile[p][fd]
  BY <1>2, OnFdFacts
<1>. DEFINE i == file[f].ip
            m == file[f].off + readi(Cur(i), file[f].off)
<1>4. /\ pc[p] = "run" /\ puts[p] = <<>> /\ ~panicked /\ cwd[p] # 0 /\ calls < MaxCalls
      /\ file[f] \in FileRec
  BY <1>2, <1>3, OnFdFacts
<1>5. /\ i # 0 /\ file' = [file EXCEPT ![f] = WithOff(file[f], m)] /\ calls' = calls + 1
      /\ UNCHANGED <<pc, puts, call, path, dp, ip, dinode, ents, used, ind>>
      /\ UNCHANGED <<inode, ref, valid, lock, panicked, cwd, ofile, ends, lost>>
  BY <1>3 DEF fileread, WithOff, diskvars, cachevars, procvars
<1>6. m \in 0 .. MAXFILE
  <2>1. i \in Inum /\ file[f].off \in 0 .. 2
    BY <1>4, <1>5 DEF FileRec, MAXFILE
  <2>2. Cur(i).size \in 0 .. 2
    BY <1>1, <2>1 DEF Cur, CacheType, DiskType, Dinode
  <2>. HIDE DEF i
  <2>. QED
    BY <2>1, <2>2 DEF readi, MAXFILE
<1>7. Step(p, "run", 0, 0, 0, 0)
  BY <1>4, <1>5, RunFacts
<1>. HIDE DEF m
<1>8. FileType' /\ FdSum' /\ FileInv' /\ RefSum'
  BY <1>2, <1>3, <1>5, <1>6, <1>7, OffSet
<1>9. ref' \in [Inum -> Nat] /\ panicked' \in BOOLEAN /\ calls' \in 0 .. MaxCalls
  BY <1>1, <1>4, <1>5, FsAssumption DEF CacheType, RestType
<1>10. cwd'[p] # 0 /\ \A q \in Proc : q # p => cwd'[q] = cwd[q] /\ ofile'[q] = ofile[q]
  BY <1>4, <1>5
<1>. QED
  BY <1>4, <1>5, <1>7, <1>8, <1>9, <1>10, OnlyFiles

-----------------------------------------------------------------------------
(***************************************************************************)
(* pipe().                                                                 *)
(***************************************************************************)
\* What a step of pipe() leaves alone, and where it goes.
PipeMove(p, c) ==
    /\ pc' = [pc EXCEPT ![p] = c]
    /\ UNCHANGED <<call, path, dp, ip, puts, dinode, ents, used, ind>>
    /\ UNCHANGED <<inode, ref, valid, lock, panicked, cwd, lost>>

\* Such a step keeps the invariant if it keeps the counts of the files.
LEMMA PipeInv ==
    ASSUME IInv, NEW p \in Proc, pc[p] \in {"run", "pipealloc", "pipe"}, puts[p] = <<>>,
           ~panicked, cwd[p] # 0,
           NEW c \in {"run", "pipealloc", "pipe"}, PipeMove(p, c), calls' \in 0 .. MaxCalls,
           NEW s \in Seq(1 .. NFILE), ends' = [ends EXCEPT ![p] = s],
           file' \in [1 .. NFILE -> FileRec],
           ofile' \in [Proc -> [1 .. NOFILE -> 0 .. NFILE]],
           \A q \in Proc : q # p => ofile'[q] = ofile[q],
           EndRow(p)',
           \A f \in 1 .. NFILE : file'[f] # file[f] => \A q \in Proc : q # p => f \notin Range(ends[q]),
           \A f \in 1 .. NFILE : file'[f].ref = 0 => file'[f] = NoFile,
           \A f \in 1 .. NFILE : FileIp(f)' = FileIp(f),
           \A f \in 1 .. NFILE :
              file'[f].ref = file[f].ref - (NumOf(ofile[p], f) + End(ends[p], f))
                                         + (NumOf(ofile'[p], f) + End(s, f))
    PROVE  IInv'
<1>1. FileType /\ CacheType /\ ProcType
  BY Parts
<1>2. /\ pc' = [pc EXCEPT ![p] = c]
      /\ UNCHANGED <<call, path, dp, ip, puts, dinode, ents, used, ind>>
      /\ UNCHANGED <<inode, ref, valid, lock, panicked, cwd, lost>>
  BY DEF PipeMove
<1>3. puts' = [puts EXCEPT ![p] = Entries(0, 0)] /\ c \in PCs
  BY <1>1, <1>2, Moves DEF PCs
<1>4. /\ Step(p, c, 0, 0, 0, 0) /\ dp[p] = 0 /\ ip[p] = 0
      /\ \A k \in Inum : ref[k] \in Nat /\ Is(0, k) = 0 /\ \A x : Is(x, k) \in {0, 1}
  BY <1>2, <1>3, RunFacts
<1>5. ends' \in [Proc -> Seq(1 .. NFILE)] /\ ends'[p] = s /\ \A q \in Proc : q # p => ends'[q] = ends[q]
  BY <1>1 DEF FileType
<1>6. FileType'
  BY <1>1, <1>2, <1>5 DEF FileType
<1>7. FdSum'
  <2>1. \A f \in 1 .. NFILE :
              file'[f].ref = file[f].ref - (NumOf(ofile[p], f) + End(ends[p], f))
                                         + (NumOf(ofile'[p], f) + End(ends'[p], f))
    BY <1>5
  <2>2. \A q \in Proc : q # p => ofile'[q] = ofile[q] /\ ends'[q] = ends[q]
    BY <1>5
  <2>. QED
    BY <1>6, <2>1, <2>2, FdStep
<1>8. FileInv'
  BY <1>4, <1>5, EndStep
<1>9. RefSum'
  <2>1. \A k \in Inum : ref'[k] = ref[k] + (Is(cwd'[p], k) + Is(0, k)) - Is(cwd[p], k)
    BY <1>2, <1>4
  <2>2. \A q \in Proc : q # p => cwd'[q] = cwd[q]
    BY <1>2
  <2>. QED
    BY <1>4, <1>6, <2>1, <2>2, SameFileRef
<1>10. /\ ref' \in [Inum -> Nat] /\ panicked' \in BOOLEAN /\ cwd'[p] # 0
       /\ \A q \in Proc : q # p => cwd'[q] = cwd[q] /\ ofile'[q] = ofile[q]
  BY <1>1, <1>2 DEF CacheType
<1>. QED
  BY <1>2, <1>4, <1>6, <1>7, <1>8, <1>9, <1>10, OnlyFiles

\* The ends of a pipe, counted.
LEMMA Ends ==
    ASSUME NEW g
    PROVE  /\ End(<<>>, g) = 0
           /\ \A x : End(<<x>>, g) = Is(x, g)
           /\ \A x, y : x # y => End(<<x, y>>, g) = Is(x, g) + Is(y, g)
<1>1. Range(<<>>) = {}
  BY DEF Range
<1>2. ASSUME NEW x PROVE Range(<<x>>) = {x}
  BY DEF Range
<1>3. ASSUME NEW x, NEW y PROVE Range(<<x, y>>) = {x, y}
  BY DEF Range
<1>4. ASSUME NEW x PROVE End(<<x>>, g) = Is(x, g)
  BY <1>2 DEF End, Is
<1>5. ASSUME NEW x, NEW y, x # y PROVE End(<<x, y>>, g) = Is(x, g) + Is(y, g)
  <2>1. g \in Range(<<x, y>>) <=> g = x \/ g = y
    BY <1>3
  <2>. QED
    BY <1>5, <2>1 DEF End, Is
<1>. QED
  BY <1>1, <1>4, <1>5 DEF End

\* A pipe() under way, and the files that are its ends.
LEMMA EndFacts ==
    ASSUME IInv, NEW p \in Proc
    PROVE  /\ cwd[p] = 0 => pc[p] = "run"
           /\ pc[p] = "run" => ends[p] = <<>>
           /\ pc[p] = "pipealloc" => \E e \in 1 .. NFILE : ends[p] = <<e>> /\ e \in Range(ends[p])
           /\ pc[p] = "pipe" => \E e, f \in 1 .. NFILE :
                  ends[p] = <<e, f>> /\ e # f /\ e \in Range(ends[p]) /\ f \in Range(ends[p])
<1>1. FileType /\ EndRow(p) /\ PtrRow(p)
  BY Parts DEF FileInv, PtrInv
<1>2. ends[p] \in Seq(1 .. NFILE)
  BY <1>1 DEF FileType
<1>3. (cwd[p] = 0 => pc[p] = "run") /\ (pc[p] = "run" => ends[p] = <<>>)
  BY <1>1 DEF EndRow, PtrRow
<1>4. ASSUME pc[p] = "pipealloc"
      PROVE  \E e \in 1 .. NFILE : ends[p] = <<e>> /\ e \in Range(ends[p])
  <2>1. Len(ends[p]) = 1
    BY <1>1, <1>4 DEF EndRow
  <2>2. 1 \in DOMAIN ends[p] /\ ends[p] = <<ends[p][1]>>
    BY <1>2, <2>1
  <2>3. ends[p][1] \in 1 .. NFILE /\ ends[p][1] \in Range(ends[p])
    BY <1>2, <2>2, SeqElement
  <2>. QED
    BY <2>2, <2>3
<1>5. ASSUME pc[p] = "pipe"
      PROVE  \E e, f \in 1 .. NFILE :
                  ends[p] = <<e, f>> /\ e # f /\ e \in Range(ends[p]) /\ f \in Range(ends[p])
  <2>1. Len(ends[p]) = 2 /\ ends[p][1] # ends[p][2]
    BY <1>1, <1>5 DEF EndRow
  <2>2. 1 \in DOMAIN ends[p] /\ 2 \in DOMAIN ends[p] /\ ends[p] = <<ends[p][1], ends[p][2]>>
    BY <1>2, <2>1
  <2>3. /\ ends[p][1] \in 1 .. NFILE /\ ends[p][1] \in Range(ends[p])
        /\ ends[p][2] \in 1 .. NFILE /\ ends[p][2] \in Range(ends[p])
    BY <1>2, <2>2, SeqElement
  <2>. QED
    BY <2>1, <2>2, <2>3
<1>. QED
  BY <1>3, <1>4, <1>5

\* pipe() that fails closes what it had.
LEMMA pipe_badInv ==
    ASSUME IInv, NEW p \in Proc, pc[p] \in {"pipealloc", "pipe"}, puts[p] = <<>>, ~panicked,
           pipe_bad(p), PipeMove(p, "run"), UNCHANGED calls
    PROVE  IInv'
<1>1. FileType /\ FileInv /\ RestType
  BY Parts
<1>2. /\ file' = [f \in 1 .. NFILE |-> IF f \in Range(ends[p]) THEN NoFile ELSE file[f]]
      /\ ends' = [ends EXCEPT ![p] = <<>>] /\ ofile' = ofile
  BY DEF pipe_bad, Closed
<1>3. NoFile \in FileRec /\ NoFile.ref = 0 /\ NoFile.ip = 0
  BY DEF NoFile, FileRec, MAXFILE
<1>4. \A f \in 1 .. NFILE : /\ f \in Range(ends[p]) => file'[f] = NoFile
                            /\ f \notin Range(ends[p]) => file'[f] = file[f]
  BY <1>2
<1>5. file' \in [1 .. NFILE -> FileRec]
  BY <1>1, <1>2, <1>3 DEF FileType
<1>6. \A f \in 1 .. NFILE : f \in Range(ends[p]) =>
          /\ file[f].ref = 1 /\ file[f].ip = 0 /\ \A q \in Proc : q # p => f \notin Range(ends[q])
  BY FileFacts
<1>7. <<>> \in Seq(1 .. NFILE) /\ \A f : End(<<>>, f) = 0
  BY Ends
<1>8. ASSUME NEW f \in 1 .. NFILE
      PROVE  file'[f].ref = file[f].ref - (NumOf(ofile[p], f) + End(ends[p], f))
                                        + (NumOf(ofile'[p], f) + End(<<>>, f))
  <2>1. NumOf(ofile[p], f) \in Nat /\ file[f].ref \in Nat /\ NumOf(ofile'[p], f) = NumOf(ofile[p], f)
    BY <1>2, FileFacts
  <2>2. file'[f].ref = file[f].ref - End(ends[p], f) /\ End(ends[p], f) \in {0, 1}
    BY <1>3, <1>4, <1>6, <2>1 DEF End
  <2>. QED
    BY <1>7, <2>1, <2>2
<1>9. \A f \in 1 .. NFILE : FileIp(f)' = FileIp(f)
  BY <1>3, <1>4, <1>6 DEF FileIp
<1>10. EndRow(p)'
  <2>1. ends'[p] = <<>> /\ pc'[p] = "run"
    BY <1>1, <1>2, Parts DEF FileType, PipeMove, ProcType
  <2>. QED
    BY <2>1 DEF EndRow
<1>11. \A f \in 1 .. NFILE : file'[f] # file[f] => \A q \in Proc : q # p => f \notin Range(ends[q])
  BY <1>4, <1>6
<1>12. \A f \in 1 .. NFILE : file'[f].ref = 0 => file'[f] = NoFile
  BY <1>1, <1>4 DEF FileInv
<1>13. ofile' \in [Proc -> [1 .. NOFILE -> 0 .. NFILE]] /\ \A q \in Proc : q # p => ofile'[q] = ofile[q]
  BY <1>1, <1>2 DEF FileType
<1>14. calls' \in 0 .. MaxCalls /\ cwd[p] # 0
  BY <1>1, EndFacts DEF RestType
<1>. QED
  BY <1>2, <1>5, <1>7, <1>8, <1>9, <1>10, <1>11, <1>12, <1>13, <1>14, PipeInv

\* pipe() takes one more file.
LEMMA PipeTake ==
    ASSUME IInv, NEW p \in Proc, pc[p] \in {"run", "pipealloc"}, puts[p] = <<>>,
           ~panicked, cwd[p] # 0,
           NEW c \in {"pipealloc", "pipe"}, PipeMove(p, c), calls' \in 0 .. MaxCalls,
           NEW f \in 1 .. NFILE, file[f].ref = 0, NEW r \in FileRec, r.ref = 1, r.ip = 0,
           file' = [file EXCEPT ![f] = r],
           NEW s \in Seq(1 .. NFILE), ends' = [ends EXCEPT ![p] = s], UNCHANGED ofile,
           \A g \in 1 .. NFILE : End(s, g) = End(ends[p], g) + Is(f, g),
           c = "pipealloc" => Len(s) = 1, c = "pipe" => Len(s) = 2 /\ s[1] # s[2]
    PROVE  IInv'
<1>1. FileType /\ FileInv /\ ProcType
  BY Parts
<1>2. file'[f] = r /\ \A g \in 1 .. NFILE : g # f => file'[g] = file[g]
  BY <1>1 DEF FileType
<1>3. file' \in [1 .. NFILE -> FileRec]
  BY <1>1 DEF FileType
<1>4. file[f] = NoFile /\ \A q \in Proc : f \notin Range(ends[q])
  BY FileFacts
<1>5. ASSUME NEW g \in 1 .. NFILE
      PROVE  file'[g].ref = file[g].ref - (NumOf(ofile[p], g) + End(ends[p], g))
                                        + (NumOf(ofile'[p], g) + End(s, g))
  <2>1. NumOf(ofile[p], g) \in Nat /\ file[g].ref \in Nat /\ NumOf(ofile'[p], g) = NumOf(ofile[p], g)
    BY FileFacts
  <2>2. End(ends[p], g) \in {0, 1} /\ End(s, g) = End(ends[p], g) + Is(f, g) /\ Is(f, g) \in {0, 1}
    BY DEF End, Is
  <2>3. file'[g].ref = file[g].ref + Is(f, g)
    BY <1>2, <2>1 DEF Is
  <2>. QED
    BY ONLY <2>1, <2>2, <2>3
<1>6. \A g \in 1 .. NFILE : FileIp(g)' = FileIp(g)
  BY <1>2, <1>4 DEF FileIp, NoFile
<1>7. EndRow(p)'
  <2>1. ends'[p] = s /\ pc'[p] = c
    BY <1>1 DEF FileType, PipeMove, ProcType
  <2>2. ASSUME NEW k \in DOMAIN s
        PROVE  file'[s[k]].ref = 1 /\ file'[s[k]].ip = 0
    <3>1. s[k] \in 1 .. NFILE /\ s[k] \in Range(s)
      BY SeqElement
    <3>2. s[k] = f \/ s[k] \in Range(ends[p])
      <4>1. End(s, s[k]) = 1 /\ End(s, s[k]) = End(ends[p], s[k]) + Is(f, s[k])
        BY <3>1 DEF End
      <4>. QED
        BY <4>1 DEF End, Is
    <3>3. CASE s[k] = f
      BY <1>2, <3>3
    <3>4. CASE s[k] # f
      BY <1>2, <3>1, <3>2, <3>4, FileFacts
    <3>. QED
      BY <3>3, <3>4
  <2>. QED
    BY <2>1, <2>2 DEF EndRow
<1>8. \A g \in 1 .. NFILE : file'[g] # file[g] => \A q \in Proc : q # p => g \notin Range(ends[q])
  BY <1>2, <1>4
<1>9. \A g \in 1 .. NFILE : file'[g].ref = 0 => file'[g] = NoFile
  BY <1>1, <1>2 DEF FileInv
<1>10. ofile' \in [Proc -> [1 .. NOFILE -> 0 .. NFILE]] /\ \A q \in Proc : q # p => ofile'[q] = ofile[q]
  BY <1>1 DEF FileType
<1>. QED
  BY <1>3, <1>5, <1>6, <1>7, <1>8, <1>9, <1>10, PipeInv

\* pipe() takes its first file.
LEMMA sys_pipeInv ==
    ASSUME IInv, NEW p \in Proc, sys_pipe(p)
    PROVE  IInv'
<1>1. /\ pc[p] = "run" /\ puts[p] = <<>> /\ ~panicked /\ cwd[p] # 0 /\ calls < MaxCalls
      /\ calls' = calls + 1 /\ PipeMove(p, "pipealloc") /\ UNCHANGED ofile
  BY DEF sys_pipe, At, Goto, PipeMove, diskvars, cachevars
<1>2. PICK f \in filealloc : /\ file' = [file EXCEPT ![f].ref = 1]
                             /\ ends' = [ends EXCEPT ![p] = <<f>>]
  BY DEF sys_pipe
<1>3. f \in 1 .. NFILE /\ file[f].ref = 0
  BY DEF filealloc
<1>. DEFINE r == WithRef(file[f], 1)
            s == <<f>>
<1>4. file' = [file EXCEPT ![f] = r]
  BY <1>2 DEF WithRef
<1>5. file[f] = NoFile /\ file[f] \in FileRec
  BY <1>3, FileFacts
<1>6. r \in FileRec /\ r.ref = 1 /\ r.ip = 0
  BY <1>5, RefRecord DEF NoFile
<1>7. /\ s \in Seq(1 .. NFILE) /\ Len(s) = 1
      /\ \A g \in 1 .. NFILE : End(s, g) = End(ends[p], g) + Is(f, g)
  <2>1. ends[p] = <<>>
    BY <1>1, EndFacts
  <2>2. \A g : End(s, g) = Is(f, g) /\ End(<<>>, g) = 0 /\ Is(f, g) \in {0, 1}
    BY Ends DEF Is
  <2>. QED
    BY <1>3, <2>1, <2>2
<1>8. calls' \in 0 .. MaxCalls
  BY <1>1, Parts, FsAssumption DEF RestType
<1>9. ends' = [ends EXCEPT ![p] = s]
  BY <1>2
<1>. HIDE DEF r, s
<1>. QED
  BY <1>1, <1>3, <1>4, <1>6, <1>7, <1>8, <1>9, PipeTake

\* pipealloc() takes the second, or fails.
LEMMA pipeallocInv ==
    ASSUME IInv, NEW p \in Proc, NEW page \in BOOLEAN, pipealloc(p, page)
    PROVE  IInv'
<1>1. /\ pc[p] = "pipealloc" /\ puts[p] = <<>> /\ ~panicked /\ calls' = calls
      /\ UNCHANGED <<call, path, dp, ip, puts, dinode, ents, used, ind>>
      /\ UNCHANGED <<inode, ref, valid, lock, panicked, cwd, lost>>
  BY DEF pipealloc, At, diskvars, cachevars
<1>2. CASE filealloc = {} \/ ~page
  <2>1. pipe_bad(p)
    BY <1>2 DEF pipealloc
  <2>2. PipeMove(p, "run")
    BY <1>1, <2>1 DEF pipe_bad, Goto, PipeMove
  <2>. QED
    BY <1>1, <2>1, <2>2, pipe_badInv
<1>3. CASE ~(filealloc = {} \/ ~page)
  <2>1. PICK f \in filealloc : /\ file' = [file EXCEPT ![f].ref = 1, ![f].writable = TRUE]
                               /\ ends' = [ends EXCEPT ![p] = Append(@, f)]
    BY <1>3 DEF pipealloc
  <2>2. f \in 1 .. NFILE /\ file[f].ref = 0
    BY DEF filealloc
  <2>3. PipeMove(p, "pipe") /\ UNCHANGED ofile
    BY <1>1, <1>3 DEF pipealloc, Goto, PipeMove
  <2>4. PICK e \in 1 .. NFILE : ends[p] = <<e>> /\ e \in Range(ends[p])
    BY <1>1, EndFacts
  <2>5. e # f
    BY <2>2, <2>4, FileFacts
  <2>. DEFINE x == WithRef(file[f], 1)
              r == [x EXCEPT !.writable = TRUE]
              s == <<e, f>>
  <2>6. file[f] = NoFile /\ file[f] \in FileRec
    BY <2>2, FileFacts
  <2>7. file' = [file EXCEPT ![f] = r]
    BY <2>1, <2>2, Parts DEF FileType, WithRef
  <2>8. r \in FileRec /\ r.ref = 1 /\ r.ip = 0
    <3>1. x \in FileRec /\ x.ref = 1 /\ x.ip = 0
      BY <2>6, RefRecord DEF NoFile
    <3>. HIDE DEF x
    <3>. QED
      BY <3>1 DEF FileRec
  <2>9. /\ s \in Seq(1 .. NFILE) /\ Len(s) = 2 /\ s[1] # s[2]
        /\ \A g \in 1 .. NFILE : End(s, g) = End(ends[p], g) + Is(f, g)
    <3>1. \A g : End(s, g) = Is(e, g) + Is(f, g) /\ End(<<e>>, g) = Is(e, g)
      BY <2>5, Ends
    <3>. QED
      BY <2>2, <2>4, <2>5, <3>1
  <2>10. ends' = [ends EXCEPT ![p] = s]
    <3>1. Append(<<e>>, f) = s
      <4>. DEFINE t == Append(<<e>>, f)
      <4>1. <<e>> \in Seq(1 .. NFILE) /\ Len(<<e>>) = 1 /\ <<e>>[1] = e
        OBVIOUS
      <4>2. t \in Seq(1 .. NFILE) /\ Len(t) = 2 /\ t[1] = e /\ t[2] = f
        BY <2>2, <4>1
      <4>. HIDE DEF t
      <4>3. t = <<t[1], t[2]>>
        BY <4>2
      <4>. QED
        BY <4>2, <4>3 DEF t
    <3>2. ends' = [ends EXCEPT ![p] = Append(ends[p], f)]
      BY <2>1
    <3>. HIDE DEF s
    <3>. QED
      BY <2>4, <3>1, <3>2
  <2>11. calls' \in 0 .. MaxCalls /\ cwd[p] # 0
    BY <1>1, Parts, EndFacts DEF RestType
  <2>. HIDE DEF r, s
  <2>. QED
    BY <1>1, <2>2, <2>3, <2>7, <2>8, <2>9, <2>10, <2>11, PipeTake
<1>. QED
  BY <1>2, <1>3

\* pipe() gives its files their descriptors, or fails.
LEMMA pipe_fdsInv ==
    ASSUME IInv, NEW p \in Proc, NEW copied \in BOOLEAN, pipe_fds(p, copied)
    PROVE  IInv'
<1>1. /\ pc[p] = "pipe" /\ puts[p] = <<>> /\ ~panicked /\ calls' = calls
      /\ UNCHANGED <<call, path, dp, ip, puts, dinode, ents, used, ind>>
      /\ UNCHANGED <<inode, ref, valid, lock, panicked, cwd, lost>>
  BY DEF pipe_fds, At, diskvars, cachevars
<1>2. CASE pipe_bad(p)
  <2>1. PipeMove(p, "run")
    BY <1>1, <1>2 DEF pipe_bad, Goto, PipeMove
  <2>. QED
    BY <1>1, <1>2, <2>1, pipe_badInv
<1>3. CASE ~pipe_bad(p)
  <2>1. FileType /\ FileInv /\ ProcType /\ RestType
    BY Parts
  <2>2. /\ ends' = [ends EXCEPT ![p] = <<>>] /\ PipeMove(p, "run") /\ file' = file
        /\ \E fd0 \in fdalloc(p) : \E fd1 \in fd0 + 1 .. NOFILE :
             /\ ofile[p][fd1] = 0
             /\ ofile' = [ofile EXCEPT ![p][fd0] = ends[p][1], ![p][fd1] = ends[p][2]]
    BY <1>1, <1>3 DEF pipe_fds, Goto, PipeMove
  <2>3. PICK fd0 \in fdalloc(p) : \E fd1 \in fd0 + 1 .. NOFILE :
             /\ ofile[p][fd1] = 0
             /\ ofile' = [ofile EXCEPT ![p][fd0] = ends[p][1], ![p][fd1] = ends[p][2]]
    BY <2>2
  <2>4. fd0 \in 1 .. NOFILE /\ ofile[p][fd0] = 0
    BY DEF fdalloc
  <2>5. PICK fd1 \in fd0 + 1 .. NOFILE :
             /\ ofile[p][fd1] = 0
             /\ ofile' = [ofile EXCEPT ![p][fd0] = ends[p][1], ![p][fd1] = ends[p][2]]
    BY <2>3
  <2>6. fd1 \in 1 .. NOFILE /\ fd0 # fd1
    BY <2>4, FsAssumption
  <2>7. PICK e, f \in 1 .. NFILE : ends[p] = <<e, f>> /\ e # f
    BY <1>1, EndFacts
  <2>. DEFINE S == 1 .. NOFILE
              R == [S -> 0 .. NFILE]
              h == [ofile[p] EXCEPT ![fd0] = e]
  <2>8. ofile \in [Proc -> R] /\ ofile[p] \in R
    BY <2>1 DEF FileType
  <2>9. h \in R /\ h[fd0] = e /\ h[fd1] = 0 /\ \A d \in S : d # fd0 => h[d] = ofile[p][d]
    BY <2>4, <2>5, <2>6, <2>8
  <2>10. ofile'[p] = [h EXCEPT ![fd1] = f] /\ \A q \in Proc : q # p => ofile'[q] = ofile[q]
    BY <2>5, <2>7, <2>8
  <2>. HIDE DEF h
  <2>11. ofile'[p] \in R /\ ofile'[p][fd1] = f /\ \A d \in S : d # fd1 => ofile'[p][d] = h[d]
    <3>1. f \in 0 .. NFILE /\ fd1 \in S
      BY <2>6
    <3>. QED
      BY <2>9, <2>10, <3>1
  <2>12. ofile' \in [Proc -> R]
    BY <2>5, <2>8, <2>10, <2>11
  <2>13. ASSUME NEW g \in 1 .. NFILE
         PROVE  /\ NumOf(ofile[p], g) \in Nat /\ NumOf(ofile'[p], g) \in Nat
                /\ NumOf(ofile'[p], g) = NumOf(ofile[p], g) + Is(e, g) + Is(f, g)
    <3>1. DOMAIN ofile[p] = S /\ DOMAIN h = S /\ DOMAIN ofile'[p] = S /\ IsFiniteSet(S)
      BY <2>8, <2>9, <2>11, Finite
    <3>2. fd0 \in S /\ fd1 \in S
      BY <2>4, <2>6
    <3>. HIDE DEF S
    <3>3. /\ NumOf(ofile[p], g) \in Nat /\ NumOf(h, g) \in Nat
          /\ NumOf(h, g) = NumOf(ofile[p], g) - Is(ofile[p][fd0], g) + Is(h[fd0], g)
      <4>1. OneMove(S, ofile[p], h, fd0)
        BY <2>9, <3>1, <3>2 DEF OneMove
      <4>. QED
        BY ONLY <4>1, CountMove
    <3>4. /\ NumOf(ofile'[p], g) \in Nat
          /\ NumOf(ofile'[p], g) = NumOf(h, g) - Is(h[fd1], g) + Is(ofile'[p][fd1], g)
      <4>1. OneMove(S, h, ofile'[p], fd1)
        BY <2>11, <3>1, <3>2 DEF OneMove
      <4>. QED
        BY ONLY <4>1, CountMove
    <3>5. Is(0, g) = 0 /\ Is(e, g) \in {0, 1} /\ Is(f, g) \in {0, 1}
      BY DEF Is
    <3>. QED
      BY <2>4, <2>9, <2>11, <3>3, <3>4, <3>5
  <2>14. ASSUME NEW g \in 1 .. NFILE
         PROVE  file'[g].ref = file[g].ref - (NumOf(ofile[p], g) + End(ends[p], g))
                                           + (NumOf(ofile'[p], g) + End(<<>>, g))
    <3>1. End(ends[p], g) = Is(e, g) + Is(f, g) /\ End(<<>>, g) = 0
      BY <2>7, Ends
    <3>2. Is(e, g) \in {0, 1} /\ Is(f, g) \in {0, 1} /\ file[g].ref \in Nat /\ file'[g] = file[g]
      BY <2>2, FileFacts DEF Is
    <3>. QED
      BY <2>13, <3>1, <3>2
  <2>15. EndRow(p)'
    <3>1. ends'[p] = <<>> /\ pc'[p] = "run"
      BY <2>1, <2>2 DEF FileType, PipeMove, ProcType
    <3>. QED
      BY <3>1 DEF EndRow
  <2>16. /\ <<>> \in Seq(1 .. NFILE) /\ file' \in [1 .. NFILE -> FileRec]
         /\ \A g \in 1 .. NFILE : file'[g] = file[g]
         /\ \A g \in 1 .. NFILE : file'[g].ref = 0 => file'[g] = NoFile
         /\ \A g \in 1 .. NFILE : FileIp(g)' = FileIp(g)
    BY <2>1, <2>2 DEF FileType, FileInv, FileIp
  <2>17. calls' \in 0 .. MaxCalls /\ cwd[p] # 0
    BY <1>1, <2>1, EndFacts DEF RestType
  <2>. QED
    BY <1>1, <2>2, <2>10, <2>12, <2>14, <2>15, <2>16, <2>17, PipeInv
<1>. QED
  BY <1>2, <1>3

\* A step that writes the record of one inode in use, on disk and in the cache.
LEMMA WriteCache ==
    ASSUME IInv, ~panicked, NEW i \in Inum, NEW r \in Dinode, Write(i, r),
           dinode[i].type # "none", r.type = dinode[i].type, ~panicked',
           UNCHANGED valid, \A j \in Inum : lock'[j] # None => lock[j] # None
    PROVE  /\ dinode' \in [Inum -> Dinode] /\ inode' \in [Inum -> Dinode]
           /\ \A j \in Inum : /\ lock'[j] # None => valid'[j]
                              /\ valid'[j] => Copy(j)' \/ (valid[j] /\ ~Copy(j))
           /\ \A j \in Inum : dinode[j].type # "none" => dinode'[j].type = dinode[j].type
<1>1. DiskType /\ CacheType
  BY Parts
<1>2. /\ dinode' = [dinode EXCEPT ![i] = r] /\ inode' = [inode EXCEPT ![i] = r]
      /\ dinode' \in [Inum -> Dinode] /\ inode' \in [Inum -> Dinode]
  BY <1>1 DEF Write, DiskType, CacheType
<1>3. dinode'[i] = r /\ inode'[i] = r /\ \A j \in Inum : j # i => dinode'[j] = dinode[j] /\ inode'[j] = inode[j]
  BY <1>1, <1>2 DEF DiskType, CacheType
<1>4. Copy(i)' /\ \A j \in Inum : j # i /\ Copy(j) => Copy(j)'
  BY <1>3 DEF Copy
<1>5. \A j \in Inum : /\ lock'[j] # None => valid'[j]
                      /\ valid'[j] => Copy(j)' \/ (valid[j] /\ ~Copy(j))
  BY <1>4, CacheFacts
<1>6. \A j \in Inum : dinode[j].type # "none" => dinode'[j].type = dinode[j].type
  BY <1>3
<1>. QED
  BY <1>2, <1>5, <1>6

\* The end of open(): the file and the descriptor, or neither.
LEMMA open_fileInv ==
    ASSUME IInv, NEW p \in Proc, open_file(p)
    PROVE  IInv'
<1>1. DiskType /\ CacheType /\ ProcType /\ FileType /\ RestType /\ BlkInv /\ FreeInv
  BY Parts
<1>2. /\ At(p, "created") /\ lock' = iunlock(ip[p])
      /\ UNCHANGED <<ents, ind, ref, valid, cwd, ends, calls, lost>>
  BY DEF open_file
<1>3. pc[p] = "created" /\ ~panicked
  BY <1>2 DEF At
<1>4. CASE /\ Return(p, <<ip[p]>>)
           /\ UNCHANGED <<file, ofile, inode, dinode, used, panicked>>
  <2>4. /\ Step(p, "run", 0, 0, ip[p], 0) /\ PtrRow(p)' /\ PinRow(p)'
        /\ \A k \in Inum : ~Pins(p, k)'
        /\ lock' \in [Inum -> Proc \cup {None}]
        /\ Kept("run", 0, 0) = 0
        /\ \A k \in Inum : /\ lock'[k] = IF k = Kept("run", 0, 0) THEN p
                                         ELSE IF lock[k] = p THEN None ELSE lock[k]
                           /\ lock'[k] # None => lock[k] # None
        /\ \A k \in Inum : ref'[k] = ref[k] + (Is(cwd'[p], k) + Is(0, k) + Is(0, k) + Is(ip[p], k) + Is(0, k))
                                     - (Is(cwd[p], k) + Is(dp[p], k) + Is(ip[p], k))
    BY <1>2, <1>4, ReturnUnlocked
  <2>5. DiskType' /\ CacheType' /\ RestType' /\ cwd' \in [Proc -> Inum \cup {0}]
    BY <1>1, <1>2, <1>4, <2>4 DEF DiskType, CacheType, RestType, FileType
  <2>6. /\ \A k \in Inum : /\ lock'[k] # None => valid'[k]
                           /\ valid'[k] => Copy(k)' \/ (valid[k] /\ ~Copy(k))
        /\ \A k \in Inum : dinode'[k].type = dinode[k].type /\ SameBlocks(k)
    BY <1>2, <1>4, <2>4, KeepCache
  <2>. QED
    BY <1>2, <1>3, <1>4, <2>4, <2>5, <2>6, CallStep
<1>5. ASSUME NEW f \in filealloc, NEW fd \in fdalloc(p),
             /\ file' = [file EXCEPT ![f] = [ref |-> 1, ip |-> ip[p], off |-> 0,
                           writable |-> call[p].mode # "rdonly"]]
             /\ ofile' = [ofile EXCEPT ![p][fd] = f]
             /\ Return(p, <<>>)
             /\ IF call[p].mode = "trunc" /\ inode[ip[p]].type = "file"
                THEN /\ Write(ip[p], Truncated(inode[ip[p]]))
                     /\ used' = bfree(itrunc(inode[ip[p]]))
                     /\ panicked' = bfree_panics(itrunc(inode[ip[p]]))
                ELSE UNCHANGED <<inode, dinode, used, panicked>>
      PROVE  IInv'
  <2>1. /\ puts[p] = <<>> /\ ip[p] \in Inum /\ lock[ip[p]] = p /\ Copy(ip[p]) /\ dp[p] = 0 /\ cwd[p] # 0
        /\ \A k \in Inum : k # 0 /\ (lock[k] = p => k = ip[p])
        /\ \A k \in Inum : ref[k] \in Nat /\ Is(0, k) = 0 /\ \A x : Is(x, k) \in {0, 1}
    BY <1>2, CreatedFacts
  <2>2. PICK i \in Inum : i = ip[p]
    BY <2>1
  <2>3. f \in 1 .. NFILE /\ file[f].ref = 0 /\ fd \in 1 .. NOFILE /\ ofile[p][fd] = 0
    BY DEF filealloc, fdalloc
  <2>4. file[f] = NoFile /\ \A q \in Proc : f \notin Range(ends[q])
    BY <2>3, FileFacts
  <2>. DEFINE w == call[p].mode # "rdonly"
              r == [ref |-> 1, ip |-> i, off |-> 0, writable |-> w]
  <2>5. file' = [file EXCEPT ![f] = r]
    BY <1>5, <2>2
  <2>6. w \in BOOLEAN
    OBVIOUS
  <2>. HIDE DEF w
  <2>7. r \in FileRec /\ r.ref = 1 /\ r.ip = i
    BY <2>6 DEF FileRec, MAXFILE
  <2>. HIDE DEF r
  <2>8. SetFd(p, fd, f)
    BY <1>5 DEF SetFd
  <2>9. Step(p, "run", 0, 0, 0, 0)
    BY <1>1, <1>3, <1>5, <2>1, Moves DEF Step, PCs
  <2>10. /\ f \in 0 .. NFILE /\ r.ref = file[f].ref - Is(ofile[p][fd], f) + Is(f, f)
         /\ \A g \in 1 .. NFILE : g # f => Is(ofile[p][fd], g) = Is(f, g)
    BY <2>3, <2>7 DEF Is
  <2>11. /\ FileType' /\ FdSum' /\ FileInv'
         /\ \A g \in 1 .. NFILE : g # f => FileIp(g)' = FileIp(g)
         /\ FileIp(f)' = IF r.ref > 0 THEN r.ip ELSE 0
         /\ \A q \in Proc : q # p => cwd'[q] = cwd[q] /\ ofile'[q] = ofile[q]
    <3>1. r.ref = 0 => r = NoFile
      BY <2>7
    <3>2. pc[p] \notin {"pipealloc", "pipe"} /\ UNCHANGED <<cwd, ends>>
      BY <1>2, <1>3
    <3>. QED
      BY <2>3, <2>4, <2>5, <2>7, <2>8, <2>9, <2>10, <3>1, <3>2, FileSet
  <2>12. RefSum'
    <3>1. FileIp(f) = 0 /\ FileIp(f)' = i
      BY <2>3, <2>7, <2>11 DEF FileIp
    <3>2. ASSUME NEW k \in Inum
          PROVE  ref'[k] = ref[k] + (Is(cwd'[p], k) + Is(0, k) + Is(FileIp(f)', k))
                                  - (Is(cwd[p], k) + Is(dp[p], k) + Is(ip[p], k) + Is(FileIp(f), k))
      <4>1. /\ ref'[k] = ref[k] /\ cwd'[p] = cwd[p] /\ ref[k] \in Nat /\ Is(0, k) = 0
            /\ Is(cwd[p], k) \in {0, 1} /\ Is(i, k) \in {0, 1}
        BY <1>2, <2>1
      <4>. QED
        BY <2>1, <2>2, <3>1, <4>1
    <3>3. f \in 1 .. NFILE /\ \A g \in 1 .. NFILE : g # f => FileIp(g)' = FileIp(g)
      BY <2>3, <2>11
    <3>. QED
      BY <2>9, <2>11, <3>2, <3>3, FileRef
  <2>13. PtrRow(p)'
    <3>1. pc'[p] = "run" /\ dp'[p] = 0 /\ ip'[p] = 0
      BY <1>1, <2>9, StepRow
    <3>. QED
      BY <1>2, <2>1, <3>1 DEF PtrRow
  <2>14. /\ lock' \in [Inum -> Proc \cup {None}]
         /\ \A k \in Inum : /\ lock'[k] = IF lock[k] = p THEN None ELSE lock[k]
                            /\ lock'[k] # None => lock[k] # None
    BY <1>1, <1>2, <2>1 DEF CacheType, iunlock
  <2>15. CASE call[p].mode = "trunc" /\ inode[ip[p]].type = "file"
    <3>. DEFINE t == Truncated(dinode[i])
    <3>1. dinode[i] \in Dinode /\ inode[i] = dinode[i] /\ dinode[i].type = "file"
      BY <1>1, <2>1, <2>2, <2>15 DEF DiskType, Copy
    <3>2. /\ Write(i, t) /\ used' = bfree(itrunc(dinode[i])) /\ panicked' = bfree_panics(itrunc(dinode[i]))
      BY <1>5, <2>2, <2>15, <3>1
    <3>3. t \in Dinode /\ t.type = dinode[i].type /\ t.size = 0 /\ t.direct = 0 /\ t.indirect = 0
      BY <3>1, TruncRecord
    <3>. HIDE DEF t
    <3>4. BlkInv' /\ FreeInv' /\ ~panicked' /\ used' \subseteq Block
      <4>1. dinode' = [dinode EXCEPT ![i] = t] /\ ind' = ind
        BY <1>2, <3>2 DEF Write
      <4>. QED
        BY <1>1, <3>2, <3>3, <4>1, Itrunc
    <3>5. /\ dinode' \in [Inum -> Dinode] /\ inode' \in [Inum -> Dinode]
          /\ \A j \in Inum : /\ lock'[j] # None => valid'[j]
                             /\ valid'[j] => Copy(j)' \/ (valid[j] /\ ~Copy(j))
          /\ \A j \in Inum : dinode[j].type # "none" => dinode'[j].type = dinode[j].type
      BY <1>2, <1>3, <2>14, <3>1, <3>2, <3>3, <3>4, WriteCache
    <3>6. DiskType' /\ CacheType' /\ RestType'
      <4>1. panicked' \in BOOLEAN
        BY <3>2 DEF bfree_panics
      <4>. QED
        BY <1>1, <1>2, <2>14, <3>4, <3>5, <4>1 DEF DiskType, CacheType, RestType
    <3>. QED
      BY <2>9, <2>11, <2>12, <2>13, <2>14, <3>4, <3>5, <3>6, FileStep
  <2>16. CASE ~(call[p].mode = "trunc" /\ inode[ip[p]].type = "file")
    <3>1. UNCHANGED <<inode, dinode, used, panicked>>
      BY <1>5, <2>16
    <3>2. /\ \A k \in Inum : /\ lock'[k] # None => valid'[k]
                             /\ valid'[k] => Copy(k)' \/ (valid[k] /\ ~Copy(k))
          /\ \A k \in Inum : dinode'[k].type = dinode[k].type /\ SameBlocks(k)
      BY <1>2, <2>14, <3>1, KeepCache
    <3>3. FreeInv' /\ BlkInv'
      BY <1>1, <1>2, <3>1, <3>2, StepDisk
    <3>4. DiskType' /\ CacheType' /\ RestType'
      BY <1>1, <1>2, <2>14, <3>1 DEF DiskType, CacheType, RestType
    <3>. QED
      BY <2>9, <2>11, <2>12, <2>13, <2>14, <3>2, <3>3, <3>4, FileStep
  <2>. QED
    BY <2>15, <2>16
<1>. QED
  BY <1>4, <1>5 DEF open_file

-----------------------------------------------------------------------------
(***************************************************************************)
(* write().                                                                *)
(***************************************************************************)
\* balloc() finds a free block if there is one, and two of them with two left.
LEMMA BallocFacts ==
    /\ \A u : Block \ u # {} => balloc(u) \in Block \ u
    /\ BlocksLeft => /\ balloc(used) \in Block \ used
                     /\ balloc(used \cup {balloc(used)}) \in Block \ (used \cup {balloc(used)})
                     /\ \A b \in Block : b \in used => balloc(used \cup {b}) \in Block \ used
<1>1. ASSUME NEW u, Block \ u # {}
      PROVE  balloc(u) \in Block \ u
  <2>1. Block \ u \in SUBSET Nat
    BY InodeAssumption
  <2>2. \E b \in Block \ u : \A c \in Block \ u : b <= c
    <3>. DEFINE X == Block \ u
    <3>1. X \in SUBSET Nat /\ X # {}
      BY <1>1, <2>1
    <3>. HIDE DEF X
    <3>2. \E b \in X : \A c \in X : b <= c
      BY <3>1, Least
    <3>. QED
      BY <3>2 DEF X
  <2>. QED
    BY <2>2, Zenon DEF balloc
<1>2. ASSUME BlocksLeft, NEW b
      PROVE  Block \ used # {} /\ Block \ (used \cup {b}) # {}
  <2>. DEFINE X == Block \ used
              Y == Block \ (used \cup {b})
  <2>1. IsFiniteSet(X) /\ Cardinality(X) >= 2
    BY <1>2, InodeAssumption, FS_Subset DEF BlocksLeft
  <2>2. Y = X \ {b}
    OBVIOUS
  <2>. HIDE DEF X, Y
  <2>3. X # {}
    BY <2>1, FS_EmptySet
  <2>4. Y # {}
    <3>1. CASE b \in X
      <4>1. Cardinality(X \ {b}) = Cardinality(X) - 1
        BY <2>1, <3>1, FS_RemoveElement
      <4>2. Cardinality(X) \in Nat
        BY <2>1, FS_CardinalityType
      <4>. QED
        BY <2>1, <2>2, <4>1, <4>2, FS_EmptySet
    <3>2. CASE b \notin X
      BY <2>2, <2>3, <3>2
    <3>. QED
      BY <3>1, <3>2
  <2>. QED
    BY <2>3, <2>4 DEF X, Y
<1>3. ASSUME BlocksLeft
      PROVE  balloc(used) \in Block \ used
  BY <1>1, <1>2, <1>3
<1>4. ASSUME BlocksLeft, NEW b
      PROVE  balloc(used \cup {b}) \in Block \ (used \cup {b})
  BY <1>1, <1>2, <1>4
<1>5. ASSUME BlocksLeft, NEW b \in Block, b \in used
      PROVE  balloc(used \cup {b}) \in Block \ used
  BY <1>4, <1>5
<1>. QED
  BY <1>1, <1>3, <1>4, <1>5

\* Inode i has blocks added to it that were free.
Grown(i, r, u, nd) ==
    /\ r \in Dinode /\ u \in SUBSET Block /\ nd \in [Block -> Block \cup {0}]
    /\ r.type = dinode[i].type
    /\ \A b \in Block : nd[b] = ind[b] \/ b \notin used \/ b = dinode[i].indirect
    /\ \A k \in Kinds : \/ BlkOf(r, nd, k) = BlkOf(dinode[i], ind, k)
                        \/ BlkOf(r, nd, k) \in Block \ used
    /\ \A k, l \in Kinds : k # l /\ BlkOf(r, nd, k) \in Block => BlkOf(r, nd, k) # BlkOf(r, nd, l)
    /\ \A k \in Kinds : BlkOf(dinode[i], ind, k) \in Block => BlkOf(r, nd, k) = BlkOf(dinode[i], ind, k)
    /\ \A b \in Block : b \in u <=> b \in used \/ \E k \in Kinds : BlkOf(r, nd, k) = b

\* An inode that grows so keeps the ownership of blocks: no block is given to two.
LEMMA Grow ==
    ASSUME DiskType, BlkInv, FreeInv, NEW i \in Inum, dinode[i].type # "none",
           NEW r, Grown(i, r, used', ind'), Sized(r, ind'),
           dinode' = [dinode EXCEPT ![i] = r]
    PROVE  BlkInv' /\ FreeInv'
<1>1. dinode \in [Inum -> Dinode] /\ used \subseteq Block /\ ind \in [Block -> Block \cup {0}]
  BY DEF DiskType
<1>2. dinode'[i] = r /\ \A j \in Inum : j # i => dinode'[j] = dinode[j]
  BY <1>1
<1>3. r.type # "none"
  BY DEF Grown
<1>4. FreeInv'
  BY <1>2, <1>3 DEF FreeInv
<1>5. \A j \in Inum, k \in Kinds, b \in Block : OwnedBy(j, k, b) => b \in used
  BY DEF BlkInv
<1>6. \A j, m \in Inum, k, l \in Kinds, b \in Block :
            OwnedBy(j, k, b) /\ OwnedBy(m, l, b) => j = m /\ k = l
  BY DEF BlkInv
<1>7. ASSUME NEW j \in Inum, j # i
      PROVE  /\ dinode[j].indirect # 0 => ind'[dinode[j].indirect] = ind[dinode[j].indirect]
             /\ \A k \in Kinds : BlkOf(dinode'[j], ind', k) = BlkOf(dinode[j], ind, k)
  <2>. DEFINE b == dinode[j].indirect
  <2>1. b \in Block \cup {0}
    BY <1>1 DEF Dinode
  <2>2. ASSUME b # 0
        PROVE  ind'[b] = ind[b]
    <3>1. OwnedBy(j, "indirect", b) /\ b \in Block
      BY <2>1, <2>2 DEF OwnedBy, BlkOf
    <3>2. b \in used
      BY <1>5, <3>1 DEF Kinds
    <3>3. b # dinode[i].indirect
      <4>1. SUFFICES ASSUME b = dinode[i].indirect PROVE FALSE
        OBVIOUS
      <4>2. OwnedBy(i, "indirect", b)
        BY <4>1 DEF OwnedBy, BlkOf
      <4>. QED
        BY <1>6, <1>7, <3>1, <4>2 DEF Kinds
    <3>. QED
      BY <3>1, <3>2, <3>3 DEF Grown
  <2>. QED
    BY <1>2, <1>7, <2>2 DEF BlkOf
<1>8. ASSUME NEW j \in Inum, j # i, NEW k \in Kinds, NEW b \in Block
      PROVE  OwnedBy(j, k, b)' <=> OwnedBy(j, k, b)
  BY <1>7, <1>8 DEF OwnedBy
<1>9. ASSUME NEW k \in Kinds, NEW b \in Block
      PROVE  OwnedBy(i, k, b)' <=> BlkOf(r, ind', k) = b
  BY <1>2 DEF OwnedBy
<1>10. ASSUME NEW j \in Inum, NEW m \in Inum, NEW k \in Kinds, NEW l \in Kinds, NEW b \in Block,
              OwnedBy(j, k, b)', OwnedBy(m, l, b)'
       PROVE  j = m /\ k = l
  <2>1. CASE j = i /\ m = i
    BY <1>9, <1>10, <2>1 DEF Grown
  <2>2. CASE j # i /\ m # i
    BY <1>6, <1>8, <1>10, <2>2
  <2>3. ASSUME NEW n \in Inum, n # i, NEW x \in Kinds, NEW y \in Kinds,
               OwnedBy(i, x, b)', OwnedBy(n, y, b)'
        PROVE  FALSE
    <3>1. OwnedBy(n, y, b) /\ b \in used
      BY <1>5, <1>8, <2>3
    <3>2. BlkOf(r, ind', x) = b
      BY <1>9, <2>3
    <3>3. BlkOf(dinode[i], ind, x) = b
      BY <3>1, <3>2 DEF Grown
    <3>. QED
      BY <1>6, <2>3, <3>1, <3>3 DEF OwnedBy
  <2>. QED
    BY <1>10, <2>1, <2>2, <2>3
<1>11. ASSUME NEW b \in Block
       PROVE  b \in used' <=> \E j \in Inum, k \in Kinds : OwnedBy(j, k, b)'
  <2>1. b \in used' <=> b \in used \/ \E k \in Kinds : BlkOf(r, ind', k) = b
    BY DEF Grown
  <2>2. ASSUME b \in used
        PROVE  \E j \in Inum, k \in Kinds : OwnedBy(j, k, b)'
    <3>1. PICK j \in Inum, k \in Kinds : OwnedBy(j, k, b)
      BY <2>2 DEF BlkInv
    <3>2. CASE j = i
      <4>1. BlkOf(r, ind', k) = b
        BY <3>1, <3>2 DEF Grown, OwnedBy
      <4>. QED
        BY <1>9, <3>2, <4>1
    <3>3. CASE j # i
      BY <1>8, <3>1, <3>3
    <3>. QED
      BY <3>2, <3>3
  <2>3. ASSUME NEW j \in Inum, NEW k \in Kinds, OwnedBy(j, k, b)'
        PROVE  b \in used \/ \E l \in Kinds : BlkOf(r, ind', l) = b
    BY <1>5, <1>8, <1>9, <2>3
  <2>. QED
    BY <1>9, <2>1, <2>2, <2>3
<1>12. ASSUME NEW j \in Inum
       PROVE  Sized(dinode[j], ind)'
  <2>1. CASE j = i
    BY <1>2, <2>1 DEF Sized
  <2>2. CASE j # i
    <3>1. Sized(dinode[j], ind)
      BY DEF BlkInv
    <3>. QED
      BY <1>2, <1>7, <2>2, <3>1 DEF Sized
  <2>. QED
    BY <2>1, <2>2
<1>. QED
  BY <1>4, <1>10, <1>11, <1>12 DEF BlkInv

\* The blocks of X are new, and each goes to one place.
LEMMA GrownBy ==
    ASSUME DiskType, BlkInv, NEW i \in Inum, NEW r \in Dinode, NEW u, NEW X \in SUBSET (Block \ used),
           NEW nd \in [Block -> Block \cup {0}], r.type = dinode[i].type, u = used \cup X,
           \A b \in Block : nd[b] = ind[b] \/ b \notin used \/ b = dinode[i].indirect,
           \A k \in Kinds : \/ BlkOf(r, nd, k) = BlkOf(dinode[i], ind, k)
                            \/ BlkOf(dinode[i], ind, k) = 0 /\ BlkOf(r, nd, k) \in X,
           \A k, l \in Kinds : k # l /\ BlkOf(r, nd, k) \in X => BlkOf(r, nd, k) # BlkOf(r, nd, l),
           \A b \in X : \E k \in Kinds : BlkOf(r, nd, k) = b
    PROVE  Grown(i, r, u, nd)
<1>1. used \subseteq Block /\ 0 \notin Block
  BY InodeAssumption DEF DiskType
<1>2. \A k \in Kinds, b \in Block : BlkOf(dinode[i], ind, k) = b => b \in used
  BY DEF BlkInv, OwnedBy
<1>3. \A k, l \in Kinds, b \in Block :
         BlkOf(dinode[i], ind, k) = b /\ BlkOf(dinode[i], ind, l) = b => k = l
  BY DEF BlkInv, OwnedBy
<1>4. u \in SUBSET Block
  BY <1>1
<1>5. \A k \in Kinds : \/ BlkOf(r, nd, k) = BlkOf(dinode[i], ind, k)
                       \/ BlkOf(r, nd, k) \in Block \ used
  OBVIOUS
<1>6. ASSUME NEW k \in Kinds, NEW l \in Kinds, k # l, BlkOf(r, nd, k) \in Block
      PROVE  BlkOf(r, nd, k) # BlkOf(r, nd, l)
  <2>1. CASE BlkOf(r, nd, k) \in X
    BY <1>6, <2>1
  <2>2. CASE BlkOf(r, nd, l) \in X
    BY <1>6, <2>2
  <2>3. CASE BlkOf(r, nd, k) \notin X /\ BlkOf(r, nd, l) \notin X
    BY <1>3, <1>6, <2>3
  <2>. QED
    BY <2>1, <2>2, <2>3
<1>7. \A k \in Kinds : BlkOf(dinode[i], ind, k) \in Block => BlkOf(r, nd, k) = BlkOf(dinode[i], ind, k)
  BY <1>1
<1>8. ASSUME NEW b \in Block
      PROVE  b \in u <=> b \in used \/ \E k \in Kinds : BlkOf(r, nd, k) = b
  BY <1>2
<1>. QED
  BY <1>4, <1>5, <1>6, <1>7, <1>8 DEF Grown

\* A record with one more block.
WithDirect(r, b) == [r EXCEPT !.direct = b]
WithIndirect(r, b) == [r EXCEPT !.indirect = b]
WithSize(r, n) == [r EXCEPT !.size = n]
\* Each of the three differs from the old record in one field.
LEMMA BlockRecord ==
    ASSUME NEW r \in Dinode, NEW b \in Block \cup {0}, NEW n \in 0 .. 2
    PROVE  /\ WithDirect(r, b) \in Dinode /\ WithDirect(r, b).type = r.type
           /\ WithDirect(r, b).size = r.size /\ WithDirect(r, b).direct = b
           /\ WithDirect(r, b).indirect = r.indirect
           /\ WithIndirect(r, b) \in Dinode /\ WithIndirect(r, b).type = r.type
           /\ WithIndirect(r, b).size = r.size /\ WithIndirect(r, b).direct = r.direct
           /\ WithIndirect(r, b).indirect = b
           /\ b = r.indirect => WithIndirect(r, b) = r
           /\ WithSize(r, n) \in Dinode /\ WithSize(r, n).type = r.type
           /\ WithSize(r, n).size = n /\ WithSize(r, n).direct = r.direct
           /\ WithSize(r, n).indirect = r.indirect
<1>1. /\ WithDirect(r, b) \in Dinode /\ WithDirect(r, b).type = r.type
      /\ WithDirect(r, b).size = r.size /\ WithDirect(r, b).direct = b
      /\ WithDirect(r, b).indirect = r.indirect
  BY DEF WithDirect, Dinode
<1>2. /\ WithIndirect(r, b) \in Dinode /\ WithIndirect(r, b).type = r.type
      /\ WithIndirect(r, b).size = r.size /\ WithIndirect(r, b).direct = r.direct
      /\ WithIndirect(r, b).indirect = b
  BY DEF WithIndirect, Dinode
<1>3. b = r.indirect => WithIndirect(r, b) = r
  BY DEF WithIndirect, Dinode
<1>4. /\ WithSize(r, n) \in Dinode /\ WithSize(r, n).type = r.type
      /\ WithSize(r, n).size = n /\ WithSize(r, n).direct = r.direct
      /\ WithSize(r, n).indirect = r.indirect
  BY DEF WithSize, Dinode
<1>. QED
  BY <1>1, <1>2, <1>3, <1>4

\* The three places.
LEMMA ThreeKinds ==
    ASSUME NEW r, NEW nd
    PROVE  /\ BlkOf(r, nd, "direct") = r.direct /\ BlkOf(r, nd, "indirect") = r.indirect
           /\ BlkOf(r, nd, "entry") = IF r.indirect = 0 THEN 0 ELSE nd[r.indirect]
           /\ Kinds = {"direct", "indirect", "entry"}
           /\ "direct" \in Kinds /\ "indirect" \in Kinds /\ "entry" \in Kinds
  BY DEF BlkOf, Kinds

\* What bmap() returns: the block that was asked for, and nothing lost.
Mapped(i, off, r, nd) ==
    /\ r.size = dinode[i].size
    /\ off = 0 => /\ r.direct # 0 /\ r.indirect = dinode[i].indirect
                  /\ r.indirect # 0 => nd[r.indirect] = ind[r.indirect]
    /\ off = 1 => r.direct = dinode[i].direct /\ r.indirect # 0 /\ nd[r.indirect] # 0
\* bmap() takes blocks for the inode that were free.
LEMMA BmapFacts ==
    ASSUME DiskType, BlkInv, BlocksLeft, NEW i \in Inum, NEW off \in {0, 1}
    PROVE  \E r, u, nd : /\ bmap(dinode[i], off) = [r |-> r, used |-> u, ind |-> nd]
                         /\ Grown(i, r, u, nd) /\ Mapped(i, off, r, nd)
<1>. DEFINE d == dinode[i]
            x == d.direct
            n == d.indirect
            e == IF n = 0 THEN 0 ELSE ind[n]
<1>1. /\ d \in Dinode /\ ind \in [Block -> Block \cup {0}] /\ used \subseteq Block
      /\ x \in Block \cup {0} /\ n \in Block \cup {0} /\ 0 \notin Block
  BY InodeAssumption DEF DiskType, Dinode
<1>2. e \in Block \cup {0}
  BY <1>1
<1>3. BlkOf(d, ind, "direct") = x /\ BlkOf(d, ind, "indirect") = n /\ BlkOf(d, ind, "entry") = e
  BY ThreeKinds
<1>4. (x # 0 => x \in used) /\ (n # 0 => n \in used) /\ (e # 0 => e \in used)
  <2>1. \A k \in Kinds, b \in Block : BlkOf(d, ind, k) = b => b \in used
    BY DEF BlkInv, OwnedBy
  <2>2. "direct" \in Kinds /\ "indirect" \in Kinds /\ "entry" \in Kinds
    BY DEF Kinds
  <2>. HIDE DEF d, x, n, e
  <2>. QED
    BY <1>1, <1>2, <1>3, <2>1, <2>2
<1>5. n # 0 => e = ind[n]
  OBVIOUS
<1>6. n = 0 => e = 0
  OBVIOUS
<1>7. CASE off = 0 /\ x # 0
  <2>1. bmap(d, off) = [r |-> d, used |-> used, ind |-> ind]
    BY <1>7 DEF bmap
  <2>2. Grown(i, d, used, ind)
    <3>1. {} \in SUBSET (Block \ used) /\ used = used \cup {}
      OBVIOUS
    <3>. HIDE DEF d
    <3>. QED
      BY <1>1, <3>1, GrownBy DEF d
  <2>3. Mapped(i, off, d, ind)
    BY <1>7 DEF Mapped
  <2>. QED
    BY <2>1, <2>2, <2>3
<1>8. CASE off = 0 /\ x = 0
  <2>. DEFINE b == balloc(used)
              r == WithDirect(d, b)
              u == used \cup {b}
              nd == [ind EXCEPT ![b] = 0]
  <2>1. bmap(d, off) = [r |-> r, used |-> u, ind |-> nd]
    BY <1>8 DEF bmap, WithDirect
  <2>2. b \in Block \ used
    BY BallocFacts
  <2>. HIDE DEF b
  <2>3. nd \in [Block -> Block \cup {0}] /\ nd[b] = 0 /\ \A c \in Block : c # b => nd[c] = ind[c]
    BY <1>1, <2>2
  <2>. HIDE DEF nd
  <2>4. r \in Dinode /\ r.type = d.type /\ r.size = d.size /\ r.direct = b /\ r.indirect = n
    BY <1>1, <2>2, BlockRecord
  <2>. HIDE DEF r
  <2>5. n # 0 => nd[n] = ind[n]
    BY <1>1, <1>4, <2>2, <2>3
  <2>6. BlkOf(r, nd, "direct") = b /\ BlkOf(r, nd, "indirect") = n /\ BlkOf(r, nd, "entry") = e
    <3>1. /\ BlkOf(r, nd, "direct") = r.direct /\ BlkOf(r, nd, "indirect") = r.indirect
          /\ BlkOf(r, nd, "entry") = IF r.indirect = 0 THEN 0 ELSE nd[r.indirect]
      BY ThreeKinds
    <3>. QED
      BY <2>4, <2>5, <3>1
  <2>7. Grown(i, r, u, nd)
    <3>1. {b} \in SUBSET (Block \ used) /\ u = used \cup {b}
      BY <2>2
    <3>2. \A c \in Block : nd[c] = ind[c] \/ c \notin used \/ c = dinode[i].indirect
      BY <2>2, <2>3
    <3>. HIDE DEF d, x, n, e, u
    <3>3. \A k \in Kinds : \/ BlkOf(r, nd, k) = BlkOf(d, ind, k)
                           \/ BlkOf(d, ind, k) = 0 /\ BlkOf(r, nd, k) \in {b}
      BY <1>3, <1>8, <2>6 DEF Kinds
    <3>4. b # n /\ b # e
      BY <1>4, <2>2, <1>1
    <3>5. \A k, l \in Kinds : k # l /\ BlkOf(r, nd, k) \in {b} => BlkOf(r, nd, k) # BlkOf(r, nd, l)
      BY <2>6, <3>4 DEF Kinds
    <3>6. \A c \in {b} : \E k \in Kinds : BlkOf(r, nd, k) = c
      BY <2>6 DEF Kinds
    <3>. QED
      BY <2>3, <2>4, <3>1, <3>2, <3>3, <3>5, <3>6, GrownBy DEF d
  <2>8. Mapped(i, off, r, nd)
    BY <1>1, <1>8, <2>2, <2>4, <2>5 DEF Mapped
  <2>. QED
    BY <2>1, <2>7, <2>8
<1>9. CASE off = 1 /\ n # 0 /\ ind[n] # 0
  <2>1. used \cup {n} = used
    BY <1>4, <1>9
  <2>2. [d EXCEPT !.indirect = n] = d
    BY <1>1, BlockRecord DEF WithIndirect
  <2>3. bmap(d, off) = [r |-> d, used |-> used, ind |-> ind]
    BY <1>9, <2>1, <2>2 DEF bmap
  <2>4. Grown(i, d, used, ind)
    <3>1. {} \in SUBSET (Block \ used) /\ used = used \cup {}
      OBVIOUS
    <3>. HIDE DEF d
    <3>. QED
      BY <1>1, <3>1, GrownBy DEF d
  <2>5. Mapped(i, off, d, ind)
    BY <1>9 DEF Mapped
  <2>. QED
    BY <2>3, <2>4, <2>5
<1>10. CASE off = 1 /\ n # 0 /\ ind[n] = 0
  <2>. DEFINE c == balloc(used)
              u == used \cup {c}
              nd == [[ind EXCEPT ![c] = 0] EXCEPT ![n] = c]
  <2>1. used \cup {n} = used
    BY <1>4, <1>10
  <2>2. [d EXCEPT !.indirect = n] = d
    BY <1>1, BlockRecord DEF WithIndirect
  <2>3. bmap(d, off) = [r |-> d, used |-> u, ind |-> nd]
    BY <1>10, <2>1, <2>2 DEF bmap
  <2>4. c \in Block \ used
    BY BallocFacts
  <2>. HIDE DEF c
  <2>5. n # c /\ n \in Block
    BY <1>1, <1>4, <1>10, <2>4
  <2>6. /\ nd \in [Block -> Block \cup {0}] /\ nd[n] = c
        /\ \A b \in Block : b # c /\ b # n => nd[b] = ind[b]
    BY <1>1, <2>4, <2>5
  <2>. HIDE DEF nd
  <2>7. BlkOf(d, nd, "direct") = x /\ BlkOf(d, nd, "indirect") = n /\ BlkOf(d, nd, "entry") = c
    <3>1. /\ BlkOf(d, nd, "direct") = d.direct /\ BlkOf(d, nd, "indirect") = d.indirect
          /\ BlkOf(d, nd, "entry") = IF d.indirect = 0 THEN 0 ELSE nd[d.indirect]
      BY ThreeKinds
    <3>. QED
      BY <1>10, <2>6, <3>1
  <2>8. Grown(i, d, u, nd)
    <3>1. {c} \in SUBSET (Block \ used) /\ u = used \cup {c}
      BY <2>4
    <3>2. \A b \in Block : nd[b] = ind[b] \/ b \notin used \/ b = dinode[i].indirect
      BY <2>4, <2>6
    <3>3. e = 0
      BY <1>10
    <3>. HIDE DEF d, x, n, e, u
    <3>4. \A k \in Kinds : \/ BlkOf(d, nd, k) = BlkOf(d, ind, k)
                           \/ BlkOf(d, ind, k) = 0 /\ BlkOf(d, nd, k) \in {c}
      BY <1>3, <2>7, <3>3 DEF Kinds
    <3>5. c # n /\ c # x
      BY <1>1, <1>4, <2>4
    <3>6. \A k, l \in Kinds : k # l /\ BlkOf(d, nd, k) \in {c} => BlkOf(d, nd, k) # BlkOf(d, nd, l)
      BY <2>7, <3>5 DEF Kinds
    <3>7. \A b \in {c} : \E k \in Kinds : BlkOf(d, nd, k) = b
      BY <2>7 DEF Kinds
    <3>. QED
      BY <1>1, <2>6, <3>1, <3>2, <3>4, <3>6, <3>7, GrownBy DEF d
  <2>9. Mapped(i, off, d, nd)
    BY <1>1, <1>10, <2>4, <2>6 DEF Mapped
  <2>. QED
    BY <2>3, <2>8, <2>9
<1>11. CASE off = 1 /\ n = 0
  <2>. DEFINE b == balloc(used)
              c == balloc(used \cup {b})
              r == WithIndirect(d, b)
              u == (used \cup {b}) \cup {c}
              nd == [[[ind EXCEPT ![b] = 0] EXCEPT ![c] = 0] EXCEPT ![b] = c]
  <2>1. b \in Block \ used /\ c \in Block \ (used \cup {b})
    BY BallocFacts
  <2>2. bmap(d, off) = [r |-> r, used |-> u, ind |-> nd]
    <3>1. [ind EXCEPT ![b] = 0][b] = 0
      BY <1>1, <2>1
    <3>. QED
      BY <1>11, <3>1 DEF bmap, WithIndirect
  <2>. HIDE DEF b, c
  <2>3. b # c /\ c \in Block \ used
    BY <2>1
  <2>4. /\ nd \in [Block -> Block \cup {0}] /\ nd[b] = c
        /\ \A a \in Block : a # c /\ a # b => nd[a] = ind[a]
    BY <1>1, <2>1, <2>3
  <2>. HIDE DEF nd
  <2>5. r \in Dinode /\ r.type = d.type /\ r.size = d.size /\ r.direct = x /\ r.indirect = b
    BY <1>1, <2>1, BlockRecord
  <2>. HIDE DEF r
  <2>6. BlkOf(r, nd, "direct") = x /\ BlkOf(r, nd, "indirect") = b /\ BlkOf(r, nd, "entry") = c
    <3>1. /\ BlkOf(r, nd, "direct") = r.direct /\ BlkOf(r, nd, "indirect") = r.indirect
          /\ BlkOf(r, nd, "entry") = IF r.indirect = 0 THEN 0 ELSE nd[r.indirect]
      BY ThreeKinds
    <3>. QED
      BY <1>1, <2>1, <2>4, <2>5, <3>1
  <2>7. Grown(i, r, u, nd)
    <3>1. {b, c} \in SUBSET (Block \ used) /\ u = used \cup {b, c}
      BY <2>1, <2>3
    <3>2. \A a \in Block : nd[a] = ind[a] \/ a \notin used \/ a = dinode[i].indirect
      BY <2>1, <2>3, <2>4
    <3>3. e = 0
      BY <1>11
    <3>. HIDE DEF d, x, n, e, u
    <3>4. \A k \in Kinds : \/ BlkOf(r, nd, k) = BlkOf(d, ind, k)
                           \/ BlkOf(d, ind, k) = 0 /\ BlkOf(r, nd, k) \in {b, c}
      BY <1>3, <1>11, <2>6, <3>3 DEF Kinds
    <3>5. x # b /\ x # c
      BY <1>1, <1>4, <2>1, <2>3
    <3>6. \A k, l \in Kinds : k # l /\ BlkOf(r, nd, k) \in {b, c} => BlkOf(r, nd, k) # BlkOf(r, nd, l)
      BY <2>3, <2>6, <3>5 DEF Kinds
    <3>7. \A a \in {b, c} : \E k \in Kinds : BlkOf(r, nd, k) = a
      BY <2>6 DEF Kinds
    <3>. DEFINE X == {b, c}
    <3>. HIDE DEF X
    <3>8. /\ X \in SUBSET (Block \ used) /\ u = used \cup X
          /\ \A k \in Kinds : \/ BlkOf(r, nd, k) = BlkOf(d, ind, k)
                              \/ BlkOf(d, ind, k) = 0 /\ BlkOf(r, nd, k) \in X
          /\ \A k, l \in Kinds : k # l /\ BlkOf(r, nd, k) \in X => BlkOf(r, nd, k) # BlkOf(r, nd, l)
          /\ \A a \in X : \E k \in Kinds : BlkOf(r, nd, k) = a
      BY <3>1, <3>4, <3>6, <3>7 DEF X
    <3>. QED
      BY <2>4, <2>5, <3>2, <3>8, GrownBy DEF d
  <2>8. Mapped(i, off, r, nd)
    BY <1>1, <1>11, <2>1, <2>4, <2>5 DEF Mapped
  <2>. QED
    BY <2>2, <2>7, <2>8
<1>. QED
  BY <1>7, <1>8, <1>9, <1>10, <1>11

\* write() of a block adds it to the file, and to nobody else.
LEMMA filewriteInv ==
    ASSUME IInv, NEW p \in Proc, NEW fd \in 1 .. NOFILE, NEW copied \in BOOLEAN,
           filewrite(p, fd, copied)
    PROVE  IInv'
<1>1. /\ DiskType /\ CacheType /\ ProcType /\ FileType /\ RestType
      /\ BlkInv /\ FreeInv /\ FileInv /\ FdSum /\ RefSum
  BY Parts
<1>2. OnFd(p, fd)
  BY DEF filewrite
<1>3. PICK f \in 1 .. NFILE : f = ofile[p][fd]
  BY <1>2, OnFdFacts
<1>4. /\ pc[p] = "run" /\ puts[p] = <<>> /\ ~panicked /\ cwd[p] # 0 /\ calls < MaxCalls
      /\ file[f] \in FileRec
  BY <1>2, <1>3, OnFdFacts
<1>5. file[f].ip # 0
  BY <1>3 DEF filewrite
<1>6. PICK i \in Inum : i = file[f].ip
  BY <1>4, <1>5 DEF FileRec
<1>7. PICK off \in 0 .. 2 : off = file[f].off
  BY <1>4 DEF FileRec, MAXFILE
<1>8. /\ Cur(i).type = "file" /\ Free(i) /\ writei_ok(Cur(i), off) /\ BlocksLeft
      /\ used' = writei(Cur(i), off, copied).used /\ ind' = writei(Cur(i), off, copied).ind
      /\ Write(i, writei(Cur(i), off, copied).r)
      /\ file' = IF copied THEN [file EXCEPT ![f].off = @ + 1] ELSE file
      /\ calls' = calls + 1
      /\ UNCHANGED <<ents, ref, valid, lock, puts, panicked, cwd, ofile, ends, lost>>
      /\ UNCHANGED <<pc, call, path, dp, ip>>
  BY <1>3, <1>6, <1>7 DEF filewrite, procvars
<1>. DEFINE d == dinode[i]
<1>9. Cur(i) = d /\ d.type = "file" /\ d \in Dinode
  <2>1. lock[i] = None
    BY <1>8 DEF Free
  <2>. QED
    BY <1>1, <1>8, <2>1, CacheFacts DEF DiskType
<1>10. off \in {0, 1} /\ off <= d.size /\ off + 1 \in 0 .. 2 /\ d.size \in 0 .. 2
  <2>1. off <= d.size /\ off + 1 <= 2
    BY <1>8, <1>9 DEF writei_ok, MAXFILE
  <2>2. d.size \in 0 .. 2
    BY <1>9 DEF Dinode
  <2>. QED
    BY <2>1, <2>2
<1>11. \E r, u, nd : /\ bmap(d, off) = [r |-> r, used |-> u, ind |-> nd]
                     /\ Grown(i, r, u, nd) /\ Mapped(i, off, r, nd)
  BY <1>1, <1>8, <1>10, BmapFacts
<1>12. PICK r, u, nd : /\ bmap(d, off) = [r |-> r, used |-> u, ind |-> nd]
                       /\ Grown(i, r, u, nd) /\ Mapped(i, off, r, nd)
  BY <1>11
<1>13. r \in Dinode /\ r.type = "file" /\ r.size = d.size
  BY <1>9, <1>12 DEF Grown, Mapped
<1>. DEFINE w == IF copied /\ off + 1 > d.size THEN WithSize(r, off + 1) ELSE r
<1>14. used' = u /\ ind' = nd /\ Write(i, w)
  <2>1. writei(d, off, copied) = [r |-> w, used |-> u, ind |-> nd]
    <3>. DEFINE m == [r |-> r, used |-> u, ind |-> nd]
    <3>1. writei(d, off, copied) =
            IF copied /\ off + 1 > d.size THEN [m EXCEPT !.r.size = off + 1] ELSE m
      BY <1>12 DEF writei
    <3>2. [m EXCEPT !.r.size = off + 1] = [r |-> WithSize(r, off + 1), used |-> u, ind |-> nd]
      BY DEF WithSize
    <3>. QED
      BY <3>1, <3>2
  <2>. QED
    BY <1>8, <1>9, <2>1
<1>15. /\ w \in Dinode /\ w.type = "file" /\ w.direct = r.direct /\ w.indirect = r.indirect
       /\ w.size = IF copied /\ off + 1 > d.size THEN off + 1 ELSE d.size
  <2>1. 0 \in Block \cup {0}
    OBVIOUS
  <2>. QED
    BY <1>10, <1>13, <2>1, BlockRecord
<1>. HIDE DEF w
<1>16. Grown(i, w, u, nd)
  <2>1. \A k \in Kinds : BlkOf(w, nd, k) = BlkOf(r, nd, k)
    BY <1>15 DEF BlkOf
  <2>. QED
    BY <1>9, <1>12, <1>15, <2>1 DEF Grown
<1>17. Sized(w, nd)
  <2>1. Sized(d, ind)
    BY <1>1 DEF BlkInv
  <2>2. CASE off = 0
    BY <1>9, <1>10, <1>12, <1>15, <2>1, <2>2 DEF Sized, Mapped
  <2>3. CASE off = 1
    BY <1>9, <1>10, <1>12, <1>15, <2>1, <2>3 DEF Sized, Mapped
  <2>. QED
    BY <1>10, <2>2, <2>3
<1>18. BlkInv' /\ FreeInv'
  <2>1. dinode' = [dinode EXCEPT ![i] = w] /\ Grown(i, w, used', ind') /\ Sized(w, ind')
    BY <1>14, <1>16, <1>17 DEF Write
  <2>2. dinode[i].type # "none"
    BY <1>9
  <2>. QED
    BY <1>1, <2>1, <2>2, Grow
<1>19. /\ dinode' \in [Inum -> Dinode] /\ inode' \in [Inum -> Dinode]
       /\ \A j \in Inum : /\ lock'[j] # None => valid'[j]
                          /\ valid'[j] => Copy(j)' \/ (valid[j] /\ ~Copy(j))
       /\ \A j \in Inum : dinode[j].type # "none" => dinode'[j].type = dinode[j].type
  <2>1. dinode[i].type # "none" /\ w.type = dinode[i].type /\ ~panicked'
    BY <1>4, <1>8, <1>9, <1>15
  <2>2. UNCHANGED valid /\ \A j \in Inum : lock'[j] # None => lock[j] # None
    BY <1>8
  <2>. QED
    BY <1>4, <1>14, <1>15, <2>1, <2>2, WriteCache
<1>20. DiskType' /\ CacheType' /\ RestType'
  <2>1. used' \subseteq Block /\ ind' \in [Block -> Block \cup {0}]
    BY <1>14, <1>16 DEF Grown
  <2>2. calls' \in 0 .. MaxCalls
    BY <1>1, <1>4, <1>8, FsAssumption DEF RestType
  <2>. QED
    BY <1>1, <1>8, <1>19, <2>1, <2>2 DEF DiskType, CacheType, RestType
<1>21. Step(p, "run", 0, 0, 0, 0)
  BY <1>4, <1>8, RunFacts
<1>22. FileType' /\ FdSum' /\ FileInv' /\ RefSum'
  <2>. DEFINE m == IF copied THEN off + 1 ELSE off
  <2>1. m \in 0 .. MAXFILE
    BY <1>10 DEF MAXFILE
  <2>2. file' = [file EXCEPT ![f] = WithOff(file[f], m)]
    <3>1. CASE copied
      BY <1>7, <1>8, <3>1 DEF WithOff
    <3>2. CASE ~copied
      <4>1. WithOff(file[f], off) = file[f]
        BY <1>4, <1>7 DEF WithOff, FileRec
      <4>. QED
        BY <1>1, <1>8, <3>2, <4>1 DEF FileType
    <3>. QED
      BY <3>1, <3>2
  <2>3. UNCHANGED <<ref, cwd, ofile, ends>>
    BY <1>8
  <2>. HIDE DEF m
  <2>. QED
    BY <1>2, <1>3, <1>21, <2>1, <2>2, <2>3, OffSet
<1>23. PtrRow(p)'
  <2>1. pc'[p] = "run" /\ dp'[p] = 0 /\ ip'[p] = 0
    BY <1>1, <1>21, StepRow
  <2>. QED
    BY <1>4, <1>8, <2>1 DEF PtrRow
<1>24. /\ \A q \in Proc : q # p => cwd'[q] = cwd[q] /\ ofile'[q] = ofile[q]
       /\ \A j \in Inum : lock'[j] = IF lock[j] = p THEN None ELSE lock[j]
  BY <1>4, <1>8, Unlocked
<1>. QED
  BY <1>18, <1>19, <1>20, <1>21, <1>22, <1>23, <1>24, FileStep

-----------------------------------------------------------------------------
(***************************************************************************)
(* The theorems on references, locks and blocks.                           *)
(***************************************************************************)
\* A record with another type.
WithType(r, t) == [r EXCEPT !.type = t]
\* It differs from the old one in nothing else.
LEMMA TypeRecord ==
    ASSUME NEW r \in Dinode, NEW t \in {"none", "dir", "file", "device"}
    PROVE  /\ WithType(r, t) \in Dinode /\ WithType(r, t).type = t
           /\ WithType(r, t).direct = r.direct /\ WithType(r, t).indirect = r.indirect
  BY DEF WithType, Dinode

\* The image that Init describes, with its one block in use.
LEMMA InitDisk ==
    ASSUME Init
    PROVE  /\ DiskType /\ FreeInv /\ BlkInv
<1>. DEFINE b == balloc({})
            root == [Unused EXCEPT !.type = "dir", !.nlink = 2]
            rec2 == [Unused EXCEPT !.type = "file", !.nlink = 1, !.size = 1, !.direct = b]
            rec3 == [Unused EXCEPT !.type = "dir", !.nlink = 1]
<1>1. b \in Block /\ 0 \notin Block
  <2>1. Block \ {} # {}
    BY FsAssumption
  <2>. QED
    BY <2>1, BallocFacts, InodeAssumption
<1>2. /\ dinode = [i \in Inum |-> CASE i = ROOTINO -> root [] i = 2 -> rec2 [] i = 3 -> rec3
                                    [] OTHER -> Unused]
      /\ used = {b} /\ ind = [c \in Block |-> 0]
  BY DEF Init
<1>3. ents \in [Inum -> [Entry -> Inum \cup {0}]]
  <2>1. 1 \in Inum /\ 2 \in Inum /\ 3 \in Inum
    BY FsAssumption, InodeAssumption DEF Inum
  <2>2. NoEnts \in [Entry -> Inum \cup {0}]
    BY DEF NoEnts
  <2>3. [NoEnts EXCEPT !["."] = 3, ![".."] = ROOTINO] \in [Entry -> Inum \cup {0}]
    BY <2>1, <2>2 DEF ROOTINO
  <2>4. [n \in Entry |-> CASE n \in {".", ".."} -> ROOTINO
                           [] n = "a" -> 2 [] n = "d" -> 3 [] OTHER -> 0] \in [Entry -> Inum \cup {0}]
    BY <2>1 DEF ROOTINO
  <2>. QED
    BY <2>2, <2>3, <2>4 DEF Init
<1>. HIDE DEF b
<1>4. Unused \in Dinode /\ Unused.type = "none" /\ Unused.size = 0 /\ Unused.direct = 0 /\ Unused.indirect = 0
  BY DEF Unused, Dinode
<1>5. root \in Dinode /\ root.type = "dir" /\ root.direct = 0 /\ root.indirect = 0
  <2>. DEFINE a == WithType(Unused, "dir")
  <2>1. a \in Dinode /\ a.type = "dir" /\ a.direct = 0 /\ a.indirect = 0 /\ 2 \in Int
    BY <1>4, TypeRecord
  <2>2. root = WithLinks(a, 2)
    BY DEF WithType, WithLinks
  <2>. HIDE DEF a, root
  <2>. QED
    BY <2>1, <2>2, LinkRecord
<1>6. rec2 \in Dinode /\ rec2.type = "file" /\ rec2.size = 1 /\ rec2.direct = b /\ rec2.indirect = 0
  <2>. DEFINE a == WithType(Unused, "file")
              l == WithLinks(a, 1)
              z == WithSize(l, 1)
  <2>1. rec2 = WithDirect(z, b)
    BY DEF WithType, WithLinks, WithSize, WithDirect
  <2>2. a \in Dinode /\ a.type = "file" /\ a.direct = 0 /\ a.indirect = 0 /\ 1 \in Int
    BY <1>4, TypeRecord
  <2>. HIDE DEF a, rec2
  <2>3. l \in Dinode /\ l.type = "file" /\ l.direct = 0 /\ l.indirect = 0
    BY <2>2, LinkRecord
  <2>. HIDE DEF l
  <2>4. z \in Dinode /\ z.type = "file" /\ z.size = 1 /\ z.indirect = 0
    <3>1. 0 \in Block \cup {0} /\ 1 \in 0 .. 2
      OBVIOUS
    <3>. QED
      BY <2>3, <3>1, BlockRecord
  <2>. HIDE DEF z
  <2>. QED
    BY <1>1, <2>1, <2>4, BlockRecord
<1>7. rec3 \in Dinode /\ rec3.type = "dir" /\ rec3.direct = 0 /\ rec3.indirect = 0
  <2>. DEFINE a == WithType(Unused, "dir")
  <2>1. a \in Dinode /\ a.type = "dir" /\ a.direct = 0 /\ a.indirect = 0 /\ 1 \in Int
    BY <1>4, TypeRecord
  <2>2. rec3 = WithLinks(a, 1)
    BY DEF WithType, WithLinks
  <2>. HIDE DEF a, rec3
  <2>. QED
    BY <2>1, <2>2, LinkRecord
<1>. HIDE DEF root, rec2, rec3
<1>8. ASSUME NEW i \in Inum
      PROVE  /\ dinode[i] \in Dinode /\ dinode[i].indirect = 0
             /\ dinode[i].direct = IF i = 2 THEN b ELSE 0
             /\ i = 2 => dinode[i].type = "file" /\ dinode[i].size = 1
             /\ i # 2 => dinode[i].type # "file"
  <2>1. CASE i = 1
    BY <1>2, <1>5, <2>1 DEF ROOTINO
  <2>2. CASE i = 2
    BY <1>2, <1>6, <2>2 DEF ROOTINO
  <2>3. CASE i = 3
    BY <1>2, <1>7, <2>3 DEF ROOTINO
  <2>4. CASE i \notin {1, 2, 3}
    BY <1>2, <1>4, <2>4 DEF ROOTINO
  <2>. QED
    BY <2>1, <2>2, <2>3, <2>4
<1>9. DiskType
  <2>1. dinode \in [Inum -> Dinode]
    <3>1. DOMAIN dinode = Inum /\ dinode = [i \in DOMAIN dinode |-> dinode[i]]
      BY <1>2
    <3>. QED
      BY <1>8, <3>1
  <2>. QED
    BY <1>1, <1>2, <1>3, <2>1 DEF DiskType
<1>10. FreeInv
  BY <1>8 DEF FreeInv
<1>11. ASSUME NEW i \in Inum, NEW k \in Kinds, NEW c \in Block
       PROVE  OwnedBy(i, k, c) <=> i = 2 /\ k = "direct" /\ c = b
  <2>1. /\ BlkOf(dinode[i], ind, "direct") = dinode[i].direct
        /\ BlkOf(dinode[i], ind, "indirect") = 0 /\ BlkOf(dinode[i], ind, "entry") = 0
    BY <1>8, ThreeKinds
  <2>. QED
    BY <1>1, <1>8, <2>1 DEF OwnedBy, Kinds
<1>12. BlkInv
  <2>1. 2 \in Inum /\ "direct" \in Kinds
    BY FsAssumption, InodeAssumption DEF Inum, Kinds
  <2>2. \A c \in Block : c \in used <=> \E i \in Inum, k \in Kinds : OwnedBy(i, k, c)
    BY <1>1, <1>2, <1>11, <2>1
  <2>3. \A i \in Inum : Sized(dinode[i], ind)
    BY <1>1, <1>8 DEF Sized
  <2>4. \A i, j \in Inum, k, l \in Kinds, c \in Block :
            OwnedBy(i, k, c) /\ OwnedBy(j, l, c) => i = j /\ k = l
    BY <1>11
  <2>. QED
    BY <2>2, <2>3, <2>4 DEF BlkInv
<1>. QED
  BY <1>9, <1>10, <1>12

\* The initial states satisfy the invariant.
LEMMA InitInv ==
    ASSUME Init
    PROVE  IInv
<1>1. /\ inode = [i \in Inum |-> Unused]
      /\ ref = [i \in Inum |-> IF i = ROOTINO THEN Cardinality(Proc) ELSE 0]
      /\ valid = [i \in Inum |-> FALSE] /\ lock = [i \in Inum |-> None]
      /\ puts = [p \in Proc |-> <<>>] /\ panicked = FALSE
      /\ pc = [p \in Proc |-> "run"] /\ call = [p \in Proc |-> NoCall]
      /\ path = [p \in Proc |-> <<>>]
      /\ dp = [p \in Proc |-> 0] /\ ip = [p \in Proc |-> 0]
      /\ cwd = [p \in Proc |-> ROOTINO]
      /\ ofile = [p \in Proc |-> [fd \in 1 .. NOFILE |-> 0]]
      /\ ends = [p \in Proc |-> <<>>] /\ file = [f \in 1 .. NFILE |-> NoFile]
      /\ calls = 0 /\ lost = {}
  BY DEF Init
<1>2. DiskType /\ FreeInv /\ BlkInv
  BY InitDisk
<1>3. ROOTINO \in Inum /\ ROOTINO # 0 /\ 0 \notin Inum /\ Cardinality(Proc) \in Nat
  BY InodeAssumption, FS_CardinalityType DEF Inum, ROOTINO
<1>4. CacheType
  <2>1. Unused \in Dinode
    BY DEF Unused, Dinode
  <2>. QED
    BY <1>1, <1>3, <2>1 DEF CacheType
<1>5. ProcType
  BY <1>1 DEF ProcType, PCs
<1>6. FileType
  <2>1. NoFile \in FileRec
    BY DEF NoFile, FileRec, MAXFILE
  <2>2. [fd \in 1 .. NOFILE |-> 0] \in [1 .. NOFILE -> 0 .. NFILE]
    BY FsAssumption
  <2>. QED
    BY <1>1, <1>3, <2>1, <2>2 DEF FileType
<1>7. RestType
  BY <1>1, FsAssumption DEF RestType
<1>8. TypeOK
  BY <1>2, <1>4, <1>5, <1>6, <1>7, TypeParts
<1>9. PtrInv
  BY <1>1, <1>3 DEF PtrInv, PtrRow
<1>10. \A p \in Proc : puts[p] = <<>> /\ First(p) = 0 /\ Second(p) = 0 /\ \A i, at : ~Iputting(p, i, at)
  BY <1>1 DEF First, Second, Iputting
<1>11. PutInv
  BY <1>1, <1>10 DEF PutInv, PutRow
<1>12. LockInv
  BY <1>1, <1>10, InodeAssumption DEF LockInv, Holds
<1>13. FileInv
  BY <1>1 DEF FileInv, EndRow
<1>14. CacheInv
  BY <1>1 DEF CacheInv
<1>15. PinInv
  <2>1. NoCall.op = "none"
    BY DEF NoCall
  <2>2. \A p \in Proc : PinRow(p) /\ \A i \in Inum : ~Pins(p, i)
    BY <1>1, <2>1 DEF PinRow, Pins, DirPCs
  <2>. QED
    BY <2>2 DEF PinInv
<1>16. RefSum
  <2>. SUFFICES ASSUME NEW i \in Inum
                PROVE  ref[i] = NumOf(cwd, i) + NumOf(dp, i) + NumOf(ip, i)
                              + NumOf(Firsts, i) + NumOf(Seconds, i) + NumOf(FileIps, i)
    BY DEF RefSum
  <2>1. NumOf(dp, i) = 0 /\ NumOf(ip, i) = 0
    BY <1>1, <1>3, NumZero
  <2>2. NumOf(Firsts, i) = 0 /\ NumOf(Seconds, i) = 0
    <3>1. /\ \A p \in DOMAIN Firsts : Firsts[p] # i
          /\ \A p \in DOMAIN Seconds : Seconds[p] # i
      BY <1>3, <1>10 DEF Firsts, Seconds
    <3>. QED
      BY <3>1, NumZero
  <2>3. NumOf(FileIps, i) = 0
    <3>1. \A f \in DOMAIN FileIps : FileIps[f] # i
      BY <1>1, <1>3 DEF FileIps, FileIp, NoFile
    <3>. QED
      BY <3>1, NumZero
  <2>4. NumOf(cwd, i) = ref[i] /\ ref[i] \in Nat
    <3>1. CASE i = ROOTINO
      <4>1. {p \in DOMAIN cwd : cwd[p] = i} = Proc
        BY <1>1, <3>1
      <4>. QED
        BY <1>1, <1>3, <3>1, <4>1 DEF NumOf
    <3>2. CASE i # ROOTINO
      <4>1. \A p \in DOMAIN cwd : cwd[p] # i
        BY <1>1, <3>2
      <4>. QED
        BY <1>1, <3>2, <4>1, NumZero
    <3>. QED
      BY <3>1, <3>2
  <2>. QED
    BY <2>1, <2>2, <2>3, <2>4
<1>17. FdSum
  <2>. SUFFICES ASSUME NEW f \in 1 .. NFILE
                PROVE  file[f].ref = NumOf(Fds, f) + Cardinality(Piping(f))
    BY DEF FdSum
  <2>1. \A x \in DOMAIN Fds : Fds[x] # f
    BY <1>1 DEF Fds
  <2>2. NumOf(Fds, f) = 0
    BY <2>1, NumZero
  <2>3. Piping(f) = {}
    BY <1>1 DEF Piping, Range
  <2>4. Cardinality(Piping(f)) = 0
    BY <2>3, FS_EmptySet
  <2>5. file[f].ref = 0
    BY <1>1 DEF NoFile
  <2>. QED
    BY <2>2, <2>4, <2>5
<1>. QED
  BY <1>2, <1>8, <1>9, <1>11, <1>12, <1>13, <1>14, <1>15, <1>16, <1>17 DEF IInv

\* Every step keeps the invariant.
LEMMA NextInv ==
    ASSUME IInv, [Next]_vars
    PROVE  IInv'
<1>1. ASSUME UNCHANGED vars
      PROVE  IInv'
  <2>1. /\ UNCHANGED <<dinode, ents, used, ind, inode, ref, valid, lock, puts, panicked>>
        /\ UNCHANGED <<pc, call, path, dp, ip, cwd, ofile, ends, file, calls, lost>>
    BY <1>1 DEF vars, diskvars, cachevars, procvars, filevars
  <2>2. /\ TypeOK /\ PtrInv /\ PutInv /\ LockInv /\ FileInv /\ RefSum /\ FdSum
        /\ CacheInv /\ PinInv /\ FreeInv /\ BlkInv
    BY DEF IInv
  <2>3. TypeOK'
    BY <2>1, <2>2 DEF TypeOK
  <2>4. PtrInv' /\ FreeInv'
    BY <2>1, <2>2 DEF PtrInv, PtrRow, FreeInv
  <2>5. PutInv'
    BY <2>1, <2>2 DEF PutInv, PutRow, First, Second
  <2>6. \A p \in Proc : \A i, at : Iputting(p, i, at)' <=> Iputting(p, i, at)
    BY <2>1 DEF Iputting
  <2>7. LockInv'
    BY <2>1, <2>2, <2>6 DEF LockInv, Holds
  <2>8. FileInv'
    BY <2>1, <2>2 DEF FileInv, EndRow
  <2>9. Firsts' = Firsts /\ Seconds' = Seconds /\ FileIps' = FileIps /\ Fds' = Fds
        /\ \A f : Piping(f)' = Piping(f)
    BY <2>1 DEF Firsts, Seconds, FileIps, Fds, Piping, First, Second, FileIp
  <2>10. RefSum' /\ FdSum'
    BY <2>1, <2>2, <2>9 DEF RefSum, FdSum
  <2>11. CacheInv'
    BY <2>1, <2>2, <2>6 DEF CacheInv, Copy
  <2>12. PinInv'
    BY <2>1, <2>2, <2>6 DEF PinInv, PinRow, Pins
  <2>13. BlkInv'
    BY <2>1, <2>2 DEF BlkInv, OwnedBy
  <2>. QED
    BY <2>3, <2>4, <2>5, <2>7, <2>8, <2>10, <2>11, <2>12, <2>13 DEF IInv
<1>2. ASSUME NEW p \in Proc,
             \/ \E c \in Calls : sys_path(p, c)
             \/ namex(p)
             \/ create(p) \/ create_found(p) \/ create_new(p) \/ sys_mkdir(p)
             \/ sys_open(p) \/ open_file(p)
      PROVE  IInv'
  BY <1>2, sys_pathInv, namexInv, createInv, create_foundInv, create_newInv, sys_mkdirInv,
     sys_openInv, open_fileInv
<1>3. ASSUME NEW p \in Proc,
             \/ sys_unlink(p) \/ unlink_entry(p) \/ unlink_inode(p)
             \/ sys_link(p) \/ link_entry(p) \/ link_bad(p) \/ sys_chdir(p)
      PROVE  IInv'
  BY <1>3, sys_unlinkInv, unlink_entryInv, unlink_inodeInv, sys_linkInv, link_entryInv,
     link_badInv, sys_chdirInv
<1>4. ASSUME NEW p \in Proc, NEW fd \in 1 .. NOFILE,
             \/ sys_close(p, fd) \/ sys_dup(p, fd) \/ fileread(p, fd)
             \/ \E copied \in BOOLEAN : filewrite(p, fd, copied)
      PROVE  IInv'
  BY <1>4, sys_closeInv, sys_dupInv, filereadInv, filewriteInv
<1>5. ASSUME NEW p \in Proc,
             \/ sys_pipe(p) \/ \E b \in BOOLEAN : pipealloc(p, b) \/ pipe_fds(p, b)
             \/ \E q \in Proc : fork(p, q)
             \/ exit(p)
             \/ Iput(p)
      PROVE  IInv'
  BY <1>5, sys_pipeInv, pipeallocInv, pipe_fdsInv, forkInv, exitInv, IputInv
<1>6. ASSUME Done
      PROVE  IInv'
  BY <1>1, <1>6 DEF Done
<1>. QED
  BY <1>1, <1>2, <1>3, <1>4, <1>5, <1>6 DEF Next

\* The inductive invariant holds in every reachable state of the file system.
THEOREM FsInv == Spec => []IInv
<1>1. Init => IInv
  BY InitInv
<1>2. IInv /\ [Next]_vars => IInv'
  BY NextInv
<1>. QED
  BY <1>1, <1>2, PTL DEF Spec

\* Type correctness of modules Inode and Fs.
THEOREM FsTypeCorrect == Spec => []TypeOK
<1>1. IInv => TypeOK
  BY DEF IInv
<1>. QED
  BY <1>1, FsInv, PTL

\* ip->ref of kernel/file.h counts the pointers to a cache entry, and f->ref the
\* descriptors of a file, through every call and every error path of sysfile.c,
\* fs.c and file.c.
THEOREM FsRefsCounted == Spec => []RefsCounted
<1>1. IInv => RefsCounted
  BY RefsForm DEF IInv
<1>. QED
  BY <1>1, FsInv, PTL

\* The comment in iput(), "ref == 1 means no other process can have ip locked, so
\* this acquiresleep() won't block (or deadlock)", is right: acquiresleep() with
\* icache.lock held does not sleep.
THEOREM FsIputNoWait == Spec => []IputNoWait
<1>1. ASSUME IInv PROVE IputNoWait
  <2>. SUFFICES ASSUME NEW p \in Proc, puts[p] # <<>>, Head(puts[p]).at = "test",
                       ref[Head(puts[p]).i] = 1
                PROVE  Free(Head(puts[p]).i)
    BY DEF IputNoWait, iput_last
  <2>1. CacheType /\ LockInv
    BY <1>1, Parts
  <2>2. /\ First(p) = Head(puts[p]).i /\ Head(puts[p]).i \in Inum
        /\ \A k, at : Iputting(p, k, at) <=> First(p) = k /\ at = Head(puts[p]).at
        /\ \A q \in Proc : q # p /\ (dp[q] = First(p) \/ ip[q] = First(p) \/ First(q) = First(p))
                           => ref[First(p)] >= 2
        /\ dp[p] = First(p) \/ ip[p] = First(p) => ref[First(p)] >= 2
    BY <1>1, PutFacts
  <2>3. PICK i \in Inum : i = First(p)
    BY <2>2
  <2>4. ASSUME NEW q \in Proc, lock[i] = q
        PROVE  FALSE
    <3>1. Holds(q, i)
      BY <2>1, <2>4 DEF LockInv
    <3>2. CASE q = p
      BY <2>2, <2>3, <3>1, <3>2 DEF Holds
    <3>3. CASE q # p
      <4>1. dp[q] = i \/ ip[q] = i \/ First(q) = i
        BY <3>1 DEF Holds, Iputting, First
      <4>. QED
        BY <2>2, <2>3, <3>3, <4>1
    <3>. QED
      BY <3>2, <3>3
  <2>. QED
    BY <2>1, <2>2, <2>3, <2>4 DEF Free, CacheType
<1>. QED
  BY <1>1, FsInv, PTL

\* A block that the bitmap says is in use belongs to one file, in one place, and
\* no file has a block that is free or another's, whoever writes, truncates and
\* removes files at once (bmap(), itrunc(), balloc() and bfree() of fs.c).
THEOREM FsBlocksOwned == Spec => []BlocksOwned
<1>1. IInv => BlocksOwned
  BY BlocksForm, Parts
<1>. QED
  BY <1>1, FsInv, PTL

-----------------------------------------------------------------------------
(***************************************************************************)
(* The directory tree.                                                     *)
(***************************************************************************)
\* The sets that are counted over are finite.
LEMMA TreeFinite ==
    IsFiniteSet(Inum) /\ IsFiniteSet(Name) /\ IsFiniteSet(Inum \X Name) /\ IsFiniteSet(Proc)
<1>1. IsFiniteSet(Inum)
  BY InodeAssumption, FS_Interval, 1 \in Int, NINODES \in Int DEF Inum
<1>2. IsFiniteSet(Name) /\ IsFiniteSet(Proc)
  BY InodeAssumption
<1>3. IsFiniteSet(Inum \X Name)
  BY <1>1, <1>2, FS_Product
<1>. QED
  BY <1>1, <1>2, <1>3

\* What the counts are counts of.
LEMMA CountParts ==
    ASSUME NEW i
    PROVE  /\ NumOf(NameOf, i) \in Nat /\ NumOf(Parents, i) \in Nat /\ NumOf(Pendings, i) \in Nat
           /\ \A d \in Inum, n \in Name : ents[d][n] = i => NumOf(NameOf, i) >= 1
           /\ \A d \in Inum : Parents[d] = i => NumOf(Parents, i) >= 1
           /\ \A p \in Proc : Pend(p) = i => NumOf(Pendings, i) >= 1
<1>1. DOMAIN NameOf = Inum \X Name /\ DOMAIN Parents = Inum /\ DOMAIN Pendings = Proc
  BY DEF NameOf, Parents, Pendings
<1>2. /\ NumOf(NameOf, i) \in Nat
      /\ \A x \in Inum \X Name : NumOf(NameOf, i) >= Is(NameOf[x], i)
  BY <1>1, TreeFinite, CountAtLeast
<1>3. NumOf(Parents, i) \in Nat /\ \A d \in Inum : NumOf(Parents, i) >= Is(Parents[d], i)
  BY <1>1, TreeFinite, CountAtLeast
<1>4. NumOf(Pendings, i) \in Nat /\ \A p \in Proc : NumOf(Pendings, i) >= Is(Pendings[p], i)
  BY <1>1, TreeFinite, CountAtLeast
<1>5. ASSUME NEW d \in Inum, NEW n \in Name, ents[d][n] = i
      PROVE  NumOf(NameOf, i) >= 1
  <2>1. <<d, n>> \in Inum \X Name /\ NameOf[<<d, n>>] = i
    BY <1>5 DEF NameOf
  <2>. QED
    BY <1>2, <2>1 DEF Is
<1>6. \A p \in Proc : Pendings[p] = Pend(p)
  BY DEF Pendings
<1>. QED
  BY <1>2, <1>3, <1>4, <1>5, <1>6 DEF Is

\* A vacant inode is in no directory.
LEMMA VacantFacts ==
    ASSUME IInv, TreeInv, NEW i \in Inum, Vacant(i)
    PROVE  /\ dinode[i].nlink = 0 /\ NumOf(NameOf, i) = 0 /\ NumOf(Parents, i) = 0 /\ NumOf(Pendings, i) = 0
           /\ \A d \in Inum, n \in Name : ents[d][n] # i
           /\ \A d \in Inum : Parents[d] # i
           /\ \A p \in Proc : Pend(p) # i
           /\ i # ROOTINO
<1>1. dinode[i].nlink = 0 /\ 0 >= Count(i)
  BY DEF TreeInv, UseInv, CountInv
<1>2. /\ NumOf(NameOf, i) = 0 /\ NumOf(Parents, i) = 0 /\ NumOf(Pendings, i) = 0
  BY <1>1, CountParts DEF Count
<1>3. /\ \A d \in Inum, n \in Name : ents[d][n] # i
      /\ \A d \in Inum : Parents[d] # i
      /\ \A p \in Proc : Pend(p) # i
  BY <1>2, CountParts
<1>4. ROOTINO \in Inum /\ Parents[ROOTINO] = ROOTINO
  BY InodeAssumption DEF TreeInv, RootInv, Parents, Named, ROOTINO, Inum
<1>. QED
  BY <1>1, <1>2, <1>3, <1>4

\* No inode, or one that is not vacant.
InUse(i) == i = 0 \/ (i \in Inum /\ ~Vacant(i))

\* The pointers of processes and files.
LEMMA PointersInUse ==
    ASSUME IInv, TreeInv, NEW p \in Proc
    PROVE  /\ InUse(cwd[p]) /\ InUse(dp[p]) /\ InUse(Second(p))
           /\ pc[p] # "create_new" => InUse(ip[p])
           /\ \A i \in Inum : Iputting(p, i, "test") => InUse(i)
           /\ \A f \in 1 .. NFILE : InUse(FileIp(f))
           /\ InUse(ROOTINO) /\ InUse(0)
<1>1. ProcType /\ FileType
  BY Parts
<1>2. /\ cwd[p] \in Inum \cup {0} /\ dp[p] \in Inum \cup {0} /\ ip[p] \in Inum \cup {0}
      /\ \A f \in 1 .. NFILE : FileIp(f) \in Inum \cup {0}
  BY <1>1 DEF ProcType, FileType, FileIp, FileRec
<1>3. Second(p) \in Inum \cup {0}
  <2>1. puts[p] \in Seq(PutRec)
    BY <1>1 DEF ProcType
  <2>2. 2 \in DOMAIN puts[p] => puts[p][2] \in PutRec
    BY <2>1
  <2>. QED
    BY <2>2 DEF Second, PutRec
<1>4. UseInv
  BY DEF TreeInv
<1>5. ROOTINO \in Inum
  BY InodeAssumption DEF ROOTINO, Inum
<1>. QED
  BY <1>2, <1>3, <1>4, <1>5, VacantFacts DEF UseInv, Uses, InUse

\* What a directory in use lists is in use.
LEMMA LookupInUse ==
    ASSUME IInv, TreeInv, NEW d \in Inum, ~Vacant(d), NEW n \in Entry, n # ".."
    PROVE  InUse(ents[d][n])
<1>1. ents[d][n] \in Inum \cup {0}
  BY Parts DEF DiskType
<1>2. CASE n \in Name
  BY <1>1, <1>2, VacantFacts DEF InUse
<1>3. CASE n = "."
  <2>1. Made(d) => ents[d][n] = d
    BY <1>3 DEF TreeInv, EntInv
  <2>2. ~Made(d) => ents[d][n] = 0
    BY DEF TreeInv, EntInv
  <2>. QED
    BY <2>1, <2>2 DEF InUse
<1>. QED
  BY <1>2, <1>3 DEF Entry

\* ilock() of an inode in use does not panic.
LEMMA InUseType ==
    ASSUME NEW i \in Inum, InUse(i)
    PROVE  dinode[i].type # "none" /\ ~NoType(i) /\ i # 0
  BY DEF InUse, Vacant, NoType, Inum

-----------------------------------------------------------------------------
(***************************************************************************)
(* Steps that leave the directories alone.                                 *)
(***************************************************************************)
\* The directories and the vacant inodes stay.
SameTree ==
    /\ ents' = ents /\ \A j \in Inum : dinode'[j].type = dinode[j].type
    /\ \A p \in Proc, j \in Inum : /\ Fresh(p, j)' <=> Fresh(p, j)
                                   /\ Iputting(p, j, "free")' <=> Iputting(p, j, "free")

\* Then so do the parts of the invariant that are about them.
LEMMA QuietTree ==
    ASSUME TreeInv, SameTree
    PROVE  /\ \A i \in Inum : Vacant(i)' <=> Vacant(i)
           /\ FreshInv' /\ EntInv' /\ NameInv' /\ RootInv'
<1>1. FreshInv /\ EntInv /\ NameInv /\ RootInv
  BY DEF TreeInv
<1>2. \A i \in Inum : Vacant(i)' <=> Vacant(i)
  BY DEF Vacant, SameTree
<1>3. FreshInv'
  BY <1>1 DEF FreshInv, SameTree
<1>4. \A i \in Inum : Made(i)' <=> Made(i)
  BY DEF Made, SameTree
<1>5. EntInv'
  BY <1>1, <1>4 DEF EntInv, SameTree
<1>6. NameInv'
  BY <1>1 DEF NameInv, SameTree
<1>7. RootInv'
  BY <1>1, InodeAssumption DEF RootInv, SameTree, ROOTINO, Inum
<1>. QED
  BY <1>2, <1>3, <1>5, <1>6, <1>7

\* What processes and files point to after the step is in use.
UsesKept ==
    /\ \A q \in Proc, i \in Inum : Uses(q, i)' => Uses(q, i) \/ ~Vacant(i)
    /\ \A f \in 1 .. NFILE : FileIp(f)' = FileIp(f) \/ InUse(FileIp(f)')

\* Then nobody has a pointer to a vacant inode.
LEMMA QuietUse ==
    ASSUME TreeInv, \A i \in Inum : Vacant(i)' => Vacant(i), UsesKept,
           \A i \in Inum : Vacant(i)' => dinode'[i].nlink = dinode[i].nlink
    PROVE  UseInv'
<1>1. UseInv
  BY DEF TreeInv
<1>2. ASSUME NEW i \in Inum, Vacant(i)'
      PROVE  /\ dinode'[i].nlink = 0 /\ \A q \in Proc : ~Uses(q, i)'
             /\ \A f \in 1 .. NFILE : FileIp(f)' # i
  <2>1. Vacant(i) /\ dinode'[i].nlink = dinode[i].nlink
    BY <1>2
  <2>2. /\ dinode[i].nlink = 0 /\ \A q \in Proc : ~Uses(q, i)
        /\ \A f \in 1 .. NFILE : FileIp(f) # i
    BY <1>1, <2>1 DEF UseInv
  <2>3. i # 0
    BY DEF Inum
  <2>. QED
    BY <2>1, <2>2, <2>3 DEF UsesKept, InUse
<1>. QED
  BY <1>2 DEF UseInv

\* Two of the counted functions after a step that changes one value of each.
LEMMA CountSum ==
    ASSUME CountInv, DiskType, lost' = lost,
           NEW x \in Inum \X Name, NEW e \in Inum, NEW p \in Proc,
           \A y \in Inum \X Name : y # x => NameOf'[y] = NameOf[y],
           \A y \in Inum : y # e => Parents'[y] = Parents[y],
           \A y \in Proc : y # p => Pend(y)' = Pend(y),
           \A i \in Inum : dinode'[i].nlink = dinode[i].nlink
                + (Is(NameOf[x], i)' - Is(NameOf[x], i)) + (Is(Parents[e], i)' - Is(Parents[e], i))
                + (Is(Pend(p), i)' - Is(Pend(p), i))
    PROVE  CountInv'
<1>. SUFFICES ASSUME NEW i \in Inum
              PROVE  /\ dinode'[i].nlink >= Count(i)'
                     /\ i \notin lost => dinode'[i].nlink = Count(i)'
  BY DEF CountInv
<1>1. /\ DOMAIN NameOf = Inum \X Name /\ DOMAIN Parents = Inum /\ DOMAIN Pendings = Proc
      /\ DOMAIN NameOf' = Inum \X Name /\ DOMAIN Parents' = Inum /\ DOMAIN Pendings' = Proc
      /\ \A q \in Proc : Pendings[q] = Pend(q) /\ Pendings'[q] = Pend(q)'
  BY DEF NameOf, Parents, Pendings
<1>2. /\ NumOf(NameOf, i) \in Nat /\ NumOf(NameOf', i) \in Nat
      /\ NumOf(NameOf', i) = NumOf(NameOf, i) - Is(NameOf[x], i) + Is(NameOf'[x], i)
  <2>1. OneMove(Inum \X Name, NameOf, NameOf', x)
    BY <1>1, TreeFinite DEF OneMove
  <2>. QED
    BY ONLY <2>1, CountMove
<1>3. /\ NumOf(Parents, i) \in Nat /\ NumOf(Parents', i) \in Nat
      /\ NumOf(Parents', i) = NumOf(Parents, i) - Is(Parents[e], i) + Is(Parents'[e], i)
  <2>1. OneMove(Inum, Parents, Parents', e)
    BY <1>1, TreeFinite DEF OneMove
  <2>. QED
    BY ONLY <2>1, CountMove
<1>4. /\ NumOf(Pendings, i) \in Nat /\ NumOf(Pendings', i) \in Nat
      /\ NumOf(Pendings', i) = NumOf(Pendings, i) - Is(Pend(p), i) + Is(Pend(p)', i)
  <2>1. OneMove(Proc, Pendings, Pendings', p)
    BY <1>1, TreeFinite DEF OneMove
  <2>2. Pendings[p] = Pend(p) /\ Pendings'[p] = Pend(p)'
    BY <1>1
  <2>. QED
    BY ONLY <2>1, <2>2, CountMove
<1>5. /\ Is(NameOf[x], i) \in {0, 1} /\ Is(NameOf'[x], i) \in {0, 1}
      /\ Is(Parents[e], i) \in {0, 1} /\ Is(Parents'[e], i) \in {0, 1}
      /\ Is(Pend(p), i) \in {0, 1} /\ Is(Pend(p)', i) \in {0, 1}
  BY DEF Is
<1>6. /\ dinode[i].nlink >= Count(i) /\ (i \notin lost => dinode[i].nlink = Count(i))
      /\ dinode[i].nlink \in Int
  BY DEF CountInv, DiskType, Dinode
<1>7. /\ Count(i) = NumOf(NameOf, i) + NumOf(Parents, i) + NumOf(Pendings, i)
      /\ Count(i)' = NumOf(NameOf', i) + NumOf(Parents', i) + NumOf(Pendings', i)
  BY DEF Count, NumOf
<1>8. dinode'[i].nlink = dinode[i].nlink
                + (Is(NameOf'[x], i) - Is(NameOf[x], i)) + (Is(Parents'[e], i) - Is(Parents[e], i))
                + (Is(Pend(p)', i) - Is(Pend(p), i))
  BY DEF Is
<1>. QED
  BY <1>2, <1>3, <1>4, <1>5, <1>6, <1>7, <1>8

\* A step that leaves the directories alone and changes the links under way of
\* one process.
LEMMA QuietCount ==
    ASSUME CountInv, DiskType, lost' = lost, ents' = ents, NEW p \in Proc,
           \A y \in Proc : y # p => Pend(y)' = Pend(y),
           \A i \in Inum : dinode'[i].nlink = dinode[i].nlink + (Is(Pend(p), i)' - Is(Pend(p), i))
    PROVE  CountInv'
<1>1. NameOf' = NameOf /\ Parents' = Parents
  BY DEF NameOf, Parents, Named
<1>2. ROOTINO \in Inum
  BY InodeAssumption DEF ROOTINO, Inum
<1>3. PICK n : n \in Name
  BY FsAssumption
<1>4. PICK x : x \in Inum \X Name
  <2>1. <<ROOTINO, n>> \in Inum \X Name
    BY <1>2, <1>3
  <2>. QED
    BY <2>1
<1>5. \A i : Is(NameOf[x], i)' = Is(NameOf[x], i) /\ Is(Parents[ROOTINO], i)' = Is(Parents[ROOTINO], i)
  BY <1>1 DEF Is
<1>6. ASSUME NEW i \in Inum
      PROVE  dinode'[i].nlink = dinode[i].nlink
                + (Is(NameOf[x], i)' - Is(NameOf[x], i)) + (Is(Parents[ROOTINO], i)' - Is(Parents[ROOTINO], i))
                + (Is(Pend(p), i)' - Is(Pend(p), i))
  <2>1. /\ Is(NameOf[x], i) \in {0, 1} /\ Is(Parents[ROOTINO], i) \in {0, 1}
        /\ Is(Pend(p), i) \in {0, 1} /\ Is(Pend(p), i)' \in {0, 1} /\ dinode[i].nlink \in Int
    BY DEF Is, DiskType, Dinode
  <2>. QED
    BY <1>5, <2>1
<1>. QED
  BY <1>1, <1>2, <1>4, <1>6, CountSum

\* The other processes' rows.
LEMMA OtherRows ==
    ASSUME IInv, RowInv, NEW p \in Proc, Others(p), ~panicked,
           \A j \in Inum : dinode[j].type # "none" => dinode'[j].type = dinode[j].type,
           \A q \in Proc : q # p /\ pc[q] \in {"unlink", "create_new"} => ents'[dp[q]] = ents[dp[q]]
    PROVE  \A q \in Proc : q # p => Row(q)'
<1>. SUFFICES ASSUME NEW q \in Proc, q # p PROVE Row(q)'
  OBVIOUS
<1>1. Row(q)
  BY DEF RowInv
<1>2. /\ pc'[q] = pc[q] /\ dp'[q] = dp[q] /\ ip'[q] = ip[q]
      /\ call'[q] = call[q] /\ path'[q] = path[q]
  BY DEF Others
<1>3. EntRow(q)'
  BY <1>1, <1>2 DEF Row, EntRow, Name1
<1>4. LinkRow(q)'
  <2>1. call[q].op = "link" /\ ip[q] # 0 => dinode[ip[q]].type # "none" /\ ip[q] \in Inum
    BY Parts DEF PinInv, PinRow, ProcType
  <2>. QED
    BY <1>1, <1>2, <2>1 DEF Row, LinkRow
<1>. QED
  BY <1>1, <1>2, <1>3, <1>4 DEF Row, Climbs

\* A step of a call that leaves the directories alone.
LEMMA CallTree ==
    ASSUME IInv, TreeInv, NEW p \in Proc, NEW c, NEW d, NEW n, NEW a, NEW b, Step(p, c, d, n, a, b),
           pc[p] # "create_new", c # "create_new",
           lost' = lost, ents' = ents, \A j \in Inum : dinode'[j].type = dinode[j].type,
           \A q \in Proc : q # p => cwd'[q] = cwd[q],
           \A f \in 1 .. NFILE : FileIp(f)' = FileIp(f) \/ InUse(FileIp(f)'),
           InUse(cwd'[p]), InUse(d), InUse(n), InUse(a), InUse(b),
           Row(p)', panicked' = FALSE,
           \A i \in Inum : dinode'[i].nlink = dinode[i].nlink + (Is(Pend(p), i)' - Is(Pend(p), i))
    PROVE  TreeInv'
<1>1. /\ DiskType /\ ProcType
  BY Parts
<1>2. /\ Others(p) /\ ~panicked /\ pc'[p] = c /\ dp'[p] = d /\ ip'[p] = n
      /\ First(p)' = a /\ Second(p)' = b
      /\ \A q \in Proc : \A i, at : at # "test" => (Iputting(q, i, at)' <=> Iputting(q, i, at))
  BY <1>1, StepRow DEF Step
<1>3. SameTree
  <2>1. \A q \in Proc, j \in Inum : Fresh(q, j)' <=> Fresh(q, j)
    BY <1>2 DEF Fresh, Others
  <2>. QED
    BY <1>2, <2>1 DEF SameTree
<1>4. /\ \A i \in Inum : Vacant(i)' <=> Vacant(i)
      /\ FreshInv' /\ EntInv' /\ NameInv' /\ RootInv'
  BY <1>3, QuietTree
<1>5. UsesKept
  <2>1. ASSUME NEW q \in Proc, q # p, NEW i \in Inum, Uses(q, i)'
        PROVE  Uses(q, i)
    BY <1>2, <2>1 DEF Uses, Others, Second, Iputting
  <2>2. ASSUME NEW i \in Inum, Uses(p, i)'
        PROVE  ~Vacant(i)
    <3>1. i \in {cwd'[p], d, n, a, b} /\ i # 0
      BY <1>2, <2>2 DEF Uses, Iputting, First, Inum
    <3>. QED
      BY <3>1 DEF InUse
  <2>. QED
    BY <2>1, <2>2 DEF UsesKept
<1>6. UseInv'
  <2>1. ASSUME NEW i \in Inum, Vacant(i)
        PROVE  dinode'[i].nlink = dinode[i].nlink
    <3>1. Pend(p) # i
      BY <2>1, VacantFacts
    <3>2. Pend(p)' # i
      <4>1. Pend(p)' \in {n, 0}
        BY <1>2 DEF Pend
      <4>. QED
        BY <2>1, <4>1 DEF InUse, Inum
    <3>3. dinode[i].nlink \in Int
      BY <1>1 DEF DiskType, Dinode
    <3>. QED
      BY <3>1, <3>2, <3>3 DEF Is
  <2>. QED
    BY <1>4, <1>5, <2>1, QuietUse
<1>7. CountInv'
  <2>1. \A y \in Proc : y # p => Pend(y)' = Pend(y)
    BY <1>2 DEF Pend, Others
  <2>. QED
    BY <1>1, <2>1, QuietCount DEF TreeInv
<1>8. RowInv'
  <2>1. \A q \in Proc : q # p => Row(q)'
    BY <1>2, OtherRows DEF TreeInv
  <2>. QED
    BY <2>1 DEF RowInv
<1>. QED
  BY <1>4, <1>6, <1>7, <1>8 DEF TreeInv

\* The call returns, with iput()s of inodes in use.
LEMMA ReturnTree ==
    ASSUME IInv, TreeInv, NEW p \in Proc, NEW a, NEW b, Step(p, "run", 0, 0, a, b),
           InUse(a), InUse(b), call'[p] = NoCall, path'[p] = <<>>, pc[p] # "create_new",
           lost' = lost, ents' = ents, \A j \in Inum : dinode'[j].type = dinode[j].type,
           \A q \in Proc : q # p => cwd'[q] = cwd[q],
           \A f \in 1 .. NFILE : FileIp(f)' = FileIp(f) \/ InUse(FileIp(f)'),
           InUse(cwd'[p]), panicked' = FALSE,
           \A i \in Inum : dinode'[i].nlink = dinode[i].nlink - Is(Pend(p), i)
    PROVE  TreeInv'
<1>1. pc'[p] = "run" /\ ProcType /\ DiskType
  BY Parts, StepRow
<1>2. Row(p)' /\ Pend(p)' = 0
  BY <1>1 DEF Row, LinkRow, EntRow, Climbs, Pend, NoCall
<1>3. InUse(0) /\ \A i \in Inum : i # 0
  BY DEF InUse, Inum
<1>4. ASSUME NEW i \in Inum
      PROVE  dinode'[i].nlink = dinode[i].nlink + (Is(Pend(p), i)' - Is(Pend(p), i))
  <2>1. Is(Pend(p), i)' = 0 /\ Is(Pend(p), i) \in {0, 1} /\ dinode[i].nlink \in Int
    BY <1>1, <1>2, <1>3 DEF Is, DiskType, Dinode
  <2>2. dinode'[i].nlink = dinode[i].nlink - Is(Pend(p), i)
    OBVIOUS
  <2>. QED
    BY <2>1, <2>2
<1>5. "run" # "create_new"
  OBVIOUS
<1>. QED
  BY <1>2, <1>3, <1>4, <1>5, CallTree

\* The call goes on, in a step that leaves the disk and the files alone.
LEMMA GoTree ==
    ASSUME IInv, TreeInv, NEW p \in Proc, NEW c, NEW d, NEW n, NEW a, NEW b, Step(p, c, d, n, a, b),
           pc[p] # "create_new", c # "create_new", Row(p)', Pend(p)' = Pend(p),
           InUse(d), InUse(n), InUse(a), InUse(b),
           UNCHANGED <<lost, ents, dinode, cwd, file>>, panicked' = FALSE
    PROVE  TreeInv'
<1>1. DiskType
  BY Parts
<1>2. /\ \A q \in Proc : q # p => cwd'[q] = cwd[q]
      /\ \A f \in 1 .. NFILE : FileIp(f)' = FileIp(f) \/ InUse(FileIp(f)')
      /\ InUse(cwd'[p])
  BY PointersInUse DEF FileIp
<1>3. ASSUME NEW i \in Inum
      PROVE  /\ dinode'[i].type = dinode[i].type
             /\ dinode'[i].nlink = dinode[i].nlink + (Is(Pend(p), i)' - Is(Pend(p), i))
  <2>1. Is(Pend(p), i)' = Is(Pend(p), i) /\ Is(Pend(p), i) \in {0, 1} /\ dinode[i].nlink \in Int
    BY <1>1 DEF Is, DiskType, Dinode
  <2>. QED
    BY <2>1
<1>. QED
  BY <1>2, <1>3, CallTree

\* What a process has to say of links.
LEMMA PendFacts ==
    ASSUME IInv, TreeInv, NEW p \in Proc
    PROVE  /\ pc[p] \notin {"unlinked", "walk", "parent", "link_bad"} => Pend(p) = 0
           /\ pc[p] # "unlinked" /\ ip[p] = 0 => Pend(p) = 0
           /\ pc[p] \in {"create_found", "created", "unlink", "unlinked", "create_new"} => call[p].op # "link"
           /\ pc[p] \in {"unlinked", "link_bad"} => Pend(p) = ip[p]
<1>1. LinkRow(p) /\ PtrRow(p)
  BY Parts DEF TreeInv, RowInv, Row, PtrInv
<1>. QED
  BY <1>1 DEF LinkRow, Pend, PtrRow

\* Starting a call on a path.
LEMMA sys_pathTree ==
    ASSUME IInv, TreeInv, NoDotDot, NEW p \in Proc, NEW c \in Calls, sys_path(p, c)
    PROVE  TreeInv'
<1>1. ProcType /\ FileType /\ PtrInv
  BY Parts
<1>. DEFINE s == Start(p, c.path)
<1>2. /\ pc[p] = "run" /\ puts[p] = <<>> /\ ~panicked /\ cwd[p] # 0
      /\ ip[p] = 0 /\ dp[p] = 0
  BY <1>1 DEF sys_path, At, PtrInv, PtrRow
<1>3. s \in Inum /\ InUse(s)
  BY <1>1, <1>2, StartType, PointersInUse DEF Start
<1>4. /\ dp' = [dp EXCEPT ![p] = s] /\ call' = [call EXCEPT ![p] = c]
      /\ path' = [path EXCEPT ![p] = Elems(c.path)] /\ pc' = [pc EXCEPT ![p] = "walk"]
      /\ UNCHANGED <<dinode, ents, puts, panicked, ip, cwd, file, lost>>
  BY DEF sys_path, Goto, diskvars, filevars
<1>. HIDE DEF s
<1>5. Step(p, "walk", s, 0, 0, 0)
  <2>1. Elems(c.path) \in Seq(Entry)
    BY CallsAssumption
  <2>2. puts' = [puts EXCEPT ![p] = Entries(0, 0)] /\ ip' = [ip EXCEPT ![p] = 0]
    BY <1>1, <1>2, <1>4, Moves
  <2>. QED
    BY <1>1, <1>2, <1>3, <1>4, <2>1, <2>2 DEF Step, Move, PCs
<1>6. pc'[p] = "walk" /\ ip'[p] = 0 /\ path'[p] = Elems(c.path)
  BY <1>1, <1>2, <1>4 DEF ProcType
<1>7. Row(p)' /\ Pend(p)' = 0 /\ Pend(p) = 0
  BY <1>2, <1>6, PendFacts DEF Row, LinkRow, EntRow, NoDotDot, Pend
<1>8. panicked' = FALSE
  BY <1>2, <1>4, Parts DEF CacheType
<1>9. pc[p] # "create_new" /\ "walk" # "create_new" /\ InUse(0) /\ Pend(p)' = Pend(p)
  BY <1>2, <1>7 DEF InUse
<1>. QED
  BY <1>3, <1>4, <1>5, <1>7, <1>8, <1>9, GoTree

\* A lookup that fails.
LEMMA failTree ==
    ASSUME IInv, TreeInv, NEW p \in Proc, At(p, "walk"), namex_fail(p, dp[p]),
           UNCHANGED <<dinode, ents, cwd, ofile, file, lost>>, panicked' = FALSE
    PROVE  TreeInv'
<1>1. ProcType /\ DiskType /\ Row(p) /\ PtrRow(p)
  BY Parts DEF TreeInv, RowInv, PtrInv
<1>2. PICK c \in {"run", "link_bad"} : /\ Step(p, c, 0, ip[p], dp[p], 0)
                                       /\ c = "link_bad" => call' = call
                                       /\ c = "run" => call'[p].op = "none"
  BY FailMove
<1>3. pc'[p] = c /\ ip'[p] = ip[p]
  BY <1>1, <1>2, StepRow
<1>4. pc[p] = "walk" /\ pc[p] # "create_new" /\ c # "create_new"
  BY DEF At
<1>5. ~Climbs(path'[p])
  BY <1>1 DEF namex_fail, Return, ProcType, Row, Climbs
<1>6. Pend(p)' = Pend(p) /\ Row(p)'
  <2>1. CASE c = "link_bad"
    BY <1>1, <1>2, <1>3, <1>4, <1>5, <2>1 DEF Row, LinkRow, EntRow, Pend
  <2>2. CASE c = "run"
    <3>1. ip[p] = 0 \/ call'[p].op = "link"
      BY <1>1, <1>4 DEF namex_fail, PtrRow
    <3>2. ip[p] = 0
      BY <1>2, <2>2, <3>1
    <3>. QED
      BY <1>2, <1>3, <1>4, <1>5, <2>2, <3>2 DEF Row, LinkRow, EntRow, Pend
  <2>. QED
    BY <2>1, <2>2
<1>. QED
  BY <1>2, <1>4, <1>6, PointersInUse, GoTree

\* One round of namex().
LEMMA namexTree ==
    ASSUME IInv, TreeInv, NEW p \in Proc, namex(p)
    PROVE  TreeInv'
<1>. DEFINE i == dp[p]
<1>1. ProcType /\ DiskType /\ Row(p) /\ PtrRow(p)
  BY Parts DEF TreeInv, RowInv, PtrInv
<1>2. /\ At(p, "walk") /\ pc[p] = "walk" /\ puts[p] = <<>> /\ ~panicked
      /\ i \in Inum /\ ip[p] \in Inum \cup {0}
  BY <1>1 DEF namex, At, PtrRow, ProcType
<1>3. UNCHANGED <<dinode, ents, cwd, ofile, file, lost>>
  BY DEF namex, diskvars, filevars
<1>4. InUse(i) /\ InUse(ip[p]) /\ InUse(0)
  BY <1>2, PointersInUse
<1>5. panicked' = FALSE
  <2>1. panicked' = panicked \/ panicked' = NoType(i)
    BY DEF namex
  <2>2. panicked = FALSE
    BY <1>2, Parts DEF CacheType
  <2>3. NoType(i) = FALSE
    BY <1>2, <1>4, InUseType DEF NoType
  <2>. QED
    BY <2>1, <2>2, <2>3
<1>6. CASE namex_fail(p, i)
  BY <1>2, <1>3, <1>5, <1>6, failTree
<1>7. CASE Goto(p, "parent") /\ UNCHANGED <<puts, call, path, dp, ip>>
  <2>1. pc' = [pc EXCEPT ![p] = "parent"] /\ pc'[p] = "parent"
    BY <1>1, <1>7 DEF Goto, ProcType
  <2>2. Step(p, "parent", i, ip[p], 0, 0)
    BY <1>1, <1>2, <1>7, <2>1, Moves DEF Step, Move, PCs
  <2>3. Row(p)' /\ Pend(p)' = Pend(p)
    BY <1>1, <1>2, <1>3, <1>7, <2>1 DEF Row, LinkRow, EntRow, Pend, Climbs
  <2>. QED
    BY <1>2, <1>3, <1>4, <1>5, <2>2, <2>3, GoTree
<1>8. CASE /\ path[p] # <<>> /\ dirlookup(i, Head(path[p])) # 0
           /\ dp' = [dp EXCEPT ![p] = dirlookup(i, Head(path[p]))]
           /\ path' = [path EXCEPT ![p] = Tail(@)]
           /\ Put(p, <<i>>) /\ UNCHANGED <<pc, call, ip>>
  <2>1. PICK h : h = Head(path[p]) /\ h \in Entry /\ h # ".."
    BY <1>1, <1>8 DEF ProcType, Row, Climbs
  <2>2. PICK next : next = ents[i][h]
    OBVIOUS
  <2>3. InUse(next) /\ next \in Inum
    <3>1. ~Vacant(i) /\ next # 0
      BY <1>2, <1>4, <1>8, <2>1, <2>2 DEF InUse, dirlookup, Inum
    <3>2. InUse(ents[i][h])
      BY <1>2, <2>1, <3>1, LookupInUse
    <3>. QED
      BY <2>2, <3>1, <3>2 DEF InUse
  <2>4. dp' = [dp EXCEPT ![p] = next] /\ path' = [path EXCEPT ![p] = Tail(path[p])]
    BY <1>8, <2>1, <2>2 DEF dirlookup
  <2>5. Tail(path[p]) \in Seq(Entry) /\ ~Climbs(Tail(path[p]))
    <3>1. PICK s : s = path[p] /\ s \in Seq(Entry) /\ s # <<>> /\ ~Climbs(s)
      BY <1>1, <1>8 DEF ProcType, Row
    <3>2. Tail(s) \in Seq(Entry) /\ \A k \in DOMAIN Tail(s) : k + 1 \in DOMAIN s /\ Tail(s)[k] = s[k + 1]
      BY <3>1
    <3>3. ~Climbs(Tail(s))
      BY <3>1, <3>2 DEF Climbs
    <3>. QED
      BY <3>1, <3>2, <3>3
  <2>6. Step(p, "walk", next, ip[p], i, 0)
    <3>1. /\ puts' = [puts EXCEPT ![p] = Entries(i, 0)] /\ pc' = [pc EXCEPT ![p] = "walk"]
          /\ ip' = [ip EXCEPT ![p] = ip[p]]
          /\ \E cl \in Calls \cup {NoCall} : call' = [call EXCEPT ![p] = cl]
      BY <1>1, <1>2, <1>8, PutEntries, Moves
    <3>. QED
      BY <1>2, <2>3, <2>4, <2>5, <3>1 DEF Step, Move, PCs
  <2>7. path'[p] = Tail(path[p])
    BY <1>1, <2>4 DEF ProcType
  <2>8. Row(p)' /\ Pend(p)' = Pend(p)
    BY <1>1, <1>2, <1>3, <1>8, <2>5, <2>7 DEF Row, LinkRow, EntRow, Pend
  <2>. QED
    BY <1>2, <1>3, <1>4, <1>5, <2>3, <2>6, <2>8, GoTree
<1>. QED
  BY <1>6, <1>7, <1>8 DEF namex

\* ilock() of an inode in use, and a step that cannot panic.
LEMMA Alive ==
    ASSUME IInv, ~panicked
    PROVE  /\ panicked' = panicked => panicked' = FALSE
           /\ \A i \in Inum : InUse(i) /\ panicked' = NoType(i) => panicked' = FALSE
<1>1. panicked = FALSE
  BY Parts DEF CacheType
<1>2. ASSUME NEW i \in Inum, InUse(i), panicked' = NoType(i)
      PROVE  panicked' = FALSE
  BY <1>2, InUseType DEF NoType
<1>. QED
  BY <1>1, <1>2

\* The call returns and leaves the disk and the files alone.
LEMMA ReturnSame ==
    ASSUME IInv, TreeInv, NEW p \in Proc, NEW a, NEW b, Step(p, "run", 0, 0, a, b),
           InUse(a), InUse(b), NEW s, Return(p, s), pc[p] # "create_new", Pend(p) = 0,
           UNCHANGED <<lost, ents, dinode, cwd, file>>, panicked' = FALSE
    PROVE  TreeInv'
<1>1. ProcType
  BY Parts
<1>2. call'[p] = NoCall /\ path'[p] = <<>> /\ pc'[p] = "run"
  BY <1>1 DEF Return, ProcType
<1>3. Row(p)' /\ Pend(p)' = Pend(p)
  BY <1>2 DEF Row, LinkRow, EntRow, Climbs, Pend, NoCall
<1>4. "run" # "create_new" /\ InUse(0)
  BY DEF InUse
<1>. QED
  BY <1>3, <1>4, GoTree

\* create() of a name that is there.
LEMMA create_foundTree ==
    ASSUME IInv, TreeInv, NEW p \in Proc, create_found(p)
    PROVE  TreeInv'
<1>. DEFINE i == ip[p]
<1>1. ProcType /\ PtrRow(p) /\ Row(p)
  BY Parts DEF PtrInv, TreeInv, RowInv
<1>2. /\ pc[p] = "create_found" /\ puts[p] = <<>> /\ ~panicked /\ i \in Inum /\ dp[p] = 0
  BY <1>1 DEF create_found, At, PtrRow, ProcType
<1>3. UNCHANGED <<lost, ents, dinode, cwd, file>> /\ panicked' = NoType(i)
  BY DEF create_found, diskvars, filevars
<1>4. InUse(i) /\ InUse(0) /\ pc[p] # "create_new" /\ Pend(p) = 0
  BY <1>2, PointersInUse, PendFacts
<1>5. panicked' = FALSE
  BY <1>2, <1>3, <1>4, Alive
<1>6. CASE call[p].op = "open" /\ Cur(i).type \in {"file", "device"}
  <2>1. /\ pc' = [pc EXCEPT ![p] = "created"] /\ UNCHANGED <<puts, call, path, dp, ip>>
    BY <1>6 DEF create_found, Goto
  <2>2. Step(p, "created", 0, i, 0, 0)
    BY <1>1, <1>2, <2>1, Moves DEF Step, Move, PCs
  <2>3. pc'[p] = "created"
    BY <1>1, <2>1 DEF ProcType
  <2>4. Row(p)' /\ Pend(p)' = Pend(p) /\ "created" # "create_new"
    BY <1>1, <1>2, <1>4, <1>6, <2>1, <2>3 DEF Row, LinkRow, EntRow, Climbs, Pend
  <2>. QED
    BY <1>3, <1>4, <1>5, <2>2, <2>4, GoTree
<1>7. CASE ~(call[p].op = "open" /\ Cur(i).type \in {"file", "device"})
  <2>1. PICK s : s = <<i>> /\ Return(p, s)
    BY <1>7 DEF create_found
  <2>2. Step(p, "run", 0, 0, i, 0)
    BY <1>1, <1>2, <2>1, Moves DEF Step, PCs
  <2>. QED
    BY <1>3, <1>4, <1>5, <2>1, <2>2, ReturnSame
<1>. QED
  BY <1>6, <1>7

\* mkdir() and mknod() unlock and put what create() returned.
LEMMA sys_mkdirTree ==
    ASSUME IInv, TreeInv, NEW p \in Proc, sys_mkdir(p)
    PROVE  TreeInv'
<1>1. /\ At(p, "created") /\ lock' = iunlock(ip[p]) /\ Return(p, <<ip[p]>>)
      /\ UNCHANGED <<lost, ents, dinode, cwd, file>> /\ UNCHANGED <<ref, ofile, panicked>>
  BY DEF sys_mkdir, diskvars, filevars
<1>2. pc[p] = "created" /\ ~panicked /\ pc[p] # "create_new"
  BY <1>1 DEF At
<1>3. Step(p, "run", 0, 0, ip[p], 0)
  BY <1>1, ReturnUnlocked
<1>4. InUse(ip[p]) /\ InUse(0) /\ Pend(p) = 0 /\ panicked' = FALSE
  BY <1>1, <1>2, PointersInUse, PendFacts, Alive
<1>5. PICK s : Return(p, s)
  BY <1>1
<1>. QED
  BY <1>1, <1>2, <1>3, <1>4, <1>5, ReturnSame

\* open() of a path that was there.
LEMMA sys_openTree ==
    ASSUME IInv, TreeInv, NEW p \in Proc, sys_open(p)
    PROVE  TreeInv'
<1>. DEFINE i == dp[p]
<1>1. ProcType /\ Row(p)
  BY Parts DEF TreeInv, RowInv
<1>2. /\ pc[p] = "walk" /\ puts[p] = <<>> /\ ~panicked /\ call[p].op = "open"
      /\ i \in Inum /\ ip[p] = 0
  BY NameiFacts DEF sys_open
<1>3. UNCHANGED <<lost, ents, dinode, cwd, file>> /\ panicked' = NoType(i)
  BY DEF sys_open, diskvars, filevars
<1>4. InUse(i) /\ InUse(0) /\ pc[p] # "create_new" /\ Pend(p) = 0
  BY <1>2, PointersInUse, PendFacts
<1>5. panicked' = FALSE
  BY <1>2, <1>3, <1>4, Alive
<1>6. CASE Cur(i).type = "dir" /\ call[p].mode # "rdonly"
  <2>1. PICK s : s = <<i>> /\ Return(p, s)
    BY <1>6 DEF sys_open
  <2>2. Step(p, "run", 0, 0, i, 0)
    BY <1>1, <1>2, <2>1, Moves DEF Step, PCs
  <2>. QED
    BY <1>3, <1>4, <1>5, <2>1, <2>2, ReturnSame
<1>7. CASE ~(Cur(i).type = "dir" /\ call[p].mode # "rdonly")
  <2>1. /\ ip' = [ip EXCEPT ![p] = i] /\ dp' = [dp EXCEPT ![p] = 0]
        /\ pc' = [pc EXCEPT ![p] = "created"] /\ UNCHANGED <<puts, call, path>>
    BY <1>7 DEF sys_open, Goto
  <2>2. Step(p, "created", 0, i, 0, 0)
    BY <1>1, <1>2, <2>1, Moves DEF Step, Move, PCs
  <2>3. pc'[p] = "created"
    BY <1>1, <2>1 DEF ProcType
  <2>4. Row(p)' /\ Pend(p)' = Pend(p) /\ "created" # "create_new"
    BY <1>1, <1>2, <1>4, <2>1, <2>3 DEF Row, LinkRow, EntRow, Climbs, Pend
  <2>. QED
    BY <1>3, <1>4, <1>5, <2>2, <2>4, GoTree
<1>. QED
  BY <1>6, <1>7

\* chdir().
LEMMA sys_chdirTree ==
    ASSUME IInv, TreeInv, NEW p \in Proc, sys_chdir(p)
    PROVE  TreeInv'
<1>. DEFINE i == dp[p]
<1>1. ProcType /\ FileType /\ DiskType
  BY Parts
<1>2. /\ pc[p] = "walk" /\ puts[p] = <<>> /\ ~panicked /\ i \in Inum /\ ip[p] = 0 /\ cwd[p] # 0
  BY NameiFacts DEF sys_chdir
<1>3. UNCHANGED <<lost, ents, dinode, file>> /\ panicked' = NoType(i)
  BY DEF sys_chdir, diskvars
<1>4. InUse(i) /\ InUse(0) /\ InUse(cwd[p]) /\ pc[p] # "create_new" /\ Pend(p) = 0
  BY <1>2, PointersInUse, PendFacts
<1>5. panicked' = FALSE
  BY <1>2, <1>3, <1>4, Alive
<1>6. CASE Cur(i).type # "dir"
  <2>1. UNCHANGED cwd /\ \E s : s = <<i>> /\ Return(p, s)
    BY <1>6 DEF sys_chdir
  <2>2. PICK s : s = <<i>> /\ Return(p, s)
    BY <2>1
  <2>3. Step(p, "run", 0, 0, i, 0)
    BY <1>1, <1>2, <2>2, Moves DEF Step, PCs
  <2>. QED
    BY <1>3, <1>4, <1>5, <2>1, <2>2, <2>3, ReturnSame
<1>7. CASE Cur(i).type = "dir"
  <2>. DEFINE o == cwd[p]
  <2>1. cwd' = [cwd EXCEPT ![p] = i] /\ Return(p, <<o>>)
    BY <1>7 DEF sys_chdir
  <2>2. o \in Inum
    BY <1>1, <1>2 DEF FileType
  <2>3. Step(p, "run", 0, 0, o, 0)
    BY <1>1, <1>2, <2>1, <2>2, Moves DEF Step, PCs
  <2>4. call'[p] = NoCall /\ path'[p] = <<>>
    BY <1>1, <2>1 DEF Return, ProcType
  <2>5. cwd'[p] = i /\ \A q \in Proc : q # p => cwd'[q] = cwd[q]
    BY <1>1, <1>2, <2>1 DEF FileType
  <2>6. ASSUME NEW j \in Inum
        PROVE  dinode'[j].type = dinode[j].type /\ dinode'[j].nlink = dinode[j].nlink - Is(Pend(p), j)
    <3>1. j # 0 /\ dinode[j].nlink \in Int
      BY <1>1 DEF Inum, DiskType, Dinode
    <3>. QED
      BY <1>3, <1>4, <3>1 DEF Is
  <2>7. InUse(cwd'[p]) /\ \A f \in 1 .. NFILE : FileIp(f)' = FileIp(f)
    BY <1>3, <1>4, <2>5 DEF FileIp
  <2>8. InUse(o)
    BY <1>4
  <2>9. lost' = lost /\ ents' = ents
    BY <1>3
  <2>. HIDE DEF o
  <2>. QED
    BY <1>4, <1>5, <2>3, <2>4, <2>5, <2>6, <2>7, <2>8, <2>9, ReturnTree
<1>. QED
  BY <1>6, <1>7

\* The entry that a call is about: it does not go up, and what it leads to is in
\* use.
LEMMA LastName ==
    ASSUME IInv, TreeInv, NEW p \in Proc, pc[p] \in DirPCs
    PROVE  /\ Name1(p) \in Entry /\ Name1(p) # ".."
           /\ dp[p] \in Inum /\ ~Vacant(dp[p])
           /\ InUse(dp[p]) /\ InUse(ents[dp[p]][Name1(p)])
<1>1. ProcType /\ PtrRow(p) /\ Row(p)
  BY Parts DEF PtrInv, TreeInv, RowInv
<1>2. path[p] \in Seq(Entry) /\ path[p] # <<>> /\ ~Climbs(path[p])
  BY <1>1 DEF ProcType, PtrRow, Row, DirPCs
<1>3. Name1(p) \in Entry /\ Name1(p) # ".."
  BY <1>2 DEF Name1, Climbs
<1>4. dp[p] \in Inum /\ InUse(dp[p])
  BY <1>1, PointersInUse DEF PtrRow, DirPCs, ProcType
<1>5. ~Vacant(dp[p])
  BY <1>4 DEF InUse, Inum
<1>. QED
  BY <1>3, <1>4, <1>5, LookupInUse

\* unlink() finds the entry.
LEMMA sys_unlinkTree ==
    ASSUME IInv, TreeInv, NEW p \in Proc, sys_unlink(p)
    PROVE  TreeInv'
<1>. DEFINE d == dp[p]
            j == ents[d][Name1(p)]
<1>1. ProcType /\ Row(p)
  BY Parts DEF TreeInv, RowInv
<1>2. /\ pc[p] = "parent" /\ puts[p] = <<>> /\ ~panicked /\ d \in Inum
      /\ ip[p] = 0 /\ call[p].op = "unlink" /\ j \in Inum \cup {0}
  BY ParentFacts DEF sys_unlink
<1>3. UNCHANGED <<lost, ents, dinode, cwd, file, panicked>>
  BY DEF sys_unlink, filevars, diskvars
<1>4. InUse(d) /\ InUse(j) /\ InUse(0) /\ Name1(p) \in Entry
  BY <1>2, LastName, PointersInUse DEF DirPCs
<1>5. pc[p] # "create_new" /\ Pend(p) = 0 /\ panicked' = FALSE
  BY <1>2, <1>3, PendFacts, Alive
<1>6. CASE j = 0 \/ Name1(p) \in {".", ".."}
  <2>1. PICK s : s = <<d>> /\ Return(p, s)
    BY <1>6 DEF sys_unlink, dirlookup
  <2>2. Step(p, "run", 0, 0, d, 0)
    BY <1>1, <1>2, <2>1, Moves DEF Step, PCs
  <2>. HIDE DEF j, d
  <2>. QED
    BY <1>3, <1>4, <1>5, <2>1, <2>2, ReturnSame
<1>7. CASE ~(j = 0 \/ Name1(p) \in {".", ".."})
  <2>1. /\ ip' = [ip EXCEPT ![p] = j]
        /\ pc' = [pc EXCEPT ![p] = "unlink"] /\ UNCHANGED <<puts, call, path, dp>>
    BY <1>7 DEF sys_unlink, dirlookup, Goto
  <2>2. j \in Inum /\ Name1(p) \in Name
    BY <1>2, <1>4, <1>7 DEF Entry
  <2>3. ents[d][Name1(p)] = j
    OBVIOUS
  <2>. HIDE DEF j
  <2>4. Step(p, "unlink", d, j, 0, 0)
    BY <1>1, <1>2, <2>1, <2>2, Moves DEF Step, Move, PCs
  <2>5. pc'[p] = "unlink" /\ dp'[p] = d /\ ip'[p] = j
    BY <1>1, <2>1 DEF ProcType
  <2>6. Row(p)' /\ Pend(p)' = Pend(p) /\ "unlink" # "create_new"
    BY <1>1, <1>2, <1>3, <1>5, <2>1, <2>2, <2>3, <2>5 DEF Row, LinkRow, EntRow, Climbs, Pend, Name1
  <2>. HIDE DEF d
  <2>. QED
    BY <1>3, <1>4, <1>5, <2>4, <2>6, GoTree
<1>. QED
  BY <1>6, <1>7

\* An inode whose link count changes by k.
LEMMA NewCount ==
    ASSUME IInv, NEW i \in Inum, NEW k \in Int, NEW m, m = dinode[i].nlink + k,
           NEW r, r = WithLinks(dinode[i], m), Write(i, r)
    PROVE  \A j \in Inum : /\ dinode'[j].type = dinode[j].type
                           /\ dinode'[j].nlink = dinode[j].nlink + (IF j = i THEN k ELSE 0)
                           /\ dinode[j].nlink \in Int
<1>1. dinode \in [Inum -> Dinode] /\ dinode[i] \in Dinode
  BY Parts DEF DiskType
<1>2. r.type = dinode[i].type /\ r.nlink = m
  BY <1>1 DEF WithLinks, Dinode
<1>3. \A j \in Inum : dinode'[j] = IF j = i THEN r ELSE dinode[j]
  BY <1>1 DEF Write
<1>4. \A j \in Inum : dinode[j].nlink \in Int
  BY <1>1 DEF Dinode
<1>. QED
  BY <1>2, <1>3, <1>4

\* The end of unlink(): the link that was pending is discounted.
LEMMA unlink_inodeTree ==
    ASSUME IInv, TreeInv, NEW p \in Proc, unlink_inode(p)
    PROVE  TreeInv'
<1>. DEFINE i == ip[p]
            m == inode[i].nlink - 1
            r == [inode[i] EXCEPT !.nlink = m]
<1>1. ProcType /\ DiskType
  BY Parts
<1>2. /\ At(p, "unlinked") /\ lock' = iunlock(i) /\ Return(p, <<i>>) /\ Write(i, r)
      /\ UNCHANGED <<lost, ents, cwd, file>> /\ UNCHANGED <<ref, ofile, panicked>>
  BY DEF unlink_inode, filevars
<1>3. pc[p] = "unlinked" /\ ~panicked /\ i \in Inum /\ Copy(i)
  BY <1>2, CreatedFacts DEF At
<1>4. Step(p, "run", 0, 0, i, 0)
  BY <1>2, ReturnUnlocked
<1>5. m = dinode[i].nlink + (-1) /\ r = WithLinks(dinode[i], m)
  BY <1>1, <1>3 DEF Copy, WithLinks, DiskType, Dinode
<1>6. InUse(i) /\ InUse(0) /\ InUse(cwd'[p]) /\ pc[p] # "create_new" /\ Pend(p) = i /\ panicked' = FALSE
  BY <1>2, <1>3, PointersInUse, PendFacts, Alive
<1>7. call'[p] = NoCall /\ path'[p] = <<>>
  BY <1>1, <1>2 DEF Return, ProcType
<1>. HIDE DEF i, m, r
<1>8. \A j \in Inum : /\ dinode'[j].type = dinode[j].type
                      /\ dinode'[j].nlink = dinode[j].nlink + (IF j = i THEN -1 ELSE 0)
                      /\ dinode[j].nlink \in Int
  BY <1>2, <1>3, <1>5, -1 \in Int, NewCount
<1>9. \A j \in Inum : dinode'[j].nlink = dinode[j].nlink - Is(Pend(p), j)
  BY <1>6, <1>8 DEF Is
<1>10. /\ \A f \in 1 .. NFILE : FileIp(f)' = FileIp(f)
       /\ \A q \in Proc : q # p => cwd'[q] = cwd[q]
       /\ lost' = lost /\ ents' = ents
  BY <1>2 DEF FileIp
<1>. QED
  BY <1>4, <1>6, <1>7, <1>8, <1>9, <1>10, ReturnTree

\* The way out of link().
LEMMA link_badTree ==
    ASSUME IInv, TreeInv, NEW p \in Proc, link_bad(p)
    PROVE  TreeInv'
<1>. DEFINE i == ip[p]
            m == Cur(i).nlink - 1
            r == [Cur(i) EXCEPT !.nlink = m]
<1>1. ProcType /\ DiskType /\ PtrRow(p)
  BY Parts DEF PtrInv
<1>2. /\ pc[p] = "link_bad" /\ puts[p] = <<>> /\ ~panicked /\ i \in Inum /\ lock[i] = None
  BY <1>1 DEF link_bad, At, Free, PtrRow, ProcType
<1>3. Cur(i) = dinode[i]
  BY <1>2, CacheFacts
<1>4. /\ Return(p, <<i>>) /\ Write(i, r) /\ UNCHANGED <<lost, ents, cwd, file, panicked>>
  BY DEF link_bad, filevars
<1>5. Step(p, "run", 0, 0, i, 0)
  BY <1>1, <1>2, <1>4, Moves DEF Step, PCs
<1>6. m = dinode[i].nlink + (-1) /\ r = WithLinks(dinode[i], m)
  BY <1>1, <1>2, <1>3 DEF WithLinks, DiskType, Dinode
<1>7. InUse(i) /\ InUse(0) /\ InUse(cwd'[p]) /\ pc[p] # "create_new" /\ Pend(p) = i /\ panicked' = FALSE
  BY <1>2, <1>4, PointersInUse, PendFacts, Alive
<1>8. call'[p] = NoCall /\ path'[p] = <<>>
  BY <1>1, <1>4 DEF Return, ProcType
<1>. HIDE DEF i, m, r
<1>9. \A j \in Inum : /\ dinode'[j].type = dinode[j].type
                      /\ dinode'[j].nlink = dinode[j].nlink + (IF j = i THEN -1 ELSE 0)
                      /\ dinode[j].nlink \in Int
  BY <1>2, <1>4, <1>6, -1 \in Int, NewCount
<1>10. \A j \in Inum : dinode'[j].nlink = dinode[j].nlink - Is(Pend(p), j)
  BY <1>7, <1>9 DEF Is
<1>11. /\ \A f \in 1 .. NFILE : FileIp(f)' = FileIp(f)
       /\ \A q \in Proc : q # p => cwd'[q] = cwd[q]
       /\ lost' = lost /\ ents' = ents
  BY <1>4 DEF FileIp
<1>. QED
  BY <1>5, <1>7, <1>8, <1>9, <1>10, <1>11, ReturnTree

\* link() counts the link and starts on the other path.
LEMMA sys_linkTree ==
    ASSUME IInv, TreeInv, NoDotDot, NEW p \in Proc, sys_link(p)
    PROVE  TreeInv'
<1>. DEFINE i == dp[p]
            s == Start(p, call[p].to)
            m == Cur(i).nlink + 1
            r == [Cur(i) EXCEPT !.nlink = m]
<1>1. ProcType /\ FileType /\ DiskType
  BY Parts
<1>2. /\ pc[p] = "walk" /\ puts[p] = <<>> /\ ~panicked /\ call[p].op = "link" /\ call[p] \in Calls
      /\ i \in Inum /\ ip[p] = 0 /\ cwd[p] # 0 /\ Cur(i) = dinode[i] /\ dinode[i] \in Dinode
  BY NameiFacts DEF sys_link
<1>3. UNCHANGED <<lost, ents, cwd, file>> /\ panicked' = NoType(i)
  BY DEF sys_link, filevars
<1>4. InUse(i) /\ InUse(0) /\ InUse(cwd'[p]) /\ InUse(s) /\ pc[p] # "create_new" /\ Pend(p) = 0
  BY <1>2, <1>3, PointersInUse, PendFacts DEF Start
<1>5. panicked' = FALSE
  BY <1>2, <1>3, <1>4, Alive
<1>6. CASE Cur(i).type = "dir"
  <2>1. dinode' = dinode /\ \E t : t = <<i>> /\ Return(p, t)
    BY <1>6 DEF sys_link
  <2>2. PICK t : t = <<i>> /\ Return(p, t)
    BY <2>1
  <2>3. Step(p, "run", 0, 0, i, 0)
    BY <1>1, <1>2, <2>2, Moves DEF Step, PCs
  <2>. HIDE DEF s
  <2>. QED
    BY <1>3, <1>4, <1>5, <2>1, <2>2, <2>3, ReturnSame
<1>7. CASE Cur(i).type # "dir"
  <2>1. /\ Write(i, r)
        /\ ip' = [ip EXCEPT ![p] = i] /\ dp' = [dp EXCEPT ![p] = s]
        /\ path' = [path EXCEPT ![p] = Elems(call[p].to)]
        /\ UNCHANGED <<pc, call, puts>>
    BY <1>7 DEF sys_link
  <2>2. s \in Inum
    BY <1>1, <1>2, StartType
  <2>3. Elems(call[p].to) \in Seq(Entry) /\ ~Climbs(Elems(call[p].to))
    BY <1>2, CallsAssumption DEF NoDotDot
  <2>4. m = dinode[i].nlink + 1 /\ r = WithLinks(dinode[i], m)
    BY <1>2 DEF WithLinks
  <2>. HIDE DEF s, m, r
  <2>5. Step(p, "walk", s, i, 0, 0)
    <3>1. /\ puts' = [puts EXCEPT ![p] = Entries(0, 0)] /\ pc' = [pc EXCEPT ![p] = "walk"]
          /\ \E cl \in Calls \cup {NoCall} : call' = [call EXCEPT ![p] = cl]
      BY <1>1, <1>2, <2>1, Moves
    <3>2. \E e \in Seq(Entry) : path' = [path EXCEPT ![p] = e]
      BY <2>1, <2>3
    <3>. QED
      BY <1>2, <2>1, <2>2, <3>1, <3>2 DEF Step, Move, PCs
  <2>6. pc'[p] = "walk" /\ ip'[p] = i /\ call'[p] = call[p] /\ path'[p] = Elems(call[p].to)
    BY <1>1, <1>2, <2>1 DEF ProcType
  <2>7. \A j \in Inum : /\ dinode'[j].type = dinode[j].type
                        /\ dinode'[j].nlink = dinode[j].nlink + (IF j = i THEN 1 ELSE 0)
                        /\ dinode[j].nlink \in Int
    <3>. HIDE DEF i
    <3>. QED
      BY <1>2, <2>1, <2>4, 1 \in Int, NewCount
  <2>8. dinode'[i].type # "dir"
    BY <1>2, <1>7, <2>7
  <2>9. Row(p)'
    BY <1>2, <2>3, <2>6, <2>8 DEF Row, LinkRow, EntRow
  <2>10. Pend(p)' = i
    BY <1>2, <2>6 DEF Pend
  <2>11. ASSUME NEW j \in Inum
         PROVE  dinode'[j].nlink = dinode[j].nlink + (Is(Pend(p), j)' - Is(Pend(p), j))
    <3>1. j # 0
      BY DEF Inum
    <3>2. Is(Pend(p), j) = 0 /\ Is(Pend(p), j)' = IF j = i THEN 1 ELSE 0
      BY <1>4, <2>10, <3>1 DEF Is
    <3>. HIDE DEF i
    <3>. QED
      BY <2>7, <3>2
  <2>12. /\ \A f \in 1 .. NFILE : FileIp(f)' = FileIp(f)
         /\ \A q \in Proc : q # p => cwd'[q] = cwd[q]
         /\ lost' = lost /\ ents' = ents /\ "walk" # "create_new"
    BY <1>3 DEF FileIp
  <2>. HIDE DEF i
  <2>. QED
    BY <1>4, <1>5, <2>5, <2>7, <2>9, <2>11, <2>12, CallTree
<1>. QED
  BY <1>6, <1>7

\* itrunc() and the freeing of an inode leave the link count.
LEMMA TruncLinks ==
    ASSUME NEW r \in Dinode
    PROVE  Truncated(r).nlink = r.nlink /\ Freed(r).nlink = r.nlink
<1>. DEFINE a == [r EXCEPT !.size = 0]
            b == [a EXCEPT !.direct = 0]
            c == [b EXCEPT !.indirect = 0]
<1>1. a \in Dinode /\ a.nlink = r.nlink
  BY DEF Dinode
<1>. HIDE DEF a
<1>2. b \in Dinode /\ b.nlink = r.nlink
  BY <1>1, InodeAssumption DEF Dinode
<1>. HIDE DEF b
<1>3. c \in Dinode /\ c.nlink = r.nlink
  BY <1>2, InodeAssumption DEF Dinode
<1>4. Truncated(r) = c
  BY DEF Truncated, a, b, c
<1>. HIDE DEF c
<1>5. [c EXCEPT !.type = "none"].nlink = c.nlink
  BY <1>3 DEF Dinode
<1>. QED
  BY <1>3, <1>4, <1>5 DEF Freed

\* The end of open(): a file for an inode in use, or none.
LEMMA open_fileTree ==
    ASSUME IInv, TreeInv, NEW p \in Proc, open_file(p)
    PROVE  TreeInv'
<1>1. DiskType /\ ProcType /\ FileType /\ BlkInv /\ FreeInv
  BY Parts
<1>2. /\ At(p, "created") /\ lock' = iunlock(ip[p])
      /\ UNCHANGED <<ents, ind, ref, cwd, lost>>
  BY DEF open_file
<1>3. pc[p] = "created" /\ ~panicked /\ puts[p] = <<>> /\ ip[p] \in Inum /\ Copy(ip[p])
  BY <1>2, CreatedFacts DEF At
<1>4. PICK i \in Inum : i = ip[p]
  BY <1>3
<1>5. InUse(i) /\ InUse(0) /\ InUse(cwd'[p]) /\ pc[p] # "create_new" /\ Pend(p) = 0
  BY <1>2, <1>3, <1>4, PointersInUse, PendFacts
<1>6. CASE /\ Return(p, <<ip[p]>>)
           /\ UNCHANGED <<file, ofile, inode, dinode, used, panicked>>
  <2>1. Step(p, "run", 0, 0, i, 0)
    BY <1>2, <1>4, <1>6, ReturnUnlocked
  <2>2. PICK s : Return(p, s)
    BY <1>6
  <2>3. panicked' = FALSE
    BY <1>3, <1>6, Alive
  <2>. QED
    BY <1>2, <1>5, <1>6, <2>1, <2>2, <2>3, ReturnSame
<1>7. ASSUME NEW f \in filealloc, NEW fd \in fdalloc(p),
             /\ file' = [file EXCEPT ![f] = [ref |-> 1, ip |-> ip[p], off |-> 0,
                           writable |-> call[p].mode # "rdonly"]]
             /\ ofile' = [ofile EXCEPT ![p][fd] = f]
             /\ Return(p, <<>>)
             /\ IF call[p].mode = "trunc" /\ inode[ip[p]].type = "file"
                THEN /\ Write(ip[p], Truncated(inode[ip[p]]))
                     /\ used' = bfree(itrunc(inode[ip[p]]))
                     /\ panicked' = bfree_panics(itrunc(inode[ip[p]]))
                ELSE UNCHANGED <<inode, dinode, used, panicked>>
      PROVE  TreeInv'
  <2>1. Step(p, "run", 0, 0, 0, 0)
    BY <1>1, <1>3, <1>7, Moves DEF Step, PCs
  <2>2. call'[p] = NoCall /\ path'[p] = <<>>
    BY <1>1, <1>7 DEF Return, ProcType
  <2>3. \A g \in 1 .. NFILE : FileIp(g)' = FileIp(g) \/ InUse(FileIp(g)')
    <3>1. f \in 1 .. NFILE
      BY DEF filealloc
    <3>2. PICK r : /\ r = [ref |-> 1, ip |-> ip[p], off |-> 0, writable |-> call[p].mode # "rdonly"]
                   /\ file' = [file EXCEPT ![f] = r]
      BY <1>7
    <3>3. r.ip = i
      BY <1>4, <3>2
    <3>4. /\ file'[f] = r
          /\ \A g \in 1 .. NFILE : g # f => file'[g] = file[g]
      BY <1>1, <3>1, <3>2 DEF FileType
    <3>5. FileIp(f)' = i \/ FileIp(f)' = 0
      BY <3>3, <3>4 DEF FileIp
    <3>. QED
      BY <1>5, <3>4, <3>5 DEF FileIp
  <2>4. /\ panicked' = FALSE
        /\ \A j \in Inum : dinode'[j].type = dinode[j].type /\ dinode'[j].nlink = dinode[j].nlink
    <3>1. CASE call[p].mode = "trunc" /\ inode[ip[p]].type = "file"
      <4>. DEFINE t == Truncated(dinode[i])
      <4>1. dinode[i] \in Dinode /\ inode[i] = dinode[i]
        BY <1>1, <1>3, <1>4 DEF DiskType, Copy
      <4>2. /\ dinode' = [dinode EXCEPT ![i] = t] /\ ind' = ind
            /\ used' = bfree(itrunc(dinode[i])) /\ panicked' = bfree_panics(itrunc(dinode[i]))
        BY <1>2, <1>4, <1>7, <3>1, <4>1 DEF Write
      <4>3. /\ t \in Dinode /\ t.type = dinode[i].type /\ t.size = 0 /\ t.direct = 0 /\ t.indirect = 0
            /\ t.nlink = dinode[i].nlink
        BY <4>1, TruncRecord, TruncLinks
      <4>. HIDE DEF t
      <4>4. ~bfree_panics(itrunc(dinode[i]))
        BY <1>1, <4>2, <4>3, Itrunc
      <4>5. panicked' = FALSE
        BY <4>2, <4>4 DEF bfree_panics
      <4>. QED
        BY <1>1, <4>2, <4>3, <4>5 DEF DiskType
    <3>2. CASE ~(call[p].mode = "trunc" /\ inode[ip[p]].type = "file")
      <4>1. UNCHANGED <<dinode, panicked>>
        BY <1>7, <3>2
      <4>. QED
        BY <1>3, <4>1, Alive
    <3>. QED
      BY <3>1, <3>2
  <2>5. ASSUME NEW j \in Inum
        PROVE  dinode'[j].type = dinode[j].type /\ dinode'[j].nlink = dinode[j].nlink - Is(Pend(p), j)
    <3>1. j # 0 /\ dinode[j].nlink \in Int
      BY <1>1 DEF Inum, DiskType, Dinode
    <3>. QED
      BY <1>5, <2>4, <3>1 DEF Is
  <2>6. lost' = lost /\ ents' = ents /\ \A q \in Proc : q # p => cwd'[q] = cwd[q]
    BY <1>2
  <2>. QED
    BY <1>5, <2>1, <2>2, <2>3, <2>4, <2>5, <2>6, ReturnTree
<1>. QED
  BY <1>6, <1>7 DEF open_file

\* create() finds the name.
LEMMA create_nameTree ==
    ASSUME IInv, TreeInv, NEW p \in Proc, create(p), ents[dp[p]][Name1(p)] # 0
    PROVE  TreeInv'
<1>. DEFINE d == dp[p]
            j == ents[d][Name1(p)]
<1>1. ProcType /\ Row(p)
  BY Parts DEF TreeInv, RowInv
<1>2. /\ pc[p] = "parent" /\ puts[p] = <<>> /\ ~panicked /\ d \in Inum
      /\ call[p].op # "link" /\ j \in Inum
  BY ParentFacts DEF create
<1>3. InUse(d) /\ InUse(j) /\ InUse(0)
  BY <1>2, LastName, PointersInUse DEF DirPCs
<1>4. /\ ip' = [ip EXCEPT ![p] = j] /\ dp' = [dp EXCEPT ![p] = 0]
      /\ Put(p, <<d>>) /\ pc' = [pc EXCEPT ![p] = "create_found"]
      /\ UNCHANGED <<lost, ents, dinode, cwd, file, panicked, call, path>>
  BY DEF create, dirlookup, Goto, filevars
<1>5. pc[p] # "create_new" /\ Pend(p) = 0 /\ panicked' = FALSE
  BY <1>2, <1>4, PendFacts, Alive DEF Pend
<1>. HIDE DEF j
<1>6. Step(p, "create_found", 0, j, d, 0)
  BY <1>1, <1>2, <1>4, PutEntries, Moves DEF Step, Move, PCs
<1>7. pc'[p] = "create_found" /\ ip'[p] = j
  BY <1>1, <1>4 DEF ProcType
<1>8. Row(p)' /\ Pend(p)' = Pend(p) /\ "create_found" # "create_new"
  BY <1>1, <1>2, <1>4, <1>5, <1>7 DEF Row, LinkRow, EntRow, Climbs, Pend
<1>. HIDE DEF d
<1>. QED
  BY <1>3, <1>4, <1>5, <1>6, <1>8, GoTree

\* link() finds its name taken.
LEMMA link_nameTree ==
    ASSUME IInv, TreeInv, NEW p \in Proc, link_entry(p), ents[dp[p]][Name1(p)] # 0
    PROVE  TreeInv'
<1>. DEFINE d == dp[p]
            j == ents[d][Name1(p)]
            i == ip[p]
<1>1. ProcType /\ Row(p)
  BY Parts DEF TreeInv, RowInv
<1>2. /\ pc[p] = "parent" /\ puts[p] = <<>> /\ ~panicked /\ call[p].op = "link"
      /\ d \in Inum /\ i \in Inum /\ j \in Inum /\ j # 0
  BY ParentFacts DEF link_entry
<1>3. InUse(d) /\ InUse(j) /\ InUse(0) /\ InUse(i)
  BY <1>2, LastName, PointersInUse DEF DirPCs
<1>4. /\ Put(p, <<j, d>>) /\ pc' = [pc EXCEPT ![p] = "link_bad"]
      /\ dp' = [dp EXCEPT ![p] = 0]
      /\ UNCHANGED <<lost, ents, dinode, cwd, file, panicked, call, path, ip>>
  BY DEF link_entry, dirlookup, Goto, filevars
<1>5. pc[p] # "create_new" /\ panicked' = FALSE
  BY <1>2, <1>4, Alive
<1>. HIDE DEF j
<1>6. Step(p, "link_bad", 0, i, j, d)
  <2>1. puts' = [puts EXCEPT ![p] = Entries(j, d)]
    BY <1>2, <1>4, PutEntries
  <2>2. /\ ip' = [ip EXCEPT ![p] = i]
        /\ \E cl \in Calls \cup {NoCall} : call' = [call EXCEPT ![p] = cl]
        /\ \E e \in Seq(Entry) : path' = [path EXCEPT ![p] = e]
    BY <1>1, <1>2, <1>4, Moves
  <2>. QED
    BY <1>2, <1>4, <2>1, <2>2 DEF Step, Move, PCs
<1>7. pc'[p] = "link_bad"
  BY <1>1, <1>4 DEF ProcType
<1>8. Row(p)' /\ Pend(p)' = Pend(p) /\ "link_bad" # "create_new"
  BY <1>1, <1>2, <1>4, <1>7 DEF Row, LinkRow, EntRow, Climbs, Pend
<1>. HIDE DEF d, i
<1>. QED
  BY <1>3, <1>4, <1>5, <1>6, <1>8, GoTree

-----------------------------------------------------------------------------
(***************************************************************************)
(* iput() and the tree.                                                    *)
(***************************************************************************)
\* With one reference left, the one of the iput() under way, nobody else has the
\* inode.
LEMMA LastPointer ==
    ASSUME IInv, NEW p \in Proc, NEW i \in Inum, First(p) = i, ref[i] = 1
    PROVE  /\ \A q \in Proc : cwd[q] # i /\ dp[q] # i /\ ip[q] # i /\ Second(q) # i
           /\ \A q \in Proc : q # p => First(q) # i
           /\ \A f \in 1 .. NFILE : FileIp(f) # i
<1>1. ProcType /\ FileType /\ RefSum
  BY Parts
<1>2. \A x : Is(x, i) \in {0, 1} /\ (x = i => Is(x, i) = 1)
  BY DEF Is
<1>3. \A q \in Proc : /\ ref[i] >= Ptrs(q, i)
                      /\ q # p => ref[i] >= Ptrs(p, i) + Ptrs(q, i)
  BY <1>1, RefAtLeast
<1>4. \A q \in Proc : Ptrs(q, i) \in Nat
  BY <1>2 DEF Ptrs
<1>5. Ptrs(p, i) >= 1
  BY <1>2 DEF Ptrs
<1>6. ASSUME NEW q \in Proc, q # p
      PROVE  cwd[q] # i /\ dp[q] # i /\ ip[q] # i /\ Second(q) # i /\ First(q) # i
  <2>1. Ptrs(q, i) = 0
    BY <1>3, <1>4, <1>5, <1>6
  <2>. QED
    BY <1>2, <2>1 DEF Ptrs
<1>7. cwd[p] # i /\ dp[p] # i /\ ip[p] # i /\ Second(p) # i
  <2>1. Ptrs(p, i) <= 1
    BY <1>3, <1>4
  <2>. QED
    BY <1>2, <2>1 DEF Ptrs
<1>8. ASSUME NEW f \in 1 .. NFILE
      PROVE  FileIp(f) # i
  <2>1. /\ DOMAIN cwd = Proc /\ DOMAIN dp = Proc /\ DOMAIN ip = Proc
        /\ DOMAIN Firsts = Proc /\ DOMAIN Seconds = Proc /\ DOMAIN FileIps = 1 .. NFILE
        /\ Firsts[p] = i /\ FileIps[f] = FileIp(f)
    BY <1>1 DEF ProcType, FileType, Firsts, Seconds, FileIps
  <2>2. NumOf(cwd, i) \in Nat /\ NumOf(dp, i) \in Nat /\ NumOf(ip, i) \in Nat /\ NumOf(Seconds, i) \in Nat
    BY <2>1, Finite, CountAtLeast
  <2>3. NumOf(Firsts, i) \in Nat /\ NumOf(Firsts, i) >= Is(Firsts[p], i)
    BY <2>1, Finite, CountAtLeast
  <2>4. NumOf(FileIps, i) \in Nat /\ NumOf(FileIps, i) >= Is(FileIps[f], i)
    BY <2>1, Finite, CountAtLeast
  <2>5. ref[i] = NumOf(cwd, i) + NumOf(dp, i) + NumOf(ip, i)
               + NumOf(Firsts, i) + NumOf(Seconds, i) + NumOf(FileIps, i)
    BY <1>1 DEF RefSum
  <2>6. NumOf(FileIps, i) = 0
    BY <1>2, <2>1, <2>2, <2>3, <2>4, <2>5
  <2>. QED
    BY <1>2, <2>1, <2>4, <2>6
<1>. QED
  BY <1>6, <1>7, <1>8

\* What every part of iput() keeps.
LEMMA PutRows ==
    ASSUME IInv, TreeInv, ~panicked, UNCHANGED procvars,
           \A j \in Inum : dinode'[j].type # dinode[j].type => dinode'[j].type # "dir",
           \A q \in Proc : pc[q] \in {"unlink", "create_new"} => ents'[dp[q]] = ents[dp[q]]
    PROVE  RowInv'
<1>1. UNCHANGED <<pc, call, path, dp, ip>>
  BY DEF procvars
<1>2. ASSUME NEW q \in Proc
      PROVE  Row(q)'
  <2>1. Row(q)
    BY DEF TreeInv, RowInv
  <2>2. EntRow(q)'
    BY <1>1, <2>1 DEF Row, EntRow, Name1
  <2>3. LinkRow(q)'
    <3>1. ip[q] # 0 => ip[q] \in Inum
      BY Parts DEF ProcType
    <3>. QED
      BY <1>1, <2>1, <3>1 DEF Row, LinkRow
  <2>. QED
    BY <1>1, <2>1, <2>2, <2>3 DEF Row, Climbs
<1>. QED
  BY <1>2 DEF RowInv

\* A part of iput() that leaves the disk alone and frees nothing.
LEMMA PutTree ==
    ASSUME IInv, TreeInv, NEW p \in Proc, ~panicked, UNCHANGED procvars, UNCHANGED filevars,
           UNCHANGED <<dinode, ents, lost, panicked>>,
           \A q \in Proc : q # p => puts'[q] = puts[q],
           \A i \in Inum : Iputting(p, i, "free")' <=> Iputting(p, i, "free"),
           Second(p)' = Second(p) \/ Second(p)' = 0,
           \A i \in Inum : Iputting(p, i, "test")' => Second(p) = i
    PROVE  TreeInv'
<1>1. UNCHANGED <<pc, call, path, dp, ip, cwd, file>>
  BY DEF procvars, filevars
<1>2. SameTree
  <2>1. \A q \in Proc, j \in Inum : Fresh(q, j)' <=> Fresh(q, j)
    BY <1>1 DEF Fresh
  <2>2. \A q \in Proc, j \in Inum : Iputting(q, j, "free")' <=> Iputting(q, j, "free")
    BY DEF Iputting
  <2>. QED
    BY <2>1, <2>2 DEF SameTree
<1>3. /\ \A i \in Inum : Vacant(i)' <=> Vacant(i)
      /\ FreshInv' /\ EntInv' /\ NameInv' /\ RootInv'
  BY <1>2, QuietTree
<1>4. UseInv'
  <2>1. ASSUME NEW q \in Proc, NEW i \in Inum, Uses(q, i)'
        PROVE  Uses(q, i)
    <3>1. CASE q = p
      <4>1. i # 0
        BY DEF Inum
      <4>. QED
        BY <1>1, <2>1, <3>1, <4>1 DEF Uses
    <3>2. CASE q # p
      BY <1>1, <2>1, <3>2 DEF Uses, Second, Iputting
    <3>. QED
      BY <3>1, <3>2
  <2>2. UsesKept
    BY <1>1, <2>1 DEF UsesKept, FileIp
  <2>. QED
    BY <1>3, <2>2, QuietUse
<1>5. RowInv'
  BY PutRows
<1>6. CountInv'
  <2>1. DiskType /\ CountInv /\ \A q \in Proc : Pend(q)' = Pend(q)
    BY <1>1, Parts DEF TreeInv, Pend
  <2>2. ASSUME NEW i \in Inum
        PROVE  dinode'[i].nlink = dinode[i].nlink + (Is(Pend(p), i)' - Is(Pend(p), i))
    <3>1. Is(Pend(p), i)' = Is(Pend(p), i) /\ Is(Pend(p), i) \in {0, 1} /\ dinode[i].nlink \in Int
      BY <2>1 DEF Is, DiskType, Dinode
    <3>. QED
      BY <3>1
  <2>. QED
    BY <2>1, <2>2, QuietCount
<1>. QED
  BY <1>3, <1>4, <1>5, <1>6 DEF TreeInv

\* The iput() under way ends.
LEMMA TailTree ==
    ASSUME IInv, TreeInv, NEW p \in Proc, ~panicked, UNCHANGED procvars, UNCHANGED filevars,
           UNCHANGED <<dinode, ents, lost, panicked>>,
           puts[p] # <<>>, Head(puts[p]).at # "free", puts' = [puts EXCEPT ![p] = Tail(@)]
    PROVE  TreeInv'
<1>1. ProcType /\ PutInv
  BY Parts
<1>2. /\ \A q \in Proc : q # p => puts'[q] = puts[q]
      /\ First(p)' = Second(p) /\ Second(p)' = 0
      /\ \A i, at : Iputting(p, i, at)' => at = "test"
  BY <1>1, TailRow
<1>3. \A i, at : Iputting(p, i, at) <=> First(p) = i /\ at = Head(puts[p]).at
  BY PutFacts
<1>4. \A i : Iputting(p, i, "test")' => Second(p) = i
  BY <1>2 DEF Iputting, First
<1>5. \A i : Iputting(p, i, "free")' <=> Iputting(p, i, "free")
  BY <1>2, <1>3
<1>. QED
  BY <1>2, <1>4, <1>5, PutTree

\* The first part of iput(): the reference is dropped, or the inode about to be
\* freed, with nobody else who could know of it.
LEMMA iputTree ==
    ASSUME IInv, TreeInv, NEW p \in Proc, iput(p), UNCHANGED procvars, UNCHANGED filevars, lost' = lost
    PROVE  TreeInv'
<1>1. DiskType /\ ProcType /\ PutInv
  BY Parts
<1>2. /\ puts[p] # <<>> /\ Head(puts[p]).at = "test" /\ ~panicked
      /\ UNCHANGED <<dinode, ents, lost, panicked>>
  BY DEF iput, diskvars
<1>3. PICK i \in Inum : /\ i = Head(puts[p]).i /\ First(p) = i
                        /\ \A k, at : Iputting(p, k, at) <=> First(p) = k /\ at = "test"
  BY <1>2, PutFacts
<1>4. CASE ~iput_last(i)
  <2>1. puts' = [puts EXCEPT ![p] = Tail(@)] /\ Head(puts[p]).at # "free"
    BY <1>2, <1>3, <1>4 DEF iput
  <2>. QED
    BY <1>2, <2>1, TailTree
<1>5. CASE iput_last(i)
  <2>1. ref[i] = 1 /\ dinode[i].nlink = 0 /\ dinode[i].type # "none"
    <3>1. lock[i] = None /\ valid[i] /\ ref[i] = 1 /\ inode[i].nlink = 0
      BY <1>3, <1>5 DEF iput, Free, iput_last
    <3>2. Copy(i)
      BY <3>1, CacheFacts
    <3>. QED
      BY <1>2, <3>1, <3>2 DEF Copy
  <2>2. /\ \A q \in Proc : cwd[q] # i /\ dp[q] # i /\ ip[q] # i /\ Second(q) # i
        /\ \A q \in Proc : q # p => First(q) # i
        /\ \A f \in 1 .. NFILE : FileIp(f) # i
    BY <1>3, <2>1, LastPointer
  <2>3. puts' = [puts EXCEPT ![p][1].at = "free"]
    BY <1>3, <1>5 DEF iput
  <2>4. /\ \A q \in Proc : q # p => puts'[q] = puts[q]
        /\ Second(p)' = Second(p)
        /\ \A k, at : Iputting(p, k, at)' <=> First(p) = k /\ at = "free"
    BY <1>1, <1>2, <2>3, AtRow
  <2>5. UNCHANGED <<pc, call, path, dp, ip, cwd, file>>
    BY DEF procvars, filevars
  <2>6. \A q \in Proc : \A k, at : q # p => (Iputting(q, k, at)' <=> Iputting(q, k, at))
    BY <2>4 DEF Iputting
  <2>7. /\ \A q \in Proc, k \in Inum : Fresh(q, k)' <=> Fresh(q, k)
        /\ \A q \in Proc : ~Fresh(q, i)
        /\ \A k \in Inum : Made(k)' <=> Made(k)
    <3>1. \A q \in Proc, k \in Inum : Fresh(q, k)' <=> Fresh(q, k)
      BY <2>5 DEF Fresh
    <3>2. \A k \in Inum : Made(k)' <=> Made(k)
      BY <1>2, <3>1 DEF Made
    <3>. QED
      BY <2>2, <3>1, <3>2 DEF Fresh
  <2>8. \A k \in Inum : k # i => (Vacant(k)' <=> Vacant(k))
    BY <1>2, <1>3, <2>4, <2>6, <2>7 DEF Vacant
  <2>9. UseInv'
    <3>1. ASSUME NEW q \in Proc, NEW k \in Inum, Uses(q, k)'
          PROVE  Uses(q, k) /\ k # i
      <4>1. CASE q = p
        BY <2>2, <2>4, <2>5, <3>1, <4>1 DEF Uses
      <4>2. CASE q # p
        <5>1. Uses(q, k)
          BY <2>4, <2>5, <3>1, <4>2 DEF Uses, Second, Iputting
        <5>2. Iputting(q, k, "test") => First(q) = k
          BY DEF Iputting, First
        <5>. QED
          BY <2>2, <4>2, <5>1, <5>2 DEF Uses
      <4>. QED
        BY <4>1, <4>2
    <3>2. \A f \in 1 .. NFILE : FileIp(f)' = FileIp(f)
      BY <2>5 DEF FileIp
    <3>3. ASSUME NEW k \in Inum, Vacant(k)'
          PROVE  /\ dinode'[k].nlink = 0 /\ \A q \in Proc : ~Uses(q, k)'
                 /\ \A f \in 1 .. NFILE : FileIp(f)' # k
      <4>1. CASE k = i
        BY <1>2, <2>1, <2>2, <3>1, <3>2, <4>1
      <4>2. CASE k # i
        BY <1>2, <2>8, <3>1, <3>2, <3>3, <4>2 DEF TreeInv, UseInv
      <4>. QED
        BY <4>1, <4>2
    <3>. QED
      BY <3>3 DEF UseInv
  <2>10. FreshInv'
    <3>1. FreshInv
      BY DEF TreeInv
    <3>2. \A q \in Proc, k \in Inum : k # i /\ Iputting(q, k, "free")' => Iputting(q, k, "free")
      BY <1>3, <2>4, <2>6
    <3>. QED
      BY <1>2, <2>7, <3>1, <3>2 DEF FreshInv
  <2>11. EntInv' /\ NameInv' /\ RootInv'
    BY <1>2, <2>7 DEF TreeInv, EntInv, NameInv, RootInv
  <2>12. RowInv'
    BY <1>2, PutRows
  <2>13. CountInv'
    <3>1. DiskType /\ CountInv /\ \A q \in Proc : Pend(q)' = Pend(q)
      BY <2>5, Parts DEF TreeInv, Pend
    <3>2. ASSUME NEW k \in Inum
          PROVE  dinode'[k].nlink = dinode[k].nlink + (Is(Pend(p), k)' - Is(Pend(p), k))
      <4>1. Is(Pend(p), k)' = Is(Pend(p), k) /\ Is(Pend(p), k) \in {0, 1} /\ dinode[k].nlink \in Int
        BY <3>1 DEF Is, DiskType, Dinode
      <4>. QED
        BY <1>2, <4>1
    <3>. QED
      BY <1>2, <3>1, <3>2, QuietCount
  <2>. QED
    BY <1>2, <2>9, <2>10, <2>11, <2>12, <2>13 DEF TreeInv
<1>. QED
  BY <1>4, <1>5

\* The last parts of iput().
LEMMA iput_endTree ==
    ASSUME IInv, TreeInv, NEW p \in Proc, iput_unlock(p) \/ iput_drop(p),
           UNCHANGED procvars, UNCHANGED filevars, lost' = lost
    PROVE  TreeInv'
<1>1. CASE iput_drop(p)
  <2>1. /\ puts[p] # <<>> /\ Head(puts[p]).at # "free" /\ ~panicked
        /\ puts' = [puts EXCEPT ![p] = Tail(@)] /\ UNCHANGED <<dinode, ents, lost, panicked>>
    BY <1>1 DEF iput_drop, diskvars
  <2>. QED
    BY <2>1, TailTree
<1>2. CASE iput_unlock(p)
  <2>1. /\ puts[p] # <<>> /\ Head(puts[p]).at = "unlock" /\ ~panicked
        /\ puts' = [puts EXCEPT ![p][1].at = "drop"] /\ UNCHANGED <<dinode, ents, lost, panicked>>
    BY <1>2 DEF iput_unlock, diskvars
  <2>2. \A i, at : Iputting(p, i, at) <=> First(p) = i /\ at = "unlock"
    BY <2>1, PutFacts
  <2>3. /\ \A q \in Proc : q # p => puts'[q] = puts[q]
        /\ Second(p)' = Second(p)
        /\ \A i, at : Iputting(p, i, at)' <=> First(p) = i /\ at = "drop"
    BY <2>1, Parts, AtRow
  <2>4. \A i : (Iputting(p, i, "free")' <=> Iputting(p, i, "free")) /\ ~Iputting(p, i, "test")'
    BY <2>2, <2>3
  <2>. QED
    BY <2>1, <2>3, <2>4, PutTree
<1>. QED
  BY <1>1, <1>2

\* iput() frees the inode.  No directory names it or has it for its "..", so the
\* names it has itself are not of directories.
LEMMA iput_freeTree ==
    ASSUME IInv, TreeInv, NEW p \in Proc, iput_free(p), UNCHANGED procvars, UNCHANGED filevars,
           lost' = lost \cup Listed(Head(puts[p]).i)
    PROVE  TreeInv'
<1>1. /\ DiskType /\ CacheType /\ ProcType
      /\ PutInv /\ LockInv /\ CacheInv /\ FreeInv /\ BlkInv
  BY Parts
<1>2. PICK i \in Inum : /\ i = Head(puts[p]).i /\ First(p) = i
                        /\ \A k, at : Iputting(p, k, at) <=> First(p) = k /\ at = "free"
  BY PutFacts DEF iput_free
<1>3. /\ puts[p] # <<>> /\ Head(puts[p]).at = "free" /\ ~panicked
      /\ panicked' = bfree_panics(itrunc(inode[i])) /\ used' = bfree(itrunc(inode[i]))
      /\ Write(i, Freed(inode[i])) /\ ents' = [ents EXCEPT ![i] = NoEnts]
      /\ puts' = [puts EXCEPT ![p][1].at = "unlock"]
      /\ ind' = ind /\ lost' = lost \cup Listed(i)
  BY <1>2 DEF iput_free, Freed
<1>4. lock[i] = p /\ Iputting(p, i, "free")
  BY <1>1, <1>2 DEF LockInv, Holds
<1>5. inode[i] = dinode[i] /\ dinode[i] \in Dinode
  <2>1. lock[i] # None /\ valid[i]
    BY <1>1, <1>4, InodeAssumption DEF CacheInv
  <2>2. ~\E q \in Proc : Iputting(q, i, "unlock")
    <3>1. \A q \in Proc : Iputting(q, i, "unlock") => lock[i] = q
      BY <1>1 DEF LockInv, Holds
    <3>. QED
      BY <1>2, <1>4, <3>1
  <2>. QED
    BY <1>1, <2>1, <2>2 DEF CacheInv, Copy, DiskType
<1>6. PICK r : r = Freed(dinode[i])
  OBVIOUS
<1>7. /\ r \in Dinode /\ r.type = "none" /\ r.direct = 0 /\ r.indirect = 0 /\ r.size = 0
      /\ r.nlink = dinode[i].nlink
  BY <1>5, <1>6, TruncRecord, TruncLinks
<1>8. /\ dinode' = [dinode EXCEPT ![i] = r] /\ dinode'[i] = r
      /\ \A k \in Inum : k # i => dinode'[k] = dinode[k]
  BY <1>1, <1>3, <1>5, <1>6 DEF Write, DiskType
<1>9. panicked' = FALSE
  <2>1. ~bfree_panics(itrunc(dinode[i]))
    BY <1>1, <1>3, <1>5, <1>7, <1>8, Itrunc
  <2>. QED
    BY <1>3, <1>5, <2>1 DEF bfree_panics
<1>10. /\ \A q \in Proc : q # p => puts'[q] = puts[q]
       /\ Second(p)' = Second(p)
       /\ \A k, at : Iputting(p, k, at)' <=> First(p) = k /\ at = "unlock"
  BY <1>1, <1>3, AtRow
<1>11. UNCHANGED <<pc, call, path, dp, ip, cwd, file>>
  BY DEF procvars, filevars
<1>12. \A q \in Proc : \A k, at : q # p => (Iputting(q, k, at)' <=> Iputting(q, k, at))
  BY <1>10 DEF Iputting
<1>13. Vacant(i)
  BY <1>4 DEF Vacant
<1>14. /\ \A d \in Inum, n \in Name : ents[d][n] # i
       /\ \A d \in Inum : Parents[d] # i
       /\ i # ROOTINO
       /\ \A q \in Proc : ~Uses(q, i) /\ ~Fresh(q, i)
  <2>1. \A q \in Proc : ~Uses(q, i) /\ ~Fresh(q, i)
    BY <1>4, <1>13 DEF TreeInv, UseInv, FreshInv
  <2>. QED
    BY <1>13, <2>1, VacantFacts
<1>15. /\ \A d \in Inum : d # i => ents'[d] = ents[d]
       /\ \A n \in Entry : ents'[i][n] = 0
  BY <1>1, <1>3 DEF DiskType, NoEnts
<1>16. \A q \in Proc, k \in Inum : Fresh(q, k)' <=> Fresh(q, k)
  BY <1>11 DEF Fresh
<1>17. \A k \in Inum : Vacant(k)' <=> Vacant(k)
  <2>1. Vacant(i)'
    BY <1>7, <1>8 DEF Vacant
  <2>2. ASSUME NEW k \in Inum, k # i
        PROVE  Vacant(k)' <=> Vacant(k)
    BY <1>2, <1>8, <1>10, <1>12, <1>16, <2>2 DEF Vacant
  <2>. QED
    BY <1>13, <2>1, <2>2
<1>18. \A k \in Inum : dinode'[k].nlink = dinode[k].nlink
  BY <1>7, <1>8
<1>19. UseInv'
  <2>1. ASSUME NEW q \in Proc, NEW k \in Inum, Uses(q, k)'
        PROVE  Uses(q, k)
    <3>1. CASE q = p
      BY <1>10, <1>11, <2>1, <3>1 DEF Uses
    <3>2. CASE q # p
      BY <1>10, <1>11, <2>1, <3>2 DEF Uses, Second, Iputting
    <3>. QED
      BY <3>1, <3>2
  <2>2. UsesKept
    BY <1>11, <2>1 DEF UsesKept, FileIp
  <2>. QED
    BY <1>17, <1>18, <2>2, QuietUse
<1>20. FreshInv'
  <2>1. FreshInv
    BY DEF TreeInv
  <2>2. \A q \in Proc, k \in Inum : Iputting(q, k, "free")' => Iputting(q, k, "free")
    BY <1>10, <1>12
  <2>. QED
    BY <1>8, <1>14, <1>16, <2>1, <2>2 DEF FreshInv
<1>21. EntInv'
  <2>1. \A k \in Inum : k # i => (Made(k)' <=> Made(k))
    BY <1>8, <1>16 DEF Made
  <2>2. ~Made(i)'
    BY <1>7, <1>8 DEF Made
  <2>. QED
    BY <1>15, <2>1, <2>2 DEF TreeInv, EntInv
<1>22. \A d, j \in Inum, n \in Name : ents'[d][n] = j => d # i /\ ents[d][n] = j
  <2>1. \A j \in Inum : j # 0
    BY DEF Inum
  <2>. QED
    BY <1>15, <2>1 DEF Entry
<1>23. NameInv'
  <2>1. ASSUME NEW d \in Inum, NEW j \in Inum, NEW n \in Name, ents'[d][n] = j, dinode'[j].type = "dir"
        PROVE  /\ j # ROOTINO /\ ents'[j][".."] = d
               /\ \A e \in Inum, m \in Name : ents'[e][m] = j => e = d /\ m = n
    <3>1. j # i /\ dinode[j].type = "dir" /\ ents[d][n] = j
      BY <1>7, <1>8, <1>22, <2>1
    <3>. QED
      BY <1>15, <1>22, <3>1 DEF TreeInv, NameInv
  <2>. QED
    BY <2>1 DEF NameInv
<1>24. RootInv'
  <2>1. ROOTINO \in Inum
    BY InodeAssumption DEF ROOTINO, Inum
  <2>. QED
    BY <1>8, <1>14, <1>15, <2>1 DEF TreeInv, RootInv
<1>25. RowInv'
  <2>1. ASSUME NEW q \in Proc, pc[q] \in {"unlink", "create_new"}
        PROVE  ents'[dp[q]] = ents[dp[q]]
    <3>1. dp[q] \in Inum /\ dp[q] # i
      BY <1>1, <1>14, <2>1, Parts DEF Uses, PtrInv, PtrRow, ProcType
    <3>. QED
      BY <1>15, <3>1
  <2>2. \A j \in Inum : dinode'[j].type # dinode[j].type => dinode'[j].type # "dir"
    BY <1>7, <1>8
  <2>. QED
    BY <1>3, <2>1, <2>2, PutRows
<1>26. \A d \in Inum : Parents'[d] = Parents[d]
  <2>1. \A d \in Inum : /\ Parents[d] = (IF Named(d) THEN ents[d][".."] ELSE 0)
                        /\ Parents'[d] = (IF Named(d)' THEN ents'[d][".."] ELSE 0)
    BY DEF Parents
  <2>2. Parents[i] = 0 /\ Parents'[i] = 0
    BY <1>14, <1>15, <2>1 DEF Named, Entry
  <2>3. ASSUME NEW d \in Inum, d # i
        PROVE  Parents'[d] = Parents[d]
    <3>1. ents'[d][".."] = ents[d][".."]
      BY <1>15, <2>3
    <3>2. CASE \E n \in Name : ents[i][n] = d
      <4>1. PICK n \in Name : ents[i][n] = d
        BY <3>2
      <4>2. Named(d)
        BY <4>1 DEF Named
      <4>3. dinode[d].type # "dir"
        <5>1. dinode[d].type = "dir" => ents[d][".."] = i
          BY <4>1 DEF TreeInv, NameInv
        <5>. QED
          BY <1>14, <2>1, <4>2, <5>1
      <4>4. ents[d][".."] = 0
        BY <4>3 DEF TreeInv, EntInv, Made, Entry
      <4>. QED
        BY <2>1, <3>1, <4>4
    <3>3. CASE ~\E n \in Name : ents[i][n] = d
      <4>1. Named(d)' <=> Named(d)
        <5>1. \A e \in Inum, n \in Name : ents'[e][n] = d <=> ents[e][n] = d
          BY <1>15, <1>22, <3>3
        <5>. QED
          BY <5>1 DEF Named
      <4>. QED
        BY <2>1, <3>1, <4>1
    <3>. QED
      BY <3>2, <3>3
  <2>. QED
    BY <2>2, <2>3
<1>27. CountInv'
  <2>. SUFFICES ASSUME NEW k \in Inum
                PROVE  /\ dinode'[k].nlink >= Count(k)'
                       /\ k \notin lost' => dinode'[k].nlink = Count(k)'
    BY DEF CountInv
  <2>1. Parents' = Parents /\ Pendings' = Pendings
    BY <1>11, <1>26 DEF Parents, Pendings, Pend
  <2>2. /\ DOMAIN NameOf = Inum \X Name /\ DOMAIN NameOf' = Inum \X Name
        /\ \A x \in Inum \X Name : NameOf[x] = ents[x[1]][x[2]] /\ NameOf'[x] = ents'[x[1]][x[2]]
    BY DEF NameOf
  <2>. DEFINE A == {x \in Inum \X Name : NameOf[x] = k}
              B == {x \in Inum \X Name : NameOf'[x] = k}
  <2>3. B \subseteq A
    BY <1>22, <2>2
  <2>4. IsFiniteSet(A) /\ Cardinality(A) \in Nat
    BY TreeFinite, FS_Subset, FS_CardinalityType
  <2>5. IsFiniteSet(B) /\ Cardinality(B) \in Nat /\ Cardinality(B) <= Cardinality(A)
    BY <2>3, <2>4, FS_Subset, FS_CardinalityType
  <2>6. NumOf(NameOf, k) = Cardinality(A) /\ NumOf(NameOf', k) = Cardinality(B)
    BY <2>2 DEF NumOf
  <2>7. k \notin lost' => A = B
    <3>. HAVE k \notin lost'
    <3>1. \A n \in Name : ents[i][n] # k
      <4>1. k # 0
        BY DEF Inum
      <4>. QED
        BY <1>3, <4>1 DEF Listed
    <3>2. ASSUME NEW x \in A
          PROVE  x \in B
      BY <1>15, <2>2, <3>1
    <3>. QED
      BY <2>3, <3>2
  <2>. HIDE DEF A, B
  <2>8. /\ dinode[k].nlink >= Count(k) /\ (k \notin lost => dinode[k].nlink = Count(k))
        /\ dinode[k].nlink \in Int /\ dinode'[k].nlink = dinode[k].nlink
    BY <1>1, <1>18 DEF TreeInv, CountInv, DiskType, Dinode
  <2>9. NumOf(Parents, k) \in Nat /\ NumOf(Pendings, k) \in Nat
    BY CountParts
  <2>10. /\ Count(k) = Cardinality(A) + NumOf(Parents, k) + NumOf(Pendings, k)
         /\ Count(k)' = Cardinality(B) + NumOf(Parents, k) + NumOf(Pendings, k)
    BY <2>1, <2>6 DEF Count, NumOf
  <2>11. k \notin lost' => k \notin lost
    BY <1>3
  <2>. QED
    BY <2>4, <2>5, <2>7, <2>8, <2>9, <2>10, <2>11
<1>. QED
  BY <1>9, <1>19, <1>20, <1>21, <1>23, <1>24, <1>25, <1>27 DEF TreeInv

\* iput(), all parts.
LEMMA IputTree ==
    ASSUME IInv, TreeInv, NEW p \in Proc, Iput(p)
    PROVE  TreeInv'
<1>1. UNCHANGED procvars /\ UNCHANGED filevars
  BY DEF Iput
<1>2. \/ (iput(p) \/ iput_unlock(p) \/ iput_drop(p)) /\ lost' = lost
      \/ iput_free(p) /\ lost' = lost \cup Listed(Head(puts[p]).i)
  BY DEF Iput
<1>. QED
  BY <1>1, <1>2, iputTree, iput_freeTree, iput_endTree

-----------------------------------------------------------------------------
(***************************************************************************)
(* Steps that make or erase an entry.                                      *)
(***************************************************************************)
\* The entry n of d turns from 0 to i or from i to 0, and of the other entries
\* only the ".." of i may change.
EntryStep(d, n, i, v) ==
    /\ v \in {0, i} /\ ents[d][n] \in {0, i}
    /\ \A k \in Inum, m \in Name : ents'[k][m] = IF k = d /\ m = n THEN v ELSE ents[k][m]
    /\ \A k \in Inum : k # i => ents'[k][".."] = ents[k][".."]

\* The counted functions change at one argument each.
LEMMA EntryMove ==
    ASSUME NEW d \in Inum, NEW n \in Name, NEW i \in Inum, NEW v, EntryStep(d, n, i, v)
    PROVE  /\ <<d, n>> \in Inum \X Name
           /\ \A y \in Inum \X Name : y # <<d, n>> => NameOf'[y] = NameOf[y]
           /\ NameOf[<<d, n>>] = ents[d][n] /\ NameOf'[<<d, n>>] = v
           /\ \A y \in Inum : y # i => Parents'[y] = Parents[y]
<1>1. <<d, n>> \in Inum \X Name
  OBVIOUS
<1>2. ASSUME NEW y \in Inum \X Name, y # <<d, n>>
      PROVE  NameOf'[y] = NameOf[y]
  <2>1. PICK k \in Inum, m \in Name : y = <<k, m>>
    OBVIOUS
  <2>2. ~(k = d /\ m = n)
    BY <1>2, <2>1
  <2>3. NameOf'[y] = ents'[k][m] /\ NameOf[y] = ents[k][m]
    BY <2>1 DEF NameOf
  <2>. QED
    BY <2>2, <2>3 DEF EntryStep
<1>3. NameOf[<<d, n>>] = ents[d][n] /\ NameOf'[<<d, n>>] = v
  <2>1. NameOf[<<d, n>>] = ents[d][n] /\ NameOf'[<<d, n>>] = ents'[d][n]
    BY <1>1 DEF NameOf
  <2>. QED
    BY <2>1 DEF EntryStep
<1>4. ASSUME NEW y \in Inum, y # i
      PROVE  Parents'[y] = Parents[y]
  <2>1. y # 0
    BY DEF Inum
  <2>2. Named(y)' <=> Named(y)
    <3>1. \A k \in Inum, m \in Name : ents'[k][m] = y <=> ents[k][m] = y
      BY <1>4, <2>1 DEF EntryStep
    <3>. QED
      BY <3>1 DEF Named
  <2>3. ents'[y][".."] = ents[y][".."]
    BY <1>4 DEF EntryStep
  <2>4. /\ Parents[y] = (IF Named(y) THEN ents[y][".."] ELSE 0)
        /\ Parents'[y] = (IF Named(y)' THEN ents'[y][".."] ELSE 0)
    BY DEF Parents, Named
  <2>. QED
    BY <2>2, <2>3, <2>4
<1>. QED
  BY <1>1, <1>2, <1>3, <1>4

\* What unlink() has found when it locks the inode as well.
LEMMA UnlinkFacts ==
    ASSUME IInv, TreeInv, NEW p \in Proc, unlink_entry(p)
    PROVE  /\ pc[p] = "unlink" /\ puts[p] = <<>> /\ ~panicked /\ pc[p] # "create_new"
           /\ ip[p] \in Inum /\ dp[p] \in Inum /\ ip[p] # dp[p] /\ lock[ip[p]] = None /\ lock[dp[p]] = p
           /\ Cur(ip[p]) = dinode[ip[p]] /\ inode[dp[p]] = dinode[dp[p]]
           /\ Name1(p) \in Name /\ ents[dp[p]][Name1(p)] = ip[p]
           /\ InUse(ip[p]) /\ InUse(dp[p]) /\ InUse(0) /\ Pend(p) = 0
           /\ dinode[dp[p]].type = "dir" /\ call[p].op # "link"
           /\ dinode[ip[p]].nlink \in Int /\ dinode[ip[p]].nlink >= 1 /\ panicked' = FALSE
           /\ UNCHANGED <<lost, cwd, file>>
<1>1. ProcType /\ PtrRow(p) /\ PinRow(p) /\ LockInv /\ Row(p) /\ DiskType
  BY Parts DEF PtrInv, PinInv, TreeInv, RowInv
<1>2. /\ pc[p] = "unlink" /\ puts[p] = <<>> /\ ~panicked /\ pc[p] # "create_new"
      /\ ip[p] \in Inum /\ lock[ip[p]] = None /\ dp[p] \in Inum /\ lock[dp[p]] = p /\ ip[p] # dp[p]
      /\ dinode[dp[p]].type = "dir"
  BY <1>1, InodeAssumption DEF unlink_entry, At, Free, PtrRow, PinRow, DirPCs, ProcType, LockInv, Holds
<1>3. Cur(ip[p]) = dinode[ip[p]] /\ inode[dp[p]] = dinode[dp[p]]
  BY <1>2, CacheFacts, InodeAssumption DEF Copy
<1>4. Name1(p) \in Name /\ ents[dp[p]][Name1(p)] = ip[p]
  BY <1>1, <1>2 DEF Row, EntRow
<1>5. InUse(ip[p]) /\ InUse(dp[p]) /\ InUse(0) /\ Pend(p) = 0 /\ call[p].op # "link"
  BY <1>2, PointersInUse, PendFacts
<1>6. dinode[ip[p]].nlink \in Int /\ dinode[ip[p]].nlink >= 1
  <2>1. PICK i \in Inum : i = ip[p]
    BY <1>2
  <2>2. /\ NumOf(NameOf, i) \in Nat /\ NumOf(Parents, i) \in Nat /\ NumOf(Pendings, i) \in Nat
        /\ NumOf(NameOf, i) >= 1
    BY <1>2, <1>4, <2>1, CountParts
  <2>3. dinode[i].nlink \in Int /\ dinode[i].nlink >= Count(i)
    BY <1>1 DEF DiskType, Dinode, TreeInv, CountInv
  <2>. QED
    BY <2>1, <2>2, <2>3 DEF Count
<1>7. panicked' = FALSE
  <2>1. panicked' = (NoType(ip[p]) \/ Cur(ip[p]).nlink < 1)
    BY DEF unlink_entry
  <2>2. ~NoType(ip[p])
    BY <1>2, <1>5, InUseType
  <2>3. ~(dinode[ip[p]].nlink < 1)
    BY <1>6
  <2>4. ~(NoType(ip[p]) \/ Cur(ip[p]).nlink < 1)
    BY <1>3, <2>2, <2>3
  <2>. QED
    BY <2>1, <2>4, Zenon DEF NoType
<1>8. UNCHANGED <<lost, cwd, file>>
  BY DEF unlink_entry, filevars
<1>. QED
  BY <1>2, <1>3, <1>4, <1>5, <1>6, <1>7, <1>8

\* unlink() of a directory that is not empty.
LEMMA unlink_refusedTree ==
    ASSUME IInv, TreeInv, NEW p \in Proc, unlink_entry(p),
           Cur(ip[p]).type = "dir" /\ ~isdirempty(ip[p])
    PROVE  TreeInv'
<1>1. PICK i \in Inum, d \in Inum : i = ip[p] /\ d = dp[p]
  BY UnlinkFacts
<1>2. ProcType
  BY Parts
<1>3. /\ puts[p] = <<>> /\ ~panicked /\ pc[p] # "create_new" /\ Pend(p) = 0
      /\ InUse(i) /\ InUse(d) /\ panicked' = FALSE /\ UNCHANGED <<lost, cwd, file>>
  BY <1>1, UnlinkFacts
<1>4. Return(p, <<i, d>>) /\ UNCHANGED <<ents, dinode>>
  BY <1>1 DEF unlink_entry
<1>5. Step(p, "run", 0, 0, i, d)
  <2>1. i # 0 /\ d # 0
    BY DEF Inum
  <2>. QED
    BY <1>2, <1>3, <1>4, <2>1, Moves DEF Step, PCs
<1>6. UNCHANGED <<lost, ents, dinode, cwd, file>>
  BY <1>3, <1>4
<1>7. PICK s : Return(p, s)
  BY <1>4
<1>. QED
  BY <1>3, <1>5, <1>6, <1>7, ReturnSame

\* What else unlink() and link() change with the entry: the counts of the inode, of
\* the directory if the inode is one, and of the links under way.
EntryLinks(p, d, m, i, v) ==
    /\ \A j \in Inum : dinode'[j].type = dinode[j].type
    /\ \A k \in Inum : k # d => ents'[k] = ents[k]
    /\ ents'[d]["."] = ents[d]["."] /\ ents'[d][".."] = ents[d][".."]
    /\ dinode[i].type = "dir" => v = 0 /\ ents[d][m] = i
    /\ \A q \in Proc : q # p /\ pc[q] \in {"unlink", "create_new"} => dp[q] # d
    /\ \A k \in Inum : dinode'[k].nlink = dinode[k].nlink + (Is(v, k) - Is(ents[d][m], k))
            - (IF dinode[i].type = "dir" THEN Is(d, k) ELSE 0) + (Is(Pend(p), k)' - Is(Pend(p), k))

\* A step of unlink() or link() on an entry.
LEMMA EntryTree ==
    ASSUME IInv, TreeInv, NEW p \in Proc, NEW c, NEW n, NEW a, NEW b, Step(p, c, 0, n, a, b),
           pc[p] # "create_new", c # "create_new", UNCHANGED <<lost, cwd, file>>,
           InUse(n), InUse(a), InUse(b), Row(p)', panicked' = FALSE,
           NEW d \in Inum, NEW m \in Name, NEW i \in Inum, NEW v, EntryStep(d, m, i, v),
           dinode[d].type = "dir", InUse(d), InUse(i), EntryLinks(p, d, m, i, v)
    PROVE  TreeInv'
<1>0. /\ \A j \in Inum : dinode'[j].type = dinode[j].type
      /\ \A k \in Inum : k # d => ents'[k] = ents[k]
      /\ ents'[d]["."] = ents[d]["."] /\ ents'[d][".."] = ents[d][".."]
      /\ dinode[i].type = "dir" => v = 0 /\ ents[d][m] = i
      /\ \A q \in Proc : q # p /\ pc[q] \in {"unlink", "create_new"} => dp[q] # d
  BY DEF EntryLinks
<1>1. DiskType /\ ProcType /\ UseInv /\ FreshInv /\ EntInv /\ NameInv /\ RootInv /\ RowInv /\ CountInv
  BY Parts DEF TreeInv
<1>2. /\ Others(p) /\ ~panicked /\ pc'[p] = c /\ dp'[p] = 0 /\ ip'[p] = n
      /\ First(p)' = a /\ Second(p)' = b
      /\ \A q \in Proc : \A k, at : at # "test" => (Iputting(q, k, at)' <=> Iputting(q, k, at))
  BY <1>1, StepRow DEF Step
<1>3. /\ \A q \in Proc, j \in Inum : Fresh(q, j)' <=> Fresh(q, j)
      /\ \A q \in Proc, j \in Inum : Iputting(q, j, "free")' <=> Iputting(q, j, "free")
  BY <1>2 DEF Fresh, Others
<1>4. /\ \A k \in Inum : Vacant(k)' <=> Vacant(k)
      /\ \A k \in Inum : Made(k)' <=> Made(k)
  BY <1>0, <1>3 DEF Vacant, Made
<1>5. FreshInv'
  BY <1>0, <1>1, <1>3 DEF FreshInv
<1>6. Made(d) /\ ~Vacant(d) /\ ~Vacant(i) /\ i # 0
  BY DEF InUse, Made, Vacant, Inum
<1>7. EntInv'
  <2>1. ASSUME NEW k \in Inum
        PROVE  /\ Made(k) => ents'[k]["."] = k
               /\ ~Made(k) => \A x \in Entry : ents'[k][x] = 0
    BY <1>0, <1>1, <1>6 DEF EntInv
  <2>. QED
    BY <1>4, <2>1 DEF EntInv
<1>8. NameInv'
  <2>1. ASSUME NEW j \in Inum, dinode[j].type = "dir", NEW e \in Inum, NEW x \in Name, ents'[e][x] = j
        PROVE  ents[e][x] = j
    <3>1. j # 0
      BY DEF Inum
    <3>. QED
      BY <1>0, <2>1, <3>1 DEF EntryStep
  <2>2. \A j \in Inum : ents'[j][".."] = ents[j][".."]
    BY <1>0
  <2>3. ASSUME NEW e \in Inum, NEW j \in Inum, NEW x \in Name, ents'[e][x] = j, dinode'[j].type = "dir"
        PROVE  /\ j # ROOTINO /\ ents'[j][".."] = e
               /\ \A f \in Inum, y \in Name : ents'[f][y] = j => f = e /\ y = x
    <3>1. dinode[j].type = "dir" /\ ents[e][x] = j
      BY <1>0, <2>1, <2>3
    <3>2. /\ j # ROOTINO /\ ents[j][".."] = e
          /\ \A f \in Inum, y \in Name : ents[f][y] = j => f = e /\ y = x
      BY <1>1, <3>1 DEF NameInv
    <3>. QED
      BY <2>1, <2>2, <3>1, <3>2
  <2>. QED
    BY <2>3 DEF NameInv
<1>9. RootInv'
  <2>1. ROOTINO \in Inum
    BY InodeAssumption DEF ROOTINO, Inum
  <2>. QED
    BY <1>0, <1>1, <2>1 DEF RootInv
<1>10. CountInv'
  <2>. DEFINE w == <<d, m>>
              t == IF dinode[i].type = "dir" THEN d ELSE 0
  <2>1. /\ w \in Inum \X Name
        /\ \A y \in Inum \X Name : y # w => NameOf'[y] = NameOf[y]
        /\ NameOf[w] = ents[d][m] /\ NameOf'[w] = v
        /\ \A y \in Inum : y # i => Parents'[y] = Parents[y]
    BY EntryMove
  <2>2. \A y \in Proc : y # p => Pend(y)' = Pend(y)
    BY <1>2 DEF Pend, Others
  <2>3. Parents[i] = t /\ Parents'[i] = 0
    <3>1. /\ Parents[i] = (IF Named(i) THEN ents[i][".."] ELSE 0)
          /\ Parents'[i] = (IF Named(i)' THEN ents'[i][".."] ELSE 0)
      BY DEF Parents, Named
    <3>2. CASE dinode[i].type = "dir"
      <4>1. /\ i # ROOTINO /\ ents[i][".."] = d
            /\ \A e \in Inum, x \in Name : ents[e][x] = i => e = d /\ x = m
        BY <1>0, <1>1, <3>2 DEF NameInv
      <4>2. Named(i) /\ ~Named(i)'
        BY <1>0, <1>6, <3>2, <4>1 DEF Named, EntryStep
      <4>. QED
        BY <3>1, <3>2, <4>1, <4>2
    <3>3. CASE dinode[i].type # "dir"
      <4>1. i # d /\ ".." \in Entry /\ ~Made(i)
        BY <3>3 DEF Entry, Made
      <4>2. ents[i][".."] = 0 /\ ents'[i][".."] = 0
        BY <1>0, <1>1, <4>1 DEF EntInv
      <4>. QED
        BY <3>1, <3>3, <4>2
    <3>. QED
      BY <3>2, <3>3
  <2>4. ASSUME NEW k \in Inum
        PROVE  dinode'[k].nlink = dinode[k].nlink
                + (Is(NameOf[w], k)' - Is(NameOf[w], k)) + (Is(Parents[i], k)' - Is(Parents[i], k))
                + (Is(Pend(p), k)' - Is(Pend(p), k))
    <3>1. k # 0 /\ dinode[k].nlink \in Int /\ \A x : Is(x, k) \in {0, 1}
      BY <1>1 DEF Inum, DiskType, Dinode, Is
    <3>2. /\ Is(NameOf[w], k)' = Is(v, k) /\ Is(NameOf[w], k) = Is(ents[d][m], k)
          /\ Is(Parents[i], k)' = 0 /\ Is(Parents[i], k) = Is(t, k)
          /\ Is(Pend(p), k)' \in {0, 1}
      BY <2>1, <2>3, <3>1 DEF Is
    <3>3. Is(t, k) = IF dinode[i].type = "dir" THEN Is(d, k) ELSE 0
      BY <3>1 DEF Is
    <3>4. dinode'[k].nlink = dinode[k].nlink + (Is(v, k) - Is(ents[d][m], k))
            - (IF dinode[i].type = "dir" THEN Is(d, k) ELSE 0) + (Is(Pend(p), k)' - Is(Pend(p), k))
      BY DEF EntryLinks
    <3>. HIDE DEF w, t
    <3>. QED
      BY <3>1, <3>2, <3>3, <3>4
  <2>5. lost' = lost
    OBVIOUS
  <2>. HIDE DEF w, t
  <2>. QED
    BY <1>1, <2>1, <2>2, <2>4, <2>5, CountSum
<1>11. UseInv'
  <2>1. UsesKept
    <3>1. ASSUME NEW q \in Proc, q # p, NEW k \in Inum, Uses(q, k)'
          PROVE  Uses(q, k)
      BY <1>2, <3>1 DEF Uses, Others, Second, Iputting
    <3>2. ASSUME NEW k \in Inum, Uses(p, k)'
          PROVE  ~Vacant(k)
      <4>1. k \in {cwd[p], n, a, b} /\ k # 0
        BY <1>2, <3>2 DEF Uses, Iputting, First, Inum
      <4>2. InUse(cwd[p])
        BY PointersInUse
      <4>. QED
        BY <4>1, <4>2 DEF InUse
    <3>. QED
      BY <3>1, <3>2 DEF UsesKept, FileIp
  <2>2. ASSUME NEW k \in Inum, Vacant(k)
        PROVE  dinode'[k].nlink = dinode[k].nlink
    <3>1. k # d /\ k # i /\ k # 0 /\ Pend(p) # k
      BY <1>6, <2>2, VacantFacts DEF Inum
    <3>2. Pend(p)' # k
      <4>1. Pend(p)' \in {n, 0}
        BY <1>2 DEF Pend
      <4>. QED
        BY <2>2, <3>1, <4>1 DEF InUse
    <3>3. v # k /\ ents[d][m] # k
      BY <3>1 DEF EntryStep
    <3>4. dinode[k].nlink \in Int
      BY <1>1 DEF DiskType, Dinode
    <3>5. dinode'[k].nlink = dinode[k].nlink + (Is(v, k) - Is(ents[d][m], k))
            - (IF dinode[i].type = "dir" THEN Is(d, k) ELSE 0) + (Is(Pend(p), k)' - Is(Pend(p), k))
      BY DEF EntryLinks
    <3>. QED
      BY <3>1, <3>2, <3>3, <3>4, <3>5 DEF Is
  <2>. QED
    BY <1>4, <2>1, <2>2, QuietUse
<1>12. RowInv'
  <2>1. ASSUME NEW q \in Proc, q # p, pc[q] \in {"unlink", "create_new"}
        PROVE  ents'[dp[q]] = ents[dp[q]]
    <3>1. dp[q] \in Inum
      BY <1>1, <2>1, Parts DEF PtrInv, PtrRow, ProcType
    <3>. QED
      BY <1>0, <2>1, <3>1
  <2>2. \A q \in Proc : q # p => Row(q)'
    BY <1>0, <1>1, <1>2, <2>1, OtherRows
  <2>. QED
    BY <2>2 DEF RowInv
<1>. QED
  BY <1>5, <1>7, <1>8, <1>9, <1>10, <1>11, <1>12 DEF TreeInv

\* unlink() erases the entry.
LEMMA unlink_erasedTree ==
    ASSUME IInv, TreeInv, NEW p \in Proc, unlink_entry(p),
           ~(Cur(ip[p]).type = "dir" /\ ~isdirempty(ip[p]))
    PROVE  TreeInv'
<1>1. PICK i \in Inum, d \in Inum : i = ip[p] /\ d = dp[p]
  BY UnlinkFacts
<1>2. PICK m \in Name : m = Name1(p)
  BY UnlinkFacts
<1>. DEFINE dr == IF dinode[i].type = "dir" THEN [dinode[d] EXCEPT !.nlink = @ - 1] ELSE dinode[d]
<1>3. ProcType /\ DiskType /\ Row(p) /\ LockInv
  BY Parts DEF TreeInv, RowInv
<1>4. /\ pc[p] = "unlink" /\ puts[p] = <<>> /\ ~panicked /\ pc[p] # "create_new" /\ Pend(p) = 0
      /\ InUse(i) /\ InUse(d) /\ InUse(0) /\ panicked' = FALSE /\ UNCHANGED <<lost, cwd, file>>
      /\ dinode[d].type = "dir" /\ ents[d][m] = i /\ lock[d] = p /\ i # d /\ call[p].op # "link"
  BY <1>1, <1>2, UnlinkFacts
<1>5. Cur(ip[p]) = dinode[i] /\ inode[dp[p]] = dinode[d]
  BY <1>1, UnlinkFacts
<1>6. /\ dinode' = [dinode EXCEPT ![d] = dr]
      /\ ents' = [ents EXCEPT ![d][m] = 0]
      /\ dp' = [dp EXCEPT ![p] = 0] /\ Put(p, <<d>>)
      /\ pc' = [pc EXCEPT ![p] = "unlinked"] /\ UNCHANGED <<call, path, ip>>
  BY <1>1, <1>2, <1>5 DEF unlink_entry, Goto
<1>7. Step(p, "unlinked", 0, i, d, 0)
  BY <1>1, <1>3, <1>4, <1>6, PutEntries, Moves DEF Step, Move, PCs
<1>8. pc'[p] = "unlinked" /\ ip'[p] = i
  BY <1>1, <1>3, <1>6 DEF ProcType
<1>9. Row(p)' /\ Pend(p)' = i
  BY <1>3, <1>4, <1>6, <1>8 DEF Row, LinkRow, EntRow, Climbs, Pend
<1>10. /\ \A k \in Inum, x \in Name : ents'[k][x] = IF k = d /\ x = m THEN 0 ELSE ents[k][x]
       /\ \A k \in Inum : k # d => ents'[k] = ents[k]
       /\ ents'[d]["."] = ents[d]["."] /\ ents'[d][".."] = ents[d][".."]
  <2>1. Name \subseteq Entry /\ "." \in Entry /\ ".." \in Entry /\ m # "." /\ m # ".."
    BY InodeAssumption DEF Entry
  <2>. QED
    BY <1>3, <1>6, <2>1 DEF DiskType
<1>11. EntryStep(d, m, i, 0)
  BY <1>4, <1>10 DEF EntryStep
<1>12. dr.type = dinode[d].type /\ dr.nlink = dinode[d].nlink - (IF dinode[i].type = "dir" THEN 1 ELSE 0)
  BY <1>3 DEF DiskType, Dinode
<1>. HIDE DEF dr
<1>13. dinode'[d] = dr /\ \A k \in Inum : k # d => dinode'[k] = dinode[k]
  <2>1. dinode' = [dinode EXCEPT ![d] = dr] /\ dinode \in [Inum -> Dinode]
    BY <1>3, <1>6 DEF DiskType
  <2>. QED
    BY <2>1
<1>14. \A k \in Inum : dinode'[k].type = dinode[k].type
  BY <1>12, <1>13
<1>15. ASSUME NEW k \in Inum
       PROVE  dinode'[k].nlink = dinode[k].nlink + (Is(0, k) - Is(ents[d][m], k))
                - (IF dinode[i].type = "dir" THEN Is(d, k) ELSE 0) + (Is(Pend(p), k)' - Is(Pend(p), k))
  <2>1. k # 0 /\ dinode[k].nlink \in Int
    BY <1>3 DEF Inum, DiskType, Dinode
  <2>2. /\ Is(0, k) = 0 /\ Is(ents[d][m], k) = Is(i, k) /\ Is(i, k) \in {0, 1}
        /\ Is(Pend(p), k)' = Is(i, k) /\ Is(Pend(p), k) = 0
        /\ Is(d, k) = IF k = d THEN 1 ELSE 0
    BY <1>4, <1>9, <2>1 DEF Is
  <2>3. CASE k = d
    BY <1>12, <1>13, <2>1, <2>2, <2>3
  <2>4. CASE k # d
    BY <1>13, <2>1, <2>2, <2>4
  <2>. QED
    BY <2>3, <2>4
<1>16. \A q \in Proc : q # p /\ pc[q] \in {"unlink", "create_new"} => dp[q] # d
  BY <1>3, <1>4 DEF LockInv, Holds
<1>17. EntryLinks(p, d, m, i, 0)
  BY <1>4, <1>10, <1>14, <1>15, <1>16 DEF EntryLinks
<1>. QED
  BY <1>4, <1>7, <1>9, <1>11, <1>17, EntryTree

\* unlink() with both inodes locked.
LEMMA unlink_entryTree ==
    ASSUME IInv, TreeInv, NEW p \in Proc, unlink_entry(p)
    PROVE  TreeInv'
  BY unlink_refusedTree, unlink_erasedTree

\* link() makes its entry.
LEMMA link_madeTree ==
    ASSUME IInv, TreeInv, NEW p \in Proc, link_entry(p), ents[dp[p]][Name1(p)] = 0
    PROVE  TreeInv'
<1>1. /\ pc[p] = "parent" /\ puts[p] = <<>> /\ ~panicked /\ call[p].op = "link"
      /\ dp[p] \in Inum /\ ip[p] \in Inum /\ lock[dp[p]] = None /\ dinode[dp[p]].type = "dir"
  BY ParentFacts DEF link_entry
<1>2. PICK i \in Inum, d \in Inum : i = ip[p] /\ d = dp[p]
  BY <1>1
<1>3. ProcType /\ DiskType /\ Row(p) /\ LockInv
  BY Parts DEF TreeInv, RowInv
<1>4. InUse(d) /\ InUse(0) /\ InUse(i) /\ pc[p] # "create_new"
  BY <1>1, <1>2, PointersInUse
<1>5. Name1(p) \in Name /\ ents[d][Name1(p)] = 0
  <2>1. Name1(p) \in Entry /\ Name1(p) # ".." /\ ents[d][Name1(p)] = 0
    BY <1>1, <1>2, LastName DEF DirPCs
  <2>2. Made(d) /\ d # 0
    BY <1>1, <1>2, <1>4 DEF InUse, Vacant, Made, Inum
  <2>3. ents[d]["."] = d
    BY <2>2 DEF TreeInv, EntInv
  <2>. QED
    BY <2>1, <2>2, <2>3 DEF Entry
<1>6. PICK m \in Name : m = Name1(p)
  BY <1>5
<1>7. Return(p, <<d, i>>) /\ ents' = [ents EXCEPT ![d][m] = i]
  BY <1>2, <1>6 DEF link_entry, dirlookup, dirlink
<1>7a. UNCHANGED <<dinode, panicked>> /\ UNCHANGED <<lost, cwd, file>>
  BY DEF link_entry, filevars
<1>8. Step(p, "run", 0, 0, d, i)
  <2>1. i # 0 /\ d # 0
    BY DEF Inum
  <2>. QED
    BY <1>1, <1>3, <1>7, <2>1, Moves DEF Step, PCs
<1>9. pc'[p] = "run" /\ ip'[p] = 0 /\ call'[p] = NoCall /\ path'[p] = <<>>
  BY <1>3, <1>7 DEF Return, ProcType
<1>10. Row(p)' /\ Pend(p)' = 0 /\ Pend(p) = i
  BY <1>1, <1>2, <1>9 DEF Row, LinkRow, EntRow, Climbs, Pend, NoCall
<1>11. /\ \A k \in Inum, x \in Name : ents'[k][x] = IF k = d /\ x = m THEN i ELSE ents[k][x]
       /\ \A k \in Inum : k # d => ents'[k] = ents[k]
       /\ ents'[d]["."] = ents[d]["."] /\ ents'[d][".."] = ents[d][".."]
  <2>1. Name \subseteq Entry /\ "." \in Entry /\ ".." \in Entry /\ m # "." /\ m # ".."
    BY InodeAssumption DEF Entry
  <2>. QED
    BY <1>3, <1>7, <2>1 DEF DiskType
<1>12. EntryStep(d, m, i, i)
  BY <1>5, <1>6, <1>11 DEF EntryStep
<1>13. dinode[i].type # "dir" /\ dinode[d].type = "dir"
  <2>1. ip[p] # 0
    BY <1>1 DEF Inum
  <2>. QED
    BY <1>1, <1>2, <1>3, <2>1 DEF Row, LinkRow
<1>14. ASSUME NEW k \in Inum
       PROVE  dinode'[k].nlink = dinode[k].nlink + (Is(i, k) - Is(ents[d][m], k))
                - (IF dinode[i].type = "dir" THEN Is(d, k) ELSE 0) + (Is(Pend(p), k)' - Is(Pend(p), k))
  <2>1. k # 0 /\ dinode[k].nlink \in Int
    BY <1>3 DEF Inum, DiskType, Dinode
  <2>2. /\ Is(ents[d][m], k) = 0 /\ Is(i, k) \in {0, 1}
        /\ Is(Pend(p), k)' = 0 /\ Is(Pend(p), k) = Is(i, k)
    BY <1>5, <1>6, <1>10, <2>1 DEF Is
  <2>. QED
    BY <1>7a, <1>13, <2>1, <2>2
<1>15. \A q \in Proc : q # p /\ pc[q] \in {"unlink", "create_new"} => dp[q] # d
  BY <1>1, <1>2, <1>3, InodeAssumption DEF LockInv, Holds
<1>16. panicked' = FALSE
  BY <1>1, <1>7a, Alive
<1>17. \A k \in Inum : dinode'[k].type = dinode[k].type
  BY <1>7a
<1>18. EntryLinks(p, d, m, i, i)
  BY <1>11, <1>13, <1>14, <1>15, <1>17 DEF EntryLinks
<1>. QED
  BY <1>4, <1>7a, <1>8, <1>10, <1>12, <1>13, <1>16, <1>18, EntryTree

\* link() in the directory it found.
LEMMA link_entryTree ==
    ASSUME IInv, TreeInv, NEW p \in Proc, link_entry(p)
    PROVE  TreeInv'
  BY link_nameTree, link_madeTree

-----------------------------------------------------------------------------
(***************************************************************************)
(* create() of a new inode.                                                *)
(***************************************************************************)
\* create() starts on a new name: what it keeps, whether it gets an inode or not.
LEMMA NewRows ==
    ASSUME IInv, TreeInv, NEW p \in Proc, NEW n, Step(p, "create_new", dp[p], n, 0, 0),
           create(p), ents[dp[p]][Name1(p)] = 0, UNCHANGED <<ents, cwd, file, call, path>>,
           \A j \in Inum : dinode[j].type # "none" => dinode'[j].type = dinode[j].type,
           \A j \in Inum : dinode'[j].nlink = dinode[j].nlink, lost' = lost,
           \A j \in Inum : Vacant(j)' <=> Vacant(j)
    PROVE  RowInv' /\ CountInv' /\ UseInv'
<1>1. DiskType /\ ProcType /\ Row(p) /\ RowInv /\ CountInv
  BY Parts DEF TreeInv, RowInv
<1>2. /\ pc[p] = "parent" /\ puts[p] = <<>> /\ ~panicked /\ call[p].op # "link" /\ dp[p] \in Inum
      /\ dinode[dp[p]].type = "dir"
  BY ParentFacts DEF create
<1>3. PICK d \in Inum : d = dp[p]
  BY <1>2
<1>4. /\ Others(p) /\ pc'[p] = "create_new" /\ dp'[p] = d /\ ip'[p] = n
      /\ First(p)' = 0 /\ Second(p)' = 0
  BY <1>1, <1>3, StepRow
<1>5. Name1(p) \in Name
  <2>1. Name1(p) \in Entry /\ Name1(p) # ".." /\ ~Vacant(d)
    BY <1>2, <1>3, LastName DEF DirPCs
  <2>2. Made(d) /\ d # 0
    BY <1>2, <1>3, <2>1 DEF Vacant, Made, Inum
  <2>3. ents[d]["."] = d
    BY <2>2 DEF TreeInv, EntInv
  <2>. QED
    BY <1>3, <2>1, <2>2, <2>3 DEF Entry
<1>6. Row(p)' /\ Pend(p)' = 0 /\ Pend(p) = 0
  <2>1. Name1(p)' = Name1(p) /\ call'[p] = call[p] /\ path'[p] = path[p]
    BY DEF Name1
  <2>. QED
    BY <1>1, <1>2, <1>3, <1>4, <1>5, <2>1 DEF Row, LinkRow, EntRow, Pend
<1>7. RowInv'
  <2>1. \A q \in Proc : q # p /\ pc[q] \in {"unlink", "create_new"} => ents'[dp[q]] = ents[dp[q]]
    OBVIOUS
  <2>2. \A q \in Proc : q # p => Row(q)'
    BY <1>1, <1>2, <1>4, <2>1, OtherRows
  <2>. QED
    BY <1>6, <2>2 DEF RowInv
<1>8. CountInv'
  <2>1. \A y \in Proc : y # p => Pend(y)' = Pend(y)
    BY <1>4 DEF Pend, Others
  <2>2. ASSUME NEW k \in Inum
        PROVE  dinode'[k].nlink = dinode[k].nlink + (Is(Pend(p), k)' - Is(Pend(p), k))
    <3>1. Is(Pend(p), k)' = Is(Pend(p), k) /\ Is(Pend(p), k) \in {0, 1} /\ dinode[k].nlink \in Int
      BY <1>1, <1>6 DEF Is, DiskType, Dinode
    <3>. QED
      BY <3>1
  <2>. QED
    BY <1>1, <2>1, <2>2, QuietCount
<1>9. UsesKept
  <2>1. ASSUME NEW q \in Proc, q # p, NEW k \in Inum, Uses(q, k)'
        PROVE  Uses(q, k)
    BY <1>4, <2>1 DEF Uses, Others, Second, Iputting
  <2>2. ASSUME NEW k \in Inum, Uses(p, k)'
        PROVE  ~Vacant(k)
    <3>1. k \in {cwd[p], d} /\ k # 0
      BY <1>4, <2>2 DEF Uses, Iputting, First, Inum
    <3>2. InUse(cwd[p]) /\ InUse(d)
      BY <1>3, PointersInUse
    <3>. QED
      BY <3>1, <3>2 DEF InUse
  <2>. QED
    BY <2>1, <2>2 DEF UsesKept, FileIp
<1>10. UseInv'
  BY <1>9, QuietUse
<1>. QED
  BY <1>7, <1>8, <1>10

\* create() finds no free inode: ialloc() panics.
LEMMA create_fullTree ==
    ASSUME IInv, TreeInv, NEW p \in Proc, create(p), ents[dp[p]][Name1(p)] = 0, FreeInodes = {}
    PROVE  TreeInv'
<1>1. ProcType
  BY Parts
<1>2. /\ pc[p] = "parent" /\ puts[p] = <<>> /\ ~panicked /\ call[p].op # "link" /\ dp[p] \in Inum
      /\ ip[p] = 0
  BY ParentFacts DEF create
<1>3. /\ pc' = [pc EXCEPT ![p] = "create_new"] /\ UNCHANGED <<puts, dp, dinode, ip>>
      /\ UNCHANGED <<ents, cwd, file, call, path>> /\ lost' = lost
  BY DEF create, dirlookup, Goto, filevars
<1>4. Step(p, "create_new", dp[p], 0, 0, 0)
  BY <1>1, <1>2, <1>3, Moves DEF Step, Move, PCs
<1>5. SameTree
  <2>1. /\ Others(p) /\ pc'[p] = "create_new" /\ ip'[p] = 0
        /\ \A q \in Proc : \A k, at : at # "test" => (Iputting(q, k, at)' <=> Iputting(q, k, at))
    BY <1>1, <1>4, StepRow
  <2>2. ASSUME NEW q \in Proc, NEW j \in Inum
        PROVE  Fresh(q, j)' <=> Fresh(q, j)
    <3>1. j # 0
      BY DEF Inum
    <3>. QED
      BY <1>2, <2>1, <3>1 DEF Fresh, Others
  <2>. QED
    BY <1>3, <2>1, <2>2 DEF SameTree
<1>6. /\ \A i \in Inum : Vacant(i)' <=> Vacant(i)
      /\ FreshInv' /\ EntInv' /\ NameInv' /\ RootInv'
  BY <1>5, QuietTree
<1>7. RowInv' /\ CountInv' /\ UseInv'
  <2>1. \A j \in Inum : dinode'[j].type = dinode[j].type /\ dinode'[j].nlink = dinode[j].nlink
    BY <1>3
  <2>. QED
    BY <1>3, <1>4, <1>6, <2>1, NewRows
<1>8. FreeInodes' = {}
  BY <1>3 DEF FreeInodes
<1>. QED
  BY <1>6, <1>7, <1>8 DEF TreeInv

\* create() allocates an inode.
LEMMA create_freshTree ==
    ASSUME IInv, TreeInv, NEW p \in Proc, create(p), ents[dp[p]][Name1(p)] = 0, FreeInodes # {}
    PROVE  TreeInv'
<1>1. ProcType /\ DiskType /\ LockInv /\ CacheInv
  BY Parts
<1>2. /\ pc[p] = "parent" /\ puts[p] = <<>> /\ ~panicked /\ call[p].op # "link" /\ dp[p] \in Inum
      /\ ip[p] = 0
  BY ParentFacts DEF create
<1>3. PICK n \in Inum : n = ialloc /\ dinode[n].type = "none"
  BY <1>1, IallocFacts
<1>4. /\ pc' = [pc EXCEPT ![p] = "create_new"] /\ ip' = [ip EXCEPT ![p] = n] /\ UNCHANGED <<puts, dp>>
      /\ UNCHANGED <<ents, cwd, file, call, path>> /\ lost' = lost /\ ~panicked'
  BY <1>3 DEF create, dirlookup, Goto, filevars
<1>5. /\ dinode'[n].type # "none" /\ dinode'[n].nlink = 0
      /\ \A k \in Inum : k # n => dinode'[k] = dinode[k]
  <2>. DEFINE t == CASE call[p].op = "open" -> "file"
                     [] call[p].op = "mkdir" -> "dir"
                     [] OTHER -> "device"
              r == [Unused EXCEPT !.type = t]
  <2>1. dinode' = [dinode EXCEPT ![n] = r]
    BY <1>3 DEF create, dirlookup
  <2>2. t # "none"
    OBVIOUS
  <2>. HIDE DEF t
  <2>3. r.type # "none" /\ r.nlink = 0
    BY <2>2 DEF Unused
  <2>. HIDE DEF r
  <2>. QED
    BY <1>1, <2>1, <2>3 DEF DiskType
<1>6. Step(p, "create_new", dp[p], n, 0, 0)
  BY <1>1, <1>2, <1>4, Moves DEF Step, Move, PCs
<1>7. /\ Others(p) /\ pc'[p] = "create_new" /\ ip'[p] = n
      /\ \A q \in Proc : \A k, at : at # "test" => (Iputting(q, k, at)' <=> Iputting(q, k, at))
  BY <1>1, <1>6, StepRow
<1>8. /\ \A k \in Inum : Fresh(p, k)' <=> k = n
      /\ \A k \in Inum : ~Fresh(p, k)
      /\ \A q \in Proc, k \in Inum : q # p => (Fresh(q, k)' <=> Fresh(q, k))
      /\ \A q \in Proc : ~Fresh(q, n)
  <2>1. \A q \in Proc : ~Fresh(q, n)
    BY <1>3 DEF TreeInv, FreshInv
  <2>. QED
    BY <1>2, <1>7, <2>1 DEF Fresh, Others
<1>9. \A q \in Proc : ~Iputting(q, n, "free")
  <2>. SUFFICES ASSUME NEW q \in Proc, Iputting(q, n, "free") PROVE FALSE
    OBVIOUS
  <2>1. lock[n] = q
    BY <1>1 DEF LockInv, Holds
  <2>2. valid[n] /\ ~Copy(n)
    BY <1>1, <1>2, <1>3, <2>1, InodeAssumption DEF CacheInv, Copy
  <2>3. PICK q2 \in Proc : Iputting(q2, n, "unlock")
    BY <1>1, <2>2 DEF CacheInv
  <2>4. q2 = q
    BY <1>1, <2>1, <2>3 DEF LockInv, Holds
  <2>. QED
    BY <2>3, <2>4 DEF Iputting
<1>10. /\ \A k \in Inum : Vacant(k)' <=> Vacant(k)
       /\ \A k \in Inum : Made(k)' <=> Made(k)
  <2>1. ASSUME NEW k \in Inum
        PROVE  (Vacant(k)' <=> Vacant(k)) /\ (Made(k)' <=> Made(k))
    <3>1. CASE k = n
      BY <1>3, <1>8, <3>1 DEF Vacant, Made
    <3>2. CASE k # n
      <4>1. \A q \in Proc : /\ Fresh(q, k)' <=> Fresh(q, k)
                            /\ Iputting(q, k, "free")' <=> Iputting(q, k, "free")
        BY <1>7, <1>8, <3>2
      <4>. QED
        BY <1>5, <3>2, <4>1 DEF Vacant, Made
    <3>. QED
      BY <3>1, <3>2
  <2>. QED
    BY <2>1
<1>11. FreshInv'
  <2>1. ASSUME NEW q \in Proc, NEW k \in Inum, Fresh(q, k)'
        PROVE  /\ dinode'[k].type # "none"
               /\ \A q2 \in Proc : ~Iputting(q2, k, "free")' /\ (Fresh(q2, k)' => q2 = q)
    <3>1. CASE q = p
      <4>1. k = n
        BY <1>8, <2>1, <3>1
      <4>. QED
        BY <1>5, <1>7, <1>8, <1>9, <3>1, <4>1
    <3>2. CASE q # p
      <4>1. Fresh(q, k) /\ k # n
        BY <1>8, <2>1, <3>2
      <4>2. /\ dinode[k].type # "none"
            /\ \A q2 \in Proc : ~Iputting(q2, k, "free") /\ (Fresh(q2, k) => q2 = q)
        BY <4>1 DEF TreeInv, FreshInv
      <4>. QED
        BY <1>5, <1>7, <1>8, <4>1, <4>2
    <3>. QED
      BY <3>1, <3>2
  <2>. QED
    BY <2>1 DEF FreshInv
<1>12. EntInv' /\ NameInv' /\ RootInv'
  <2>1. EntInv /\ NameInv /\ RootInv
    BY DEF TreeInv
  <2>2. Vacant(n)
    BY <1>3 DEF Vacant
  <2>3. n # ROOTINO /\ (\A d \in Inum, x \in Name : ents[d][x] # n) /\ ROOTINO \in Inum
    BY <2>2, VacantFacts, InodeAssumption DEF ROOTINO, Inum
  <2>4. EntInv'
    BY <1>4, <1>10, <2>1 DEF EntInv
  <2>5. NameInv'
    BY <1>4, <1>5, <2>1, <2>3 DEF NameInv
  <2>. QED
    BY <1>4, <1>5, <2>1, <2>3, <2>4, <2>5 DEF RootInv
<1>13. RowInv' /\ CountInv' /\ UseInv'
  <2>1. \A j \in Inum : /\ dinode[j].type # "none" => dinode'[j].type = dinode[j].type
                        /\ dinode'[j].nlink = dinode[j].nlink
    <3>1. Vacant(n)
      BY <1>3 DEF Vacant
    <3>2. dinode[n].nlink = 0
      BY <3>1 DEF TreeInv, UseInv
    <3>. QED
      BY <1>3, <1>5, <3>2
  <2>. QED
    BY <1>4, <1>6, <1>10, <2>1, NewRows
<1>. QED
  BY <1>4, <1>11, <1>12, <1>13 DEF TreeInv

\* create().
LEMMA createTree ==
    ASSUME IInv, TreeInv, NEW p \in Proc, create(p)
    PROVE  TreeInv'
  BY create_nameTree, create_fullTree, create_freshTree

\* The entries that create() makes.
Dotted(i, d, dir, dots) ==
    dots = IF dir THEN [ents[i] EXCEPT !["."] = i, ![".."] = d] ELSE ents[i]
Filled(i, d, m, dots) == ents' = [dirlink(d, m, i) EXCEPT ![i] = dots]

\* The entries after create() has filled in the new inode and its directory.
LEMMA NewEntries ==
    ASSUME DiskType, NEW i \in Inum, NEW d \in Inum, i # d, NEW m \in Name, NEW dir \in BOOLEAN,
           NEW dots, Dotted(i, d, dir, dots), Filled(i, d, m, dots)
    PROVE  /\ \A k \in Inum, x \in Name : ents'[k][x] = IF k = d /\ x = m THEN i ELSE ents[k][x]
           /\ \A k \in Inum : k # d /\ k # i => ents'[k] = ents[k]
           /\ ents'[d]["."] = ents[d]["."] /\ ents'[d][".."] = ents[d][".."]
           /\ dir => ents'[i]["."] = i /\ ents'[i][".."] = d
           /\ ~dir => ents'[i] = ents[i]
<1>1. ents \in [Inum -> [Entry -> Inum \cup {0}]]
  BY DEF DiskType
<1>2. Name \subseteq Entry /\ "." \in Entry /\ ".." \in Entry /\ "." \notin Name /\ ".." \notin Name
  BY InodeAssumption DEF Entry
<1>3. PICK g : g = dirlink(d, m, i)
  OBVIOUS
<1>4. /\ DOMAIN g = Inum /\ \A k \in Inum : k # d => g[k] = ents[k]
      /\ \A x \in Entry : g[d][x] = IF x = m THEN i ELSE ents[d][x]
  BY <1>1, <1>3 DEF dirlink
<1>5. ents'[i] = dots /\ \A k \in Inum : k # i => ents'[k] = g[k]
  BY <1>3, <1>4 DEF Filled
<1>6. PICK e : e = ents[i] /\ e \in [Entry -> Inum \cup {0}]
  BY <1>1
<1>7. dots = IF dir THEN [e EXCEPT !["."] = i, ![".."] = d] ELSE e
  BY <1>6 DEF Dotted
<1>8. /\ \A x \in Name : dots[x] = e[x]
      /\ dir => dots["."] = i /\ dots[".."] = d
      /\ ~dir => dots = e
  BY <1>2, <1>6, <1>7
<1>9. ASSUME NEW k \in Inum, NEW x \in Name
      PROVE  ents'[k][x] = IF k = d /\ x = m THEN i ELSE ents[k][x]
  <2>1. CASE k = i
    BY <1>5, <1>6, <1>8, <2>1
  <2>2. CASE k # i
    <3>1. ents'[k] = g[k] /\ x \in Entry
      BY <1>2, <1>5, <2>2
    <3>2. g[k][x] = IF k = d /\ x = m THEN i ELSE ents[k][x]
      BY <1>4, <3>1
    <3>. QED
      BY <3>1, <3>2
  <2>. QED
    BY <2>1, <2>2
<1>. QED
  BY <1>2, <1>4, <1>5, <1>6, <1>8, <1>9

\* What create() does to the disk when it enters a new inode.
Entered(p, i, d, m) ==
    /\ \A k \in Inum : dinode'[k].type = dinode[k].type
    /\ dinode'[i].nlink = 1
    /\ dinode'[d].nlink = dinode[d].nlink + (IF dinode[i].type = "dir" THEN 1 ELSE 0)
    /\ \A k \in Inum : k # i /\ k # d => dinode'[k].nlink = dinode[k].nlink
    /\ \A k \in Inum, x \in Name : ents'[k][x] = IF k = d /\ x = m THEN i ELSE ents[k][x]
    /\ \A k \in Inum : k # d /\ k # i => ents'[k] = ents[k]
    /\ ents'[d]["."] = ents[d]["."] /\ ents'[d][".."] = ents[d][".."]
    /\ dinode[i].type = "dir" => ents'[i]["."] = i /\ ents'[i][".."] = d
    /\ dinode[i].type # "dir" => ents'[i] = ents[i]

\* What create() has allocated, and where it enters it.
LEMMA NewFacts ==
    ASSUME IInv, TreeInv, NEW p \in Proc, create_new(p)
    PROVE  /\ pc[p] = "create_new" /\ puts[p] = <<>> /\ ~panicked
           /\ ip[p] \in Inum /\ dp[p] \in Inum /\ ip[p] # dp[p] /\ lock[dp[p]] = p
           /\ Cur(ip[p]) = dinode[ip[p]] /\ inode[dp[p]] = dinode[dp[p]]
           /\ Name1(p) \in Name /\ ents[dp[p]][Name1(p)] = 0
           /\ Fresh(p, ip[p]) /\ Vacant(ip[p]) /\ dinode[ip[p]].type # "none"
           /\ InUse(dp[p]) /\ dinode[dp[p]].type = "dir" /\ call[p].op # "link"
<1>1. ProcType /\ PtrRow(p) /\ PinRow(p) /\ LockInv /\ Row(p)
  BY Parts DEF PtrInv, PinInv, TreeInv, RowInv
<1>2. /\ pc[p] = "create_new" /\ puts[p] = <<>> /\ ~panicked
      /\ ip[p] \in Inum /\ lock[ip[p]] = None /\ dp[p] \in Inum /\ lock[dp[p]] = p /\ ip[p] # dp[p]
      /\ dinode[dp[p]].type = "dir"
  BY <1>1, InodeAssumption DEF create_new, At, Free, PtrRow, PinRow, DirPCs, ProcType, LockInv, Holds
<1>3. Cur(ip[p]) = dinode[ip[p]] /\ inode[dp[p]] = dinode[dp[p]]
  BY <1>2, CacheFacts, InodeAssumption DEF Copy
<1>4. Name1(p) \in Name /\ ents[dp[p]][Name1(p)] = 0
  BY <1>1, <1>2 DEF Row, EntRow
<1>5. Fresh(p, ip[p]) /\ Vacant(ip[p])
  BY <1>2 DEF Fresh, Vacant
<1>6. dinode[ip[p]].type # "none"
  BY <1>2, <1>5 DEF TreeInv, FreshInv
<1>7. InUse(dp[p]) /\ call[p].op # "link"
  BY <1>2, PointersInUse, PendFacts
<1>. QED
  BY <1>2, <1>3, <1>4, <1>5, <1>6, <1>7

\* The step in these terms.
LEMMA NewEntered ==
    ASSUME IInv, TreeInv, NEW p \in Proc, create_new(p)
    PROVE  Entered(p, ip[p], dp[p], Name1(p))
<1>1. PICK i \in Inum, d \in Inum : i = ip[p] /\ d = dp[p]
  BY NewFacts
<1>2. PICK m \in Name : m = Name1(p)
  BY NewFacts
<1>3. DiskType /\ i # d /\ Cur(ip[p]) = dinode[i] /\ inode[dp[p]] = dinode[d]
  BY <1>1, NewFacts, Parts
<1>. DEFINE r == [dinode[i] EXCEPT !.nlink = 1]
            dr == IF r.type = "dir" THEN [dinode[d] EXCEPT !.nlink = @ + 1] ELSE dinode[d]
            dots == IF r.type = "dir" THEN [ents[i] EXCEPT !["."] = i, ![".."] = d] ELSE ents[i]
<1>4. /\ dinode' = [dinode EXCEPT ![i] = r, ![d] = dr]
      /\ ents' = [dirlink(d, m, i) EXCEPT ![i] = dots]
  BY <1>1, <1>2, <1>3 DEF create_new
<1>5. r.type = dinode[i].type /\ r.nlink = 1
  BY <1>3 DEF DiskType, Dinode
<1>6. /\ dr.type = dinode[d].type
      /\ dr.nlink = dinode[d].nlink + (IF dinode[i].type = "dir" THEN 1 ELSE 0)
  <2>1. PICK t : t = dinode[i].type /\ r.type = t
    BY <1>5
  <2>2. dr = IF t = "dir" THEN [dinode[d] EXCEPT !.nlink = @ + 1] ELSE dinode[d]
    BY <2>1
  <2>3. dinode[d] \in Dinode
    BY <1>3 DEF DiskType
  <2>4. dinode[d].nlink \in Int
    BY <2>3 DEF Dinode
  <2>. HIDE DEF dr, r
  <2>. QED
    BY <2>1, <2>2, <2>3, <2>4 DEF Dinode
<1>7. PICK dir \in BOOLEAN : dir <=> dinode[i].type = "dir"
  OBVIOUS
<1>8. Dotted(i, d, dir, dots) /\ Filled(i, d, m, dots)
  <2>1. dir <=> r.type = "dir"
    BY <1>5, <1>7
  <2>. HIDE DEF r
  <2>. QED
    BY <1>4, <2>1 DEF Dotted, Filled
<1>. HIDE DEF r, dr, dots
<1>9. /\ \A k \in Inum, x \in Name : ents'[k][x] = IF k = d /\ x = m THEN i ELSE ents[k][x]
      /\ \A k \in Inum : k # d /\ k # i => ents'[k] = ents[k]
      /\ ents'[d]["."] = ents[d]["."] /\ ents'[d][".."] = ents[d][".."]
      /\ dir => ents'[i]["."] = i /\ ents'[i][".."] = d
      /\ ~dir => ents'[i] = ents[i]
  BY <1>3, <1>8, NewEntries
<1>10. dinode'[i] = r /\ dinode'[d] = dr /\ \A k \in Inum : k # i /\ k # d => dinode'[k] = dinode[k]
  <2>1. dinode \in [Inum -> Dinode]
    BY <1>3 DEF DiskType
  <2>. QED
    BY <1>3, <1>4, <2>1
<1>11. \A k \in Inum : dinode'[k].type = dinode[k].type
  BY <1>5, <1>6, <1>10
<1>12. Entered(p, i, d, m)
  BY <1>5, <1>6, <1>7, <1>9, <1>10, <1>11 DEF Entered
<1>. QED
  BY <1>1, <1>2, <1>12

\* create() enters the new inode.
LEMMA create_newTree ==
    ASSUME IInv, TreeInv, NEW p \in Proc, create_new(p)
    PROVE  TreeInv'
<1>1. PICK i \in Inum, d \in Inum : i = ip[p] /\ d = dp[p]
  BY NewFacts
<1>2. PICK m \in Name : m = Name1(p)
  BY NewFacts
<1>3. /\ DiskType /\ ProcType /\ LockInv /\ Row(p)
      /\ UseInv /\ FreshInv /\ EntInv /\ NameInv /\ RootInv /\ RowInv /\ CountInv
  BY Parts DEF TreeInv, RowInv
<1>4. /\ pc[p] = "create_new" /\ puts[p] = <<>> /\ ~panicked /\ i # d /\ lock[d] = p
      /\ ents[d][m] = 0 /\ Fresh(p, i) /\ Vacant(i) /\ dinode[i].type # "none"
      /\ InUse(d) /\ dinode[d].type = "dir" /\ call[p].op # "link"
  BY <1>1, <1>2, NewFacts
<1>5. /\ \A k \in Inum : dinode'[k].type = dinode[k].type
      /\ dinode'[i].nlink = 1
      /\ dinode'[d].nlink = dinode[d].nlink + (IF dinode[i].type = "dir" THEN 1 ELSE 0)
      /\ \A k \in Inum : k # i /\ k # d => dinode'[k].nlink = dinode[k].nlink
      /\ \A k \in Inum, x \in Name : ents'[k][x] = IF k = d /\ x = m THEN i ELSE ents[k][x]
      /\ \A k \in Inum : k # d /\ k # i => ents'[k] = ents[k]
      /\ ents'[d]["."] = ents[d]["."] /\ ents'[d][".."] = ents[d][".."]
      /\ dinode[i].type = "dir" => ents'[i]["."] = i /\ ents'[i][".."] = d
      /\ dinode[i].type # "dir" => ents'[i] = ents[i]
  BY <1>1, <1>2, NewEntered DEF Entered
<1>6. /\ dp' = [dp EXCEPT ![p] = 0] /\ Put(p, <<d>>) /\ pc' = [pc EXCEPT ![p] = "created"]
      /\ UNCHANGED <<call, path, ip>> /\ UNCHANGED <<cwd, file, lost>> /\ panicked' = NoType(i)
  BY <1>1 DEF create_new, Goto, filevars
<1>7. panicked' = FALSE
  BY <1>4, <1>6 DEF NoType
<1>8. Step(p, "created", 0, i, d, 0)
  BY <1>1, <1>3, <1>4, <1>6, PutEntries, Moves DEF Step, Move, PCs
<1>9. /\ Others(p) /\ pc'[p] = "created" /\ dp'[p] = 0 /\ ip'[p] = i
      /\ First(p)' = d /\ Second(p)' = 0
      /\ \A q \in Proc : \A k, at : at # "test" => (Iputting(q, k, at)' <=> Iputting(q, k, at))
  BY <1>3, <1>8, StepRow
<1>10. /\ dinode[i].nlink = 0 /\ NumOf(Parents, i) = 0 /\ i # ROOTINO
       /\ \A e \in Inum, x \in Name : ents[e][x] # i
  BY <1>4, VacantFacts
<1>11. /\ \A q \in Proc : ~Iputting(q, i, "free") /\ (Fresh(q, i) => q = p)
       /\ \A k \in Inum : Fresh(p, k) => k = i
  BY <1>1, <1>3, <1>4 DEF FreshInv, Fresh
<1>12. /\ \A k \in Inum : ~Fresh(p, k)'
       /\ \A q \in Proc, k \in Inum : q # p => (Fresh(q, k)' <=> Fresh(q, k))
  BY <1>9 DEF Fresh, Others
<1>13. ~Vacant(i)' /\ \A k \in Inum : k # i => (Vacant(k)' <=> Vacant(k))
  <2>1. ~Vacant(i)'
    BY <1>4, <1>5, <1>9, <1>11, <1>12 DEF Vacant
  <2>2. ASSUME NEW k \in Inum, k # i
        PROVE  Vacant(k)' <=> Vacant(k)
    <3>1. \A q \in Proc : /\ Fresh(q, k)' <=> Fresh(q, k)
                          /\ Iputting(q, k, "free")' <=> Iputting(q, k, "free")
      BY <1>9, <1>11, <1>12, <2>2
    <3>. QED
      BY <1>5, <3>1 DEF Vacant
  <2>. QED
    BY <2>1, <2>2
<1>14. /\ Made(i)' <=> dinode[i].type = "dir"
       /\ ~Made(i) /\ Made(d)
       /\ \A k \in Inum : k # i => (Made(k)' <=> Made(k))
  <2>1. Made(i)' <=> dinode[i].type = "dir"
    BY <1>5, <1>11, <1>12 DEF Made
  <2>2. ASSUME NEW k \in Inum, k # i
        PROVE  Made(k)' <=> Made(k)
    <3>1. \A q \in Proc : Fresh(q, k)' <=> Fresh(q, k)
      BY <1>11, <1>12, <2>2
    <3>. QED
      BY <1>5, <3>1 DEF Made
  <2>3. ~Made(i) /\ Made(d)
    BY <1>4 DEF Made, InUse, Vacant, Inum
  <2>. QED
    BY <2>1, <2>2, <2>3
<1>15. \A x \in Entry : ents[i][x] = 0
  BY <1>3, <1>14 DEF EntInv
<1>16. FreshInv'
  <2>1. ASSUME NEW q \in Proc, NEW k \in Inum, Fresh(q, k)'
        PROVE  /\ dinode'[k].type # "none"
               /\ \A q2 \in Proc : ~Iputting(q2, k, "free")' /\ (Fresh(q2, k)' => q2 = q)
    <3>1. q # p /\ Fresh(q, k)
      BY <1>12, <2>1
    <3>2. /\ dinode[k].type # "none"
          /\ \A q2 \in Proc : ~Iputting(q2, k, "free") /\ (Fresh(q2, k) => q2 = q)
      BY <1>3, <3>1 DEF FreshInv
    <3>. QED
      BY <1>5, <1>9, <1>12, <3>2
  <2>. QED
    BY <2>1 DEF FreshInv
<1>17. EntInv'
  <2>1. ASSUME NEW k \in Inum
        PROVE  /\ Made(k)' => ents'[k]["."] = k
               /\ ~Made(k)' => \A x \in Entry : ents'[k][x] = 0
    <3>1. CASE k = i
      BY <1>5, <1>14, <1>15, <3>1
    <3>2. CASE k # i
      <4>1. /\ Made(k) => ents[k]["."] = k
            /\ ~Made(k) => \A x \in Entry : ents[k][x] = 0
        BY <1>3 DEF EntInv
      <4>. QED
        BY <1>5, <1>14, <3>2, <4>1
    <3>. QED
      BY <3>1, <3>2
  <2>. QED
    BY <2>1 DEF EntInv
<1>18. NameInv'
  <2>1. ASSUME NEW e \in Inum, NEW j \in Inum, NEW x \in Name, ents'[e][x] = j, dinode'[j].type = "dir"
        PROVE  /\ j # ROOTINO /\ ents'[j][".."] = e
               /\ \A f \in Inum, y \in Name : ents'[f][y] = j => f = e /\ y = x
    <3>1. dinode[j].type = "dir"
      BY <1>5, <2>1
    <3>2. CASE e = d /\ x = m
      <4>1. j = i
        BY <1>5, <2>1, <3>2
      <4>2. \A f \in Inum, y \in Name : ents'[f][y] = i => f = d /\ y = m
        BY <1>5, <1>10
      <4>. QED
        BY <1>5, <1>10, <3>1, <3>2, <4>1, <4>2
    <3>3. CASE ~(e = d /\ x = m)
      <4>1. ents[e][x] = j /\ j # i
        BY <1>5, <1>10, <2>1, <3>3
      <4>2. /\ j # ROOTINO /\ ents[j][".."] = e
            /\ \A f \in Inum, y \in Name : ents[f][y] = j => f = e /\ y = x
        BY <1>3, <3>1, <4>1 DEF NameInv
      <4>3. ents'[j][".."] = ents[j][".."]
        BY <1>5, <4>1
      <4>4. \A f \in Inum, y \in Name : ents'[f][y] = j => ents[f][y] = j
        BY <1>5, <4>1
      <4>. QED
        BY <4>2, <4>3, <4>4
    <3>. QED
      BY <3>2, <3>3
  <2>. QED
    BY <2>1 DEF NameInv
<1>19. RootInv'
  <2>1. ROOTINO \in Inum
    BY InodeAssumption DEF ROOTINO, Inum
  <2>2. ents'[ROOTINO][".."] = ents[ROOTINO][".."]
    BY <1>5, <1>10, <2>1
  <2>. QED
    BY <1>3, <1>5, <2>1, <2>2 DEF RootInv
<1>20. RowInv'
  <2>1. ASSUME NEW q \in Proc, q # p, pc[q] \in {"unlink", "create_new"}
        PROVE  ents'[dp[q]] = ents[dp[q]]
    <3>1. dp[q] \in Inum
      BY <1>3, <2>1, Parts DEF PtrInv, PtrRow, ProcType
    <3>2. dp[q] # d
      BY <1>3, <1>4, <2>1 DEF LockInv, Holds
    <3>3. dp[q] # i
      BY <1>3, <1>4 DEF UseInv, Uses
    <3>. QED
      BY <1>5, <3>1, <3>2, <3>3
  <2>2. \A q \in Proc : q # p => Row(q)'
    BY <1>3, <1>4, <1>5, <1>9, <2>1, OtherRows
  <2>3. Row(p)'
    BY <1>3, <1>4, <1>6, <1>9 DEF Row, LinkRow, EntRow, Climbs
  <2>. QED
    BY <2>2, <2>3 DEF RowInv
<1>21. UseInv'
  <2>1. ASSUME NEW k \in Inum, Vacant(k)'
        PROVE  /\ dinode'[k].nlink = 0 /\ \A q \in Proc : ~Uses(q, k)'
               /\ \A f \in 1 .. NFILE : FileIp(f)' # k
    <3>1. k # i /\ Vacant(k) /\ k # 0
      BY <1>13, <2>1 DEF Inum
    <3>2. /\ dinode[k].nlink = 0 /\ \A q \in Proc : ~Uses(q, k)
          /\ \A f \in 1 .. NFILE : FileIp(f) # k
      BY <1>3, <3>1 DEF UseInv
    <3>3. k # d /\ k # cwd[p]
      BY <1>4, <3>1, <3>2 DEF InUse, Uses
    <3>4. ~Uses(p, k)'
      BY <1>6, <1>9, <3>1, <3>3 DEF Uses, Iputting, First
    <3>5. \A q \in Proc : q # p => ~Uses(q, k)'
      BY <1>6, <1>9, <3>2 DEF Uses, Others, Second, Iputting
    <3>. QED
      BY <1>5, <1>6, <3>1, <3>2, <3>3, <3>4, <3>5 DEF FileIp
  <2>. QED
    BY <2>1 DEF UseInv
<1>22. CountInv'
  <2>. DEFINE w == <<d, m>>
              t == IF dinode[i].type = "dir" THEN d ELSE 0
  <2>0. EntryStep(d, m, i, i)
    BY <1>4, <1>5 DEF EntryStep
  <2>1. /\ w \in Inum \X Name
        /\ \A y \in Inum \X Name : y # w => NameOf'[y] = NameOf[y]
        /\ NameOf[w] = 0 /\ NameOf'[w] = i
        /\ \A y \in Inum : y # i => Parents'[y] = Parents[y]
    BY <1>4, <2>0, EntryMove
  <2>2. (\A y \in Proc : y # p => Pend(y)' = Pend(y)) /\ Pend(p) = 0 /\ Pend(p)' = 0
    BY <1>4, <1>6, <1>9 DEF Pend, Others
  <2>3. Parents[i] = 0 /\ Parents'[i] = t
    <3>1. /\ Parents[i] = (IF Named(i) THEN ents[i][".."] ELSE 0)
          /\ Parents'[i] = (IF Named(i)' THEN ents'[i][".."] ELSE 0)
      BY DEF Parents, Named
    <3>2. Named(i)'
      BY <1>5 DEF Named
    <3>3. ents[i][".."] = 0
      BY <1>15 DEF Entry
    <3>. QED
      BY <1>5, <3>1, <3>2, <3>3
  <2>4. ASSUME NEW k \in Inum
        PROVE  dinode'[k].nlink = dinode[k].nlink
                + (Is(NameOf[w], k)' - Is(NameOf[w], k)) + (Is(Parents[i], k)' - Is(Parents[i], k))
                + (Is(Pend(p), k)' - Is(Pend(p), k))
    <3>1. k # 0 /\ dinode[k].nlink \in Int
      BY <1>3 DEF Inum, DiskType, Dinode
    <3>2. /\ Is(NameOf[w], k)' = Is(i, k) /\ Is(NameOf[w], k) = 0
          /\ Is(Parents[i], k)' = Is(t, k) /\ Is(Parents[i], k) = 0
          /\ Is(Pend(p), k)' = 0 /\ Is(Pend(p), k) = 0
      BY <2>1, <2>2, <2>3, <3>1 DEF Is
    <3>3. /\ Is(t, k) = IF dinode[i].type = "dir" /\ k = d THEN 1 ELSE 0
          /\ Is(i, k) = IF k = i THEN 1 ELSE 0
      BY <3>1 DEF Is
    <3>4. dinode'[k].nlink = dinode[k].nlink + (IF k = i THEN 1 ELSE 0)
                               + (IF dinode[i].type = "dir" /\ k = d THEN 1 ELSE 0)
      BY <1>4, <1>5, <1>10, <3>1
    <3>. HIDE DEF w, t
    <3>. QED
      BY <3>1, <3>2, <3>3, <3>4
  <2>5. lost' = lost
    BY <1>6
  <2>. HIDE DEF w, t
  <2>. QED
    BY <1>3, <2>1, <2>2, <2>4, <2>5, CountSum
<1>. QED
  BY <1>7, <1>16, <1>17, <1>18, <1>19, <1>20, <1>21, <1>22 DEF TreeInv

-----------------------------------------------------------------------------
(***************************************************************************)
(* Steps on open files.                                                    *)
(***************************************************************************)
\* A step that gives a file no inode it did not have.
LEMMA FileTree ==
    ASSUME IInv, TreeInv, NEW p \in Proc, NEW c, NEW a, Step(p, c, 0, 0, a, 0),
           c \in {"run", "pipealloc", "pipe"}, pc[p] \in {"run", "pipealloc", "pipe"},
           UNCHANGED <<call, path, ents, lost>>,
           \A j \in Inum : dinode'[j].type = dinode[j].type /\ dinode'[j].nlink = dinode[j].nlink,
           \A q \in Proc : q # p => cwd'[q] = cwd[q], InUse(cwd'[p]), InUse(a),
           \A f \in 1 .. NFILE : file'[f].ip \in {file[f].ip, 0}, panicked' = FALSE
    PROVE  TreeInv'
<1>1. FileInv /\ DiskType /\ ProcType
  BY Parts
<1>2. \A f \in 1 .. NFILE : FileIp(f)' = FileIp(f) \/ InUse(FileIp(f)')
  <2>1. ASSUME NEW f \in 1 .. NFILE
        PROVE  FileIp(f)' \in {FileIp(f), 0}
    <3>1. FileIp(f) = file[f].ip
      <4>1. CASE file[f].ref > 0
        BY <4>1 DEF FileIp
      <4>2. CASE ~(file[f].ref > 0)
        BY <1>1, <4>2, FileFacts DEF FileIp, FileInv, NoFile
      <4>. QED
        BY <4>1, <4>2
    <3>. QED
      BY <3>1 DEF FileIp
  <2>. QED
    BY <2>1 DEF InUse
<1>3. pc'[p] = c /\ ip'[p] = 0
  BY <1>1, StepRow
<1>4. call[p].op # "link"
  BY DEF TreeInv, RowInv, Row, LinkRow
<1>5. Row(p)' /\ Pend(p)' = 0 /\ Pend(p) = 0
  <2>1. ~Climbs(path[p])
    BY DEF TreeInv, RowInv, Row
  <2>. QED
    BY <1>3, <1>4, <2>1 DEF Row, LinkRow, EntRow, Pend, Climbs
<1>6. ASSUME NEW i \in Inum
      PROVE  /\ dinode'[i].type = dinode[i].type
             /\ dinode'[i].nlink = dinode[i].nlink + (Is(Pend(p), i)' - Is(Pend(p), i))
  <2>1. Is(Pend(p), i)' = 0 /\ Is(Pend(p), i) = 0 /\ dinode[i].nlink \in Int
    BY <1>1, <1>5 DEF Is, DiskType, Dinode, Inum
  <2>. QED
    BY <2>1
<1>7. InUse(0) /\ pc[p] # "create_new" /\ c # "create_new"
  BY DEF InUse
<1>. QED
  BY <1>2, <1>5, <1>6, <1>7, CallTree

\* exit() puts the directory.
LEMMA exitTree ==
    ASSUME IInv, TreeInv, NEW p \in Proc, exit(p)
    PROVE  TreeInv'
<1>1. FileType /\ ProcType /\ CacheType
  BY Parts
<1>2. PICK a \in Inum : a = cwd[p]
  BY <1>1 DEF exit, FileType
<1>3. /\ pc[p] = "run" /\ puts[p] = <<>> /\ ~panicked
      /\ Put(p, <<a>>) /\ cwd' = [cwd EXCEPT ![p] = 0]
      /\ UNCHANGED <<pc, call, path, dp, ip, dinode, ents, file, lost, panicked>>
  BY <1>2 DEF exit, At, diskvars, cachevars, procvars
<1>4. puts' = [puts EXCEPT ![p] = Entries(a, 0)] /\ pc' = [pc EXCEPT ![p] = "run"]
  BY <1>1, <1>3, PutEntries DEF ProcType
<1>5. Step(p, "run", 0, 0, a, 0)
  BY <1>3, <1>4, RunFacts DEF PCs
<1>6. InUse(a) /\ InUse(cwd'[p]) /\ \A q \in Proc : q # p => cwd'[q] = cwd[q]
  <2>1. InUse(a)
    BY <1>2, PointersInUse
  <2>2. cwd'[p] = 0 /\ \A q \in Proc : q # p => cwd'[q] = cwd[q]
    BY <1>1, <1>3 DEF FileType
  <2>. QED
    BY <2>1, <2>2 DEF InUse
<1>7. panicked' = FALSE
  BY <1>1, <1>3 DEF CacheType
<1>8. \A f \in 1 .. NFILE : file'[f].ip \in {file[f].ip, 0}
  BY <1>3
<1>. QED
  BY <1>3, <1>5, <1>6, <1>7, <1>8, FileTree

\* A step that only moves files.
LEMMA OnlyFileTree ==
    ASSUME IInv, TreeInv, NEW p \in Proc, NEW c \in {"run", "pipealloc", "pipe"},
           pc[p] \in {"run", "pipealloc", "pipe"}, puts[p] = <<>>, ~panicked, panicked' = FALSE,
           pc' = [pc EXCEPT ![p] = c], UNCHANGED <<call, path, dp, ip, puts, ents, lost, cwd>>,
           \A j \in Inum : dinode'[j].type = dinode[j].type /\ dinode'[j].nlink = dinode[j].nlink,
           \A f \in 1 .. NFILE : file'[f].ip \in {file[f].ip, 0}
    PROVE  TreeInv'
<1>1. ProcType
  BY Parts
<1>2. puts' = [puts EXCEPT ![p] = Entries(0, 0)]
  BY <1>1, Moves
<1>3. Step(p, c, 0, 0, 0, 0)
  BY <1>2, RunFacts DEF PCs
<1>4. InUse(0) /\ InUse(cwd'[p]) /\ \A q \in Proc : q # p => cwd'[q] = cwd[q]
  BY PointersInUse
<1>. QED
  BY <1>3, <1>4, FileTree

\* dup() counts the file once more.
LEMMA sys_dupTree ==
    ASSUME IInv, TreeInv, NEW p \in Proc, NEW fd \in 1 .. NOFILE, sys_dup(p, fd)
    PROVE  TreeInv'
<1>1. FileType /\ ProcType
  BY Parts
<1>2. OnFd(p, fd)
  BY DEF sys_dup
<1>3. PICK f \in 1 .. NFILE : f = ofile[p][fd]
  BY <1>2, OnFdFacts
<1>4. pc[p] = "run" /\ puts[p] = <<>> /\ ~panicked /\ file[f].ref \in Nat /\ file[f].ref >= 1
  BY <1>2, <1>3, OnFdFacts
<1>5. /\ panicked' = (file[f].ref < 1) /\ file' = [file EXCEPT ![f].ref = @ + 1]
      /\ UNCHANGED <<pc, call, path, dp, ip, puts, dinode, ents, cwd, lost>>
  BY <1>3 DEF sys_dup, filedup, diskvars, cachevars, procvars
<1>6. panicked' = FALSE /\ pc' = [pc EXCEPT ![p] = "run"]
  <2>1. (file[f].ref < 1) = FALSE
    BY <1>4
  <2>2. panicked' = FALSE
    BY <1>5, <2>1
  <2>. QED
    BY <1>1, <1>4, <1>5, <2>2 DEF ProcType
<1>7. \A g \in 1 .. NFILE : file'[g].ip \in {file[g].ip, 0}
  BY <1>1, <1>5 DEF FileType, FileRec
<1>. QED
  BY <1>4, <1>5, <1>6, <1>7, OnlyFileTree

\* close() puts the inode with the last descriptor.
LEMMA sys_closeTree ==
    ASSUME IInv, TreeInv, NEW p \in Proc, NEW fd \in 1 .. NOFILE, sys_close(p, fd)
    PROVE  TreeInv'
<1>1. FileType /\ ProcType
  BY Parts
<1>2. OnFd(p, fd)
  BY DEF sys_close
<1>3. PICK f \in 1 .. NFILE : f = ofile[p][fd]
  BY <1>2, OnFdFacts
<1>4. /\ pc[p] = "run" /\ puts[p] = <<>> /\ ~panicked /\ file[f].ref \in Nat /\ file[f].ref >= 1
      /\ file[f] \in FileRec
  BY <1>2, <1>3, OnFdFacts
<1>5. PICK a \in Inum \cup {0} : a = IF file[f].ref = 1 THEN file[f].ip ELSE 0
  BY <1>4 DEF FileRec
<1>6. /\ panicked' = (file[f].ref < 1) /\ file' = fileclose(f)
      /\ Put(p, IF file[f].ref = 1 /\ file[f].ip # 0 THEN <<file[f].ip>> ELSE <<>>)
      /\ UNCHANGED <<pc, call, path, dp, ip, dinode, ents, cwd, lost>>
  BY <1>3 DEF sys_close, diskvars, cachevars, procvars
<1>7. puts' = [puts EXCEPT ![p] = Entries(a, 0)]
  <2>1. CASE a = 0
    <3>1. Put(p, <<>>)
      BY <1>5, <1>6, <2>1
    <3>. QED
      BY <1>1, <2>1, <3>1, PutEntries
  <2>2. CASE a # 0
    <3>1. Put(p, <<a>>) /\ a \in Inum
      BY <1>5, <1>6, <2>2
    <3>. QED
      BY <1>1, <3>1, PutEntries
  <2>. QED
    BY <2>1, <2>2
<1>8. panicked' = FALSE /\ pc' = [pc EXCEPT ![p] = "run"]
  <2>1. (file[f].ref < 1) = FALSE
    BY <1>4
  <2>2. panicked' = FALSE
    BY <1>6, <2>1
  <2>. QED
    BY <1>1, <1>4, <1>6, <2>2 DEF ProcType
<1>9. Step(p, "run", 0, 0, a, 0)
  BY <1>4, <1>6, <1>7, <1>8, RunFacts DEF PCs
<1>10. InUse(a) /\ InUse(cwd'[p]) /\ \A q \in Proc : q # p => cwd'[q] = cwd[q]
  <2>1. a \in {FileIp(f), 0}
    BY <1>4, <1>5 DEF FileIp
  <2>. QED
    BY <1>6, <2>1, PointersInUse
<1>11. \A g \in 1 .. NFILE : file'[g].ip \in {file[g].ip, 0}
  BY <1>1, <1>6 DEF FileType, FileRec, fileclose, NoFile
<1>12. \A j \in Inum : dinode'[j].type = dinode[j].type /\ dinode'[j].nlink = dinode[j].nlink
  BY <1>6
<1>. QED
  BY <1>4, <1>6, <1>8, <1>9, <1>10, <1>11, <1>12, FileTree

\* read() moves the offset.
LEMMA filereadTree ==
    ASSUME IInv, TreeInv, NEW p \in Proc, NEW fd \in 1 .. NOFILE, fileread(p, fd)
    PROVE  TreeInv'
<1>1. FileType /\ ProcType /\ CacheType
  BY Parts
<1>2. OnFd(p, fd)
  BY DEF fileread
<1>3. PICK f \in 1 .. NFILE : f = ofile[p][fd]
  BY <1>2, OnFdFacts
<1>4. pc[p] = "run" /\ puts[p] = <<>> /\ ~panicked
  BY <1>2, OnFdFacts
<1>5. /\ file' = [file EXCEPT ![f].off = @ + readi(Cur(file[f].ip), @)]
      /\ UNCHANGED <<pc, call, path, dp, ip, puts, dinode, ents, cwd, lost, panicked>>
  BY <1>3 DEF fileread, diskvars, cachevars, procvars
<1>6. panicked' = FALSE /\ pc' = [pc EXCEPT ![p] = "run"]
  BY <1>1, <1>4, <1>5 DEF ProcType, CacheType
<1>7. \A g \in 1 .. NFILE : file'[g].ip \in {file[g].ip, 0}
  BY <1>1, <1>5 DEF FileType, FileRec
<1>. QED
  BY <1>4, <1>5, <1>6, <1>7, OnlyFileTree

\* pipe() takes its first file.
LEMMA sys_pipeTree ==
    ASSUME IInv, TreeInv, NEW p \in Proc, sys_pipe(p)
    PROVE  TreeInv'
<1>1. FileType /\ ProcType /\ CacheType
  BY Parts
<1>2. /\ pc[p] = "run" /\ puts[p] = <<>> /\ ~panicked /\ pc' = [pc EXCEPT ![p] = "pipealloc"]
      /\ UNCHANGED <<call, path, dp, ip, puts, dinode, ents, cwd, lost, panicked>>
  BY DEF sys_pipe, At, Goto, diskvars, cachevars
<1>3. PICK f \in filealloc : file' = [file EXCEPT ![f].ref = 1]
  BY DEF sys_pipe
<1>4. \A g \in 1 .. NFILE : file'[g].ip \in {file[g].ip, 0}
  BY <1>1, <1>3 DEF FileType, FileRec
<1>5. panicked' = FALSE
  BY <1>1, <1>2 DEF CacheType
<1>. QED
  BY <1>2, <1>4, <1>5, OnlyFileTree

\* pipealloc() takes the second, or closes the first.
LEMMA pipeallocTree ==
    ASSUME IInv, TreeInv, NEW p \in Proc, NEW page \in BOOLEAN, pipealloc(p, page)
    PROVE  TreeInv'
<1>1. FileType /\ ProcType /\ CacheType
  BY Parts
<1>2. /\ pc[p] = "pipealloc" /\ puts[p] = <<>> /\ ~panicked
      /\ UNCHANGED <<call, path, dp, ip, puts, dinode, ents, cwd, lost, panicked>>
  BY DEF pipealloc, At, diskvars, cachevars
<1>3. panicked' = FALSE
  BY <1>1, <1>2 DEF CacheType
<1>4. CASE pipe_bad(p)
  <2>1. \A g \in 1 .. NFILE : file'[g].ip \in {file[g].ip, 0}
    BY <1>4 DEF pipe_bad, Closed, NoFile
  <2>2. pc' = [pc EXCEPT ![p] = "run"]
    BY <1>4 DEF pipe_bad, Goto
  <2>. QED
    BY <1>2, <1>3, <2>1, <2>2, OnlyFileTree
<1>5. CASE ~pipe_bad(p)
  <2>1. PICK f \in filealloc : file' = [file EXCEPT ![f].ref = 1, ![f].writable = TRUE]
    BY <1>5 DEF pipealloc
  <2>2. pc' = [pc EXCEPT ![p] = "pipe"]
    BY <1>5 DEF pipealloc, Goto
  <2>3. \A g \in 1 .. NFILE : file'[g].ip \in {file[g].ip, 0}
    BY <1>1, <2>1 DEF FileType, FileRec
  <2>. QED
    BY <1>2, <1>3, <2>2, <2>3, OnlyFileTree
<1>. QED
  BY <1>4, <1>5

\* pipe() gives them descriptors, or closes them.
LEMMA pipe_fdsTree ==
    ASSUME IInv, TreeInv, NEW p \in Proc, NEW copied \in BOOLEAN, pipe_fds(p, copied)
    PROVE  TreeInv'
<1>1. FileType /\ ProcType /\ CacheType
  BY Parts
<1>2. /\ pc[p] = "pipe" /\ puts[p] = <<>> /\ ~panicked
      /\ UNCHANGED <<call, path, dp, ip, puts, dinode, ents, cwd, lost, panicked>>
  BY DEF pipe_fds, At, diskvars, cachevars
<1>3. panicked' = FALSE
  BY <1>1, <1>2 DEF CacheType
<1>4. CASE pipe_bad(p)
  <2>1. \A g \in 1 .. NFILE : file'[g].ip \in {file[g].ip, 0}
    BY <1>4 DEF pipe_bad, Closed, NoFile
  <2>2. pc' = [pc EXCEPT ![p] = "run"]
    BY <1>4 DEF pipe_bad, Goto
  <2>. QED
    BY <1>2, <1>3, <2>1, <2>2, OnlyFileTree
<1>5. CASE ~pipe_bad(p)
  <2>1. file' = file /\ pc' = [pc EXCEPT ![p] = "run"]
    BY <1>5 DEF pipe_fds, Goto
  <2>2. \A g \in 1 .. NFILE : file'[g].ip \in {file[g].ip, 0}
    BY <2>1
  <2>. QED
    BY <1>2, <1>3, <2>1, <2>2, OnlyFileTree
<1>. QED
  BY <1>4, <1>5

\* bmap() leaves type and links alone.
LEMMA BmapLinks ==
    ASSUME NEW d \in Dinode, NEW off
    PROVE  bmap(d, off).r.type = d.type /\ bmap(d, off).r.nlink = d.nlink
<1>1. \A b : /\ [d EXCEPT !.direct = b].type = d.type /\ [d EXCEPT !.direct = b].nlink = d.nlink
             /\ [d EXCEPT !.indirect = b].type = d.type /\ [d EXCEPT !.indirect = b].nlink = d.nlink
  BY DEF Dinode
<1>2. \E b : bmap(d, off).r \in {d, [d EXCEPT !.direct = b], [d EXCEPT !.indirect = b]}
  <2>1. CASE off = 0 /\ d.direct # 0
    BY <2>1 DEF bmap
  <2>2. CASE off = 0 /\ ~(d.direct # 0)
    BY <2>2 DEF bmap
  <2>3. CASE off # 0
    <3>. DEFINE new == d.indirect = 0
                b   == IF new THEN balloc(used) ELSE d.indirect
                u1  == used \cup {b}
                i1  == IF new THEN [ind EXCEPT ![b] = 0] ELSE ind
                r1  == [d EXCEPT !.indirect = b]
                c   == balloc(u1)
    <3>1. bmap(d, off) = IF i1[b] # 0 THEN [r |-> r1, used |-> u1, ind |-> i1]
                         ELSE [r |-> r1, used |-> u1 \cup {c}, ind |-> [i1 EXCEPT ![c] = 0, ![b] = c]]
      BY <2>3 DEF bmap
    <3>. HIDE DEF i1, b, u1, c
    <3>2. bmap(d, off).r = r1
      BY <3>1
    <3>. QED
      BY <3>2
  <2>. QED
    BY <2>1, <2>2, <2>3
<1>. QED
  BY <1>1, <1>2

\* write() leaves the links alone.
LEMMA filewriteTree ==
    ASSUME IInv, TreeInv, NEW p \in Proc, NEW fd \in 1 .. NOFILE, NEW copied \in BOOLEAN,
           filewrite(p, fd, copied)
    PROVE  TreeInv'
<1>1. DiskType /\ CacheType /\ ProcType /\ FileType /\ BlkInv
  BY Parts
<1>2. OnFd(p, fd)
  BY DEF filewrite
<1>3. PICK f \in 1 .. NFILE : f = ofile[p][fd]
  BY <1>2, OnFdFacts
<1>4. pc[p] = "run" /\ puts[p] = <<>> /\ ~panicked /\ file[f] \in FileRec
  BY <1>2, <1>3, OnFdFacts
<1>5. file[f].ip # 0
  BY <1>3 DEF filewrite
<1>6. PICK i \in Inum : i = file[f].ip
  BY <1>4, <1>5 DEF FileRec
<1>7. PICK off \in 0 .. 2 : off = file[f].off
  BY <1>4 DEF FileRec, MAXFILE
<1>8. /\ Cur(i).type = "file" /\ Free(i) /\ writei_ok(Cur(i), off) /\ BlocksLeft
      /\ Write(i, writei(Cur(i), off, copied).r)
      /\ file' = IF copied THEN [file EXCEPT ![f].off = @ + 1] ELSE file
      /\ UNCHANGED <<ents, puts, panicked, cwd, lost, pc, call, path, dp, ip>>
  BY <1>3, <1>6, <1>7 DEF filewrite, procvars
<1>. DEFINE d == dinode[i]
<1>9. Cur(i) = d /\ d.type = "file" /\ d \in Dinode
  <2>1. lock[i] = None
    BY <1>8 DEF Free
  <2>. QED
    BY <1>1, <1>8, <2>1, CacheFacts DEF DiskType
<1>10. off \in {0, 1} /\ off <= d.size /\ off + 1 \in 0 .. 2
  <2>1. off <= d.size /\ off + 1 <= 2
    BY <1>8, <1>9 DEF writei_ok, MAXFILE
  <2>. QED
    BY <2>1
<1>11. \E r, u, nd : /\ bmap(d, off) = [r |-> r, used |-> u, ind |-> nd]
                     /\ Grown(i, r, u, nd)
  BY <1>1, <1>8, <1>9, <1>10, BmapFacts
<1>12. PICK r, u, nd : bmap(d, off) = [r |-> r, used |-> u, ind |-> nd] /\ r \in Dinode
  BY <1>9, <1>11 DEF Grown
<1>13. r.type = d.type /\ r.nlink = d.nlink
  <2>. HIDE DEF d
  <2>. QED
    BY <1>9, <1>12, BmapLinks
<1>14. writei(d, off, copied).r \in {r, [r EXCEPT !.size = off + 1]}
  BY <1>12 DEF writei
<1>15. PICK w : w = writei(d, off, copied).r
  OBVIOUS
<1>16. w.type = d.type /\ w.nlink = d.nlink
  BY <1>12, <1>13, <1>14, <1>15 DEF Dinode
<1>17. \A j \in Inum : dinode'[j].type = dinode[j].type /\ dinode'[j].nlink = dinode[j].nlink
  <2>1. dinode' = [dinode EXCEPT ![i] = w]
    BY <1>8, <1>9, <1>15 DEF Write
  <2>. QED
    BY <1>1, <1>16, <2>1 DEF DiskType
<1>18. panicked' = FALSE /\ pc' = [pc EXCEPT ![p] = "run"]
  BY <1>1, <1>4, <1>8 DEF ProcType, CacheType
<1>19. \A g \in 1 .. NFILE : file'[g].ip \in {file[g].ip, 0}
  BY <1>1, <1>8 DEF FileType, FileRec
<1>. QED
  BY <1>4, <1>8, <1>17, <1>18, <1>19, OnlyFileTree

\* fork() gives q what p has.
LEMMA forkTree ==
    ASSUME IInv, TreeInv, NEW p \in Proc, NEW q \in Proc, fork(p, q)
    PROVE  TreeInv'
<1>1. FileType /\ ProcType /\ CacheType /\ PtrRow(q)
  BY Parts DEF PtrInv
<1>2. /\ ~panicked /\ cwd[q] = 0 /\ puts[q] = <<>>
      /\ cwd' = [cwd EXCEPT ![q] = cwd[p]]
      /\ UNCHANGED <<pc, call, path, dp, ip, puts, dinode, ents, panicked, lost>>
  BY DEF fork, At, diskvars, procvars
<1>3. pc[q] = "run"
  BY <1>1, <1>2 DEF PtrRow
<1>4. Step(q, "run", 0, 0, 0, 0)
  BY <1>2, <1>3, RunFacts
<1>5. \A g \in 1 .. NFILE : file'[g].ip \in {file[g].ip, 0}
  BY <1>1 DEF fork, FileType, FileRec
<1>6. /\ InUse(cwd'[q]) /\ InUse(0) /\ \A r \in Proc : r # q => cwd'[r] = cwd[r]
      /\ panicked' = FALSE
  <2>1. cwd'[q] = cwd[p] /\ \A r \in Proc : r # q => cwd'[r] = cwd[r]
    BY <1>1, <1>2 DEF FileType
  <2>2. panicked' = FALSE
    BY <1>1, <1>2 DEF CacheType
  <2>. QED
    BY <2>1, <2>2, PointersInUse
<1>7. \A j \in Inum : dinode'[j].type = dinode[j].type /\ dinode'[j].nlink = dinode[j].nlink
  BY <1>2
<1>. QED
  BY <1>2, <1>3, <1>4, <1>5, <1>6, <1>7, FileTree

-----------------------------------------------------------------------------
(***************************************************************************)
(* The theorems on links and panics.                                       *)
(***************************************************************************)
\* The directories of Init's image.
LEMMA InitEnts ==
    ASSUME Init
    PROVE  /\ 1 \in Inum /\ 2 \in Inum /\ 3 \in Inum /\ ROOTINO = 1
           /\ \A d \in Inum, n \in Name :
                ents[d][n] = IF d = 1 /\ n = "a" THEN 2 ELSE IF d = 1 /\ n = "d" THEN 3 ELSE 0
           /\ \A d \in Inum : /\ ents[d]["."] = IF d \in {1, 3} THEN d ELSE 0
                              /\ ents[d][".."] = IF d \in {1, 3} THEN 1 ELSE 0
<1>1. 1 \in Inum /\ 2 \in Inum /\ 3 \in Inum /\ ROOTINO = 1
  BY FsAssumption, InodeAssumption DEF Inum, ROOTINO
<1>. DEFINE E1 == [n \in Entry |-> CASE n \in {".", ".."} -> 1
                                     [] n = "a" -> 2 [] n = "d" -> 3 [] OTHER -> 0]
            E3 == [NoEnts EXCEPT !["."] = 3, ![".."] = 1]
<1>2. ents = [i \in Inum |-> CASE i = 1 -> E1 [] i = 3 -> E3 [] OTHER -> NoEnts]
  BY <1>1 DEF Init
<1>3. \A n \in Name : n \in Entry /\ n # "." /\ n # ".."
  BY InodeAssumption DEF Entry
<1>4. "." \in Entry /\ ".." \in Entry /\ "." # ".."
  BY DEF Entry
<1>5. /\ \A n \in Name : E1[n] = IF n = "a" THEN 2 ELSE IF n = "d" THEN 3 ELSE 0
      /\ E1["."] = 1 /\ E1[".."] = 1
  BY <1>3, <1>4
<1>6. /\ \A n \in Name : E3[n] = 0
      /\ E3["."] = 3 /\ E3[".."] = 1
  BY <1>3, <1>4 DEF NoEnts
<1>7. \A n \in Entry : NoEnts[n] = 0
  BY DEF NoEnts
<1>. HIDE DEF E1, E3
<1>8. ents[1] = E1 /\ ents[3] = E3 /\ \A i \in Inum : i \notin {1, 3} => ents[i] = NoEnts
  BY <1>1, <1>2
<1>. QED
  BY <1>1, <1>3, <1>4, <1>5, <1>6, <1>7, <1>8

\* Its inodes.
LEMMA InitInodes ==
    ASSUME Init, NEW i \in Inum
    PROVE  /\ dinode[i].type = IF i \in {1, 3} THEN "dir" ELSE IF i = 2 THEN "file" ELSE "none"
           /\ dinode[i].nlink = IF i = 1 THEN 2 ELSE IF i \in {2, 3} THEN 1 ELSE 0
<1>. DEFINE b == balloc({})
            root == [Unused EXCEPT !.type = "dir", !.nlink = 2]
            rec2 == [Unused EXCEPT !.type = "file", !.nlink = 1, !.size = 1, !.direct = b]
            rec3 == [Unused EXCEPT !.type = "dir", !.nlink = 1]
<1>1. dinode = [j \in Inum |-> CASE j = ROOTINO -> root [] j = 2 -> rec2 [] j = 3 -> rec3
                                   [] OTHER -> Unused]
  BY DEF Init
<1>2. /\ root.type = "dir" /\ root.nlink = 2 /\ rec3.type = "dir" /\ rec3.nlink = 1
      /\ Unused.type = "none" /\ Unused.nlink = 0
  BY DEF Unused
<1>. HIDE DEF b
<1>3. rec2.type = "file" /\ rec2.nlink = 1
  BY DEF Unused
<1>. HIDE DEF root, rec2, rec3
<1>4. CASE i = 1
  BY <1>1, <1>2, <1>4 DEF ROOTINO
<1>5. CASE i = 2
  BY <1>1, <1>3, <1>5 DEF ROOTINO
<1>6. CASE i = 3
  BY <1>1, <1>2, <1>6 DEF ROOTINO
<1>7. CASE i \notin {1, 2, 3}
  BY <1>1, <1>2, <1>7 DEF ROOTINO
<1>. QED
  BY <1>4, <1>5, <1>6, <1>7

\* The initial states satisfy the invariant of the tree.
LEMMA InitTree ==
    ASSUME Init
    PROVE  TreeInv
<1>1. /\ puts = [p \in Proc |-> <<>>] /\ panicked = FALSE
      /\ pc = [p \in Proc |-> "run"] /\ call = [p \in Proc |-> NoCall]
      /\ path = [p \in Proc |-> <<>>]
      /\ dp = [p \in Proc |-> 0] /\ ip = [p \in Proc |-> 0]
      /\ cwd = [p \in Proc |-> ROOTINO] /\ file = [f \in 1 .. NFILE |-> NoFile]
  BY DEF Init
<1>2. /\ 1 \in Inum /\ 2 \in Inum /\ 3 \in Inum /\ ROOTINO = 1 /\ 0 \notin Inum
      /\ \A d \in Inum, n \in Name :
           ents[d][n] = IF d = 1 /\ n = "a" THEN 2 ELSE IF d = 1 /\ n = "d" THEN 3 ELSE 0
      /\ \A d \in Inum : /\ ents[d]["."] = IF d \in {1, 3} THEN d ELSE 0
                         /\ ents[d][".."] = IF d \in {1, 3} THEN 1 ELSE 0
  BY InitEnts DEF Inum
<1>3. \A i \in Inum :
           /\ dinode[i].type = IF i \in {1, 3} THEN "dir" ELSE IF i = 2 THEN "file" ELSE "none"
           /\ dinode[i].nlink = IF i = 1 THEN 2 ELSE IF i \in {2, 3} THEN 1 ELSE 0
  BY InitInodes
<1>4. \A p \in Proc, i \in Inum :
         /\ ~Fresh(p, i) /\ ~Iputting(p, i, "free") /\ ~Iputting(p, i, "test")
         /\ cwd[p] = 1 /\ dp[p] = 0 /\ ip[p] = 0 /\ Second(p) = 0 /\ Pend(p) = 0
  BY <1>1, <1>2 DEF Fresh, Iputting, Second, Pend
<1>5. \A i \in Inum : Vacant(i) <=> i \notin {1, 2, 3}
  BY <1>2, <1>3, <1>4 DEF Vacant
<1>6. UseInv
  <2>1. \A f \in 1 .. NFILE : FileIp(f) = 0
    BY <1>1 DEF FileIp, NoFile
  <2>2. \A q \in Proc, i \in Inum : Uses(q, i) => i = 1
    BY <1>2, <1>4 DEF Uses
  <2>. QED
    BY <1>2, <1>3, <1>5, <2>1, <2>2 DEF UseInv
<1>7. FreshInv
  BY <1>4 DEF FreshInv
<1>8. EntInv
  <2>1. \A i \in Inum : Made(i) <=> i \in {1, 3}
    BY <1>3, <1>4 DEF Made
  <2>2. ASSUME NEW d \in Inum, d \notin {1, 3}, NEW n \in Entry
        PROVE  ents[d][n] = 0
    BY <1>2, <2>2 DEF Entry
  <2>. QED
    BY <1>2, <2>1, <2>2 DEF EntInv
<1>9. NameInv
  <2>1. ASSUME NEW d \in Inum, NEW i \in Inum, NEW n \in Name, ents[d][n] = i, dinode[i].type = "dir"
        PROVE  d = 1 /\ i = 3 /\ n = "d"
    <3>1. i \in {2, 3} /\ d = 1
      BY <1>2, <2>1
    <3>2. i # 2
      BY <1>2, <1>3, <2>1
    <3>. QED
      BY <1>2, <2>1, <3>1, <3>2
  <2>2. \A e \in Inum, m \in Name : ents[e][m] = 3 => e = 1 /\ m = "d"
    BY <1>2
  <2>. QED
    BY <1>2, <2>1, <2>2 DEF NameInv
<1>10. RootInv
  BY <1>2, <1>3 DEF RootInv
<1>11. RowInv
  BY <1>1 DEF RowInv, Row, LinkRow, EntRow, Climbs, NoCall
<1>12. CountInv
  <2>1. {"a", "d"} \subseteq Name
    BY FsAssumption
  <2>2. \A i \in Inum : NumOf(Pendings, i) = 0
    <3>1. \A i \in Inum : \A p \in DOMAIN Pendings : Pendings[p] # i
      BY <1>2, <1>4 DEF Pendings
    <3>. QED
      BY <3>1, NumZero
  <2>3. /\ DOMAIN Parents = Inum /\ Parents[1] = 1 /\ Parents[3] = 1
        /\ \A d \in Inum : d \notin {1, 3} => Parents[d] = 0
    <3>1. Named(1) /\ Named(3)
      BY <1>2, <2>1 DEF Named
    <3>. QED
      BY <1>2, <3>1 DEF Parents
  <2>4. NumOf(Parents, 1) = 2
    BY <1>2, <2>3, NumTwo
  <2>5. ASSUME NEW i \in Inum, i # 1
        PROVE  NumOf(Parents, i) = 0
    <3>1. \A d \in DOMAIN Parents : Parents[d] # i
      BY <1>2, <2>3, <2>5
    <3>. QED
      BY <3>1, NumZero
  <2>6. /\ DOMAIN NameOf = Inum \X Name
        /\ \A x \in Inum \X Name : NameOf[x] = ents[x[1]][x[2]]
    BY DEF NameOf
  <2>7. /\ <<1, "a">> \in DOMAIN NameOf /\ NameOf[<<1, "a">>] = 2
        /\ <<1, "d">> \in DOMAIN NameOf /\ NameOf[<<1, "d">>] = 3
    BY <1>2, <2>1, <2>6
  <2>8. ASSUME NEW x \in DOMAIN NameOf
        PROVE  /\ NameOf[x] \in {0, 2, 3}
               /\ NameOf[x] = 2 => x = <<1, "a">>
               /\ NameOf[x] = 3 => x = <<1, "d">>
    <3>1. PICK d \in Inum, n \in Name : x = <<d, n>>
      BY <2>6
    <3>2. NameOf[x] = ents[d][n]
      BY <2>6, <3>1
    <3>. QED
      BY <1>2, <3>1, <3>2
  <2>9. NumOf(NameOf, 2) = 1
    <3>1. \A y \in DOMAIN NameOf : NameOf[y] = 2 => y = <<1, "a">>
      BY <2>8
    <3>. QED
      BY <2>7, <3>1, NumOne
  <2>10. NumOf(NameOf, 3) = 1
    <3>1. \A y \in DOMAIN NameOf : NameOf[y] = 3 => y = <<1, "d">>
      BY <2>8
    <3>. QED
      BY <2>7, <3>1, NumOne
  <2>11. ASSUME NEW i \in Inum, i \notin {2, 3}
         PROVE  NumOf(NameOf, i) = 0
    <3>1. i \notin {0, 2, 3}
      BY <1>2, <2>11
    <3>2. \A x \in DOMAIN NameOf : NameOf[x] # i
      BY <2>8, <3>1
    <3>. QED
      BY <3>2, NumZero
  <2>12. ASSUME NEW i \in Inum
         PROVE  dinode[i].nlink = Count(i) /\ dinode[i].nlink >= Count(i)
    BY <1>3, <2>2, <2>4, <2>5, <2>9, <2>10, <2>11 DEF Count
  <2>. QED
    BY <2>12 DEF CountInv
<1>. QED
  BY <1>1, <1>6, <1>7, <1>8, <1>9, <1>10, <1>11, <1>12 DEF TreeInv

\* Every step keeps the invariant of the tree.
LEMMA NextTree ==
    ASSUME NoDotDot, IInv, TreeInv, [Next]_vars
    PROVE  TreeInv'
<1>1. ASSUME UNCHANGED vars
      PROVE  TreeInv'
  <2>1. /\ UNCHANGED <<dinode, ents, used, ind, inode, ref, valid, lock, puts, panicked>>
        /\ UNCHANGED <<pc, call, path, dp, ip, cwd, ofile, ends, file, calls, lost>>
    BY <1>1 DEF vars, diskvars, cachevars, procvars, filevars
  <2>2. \A p \in Proc, j \in Inum : /\ Fresh(p, j)' <=> Fresh(p, j)
                                    /\ Iputting(p, j, "free")' <=> Iputting(p, j, "free")
    BY <2>1 DEF Fresh, Iputting
  <2>3. SameTree
    BY <2>1, <2>2 DEF SameTree
  <2>4. /\ \A i \in Inum : Vacant(i)' <=> Vacant(i)
        /\ FreshInv' /\ EntInv' /\ NameInv' /\ RootInv'
    BY <2>3, QuietTree
  <2>5. UseInv'
    <3>1. UsesKept
      BY <2>1 DEF UsesKept, Uses, Second, Iputting, FileIp
    <3>. QED
      BY <2>1, <2>4, <3>1, QuietUse
  <2>6. RowInv'
    BY <2>1 DEF TreeInv, RowInv, Row, LinkRow, EntRow, Climbs, Name1
  <2>7. NameOf' = NameOf /\ Parents' = Parents /\ Pendings' = Pendings
    BY <2>1 DEF NameOf, Parents, Named, Pendings, Pend
  <2>8. CountInv'
    <3>1. \A i : Count(i)' = Count(i)
      BY <2>7 DEF Count, NumOf
    <3>. QED
      BY <2>1, <3>1 DEF TreeInv, CountInv
  <2>9. (panicked => FreeInodes = {})'
    BY <2>1 DEF TreeInv, FreeInodes
  <2>. QED
    BY <2>4, <2>5, <2>6, <2>8, <2>9 DEF TreeInv
<1>2. ASSUME NEW p \in Proc,
             \/ \E c \in Calls : sys_path(p, c)
             \/ namex(p)
             \/ create(p) \/ create_found(p) \/ create_new(p) \/ sys_mkdir(p)
             \/ sys_open(p) \/ open_file(p)
      PROVE  TreeInv'
  BY <1>2, sys_pathTree, namexTree, createTree, create_foundTree, create_newTree, sys_mkdirTree,
     sys_openTree, open_fileTree
<1>3. ASSUME NEW p \in Proc,
             \/ sys_unlink(p) \/ unlink_entry(p) \/ unlink_inode(p)
             \/ sys_link(p) \/ link_entry(p) \/ link_bad(p) \/ sys_chdir(p)
      PROVE  TreeInv'
  BY <1>3, sys_unlinkTree, unlink_entryTree, unlink_inodeTree, sys_linkTree, link_entryTree,
     link_badTree, sys_chdirTree
<1>4. ASSUME NEW p \in Proc, NEW fd \in 1 .. NOFILE,
             \/ sys_close(p, fd) \/ sys_dup(p, fd) \/ fileread(p, fd)
             \/ \E copied \in BOOLEAN : filewrite(p, fd, copied)
      PROVE  TreeInv'
  BY <1>4, sys_closeTree, sys_dupTree, filereadTree, filewriteTree
<1>5. ASSUME NEW p \in Proc,
             \/ sys_pipe(p) \/ \E b \in BOOLEAN : pipealloc(p, b) \/ pipe_fds(p, b)
             \/ \E q \in Proc : fork(p, q)
             \/ exit(p)
             \/ Iput(p)
      PROVE  TreeInv'
  BY <1>5, sys_pipeTree, pipeallocTree, pipe_fdsTree, forkTree, exitTree, IputTree
<1>6. ASSUME Done
      PROVE  TreeInv'
  BY <1>1, <1>6 DEF Done
<1>. QED
  BY <1>1, <1>2, <1>3, <1>4, <1>5, <1>6 DEF Next

\* What LinksCounted counts.
LEMMA LinksForm ==
    ASSUME IInv, TreeInv
    PROVE  LinksCounted
<1>. SUFFICES ASSUME NEW i \in Inum, i \notin lost
              PROVE  /\ dinode[i].nlink = Links(i) + Pending(i)
                     /\ dinode[i].type = "none" => Links(i) = 0
  BY DEF LinksCounted
<1>1. i # 0
  BY DEF Inum
<1>2. {x \in Inum \X Name : ents[x[1]][x[2]] = i} = {x \in DOMAIN NameOf : NameOf[x] = i}
  BY DEF NameOf
<1>3. {d \in Inum : Named(d) /\ ents[d][".."] = i} = {d \in DOMAIN Parents : Parents[d] = i}
  BY <1>1 DEF Parents
<1>4. {p \in Proc : ip[p] = i /\ (pc[p] = "unlinked" \/ call[p].op = "link")}
        = {p \in DOMAIN Pendings : Pendings[p] = i}
  BY <1>1 DEF Pendings, Pend
<1>5. /\ Links(i) = NumOf(NameOf, i) + NumOf(Parents, i)
      /\ Pending(i) = NumOf(Pendings, i)
  BY <1>2, <1>3, <1>4 DEF Links, Pending, NumOf
<1>6. dinode[i].nlink = NumOf(NameOf, i) + NumOf(Parents, i) + NumOf(Pendings, i)
  BY DEF TreeInv, CountInv, Count
<1>7. ASSUME dinode[i].type = "none"
      PROVE  NumOf(NameOf, i) = 0 /\ NumOf(Parents, i) = 0
  <2>1. Vacant(i)
    BY <1>7 DEF Vacant
  <2>. QED
    BY <2>1, VacantFacts
<1>. QED
  BY <1>5, <1>6, <1>7

\* The invariant of the tree holds in every reachable state, if no path goes up.
THEOREM FsTreeInv ==
    ASSUME NoDotDot
    PROVE  Spec => []TreeInv
<1>1. Init => TreeInv
  BY InitTree
<1>2. IInv /\ TreeInv /\ [Next]_vars => TreeInv'
  BY NextTree
<1>. QED
  BY <1>1, <1>2, FsInv, PTL DEF Spec

\* If no path goes up, nlink on disk is the number of entries that name the inode,
\* with what link() and unlink() have under way, for every inode whose name did not
\* go with a removed directory; and no entry names a free inode (create(), dirlink(),
\* sys_link() and sys_unlink() of fs.c and sysfile.c).
THEOREM FsLinksCounted ==
    ASSUME NoDotDot
    PROVE  Spec => []LinksCounted
<1>1. IInv /\ TreeInv => LinksCounted
  BY LinksForm
<1>. QED
  BY <1>1, FsInv, FsTreeInv, PTL

\* If no path goes up, the kernel panics in none of these calls but when ialloc()
\* finds no free inode: ilock() never meets an inode that is free on disk, unlink()
\* one without links, bfree() a free block, filedup() and fileclose() a file that
\* is closed.
THEOREM FsNoPanic ==
    ASSUME NoDotDot
    PROVE  Spec => [](NoPanic \/ FreeInodes = {})
<1>1. TreeInv => NoPanic \/ FreeInodes = {}
  BY DEF TreeInv, NoPanic
<1>. QED
  BY <1>1, FsTreeInv, PTL
=============================================================================
