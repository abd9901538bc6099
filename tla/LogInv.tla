------------------------------- MODULE LogInv -------------------------------
(***************************************************************************)
(* The inductive invariant behind the safety properties of module Log.     *)
(***************************************************************************)
EXTENDS Log

(***************************************************************************)
(* The one condition on the constants beyond ConstAssumption: an operation *)
(* leaves so much of its reservation unused that the log, one block of     *)
(* which is the header, does not fill up.  (MAXOPBLOCKS = 10,              *)
(* LOGSIZE = nlog = 30: at most 8 distinct blocks for each operation.)     *)
(***************************************************************************)
LogRoom ==
    /\ OpBlocks < MAXOPBLOCKS
    /\ LOGSIZE - (MAXOPBLOCKS - OpBlocks) < nlog - 1

\* Who may be where: commit() and recovery run alone.
ControlInv ==
    /\ CommitAlone
    /\ \A p \in Proc : pc[p] \in CommitPCs => committing
    /\ committing => \E p \in Proc : pc[p] \in CommitPCs
    /\ \A p \in Proc : pc[p] \in RecoveryPCs => p = initproc
    /\ ~Up => \A p \in Proc \ {initproc} : pc[p] = "idle"

\* log.outstanding counts the open operations.
CountInv == outstanding = Cardinality(Open)

\* A process between bread() and brelse() has one buffer, for itself alone.
HeldInv ==
    /\ \A p \in Proc : held[p] # NoBlock <=> pc[p] \in {"check", "append"}
    /\ \A p, q \in Proc : held[p] = held[q] /\ p # q => held[p] = NoBlock

\* The blocks the open operations have reserved and not yet used, as pairs,
\* so that their number is a cardinality.
Reserve ==
    {r \in Open \X (1 .. MAXOPBLOCKS) : r[2] > Cardinality(wset[r[1]])}

\* What is logged and what is still reserved fits in the log.
SpaceInv ==
    /\ \A p \in Open :
        /\ IsFiniteSet(wset[p])
        /\ wset[p] \subseteq Logged
        /\ Cardinality(wset[p]) <= OpBlocks
        /\ held[p] \in Block \ wset[p] => Cardinality(wset[p]) < OpBlocks
    /\ Len(lh) + Cardinality(Reserve) <= LOGSIZE
    /\ Len(dhead) <= LOGSIZE

Distinct(s) == \A i, j \in 1 .. Len(s) : s[i] = s[j] => i = j

\* Both headers name distinct blocks, and as many as the log has room for;
\* a loop over log.lh is within it.
HeaderInv ==
    /\ Distinct(lh)
    /\ Distinct(dhead)
    /\ Len(lh) <= nlog - 1
    /\ Len(dhead) <= nlog - 1
    /\ \A p \in Proc : pc[p] \in {"write_log", "write_head", "install",
                                 "r_install"} => tail[p] < Len(lh)
    /\ \A p \in Proc : pc[p] = "write_head" => tail[p] = 0
    /\ \A p \in Proc : pc[p] \in {"install", "erase", "r_install", "r_erase"} =>
                            dhead = lh
    /\ Up /\ (\A p \in Proc : pc[p] \notin {"install", "erase"}) =>
            dhead = << >>
    /\ \A p \in Proc : pc[p] = "committed" => lh = << >>
    /\ Up /\ Open = {} /\ ~committing => lh = << >>

\* The pins are those of the logged blocks that are not installed yet.
PinInv ==
    /\ ~Up => pinned = {}
    /\ \A p \in Proc : pc[p] = "install" =>
            pinned = {lh[i] : i \in (tail[p] + 1) .. Len(lh)}
    /\ \A p \in Proc : pc[p] = "erase" => pinned = {}
    /\ Up /\ (\A p \in Proc : pc[p] \notin {"install", "erase"}) =>
            pinned = Logged

\* How the log blocks, the home blocks and the buffers agree.
DataInv ==
    /\ \A i \in 1 .. Len(dhead) : logblk[i] \in Val
    /\ Up => \A b \in Block : cache[b] \in Val /\ home[b] \in Val
    /\ ~Up => cache = home
    /\ DirtyIsKept
    /\ \A p \in Proc : pc[p] = "write_log" =>
            \A i \in 1 .. tail[p] : logblk[i] = cache[lh[i]]
    /\ \A p \in Proc : pc[p] \in {"write_head", "install", "erase"} =>
            \A i \in 1 .. Len(lh) : logblk[i] = cache[lh[i]]
    /\ \A p \in Proc : pc[p] \in {"install", "r_install"} =>
            \A i \in 1 .. tail[p] : home[lh[i]] = logblk[i]
    /\ \A p \in Proc : pc[p] \in {"erase", "r_erase"} =>
            \A i \in 1 .. Len(lh) : home[lh[i]] = logblk[i]
    /\ \A b \in Block : home[b] = Torn =>
            \E i \in 1 .. Len(dhead) : dhead[i] = b

IInv ==
    /\ TypeOK
    /\ ControlInv
    /\ CountInv
    /\ HeldInv
    /\ SpaceInv
    /\ HeaderInv
    /\ PinInv
    /\ DataInv
    /\ NoLostWakeup
    /\ NoPanic
=============================================================================
