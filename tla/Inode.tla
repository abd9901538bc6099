-------------------------------- MODULE Inode ---------------------------------
(***************************************************************************)
(* kernel/fs.c, the lower half: the block bitmap, on-disk inodes, and the  *)
(* inode cache with its reference counts and sleep locks.  Fs builds the   *)
(* directory tree and the system calls on it.                              *)
(*                                                                         *)
(* An inode is named by its number, in the cache too: NINODE is taken to be*)
(* large enough.  Each operation runs between begin_op() and end_op(), so  *)
(* what it writes is the disk as Log provides it.  A file has one direct   *)
(* and one indirect block with one entry (NDIRECT = NINDIRECT = 1), and    *)
(* its size counts blocks.  The blocks of directories are left out: their  *)
(* content is the function ents[i].                                        *)
(***************************************************************************)
EXTENDS Integers, Sequences, FiniteSets

CONSTANTS
    Proc,
    NINODES,    \* inodes on disk, the root included
    Block,      \* numbers of the data blocks
    Name,       \* path elements other than "." and ".."
    None

ASSUME InodeAssumption ==
    /\ NINODES \in Nat \ {0}
    /\ Block \subseteq Nat \ {0} /\ IsFiniteSet(Block)
    /\ IsFiniteSet(Proc) /\ IsFiniteSet(Name)
    /\ None \notin Proc /\ {".", ".."} \cap Name = {}

VARIABLES
    dinode,     \* struct dinode of each inode, on disk
    inode,      \* the copy in the cache, correct if valid
    ref, valid, \* of each cache entry
    lock,       \* the process that holds ip->lock
    ents,       \* content of each directory: the inode of each name, 0 if none
    used,       \* the bitmap: blocks in use
    ind,        \* content of each block that is an indirect block
    puts,       \* of each process: the iput()s it is in or about to do
    panicked

diskvars  == <<dinode, ents, used, ind>>
cachevars == <<inode, ref, valid, lock>>

Inum == 1 .. NINODES
ROOTINO == 1
Entry == Name \cup {".", ".."}
NoEnts == [n \in Entry |-> 0]
Dinode == [type : {"none", "dir", "file", "device"}, nlink : Int, size : 0 .. 2,
           direct : Block \cup {0}, indirect : Block \cup {0}]
Unused == [type |-> "none", nlink |-> 0, size |-> 0, direct |-> 0, indirect |-> 0]

-----------------------------------------------------------------------------
(***************************************************************************)
(* Blocks of a file.                                                       *)
(***************************************************************************)

\* The blocks an inode record leads to, as places <<where, block>>.
Places(r) ==
    {pl \in {<<"direct", r.direct>>, <<"indirect", r.indirect>>} : pl[2] # 0}
    \cup (IF r.indirect # 0 /\ ind[r.indirect] # 0
          THEN {<<"entry", ind[r.indirect]>>} ELSE {})

\* Mutant: the indirect block itself is kept.
itrunc_keep(r) == {pl[2] : pl \in {q \in Places(r) : q[1] # "indirect"}}

\* itrunc(): the blocks it frees, and the record it leaves.
itrunc(r) == {pl[2] : pl \in Places(r)}
Truncated(r) == [r EXCEPT !.size = 0, !.direct = 0, !.indirect = 0]

\* The bitmap after bfree() of each block in bs, and its panic.
bfree(bs) == used \ bs
bfree_panics(bs) == ~(bs \subseteq used)

\* balloc() takes the first free block.
balloc(u) == CHOOSE b \in Block \ u : \A c \in Block \ u : b <= c

\* bmap() for the block at offset off of a file with record r: the record, the
\* bitmap and the indirect entries after it.  balloc() clears what it takes.
bmap(r, off) ==
    IF off = 0
    THEN IF r.direct # 0 THEN [r |-> r, used |-> used, ind |-> ind]
         ELSE LET b == balloc(used)
              IN  [r |-> [r EXCEPT !.direct = b], used |-> used \cup {b},
                   ind |-> [ind EXCEPT ![b] = 0]]
    ELSE LET new == r.indirect = 0
             b  == IF new THEN balloc(used) ELSE r.indirect
             u1 == used \cup {b}
             i1 == IF new THEN [ind EXCEPT ![b] = 0] ELSE ind
             r1 == [r EXCEPT !.indirect = b]
         IN  IF i1[b] # 0 THEN [r |-> r1, used |-> u1, ind |-> i1]
             ELSE LET c == balloc(u1)
                  IN  [r |-> r1, used |-> u1 \cup {c},
                       ind |-> [i1 EXCEPT ![c] = 0, ![b] = c]]

\* A bound: balloc() panics when it finds no free block, and bmap() takes up to
\* two.
BlocksLeft == Cardinality(Block \ used) >= 2

-----------------------------------------------------------------------------
(***************************************************************************)
(* Cache entries.                                                          *)
(***************************************************************************)

\* Whether ilock(i) gets the lock, the record it then has, and its panic.
Free(i) == lock[i] = None
Cur(i)  == IF valid[i] THEN inode[i] ELSE dinode[i]
NoType(i) == ~valid[i] /\ dinode[i].type = "none"

\* The cache after ilock(i) with nothing of i changed.
ilock(i) == [inode EXCEPT ![i] = Cur(i)]
Loaded(i) == [valid EXCEPT ![i] = TRUE]

iunlock(i) == [lock EXCEPT ![i] = None]

\* Mutant: iupdate() is left out.
Write_cached(i, r) == inode' = [inode EXCEPT ![i] = r] /\ UNCHANGED dinode

\* A change of i's record, with iupdate().
Write(i, r) ==
    /\ inode' = [inode EXCEPT ![i] = r]
    /\ dinode' = [dinode EXCEPT ![i] = r]

\* ref and valid after an iget() of j, taken with valid as v.
iget_ref(j) == [ref EXCEPT ![j] = @ + 1]
iget_valid(v, j) == [v EXCEPT ![j] = IF ref[j] = 0 THEN FALSE ELSE @]

\* ialloc(): the first free inode on disk.
FreeInodes == {i \in Inum : dinode[i].type = "none"}
ialloc == CHOOSE i \in FreeInodes : \A j \in FreeInodes : i <= j

\* Mutant: the reference count is not tested.
iput_last_shared(i) == valid[i] /\ inode[i].nlink = 0

\* The test of iput(), under icache.lock.
iput_last(i) == ref[i] = 1 /\ valid[i] /\ inode[i].nlink = 0

\* iput(), up to acquiresleep() if it has to free the inode, or all of it.
iput(p) ==
    /\ puts[p] # <<>> /\ Head(puts[p]).at = "test" /\ ~panicked
    /\ LET i == Head(puts[p]).i
       IN  IF iput_last(i)
           THEN /\ Free(i)
                /\ lock' = [lock EXCEPT ![i] = p]
                /\ puts' = [puts EXCEPT ![p][1].at = "free"]
                /\ UNCHANGED ref
           ELSE /\ ref' = [ref EXCEPT ![i] = @ - 1]
                /\ puts' = [puts EXCEPT ![p] = Tail(@)]
                /\ UNCHANGED lock
    /\ UNCHANGED <<diskvars, inode, valid, panicked>>

\* iput() frees the inode and its content on disk: ialloc() may take the inode
\* from here on.  bfree() panics on a free block.
iput_free(p) ==
    /\ puts[p] # <<>> /\ Head(puts[p]).at = "free" /\ ~panicked
    /\ LET i == Head(puts[p]).i
           r == [Truncated(inode[i]) EXCEPT !.type = "none"]
       IN  /\ panicked' = bfree_panics(itrunc(inode[i]))
           /\ used' = bfree(itrunc(inode[i]))
           /\ Write(i, r)
           /\ ents' = [ents EXCEPT ![i] = NoEnts]
    /\ puts' = [puts EXCEPT ![p][1].at = "unlock"]
    /\ UNCHANGED <<ind, ref, valid, lock>>

\* Mutant: the cached copy stays valid.
iput_unlock_valid(p) ==
    /\ puts[p] # <<>> /\ Head(puts[p]).at = "unlock" /\ ~panicked
    /\ lock' = iunlock(Head(puts[p]).i)
    /\ puts' = [puts EXCEPT ![p][1].at = "drop"]
    /\ UNCHANGED <<diskvars, inode, ref, valid, panicked>>

\* iput() makes the cached copy invalid and unlocks it.
iput_unlock(p) ==
    /\ puts[p] # <<>> /\ Head(puts[p]).at = "unlock" /\ ~panicked
    /\ valid' = [valid EXCEPT ![Head(puts[p]).i] = FALSE]
    /\ lock' = iunlock(Head(puts[p]).i)
    /\ puts' = [puts EXCEPT ![p][1].at = "drop"]
    /\ UNCHANGED <<diskvars, inode, ref, panicked>>

\* iput() takes icache.lock again to drop the reference.
iput_drop(p) ==
    /\ puts[p] # <<>> /\ Head(puts[p]).at = "drop" /\ ~panicked
    /\ ref' = [ref EXCEPT ![Head(puts[p]).i] = @ - 1]
    /\ puts' = [puts EXCEPT ![p] = Tail(@)]
    /\ UNCHANGED <<diskvars, inode, valid, lock, panicked>>

\* The iput() of every inode in the sequence s, to be done by p before it goes on.
Put(p, s) ==
    puts' = [puts EXCEPT ![p] = [k \in DOMAIN s |-> [i |-> s[k], at |-> "test"]]]
=============================================================================
