---------------------------- MODULE FsInvariant ----------------------------
(***************************************************************************)
(* The inductive invariants behind the properties of modules Inode and Fs. *)
(***************************************************************************)
EXTENDS Fs, CommonLemmas

\* TypeOK in parts.
DiskType ==
    /\ dinode \in [Inum -> Dinode] /\ ents \in [Inum -> [Entry -> Inum \cup {0}]]
    /\ used \subseteq Block /\ ind \in [Block -> Block \cup {0}]
CacheType ==
    /\ inode \in [Inum -> Dinode] /\ ref \in [Inum -> Nat] /\ valid \in [Inum -> BOOLEAN]
    /\ lock \in [Inum -> Proc \cup {None}] /\ panicked \in BOOLEAN
PutRec == [i : Inum, at : {"test", "free", "unlock", "drop"}]
ProcType ==
    /\ puts \in [Proc -> Seq(PutRec)]
    /\ pc \in [Proc -> PCs] /\ call \in [Proc -> Calls \cup {NoCall}]
    /\ path \in [Proc -> Seq(Entry)]
    /\ dp \in [Proc -> Inum \cup {0}] /\ ip \in [Proc -> Inum \cup {0}]
FileRec == [ref : Nat, ip : Inum \cup {0}, off : 0 .. MAXFILE, writable : BOOLEAN]
FileType ==
    /\ cwd \in [Proc -> Inum \cup {0}]
    /\ ofile \in [Proc -> [1 .. NOFILE -> 0 .. NFILE]]
    /\ ends \in [Proc -> Seq(1 .. NFILE)] /\ file \in [1 .. NFILE -> FileRec]
RestType == calls \in 0 .. MaxCalls /\ lost \subseteq Inum

-----------------------------------------------------------------------------
(***************************************************************************)
(* The inductive invariant.                                                *)
(***************************************************************************)
\* The inodes of the iput()s a process has to do, 0 for none.
First(p)  == IF 1 \in DOMAIN puts[p] THEN puts[p][1].i ELSE 0
Second(p) == IF 2 \in DOMAIN puts[p] THEN puts[p][2].i ELSE 0

\* The inode an open file refers to.
FileIp(f) == IF file[f].ref > 0 THEN file[f].ip ELSE 0

\* Where in a call a process has pointers, and which.
PtrRow(p) ==
    /\ dp[p] # 0 <=> pc[p] \in {"walk", "parent", "create_new", "unlink"}
    /\ pc[p] \in {"run", "pipealloc", "pipe"} => ip[p] = 0
    /\ pc[p] \in {"create_found", "created", "unlink", "unlinked", "link_bad"} => ip[p] # 0
    /\ pc[p] = "create_new" => ip[p] # 0 \/ panicked
    /\ pc[p] = "walk" /\ ip[p] # 0 => call[p].op = "link"
    /\ pc[p] = "link_bad" => call[p].op = "link"
    /\ pc[p] = "parent" => (ip[p] # 0 <=> call[p].op = "link")
    /\ pc[p] \in {"parent", "create_new", "unlink"} => path[p] # <<>>
    /\ cwd[p] = 0 => pc[p] = "run" /\ \A fd \in 1 .. NOFILE : ofile[p][fd] = 0
PtrInv == \A p \in Proc : PtrRow(p)

\* At most two iput()s are left, and only the first is under way.  It is not of
\* an inode that the process has kept locked.
PutRow(p) ==
    /\ Len(puts[p]) <= 2
    /\ 2 \in DOMAIN puts[p] => puts[p][2].at = "test"
    /\ pc[p] \in {"created", "unlinked"} => First(p) # ip[p] /\ Second(p) = 0
    /\ pc[p] \in {"parent", "create_new", "unlink"} => puts[p] = <<>>
PutInv == \A p \in Proc : PutRow(p)

\* The sleep locks that p holds from one step to the next.
Iputting(p, i, at) == 1 \in DOMAIN puts[p] /\ puts[p][1].i = i /\ puts[p][1].at = at
Holds(p, i) ==
    \/ pc[p] \in {"create_new", "unlink"} /\ dp[p] = i
    \/ pc[p] \in {"created", "unlinked"} /\ ip[p] = i
    \/ Iputting(p, i, "free") \/ Iputting(p, i, "unlock")
LockInv == \A p \in Proc, i \in Inum : lock[i] = p <=> Holds(p, i)

\* A file has the descriptors that refer to it, and pipe()'s.
EndRow(p) ==
    /\ pc[p] \notin {"pipealloc", "pipe"} => ends[p] = <<>>
    /\ pc[p] = "pipealloc" => Len(ends[p]) = 1
    /\ pc[p] = "pipe" => Len(ends[p]) = 2 /\ ends[p][1] # ends[p][2]
    /\ \A k \in DOMAIN ends[p] : file[ends[p][k]].ref = 1 /\ file[ends[p][k]].ip = 0
FileInv ==
    /\ \A f \in 1 .. NFILE : file[f].ref = 0 => file[f] = NoFile
    /\ \A p \in Proc : EndRow(p)

\* A copy in the cache is what is on disk, but between the two halves of iput();
\* and it is of an inode in use.
Copy(i) == inode[i] = dinode[i] /\ (dinode[i].type # "none" \/ panicked)
CacheInv ==
    \A i \in Inum :
        /\ lock[i] # None => valid[i]
        /\ valid[i] => Copy(i) \/ \E p \in Proc : Iputting(p, i, "unlock")

\* A directory that nameiparent() returned is not freed, nor is the inode that
\* link() found.
DirPCs == {"parent", "create_new", "unlink"}
Pins(p, i) == (pc[p] \in DirPCs /\ dp[p] = i) \/ (call[p].op = "link" /\ ip[p] = i)
PinRow(p) ==
    /\ pc[p] \in DirPCs => dinode[dp[p]].type = "dir"
    /\ call[p].op = "link" /\ ip[p] # 0 => dinode[ip[p]].type # "none" \/ panicked
PinInv ==
    /\ \A p \in Proc : PinRow(p)
    /\ \A p, q \in Proc, i \in Inum :
            Pins(p, i) => ~Iputting(q, i, "free") /\ ~Iputting(q, i, "unlock")

\* The pointers to an inode, and RefsCounted in terms of them.
Firsts  == [p \in Proc |-> First(p)]
Seconds == [p \in Proc |-> Second(p)]
FileIps == [f \in 1 .. NFILE |-> FileIp(f)]
RefSum ==
    \A i \in Inum : ref[i] = NumOf(cwd, i) + NumOf(dp, i) + NumOf(ip, i)
                           + NumOf(Firsts, i) + NumOf(Seconds, i) + NumOf(FileIps, i)

\* The descriptors of a file, and the pipe()s it is an end of.
Fds == [x \in Proc \X (1 .. NOFILE) |-> ofile[x[1]][x[2]]]
Piping(f) == {p \in Proc : f \in Range(ends[p])}
FdSum == \A f \in 1 .. NFILE : file[f].ref = NumOf(Fds, f) + Cardinality(Piping(f))

\* A free inode has no blocks.
FreeInv == \A i \in Inum : dinode[i].type = "none" => dinode[i].direct = 0 /\ dinode[i].indirect = 0

\* The blocks of an inode by their place, and BlocksOwned in terms of them.
Kinds == {"direct", "indirect", "entry"}
BlkOf(r, nd, k) ==
    CASE k = "direct"   -> r.direct
      [] k = "indirect" -> r.indirect
      [] OTHER          -> IF r.indirect = 0 THEN 0 ELSE nd[r.indirect]
Sized(r, nd) ==
    r.type = "file" => /\ r.size > 0 => r.direct # 0
                       /\ r.size > 1 => r.indirect # 0 /\ nd[r.indirect] # 0
OwnedBy(i, k, b) == BlkOf(dinode[i], ind, k) = b
BlkInv ==
    /\ \A i, j \in Inum, k, l \in Kinds, b \in Block :
            OwnedBy(i, k, b) /\ OwnedBy(j, l, b) => i = j /\ k = l
    /\ \A b \in Block : b \in used <=> \E i \in Inum, k \in Kinds : OwnedBy(i, k, b)
    /\ \A i \in Inum : Sized(dinode[i], ind)

\* The invariant of references, locks and blocks.
IInv ==
    /\ TypeOK /\ PtrInv /\ PutInv /\ LockInv /\ FileInv /\ RefSum /\ FdSum
    /\ CacheInv /\ PinInv /\ FreeInv /\ BlkInv

-----------------------------------------------------------------------------
(***************************************************************************)
(* The directory tree.  Its invariant holds for calls whose paths do not   *)
(* go up by "..": the ".." of a directory that was removed may lead to an  *)
(* inode that was freed.                                                   *)
(***************************************************************************)
Climbs(s) == \E k \in DOMAIN s : s[k] = ".."
NoDotDot == \A c \in Calls : ~Climbs(Elems(c.path)) /\ ~Climbs(Elems(c.to))

\* An inode that p's create() has allocated and not entered yet, and an inode that
\* is free, in that state, or about to be freed.
Fresh(p, i) == pc[p] = "create_new" /\ ip[p] = i
Vacant(i) == dinode[i].type = "none" \/ \E p \in Proc : Fresh(p, i) \/ Iputting(p, i, "free")

\* Nobody has a pointer to a vacant inode but who allocates it or frees it, and
\* those who are through with freeing it.
Uses(q, i) ==
    \/ cwd[q] = i \/ dp[q] = i \/ Second(q) = i \/ Iputting(q, i, "test")
    \/ ip[q] = i /\ pc[q] # "create_new"
UseInv ==
    \A i \in Inum : Vacant(i) =>
        /\ dinode[i].nlink = 0
        /\ \A q \in Proc : ~Uses(q, i)
        /\ \A f \in 1 .. NFILE : FileIp(f) # i
FreshInv ==
    \A p \in Proc, i \in Inum : Fresh(p, i) =>
        /\ dinode[i].type # "none"
        /\ \A q \in Proc : ~Iputting(q, i, "free") /\ (Fresh(q, i) => q = p)

\* Only directories have entries, and they have ".".
Made(d) == dinode[d].type = "dir" /\ \A p \in Proc : ~Fresh(p, d)
EntInv ==
    \A d \in Inum : /\ Made(d) => ents[d]["."] = d
                    /\ ~Made(d) => \A n \in Entry : ents[d][n] = 0

\* A directory has one name at most, in its "..".
NameInv ==
    \A d, i \in Inum, n \in Name : ents[d][n] = i /\ dinode[i].type = "dir" =>
        /\ i # ROOTINO /\ ents[i][".."] = d
        /\ \A e \in Inum, m \in Name : ents[e][m] = i => e = d /\ m = n
RootInv == dinode[ROOTINO].type = "dir" /\ ents[ROOTINO][".."] = ROOTINO

\* link() has no directory in hand; the entry that unlink() erases, and the one
\* that create() makes, are as they were found; and no path goes up.
LinkRow(p) ==
    call[p].op = "link" => /\ pc[p] \in {"walk", "parent", "link_bad"}
                           /\ ip[p] # 0 => dinode[ip[p]].type # "dir"
EntRow(p) ==
    /\ pc[p] = "unlink" => Name1(p) \in Name /\ ents[dp[p]][Name1(p)] = ip[p]
    /\ pc[p] = "create_new" => Name1(p) \in Name /\ ents[dp[p]][Name1(p)] = 0
Row(p) == LinkRow(p) /\ EntRow(p) /\ ~Climbs(path[p])
RowInv == \A p \in Proc : Row(p)

\* LinksCounted as a sum: names, the ".." of named directories, and links under way.
NameOf == [x \in Inum \X Name |-> ents[x[1]][x[2]]]
Parents == [d \in Inum |-> IF Named(d) THEN ents[d][".."] ELSE 0]
Pend(p) == IF pc[p] = "unlinked" \/ call[p].op = "link" THEN ip[p] ELSE 0
Pendings == [p \in Proc |-> Pend(p)]
Count(i) == NumOf(NameOf, i) + NumOf(Parents, i) + NumOf(Pendings, i)
CountInv ==
    \A i \in Inum : /\ dinode[i].nlink >= Count(i)
                    /\ i \notin lost => dinode[i].nlink = Count(i)

\* The one panic left is ialloc()'s.
TreeInv ==
    /\ UseInv /\ FreshInv /\ EntInv /\ NameInv /\ RootInv /\ RowInv /\ CountInv
    /\ panicked => FreeInodes = {}
=============================================================================
