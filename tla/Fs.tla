---------------------------------- MODULE Fs ----------------------------------
(***************************************************************************)
(* The upper half of kernel/fs.c (directories, path names), kernel/file.c  *)
(* and the file system calls of kernel/sysfile.c, run by concurrent        *)
(* processes.                                                              *)
(*                                                                         *)
(* A step covers what a process does while it holds one inode's sleep lock;*)
(* lock[i] is kept from one step to the next only where the code takes a   *)
(* second lock, or calls iput(), with the first still held.  The iput()s   *)
(* that end a piece of code are queued in puts[p] and done one after the   *)
(* other before the process goes on.                                       *)
(***************************************************************************)
EXTENDS Inode, Functions

CONSTANTS
    InitProc,   \* the first process, which does not exit
    Calls,      \* the path calls: [op, path, to, mode], path[1] = "/" if absolute
    MaxCalls,   \* bound on the calls of all processes
    NOFILE, NFILE

ASSUME FsAssumption ==
    /\ InitProc \in Proc /\ MaxCalls \in Nat /\ NOFILE \in Nat \ {0} /\ NFILE \in Nat \ {0}
    /\ NINODES >= 3 /\ Block # {} /\ {"a", "d"} \subseteq Name     \* room for Init's image

VARIABLES
    pc, call, path,     \* where p is, the call it is in, and the path left to walk
    dp, ip,             \* its inode pointers, 0 if none
    cwd, ofile,         \* p->cwd (0: no such process) and p->ofile[]
    ends,               \* rf and wf of a pipe() under way
    file,               \* ftable.file[]
    calls,              \* calls made so far
    lost                \* inodes whose name went with a removed directory

procvars == <<pc, call, path, dp, ip>>
filevars == <<cwd, ofile, ends, file>>
vars == <<diskvars, cachevars, puts, panicked, procvars, filevars, calls, lost>>

NoCall == [op |-> "none", path |-> <<>>, to |-> <<>>, mode |-> "none"]
NoFile == [ref |-> 0, ip |-> 0, off |-> 0, writable |-> FALSE]
MAXFILE == 2

\* An image with a file of one block at /a and an empty directory /d, and
\* processes that all started in the root.
Init ==
    LET root == [Unused EXCEPT !.type = "dir", !.nlink = 2]
        b    == balloc({})
        rec  == [i \in Inum |->
                   CASE i = ROOTINO -> root
                     [] i = 2 -> [Unused EXCEPT !.type = "file", !.nlink = 1,
                                                !.size = 1, !.direct = b]
                     [] i = 3 -> [Unused EXCEPT !.type = "dir", !.nlink = 1]
                     [] OTHER -> Unused]
    IN  /\ dinode = rec /\ inode = [i \in Inum |-> Unused]
        /\ ents = [i \in Inum |->
                     CASE i = ROOTINO -> [n \in Entry |->
                            CASE n \in {".", ".."} -> ROOTINO
                              [] n = "a" -> 2 [] n = "d" -> 3 [] OTHER -> 0]
                       [] i = 3 -> [NoEnts EXCEPT !["."] = 3, ![".."] = ROOTINO]
                       [] OTHER -> NoEnts]
        /\ used = {b} /\ ind = [c \in Block |-> 0]
        /\ ref = [i \in Inum |-> IF i = ROOTINO THEN Cardinality(Proc) ELSE 0]
        /\ valid = [i \in Inum |-> FALSE] /\ lock = [i \in Inum |-> None]
        /\ puts = [p \in Proc |-> <<>>] /\ panicked = FALSE
        /\ pc = [p \in Proc |-> "run"] /\ call = [p \in Proc |-> NoCall]
        /\ path = [p \in Proc |-> <<>>]
        /\ dp = [p \in Proc |-> 0] /\ ip = [p \in Proc |-> 0]
        /\ cwd = [p \in Proc |-> ROOTINO]
        /\ ofile = [p \in Proc |-> [fd \in 1 .. NOFILE |-> 0]]
        /\ ends = [p \in Proc |-> <<>>] /\ file = [f \in 1 .. NFILE |-> NoFile]
        /\ calls = 0 /\ lost = {}

-----------------------------------------------------------------------------
(***************************************************************************)
(* Pieces of steps.                                                        *)
(***************************************************************************)

\* p is at the place c with no iput() left to do.
At(p, c) == pc[p] = c /\ puts[p] = <<>> /\ ~panicked

\* The call ends with the iput()s of s.
Return(p, s) ==
    /\ pc' = [pc EXCEPT ![p] = "run"] /\ call' = [call EXCEPT ![p] = NoCall]
    /\ path' = [path EXCEPT ![p] = <<>>]
    /\ dp' = [dp EXCEPT ![p] = 0] /\ ip' = [ip EXCEPT ![p] = 0]
    /\ Put(p, s)

Goto(p, c) == pc' = [pc EXCEPT ![p] = c]

\* The last element, for calls that use nameiparent().
Name1(p) == path[p][Len(path[p])]

\* The namex() under way is a nameiparent().
Parent(p) ==
    \/ call[p].op \in {"mkdir", "mknod", "unlink"}
    \/ call[p].op = "open" /\ call[p].mode = "create"
    \/ call[p].op = "link" /\ ip[p] # 0

\* dirlookup() of n in d: the inode, 0 if there is none; and the directory's
\* content after dirlink() of a new name.
dirlookup(d, n) == ents[d][n]
dirlink(d, n, i) == [ents EXCEPT ![d][n] = i]

\* Where namex() starts, and the elements it then walks.
Start(p, s) == IF s # <<>> /\ s[1] = "/" THEN ROOTINO ELSE cwd[p]
Elems(s) == IF s # <<>> /\ s[1] = "/" THEN Tail(s) ELSE s

\* Paths are made of path elements.
ASSUME CallsAssumption ==
    \A c \in Calls :
        /\ c.op \in {"open", "mkdir", "mknod", "unlink", "link", "chdir"}
        /\ Elems(c.path) \in Seq(Entry) /\ Elems(c.to) \in Seq(Entry)

-----------------------------------------------------------------------------
(***************************************************************************)
(* Path names.                                                             *)
(***************************************************************************)

\* A call with a path: begin_op() and the iget() or idup() of namex().
sys_path(p, c) ==
    /\ At(p, "run") /\ cwd[p] # 0 /\ calls < MaxCalls
    /\ calls' = calls + 1
    /\ LET i == Start(p, c.path)
       IN  /\ ref' = iget_ref(i) /\ valid' = iget_valid(valid, i)
           /\ dp' = [dp EXCEPT ![p] = i]
    /\ call' = [call EXCEPT ![p] = c]
    /\ path' = [path EXCEPT ![p] = Elems(c.path)]
    /\ Goto(p, "walk")
    /\ UNCHANGED <<diskvars, inode, lock, puts, panicked, ip, filevars, lost>>

\* A lookup that fails: the call returns -1, but link() first undoes its count.
namex_fail(p, i) ==
    IF call[p].op = "link" /\ ip[p] # 0
    THEN /\ Goto(p, "link_bad") /\ dp' = [dp EXCEPT ![p] = 0] /\ Put(p, <<i>>)
         /\ UNCHANGED <<call, path, ip>>
    ELSE Return(p, <<i>>)

\* One round of namex()'s loop, or its end for a nameiparent() of "/".
namex(p) ==
    /\ At(p, "walk") /\ (Parent(p) \/ path[p] # <<>>)
    /\ LET i == dp[p]
       IN  IF path[p] = <<>>
           THEN namex_fail(p, i) /\ UNCHANGED <<inode, ref, valid, panicked>>
           ELSE /\ Free(i) /\ inode' = ilock(i) /\ panicked' = NoType(i)
                /\ LET next == dirlookup(i, Head(path[p]))
                   IN  \/ /\ Cur(i).type # "dir"
                          /\ namex_fail(p, i) /\ valid' = Loaded(i) /\ UNCHANGED ref
                       \/ /\ Cur(i).type = "dir" /\ Parent(p) /\ Len(path[p]) = 1
                          /\ Goto(p, "parent") /\ valid' = Loaded(i)
                          /\ UNCHANGED <<ref, puts, call, path, dp, ip>>
                       \/ /\ Cur(i).type = "dir" /\ ~(Parent(p) /\ Len(path[p]) = 1)
                          /\ next = 0
                          /\ namex_fail(p, i) /\ valid' = Loaded(i) /\ UNCHANGED ref
                       \/ /\ Cur(i).type = "dir" /\ ~(Parent(p) /\ Len(path[p]) = 1)
                          /\ next # 0
                          /\ ref' = iget_ref(next)
                          /\ valid' = iget_valid(Loaded(i), next)
                          /\ dp' = [dp EXCEPT ![p] = next]
                          /\ path' = [path EXCEPT ![p] = Tail(@)]
                          /\ Put(p, <<i>>) /\ UNCHANGED <<pc, call, ip>>
    /\ UNCHANGED <<diskvars, lock, filevars, calls, lost>>

\* namei() returned dp[p], and op is the call.
Namei(p, op) ==
    At(p, "walk") /\ path[p] = <<>> /\ call[p].op = op /\ ~Parent(p) /\ Free(dp[p])

\* nameiparent() returned dp[p], which the call locks again.
Nameiparent(p, ops) == At(p, "parent") /\ call[p].op \in ops /\ Free(dp[p])

-----------------------------------------------------------------------------
(***************************************************************************)
(* create(), and the calls that use it.                                    *)
(***************************************************************************)

\* create(): look the name up in dp, or allocate an inode for it.
create(p) ==
    /\ Nameiparent(p, {"open", "mkdir", "mknod"})
    /\ LET j == dirlookup(dp[p], Name1(p))
       IN  IF j # 0
           THEN /\ ref' = iget_ref(j)
                /\ valid' = iget_valid(Loaded(dp[p]), j)
                /\ ip' = [ip EXCEPT ![p] = j] /\ dp' = [dp EXCEPT ![p] = 0]
                /\ Put(p, <<dp[p]>>) /\ Goto(p, "create_found")
                /\ UNCHANGED <<lock, dinode, panicked>>
           ELSE /\ panicked' = (FreeInodes = {})
                /\ lock' = [lock EXCEPT ![dp[p]] = p]
                /\ IF FreeInodes = {}
                   THEN valid' = Loaded(dp[p]) /\ UNCHANGED <<ref, dinode, ip>>
                   ELSE /\ ref' = iget_ref(ialloc)
                        /\ valid' = iget_valid(Loaded(dp[p]), ialloc)
                        /\ ip' = [ip EXCEPT ![p] = ialloc]
                        /\ dinode' = [dinode EXCEPT ![ialloc] =
                             [Unused EXCEPT !.type =
                               CASE call[p].op = "open" -> "file"
                                 [] call[p].op = "mkdir" -> "dir"
                                 [] OTHER -> "device"]]
                /\ Goto(p, "create_new") /\ UNCHANGED <<puts, dp>>
    /\ inode' = ilock(dp[p])
    /\ UNCHANGED <<ents, used, ind, call, path, filevars, calls, lost>>

\* create() of a name that exists: only open() of a file or device goes on.
create_found(p) ==
    /\ At(p, "create_found") /\ Free(ip[p])
    /\ inode' = ilock(ip[p]) /\ valid' = Loaded(ip[p]) /\ panicked' = NoType(ip[p])
    /\ IF call[p].op = "open" /\ Cur(ip[p]).type \in {"file", "device"}
       THEN /\ lock' = [lock EXCEPT ![ip[p]] = p] /\ Goto(p, "created")
            /\ UNCHANGED <<puts, call, path, dp, ip>>
       ELSE Return(p, <<ip[p]>>) /\ UNCHANGED lock
    /\ UNCHANGED <<diskvars, ref, filevars, calls, lost>>

\* create() locks the new inode, fills it in and enters it in dp.
create_new(p) ==
    /\ At(p, "create_new") /\ Free(ip[p])
    /\ LET i == ip[p]
           d == dp[p]
           r == [Cur(i) EXCEPT !.nlink = 1]
           dr == IF r.type = "dir" THEN [inode[d] EXCEPT !.nlink = @ + 1] ELSE inode[d]
           dots == IF r.type = "dir" THEN [ents[i] EXCEPT !["."] = i, ![".."] = d] ELSE ents[i]
       IN  /\ inode' = [inode EXCEPT ![i] = r, ![d] = dr]
           /\ dinode' = [dinode EXCEPT ![i] = r, ![d] = dr]
           /\ ents' = [dirlink(d, Name1(p), i) EXCEPT ![i] = dots]
           /\ valid' = Loaded(i)
           /\ panicked' = NoType(i)
           /\ lock' = [iunlock(d) EXCEPT ![i] = p]
           /\ dp' = [dp EXCEPT ![p] = 0]
           /\ Put(p, <<d>>)
    /\ Goto(p, "created")
    /\ UNCHANGED <<used, ind, ref, call, path, ip, filevars, calls, lost>>

\* sys_mkdir(), sys_mknod(): iunlockput() of the inode create() returned locked.
sys_mkdir(p) ==
    /\ At(p, "created") /\ call[p].op \in {"mkdir", "mknod"}
    /\ lock' = iunlock(ip[p])
    /\ Return(p, <<ip[p]>>)
    /\ UNCHANGED <<diskvars, inode, ref, valid, panicked, filevars, calls, lost>>

\* sys_open() without O_CREATE: lock what namei() found; only a read-only open
\* of a directory goes on.
sys_open(p) ==
    /\ Namei(p, "open")
    /\ LET i == dp[p]
       IN  /\ inode' = ilock(i) /\ valid' = Loaded(i) /\ panicked' = NoType(i)
           /\ IF Cur(i).type = "dir" /\ call[p].mode # "rdonly"
              THEN Return(p, <<i>>) /\ UNCHANGED lock
              ELSE /\ lock' = [lock EXCEPT ![i] = p]
                   /\ ip' = [ip EXCEPT ![p] = i] /\ dp' = [dp EXCEPT ![p] = 0]
                   /\ Goto(p, "created") /\ UNCHANGED <<puts, call, path>>
    /\ UNCHANGED <<diskvars, ref, filevars, calls, lost>>

\* filealloc() and fdalloc(): the first free slots, if there are any.
filealloc == {f \in 1 .. NFILE : file[f].ref = 0 /\ \A g \in 1 .. f - 1 : file[g].ref # 0}
fdalloc(p) == {fd \in 1 .. NOFILE : ofile[p][fd] = 0 /\ \A e \in 1 .. fd - 1 : ofile[p][e] # 0}

\* sys_open() with the inode locked: the file, the descriptor, and O_TRUNC.
open_file(p) ==
    /\ At(p, "created") /\ call[p].op = "open"
    /\ lock' = iunlock(ip[p])
    /\ \/ /\ filealloc = {} \/ fdalloc(p) = {}
          /\ Return(p, <<ip[p]>>)
          /\ UNCHANGED <<file, ofile, inode, dinode, used, panicked>>
       \/ \E f \in filealloc, fd \in fdalloc(p) :
          /\ file' = [file EXCEPT ![f] = [ref |-> 1, ip |-> ip[p], off |-> 0,
                        writable |-> call[p].mode # "rdonly"]]
          /\ ofile' = [ofile EXCEPT ![p][fd] = f]
          /\ Return(p, <<>>)
          /\ IF call[p].mode = "trunc" /\ inode[ip[p]].type = "file"
             THEN /\ Write(ip[p], Truncated(inode[ip[p]]))
                  /\ used' = bfree(itrunc(inode[ip[p]]))
                  /\ panicked' = bfree_panics(itrunc(inode[ip[p]]))
             ELSE UNCHANGED <<inode, dinode, used, panicked>>
    /\ UNCHANGED <<ents, ind, ref, valid, cwd, ends, calls, lost>>

-----------------------------------------------------------------------------
(***************************************************************************)
(* unlink(), link() and chdir().                                           *)
(***************************************************************************)

\* sys_unlink(): find the entry, keeping dp locked.
sys_unlink(p) ==
    /\ Nameiparent(p, {"unlink"})
    /\ LET j == dirlookup(dp[p], Name1(p))
       IN  IF j = 0 \/ Name1(p) \in {".", ".."}
           THEN Return(p, <<dp[p]>>) /\ valid' = Loaded(dp[p]) /\ UNCHANGED <<ref, lock>>
           ELSE /\ ref' = iget_ref(j)
                /\ valid' = iget_valid(Loaded(dp[p]), j)
                /\ lock' = [lock EXCEPT ![dp[p]] = p]
                /\ ip' = [ip EXCEPT ![p] = j]
                /\ Goto(p, "unlink") /\ UNCHANGED <<puts, call, path, dp>>
    /\ inode' = ilock(dp[p])
    /\ UNCHANGED <<diskvars, panicked, filevars, calls, lost>>

\* isdirempty()
isdirempty(i) == \A n \in Name : ents[i][n] = 0

\* sys_unlink() locks the inode as well, refuses a directory in use, or erases
\* the entry and puts dp.
unlink_entry(p) ==
    /\ At(p, "unlink") /\ Free(ip[p])
    /\ LET i == ip[p]
           d == dp[p]
           isdir == Cur(i).type = "dir"
           dr == IF isdir THEN [inode[d] EXCEPT !.nlink = @ - 1] ELSE inode[d]
       IN  /\ panicked' = (NoType(i) \/ Cur(i).nlink < 1)
           /\ valid' = Loaded(i)
           /\ IF isdir /\ ~isdirempty(i)
              THEN /\ inode' = ilock(i) /\ lock' = iunlock(d)
                   /\ Return(p, <<i, d>>) /\ UNCHANGED <<dinode, ents>>
              ELSE /\ inode' = [inode EXCEPT ![i] = Cur(i), ![d] = dr]
                   /\ dinode' = [dinode EXCEPT ![d] = dr]
                   /\ ents' = [ents EXCEPT ![d][Name1(p)] = 0]
                   /\ lock' = [iunlock(d) EXCEPT ![i] = p]
                   /\ dp' = [dp EXCEPT ![p] = 0]
                   /\ Put(p, <<d>>) /\ Goto(p, "unlinked") /\ UNCHANGED <<call, path, ip>>
    /\ UNCHANGED <<used, ind, ref, filevars, calls, lost>>

\* The end of sys_unlink(): one link less.
unlink_inode(p) ==
    /\ At(p, "unlinked")
    /\ Write(ip[p], [inode[ip[p]] EXCEPT !.nlink = @ - 1])
    /\ lock' = iunlock(ip[p])
    /\ Return(p, <<ip[p]>>)
    /\ UNCHANGED <<ents, used, ind, ref, valid, panicked, filevars, calls, lost>>

\* sys_link(): count the link, then look for the directory to put it in.
sys_link(p) ==
    /\ Namei(p, "link")
    /\ LET i == dp[p]
           s == Start(p, call[p].to)
       IN  /\ panicked' = NoType(i)
           /\ IF Cur(i).type = "dir"
              THEN inode' = ilock(i) /\ Return(p, <<i>>) /\ valid' = Loaded(i) /\ UNCHANGED <<ref, dinode>>
              ELSE /\ Write(i, [Cur(i) EXCEPT !.nlink = @ + 1])
                   /\ ref' = iget_ref(s) /\ valid' = iget_valid(Loaded(i), s)
                   /\ ip' = [ip EXCEPT ![p] = i] /\ dp' = [dp EXCEPT ![p] = s]
                   /\ path' = [path EXCEPT ![p] = Elems(call[p].to)]
                   /\ UNCHANGED <<pc, call, puts>>
    /\ UNCHANGED <<ents, used, ind, lock, filevars, calls, lost>>

\* dirlink() in the directory found, or the way out if the name is taken.
link_entry(p) ==
    /\ Nameiparent(p, {"link"})
    /\ LET d == dp[p]
           j == dirlookup(d, Name1(p))
       IN  /\ inode' = ilock(d)
           /\ IF j # 0
              THEN /\ ref' = iget_ref(j) /\ valid' = iget_valid(Loaded(d), j)
                   /\ Put(p, <<j, d>>) /\ Goto(p, "link_bad")
                   /\ dp' = [dp EXCEPT ![p] = 0]
                   /\ UNCHANGED <<ents, call, path, ip>>
              ELSE /\ ents' = dirlink(d, Name1(p), ip[p])
                   /\ Return(p, <<d, ip[p]>>)
                   /\ valid' = Loaded(d) /\ UNCHANGED ref
    /\ UNCHANGED <<dinode, used, ind, lock, panicked, filevars, calls, lost>>

\* The bad: label of sys_link().
link_bad(p) ==
    /\ At(p, "link_bad") /\ Free(ip[p])
    /\ Write(ip[p], [Cur(ip[p]) EXCEPT !.nlink = @ - 1])
    /\ valid' = Loaded(ip[p])
    /\ Return(p, <<ip[p]>>)
    /\ UNCHANGED <<ents, used, ind, ref, lock, panicked, filevars, calls, lost>>

\* Mutant: the old directory is put before it is known that the new one is one.
sys_chdir_early(p) ==
    /\ Namei(p, "chdir")
    /\ LET i == dp[p]
       IN  /\ inode' = ilock(i) /\ valid' = Loaded(i) /\ panicked' = NoType(i)
           /\ IF Cur(i).type # "dir"
              THEN Return(p, <<cwd[p], i>>) /\ UNCHANGED cwd
              ELSE cwd' = [cwd EXCEPT ![p] = i] /\ Return(p, <<cwd[p]>>)
    /\ UNCHANGED <<diskvars, ref, lock, ofile, ends, file, calls, lost>>

sys_chdir(p) ==
    /\ Namei(p, "chdir")
    /\ LET i == dp[p]
       IN  /\ inode' = ilock(i) /\ valid' = Loaded(i) /\ panicked' = NoType(i)
           /\ IF Cur(i).type # "dir"
              THEN Return(p, <<i>>) /\ UNCHANGED cwd
              ELSE cwd' = [cwd EXCEPT ![p] = i] /\ Return(p, <<cwd[p]>>)
    /\ UNCHANGED <<diskvars, ref, lock, ofile, ends, file, calls, lost>>

-----------------------------------------------------------------------------
(***************************************************************************)
(* Calls on descriptors, fork() and exit().                                *)
(***************************************************************************)

\* A call on descriptor fd, which argfd() finds open.
OnFd(p, fd) == At(p, "run") /\ cwd[p] # 0 /\ calls < MaxCalls /\ ofile[p][fd] # 0

\* The file table after fileclose() and filedup() of f.
fileclose(f) ==
    IF file[f].ref = 1 THEN [file EXCEPT ![f] = NoFile] ELSE [file EXCEPT ![f].ref = @ - 1]
filedup(f) == [file EXCEPT ![f].ref = @ + 1]

\* sys_close(): the last descriptor of a file puts its inode, if it has one.
sys_close(p, fd) ==
    /\ OnFd(p, fd) /\ calls' = calls + 1
    /\ LET f == ofile[p][fd]
       IN  /\ panicked' = (file[f].ref < 1)
           /\ file' = fileclose(f)
           /\ Put(p, IF file[f].ref = 1 /\ file[f].ip # 0 THEN <<file[f].ip>> ELSE <<>>)
    /\ ofile' = [ofile EXCEPT ![p][fd] = 0]
    /\ UNCHANGED <<diskvars, cachevars, procvars, cwd, ends, lost>>

sys_dup(p, fd) ==
    /\ OnFd(p, fd) /\ calls' = calls + 1
    /\ \E e \in fdalloc(p) : ofile' = [ofile EXCEPT ![p][e] = ofile[p][fd]]
    /\ panicked' = (file[ofile[p][fd]].ref < 1)
    /\ file' = filedup(ofile[p][fd])
    /\ UNCHANGED <<diskvars, cachevars, puts, procvars, cwd, ends, lost>>

\* writei() of one block at off: it is refused beyond the end of the file or of
\* what a file can hold.  If either_copyin() cannot read the user's memory
\* (~copied) the block bmap() added stays with the file all the same.
writei_ok(r, off) == off <= r.size /\ off + 1 <= MAXFILE
writei(r, off, copied) ==
    LET m == bmap(r, off)
    IN  IF copied /\ off + 1 > r.size THEN [m EXCEPT !.r.size = off + 1] ELSE m

\* sys_write() and filewrite().
filewrite(p, fd, copied) ==
    /\ OnFd(p, fd) /\ calls' = calls + 1
    /\ LET f == ofile[p][fd]
           i == file[f].ip
           w == writei(Cur(i), file[f].off, copied)
       IN  /\ file[f].writable /\ i # 0 /\ Cur(i).type = "file" /\ Free(i)
           /\ writei_ok(Cur(i), file[f].off) /\ BlocksLeft
           /\ used' = w.used /\ ind' = w.ind /\ Write(i, w.r)
           /\ file' = IF copied THEN [file EXCEPT ![f].off = @ + 1] ELSE file
    /\ UNCHANGED <<ents, ref, valid, lock, puts, panicked, procvars, cwd, ofile, ends, lost>>

\* readi() of one block: how many it can read.
readi(r, off) == IF off < r.size THEN 1 ELSE 0

\* sys_read() and fileread().
fileread(p, fd) ==
    /\ OnFd(p, fd) /\ calls' = calls + 1
    /\ LET f == ofile[p][fd]
           i == file[f].ip
       IN  /\ i # 0 /\ Cur(i).type = "file" /\ Free(i)
           /\ file' = [file EXCEPT ![f].off = @ + readi(Cur(i), @)]
    /\ UNCHANGED <<diskvars, cachevars, puts, panicked, procvars, cwd, ofile, ends, lost>>

\* The files fs, which nobody else refers to, closed; and pipe() failing.
Closed(fs) == [f \in 1 .. NFILE |-> IF f \in Range(fs) THEN NoFile ELSE file[f]]
pipe_bad(p) ==
    /\ file' = Closed(ends[p]) /\ ends' = [ends EXCEPT ![p] = <<>>] /\ Goto(p, "run")
    /\ UNCHANGED ofile

\* sys_pipe() and pipealloc(): a file without an inode.
sys_pipe(p) ==
    /\ At(p, "run") /\ cwd[p] # 0 /\ calls < MaxCalls /\ calls' = calls + 1
    /\ \E f \in filealloc : /\ file' = [file EXCEPT ![f].ref = 1]
                            /\ ends' = [ends EXCEPT ![p] = <<f>>]
    /\ Goto(p, "pipealloc")
    /\ UNCHANGED <<diskvars, cachevars, puts, panicked, call, path, dp, ip, cwd, ofile, lost>>

\* pipealloc(): the other file and a page for the pipe, or the bad: label.
pipealloc(p, page) ==
    /\ At(p, "pipealloc")
    /\ IF filealloc = {} \/ ~page THEN pipe_bad(p)
       ELSE /\ \E f \in filealloc : /\ file' = [file EXCEPT ![f].ref = 1, ![f].writable = TRUE]
                                    /\ ends' = [ends EXCEPT ![p] = Append(@, f)]
            /\ Goto(p, "pipe") /\ UNCHANGED ofile
    /\ UNCHANGED <<diskvars, cachevars, puts, panicked, call, path, dp, ip, cwd, calls, lost>>

\* sys_pipe(): two descriptors and their numbers for the user, or none.
pipe_fds(p, copied) ==
    /\ At(p, "pipe")
    /\ \/ /\ copied
          /\ \E fd0 \in fdalloc(p) : \E fd1 \in fd0 + 1 .. NOFILE :
               /\ ofile[p][fd1] = 0 /\ \A e \in fd0 + 1 .. fd1 - 1 : ofile[p][e] # 0
               /\ ofile' = [ofile EXCEPT ![p][fd0] = ends[p][1], ![p][fd1] = ends[p][2]]
          /\ ends' = [ends EXCEPT ![p] = <<>>] /\ Goto(p, "run") /\ UNCHANGED file
       \/ /\ ~copied \/ Cardinality({fd \in 1 .. NOFILE : ofile[p][fd] = 0}) < 2
          /\ pipe_bad(p)
    /\ UNCHANGED <<diskvars, cachevars, puts, panicked, call, path, dp, ip, cwd, calls, lost>>

\* fork() as it concerns files: q gets p's descriptors and directory.
fork(p, q) ==
    /\ At(p, "run") /\ cwd[p] # 0 /\ cwd[q] = 0 /\ puts[q] = <<>> /\ calls < MaxCalls
    /\ calls' = calls + 1
    /\ ofile' = [ofile EXCEPT ![q] = ofile[p]]
    /\ file' = [f \in 1 .. NFILE |-> [file[f] EXCEPT !.ref =
                  @ + Cardinality({fd \in 1 .. NOFILE : ofile[p][fd] = f})]]
    /\ cwd' = [cwd EXCEPT ![q] = cwd[p]]
    /\ ref' = iget_ref(cwd[p])
    /\ UNCHANGED <<diskvars, inode, valid, lock, puts, panicked, procvars, ends, lost>>

\* exit() with all files closed: the directory is put.
exit(p) ==
    /\ At(p, "run") /\ cwd[p] # 0 /\ p # InitProc /\ calls < MaxCalls
    /\ \A fd \in 1 .. NOFILE : ofile[p][fd] = 0
    /\ calls' = calls + 1
    /\ Put(p, <<cwd[p]>>)
    /\ cwd' = [cwd EXCEPT ![p] = 0]
    /\ UNCHANGED <<diskvars, cachevars, panicked, procvars, ofile, ends, file, lost>>

-----------------------------------------------------------------------------
\* The inodes that the directory i has names for.
Listed(i) == {ents[i][n] : n \in Name} \ {0}

Iput(p) ==
    /\ \/ (iput(p) \/ iput_unlock(p) \/ iput_drop(p)) /\ UNCHANGED lost
       \/ iput_free(p) /\ lost' = lost \cup Listed(Head(puts[p]).i)
    /\ UNCHANGED <<procvars, filevars, calls>>

Done == /\ calls = MaxCalls /\ \A p \in Proc : At(p, "run")
        /\ UNCHANGED vars

Next ==
    \/ \E p \in Proc :
         \/ \E c \in Calls : sys_path(p, c)
         \/ namex(p)
         \/ create(p) \/ create_found(p) \/ create_new(p) \/ sys_mkdir(p)
         \/ sys_open(p) \/ open_file(p)
         \/ sys_unlink(p) \/ unlink_entry(p) \/ unlink_inode(p)
         \/ sys_link(p) \/ link_entry(p) \/ link_bad(p) \/ sys_chdir(p)
         \/ \E fd \in 1 .. NOFILE :
              \/ sys_close(p, fd) \/ sys_dup(p, fd) \/ fileread(p, fd)
              \/ \E copied \in BOOLEAN : filewrite(p, fd, copied)
         \/ sys_pipe(p) \/ \E b \in BOOLEAN : pipealloc(p, b) \/ pipe_fds(p, b)
         \/ \E q \in Proc : fork(p, q)
         \/ exit(p)
         \/ Iput(p)
    \/ Done

Spec == Init /\ [][Next]_vars

-----------------------------------------------------------------------------
(***************************************************************************)
(* Properties.                                                             *)
(***************************************************************************)

PCs == {"run", "walk", "parent", "create_found", "create_new", "created", "unlink",
        "unlinked", "link_bad", "pipealloc", "pipe"}

\* Type invariant, of Inode too.
TypeOK ==
    /\ dinode \in [Inum -> Dinode] /\ inode \in [Inum -> Dinode]
    /\ ref \in [Inum -> Nat] /\ valid \in [Inum -> BOOLEAN]
    /\ lock \in [Inum -> Proc \cup {None}]
    /\ ents \in [Inum -> [Entry -> Inum \cup {0}]]
    /\ used \subseteq Block /\ ind \in [Block -> Block \cup {0}]
    /\ puts \in [Proc -> Seq([i : Inum, at : {"test", "free", "unlock", "drop"}])]
    /\ panicked \in BOOLEAN
    /\ pc \in [Proc -> PCs] /\ call \in [Proc -> Calls \cup {NoCall}]
    /\ path \in [Proc -> Seq(Entry)]
    /\ dp \in [Proc -> Inum \cup {0}] /\ ip \in [Proc -> Inum \cup {0}]
    /\ cwd \in [Proc -> Inum \cup {0}]
    /\ ofile \in [Proc -> [1 .. NOFILE -> 0 .. NFILE]]
    /\ ends \in [Proc -> Seq(1 .. NFILE)]
    /\ file \in [1 .. NFILE -> [ref : Nat, ip : Inum \cup {0}, off : 0 .. MAXFILE,
                               writable : BOOLEAN]]
    /\ calls \in 0 .. MaxCalls /\ lost \subseteq Inum

\* No panic: ilock() never finds an inode that is free on disk, unlink() never
\* one without links, bfree() never a free block, and the file table's counts
\* never reach zero under a descriptor; and the instance does not run out of
\* inodes.
NoPanic == ~panicked

\* iput() takes the sleep lock of an inode it frees while it holds the spin lock
\* icache.lock, because "ref == 1 means no other process can have ip locked, so
\* this acquiresleep() won't block": nobody else holds the lock there.
IputNoWait ==
    \A p \in Proc : puts[p] # <<>> /\ Head(puts[p]).at = "test" =>
        (iput_last(Head(puts[p]).i) => Free(Head(puts[p]).i))

\* ref counts the pointers to a cache entry, in processes, in open files and in
\* code that is running, through every error path; and a file's ref counts its
\* descriptors, or the pipe() that has still to give it one.
RefsCounted ==
    /\ \A i \in Inum : ref[i] =
          Cardinality({p \in Proc : cwd[p] = i})
        + Cardinality({p \in Proc : dp[p] = i}) + Cardinality({p \in Proc : ip[p] = i})
        + Cardinality({x \in Proc \X (1 .. 2) :
                          x[2] \in DOMAIN puts[x[1]] /\ puts[x[1]][x[2]].i = i})
        + Cardinality({f \in 1 .. NFILE : file[f].ref > 0 /\ file[f].ip = i})
    /\ \A f \in 1 .. NFILE : file[f].ref =
          Cardinality({x \in Proc \X (1 .. NOFILE) : ofile[x[1]][x[2]] = f})
        + Cardinality({p \in Proc : f \in Range(ends[p])})

\* The directory entries that make up an inode's link count: its names, and the
\* ".." of directories that have a name themselves.
Named(d) == d = ROOTINO \/ \E e \in Inum, n \in Name : ents[e][n] = d
Links(i) ==
    Cardinality({x \in Inum \X Name : ents[x[1]][x[2]] = i})
    + Cardinality({d \in Inum : Named(d) /\ ents[d][".."] = i})

\* Links counted but not entered, by link(), or erased but not discounted, by
\* unlink().
Pending(i) ==
    Cardinality({p \in Proc : ip[p] = i /\ (pc[p] = "unlinked" \/ call[p].op = "link")})

\* On disk nlink is the number of directory entries that name the inode, and
\* every entry names an allocated inode, while processes create, link and unlink
\* at once, in directories that have been removed as well.  Not so for an inode
\* with a name in such a directory when iput() frees it: create() and link() do
\* not look at dp->nlink, and the name goes without its link being discounted.
LinksCounted ==
    \A i \in Inum \ lost :
        /\ dinode[i].nlink = Links(i) + Pending(i)
        /\ dinode[i].type = "none" => Links(i) = 0

\* "If that was the last reference and the inode has no links to it, free the
\* inode (and its content) on disk": an inode nobody refers to and no directory
\* names is free.
FreedWhenUnlinked ==
    \A i \in Inum \ lost : ref[i] = 0 /\ dinode[i].nlink = 0 => dinode[i].type = "none"

\* Every block in use belongs to exactly one file, in one place, no file refers
\* to a free block, and the blocks below a file's size are there.
BlocksOwned ==
    LET All == UNION {{<<i, pl>> : pl \in Places(dinode[i])} : i \in Inum}
    IN  /\ \A x, y \in All : x[2][2] = y[2][2] => x = y
        /\ {x[2][2] : x \in All} = used
        /\ \A i \in Inum : dinode[i].type = "file" =>
              /\ dinode[i].size > 0 => dinode[i].direct # 0
              /\ dinode[i].size > 1 => dinode[i].indirect # 0 /\ ind[dinode[i].indirect] # 0
=============================================================================
