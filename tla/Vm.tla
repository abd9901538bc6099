---------------------------------- MODULE Vm ----------------------------------
(***************************************************************************)
(* User memory: kernel/vm.c, kalloc.c and exec.c, and what fork(), wait()  *)
(* and sbrk() do with them in proc.c and sysproc.c, by processes that      *)
(* compete for the pages of the machine: a kalloc() may fail at any point  *)
(* of each.                                                                *)
(*                                                                         *)
(* A step takes at most one page for data and one for a page table.  Sizes *)
(* are in units of which PGSIZE make a page, so that they need not be      *)
(* page-aligned.  A page table has two levels instead of three: a root and *)
(* tables of TABSIZE entries.  Virtual pages are numbered; the last table  *)
(* maps the trapframe and the trampoline.  The contents of pages are left  *)
(* out: copyin() and copyout() are the bytes they move.                    *)
(***************************************************************************)
EXTENDS Integers, FiniteSets, FiniteSetsExt

CONSTANTS
    Proc,       \* slots of the process table
    InitProc,   \* the first process
    NPAGES,     \* physical pages from end to PHYSTOP
    PGSIZE,
    TABSIZE,
    USERTABS,   \* tables below the last one: a bound on the size of processes
    UINT_RANGE, \* 2^32: the sizes in growproc() wrap there
    Deltas,     \* arguments of sbrk()
    Segments,   \* ends of program segments: vaddr + memsz
    WORD,       \* sizeof(uint64)
    Addrs       \* user addresses given to system calls

ASSUME VmAssumption ==
    /\ InitProc \in Proc /\ {NPAGES, PGSIZE, USERTABS, UINT_RANGE} \subseteq Nat \ {0}
    /\ TABSIZE \in Nat /\ TABSIZE >= 2 /\ WORD \in Nat /\ Addrs \subseteq Nat
    /\ UINT_RANGE > USERTABS * TABSIZE * PGSIZE
    /\ IsFiniteSet(Proc) /\ Deltas \subseteq Int
    /\ NPAGES >= 5      \* what userinit() takes
    /\ Segments \subseteq 0 .. USERTABS * TABSIZE * PGSIZE

VARIABLES
    free,       \* how often each page is on kmem.freelist
    slot,       \* of each slot: [used, tf, pt, sz]
    stage,      \* where each process is
    kid,        \* the slot fork() is filling
    new,        \* the page table fork() or exec() is building
    sz, a,      \* the local sz of exec() and growproc(); how far a loop has come
    to,         \* where the uvmalloc() under way goes
    arg,        \* the page of sys_exec()'s argv[0], 0 if none
    panicked

local  == <<kid, new, sz, a, to, arg>>
vmvars == <<free, slot, stage, local, panicked>>

Page == 1 .. NPAGES
USERPAGES == USERTABS * TABSIZE
TRAPFRAME  == USERPAGES + TABSIZE - 2
TRAMPOLINE == USERPAGES + TABSIZE - 1
VPage == 0 .. TRAMPOLINE
TrampolineText == NPAGES + 1        \* the kernel's page with trampoline.S
\* No page table; user are the pages with PTE_U.
NoTable == [root |-> 0, tab |-> [t \in 0 .. USERTABS |-> 0], pte |-> [v \in VPage |-> 0],
            user |-> {}]
NoProc == [used |-> FALSE, tf |-> 0, pt |-> NoTable, sz |-> 0]

\* PGROUNDUP(s) / PGSIZE
Pages(s) == (s + PGSIZE - 1) \div PGSIZE

-----------------------------------------------------------------------------
(***************************************************************************)
(* The page allocator and page tables, as functions of the free list f and *)
(* a page table pt.                                                        *)
(***************************************************************************)

Avail(f) == {g \in Page : f[g] > 0}
First(f) == Min(Avail(f))
kalloc(f) == [f EXCEPT ![First(f)] = @ - 1]
kfree(f, S) == [g \in Page |-> IF g \in S THEN f[g] + 1 ELSE f[g]]

Result(ok, f, pt) == [ok |-> ok, free |-> f, pt |-> pt]

\* walk() to v with alloc set: it makes the table it needs.
walk(f, pt, v) ==
    LET t == v \div TABSIZE
    IN  IF pt.tab[t] # 0 THEN Result(TRUE, f, pt)
        ELSE IF Avail(f) = {} THEN Result(FALSE, f, pt)
        ELSE Result(TRUE, kalloc(f), [pt EXCEPT !.tab[t] = First(f)])

\* The entry for v is set to pa.
WithPte(pt, v, pa, u) == [pt EXCEPT !.pte[v] = pa, !.user = @ \cup u]

\* mappages() of one page pa at v, for the user if u is {v} and not if it is {}.
mappages(f, pt, v, pa, u) ==
    LET w == walk(f, pt, v)
    IN  IF w.ok THEN Result(TRUE, w.free, WithPte(w.pt, v, pa, u)) ELSE w

\* Mutant: the page is not given back when it cannot be mapped.
uvmalloc_page_leak(f, pt, v, u) ==
    IF Avail(f) = {} THEN Result(FALSE, f, pt)
    ELSE mappages(kalloc(f), pt, v, First(f), u)

\* A round of the loops of uvmalloc() and uvmcopy(): a page, mapped at v.
uvmalloc_page(f, pt, v, u) ==
    IF Avail(f) = {} THEN Result(FALSE, f, pt)
    ELSE LET m == mappages(kalloc(f), pt, v, First(f), u)
         IN  IF m.ok THEN m ELSE Result(FALSE, kfree(m.free, {First(f)}), m.pt)

\* uvmunmap() with do_free of the pages from v1 up to v2: what it frees, what is
\* left, and its panics.
Leaves(pt, v1, v2) == {pt.pte[v] : v \in v1 .. v2 - 1}
uvmunmap(pt, v1, v2) ==
    [pt EXCEPT !.pte = [v \in VPage |-> IF v \in v1 .. v2 - 1 THEN 0 ELSE pt.pte[v]],
               !.user = @ \ (v1 .. v2 - 1)]
uvmunmap_panics(pt, v1, v2) == 0 \in Leaves(pt, v1, v2)

\* freewalk(): the pages it frees, and its panic.
freewalk(pt) == ({pt.root} \cup {pt.tab[t] : t \in 0 .. USERTABS}) \ {0}
freewalk_panics(pt) == \E v \in VPage : pt.pte[v] # 0

\* uvmdealloc() from oldsz to newsz, which may both be unaligned.
uvmdealloc(f, pt, oldsz, newsz) ==
    IF newsz >= oldsz \/ Pages(newsz) >= Pages(oldsz) THEN Result(TRUE, f, pt)
    ELSE Result(~uvmunmap_panics(pt, Pages(newsz), Pages(oldsz)),
                kfree(f, Leaves(pt, Pages(newsz), Pages(oldsz))),
                uvmunmap(pt, Pages(newsz), Pages(oldsz)))

\* uvmfree() of s units of user memory and the tables.
uvmfree(f, pt, s) ==
    Result(~uvmunmap_panics(pt, 0, Pages(s)) /\ ~freewalk_panics(uvmunmap(pt, 0, Pages(s))),
           kfree(f, Leaves(pt, 0, Pages(s)) \cup freewalk(pt)), NoTable)

proc_freepagetable(f, pt, s) ==
    LET r == uvmfree(f, uvmunmap(pt, TRAPFRAME, TRAMPOLINE + 1), s)
    IN  [r EXCEPT !.ok = @ /\ ~uvmunmap_panics(pt, TRAPFRAME, TRAMPOLINE + 1)]

-----------------------------------------------------------------------------
(***************************************************************************)
(* Copies between kernel and user memory.                                  *)
(***************************************************************************)

walkaddr(pt, v) == IF v \in VPage /\ v \in pt.user THEN pt.pte[v] ELSE 0

\* A move of byte d of the copy at an offset of a page, or no page.
Move(pa, off, d) == [page |-> pa, off |-> off, byte |-> d]
Failed == Move(0, 0, 0)

\* The loop of copyout(), one page a round: what it moves, with Failed if it
\* comes to a page it cannot reach.
copyout(pt, dstva, len) ==
    LET round[d \in 0 .. len] ==
          LET off == (dstva + d) % PGSIZE
              pa0 == walkaddr(pt, (dstva + d) \div PGSIZE)
              n == Min({PGSIZE - off, len - d})
          IN  IF d = len THEN {}
              ELSE IF pa0 = 0 THEN {Failed}
              ELSE {Move(pa0, off + k, d + k) : k \in 0 .. n - 1} \cup round[d + n]
    IN  round[0]

\* The same loop with the moves the other way.
copyin(pt, srcva, len) == copyout(pt, srcva, len)

\* The loop of copyinstr(): whether it finds the end of a string, which is nul
\* bytes from srcva.
copyinstr(pt, srcva, max, nul) ==
    LET round[d \in 0 .. max] ==
          LET n == Min({PGSIZE - ((srcva + d) % PGSIZE), max - d})
          IN  /\ d < max
              /\ walkaddr(pt, (srcva + d) \div PGSIZE) # 0
              /\ nul < d + n \/ round[d + n]
    IN  round[0]

\* fetchaddr() of a word of p's at addr, and fetchstr(), succeed.
fetchaddr(p, addr) ==
    /\ addr < slot[p].sz /\ addr + WORD <= slot[p].sz
    /\ Failed \notin copyin(slot[p].pt, addr, WORD)
fetchstr(p, addr, nul) == copyinstr(slot[p].pt, addr, PGSIZE, nul)

-----------------------------------------------------------------------------

\* uvminit(): the page of initcode, which cannot fail at boot.
uvminit(f, pt) == uvmalloc_page(f, pt, 0, {0})

\* userinit(): one page of initcode, with its tables.
VmInit ==
    LET top == mappages(kalloc([g \in Page |-> IF g = 1 THEN 0 ELSE 1]),
                        [NoTable EXCEPT !.root = 2], TRAMPOLINE, TrampolineText, {})
        tf  == mappages(top.free, top.pt, TRAPFRAME, 1, {})
        u   == uvminit(tf.free, tf.pt)
    IN  /\ free = u.free
        /\ slot = [p \in Proc |-> IF p = InitProc
                     THEN [used |-> TRUE, tf |-> 1, pt |-> u.pt, sz |-> PGSIZE] ELSE NoProc]
        /\ stage = [p \in Proc |-> IF p = InitProc THEN "user" ELSE "none"]
        /\ kid = [p \in Proc |-> p] /\ new = [p \in Proc |-> NoTable]
        /\ sz = [p \in Proc |-> 0] /\ a = [p \in Proc |-> 0] /\ to = [p \in Proc |-> 0]
        /\ arg = [p \in Proc |-> 0] /\ panicked = FALSE

-----------------------------------------------------------------------------
Enter(p, c) == stage' = [stage EXCEPT ![p] = c]
At(p, c) == stage[p] = c /\ ~panicked

\* p is back in user mode, its call's locals forgotten.
Return(p) ==
    /\ kid' = [kid EXCEPT ![p] = p] /\ new' = [new EXCEPT ![p] = NoTable]
    /\ sz' = [sz EXCEPT ![p] = 0] /\ a' = [a EXCEPT ![p] = 0] /\ to' = [to EXCEPT ![p] = 0]
    /\ arg' = [arg EXCEPT ![p] = 0]

\* A page table and a free list that come out of an operation that cannot fail.
Take(r) == free' = r.free /\ panicked' = ~r.ok

(***************************************************************************)
(* sbrk().                                                                 *)
(***************************************************************************)

\* growproc(): shrink at once, or start uvmalloc().  A size below zero wraps and
\* is taken for a larger one, so that nothing happens.
growproc(p, n) ==
    /\ At(p, "user")
    /\ LET newsz == (slot[p].sz + n) % UINT_RANGE
           d == uvmdealloc(free, slot[p].pt, slot[p].sz, newsz)
       IN  IF n < 0
           THEN /\ Take(d)
                /\ slot' = [slot EXCEPT ![p].pt = d.pt,
                                        ![p].sz = IF newsz >= @ THEN @ ELSE newsz]
                /\ UNCHANGED <<stage, local>>
           ELSE /\ newsz <= USERPAGES * PGSIZE
                /\ a' = [a EXCEPT ![p] = Pages(slot[p].sz)]
                /\ to' = [to EXCEPT ![p] = IF newsz < slot[p].sz THEN slot[p].sz ELSE newsz]
                /\ sz' = [sz EXCEPT ![p] = slot[p].sz]
                /\ Enter(p, "grow") /\ UNCHANGED <<free, slot, kid, new, arg, panicked>>

\* A round of uvmalloc() in growproc(): a page more, or all of them given back.
growproc_page(p) ==
    /\ At(p, "grow") /\ a[p] < Pages(to[p])
    /\ LET m == uvmalloc_page(free, slot[p].pt, a[p], {a[p]})
           d == uvmdealloc(m.free, m.pt, a[p] * PGSIZE, Pages(sz[p]) * PGSIZE)
       IN  IF m.ok
           THEN /\ free' = m.free /\ slot' = [slot EXCEPT ![p].pt = m.pt]
                /\ panicked' = (slot[p].pt.pte[a[p]] # 0)
                /\ a' = [a EXCEPT ![p] = @ + 1]
                /\ UNCHANGED <<stage, kid, new, sz, to, arg>>
           ELSE /\ Take(d) /\ slot' = [slot EXCEPT ![p].pt = d.pt]
                /\ Enter(p, "user") /\ Return(p)

growproc_end(p) ==
    /\ At(p, "grow") /\ a[p] >= Pages(to[p])
    /\ slot' = [slot EXCEPT ![p].sz = to[p]]
    /\ Enter(p, "user") /\ Return(p)
    /\ UNCHANGED <<free, panicked>>

-----------------------------------------------------------------------------
(***************************************************************************)
(* proc_pagetable(), for fork() and for exec().                            *)
(***************************************************************************)

\* freeproc(q), whose page table may not be there yet.
freeproc(f, q, pt, s) ==
    LET r == IF pt.root = 0 THEN Result(TRUE, f, NoTable) ELSE proc_freepagetable(f, pt, s)
    IN  Result(r.ok, kfree(r.free, {slot[q].tf} \ {0}), NoTable)

\* The way out of a fork() or an exec() that cannot get a page table.
NoPagetable(p, f) ==
    /\ Enter(p, "user") /\ Return(p)
    /\ IF kid[p] # p
       THEN Take(freeproc(f, kid[p], NoTable, 0)) /\ slot' = [slot EXCEPT ![kid[p]] = NoProc]
       ELSE free' = kfree(f, {arg[p]} \ {0}) /\ UNCHANGED <<slot, panicked>>

\* uvmcreate()
uvmcreate(p) ==
    /\ At(p, "pagetable")
    /\ IF Avail(free) = {} THEN NoPagetable(p, free)
       ELSE /\ free' = kalloc(free)
            /\ new' = [new EXCEPT ![p].root = First(free)]
            /\ Enter(p, "trampoline") /\ UNCHANGED <<slot, kid, sz, a, to, arg, panicked>>

\* The two mappages(): the second finds the table the first made.
proc_pagetable(p) ==
    /\ At(p, "trampoline")
    /\ LET m == mappages(free, new[p], TRAMPOLINE, TrampolineText, {})
       IN  IF ~m.ok THEN NoPagetable(p, kfree(m.free, freewalk(m.pt)))
           ELSE LET t == mappages(m.free, m.pt, TRAPFRAME, slot[kid[p]].tf, {})
                IN  /\ free' = t.free /\ new' = [new EXCEPT ![p] = t.pt]
                    /\ Enter(p, IF kid[p] # p THEN "copy" ELSE "load")
                    /\ UNCHANGED <<slot, kid, sz, a, to, arg, panicked>>

-----------------------------------------------------------------------------
(***************************************************************************)
(* fork() and wait().                                                      *)
(***************************************************************************)

\* allocproc(): a slot, and a page for the trapframe.
allocproc(p, q) ==
    /\ At(p, "user") /\ ~slot[q].used /\ slot[q].tf = 0
    /\ Avail(free) # {}
    /\ free' = kalloc(free)
    /\ slot' = [slot EXCEPT ![q].tf = First(free)]
    /\ kid' = [kid EXCEPT ![p] = q] /\ Enter(p, "pagetable")
    /\ UNCHANGED <<new, sz, a, to, arg, panicked>>

\* A round of uvmcopy(), or its way out with fork()'s.
uvmcopy(p) ==
    /\ At(p, "copy") /\ a[p] < Pages(slot[p].sz)
    /\ LET m == uvmalloc_page(free, new[p], a[p], {a[p]} \cap slot[p].pt.user)
           u == uvmunmap(m.pt, 0, a[p])
           d == freeproc(kfree(m.free, Leaves(m.pt, 0, a[p])), kid[p], u, slot[kid[p]].sz)
       IN  IF m.ok
           THEN /\ free' = m.free /\ new' = [new EXCEPT ![p] = m.pt]
                /\ panicked' = (slot[p].pt.pte[a[p]] = 0 \/ new[p].pte[a[p]] # 0)
                /\ a' = [a EXCEPT ![p] = @ + 1]
                /\ UNCHANGED <<slot, stage, kid, sz, to, arg>>
           ELSE /\ Take(d) /\ slot' = [slot EXCEPT ![kid[p]] = NoProc]
                /\ Enter(p, "user") /\ Return(p)

fork(p) ==
    /\ At(p, "copy") /\ a[p] >= Pages(slot[p].sz)
    /\ slot' = [slot EXCEPT ![kid[p]] =
                  [@ EXCEPT !.used = TRUE, !.pt = new[p], !.sz = slot[p].sz]]
    /\ stage' = [stage EXCEPT ![p] = "user", ![kid[p]] = "user"] /\ Return(p)
    /\ UNCHANGED <<free, panicked>>

\* The freeproc() of wait(), of a q that did exit(): what a zombie keeps is what
\* a process keeps that does not run.
wait(q) ==
    /\ At(q, "user") /\ q # InitProc
    /\ Take(freeproc(free, q, slot[q].pt, slot[q].sz))
    /\ slot' = [slot EXCEPT ![q] = NoProc]
    /\ Enter(q, "none") /\ UNCHANGED local

-----------------------------------------------------------------------------
(***************************************************************************)
(* exec().                                                                 *)
(***************************************************************************)

\* sys_exec() with argv at some uargv and the string of argv[0] at uarg: a page
\* for the argument, given back if fetchstr() fails.
sys_exec(p, uarg, nul) ==
    /\ At(p, "user") /\ Avail(free) # {}
    /\ {uargv \in Addrs : fetchaddr(p, uargv)} # {}
    /\ IF fetchstr(p, uarg, nul)
       THEN /\ free' = kalloc(free) /\ arg' = [arg EXCEPT ![p] = First(free)]
            /\ Enter(p, "exec")
       ELSE free' = kfree(kalloc(free), {First(free)}) /\ UNCHANGED <<stage, arg>>
    /\ UNCHANGED <<slot, kid, new, sz, a, to, panicked>>

\* The start of exec(): there is a program at path or not.
exec(p, found) ==
    /\ At(p, "exec")
    /\ IF found THEN Enter(p, "pagetable") /\ UNCHANGED <<free, local>>
       ELSE free' = kfree(free, {arg[p]}) /\ Enter(p, "user") /\ Return(p)
    /\ UNCHANGED <<slot, panicked>>

\* The bad: label of exec(), with a free list f and a table pt, and the end of
\* sys_exec().
bad(p, f, pt) ==
    /\ Take(proc_freepagetable(kfree(f, {arg[p]}), pt, sz[p]))
    /\ Enter(p, "user") /\ Return(p)

\* A program header: it cannot be read or makes no sense (~sane), or its segment
\* ends at s.  uvmalloc() has nothing to do if that is not beyond the last one,
\* and returns 0, as if it had failed, if both are 0.
exec_segment(p, s, sane) ==
    /\ At(p, "load")
    /\ IF ~sane \/ (s = 0 /\ sz[p] = 0) THEN bad(p, free, new[p])
       ELSE /\ to' = [to EXCEPT ![p] = IF s < sz[p] THEN sz[p] ELSE s]
            /\ a' = [a EXCEPT ![p] = Pages(sz[p])]
            /\ Enter(p, "segment") /\ UNCHANGED <<free, kid, new, sz, arg, panicked>>
    /\ UNCHANGED slot

\* A round of uvmalloc() in exec().
exec_page(p) ==
    /\ \E c \in {"segment", "stack"} : At(p, c)
    /\ a[p] < Pages(to[p])
    /\ LET m == uvmalloc_page(free, new[p], a[p], {a[p]})
           d == uvmdealloc(m.free, m.pt, a[p] * PGSIZE, Pages(sz[p]) * PGSIZE)
       IN  IF m.ok
           THEN /\ free' = m.free /\ new' = [new EXCEPT ![p] = m.pt]
                /\ panicked' = (new[p].pte[a[p]] # 0)
                /\ a' = [a EXCEPT ![p] = @ + 1]
                /\ UNCHANGED <<stage, kid, sz, to, arg>>
           ELSE bad(p, d.free, d.pt)
    /\ UNCHANGED slot

\* The segment has its memory: sz is its end.  loadseg() succeeds or not.
loadseg(p, loaded) ==
    /\ At(p, "segment") /\ a[p] >= Pages(to[p])
    /\ IF loaded
       THEN /\ sz' = [sz EXCEPT ![p] = to[p]] /\ Enter(p, "load")
            /\ UNCHANGED <<free, kid, new, a, to, arg, panicked>>
       ELSE /\ Take(proc_freepagetable(kfree(free, {arg[p]}), new[p], to[p]))
            /\ Enter(p, "user") /\ Return(p)
    /\ UNCHANGED slot

\* No more segments: the stack, two pages at the next page boundary.
exec_stack(p) ==
    /\ At(p, "load")
    /\ LET b == Pages(sz[p])
       IN  /\ (b + 2) <= USERPAGES
           /\ sz' = [sz EXCEPT ![p] = b * PGSIZE]
           /\ a' = [a EXCEPT ![p] = b]
           /\ to' = [to EXCEPT ![p] = (b + 2) * PGSIZE]
    /\ Enter(p, "stack") /\ UNCHANGED <<free, slot, kid, new, arg, panicked>>

\* uvmclear(): the guard page below the stack.
uvmclear(pt, v) == [pt EXCEPT !.user = @ \ {v}]

\* An argument of len bytes, then argv[] with its end, fit in the page below
\* top and are copied there.
Pushed(pt, top, len) ==
    LET sp == top - len - 2 * WORD
    IN  /\ top - len >= top - PGSIZE /\ Failed \notin copyout(pt, top - len, len)
        /\ sp >= top - PGSIZE /\ Failed \notin copyout(pt, sp, 2 * WORD)

\* Mutant: the old memory is freed by its new size.
exec_commit_newsz(p, len) ==
    /\ At(p, "stack") /\ a[p] >= Pages(to[p])
    /\ LET pt == uvmclear(new[p], Pages(to[p]) - 2)
           old == proc_freepagetable(kfree(free, {arg[p]}), slot[p].pt, to[p])
       IN  IF Pushed(pt, to[p], len)
           THEN Take(old) /\ slot' = [slot EXCEPT ![p].pt = pt, ![p].sz = to[p]]
           ELSE /\ Take(proc_freepagetable(kfree(free, {arg[p]}), pt, to[p]))
                /\ UNCHANGED slot
    /\ Enter(p, "user") /\ Return(p)

\* The arguments go to the new stack, or do not fit; then exec() commits: it
\* frees the old page table, with the old size.
exec_commit(p, len) ==
    /\ At(p, "stack") /\ a[p] >= Pages(to[p])
    /\ LET pt == uvmclear(new[p], Pages(to[p]) - 2)
           old == proc_freepagetable(kfree(free, {arg[p]}), slot[p].pt, slot[p].sz)
       IN  IF Pushed(pt, to[p], len)
           THEN Take(old) /\ slot' = [slot EXCEPT ![p].pt = pt, ![p].sz = to[p]]
           ELSE /\ Take(proc_freepagetable(kfree(free, {arg[p]}), pt, to[p]))
                /\ UNCHANGED slot
    /\ Enter(p, "user") /\ Return(p)

-----------------------------------------------------------------------------
VmNext ==
    \E p \in Proc :
      \/ \E n \in Deltas : growproc(p, n)
      \/ growproc_page(p) \/ growproc_end(p)
      \/ \E q \in Proc : allocproc(p, q)
      \/ uvmcreate(p) \/ proc_pagetable(p)
      \/ uvmcopy(p) \/ fork(p) \/ wait(p)
      \/ \E uarg \in Addrs, nul \in {0, PGSIZE - 1} : sys_exec(p, uarg, nul)
      \/ \E b \in BOOLEAN : exec(p, b) \/ loadseg(p, b)
      \/ \E len \in 1 .. PGSIZE : exec_commit(p, len)
      \/ \E s \in Segments, b \in BOOLEAN : exec_segment(p, s, b)
      \/ exec_page(p) \/ exec_stack(p)

VmSpec == VmInit /\ [][VmNext]_vmvars

-----------------------------------------------------------------------------
(***************************************************************************)
(* Properties.                                                             *)
(***************************************************************************)

\* The pages of a page table, except the trapframe, which belongs to the slot.
OwnedBy(pt) ==
    freewalk(pt) \cup ({pt.pte[v] : v \in 0 .. USERPAGES - 1} \ {0})

\* Every page has exactly one owner: the free list, a trapframe, a page table in
\* use or under construction, or an argument.  None is leaked or freed twice,
\* wherever fork(), exec() and sbrk() run out of memory.
PagesOwned ==
    \A g \in Page :
        1 = free[g]
          + Cardinality({p \in Proc : slot[p].tf = g}) + Cardinality({p \in Proc : arg[p] = g})
          + Cardinality({p \in Proc : g \in OwnedBy(slot[p].pt)})
          + Cardinality({p \in Proc : g \in OwnedBy(new[p])})

\* The pages pt maps for user memory are the first k, and all different; the user
\* can reach them, one guard page perhaps excepted, and nothing else: not the
\* trapframe, which is the process's own, and not the trampoline.
Maps(pt, k, tf) ==
    /\ \A v \in 0 .. USERPAGES - 1 : pt.pte[v] # 0 <=> v < k
    /\ \A v1, v2 \in 0 .. k - 1 : pt.pte[v1] = pt.pte[v2] => v1 = v2
    /\ pt.user \subseteq 0 .. k - 1 /\ Cardinality((0 .. k - 1) \ pt.user) <= 1
    /\ pt.pte[TRAPFRAME] = tf /\ pt.pte[TRAMPOLINE] = TrampolineText

\* A copy of len bytes at va moves each of them to its place, or fails if one of
\* them is not the user's, and then has moved no byte elsewhere.
CopyRight(pt, va, len) ==
    LET place(b) == Move(pt.pte[b \div PGSIZE], b % PGSIZE, b - va)
        users == {b \in va .. va + len - 1 : b \div PGSIZE \in pt.user}
        r == copyout(pt, va, len)
    IN  IF users = va .. va + len - 1 THEN r = {place(b) : b \in users}
        ELSE Failed \in r /\ r \subseteq {place(b) : b \in users} \cup {Failed}

\* A process has mapped exactly the pages of its size, as copyin(), copyout() and
\* uvmunmap() take for granted, also while it is in a call and after one that
\* failed, so that copies to and from user memory are right; and none of the
\* panics of vm.c happens (a page mapped twice, one that should be mapped and is
\* not, a page table freed with pages in it).
AddressSpaces ==
    /\ ~panicked
    /\ \A p \in Proc : slot[p].used =>
          /\ Maps(slot[p].pt, IF stage[p] = "grow" THEN a[p] ELSE Pages(slot[p].sz), slot[p].tf)
          /\ \A va \in Addrs : CopyRight(slot[p].pt, va, PGSIZE + 1)
=============================================================================
