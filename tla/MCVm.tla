--------------------------------- MODULE MCVm ---------------------------------
EXTENDS Vm

MCDeltas == {-6, -2, 2, 6}

(***************************************************************************)
(* A state up to the names of pages: which entries of a table are in use.  *)
(* While every page has one owner and tables map their own trapframe, two  *)
(* states of the same shape differ by a renaming of pages, and so do their *)
(* successors.  The invariants are part of the view, so that no state that *)
(* violates one is taken for a state that does not.  Evaluated, the first  *)
(* component of the view is TRUE: TLC would otherwise queue states that it *)
(* has not evaluated.                                                      *)
(***************************************************************************)
TableShape(pt, tf) ==
    <<pt.root # 0, {t \in DOMAIN pt.tab : pt.tab[t] # 0}, {v \in VPage : pt.pte[v] # 0},
      pt.user, pt.pte[TRAPFRAME] = tf, pt.pte[TRAMPOLINE]>>

MCView ==
    <<<<free, slot, new>> = <<free, slot, new>>, Cardinality(Avail(free)),
      [p \in Proc |-> <<slot[p].used, slot[p].tf # 0, slot[p].sz,
                        TableShape(slot[p].pt, slot[p].tf)>>],
      [p \in Proc |-> TableShape(new[p], slot[kid[p]].tf)],
      stage, kid, sz, a, to, {p \in Proc : arg[p] # 0}, panicked, PagesOwned, AddressSpaces>>
=============================================================================
