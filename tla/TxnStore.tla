------------------------------ MODULE TxnStore ------------------------------
(***************************************************************************)
(* What the file system may rely on from its log (kernel/log.c): blocks    *)
(* that survive a power failure, updated by operations that run between    *)
(* begin_op() and end_op().  The operations of one transaction reach the   *)
(* disk together, and only at a moment when none of them is half way.      *)
(* Module Log is the implementation and is shown to refine this one.       *)
(***************************************************************************)
CONSTANTS Proc, Block, Val

VARIABLES
    durable,    \* what a machine that is switched on now would recover
    volatile,   \* what bread() shows the running kernel
    open        \* the processes between begin_op() and end_op()

vars == <<durable, volatile, open>>

Init ==
    /\ durable \in [Block -> Val]
    /\ volatile = durable
    /\ open = {}

Begin(p) ==
    /\ p \notin open
    /\ open' = open \cup {p}
    /\ UNCHANGED <<durable, volatile>>

Write(p, b, v) ==
    /\ p \in open
    /\ volatile' = [volatile EXCEPT ![b] = v]
    /\ UNCHANGED <<durable, open>>

End(p) ==
    /\ p \in open
    /\ open' = open \ {p}
    /\ UNCHANGED <<durable, volatile>>

\* The whole transaction becomes durable in one step.
Commit ==
    /\ open = {}
    /\ durable' = volatile
    /\ UNCHANGED <<volatile, open>>

Crash ==
    /\ volatile' = durable
    /\ open' = {}
    /\ UNCHANGED durable

Next ==
    \/ \E p \in Proc : Begin(p) \/ End(p)
    \/ \E p \in Proc, b \in Block, v \in Val : Write(p, b, v)
    \/ Commit
    \/ Crash

Spec == Init /\ [][Next]_vars
=============================================================================
