-------------------------------- MODULE Pipe --------------------------------
(***************************************************************************)
(* kernel/pipe.c: one pipe, the processes that hold its ends, pi->lock and *)
(* the sleep channels &pi->nread and &pi->nwrite.  A step holds pi->lock   *)
(* for one turn of a loop; sleep() is a step of its own, since kill() does *)
(* not take pi->lock and may come between the test of p->killed and it.    *)
(*                                                                         *)
(* The n-th byte written is the number n.  The file layer closes an end    *)
(* when the last process that holds it does (fileclose()).                 *)
(***************************************************************************)
EXTENDS Integers, Sequences, FiniteSets

CONSTANTS
    Readers, Writers,   \* the processes, by the end they hold
    None,               \* the holder of a free lock
    PIPESIZE,
    UINT,               \* 2^32: nread and nwrite wrap there
    MaxN,               \* bound: bytes of one call
    MaxBytes,           \* bound: no write starts after this many bytes
    Victims             \* bound: processes kill() is asked for

Procs == Readers \cup Writers

ASSUME PipeAssumption ==
    /\ Readers \cap Writers = {} /\ None \notin Procs
    /\ Victims \subseteq Procs
    /\ PIPESIZE \in Nat \ {0}
    /\ UINT \in Nat /\ UINT > PIPESIZE /\ UINT % PIPESIZE = 0
    /\ MaxN \in Nat /\ MaxBytes \in Nat

VARIABLES
    data, nread, nwrite, readopen, writeopen,   \* struct pipe
    freed,      \* kfree(pi) has been called
    lock,       \* which process holds pi->lock
    holds,      \* the process has the file open
    killed,     \* p->killed
    pc, left,   \* each process: where it is, n - i bytes of its call to do
    sent, taken \* history: bytes put into and taken out of the buffer

pipe == <<data, nread, nwrite, readopen, writeopen, freed, sent, taken>>
vars == <<pipe, lock, holds, killed, pc, left>>

Init ==
    /\ data = [k \in 0 .. PIPESIZE - 1 |-> 0]
    /\ nread = 0 /\ nwrite = 0
    /\ readopen = TRUE /\ writeopen = TRUE
    /\ freed = FALSE
    /\ lock = None
    /\ holds = [p \in Procs |-> TRUE]
    /\ killed = [p \in Procs |-> FALSE]
    /\ pc = [p \in Procs |-> "user"]
    /\ left = [p \in Procs |-> 0]
    /\ sent = <<>> /\ taken = <<>>

Inc(c) == (c + 1) % UINT
Full_nowrap == nwrite = nread + PIPESIZE    \* mutant
Full  == nwrite = (nread + PIPESIZE) % UINT
Empty == nread = nwrite

Goto(p, label) == pc' = [pc EXCEPT ![p] = label]
Return(p) == left' = [left EXCEPT ![p] = 0]     \* dead until the next call

\* p goes to label, and wakeup() makes every process asleep on the channel
\* ("r_asleep" is &pi->nread, "w_asleep" is &pi->nwrite) try for pi->lock.
GotoAndWakeup(p, label, chan) ==
    pc' = [q \in Procs |->
            IF q = p THEN label
            ELSE IF pc[q] # chan THEN pc[q]
            ELSE IF chan = "r_asleep" THEN "r_acquire" ELSE "w_acquire"]

-----------------------------------------------------------------------------
\* A process calls read() or write(); a killed one does not get there.
syscall(p) ==
    /\ pc[p] = "user" /\ holds[p] /\ ~killed[p]
    /\ \/ p \in Readers /\ Goto(p, "r_acquire")
       \/ p \in Writers /\ Len(sent) < MaxBytes /\ Goto(p, "w_acquire")
    /\ \E k \in 1 .. MaxN : left' = [left EXCEPT ![p] = k]
    /\ UNCHANGED <<pipe, lock, holds, killed>>

acquire(p) ==
    /\ lock = None
    /\ \/ pc[p] = "w_acquire" /\ Goto(p, "w_loop")
       \/ pc[p] = "r_acquire" /\ Goto(p, "r_wait")
    /\ lock' = p
    /\ UNCHANGED <<pipe, holds, killed, left>>

\* Mutant: the readers are not woken when the call ends.
pipewrite_end_silent(p) ==
    /\ Goto(p, "user")
    /\ lock' = None

\* The end of pipewrite(): wake the readers, release the lock.
pipewrite_end(p) ==
    /\ GotoAndWakeup(p, "user", "r_asleep")
    /\ lock' = None

\* The buffer is full: wake the readers, and sleep.
pipewrite_full(p) == GotoAndWakeup(p, "w_sleep", "r_asleep")

\* One turn of pipewrite()'s loop: give up, wait for room, or put one byte.
\* copyin() may fail.
pipewrite(p) ==
    /\ pc[p] = "w_loop"
    /\ \/ /\ left[p] > 0
          /\ ~readopen \/ killed[p]
          /\ Goto(p, "user") /\ lock' = None /\ Return(p)
          /\ UNCHANGED pipe
       \/ /\ left[p] > 0 /\ readopen /\ ~killed[p] /\ Full
          /\ pipewrite_full(p)
          /\ UNCHANGED <<pipe, lock, left>>
       \/ /\ left[p] > 0 /\ readopen /\ ~killed[p] /\ ~Full
          /\ data' = [data EXCEPT ![nwrite % PIPESIZE] = Len(sent) + 1]
          /\ nwrite' = Inc(nwrite)
          /\ sent' = Append(sent, Len(sent) + 1)
          /\ left' = [left EXCEPT ![p] = @ - 1]
          /\ UNCHANGED <<nread, readopen, writeopen, freed, taken, lock, pc>>
       \/ /\ \/ left[p] = 0
             \/ readopen /\ ~killed[p] /\ ~Full     \* copyin() fails
          /\ pipewrite_end(p) /\ Return(p)
          /\ UNCHANGED pipe
    /\ UNCHANGED <<holds, killed>>

\* The first loop of piperead(): wait for a byte or for the last writer.
piperead_wait(p) ==
    /\ pc[p] = "r_wait"
    /\ \/ /\ Empty /\ writeopen /\ killed[p]
          /\ Goto(p, "user") /\ lock' = None /\ Return(p)
       \/ /\ Empty /\ writeopen /\ ~killed[p]
          /\ Goto(p, "r_sleep") /\ UNCHANGED <<lock, left>>
       \/ /\ ~Empty \/ ~writeopen
          /\ Goto(p, "r_copy") /\ UNCHANGED <<lock, left>>
    /\ UNCHANGED <<pipe, holds, killed>>

\* Mutant: the writers are woken when the buffer was full only.
piperead_end_iffull(p) ==
    /\ IF Full THEN GotoAndWakeup(p, "user", "w_asleep") ELSE Goto(p, "user")
    /\ lock' = None

\* The end of piperead(): wake the writers, release the lock.
piperead_end(p) ==
    /\ GotoAndWakeup(p, "user", "w_asleep")
    /\ lock' = None

\* One turn of the second loop.  When copyout() fails the byte is gone.
piperead_copy(p) ==
    /\ pc[p] = "r_copy"
    /\ \/ /\ left[p] = 0 \/ Empty
          /\ piperead_end(p) /\ Return(p)
          /\ UNCHANGED pipe
       \/ /\ left[p] > 0 /\ ~Empty
          /\ taken' = Append(taken, data[nread % PIPESIZE])
          /\ nread' = Inc(nread)
          /\ \/ left' = [left EXCEPT ![p] = @ - 1] /\ UNCHANGED <<pc, lock>>
             \/ piperead_end(p) /\ Return(p)
          /\ UNCHANGED <<data, nwrite, readopen, writeopen, freed, sent>>
    /\ UNCHANGED <<holds, killed>>

\* sleep(): release pi->lock and sleep, in one step under p->lock.
sleep(p) ==
    /\ \/ pc[p] = "w_sleep" /\ Goto(p, "w_asleep")
       \/ pc[p] = "r_sleep" /\ Goto(p, "r_asleep")
    /\ lock' = None
    /\ UNCHANGED <<pipe, holds, killed, left>>

\* close(), or the exit of the process.  fileclose() calls pipeclose() for
\* the last of those that hold the end.
fileclose(p) ==
    /\ pc[p] = "user" /\ holds[p]
    /\ holds' = [holds EXCEPT ![p] = FALSE]
    /\ LET Same == IF p \in Writers THEN Writers ELSE Readers
       IN  IF \E q \in Same \ {p} : holds[q]
           THEN UNCHANGED pc
           ELSE Goto(p, "c_acquire")
    /\ UNCHANGED <<pipe, lock, killed, left>>

\* Mutant: the first end to be closed frees the pipe.
pipeclose_first(p) ==
    /\ pc[p] = "c_acquire" /\ lock = None
    /\ writeopen' = (writeopen /\ p \notin Writers)
    /\ readopen'  = (readopen /\ p \notin Readers)
    /\ GotoAndWakeup(p, "user", IF p \in Writers THEN "r_asleep" ELSE "w_asleep")
    /\ freed' = TRUE
    /\ UNCHANGED <<data, nread, nwrite, sent, taken, lock, holds, killed, left>>

pipeclose(p) ==
    /\ pc[p] = "c_acquire" /\ lock = None
    /\ writeopen' = (writeopen /\ p \notin Writers)
    /\ readopen'  = (readopen /\ p \notin Readers)
    /\ GotoAndWakeup(p, "user", IF p \in Writers THEN "r_asleep" ELSE "w_asleep")
    /\ freed' = (~readopen' /\ ~writeopen')
    /\ UNCHANGED <<data, nread, nwrite, sent, taken, lock, holds, killed, left>>

\* kill(): sets p->killed, and wakes p if it is asleep.
kill(p) ==
    /\ ~killed[p]
    /\ killed' = [killed EXCEPT ![p] = TRUE]
    /\ pc' = [pc EXCEPT ![p] = CASE @ = "r_asleep" -> "r_acquire"
                                 [] @ = "w_asleep" -> "w_acquire"
                                 [] OTHER -> @]
    /\ UNCHANGED <<pipe, lock, holds, left>>

Run(p) ==
    \/ pipewrite(p)
    \/ piperead_wait(p)
    \/ piperead_copy(p)
    \/ sleep(p)

Next ==
    \/ \E p \in Procs :
        syscall(p) \/ acquire(p) \/ Run(p) \/ fileclose(p) \/ pipeclose(p)
    \/ \E p \in Victims : kill(p)

Spec == Init /\ [][Next]_vars

(***************************************************************************)
(* A process that holds pi->lock runs on; one that spins for it gets it in *)
(* the end, however often others do first; every reader reads on until it  *)
(* closes its end, and a killed process exits, which closes it.            *)
(***************************************************************************)
Fairness ==
    /\ \A p \in Procs : WF_vars(Run(p)) /\ SF_vars(acquire(p) \/ pipeclose(p))
    /\ \A p \in Readers : WF_vars(syscall(p)) /\ WF_vars(killed[p] /\ fileclose(p))

FairSpec == Spec /\ Fairness

-----------------------------------------------------------------------------
(***************************************************************************)
(* Properties.                                                             *)
(***************************************************************************)

PCs == {"user", "w_acquire", "w_loop", "w_sleep", "w_asleep", "r_acquire", "r_wait",
        "r_copy", "r_sleep", "r_asleep", "c_acquire"}

\* Type invariant.
TypeOK ==
    /\ data \in [0 .. PIPESIZE - 1 -> Nat]
    /\ nread \in 0 .. UINT - 1 /\ nwrite \in 0 .. UINT - 1
    /\ readopen \in BOOLEAN /\ writeopen \in BOOLEAN /\ freed \in BOOLEAN
    /\ lock \in Procs \cup {None}
    /\ holds \in [Procs -> BOOLEAN] /\ killed \in [Procs -> BOOLEAN]
    /\ pc \in [Procs -> PCs]
    /\ left \in [Procs -> 0 .. MaxN]
    /\ sent \in Seq(Nat) /\ taken \in Seq(Nat)

\* The bytes in the buffer, oldest first.
Buffered == [k \in 1 .. (nwrite - nread) % UINT |-> data[(nread + k - 1) % PIPESIZE]]

\* The bytes taken out, and then those in the buffer, are those put in: also
\* when the counters have wrapped, with several readers and writers.
PipeFifo == taken \o Buffered = sent

\* Between critical sections no reader sleeps while there is a byte to read
\* or no writer left, and no writer while there is room or no reader left.
NoLostWakeup ==
    lock = None =>
        \A p \in Procs :
            /\ pc[p] = "r_asleep" => Empty /\ writeopen
            /\ pc[p] = "w_asleep" => Full /\ readopen

\* pipeclose() frees the pipe when nobody is in the middle of using it, and
\* not before both ends are closed.
NoUseAfterFree ==
    freed => \A p \in Procs : ~holds[p] /\ pc[p] = "user"

\* pipewrite() ends: the readers make room, or go away and say so.
WriteEnds == \A p \in Writers : pc[p] = "w_acquire" ~> pc[p] = "user"
=============================================================================
