-------------------------------- MODULE Console -------------------------------
(***************************************************************************)
(* kernel/console.c and kernel/uart.c: line editing in the input buffer,   *)
(* consoleread(), the transmit buffer, and the interrupt handler that      *)
(* serves both, run by one cpu while the others are in system calls.       *)
(*                                                                         *)
(* The agents are the processes and Intr, the cpu in uartintr().  clock and*)
(* tlock are the holders of cons.lock and uart_tx_lock.  The UART is       *)
(* external: a transmit FIFO, LSR_TX_IDLE when it is empty, one received   *)
(* character, and an interrupt request for each event.  Entries of the     *)
(* buffers outside the counters are dead and are cleared in the model.     *)
(***************************************************************************)
EXTENDS Integers, Sequences, FiniteSets, SequencesExt

CONSTANTS
    Proc, Intr, Nil,
    INPUT_BUF, UART_TX_BUF_SIZE,
    UINTC, UINTX,   \* where the unsigned counters of cons and of the output wrap
    FIFO,           \* size of the UART's transmit FIFO
    MaxRead         \* the largest n of a read()

ASSUME ConsoleAssumption ==
    /\ Intr \notin Proc /\ Nil \notin Proc \cup {Intr}
    /\ INPUT_BUF \in Nat \ {0} /\ UINTC \in Nat
    /\ UINTC > INPUT_BUF /\ UINTC % INPUT_BUF = 0
    /\ UART_TX_BUF_SIZE \in Nat \ {0} /\ UINTX \in Nat
    /\ UINTX > UART_TX_BUF_SIZE /\ UINTX % UART_TX_BUF_SIZE = 0
    /\ FIFO \in Nat /\ FIFO >= 2       \* the 16550's holds 16
    /\ MaxRead \in Nat
    /\ Proc \cap {"x", "nl", "^D", "bs"} = {}      \* an echo is not what a process wrote

VARIABLES
    r, w, e, buf,       \* cons
    tx_r, tx_w, tx_buf, \* the transmit buffer
    clock, tlock,       \* holders of cons.lock and uart_tx_lock
    stage, n, target,   \* each process in consoleread(): what it still wants, and wanted
    echo,               \* what consoleintr() has still to send
    fifo, rx, irq,      \* UART: to be sent, a character received, interrupt
    conskilled,         \* p->killed
    lines, line,        \* history: complete input not yet read, the line being edited
    written             \* history: what write() accepted and the UART has not sent

input  == <<r, w, e, buf, lines, line>>
output == <<tx_r, tx_w, tx_buf>>
consolevars == <<input, output, clock, tlock, stage, n, target, echo, fifo, rx, irq, conskilled, written>>

Agent == Proc \cup {Intr}
Typed == {"x", "cr", "^D", "^U", "^H"}      \* what arrives from the keyboard
Out == Proc                                 \* each process writes its own character

\* consoleinit() and uartinit().
ConsoleInit ==
    /\ r = 0 /\ w = 0 /\ e = 0 /\ buf = [k \in 0 .. INPUT_BUF - 1 |-> Nil]
    /\ tx_r = 0 /\ tx_w = 0 /\ tx_buf = [k \in 0 .. UART_TX_BUF_SIZE - 1 |-> Nil]
    /\ clock = Nil /\ tlock = Nil
    /\ stage = [a \in Agent |-> "idle"]
    /\ n = [p \in Proc |-> 0] /\ target = [p \in Proc |-> 0]
    /\ echo = <<>> /\ fifo = <<>> /\ rx = FALSE /\ irq = FALSE
    /\ conskilled = [p \in Proc |-> FALSE]
    /\ lines = <<>> /\ line = <<>> /\ written = <<>>

Enter(a, c) == stage' = [stage EXCEPT ![a] = c]

\* wakeup() of the sleepers at c, who then go to d; a itself goes to b.
EnterAndWakeup(a, b, c, d) ==
    stage' = [q \in Agent |-> IF q = a THEN b ELSE IF stage[q] = c THEN d ELSE stage[q]]

-----------------------------------------------------------------------------
(***************************************************************************)
(* The UART, and the keyboard.                                             *)
(***************************************************************************)

\* The FIFO sends a character; it asks for an interrupt when it is empty.
uart_send ==
    /\ fifo # <<>>
    /\ fifo' = Tail(fifo)
    /\ irq' = (irq \/ Len(fifo) = 1)
    /\ written' = IF Head(fifo) \in Out THEN Tail(written) ELSE written
    /\ UNCHANGED <<input, output, clock, tlock, stage, n, target, echo, rx, conskilled>>

\* A key was typed; which one matters when uartgetc() reads it.
uart_receive ==
    /\ ~rx
    /\ rx' = TRUE /\ irq' = TRUE
    /\ UNCHANGED <<input, output, clock, tlock, stage, n, target, echo, fifo, conskilled, written>>

-----------------------------------------------------------------------------
(***************************************************************************)
(* Output: uartputc() and uartstart(), under uart_tx_lock.                 *)
(***************************************************************************)

TxFull == tx_w = (tx_r + UART_TX_BUF_SIZE) % UINTX

\* consolewrite() of one character: uartputc() takes uart_tx_lock, and finds the
\* buffer full and sleeps, or puts the character there.  "putc" is a process that
\* was woken.
uartputc(p) ==
    /\ stage[p] \in {"idle", "putc"} /\ tlock = Nil
    /\ IF TxFull
       THEN Enter(p, "putc_asleep") /\ UNCHANGED <<output, tlock, written>>
       ELSE /\ tx_buf' = [tx_buf EXCEPT ![tx_w % UART_TX_BUF_SIZE] = p]
            /\ tx_w' = (tx_w + 1) % UINTX
            /\ tlock' = p
            /\ written' = Append(written, p)
            /\ Enter(p, "start") /\ UNCHANGED tx_r
    /\ UNCHANGED <<input, clock, n, target, echo, fifo, rx, irq, conskilled>>

\* uartstart(): read LSR, and return with the lock released if there is nothing
\* to send or the UART is busy.
uartstart(a) ==
    /\ stage[a] = "start" /\ tlock = a
    /\ IF tx_w = tx_r \/ fifo # <<>>
       THEN tlock' = Nil /\ Enter(a, "idle")
       ELSE Enter(a, "send") /\ UNCHANGED tlock
    /\ UNCHANGED <<input, output, clock, n, target, echo, fifo, rx, irq, conskilled, written>>

\* Mutant: a writer that waits for space is not woken.
uartstart_send_silent(a) ==
    /\ stage[a] = "send"
    /\ tx_r' = (tx_r + 1) % UINTX
    /\ tx_buf' = [tx_buf EXCEPT ![tx_r % UART_TX_BUF_SIZE] = Nil]
    /\ fifo' = Append(fifo, tx_buf[tx_r % UART_TX_BUF_SIZE])
    /\ Enter(a, "start")
    /\ UNCHANGED <<input, tx_w, clock, tlock, n, target, echo, rx, irq, conskilled, written>>

\* uartstart() takes a character from the buffer, wakes writers that wait for
\* space, and writes THR.
uartstart_send(a) ==
    /\ stage[a] = "send"
    /\ tx_r' = (tx_r + 1) % UINTX
    /\ tx_buf' = [tx_buf EXCEPT ![tx_r % UART_TX_BUF_SIZE] = Nil]
    /\ fifo' = Append(fifo, tx_buf[tx_r % UART_TX_BUF_SIZE])
    /\ EnterAndWakeup(a, "start", "putc_asleep", "putc")
    /\ UNCHANGED <<input, tx_w, clock, tlock, n, target, echo, rx, irq, conskilled, written>>

-----------------------------------------------------------------------------
(***************************************************************************)
(* The interrupt handler.                                                  *)
(***************************************************************************)

\* plic_claim() and the start of uartintr().
uartintr ==
    /\ stage[Intr] = "idle" /\ irq
    /\ irq' = FALSE /\ Enter(Intr, "rx")
    /\ UNCHANGED <<input, output, clock, tlock, n, target, echo, fifo, rx, conskilled, written>>

\* uartgetc() has no more input: uartintr() takes uart_tx_lock.
uartintr_tx ==
    /\ stage[Intr] = "rx" /\ ~rx /\ tlock = Nil
    /\ tlock' = Intr /\ Enter(Intr, "start")
    /\ UNCHANGED <<input, output, clock, n, target, echo, fifo, rx, irq, conskilled, written>>

\* The character stored for c, and whether it completes a line.
InputFull == (e - r) % UINTC >= INPUT_BUF
Stored(c) == IF c = "cr" THEN "nl" ELSE c

\* Mutant: a full buffer does not complete the line.
Completes_line(c) == Stored(c) \in {"nl", "^D"}

Completes(c) == Stored(c) \in {"nl", "^D"} \/ (e + 1) % UINTC = (r + INPUT_BUF) % UINTC

\* The echo of k erased characters: the three that consputc() sends count as one.
Erase(k) == [j \in 1 .. k |-> "bs"]

\* The places of the line being edited, and the buffer with some places cleared.
Edited == {(w + k) % UINTC : k \in 0 .. ((e - w) % UINTC) - 1}
Clear(K) == [i \in DOMAIN buf |-> IF \E k \in K : k % INPUT_BUF = i THEN Nil ELSE buf[i]]

\* consoleintr(c): kill the line, erase a character, store one and wake readers if
\* it completes a line, or ignore it.  The echoes go out under cons.lock too.
consoleintr(c) ==
    /\ stage[Intr] = "rx" /\ rx /\ clock = Nil
    /\ rx' = FALSE /\ clock' = Intr
    /\ \/ /\ c = "^U"
          /\ e' = w /\ line' = <<>>
          /\ buf' = Clear(Edited)
          /\ echo' = Erase((e - w) % UINTC) /\ Enter(Intr, "echo") /\ UNCHANGED <<r, w, lines>>
       \/ /\ c = "^H" /\ e # w
          /\ e' = (e - 1) % UINTC /\ line' = Front(line)
          /\ buf' = Clear({e'})
          /\ echo' = Erase(1) /\ Enter(Intr, "echo") /\ UNCHANGED <<r, w, lines>>
       \/ /\ c \in {"x", "cr", "^D"} /\ ~InputFull
          /\ buf' = [buf EXCEPT ![e % INPUT_BUF] = Stored(c)]
          /\ e' = (e + 1) % UINTC
          /\ echo' = <<Stored(c)>>
          /\ IF Completes(c)
             THEN /\ w' = e' /\ lines' = lines \o Append(line, Stored(c)) /\ line' = <<>>
                  /\ EnterAndWakeup(Intr, "echo", "read_asleep", "read")
             ELSE line' = Append(line, Stored(c)) /\ Enter(Intr, "echo") /\ UNCHANGED <<w, lines>>
          /\ UNCHANGED r
       \/ /\ (c = "^H" /\ e = w) \/ (c \in {"x", "cr", "^D"} /\ InputFull)
          /\ echo' = <<>> /\ Enter(Intr, "echo") /\ UNCHANGED input
    /\ UNCHANGED <<output, tlock, n, target, fifo, irq, conskilled, written>>

\* uartputc_sync(): wait for LSR_TX_IDLE, without uart_tx_lock ...
uartputc_sync ==
    /\ stage[Intr] = "echo" /\ echo # <<>> /\ fifo = <<>>
    /\ Enter(Intr, "echo_send")
    /\ UNCHANGED <<input, output, clock, tlock, n, target, echo, fifo, rx, irq, conskilled, written>>

\* ... and write THR.
uartputc_sync_send ==
    /\ stage[Intr] = "echo_send"
    /\ fifo' = Append(fifo, Head(echo)) /\ echo' = Tail(echo)
    /\ Enter(Intr, "echo")
    /\ UNCHANGED <<input, output, clock, tlock, n, target, rx, irq, conskilled, written>>

\* consoleintr() releases the lock.
consoleintr_end ==
    /\ stage[Intr] = "echo" /\ echo = <<>>
    /\ clock' = Nil
    /\ Enter(Intr, "rx")
    /\ UNCHANGED <<input, output, tlock, n, target, echo, fifo, rx, irq, conskilled, written>>

-----------------------------------------------------------------------------
(***************************************************************************)
(* consoleread().                                                          *)
(***************************************************************************)

\* consoleread() of k characters takes cons.lock ...
sys_read(p, k) ==
    /\ stage[p] = "idle" /\ clock = Nil
    /\ n' = [n EXCEPT ![p] = k] /\ target' = [target EXCEPT ![p] = k]
    /\ clock' = p /\ Enter(p, "reading")
    /\ UNCHANGED <<input, output, tlock, echo, fifo, rx, irq, conskilled, written>>

\* ... as does sleep() on its way out.
consoleread_awake(p) ==
    /\ stage[p] = "read" /\ clock = Nil
    /\ clock' = p /\ Enter(p, "reading")
    /\ UNCHANGED <<input, output, tlock, n, target, echo, fifo, rx, irq, conskilled, written>>

\* The read returns; a killed process exits, and another takes its place.
ReadDone(p) ==
    /\ Enter(p, "idle") /\ clock' = Nil /\ conskilled' = [conskilled EXCEPT ![p] = FALSE]
    /\ n' = [n EXCEPT ![p] = 0] /\ target' = [target EXCEPT ![p] = 0]

\* No input: return if killed, or sleep.
consoleread_wait(p) ==
    /\ stage[p] = "reading" /\ r = w
    /\ IF conskilled[p] THEN ReadDone(p)
       ELSE Enter(p, "read_asleep") /\ clock' = Nil /\ UNCHANGED <<n, target, conskilled>>
    /\ UNCHANGED <<input, output, tlock, echo, fifo, rx, irq, written>>

\* One character.  ^D ends the read, and is left for the next one if this one
\* has something to return; copied is the outcome of either_copyout().
consoleread(p, copied) ==
    /\ stage[p] = "reading" /\ r # w
    /\ LET c == buf[r % INPUT_BUF]
       IN  IF c = "^D" /\ n[p] < target[p]
           THEN ReadDone(p) /\ UNCHANGED input
           ELSE /\ r' = (r + 1) % UINTC /\ lines' = Tail(lines)
                /\ buf' = Clear({r})
                /\ UNCHANGED <<w, e, line>>
                /\ IF c \in {"^D", "nl"} \/ ~copied \/ n[p] = 1 THEN ReadDone(p)
                   ELSE n' = [n EXCEPT ![p] = @ - 1] /\ UNCHANGED <<stage, clock, target, conskilled>>
    /\ UNCHANGED <<output, tlock, echo, fifo, rx, irq, written>>

\* kill() makes a sleeper runnable; only consoleread() looks at killed, which is
\* not recorded elsewhere.
consolekill(p) ==
    /\ ~conskilled[p]
    /\ \/ /\ stage[p] \in {"reading", "read_asleep"}
          /\ conskilled' = [conskilled EXCEPT ![p] = TRUE]
          /\ Enter(p, IF stage[p] = "read_asleep" THEN "read" ELSE stage[p])
       \/ stage[p] = "putc_asleep" /\ Enter(p, "putc") /\ UNCHANGED conskilled
    /\ UNCHANGED <<input, output, clock, tlock, n, target, echo, fifo, rx, irq, written>>

-----------------------------------------------------------------------------
ConsoleNext ==
    \/ uart_send \/ uart_receive
    \/ uartintr \/ uartintr_tx \/ (\E c \in Typed : consoleintr(c)) \/ consoleintr_end
    \/ uartputc_sync \/ uartputc_sync_send
    \/ \E a \in Agent : uartstart(a) \/ uartstart_send(a)
    \/ \E p \in Proc :
         \/ uartputc(p)
         \/ \E k \in 1 .. MaxRead : sys_read(p, k)
         \/ consoleread_awake(p) \/ consoleread_wait(p)
         \/ \E copied \in BOOLEAN : consoleread(p, copied)
         \/ consolekill(p)

ConsoleSpec == ConsoleInit /\ [][ConsoleNext]_consolevars

-----------------------------------------------------------------------------
(***************************************************************************)
(* Properties.                                                             *)
(***************************************************************************)

\* The part of a ring from counter a to counter b.
Slice(f, a, b, size, max) == [k \in 1 .. (b - a) % max |-> f[(a + k - 1) % size]]

\* The characters of f that processes wrote.
OutOf(f) ==
    LET g[k \in 0 .. Len(f)] ==
            IF k = 0 THEN <<>>
            ELSE IF f[k] \in Out THEN Append(g[k - 1], f[k]) ELSE g[k - 1]
    IN  g[Len(f)]

\* The input buffer holds the complete lines not yet read, in order, and then
\* the line being edited, whatever was typed, erased and read meanwhile and
\* wherever the counters wrap.  A buffer with no room has a line to read, or no
\* key would have an effect again; and nobody sleeps beside complete input.
InputKept ==
    /\ Slice(buf, r, w, INPUT_BUF, UINTC) = lines
    /\ Slice(buf, w, e, INPUT_BUF, UINTC) = line
    /\ InputFull => w = e
    /\ clock = Nil => \A p \in Proc : stage[p] = "read_asleep" => r = w

\* What was written leaves in the order it was written, none of it lost or sent
\* twice, though echoes are sent without the lock: the UART's FIFO never
\* overflows.  No writer sleeps beside free space, and a character in the buffer
\* of an idle UART has an interrupt or a cpu on its way to it.
OutputKept ==
    /\ OutOf(fifo)
         \o Slice(tx_buf, tx_r, tx_w, UART_TX_BUF_SIZE, UINTX) = written
    /\ Len(fifo) <= FIFO
    /\ \A p \in Proc : stage[p] = "putc_asleep" => TxFull
    /\ tx_r # tx_w /\ fifo = <<>> => irq \/ tlock # Nil \/ stage[Intr] # "idle"
=============================================================================
