SPECIFICATION ConsoleSpec
CONSTANTS
    Proc = {p1, p2}
    Intr = Intr
    Nil = Nil
    INPUT_BUF = 2
    UART_TX_BUF_SIZE = 1
    UINTC = 4
    UINTX = 2
    FIFO = 2
    MaxRead = 2
SYMMETRY Symmetry
INVARIANTS
    InputKept
    OutputKept
