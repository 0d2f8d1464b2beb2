-------------------------------- MODULE Logger -------------------------------
(***************************************************************************)
(* The transmitting half of libs/nrf_HAL/uart/logger.c: a ring buffer that *)
(* a task fills (logger_transmit_bytes) and that the end-of-transfer       *)
(* interrupt of the UART empties by DMA.                                   *)
(*                                                                         *)
(* The interrupt preempts the task: it can fall between any two of its     *)
(* steps, and the task goes on only when it is over.  Stopping the         *)
(* peripheral waits until it has stopped, and the interrupt this raises    *)
(* finds xfr_start cleared and does nothing, so it is part of the stop.    *)
(*                                                                         *)
(* One task at a time writes; nothing in the code lets a second one in     *)
(* safely.  Bytes are numbered as they are accepted.  Transmission is      *)
(* enabled (Hardware_drivers_install) and nothing disables it.             *)
(***************************************************************************)
EXTENDS Integers

CONSTANTS
    UART_TX_BUFFER_SIZE,
    UART_DMA_MAX_SIZE,
    MaxBytes                \* bound

ASSUME LoggerAssumption ==
    /\ UART_TX_BUFFER_SIZE \in Nat \ {0}
    /\ UART_DMA_MAX_SIZE \in Nat \ {0}
    /\ MaxBytes \in Nat

VARIABLES
    head, tail, buff_full, xfr_start, pbuff,    \* uart_log.tx
    pc, size,               \* logger_transmit_bytes
    uart,                   \* the DMA transfer of the peripheral
    \* history
    accepted,               \* number of bytes accepted
    last,                   \* the last byte the UART has sent
    newest,                 \* the newest byte it has sent
    inOrder,                \* each byte it sent was the next one
    overrun,                \* bytes have been dropped for newer ones
    misflagged              \* an interrupt fell between a copy and the flag
                            \* for a full buffer, and made the flag wrong

history == <<accepted, last, newest, inOrder, overrun, misflagged>>
fifo == <<head, tail, buff_full, xfr_start, pbuff>>
vars == <<fifo, pc, size, uart, history>>

N == UART_TX_BUFFER_SIZE
Stopped == [running |-> FALSE, ptr |-> 0, size |-> 0, amount |-> 0, endtx |-> FALSE]

Init ==
    /\ head = 0 /\ tail = 0 /\ buff_full = FALSE /\ xfr_start = FALSE
    /\ pbuff = [i \in 0 .. N - 1 |-> 0]
    /\ pc = "idle" /\ size = 0
    /\ uart = Stopped
    /\ accepted = 0 /\ last = 0 /\ newest = 0 /\ inOrder = TRUE
    /\ overrun = FALSE /\ misflagged = FALSE

----------------------------------------------------------------------------
(* The UART.                                                                *)

Byte ==
    /\ uart.running
    /\ last' = pbuff[uart.ptr + uart.amount]
    /\ newest' = (IF last' > newest THEN last' ELSE newest)
    /\ inOrder' = (inOrder /\ last' = last + 1)
    /\ uart' = [uart EXCEPT !.amount = @ + 1, !.running = uart.amount + 1 < uart.size,
                            !.endtx = uart.amount + 1 = uart.size]
    /\ UNCHANGED <<fifo, pc, size, accepted, overrun, misflagged>>

Min(a, b) == IF a < b THEN a ELSE b
DmaSize(t) == Min(UART_DMA_MAX_SIZE, IF head > t THEN head - t ELSE N - t)
Transfer(t) == [Stopped EXCEPT !.running = TRUE, !.ptr = t, !.size = DmaSize(t)]

----------------------------------------------------------------------------
(* logger_transmit_bytes.                                                   *)

Goto(l) == pc' = l
Preempted == uart.endtx

Second(s) == s - (N - head)
Overflows_OneLap(s) ==          \* mutant
    IF head + s > N THEN head < tail \/ buff_full
    ELSE (head < tail \/ buff_full) /\ head + s >= tail
\* The message does not fit before the oldest byte.
Overflows(s) ==
    IF head + s > N THEN head < tail \/ Second(s) >= tail \/ buff_full
    ELSE (head < tail \/ buff_full) /\ head + s >= tail

logger_transmit_bytes(s) ==
    /\ pc = "idle" /\ ~Preempted
    /\ 0 < s /\ s < N
    /\ accepted + s <= MaxBytes
    /\ size' = s
    /\ Goto(IF Overflows(s) THEN "shift" ELSE "copy")
    /\ UNCHANGED <<fifo, uart, history>>

\* The transfer is stopped and the oldest bytes are dropped.
Shift ==
    /\ pc = "shift" /\ ~Preempted
    /\ xfr_start' = FALSE /\ uart' = Stopped
    /\ tail' = (head + size) % N
    /\ overrun' = TRUE
    /\ Goto("copy")
    /\ UNCHANGED <<head, buff_full, pbuff, size, accepted, last, newest, inOrder, misflagged>>

Copy ==
    /\ pc = "copy" /\ ~Preempted
    /\ pbuff' = [i \in 0 .. N - 1 |->
                    LET k == (i + N - head) % N
                    IN  IF k < size THEN accepted + k + 1 ELSE pbuff[i]]
    /\ head' = (head + size) % N
    /\ accepted' = accepted + size
    /\ Goto("check")
    /\ UNCHANGED <<tail, buff_full, xfr_start, size, uart, last, newest, inOrder, overrun, misflagged>>

CheckFull ==
    /\ pc = "check" /\ ~Preempted
    /\ Goto(IF head = tail THEN "full" ELSE "start")
    /\ UNCHANGED <<fifo, size, uart, history>>

SetFull ==
    /\ pc = "full" /\ ~Preempted
    /\ buff_full' = TRUE
    /\ Goto("start")
    /\ UNCHANGED <<head, tail, xfr_start, pbuff, size, uart, history>>

Idle_Never == FALSE             \* mutant
Idle_Restarts == ~(head = tail /\ ~buff_full)   \* mutant
Idle == ~xfr_start /\ ~(head = tail /\ ~buff_full)

logger_start_tx ==
    /\ pc = "start" /\ ~Preempted
    /\ IF Idle THEN xfr_start' = TRUE /\ uart' = Transfer(tail)
               ELSE UNCHANGED <<xfr_start, uart>>
    /\ Goto("idle")
    /\ UNCHANGED <<head, tail, buff_full, pbuff, size, history>>

----------------------------------------------------------------------------
\* The interrupt.
uart_tx_cmplete_callback ==
    /\ uart.endtx
    /\ LET t == IF tail + uart.amount >= N THEN 0 ELSE tail + uart.amount
       IN  IF ~xfr_start
           THEN uart' = Stopped /\ UNCHANGED <<tail, buff_full, xfr_start>>
           ELSE /\ tail' = t
                /\ IF head = t /\ ~buff_full
                   THEN xfr_start' = FALSE /\ uart' = Stopped /\ UNCHANGED buff_full
                   ELSE buff_full' = FALSE /\ uart' = Transfer(t) /\ UNCHANGED xfr_start
    /\ misflagged' = (misflagged \/ pc = "full" \/ (pc = "check" /\ head = tail'))
    /\ UNCHANGED <<head, pbuff, pc, size, accepted, last, newest, inOrder, overrun>>

----------------------------------------------------------------------------
Task == Shift \/ Copy \/ CheckFull \/ SetFull \/ logger_start_tx
Next ==
    \/ \E s \in 1 .. N : logger_transmit_bytes(s)
    \/ Task
    \/ Byte
    \/ uart_tx_cmplete_callback

Spec == Init /\ [][Next]_vars
\* A task that writes is not starved, and the UART works.
FairSpec == Spec /\ WF_vars(Task) /\ WF_vars(Byte) /\ WF_vars(uart_tx_cmplete_callback)

----------------------------------------------------------------------------
(* The properties.                                                          *)

\* Between two calls the buffer holds the newest bytes, in order and without a
\* gap, and of the newest N those that were not sent are all among them: only
\* older ones are dropped, however the messages wrap, overrun one another and
\* race the interrupt (logger_transmit_bytes, uart_tx_cmplete_callback).  Left
\* out: an interrupt after the copy that empties the buffer, or takes from it,
\* before the flag is set makes a buffer that is not full count as full.
Count == IF head = tail THEN IF buff_full THEN N ELSE 0 ELSE (head + N - tail) % N
HoldsNewest ==
    pc = "idle" /\ ~misflagged =>
        /\ \A k \in 0 .. Count - 1 : pbuff[(tail + k) % N] = accepted - Count + 1 + k
        /\ accepted - Count <= newest \/ Count = N

\* As long as nothing had to be dropped the UART sends what was logged: every
\* byte once, in order.  Left out again: an interrupt between the copy and the
\* flag (logger_transmit_bytes), which makes a buffer full that is not, so that
\* stale bytes are sent although nothing was dropped.
SentInOrder ==
    ~overrun /\ ~misflagged => inOrder

\* What is logged last reaches the UART, whatever was dropped before it, and
\* then the UART rests until there is something new.
EveryByteSent ==
    (pc # "idle" \/ xfr_start)
        ~> (pc = "idle" /\ ~xfr_start /\ last = accepted)
=============================================================================
