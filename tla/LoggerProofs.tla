---------------------------- MODULE LoggerProofs ----------------------------
(***************************************************************************)
(* Theorems about Logger, for every size of its ring buffer, of a DMA      *)
(* transfer and of what is logged: the buffer may be larger than a         *)
(* transfer or, as it is configured, smaller.                              *)
(***************************************************************************)
EXTENDS Logger, TLAPS

Calls == {"shift", "copy", "check", "full", "start"}
Uart == [running : BOOLEAN, ptr : Nat, size : Nat, amount : Nat, endtx : BOOLEAN]

LoggerTypes ==
    /\ head \in 0 .. N - 1 /\ tail \in 0 .. N - 1
    /\ buff_full \in BOOLEAN /\ xfr_start \in BOOLEAN
    /\ pbuff \in [0 .. N - 1 -> Nat]
    /\ pc \in Calls \cup {"idle"} /\ size \in Nat
    /\ pc \in Calls => size \in 1 .. N - 1
    /\ uart \in Uart
    /\ accepted \in Nat /\ last \in Nat /\ newest \in Nat
    /\ inOrder \in BOOLEAN /\ overrun \in BOOLEAN /\ misflagged \in BOOLEAN

\* The newest N bytes are at their places, those of this lap before head.
Lap == accepted - head
Content(i) == IF i < head THEN Lap + i + 1 ELSE Lap - N + i + 1
InPlace ==
    /\ Lap = 0 \/ Lap >= N
    /\ \A i \in 0 .. N - 1 : i < head \/ Lap # 0 => pbuff[i] = Content(i)

\* xfr_start says whether the UART is at work, which it is at tail.
UartInv ==
    IF ~xfr_start THEN uart = Stopped
    ELSE /\ uart.ptr = tail
         /\ uart.size \in 1 .. N - tail /\ uart.size <= UART_DMA_MAX_SIZE
         /\ uart.amount <= uart.size
         /\ uart.running = (uart.amount < uart.size) /\ uart.endtx = (uart.amount = uart.size)

\* How many bytes the buffer holds; until the flag is set head = tail is full.
Filled(full) ==
    IF head > tail THEN head - tail
    ELSE IF head < tail \/ full THEN N + head - tail
    ELSE 0
Used == Filled(buff_full \/ pc \in {"check", "full"})

\* There is room for the bytes that are about to be copied: there was, or tail
\* was moved to where head will be.
Wrap(n) == IF n < N THEN n ELSE n - N
AfterShift == pc = "copy" /\ ~xfr_start /\ overrun /\ tail = Wrap(head + size)
Room ==
    /\ pc = "shift" \/ AfterShift => accepted + size >= N
    /\ pc = "copy" => AfterShift \/ (~buff_full /\ Filled(FALSE) + size <= N)
    /\ pc = "full" => head = tail

\* What is no longer in the buffer has been sent, up to the bytes of the
\* transfer, or was dropped to fill it.  A transfer of the whole buffer is
\* started over when it ends, and what is written meanwhile is sent again.
Released == accepted - Used + uart.amount
Sent ==
    /\ newest >= accepted - Used \/ Used = N
    /\ uart.amount > 0 /\ (uart.size < N \/ (Used = N /\ uart.amount = N))
          => newest >= Released
NothingDropped ==
    /\ inOrder /\ last = Released
    /\ uart.size < N
    /\ xfr_start \/ Used <= IF pc \in {"check", "full", "start"} THEN size ELSE 0
Accounted ==
    ~AfterShift =>
        /\ buff_full => head = tail
        /\ Used <= accepted
        /\ uart.size <= Used \/ uart.size = N
        /\ Sent
        /\ ~overrun => NothingDropped

Placed == LoggerTypes /\ InPlace /\ UartInv
LoggerInv == Placed /\ (misflagged \/ (Room /\ Accounted))

----------------------------------------------------------------------------
(* Positions and transfers.                                                 *)

LEMMA ModWraps ==
  ASSUME NEW n \in 0 .. 2 * N - 1
  PROVE  n % N = Wrap(n) /\ Wrap(n) \in 0 .. N - 1
<1>1. N \in Nat \ {0}
  BY LoggerAssumption DEF N
<1>2. n \in Int /\ n \in 0 .. N + N - 1
  BY <1>1
<1>3. \A m \in Nat : m < N => m % N = m
  BY <1>1
<1>4. \A m \in Nat : N <= m /\ m < N + N => m % N = m - N
  BY <1>1
<1> QED
  BY <1>1, <1>2, <1>3, <1>4 DEF Wrap

LEMMA StoppedUart ==
  /\ Stopped \in Uart /\ Stopped.amount = 0 /\ Stopped.size = 0
  /\ ~Stopped.running /\ ~Stopped.endtx
BY DEF Stopped, Uart

\* A transfer starts at tail and stays within the buffer and its contents.
LEMMA TransferFits ==
  ASSUME LoggerTypes, NEW t \in 0 .. N - 1
  PROVE  /\ Transfer(t) \in Uart
         /\ Transfer(t).ptr = t /\ Transfer(t).amount = 0
         /\ Transfer(t).running /\ ~Transfer(t).endtx
         /\ Transfer(t).size = DmaSize(t)
         /\ DmaSize(t) \in 1 .. N - t
         /\ DmaSize(t) <= IF head > t THEN head - t ELSE N - t
         /\ DmaSize(t) <= UART_DMA_MAX_SIZE
         /\ t = 0 /\ head = 0 /\ N <= UART_DMA_MAX_SIZE => DmaSize(t) = N
<1>1. /\ DmaSize(t) \in 1 .. N - t /\ DmaSize(t) <= IF head > t THEN head - t ELSE N - t
      /\ DmaSize(t) <= UART_DMA_MAX_SIZE
      /\ t = 0 /\ head = 0 /\ N <= UART_DMA_MAX_SIZE => DmaSize(t) = N
  BY LoggerAssumption DEF LoggerTypes, DmaSize, Min, N
<1>2. t \in Nat /\ DmaSize(t) \in Nat
  BY <1>1, LoggerAssumption DEF N
<1>3. PICK d \in Nat : d = DmaSize(t)
  BY <1>2
<1>4. PICK u \in Uart : u = Stopped /\ u.amount = 0 /\ ~u.endtx
  BY StoppedUart
<1>5. Transfer(t) = [u EXCEPT !.running = TRUE, !.ptr = t, !.size = d]
  BY <1>3, <1>4 DEF Transfer
<1>6. /\ Transfer(t) \in Uart
      /\ Transfer(t).ptr = t /\ Transfer(t).amount = 0
      /\ Transfer(t).running /\ ~Transfer(t).endtx /\ Transfer(t).size = d
  BY <1>2, <1>4, <1>5 DEF Uart
<1> QED
  BY <1>1, <1>3, <1>6

\* Where the bytes of a message go.
LEMMA CopyIs ==
  ASSUME LoggerTypes, Copy
  PROVE  /\ size \in 1 .. N - 1
         /\ head' = Wrap(head + size) /\ head' \in 0 .. N - 1
         /\ pbuff' \in [0 .. N - 1 -> Nat]
         /\ \A i \in 0 .. N - 1 :
               pbuff'[i] = IF i >= head /\ i < head + size THEN accepted + (i - head) + 1
                           ELSE IF i + N < head + size THEN accepted + (i + N - head) + 1
                           ELSE pbuff[i]
<1>1. N \in Nat \ {0} /\ head \in 0 .. N - 1 /\ size \in 1 .. N - 1 /\ accepted \in Nat
      /\ pbuff \in [0 .. N - 1 -> Nat]
  BY LoggerAssumption DEF LoggerTypes, Calls, Copy, N
<1>2. head + size \in 0 .. 2 * N - 1
  BY <1>1
<1>3. head' = Wrap(head + size) /\ head' \in 0 .. N - 1
  BY <1>2, ModWraps DEF Copy
<1> DEFINE Offset(i) == (i + N - head) % N
<1>4. ASSUME NEW i \in 0 .. N - 1
      PROVE  Offset(i) = (IF i >= head THEN i - head ELSE i + N - head) /\ Offset(i) \in Nat
  <2>1. PICK n : n = i + N - head
    OBVIOUS
  <2>2. n \in 0 .. 2 * N - 1
    BY <1>1, <2>1
  <2>3. n % N = Wrap(n)
    BY <2>2, ModWraps
  <2> QED
    BY <1>1, <2>1, <2>3 DEF Wrap
<1>5. pbuff' = [i \in 0 .. N - 1 |->
                   IF Offset(i) < size THEN accepted + Offset(i) + 1 ELSE pbuff[i]]
  BY DEF Copy
<1> HIDE DEF Offset
<1>6. pbuff' \in [0 .. N - 1 -> Nat]
  BY <1>1, <1>4, <1>5, SMTT(30)
<1>7. ASSUME NEW i \in 0 .. N - 1
      PROVE  pbuff'[i] = IF i >= head /\ i < head + size THEN accepted + (i - head) + 1
                         ELSE IF i + N < head + size THEN accepted + (i + N - head) + 1
                         ELSE pbuff[i]
  <2>1. pbuff'[i] = IF Offset(i) < size THEN accepted + Offset(i) + 1 ELSE pbuff[i]
    BY <1>5
  <2>2. CASE i >= head
    BY <1>1, <1>4, <2>1, <2>2
  <2>3. CASE i < head
    BY <1>1, <1>4, <2>1, <2>3
  <2> QED
    BY <1>1, <2>2, <2>3
<1> QED
  BY <1>1, <1>3, <1>6, <1>7

----------------------------------------------------------------------------
(* Each step keeps the invariant.                                           *)

UsedIs == IF head > tail THEN head - tail
          ELSE IF head < tail \/ buff_full \/ pc = "check" \/ pc = "full" THEN N + head - tail
          ELSE 0

UsedFacts == LoggerTypes => Used = UsedIs /\ Used \in 0 .. N

LEMMA UsedNow == UsedFacts
BY LoggerAssumption DEF UsedFacts, LoggerTypes, Used, Filled, UsedIs, N

LEMMA UsedNext == UsedFacts'
BY UsedNow, PTL

\* The conditions of Overflows say exactly that there is no room.
LEMMA OverflowsIs ==
  ASSUME LoggerTypes, InPlace, Accounted, pc = "idle", NEW s \in 1 .. N - 1
  PROVE  /\ Overflows(s) => accepted + s >= N
         /\ ~Overflows(s) => ~buff_full /\ Filled(FALSE) + s <= N
<1>1. /\ head \in 0 .. N - 1 /\ tail \in 0 .. N - 1 /\ N \in Nat \ {0} /\ accepted \in Nat
      /\ buff_full \in BOOLEAN
  BY LoggerAssumption DEF LoggerTypes, N
<1>2. /\ buff_full => head = tail
      /\ Used <= accepted
  BY DEF Accounted, AfterShift
<1>3. accepted = head \/ accepted - head >= N
  BY <1>1 DEF InPlace, Lap
<1>4. Used = UsedIs
  BY UsedNow DEF UsedFacts
<1>5. Overflows(s) => accepted + s >= N
  BY <1>1, <1>2, <1>3, <1>4 DEF Overflows, Second, UsedIs
<1>6. ~Overflows(s) => ~buff_full /\ Filled(FALSE) + s <= N
  BY <1>1, <1>2 DEF Overflows, Second, Filled
<1> QED
  BY <1>5, <1>6

LEMMA TransmitKeeps ==
  ASSUME LoggerInv, NEW s \in 1 .. N, logger_transmit_bytes(s)
  PROVE  LoggerInv'
<1>1. /\ pc = "idle" /\ s \in 1 .. N - 1 /\ size' = s
      /\ pc' = (IF Overflows(s) THEN "shift" ELSE "copy")
      /\ UNCHANGED <<head, tail, buff_full, xfr_start, pbuff, uart,
                     accepted, last, newest, inOrder, overrun, misflagged>>
  BY LoggerAssumption DEF logger_transmit_bytes, Goto, fifo, history, N
<1>2. Placed'
  <2>1. LoggerTypes'
    BY <1>1, LoggerAssumption DEF LoggerInv, Placed, LoggerTypes, Calls, N
  <2>2. InPlace' /\ UartInv'
    BY <1>1 DEF LoggerInv, Placed, InPlace, UartInv, Lap, Content
  <2> QED
    BY <2>1, <2>2 DEF Placed
<1>3. ASSUME ~misflagged PROVE Room' /\ Accounted'
  <2>1. LoggerTypes /\ InPlace /\ Room /\ Accounted /\ LoggerTypes'
    BY <1>2, <1>3 DEF LoggerInv, Placed
  <2>2. /\ Overflows(s) => accepted + s >= N
        /\ ~Overflows(s) => ~buff_full /\ Filled(FALSE) + s <= N
    BY <1>1, <2>1, OverflowsIs
  <2>3. Used' = Used
    BY <1>1, <2>1, UsedNow, UsedNext DEF UsedFacts, UsedIs
  <2>4. Filled(FALSE)' = Filled(FALSE)
    BY <1>1 DEF Filled
  <2>5. Accounted'
    BY <1>1, <2>1, <2>3 DEF Accounted, AfterShift, Sent, NothingDropped, Released
  <2>6. AfterShift' => accepted + s >= N
    <3>1. SUFFICES ASSUME AfterShift' PROVE accepted + s >= N
      OBVIOUS
    <3>2. Filled(FALSE) + s <= N /\ ~buff_full /\ tail = Wrap(head + s)
      BY <1>1, <2>2, <3>1 DEF AfterShift
    <3>3. /\ head \in 0 .. N - 1 /\ tail \in 0 .. N - 1 /\ N \in Nat \ {0} /\ accepted \in Nat
      BY <2>1, LoggerAssumption DEF LoggerTypes, N
    <3>4. UsedIs <= accepted
      BY <1>1, <2>1, UsedNow DEF UsedFacts, Accounted, AfterShift
    <3> QED
      BY <1>1, <3>2, <3>3, <3>4 DEF UsedIs, Wrap
  <2>7. Room'
    BY <1>1, <2>2, <2>4, <2>6 DEF Room
  <2> QED
    BY <2>5, <2>7
<1> QED
  BY <1>1, <1>2, <1>3 DEF LoggerInv

LEMMA ShiftKeeps ==
  ASSUME LoggerInv, Shift
  PROVE  LoggerInv'
<1>1. /\ pc = "shift" /\ pc' = "copy" /\ xfr_start' = FALSE /\ uart' = Stopped
      /\ overrun' = TRUE /\ tail' = (head + size) % N
      /\ UNCHANGED <<head, buff_full, pbuff, size, accepted, last, newest, inOrder, misflagged>>
  BY DEF Shift, Goto
<1>2. /\ head \in 0 .. N - 1 /\ size \in 1 .. N - 1 /\ N \in Nat \ {0}
  BY <1>1, LoggerAssumption DEF LoggerInv, Placed, LoggerTypes, Calls, N
<1>3. tail' = Wrap(head + size) /\ tail' \in 0 .. N - 1
  <2>1. head + size \in 0 .. 2 * N - 1
    BY <1>2
  <2> QED
    BY <1>1, <2>1, ModWraps
<1>4. Placed'
  <2>1. LoggerTypes'
    BY <1>1, <1>3, StoppedUart DEF LoggerInv, Placed, LoggerTypes, Calls
  <2>2. InPlace' /\ UartInv'
    BY <1>1 DEF LoggerInv, Placed, InPlace, UartInv, Lap, Content
  <2> QED
    BY <2>1, <2>2 DEF Placed
<1>5. AfterShift'
  BY <1>1, <1>3 DEF AfterShift, Wrap
<1>6. ~misflagged => Room' /\ Accounted'
  BY <1>1, <1>5 DEF LoggerInv, Room, Accounted
<1> QED
  BY <1>1, <1>4, <1>6 DEF LoggerInv

LEMMA CopyKeeps ==
  ASSUME LoggerInv, Copy
  PROVE  LoggerInv'
<1>1. /\ pc = "copy" /\ pc' = "check" /\ accepted' = accepted + size /\ ~uart.endtx
      /\ UNCHANGED <<tail, buff_full, xfr_start, size, uart, last, newest, inOrder, overrun, misflagged>>
  BY DEF Copy, Goto, Preempted
<1>2. /\ head \in 0 .. N - 1 /\ tail \in 0 .. N - 1 /\ size \in 1 .. N - 1 /\ N \in Nat \ {0}
      /\ accepted \in Nat /\ last \in Nat /\ newest \in Nat /\ LoggerTypes
  BY <1>1, LoggerAssumption DEF LoggerInv, Placed, LoggerTypes, Calls, N
<1>3. /\ head' = Wrap(head + size) /\ head' \in 0 .. N - 1
      /\ pbuff' \in [0 .. N - 1 -> Nat]
      /\ \A i \in 0 .. N - 1 :
            pbuff'[i] = IF i >= head /\ i < head + size THEN accepted + (i - head) + 1
                        ELSE IF i + N < head + size THEN accepted + (i + N - head) + 1
                        ELSE pbuff[i]
  BY <1>2, CopyIs
<1>4. LoggerTypes'
  BY <1>1, <1>2, <1>3 DEF LoggerTypes, Calls
<1>5. InPlace'
  <2>1. /\ accepted - head = 0 \/ accepted - head >= N
        /\ \A i \in 0 .. N - 1 : i < head \/ accepted - head # 0 =>
              pbuff[i] = IF i < head THEN accepted - head + i + 1 ELSE accepted - head - N + i + 1
    BY DEF LoggerInv, Placed, InPlace, Lap, Content
  <2>2. accepted' - head' = IF head + size < N THEN accepted - head ELSE accepted - head + N
    BY <1>1, <1>2, <1>3 DEF Wrap
  <2>3. ASSUME NEW i \in 0 .. N - 1, i < head' \/ accepted' - head' # 0
        PROVE  pbuff'[i] = IF i < head' THEN accepted' - head' + i + 1
                           ELSE accepted' - head' - N + i + 1
    <3>1. i < head \/ accepted - head # 0 =>
            pbuff[i] = IF i < head THEN accepted - head + i + 1 ELSE accepted - head - N + i + 1
      BY <2>1
    <3>2. pbuff'[i] = IF i >= head /\ i < head + size THEN accepted + (i - head) + 1
                      ELSE IF i + N < head + size THEN accepted + (i + N - head) + 1
                      ELSE pbuff[i]
      BY <1>3
    <3>3. CASE head + size < N
      <4>1. head' = head + size /\ accepted' - head' = accepted - head
        BY <1>3, <2>2, <3>3 DEF Wrap
      <4>2. CASE i < head
        BY <1>2, <3>1, <3>2, <3>3, <4>1, <4>2
      <4>3. CASE ~(i < head)
        BY <1>2, <2>3, <3>1, <3>2, <3>3, <4>1, <4>3
      <4> QED
        BY <4>2, <4>3
    <3>4. CASE ~(head + size < N)
      <4>1. head' = head + size - N /\ accepted' - head' = accepted - head + N
        <5>1. head' = Wrap(head + size)
          BY <1>3
        <5>2. head' = head + size - N
          BY <1>2, <3>4, <5>1 DEF Wrap
        <5>3. accepted' - head' = accepted - head + N
          BY <2>2, <3>4
        <5> QED
          BY <5>2, <5>3
      <4>2. CASE i < head
        BY <1>2, <3>1, <3>2, <3>4, <4>1, <4>2
      <4>3. CASE ~(i < head)
        BY <1>2, <3>2, <3>4, <4>1, <4>3
      <4> QED
        BY <4>2, <4>3
    <3> QED
      BY <3>3, <3>4
  <2>4. accepted' - head' = 0 \/ accepted' - head' >= N
    BY <1>2, <2>1, <2>2
  <2> QED
    BY <2>3, <2>4 DEF InPlace, Lap, Content
<1>6. UartInv'
  BY <1>1 DEF LoggerInv, Placed, UartInv
<1>7. ASSUME ~misflagged PROVE Room' /\ Accounted'
  <2>1. Room /\ Accounted
    BY <1>7 DEF LoggerInv
  <2>2. Used = UsedIs /\ Used' = UsedIs' /\ Used \in 0 .. N /\ Used' \in 0 .. N
    BY <1>2, <1>4, UsedNow, UsedNext DEF UsedFacts
  <2>3. uart.amount \in Nat /\ uart.size \in Nat
    BY <1>2 DEF LoggerTypes, Uart
  <2>4. Room'
    BY <1>1 DEF Room, AfterShift
  <2>5. CASE AfterShift
    <3>1. /\ ~xfr_start /\ overrun /\ tail = head' /\ accepted + size >= N /\ uart = Stopped
      BY <1>3, <2>1, <2>5 DEF AfterShift, Room, LoggerInv, Placed, UartInv
    <3>2. Used' = N
      <4>1. head' = tail' /\ head' \in 0 .. N - 1 /\ pc' = "check"
        BY <1>1, <1>3, <3>1
      <4>2. Used' = N + head' - tail'
        BY <2>2, <4>1 DEF UsedIs
      <4> QED
        <5>1. \A h \in 0 .. N - 1 : N + h - h = N
          BY <1>2
        <5> QED
          BY <4>1, <4>2, <5>1
    <3> QED
      BY <1>1, <1>2, <2>3, <2>4, <3>1, <3>2, StoppedUart DEF Accounted, Sent
  <2>6. CASE ~AfterShift
    <3>1. ~buff_full /\ Filled(FALSE) + size <= N
      BY <1>1, <2>1, <2>6 DEF Room
    <3>2. Used' = Used + size
      <4>1. Used = IF head > tail THEN head - tail ELSE IF head < tail THEN N + head - tail ELSE 0
        BY <1>1, <2>2, <3>1 DEF UsedIs
      <4>2. Used + size <= N
        BY <3>1, <4>1 DEF Filled
      <4>3. Used' = IF head' > tail THEN head' - tail ELSE N + head' - tail
        BY <1>1, <1>2, <1>3, <2>2 DEF UsedIs
      <4> QED
        BY <1>2, <1>3, <4>1, <4>2, <4>3 DEF Wrap
    <3>3. ~(uart.amount = N)
      <4>1. CASE xfr_start
        <5>1. /\ uart.size \in 1 .. N - tail /\ uart.amount <= uart.size
              /\ uart.endtx = (uart.amount = uart.size)
          BY <4>1 DEF LoggerInv, Placed, UartInv
        <5>2. uart.amount # uart.size
          BY <1>1, <5>1
        <5>3. uart.size <= N /\ uart.amount < uart.size
          BY <1>2, <2>3, <5>1, <5>2
        <5> QED
          BY <1>2, <2>3, <5>3
      <4>2. CASE ~xfr_start
        BY <1>2, <4>2, StoppedUart DEF LoggerInv, Placed, UartInv
      <4> QED
        BY <4>1, <4>2
    <3>4. Released' = Released /\ accepted' - Used' = accepted - Used
      BY <1>1, <1>2, <2>2, <2>3, <3>2 DEF Released
    <3>5. Used # N
      BY <1>2, <2>2, <3>2
    <3>6. Sent'
      BY <1>1, <2>1, <2>6, <3>3, <3>4, <3>5 DEF Accounted, Sent
    <3>7. ~overrun => NothingDropped'
      <4>1. ~overrun => inOrder /\ last = Released /\ uart.size < N /\ (xfr_start \/ Used <= 0)
        BY <1>1, <2>1, <2>6 DEF Accounted, NothingDropped
      <4>2. Used <= 0 => Used' <= size
        BY <1>2, <2>2, <3>2
      <4> QED
        BY <1>1, <3>4, <4>1, <4>2 DEF NothingDropped
    <3>8. Used' <= accepted' /\ (uart.size <= Used' \/ uart.size = N)
      <4>1. Used <= accepted /\ (uart.size <= Used \/ uart.size = N)
        BY <2>1, <2>6 DEF Accounted
      <4> QED
        BY <1>1, <1>2, <2>2, <2>3, <3>2, <4>1
    <3> QED
      BY <1>1, <2>4, <3>1, <3>6, <3>7, <3>8 DEF Accounted
  <2> QED
    BY <2>5, <2>6
<1> QED
  BY <1>1, <1>4, <1>5, <1>6, <1>7 DEF LoggerInv, Placed

LEMMA CheckFullKeeps ==
  ASSUME LoggerInv, CheckFull
  PROVE  LoggerInv'
<1>1. /\ pc = "check" /\ pc' = (IF head = tail THEN "full" ELSE "start")
      /\ UNCHANGED <<head, tail, buff_full, xfr_start, pbuff, size, uart,
                     accepted, last, newest, inOrder, overrun, misflagged>>
  BY DEF CheckFull, Goto, fifo, history
<1>2. LoggerTypes'
  BY <1>1 DEF LoggerInv, Placed, LoggerTypes, Calls
<1>3. InPlace' /\ UartInv'
  BY <1>1 DEF LoggerInv, Placed, InPlace, UartInv, Lap, Content
<1>4. Used' = Used
  <2>1. Used = UsedIs /\ Used' = UsedIs'
    BY <1>2, UsedNow, UsedNext DEF UsedFacts, LoggerInv, Placed
  <2>2. head \in Int /\ tail \in Int
    BY LoggerAssumption DEF LoggerInv, Placed, LoggerTypes, N
  <2> QED
    BY <1>1, <2>1, <2>2 DEF UsedIs
<1>5. ASSUME ~misflagged PROVE Room' /\ Accounted'
  <2>1. Room /\ Accounted
    BY <1>5 DEF LoggerInv
  <2>2. Room'
    BY <1>1, <2>1 DEF Room, AfterShift
  <2>3. Accounted'
    BY <1>1, <1>4, <2>1 DEF Accounted, AfterShift, Sent, NothingDropped, Released
  <2> QED
    BY <2>2, <2>3
<1> QED
  BY <1>1, <1>2, <1>3, <1>5 DEF LoggerInv, Placed

LEMMA SetFullKeeps ==
  ASSUME LoggerInv, SetFull
  PROVE  LoggerInv'
<1>1. /\ pc = "full" /\ pc' = "start" /\ buff_full' = TRUE
      /\ UNCHANGED <<head, tail, xfr_start, pbuff, size, uart,
                     accepted, last, newest, inOrder, overrun, misflagged>>
  BY DEF SetFull, Goto, history
<1>2. LoggerTypes'
  BY <1>1 DEF LoggerInv, Placed, LoggerTypes, Calls
<1>3. InPlace' /\ UartInv'
  BY <1>1 DEF LoggerInv, Placed, InPlace, UartInv, Lap, Content
<1>4. ASSUME ~misflagged PROVE Room' /\ Accounted'
  <2>1. Room /\ Accounted /\ head = tail
    BY <1>1, <1>4 DEF LoggerInv, Room
  <2>2. Used' = Used
    <3>1. Used = UsedIs /\ Used' = UsedIs'
      BY <1>2, UsedNow, UsedNext DEF UsedFacts, LoggerInv, Placed
    <3> QED
      BY <1>1, <2>1, <3>1 DEF UsedIs
  <2>3. Room'
    BY <1>1 DEF Room, AfterShift
  <2>4. Accounted'
    BY <1>1, <2>1, <2>2 DEF Accounted, AfterShift, Sent, NothingDropped, Released
  <2> QED
    BY <2>3, <2>4
<1> QED
  BY <1>1, <1>2, <1>3, <1>4 DEF LoggerInv, Placed

LEMMA StartKeeps ==
  ASSUME LoggerInv, logger_start_tx
  PROVE  LoggerInv'
<1>1. /\ pc = "start" /\ pc' = "idle"
      /\ UNCHANGED <<head, tail, buff_full, pbuff, size,
                     accepted, last, newest, inOrder, overrun, misflagged>>
      /\ IF Idle THEN xfr_start' = TRUE /\ uart' = Transfer(tail)
         ELSE UNCHANGED <<xfr_start, uart>>
  BY DEF logger_start_tx, Goto, history
<1>2. /\ LoggerTypes /\ InPlace /\ UartInv
      /\ head \in 0 .. N - 1 /\ tail \in 0 .. N - 1 /\ N \in Nat \ {0} /\ size \in 1 .. N - 1
      /\ accepted \in Nat /\ newest \in Nat /\ last \in Nat
  BY <1>1, LoggerAssumption DEF LoggerInv, Placed, LoggerTypes, Calls, N
<1>3. /\ Transfer(tail) \in Uart
      /\ Transfer(tail).ptr = tail /\ Transfer(tail).amount = 0
      /\ Transfer(tail).running /\ ~Transfer(tail).endtx
      /\ Transfer(tail).size \in 1 .. N - tail
      /\ Transfer(tail).size <= IF head > tail THEN head - tail ELSE N - tail
      /\ Transfer(tail).size <= UART_DMA_MAX_SIZE
  BY <1>2, TransferFits
<1>4. LoggerTypes'
  BY <1>1, <1>2, <1>3 DEF LoggerTypes, Calls
<1>5. InPlace'
  BY <1>1, <1>2 DEF InPlace, Lap, Content
<1>6. UartInv'
  <2>1. CASE Idle
    <3>1. xfr_start' /\ uart' = Transfer(tail) /\ tail' = tail
      BY <1>1, <2>1
    <3>2. uart'.amount < uart'.size /\ uart'.amount # uart'.size
      BY <1>2, <1>3, <3>1
    <3>3. uart'.running = (uart'.amount < uart'.size)
      BY <1>3, <1>4, <3>1, <3>2 DEF LoggerTypes, Uart
    <3>4. uart'.endtx = (uart'.amount = uart'.size)
      BY <1>3, <1>4, <3>1, <3>2 DEF LoggerTypes, Uart
    <3> QED
      BY <1>2, <1>3, <3>1, <3>2, <3>3, <3>4 DEF UartInv
  <2>2. CASE ~Idle
    BY <1>1, <1>2, <2>2 DEF UartInv
  <2> QED
    BY <2>1, <2>2
<1>7. ASSUME ~misflagged PROVE Room' /\ Accounted'
  <2>1. Accounted /\ ~AfterShift /\ ~AfterShift' /\ Room'
    BY <1>1, <1>7 DEF LoggerInv, AfterShift, Room
  <2>2. Used = UsedIs /\ Used \in 0 .. N /\ Used' = Used
    <3>1. Used = UsedIs /\ Used \in 0 .. N /\ Used' = UsedIs'
      BY <1>2, <1>4, UsedNow, UsedNext DEF UsedFacts
    <3> QED
      BY <1>1, <3>1 DEF UsedIs
  <2>3. /\ buff_full => head = tail
        /\ Used <= accepted
        /\ uart.size <= Used \/ uart.size = N
        /\ Sent
        /\ ~overrun => NothingDropped
    BY <2>1 DEF Accounted
  <2>4. CASE Idle
    <3>1. /\ ~xfr_start /\ xfr_start' /\ uart' = Transfer(tail)
          /\ ~(head = tail /\ ~buff_full)
      BY <1>1, <2>4 DEF Idle
    <3>2. uart = Stopped /\ uart.amount = 0 /\ uart'.amount = 0
      BY <1>2, <1>3, <3>1, StoppedUart DEF UartInv
    <3>3. uart'.size \in Nat /\ uart'.size <= Used
      <4>1. Used = IF head > tail THEN head - tail ELSE N + head - tail
        BY <1>2, <2>2, <3>1 DEF UsedIs
      <4> QED
        BY <1>2, <1>3, <3>1, <4>1
    <3>4. Sent'
      BY <1>1, <2>2, <2>3, <3>2 DEF Sent
    <3>5. ~overrun' => NothingDropped'
      <4>1. ~overrun => inOrder /\ last = Released /\ Used <= size
        BY <1>1, <2>3, <3>1 DEF NothingDropped
      <4>2. Released' = Released
        BY <1>1, <2>2, <3>2 DEF Released
      <4>3. ~overrun => uart'.size < N
        BY <1>2, <2>2, <3>3, <4>1
      <4> QED
        BY <1>1, <3>1, <4>1, <4>2, <4>3 DEF NothingDropped
    <3> QED
      BY <1>1, <2>1, <2>2, <2>3, <3>3, <3>4, <3>5 DEF Accounted
  <2>5. CASE ~Idle
    <3>1. UNCHANGED <<xfr_start, uart>>
      BY <1>1, <2>5
    <3>2. Released' = Released /\ Sent'
      BY <1>1, <2>2, <2>3, <3>1 DEF Sent, Released
    <3>3. ~overrun => NothingDropped'
      <4>1. xfr_start \/ Used = 0
        BY <1>2, <1>1, <2>2, <2>5 DEF Idle, UsedIs
      <4> QED
        BY <1>1, <2>2, <2>3, <3>1, <3>2, <4>1 DEF NothingDropped
    <3> QED
      BY <1>1, <2>1, <2>2, <2>3, <3>1, <3>2, <3>3 DEF Accounted
  <2> QED
    BY <2>1, <2>4, <2>5
<1> QED
  BY <1>1, <1>4, <1>5, <1>6, <1>7 DEF LoggerInv, Placed

\* The bytes in the buffer are the newest, oldest first.
LEMMA HeldInOrder ==
  ASSUME LoggerTypes, InPlace, Used <= accepted, NEW k \in Nat, k < Used
  PROVE  /\ tail + k \in 0 .. 2 * N - 1
         /\ Wrap(tail + k) \in 0 .. N - 1
         /\ pbuff[Wrap(tail + k)] = accepted - Used + k + 1
<1>1. /\ head \in 0 .. N - 1 /\ tail \in 0 .. N - 1 /\ N \in Nat \ {0} /\ accepted \in Nat
  BY LoggerAssumption DEF LoggerTypes, N
<1>2. Used = UsedIs /\ Used \in 0 .. N
  BY UsedNow DEF UsedFacts
<1>3. tail + k \in 0 .. 2 * N - 1
  BY <1>1, <1>2
<1>4. PICK p \in 0 .. N - 1 : p = Wrap(tail + k)
  BY <1>3, ModWraps
<1>5. /\ accepted - head = 0 \/ accepted - head >= N
      /\ p < head \/ accepted - head # 0 =>
            pbuff[p] = IF p < head THEN accepted - head + p + 1 ELSE accepted - head - N + p + 1
  BY DEF InPlace, Lap, Content
<1>6. CASE head > tail
  <2>1. Used = head - tail /\ p = tail + k
    BY <1>1, <1>2, <1>4, <1>6 DEF UsedIs, Wrap
  <2> QED
    BY <1>1, <1>3, <1>4, <1>5, <2>1
<1>7. CASE ~(head > tail)
  <2>1. Used = N + head - tail
    BY <1>1, <1>2, <1>7 DEF UsedIs
  <2>2. accepted - head # 0
    BY <1>1, <2>1
  <2>3. CASE tail + k < N
    <3>1. p = tail + k
      BY <1>4, <2>3 DEF Wrap
    <3> QED
      BY <1>1, <1>3, <1>4, <1>5, <1>7, <2>1, <2>2, <3>1
  <2>4. CASE ~(tail + k < N)
    <3>1. p = tail + k - N
      BY <1>1, <1>3, <1>4, <2>4 DEF Wrap
    <3> QED
      BY <1>1, <1>3, <1>4, <1>5, <1>7, <2>1, <2>2, <3>1
  <2> QED
    BY <2>3, <2>4
<1> QED
  BY <1>6, <1>7

LEMMA ByteKeeps ==
  ASSUME LoggerInv, Byte
  PROVE  LoggerInv'
<1>1. /\ uart.running
      /\ last' = pbuff[uart.ptr + uart.amount]
      /\ newest' = (IF last' > newest THEN last' ELSE newest)
      /\ inOrder' = (inOrder /\ last' = last + 1)
      /\ uart' = [uart EXCEPT !.amount = @ + 1, !.running = uart.amount + 1 < uart.size,
                              !.endtx = uart.amount + 1 = uart.size]
      /\ UNCHANGED <<head, tail, buff_full, xfr_start, pbuff, pc, size,
                     accepted, overrun, misflagged>>
  BY DEF Byte, fifo
<1>2. /\ LoggerTypes /\ InPlace /\ UartInv
      /\ head \in 0 .. N - 1 /\ tail \in 0 .. N - 1 /\ N \in Nat \ {0} /\ uart \in Uart
      /\ accepted \in Nat /\ newest \in Nat /\ last \in Nat /\ pbuff \in [0 .. N - 1 -> Nat]
      /\ inOrder \in BOOLEAN
  BY LoggerAssumption DEF LoggerInv, Placed, LoggerTypes, N
<1>3. /\ xfr_start /\ uart.ptr = tail
      /\ uart.size \in 1 .. N - tail /\ uart.size <= UART_DMA_MAX_SIZE
      /\ uart.amount < uart.size /\ uart.amount \in Nat
  <2>1. xfr_start
    BY <1>1, <1>2, StoppedUart DEF UartInv
  <2> QED
    BY <1>1, <1>2, <2>1 DEF UartInv, Uart
<1>4. /\ uart' \in Uart
      /\ uart'.ptr = tail /\ uart'.size = uart.size /\ uart'.amount = uart.amount + 1
      /\ uart'.running = (uart'.amount < uart'.size)
      /\ uart'.endtx = (uart'.amount = uart'.size)
  <2>1. PICK a \in Nat : a = uart.amount + 1
    BY <1>3
  <2>2. PICK r \in BOOLEAN : r = (a < uart.size)
    <3>1. CASE a < uart.size
      <4>1. TRUE = (a < uart.size)
        BY <3>1
      <4> QED
        BY <4>1
    <3>2. CASE ~(a < uart.size)
      <4>1. FALSE = (a < uart.size)
        BY <3>2
      <4> QED
        BY <4>1
    <3> QED
      BY <3>1, <3>2
  <2>3. PICK e \in BOOLEAN : e = (a = uart.size)
    OBVIOUS
  <2>4. uart' = [uart EXCEPT !.amount = a, !.running = r, !.endtx = e]
    BY <1>1, <2>1, <2>2, <2>3
  <2>5. /\ uart' \in Uart
        /\ uart'.ptr = uart.ptr /\ uart'.size = uart.size /\ uart'.amount = a
        /\ uart'.running = r /\ uart'.endtx = e
    BY <1>2, <2>4 DEF Uart
  <2> QED
    BY <1>3, <2>1, <2>2, <2>3, <2>5
<1>5. last' \in Nat /\ newest' \in Nat /\ inOrder' \in BOOLEAN
  <2>1. uart.ptr + uart.amount \in 0 .. N - 1
    BY <1>2, <1>3
  <2> QED
    BY <1>1, <1>2, <2>1
<1>6. LoggerTypes'
  BY <1>1, <1>2, <1>4, <1>5 DEF LoggerTypes, Calls
<1>7. InPlace' /\ UartInv'
  <2>1. InPlace'
    BY <1>1, <1>2 DEF InPlace, Lap, Content
  <2>2. uart'.amount <= uart'.size
    BY <1>3, <1>4
  <2> QED
    BY <1>1, <1>3, <1>4, <2>1, <2>2 DEF UartInv
<1>8. ASSUME ~misflagged PROVE Room' /\ Accounted'
  <2>1. Room /\ Accounted /\ ~AfterShift /\ ~AfterShift'
    BY <1>1, <1>3, <1>8 DEF LoggerInv, AfterShift
  <2>2. Room'
    BY <1>1, <2>1 DEF Room, Filled, AfterShift
  <2>3. Used \in 0 .. N /\ Used' = Used
    <3>1. Used = UsedIs /\ Used \in 0 .. N /\ Used' = UsedIs'
      BY <1>2, <1>6, UsedNow, UsedNext DEF UsedFacts
    <3> QED
      BY <1>1, <3>1 DEF UsedIs
  <2>4. /\ buff_full => head = tail
        /\ Used <= accepted
        /\ uart.size <= Used \/ uart.size = N
        /\ newest >= accepted - Used \/ Used = N
        /\ ~overrun => NothingDropped
    BY <2>1 DEF Accounted, Sent
  <2>5. newest' >= newest /\ newest' >= last'
    BY <1>1, <1>2, <1>5
  <2>6. newest' >= accepted - Used \/ Used = N
    BY <1>2, <1>5, <2>3, <2>4, <2>5
  <2>7. Released' = Released + 1 /\ Released \in Int
    BY <1>1, <1>2, <1>3, <1>4, <2>3, SMTT(30) DEF Released
  <2>8. CASE uart.size <= Used
    <3>1. last' = Released'
      <4>1. uart.amount < Used
        BY <1>2, <1>3, <2>3, <2>8
      <4>2. Wrap(tail + uart.amount) = tail + uart.amount
        BY <1>2, <1>3 DEF Wrap
      <4>3. pbuff[tail + uart.amount] = accepted - Used + uart.amount + 1
        BY <1>2, <1>3, <2>4, <4>1, <4>2, HeldInOrder
      <4> QED
        BY <1>1, <1>3, <2>7, <4>3 DEF Released
    <3>2. Sent'
      BY <1>1, <2>3, <2>5, <2>6, <3>1 DEF Sent
    <3>3. ~overrun => NothingDropped'
      <4>1. ASSUME ~overrun PROVE inOrder' /\ last' = Released' /\ uart'.size < N
        BY <1>1, <1>4, <2>4, <2>7, <3>1, <4>1 DEF NothingDropped
      <4> QED
        BY <1>1, <1>3, <4>1 DEF NothingDropped
    <3> QED
      BY <1>1, <1>4, <2>1, <2>2, <2>3, <2>4, <3>2, <3>3 DEF Accounted
  <2>9. CASE ~(uart.size <= Used)
    <3>1. uart.size = N /\ Used # N
      BY <1>2, <1>3, <2>3, <2>4, <2>9
    <3>2. overrun
      BY <1>2, <2>4, <3>1 DEF NothingDropped
    <3>3. Sent'
      BY <1>1, <1>2, <1>4, <2>3, <2>6, <3>1 DEF Sent
    <3> QED
      BY <1>1, <1>4, <2>1, <2>2, <2>3, <2>4, <3>2, <3>3 DEF Accounted
  <2> QED
    BY <2>8, <2>9
<1> QED
  BY <1>1, <1>6, <1>7, <1>8 DEF LoggerInv, Placed

\* The end of a transfer takes its bytes out of the buffer, or leaves in it
\* what was written during a transfer that is to be started over.
LEMMA CallbackKeeps ==
  ASSUME LoggerInv, uart_tx_cmplete_callback
  PROVE  LoggerInv'
<1> DEFINE t == IF tail + uart.amount >= N THEN 0 ELSE tail + uart.amount
           Rests == head = t /\ ~buff_full
<1>1. /\ LoggerTypes /\ InPlace /\ UartInv /\ uart.endtx
      /\ head \in 0 .. N - 1 /\ tail \in 0 .. N - 1 /\ N \in Nat \ {0} /\ uart \in Uart
      /\ accepted \in Nat /\ newest \in Nat /\ last \in Nat /\ size \in Nat
      /\ UART_DMA_MAX_SIZE \in Nat
  BY LoggerAssumption DEF LoggerInv, Placed, LoggerTypes, uart_tx_cmplete_callback, N
<1>2. /\ xfr_start /\ uart.ptr = tail
      /\ uart.size \in 1 .. N - tail /\ uart.size <= UART_DMA_MAX_SIZE
      /\ uart.amount = uart.size
  <2>1. xfr_start
    BY <1>1, StoppedUart DEF UartInv
  <2> QED
    BY <1>1, <2>1 DEF UartInv
<1>3. /\ tail' = t /\ t \in 0 .. N - 1
      /\ UNCHANGED <<head, pbuff, pc, size, accepted, last, newest, inOrder, overrun>>
      /\ Rests => xfr_start' = FALSE /\ uart' = Stopped /\ buff_full' = buff_full
      /\ ~Rests => buff_full' = FALSE /\ uart' = Transfer(t) /\ xfr_start' = xfr_start
      /\ misflagged' = (misflagged \/ pc = "full" \/ (pc = "check" /\ head = t))
  <2>1. t \in 0 .. N - 1
    BY <1>1, <1>2
  <2>2. /\ tail' = t
        /\ IF head = t /\ ~buff_full
           THEN xfr_start' = FALSE /\ uart' = Stopped /\ UNCHANGED buff_full
           ELSE buff_full' = FALSE /\ uart' = Transfer(t) /\ UNCHANGED xfr_start
        /\ misflagged' = (misflagged \/ pc = "full" \/ (pc = "check" /\ head = tail'))
        /\ UNCHANGED <<head, pbuff, pc, size, accepted, last, newest, inOrder, overrun>>
    BY <1>2 DEF uart_tx_cmplete_callback
  <2>3. misflagged' = (misflagged \/ pc = "full" \/ (pc = "check" /\ head = t))
    BY <2>2
  <2> HIDE DEF t
  <2> QED
    BY <2>1, <2>2, <2>3
<1> HIDE DEF Rests
<1>4. /\ Transfer(t) \in Uart
      /\ Transfer(t).ptr = t /\ Transfer(t).amount = 0
      /\ Transfer(t).running /\ ~Transfer(t).endtx
      /\ Transfer(t).size = DmaSize(t)
      /\ DmaSize(t) \in 1 .. N - t
      /\ DmaSize(t) <= IF head > t THEN head - t ELSE N - t
      /\ DmaSize(t) <= UART_DMA_MAX_SIZE
      /\ t = 0 /\ head = 0 /\ N <= UART_DMA_MAX_SIZE => DmaSize(t) = N
  BY <1>1, <1>3, TransferFits
<1>5. /\ uart' \in Uart /\ xfr_start' \in BOOLEAN /\ buff_full' \in BOOLEAN
      /\ misflagged' \in BOOLEAN
  <2>1. misflagged' \in BOOLEAN
    BY <1>1, <1>3 DEF LoggerTypes
  <2>2. CASE Rests
    BY <1>1, <1>3, <2>1, <2>2, StoppedUart DEF LoggerTypes
  <2>3. CASE ~Rests
    BY <1>2, <1>3, <1>4, <2>1, <2>3, <1>1 DEF LoggerTypes
  <2> QED
    BY <2>2, <2>3
<1>6. LoggerTypes'
  BY <1>1, <1>3, <1>5 DEF LoggerTypes, Calls
<1>7. InPlace'
  BY <1>1, <1>3 DEF InPlace, Lap, Content
<1>8. UartInv'
  <2>1. CASE Rests
    BY <1>3, <2>1 DEF UartInv
  <2>2. CASE ~Rests
    <3>1. /\ uart'.ptr = tail' /\ uart'.size \in 1 .. N - tail' /\ uart'.size <= UART_DMA_MAX_SIZE
          /\ uart'.amount = 0 /\ uart'.running /\ ~uart'.endtx /\ xfr_start'
      BY <1>2, <1>3, <1>4, <2>2
    <3>2. uart'.amount < uart'.size /\ uart'.amount # uart'.size
      BY <1>1, <1>3, <3>1
    <3>3. uart'.running = (uart'.amount < uart'.size)
      BY <1>5, <3>1, <3>2 DEF Uart
    <3>4. uart'.endtx = (uart'.amount = uart'.size)
      BY <1>5, <3>1, <3>2 DEF Uart
    <3> QED
      <4>1. uart'.amount <= uart'.size
        BY <1>1, <1>3, <3>1
      <4> QED
        BY <3>1, <3>3, <3>4, <4>1 DEF UartInv
  <2> QED
    BY <2>1, <2>2
<1>9. ASSUME ~misflagged' PROVE Room' /\ Accounted'
  <2>1. ~misflagged /\ pc # "full" /\ ~(pc = "check" /\ head = t)
    BY <1>3, <1>9
  <2>2. Room /\ Accounted /\ ~AfterShift
    BY <1>2, <2>1 DEF LoggerInv, AfterShift
  <2>3. /\ buff_full => head = tail
        /\ Used <= accepted
        /\ uart.size <= Used \/ uart.size = N
        /\ Sent
        /\ ~overrun => NothingDropped
    BY <2>2 DEF Accounted
  <2>4. ~buff_full'
    BY <1>3 DEF Rests
  <2>5. ~AfterShift'
    <3>1. CASE Rests
      <4>1. head = t /\ tail' = t /\ head' = head /\ pc' = pc /\ size' = size
        BY <1>3, <3>1 DEF Rests
      <4>2. pc = "copy" => size \in 1 .. N - 1
        BY <1>1 DEF LoggerTypes, Calls
      <4>3. pc = "copy" => Wrap(head + size) # head
        BY <1>1, <4>2 DEF Wrap
      <4> HIDE DEF t
      <4> QED
        BY <4>1, <4>3 DEF AfterShift, Wrap
    <3>2. CASE ~Rests
      BY <1>2, <1>3, <3>2 DEF AfterShift
    <3> QED
      BY <3>1, <3>2
  <2>6. /\ Used = UsedIs /\ Used \in 0 .. N /\ Used' \in 0 .. N
        /\ Used' = IF head > t THEN head - t ELSE IF head < t THEN N + head - t ELSE 0
    <3>1. Used = UsedIs /\ Used \in 0 .. N /\ Used' \in 0 .. N /\ Used' = UsedIs'
      BY <1>1, <1>6, UsedNow, UsedNext DEF UsedFacts
    <3>2. head' = head /\ tail' = t /\ pc' = pc
      BY <1>3
    <3> HIDE DEF t
    <3>3. UsedIs' = IF head > t THEN head - t ELSE IF head < t THEN N + head - t ELSE 0
      BY <1>1, <1>3, <2>1, <2>4, <3>2 DEF UsedIs
    <3> QED
      BY <3>1, <3>3
  <2>7. uart.size <= Used => Used' = Used - uart.amount
    <3>1. SUFFICES ASSUME uart.size <= Used PROVE Used' = Used - uart.amount
      OBVIOUS
    <3>2. CASE head > tail
      <4>1. Used = head - tail
        BY <2>6, <3>2 DEF UsedIs
      <4>2. t = tail + uart.amount /\ t <= head
        BY <1>1, <1>2, <3>1, <4>1
      <4> QED
        BY <1>1, <1>2, <2>6, <4>1, <4>2
    <3>3. CASE ~(head > tail)
      <4>1. Used = N + head - tail
        BY <1>1, <1>2, <2>6, <3>1, <3>3 DEF UsedIs
      <4> QED
        BY <1>1, <1>2, <2>6, <3>3, <4>1
    <3> QED
      BY <3>2, <3>3
  <2>8. ~(uart.size <= Used) => uart.size = N /\ overrun /\ Used # N /\ Used' = Used
    <3>1. SUFFICES ASSUME ~(uart.size <= Used)
                   PROVE  uart.size = N /\ overrun /\ Used # N /\ Used' = Used
      OBVIOUS
    <3>2. uart.size = N /\ Used < N
      BY <1>1, <1>2, <2>3, <2>6, <3>1
    <3>3. overrun
      BY <1>1, <2>3, <3>2 DEF NothingDropped
    <3>4. tail = 0 /\ t = 0
      BY <1>1, <1>2, <3>2
    <3>5. Used = IF head > 0 THEN head ELSE 0
      BY <1>1, <2>6, <3>2, <3>4 DEF UsedIs
    <3> QED
      BY <1>1, <2>6, <3>2, <3>3, <3>4, <3>5
  <2>9. uart'.size \in 0 .. N /\ (uart'.size <= Used' \/ (uart'.size = N /\ uart.size = N))
    <3>1. CASE Rests
      BY <1>1, <1>3, <2>6, <3>1, StoppedUart
    <3>2. CASE ~Rests
      <4>1. uart'.size = DmaSize(t)
        BY <1>3, <1>4, <3>2
      <4>2. CASE head = t
        <5>1. buff_full /\ head = tail
          BY <2>3, <3>2, <4>2 DEF Rests
        <5>2. uart.size = N /\ t = 0 /\ head = 0
          BY <1>1, <1>2, <4>2, <5>1
        <5>3. DmaSize(t) = N
          BY <1>1, <1>2, <1>4, <5>2
        <5> QED
          BY <1>1, <4>1, <5>2, <5>3
      <4>3. CASE head # t
        <5> HIDE DEF t
        <5>1. /\ DmaSize(t) \in 1 .. N - t
              /\ DmaSize(t) <= IF head > t THEN head - t ELSE N - t
          BY <1>4
        <5> QED
          BY <1>1, <1>3, <2>6, <4>1, <4>3, <5>1
      <4> QED
        BY <4>2, <4>3
    <3> QED
      BY <3>1, <3>2
  <2>10. uart'.amount = 0 /\ uart.amount > 0 /\ uart.amount \in Nat
    <3>1. uart.amount > 0 /\ uart.amount \in Nat
      BY <1>1, <1>2
    <3>2. CASE Rests
      BY <1>3, <3>1, <3>2, StoppedUart
    <3>3. CASE ~Rests
      BY <1>3, <1>4, <3>1, <3>3
    <3> QED
      BY <3>2, <3>3
  <2>11. Used' <= accepted /\ (newest >= accepted - Used' \/ Used' = N)
    <3>1. CASE uart.size <= Used
      <4>1. uart.size < N \/ (Used = N /\ uart.amount = N)
        BY <1>1, <1>2, <2>6, <3>1
      <4>2. newest >= accepted - Used + uart.amount
        BY <2>3, <2>10, <4>1 DEF Sent, Released
      <4> QED
        BY <1>1, <2>3, <2>6, <2>7, <2>10, <3>1, <4>2
    <3>2. CASE ~(uart.size <= Used)
      BY <2>3, <2>8, <3>2 DEF Sent
    <3> QED
      BY <3>1, <3>2
  <2>12. Sent'
    BY <1>3, <2>10, <2>11 DEF Sent
  <2>13. ~overrun => NothingDropped'
    <3>1. SUFFICES ASSUME ~overrun PROVE NothingDropped'
      OBVIOUS
    <3>2. inOrder /\ last = accepted - Used + uart.amount /\ uart.size < N
      BY <2>3, <3>1 DEF NothingDropped, Released
    <3>3. uart.size <= Used /\ Used' = Used - uart.amount
      BY <2>7, <2>8, <3>1
    <3>4. last = Released'
      BY <1>1, <1>3, <2>6, <2>10, <3>2, <3>3 DEF Released
    <3>5. uart'.size < N
      BY <1>1, <2>6, <2>9, <2>10, <3>2, <3>3
    <3>6. xfr_start' \/ Used' = 0
      <4>1. CASE Rests
        BY <1>1, <1>3, <2>6, <4>1 DEF Rests
      <4>2. CASE ~Rests
        BY <1>2, <1>3, <4>2
      <4> QED
        BY <4>1, <4>2
    <3> QED
      BY <1>1, <1>3, <3>2, <3>4, <3>5, <3>6 DEF NothingDropped
  <2>14. Room'
    <3>1. pc = "copy" => Filled(FALSE)' <= Filled(FALSE)
      <4>1. SUFFICES ASSUME pc = "copy" PROVE Filled(FALSE)' <= Filled(FALSE)
        OBVIOUS
      <4>2. ~buff_full
        BY <2>2, <4>1 DEF Room
      <4>3. Filled(FALSE) = Used
        BY <2>6, <4>1, <4>2 DEF Filled, UsedIs
      <4>4. Filled(FALSE)' = Used'
        <5>1. head' = head /\ tail' = t
          BY <1>3
        <5> HIDE DEF t
        <5> QED
          BY <2>6, <5>1 DEF Filled
      <4>5. Used' <= Used
        BY <1>1, <2>6, <2>7, <2>8, <2>10
      <4> QED
        BY <4>3, <4>4, <4>5
    <3>2. pc = "copy" => ~buff_full /\ size \in Nat /\ Filled(FALSE) + size <= N
      BY <1>1, <2>2 DEF Room
    <3>3. Filled(FALSE) \in Int /\ Filled(FALSE)' \in Int
      <4> HIDE DEF t
      <4> QED
        BY <1>1, <1>3 DEF Filled
    <3>4. pc = "copy" => Filled(FALSE)' + size <= N
      <4>1. SUFFICES ASSUME pc = "copy" PROVE Filled(FALSE)' + size <= N
        OBVIOUS
      <4>2. Filled(FALSE)' <= Filled(FALSE) /\ size \in Nat /\ Filled(FALSE) + size <= N
        BY <3>1, <3>2, <4>1
      <4>3. \A f, g \in Int : g <= f /\ f + size <= N => g + size <= N
        BY <1>1
      <4> QED
        BY <3>3, <4>2, <4>3
    <3> QED
      BY <1>3, <2>1, <2>2, <2>4, <2>5, <3>4 DEF Room
  <2> QED
    BY <1>1, <1>3, <2>4, <2>5, <2>9, <2>11, <2>12, <2>13, <2>14 DEF Accounted
<1> QED
  BY <1>6, <1>7, <1>8, <1>9 DEF LoggerInv, Placed

----------------------------------------------------------------------------
(* The invariant, and what follows from it.                                 *)

LEMMA Initially == Init => LoggerInv
<1> SUFFICES ASSUME Init PROVE LoggerInv
  OBVIOUS
<1>1. N \in Nat \ {0}
  BY LoggerAssumption DEF N
<1>2. LoggerTypes
  <2>1. pbuff \in [0 .. N - 1 -> Nat] /\ head \in 0 .. N - 1 /\ tail \in 0 .. N - 1
    BY <1>1 DEF Init
  <2> QED
    BY <2>1, StoppedUart DEF Init, LoggerTypes, Calls
<1>3. InPlace /\ UartInv
  BY <1>1 DEF Init, InPlace, UartInv, Lap
<1>4. Used = 0
  BY <1>1, <1>2, UsedNow DEF Init, UsedFacts, UsedIs
<1>5. Room
  BY DEF Init, Room, AfterShift
<1>6. Accounted
  BY <1>1, <1>4, StoppedUart DEF Init, Accounted, Sent, NothingDropped, Released
<1> QED
  BY <1>2, <1>3, <1>5, <1>6 DEF LoggerInv, Placed

LEMMA NextKeeps == LoggerInv /\ [Next]_vars => LoggerInv'
<1> SUFFICES ASSUME LoggerInv, [Next]_vars PROVE LoggerInv'
  OBVIOUS
<1>1. ASSUME NEW s \in 1 .. N, logger_transmit_bytes(s) PROVE LoggerInv'
  BY <1>1, TransmitKeeps
<1>2. CASE Shift
  BY <1>2, ShiftKeeps
<1>3. CASE Copy
  BY <1>3, CopyKeeps
<1>4. CASE CheckFull
  BY <1>4, CheckFullKeeps
<1>5. CASE SetFull
  BY <1>5, SetFullKeeps
<1>6. CASE logger_start_tx
  BY <1>6, StartKeeps
<1>7. CASE Byte
  BY <1>7, ByteKeeps
<1>8. CASE uart_tx_cmplete_callback
  BY <1>8, CallbackKeeps
<1>9. CASE UNCHANGED vars
  BY <1>9 DEF vars, fifo, history, LoggerInv, Placed, LoggerTypes, Calls, InPlace, UartInv, Lap,
              Content, Room, AfterShift, Accounted, Sent, NothingDropped, Released, Used, Filled
<1> QED
  BY <1>1, <1>2, <1>3, <1>4, <1>5, <1>6, <1>7, <1>8, <1>9 DEF Next, Task

\* Throughout, the bytes lie where the indices say, and what has left the
\* buffer was sent or dropped to fill it.
THEOREM LoggerInvariant == Spec => []LoggerInv
BY Initially, NextKeeps, PTL DEF Spec

\* Between two calls of logger_transmit_bytes the buffer holds the newest
\* bytes, in order, and every byte that is gone is older than one that was sent
\* or had to make room for a full buffer, until an interrupt falls between a copy
\* and the flag that is set for it.
THEOREM NewestAreHeld == Spec => []HoldsNewest
<1>1. LoggerInv => HoldsNewest
  <2> SUFFICES ASSUME LoggerInv, pc = "idle", ~misflagged
               PROVE  /\ \A k \in 0 .. Count - 1 : pbuff[(tail + k) % N] = accepted - Count + 1 + k
                      /\ accepted - Count <= newest \/ Count = N
    BY DEF HoldsNewest
  <2>1. /\ LoggerTypes /\ InPlace /\ Accounted /\ ~AfterShift
        /\ head \in 0 .. N - 1 /\ tail \in 0 .. N - 1 /\ N \in Nat \ {0}
        /\ accepted \in Nat /\ newest \in Nat
    BY LoggerAssumption DEF LoggerInv, Placed, LoggerTypes, AfterShift, N
  <2>2. /\ buff_full => head = tail
        /\ Used <= accepted
        /\ newest >= accepted - Used \/ Used = N
    BY <2>1 DEF Accounted, Sent
  <2>3. Used = UsedIs /\ Used \in 0 .. N
    BY <2>1, UsedNow DEF UsedFacts
  <2>4. Count = Used
    <3>1. CASE head = tail
      BY <2>1, <2>3, <3>1 DEF Count, UsedIs
    <3>2. CASE head # tail
      <4>1. PICK d \in 0 .. 2 * N - 1 : d = head + N - tail
        BY <2>1
      <4>2. Count = Wrap(d)
        BY <3>2, <4>1, ModWraps DEF Count
      <4> QED
        BY <2>1, <2>2, <2>3, <3>2, <4>1, <4>2 DEF UsedIs, Wrap
    <3> QED
      BY <3>1, <3>2
  <2>5. ASSUME NEW k \in 0 .. Count - 1
        PROVE  pbuff[(tail + k) % N] = accepted - Count + 1 + k
    <3>1. k \in Nat /\ k < Used
      BY <2>3, <2>4
    <3>2. tail + k \in 0 .. 2 * N - 1 /\ pbuff[Wrap(tail + k)] = accepted - Used + k + 1
      BY <2>1, <2>2, <3>1, HeldInOrder
    <3>3. (tail + k) % N = Wrap(tail + k)
      BY <3>2, ModWraps
    <3> QED
      BY <2>1, <2>3, <2>4, <3>1, <3>2, <3>3
  <2> QED
    BY <2>1, <2>2, <2>3, <2>4, <2>5
<1> QED
  BY <1>1, LoggerInvariant, PTL

\* While nothing had to be dropped the UART sends every byte once, in order,
\* wherever the interrupt falls but between a copy and the flag that is set for
\* it.
THEOREM BytesStayInOrder == Spec => []SentInOrder
<1>1. LoggerInv => SentInOrder
  <2> SUFFICES ASSUME LoggerInv, ~overrun, ~misflagged PROVE inOrder
    BY DEF SentInOrder
  <2>1. ~AfterShift
    BY DEF AfterShift
  <2> QED
    BY <2>1 DEF LoggerInv, Accounted, NothingDropped
<1> QED
  BY <1>1, LoggerInvariant, PTL
=============================================================================
