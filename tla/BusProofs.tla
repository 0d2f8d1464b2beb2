------------------------------ MODULE BusProofs ------------------------------
(***************************************************************************)
(* Theorems about Bus, for any number of tasks, chips and transfers: until *)
(* a wait runs out or a device does not acknowledge, a transfer that       *)
(* returns nrf_OK was made, none outlives its call, and an image whose     *)
(* last part was sent has reached the display whole, unless another task   *)
(* has sent a command meanwhile.                                           *)
(***************************************************************************)
EXTENDS Bus, TLAPS

BusPc == {"idle", "take", "start", "wait", "release"}
BusCalls == I2cCalls \cup SpiCalls \cup {"none"}
BusOp == [call : BusCalls, n : Nat, chip : Chips, size : Nat, i : Nat, sent : Nat, whole : BOOLEAN,
          crossed : BOOLEAN]
BusResult == [n : Nat, err : {"none", "OK", "NACK", "XFR_TIMEOUT"}, whole : BOOLEAN,
              crossed : BOOLEAN]
Twim == [xfr : Nat, phase : {"idle", "tx", "rx", "held", "refused", "stopping"}, call : BusCalls,
         shorts : SUBSET ({"tx", "rx"} \X {"stop", "startrx"}), stopped : BOOLEAN, error : BOOLEAN]
Spim == [xfr : Nat, chip : Chips, fits : BOOLEAN, end : BOOLEAN]

BusTypes ==
    /\ pc \in [Tasks -> BusPc]
    /\ op \in [Tasks -> BusOp]
    /\ notification \in [Tasks -> {"none", "OK", "NACK"}]
    /\ i2c_semphr_handle \in Tasks \cup {NoTask} /\ i2c_task_handle \in Tasks \cup {NoTask}
    /\ spi_semphr_handle \in Tasks \cup {NoTask} /\ spi_task_handle \in Tasks \cup {NoTask}
    /\ current_csn_pin \in Chips
    /\ twim \in Twim
    /\ spim \in Spim
    /\ transfers \in Nat
    /\ result \in [Tasks -> BusResult]

\* A bus is used by the owner of its mutex alone.
Holds(t) == pc[t] \in {"start", "wait", "release"}
MutexesHeld ==
    \A t \in Tasks : /\ i2c_semphr_handle = t <=> Holds(t) /\ IsI2c(t)
                     /\ spi_semphr_handle = t <=> Holds(t) /\ ~IsI2c(t)

\* The I2C bus while t waits: its transfer moves, has ended, or t has been told.
I2cQuiet == twim.xfr = 0 /\ twim.phase = "idle" /\ ~twim.stopped
I2cMoves(t) ==
    /\ twim.xfr = op[t].n /\ twim.call = op[t].call /\ ~twim.stopped
    /\ twim.phase \in {"tx", "rx"}
    /\ op[t].call = "write" => twim.phase = "tx"
    /\ op[t].call = "read" => twim.phase = "rx"
    /\ notification[t] = "none"
I2cEnded(t) ==
    /\ twim.xfr = 0 /\ twim.phase = "idle" /\ twim.stopped
    /\ op[t].n \in done
    /\ notification[t] = "none"
I2cState ==
    /\ ~twim.error
    /\ i2c_semphr_handle = NoTask => I2cQuiet /\ twim.shorts = {}
    /\ \A t \in Tasks : i2c_semphr_handle = t =>
          /\ i2c_task_handle = t
          /\ pc[t] = "start" => I2cQuiet /\ twim.shorts = {}
          /\ pc[t] # "start" => twim.shorts = Shorts(op[t].call)
          /\ pc[t] = "wait" => \/ I2cMoves(t)
                               \/ I2cEnded(t)
                               \/ I2cQuiet /\ notification[t] # "none"
          /\ pc[t] = "release" => I2cQuiet

\* The same of the SPI bus.
SpiQuiet == spim.xfr = 0 /\ ~spim.end
SpiMoves(t) ==
    /\ spim.xfr = op[t].n /\ ~spim.end
    /\ spim.chip = op[t].chip /\ op[t].chip \in selected
    /\ notification[t] = "none"
SpiEnded(t) ==
    /\ spim.xfr = 0 /\ spim.end
    /\ op[t].n \in done
    /\ notification[t] = "none"
SpiState ==
    /\ spi_semphr_handle = NoTask => SpiQuiet
    /\ \A t \in Tasks : spi_semphr_handle = t =>
          /\ spi_task_handle = t
          /\ pc[t] \in {"start", "release"} => SpiQuiet
          /\ pc[t] = "wait" => \/ SpiMoves(t)
                               \/ SpiEnded(t)
                               \/ SpiQuiet /\ notification[t] # "none"

\* A task is only told of a transfer that it waits for and that was made.
ToldOfOwn ==
    \A t \in Tasks : notification[t] # "none" =>
        pc[t] = "wait" /\ notification[t] = "OK" /\ op[t].n \in done
OkDone ==
    \A t \in Tasks :
        /\ result[t].err = "OK" => result[t].n \in done
        /\ pc[t] = "release" => result[t].n = op[t].n /\ result[t].err # "none"

BusGood == BusTypes /\ MutexesHeld /\ I2cState /\ SpiState /\ ToldOfOwn /\ OkDone
BusInv == fault \/ BusGood

LEMMA NoTaskIsNone == NoTask \notin Tasks
BY BusAssumption

LEMMA ChipsExist == Chips # {}
BY BusAssumption

LEMMA NoOpIs ==
  /\ NoOp \in BusOp /\ NoOp.call = "none"
  /\ NoResult \in BusResult /\ NoResult.err = "none"
<1>1. (CHOOSE c \in Chips : TRUE) \in Chips
  BY ChipsExist
<1> QED
  BY <1>1 DEF NoOp, NoResult, BusOp, BusResult, BusCalls

LEMMA SizesAreNat ==
  ASSUME NEW size \in Nat, NEW i \in Nat
  PROVE  Split(size) \in Nat /\ TxSize(size, i) \in Nat
<1>1. size \div OLED_SPI_MAX_XFR_BYTES \in Nat /\ size % OLED_SPI_MAX_XFR_BYTES \in Nat
  BY DEF OLED_SPI_MAX_XFR_BYTES
<1>2. OLED_SPI_MAX_XFR_BYTES \in Nat
  BY DEF OLED_SPI_MAX_XFR_BYTES
<1>3. ASSUME NEW n \in Nat PROVE n % 256 \in Nat
  OBVIOUS
<1> QED
  BY <1>1, <1>2, <1>3 DEF Split, TxSize

LEMMA BusInit == Init => BusInv
<1> SUFFICES ASSUME Init PROVE BusGood
  BY DEF BusInv
<1>1. /\ pc = [t \in Tasks |-> "idle"] /\ notification = [t \in Tasks |-> "none"]
      /\ i2c_semphr_handle = NoTask /\ spi_semphr_handle = NoTask
  BY DEF Init
<1>2. /\ twim.xfr = 0 /\ twim.phase = "idle" /\ twim.shorts = {} /\ twim.stopped = FALSE
      /\ twim.error = FALSE /\ spim.xfr = 0 /\ spim.end = FALSE
  BY DEF Init
<1>3. result = [t \in Tasks |-> NoResult]
  BY DEF Init
<1>4. BusTypes
  <2>1. NoOp.chip \in Chips /\ NoOp \in BusOp /\ NoResult \in BusResult
    BY NoOpIs DEF BusOp
  <2> QED
    BY <2>1 DEF Init, BusTypes, Twim, Spim, BusPc, BusCalls
<1>5. MutexesHeld
  <2>1. \A t \in Tasks : pc[t] = "idle" /\ t # NoTask
    BY <1>1, NoTaskIsNone
  <2> QED
    BY <1>1, <2>1 DEF MutexesHeld, Holds
<1>6. I2cState /\ SpiState
  BY <1>1, <1>2, NoTaskIsNone DEF I2cState, SpiState, I2cQuiet, SpiQuiet
<1>7. ToldOfOwn /\ OkDone
  BY <1>1, <1>3, NoOpIs DEF ToldOfOwn, OkDone
<1> QED
  BY <1>4, <1>5, <1>6, <1>7 DEF BusGood

\* What a call leaves behind when it returns, or goes on with the next part.
LEMMA ReturnsTypes ==
  ASSUME BusTypes, NEW t \in Tasks, NEW err \in {"OK", "NACK", "XFR_TIMEOUT"}, Returns(t, err)
  PROVE  /\ pc' \in [Tasks -> BusPc] /\ op' \in [Tasks -> BusOp]
         /\ transfers' \in Nat /\ result' \in [Tasks -> BusResult]
         /\ \/ pc'[t] = "idle"
            \/ pc'[t] = "take" /\ op'[t].call = op[t].call /\ op'[t].crossed = op[t].crossed
         /\ result'[t].err # "OK" \/ (result'[t].n = op[t].n /\ err = "OK")
         /\ \A u \in Tasks \ {t} : pc'[u] = pc[u] /\ op'[u] = op[u] /\ result'[u] = result[u]
<1>1. NoOp \in BusOp /\ NoResult \in BusResult /\ NoResult.err = "none"
  BY NoOpIs
<1>2. /\ op[t] \in BusOp /\ op \in [Tasks -> BusOp] /\ pc \in [Tasks -> BusPc]
      /\ transfers \in Nat /\ result \in [Tasks -> BusResult]
  BY DEF BusTypes
<1> DEFINE sent == op[t].sent + IF op[t].call = "data" THEN TxSize(op[t].size, op[t].i) ELSE op[t].size
           whole == /\ op[t].whole /\ op[t].sent = op[t].i * OLED_SPI_MAX_XFR_BYTES
                    /\ op[t].n \in IF IsI2c(t) THEN done ELSE taken
<1>3. /\ op[t].n \in Nat /\ op[t].size \in Nat /\ op[t].i \in Nat /\ op[t].sent \in Nat
      /\ op[t].whole \in BOOLEAN /\ op[t].crossed \in BOOLEAN
  BY <1>2 DEF BusOp
<1>4. sent \in Nat
  <2>1. TxSize(op[t].size, op[t].i) \in Nat
    BY <1>3, SizesAreNat
  <2> QED
    BY <1>3, <2>1
<1>4a. whole \in BOOLEAN
  BY <1>3, Zenon
<1> DEFINE Next1 == /\ transfers' = transfers + 1
                   /\ op' = [op EXCEPT ![t] = [op[t] EXCEPT !.i = op[t].i + 1, !.n = transfers',
                                                           !.sent = sent, !.whole = whole]]
                   /\ result' = [result EXCEPT ![t] = NoResult]
                   /\ pc' = [pc EXCEPT ![t] = "take"]
           Back == /\ op' = [op EXCEPT ![t] = NoOp]
                   /\ result' = [result EXCEPT ![t] = [n |-> op[t].n, err |-> err, crossed |-> op[t].crossed,
                                                       whole |-> whole /\ sent = op[t].size]]
                   /\ pc' = [pc EXCEPT ![t] = "idle"]
                   /\ transfers' = transfers
<1>5. Next1 \/ Back
  BY Zenon DEF Returns, Goto
<1> HIDE DEF sent, whole
<1>6. CASE Next1
  <2> DEFINE r == [op[t] EXCEPT !.i = op[t].i + 1, !.n = transfers', !.sent = sent, !.whole = whole]
  <2>1. transfers' = transfers + 1 /\ transfers' \in Nat /\ op[t].i + 1 \in Nat
    BY <1>2, <1>3, <1>6
  <2>2. r \in BusOp
    <3>1. op[t] \in BusOp
      BY <1>2
    <3> QED
      BY <1>4, <1>4a, <2>1, <3>1 DEF BusOp
  <2>3. result' = [result EXCEPT ![t] = NoResult] /\ op' = [op EXCEPT ![t] = r]
        /\ pc' = [pc EXCEPT ![t] = "take"]
    BY <1>6, Zenon
  <2> HIDE DEF r, Next1
  <2>4. pc' \in [Tasks -> BusPc] /\ op' \in [Tasks -> BusOp]
    BY <1>2, <2>2, <2>3 DEF BusPc
  <2>5. result' \in [Tasks -> BusResult] /\ result'[t] = NoResult
    BY <1>1, <1>2, <2>3
  <2>6. pc'[t] = "take" /\ op'[t].call = op[t].call /\ op'[t].crossed = op[t].crossed
    <3>1. r.call = op[t].call /\ r.crossed = op[t].crossed
      BY <1>2 DEF BusOp, r
    <3> QED
      BY <1>2, <2>3, <3>1
  <2>7. \A u \in Tasks \ {t} : pc'[u] = pc[u] /\ op'[u] = op[u] /\ result'[u] = result[u]
    BY <1>2, <2>3
  <2> QED
    BY <1>1, <2>1, <2>4, <2>5, <2>6, <2>7
<1>7. CASE Back
  <2> DEFINE r == [n |-> op[t].n, err |-> err, crossed |-> op[t].crossed,
                   whole |-> whole /\ sent = op[t].size]
  <2>1. r \in BusResult /\ r.n = op[t].n /\ r.err = err
    BY <1>3, <1>4, <1>4a DEF BusResult
  <2>2. result' = [result EXCEPT ![t] = r] /\ op' = [op EXCEPT ![t] = NoOp]
        /\ pc' = [pc EXCEPT ![t] = "idle"] /\ transfers' = transfers
    BY <1>7, Zenon
  <2> HIDE DEF r, Back
  <2>3. pc' \in [Tasks -> BusPc] /\ op' \in [Tasks -> BusOp] /\ transfers' \in Nat
    BY <1>1, <1>2, <2>2 DEF BusPc
  <2>4. result' \in [Tasks -> BusResult] /\ result'[t] = r
    BY <1>2, <2>1, <2>2
  <2>5. pc'[t] = "idle"
    BY <1>2, <2>2
  <2>6. \A u \in Tasks \ {t} : pc'[u] = pc[u] /\ op'[u] = op[u] /\ result'[u] = result[u]
    BY <1>2, <2>2
  <2> QED
    BY <2>1, <2>3, <2>4, <2>5, <2>6
<1> QED
  BY <1>5, <1>6, <1>7

----------------------------------------------------------------------------
(* Who a bus at work belongs to, and what leaves its state alone.           *)

LEMMA I2cOwner ==
  ASSUME BusGood, ~I2cQuiet
  PROVE  \E u \in Tasks :
            /\ i2c_semphr_handle = u /\ i2c_task_handle = u /\ pc[u] = "wait" /\ IsI2c(u)
            /\ twim.shorts = Shorts(op[u].call)
            /\ I2cMoves(u) \/ I2cEnded(u)
<1>1. i2c_semphr_handle \in Tasks
  BY DEF BusGood, BusTypes, I2cState
<1>2. Holds(i2c_semphr_handle) /\ IsI2c(i2c_semphr_handle)
  BY <1>1 DEF BusGood, MutexesHeld
<1> QED
  BY <1>1, <1>2 DEF BusGood, I2cState, Holds

LEMMA SpiOwner ==
  ASSUME BusGood, ~SpiQuiet
  PROVE  \E u \in Tasks :
            /\ spi_semphr_handle = u /\ spi_task_handle = u /\ pc[u] = "wait" /\ ~IsI2c(u)
            /\ SpiMoves(u) \/ SpiEnded(u)
<1>1. spi_semphr_handle \in Tasks
  BY DEF BusGood, BusTypes, SpiState
<1>2. Holds(spi_semphr_handle) /\ ~IsI2c(spi_semphr_handle)
  BY <1>1 DEF BusGood, MutexesHeld
<1> QED
  BY <1>1, <1>2 DEF BusGood, SpiState, Holds

LEMMA I2cKept ==
  ASSUME BusGood, UNCHANGED <<i2c, twim>>, done \subseteq done',
         \A u \in Tasks : i2c_semphr_handle = u =>
            /\ pc'[u] = pc[u] /\ notification'[u] = notification[u]
            /\ op'[u].call = op[u].call /\ op'[u].n = op[u].n
  PROVE  I2cState'
BY DEF BusGood, I2cState, I2cQuiet, I2cMoves, I2cEnded, i2c

LEMMA SpiKept ==
  ASSUME BusGood, UNCHANGED spi, selected \subseteq selected', done \subseteq done',
         spim'.xfr = spim.xfr, spim'.chip = spim.chip, spim'.end = spim.end,
         \A u \in Tasks : spi_semphr_handle = u =>
            /\ pc'[u] = pc[u] /\ notification'[u] = notification[u]
            /\ op'[u].n = op[u].n /\ op'[u].chip = op[u].chip
  PROVE  SpiState'
BY DEF BusGood, SpiState, SpiQuiet, SpiMoves, SpiEnded, spi

----------------------------------------------------------------------------
(* The calls.                                                               *)

\* A call that starts, whatever its parameters and whomever it crosses.
LEMMA CallKeeps ==
  ASSUME BusGood, NEW t \in Tasks, pc[t] = "idle",
         transfers' = transfers + 1, op' \in [Tasks -> BusOp],
         \A u \in Tasks \ {t} :
            op'[u].call = op[u].call /\ op'[u].n = op[u].n /\ op'[u].chip = op[u].chip,
         spim' \in Spim, spim'.xfr = spim.xfr, spim'.chip = spim.chip, spim'.end = spim.end,
         result' = [result EXCEPT ![t] = NoResult], pc' = [pc EXCEPT ![t] = "take"],
         UNCHANGED <<notification, i2c, twim, spi, selected, done>>
  PROVE  BusGood'
<1>1. /\ pc \in [Tasks -> BusPc] /\ op \in [Tasks -> BusOp] /\ result \in [Tasks -> BusResult]
      /\ transfers \in Nat
  BY DEF BusGood, BusTypes
<1>2. pc' \in [Tasks -> BusPc] /\ op' \in [Tasks -> BusOp] /\ result' \in [Tasks -> BusResult]
      /\ transfers' \in Nat
  BY <1>1, NoOpIs DEF BusPc
<1>3. pc'[t] = "take" /\ result'[t] = NoResult
  BY <1>1
<1>4. \A u \in Tasks \ {t} :
         /\ pc'[u] = pc[u] /\ result'[u] = result[u]
         /\ op'[u].call = op[u].call /\ op'[u].n = op[u].n /\ op'[u].chip = op[u].chip
  BY <1>1
<1>5. BusTypes'
  BY <1>2 DEF BusGood, BusTypes, i2c, spi
<1>6. ~Holds(t) /\ i2c_semphr_handle # t /\ spi_semphr_handle # t
  BY DEF BusGood, MutexesHeld, Holds
<1>7. MutexesHeld'
  BY <1>3, <1>4, <1>6 DEF BusGood, MutexesHeld, Holds, IsI2c, i2c, spi
<1>8. I2cState' /\ SpiState'
  BY <1>4, <1>6, I2cKept, SpiKept
<1>9. ToldOfOwn' /\ OkDone'
  BY <1>3, <1>4, NoOpIs DEF BusGood, ToldOfOwn, OkDone
<1> QED
  BY <1>5, <1>7, <1>8, <1>9 DEF BusGood

LEMMA CallsKeep ==
  ASSUME BusGood, NEW t \in Tasks, Call(t), Frames \subseteq Nat
  PROVE  BusGood'
<1>1. /\ NoOp \in BusOp /\ transfers \in Nat /\ op \in [Tasks -> BusOp] /\ spim \in Spim
      /\ pc[t] = "idle"
  BY NoOpIs DEF BusGood, BusTypes, Call, CallI2c, CallSpi
<1>2. ASSUME NEW call \in I2cCalls, CallI2c(t, call)
      PROVE  BusGood'
  <2> DEFINE o == [NoOp EXCEPT !.call = call, !.n = transfers']
  <2>1. transfers' = transfers + 1 /\ transfers' \in Nat
    BY <1>1, <1>2 DEF CallI2c
  <2>2. o \in BusOp
    BY <1>1, <2>1 DEF BusOp, BusCalls
  <2>3. op' = [op EXCEPT ![t] = o] /\ spim' = spim
    BY <1>2 DEF CallI2c
  <2> HIDE DEF o
  <2>4. op' \in [Tasks -> BusOp] /\ \A u \in Tasks \ {t} : op'[u] = op[u]
    BY <1>1, <2>2, <2>3
  <2> QED
    BY <1>1, <1>2, <2>1, <2>3, <2>4, CallKeeps DEF CallI2c, Goto
<1>3. ASSUME NEW call \in SpiCalls, NEW chip \in Chips, NEW size \in Nat,
             CallSpi(t, call, chip, size)
      PROVE  BusGood'
  <2> DEFINE o == [NoOp EXCEPT !.call = call, !.n = transfers', !.chip = chip, !.size = size]
  <2>1. transfers' = transfers + 1 /\ transfers' \in Nat
    BY <1>1, <1>3 DEF CallSpi
  <2>2. o \in BusOp
    BY <1>1, <2>1 DEF BusOp, BusCalls
  <2> DEFINE other(u) == [op[u] EXCEPT !.crossed = @ \/ op[u].call \in SpiCalls \ {call}]
  <2>3. op' = [u \in Tasks |-> IF u = t THEN o ELSE other(u)]
    BY <1>3 DEF CallSpi
  <2>4. ASSUME NEW u \in Tasks
        PROVE  /\ other(u) \in BusOp
               /\ other(u).call = op[u].call /\ other(u).n = op[u].n /\ other(u).chip = op[u].chip
    <3>1. op[u] \in BusOp
      BY <1>1
    <3> QED
      BY <3>1 DEF BusOp
  <2>5. spim' \in Spim /\ spim'.xfr = spim.xfr /\ spim'.chip = spim.chip /\ spim'.end = spim.end
    BY <1>1, <1>3 DEF CallSpi, Spim
  <2> HIDE DEF o, other
  <2>6. /\ op' \in [Tasks -> BusOp]
        /\ \A u \in Tasks \ {t} :
              op'[u].call = op[u].call /\ op'[u].n = op[u].n /\ op'[u].chip = op[u].chip
    BY <2>2, <2>3, <2>4
  <2> QED
    BY <1>1, <1>3, <2>1, <2>5, <2>6, CallKeeps DEF CallSpi, Goto
<1> QED
  BY <1>2, <1>3 DEF Call, SpiCalls

LEMMA TakeI2cKeeps ==
  ASSUME BusGood, NEW t \in Tasks, TakeI2c(t)
  PROVE  BusGood'
<1>1. pc \in [Tasks -> BusPc]
  BY DEF BusGood, BusTypes
<1>2. pc'[t] = "start" /\ pc' \in [Tasks -> BusPc] /\ \A u \in Tasks \ {t} : pc'[u] = pc[u]
  BY <1>1 DEF TakeI2c, Goto, BusPc
<1>3. pc[t] = "take" /\ ~Holds(t) /\ spi_semphr_handle # t
  BY DEF TakeI2c, BusGood, MutexesHeld, Holds
<1>4. i2c_semphr_handle = NoTask /\ i2c_semphr_handle' = t /\ i2c_task_handle' = t /\ t # NoTask
  BY NoTaskIsNone DEF TakeI2c, Free
<1>5. BusTypes'
  BY <1>2, <1>4 DEF BusGood, BusTypes, TakeI2c, spi, history
<1>6. MutexesHeld'
  <2>1. \A u \in Tasks : i2c_semphr_handle # u
    BY <1>4, NoTaskIsNone
  <2> QED
    BY <1>2, <1>3, <1>4, <2>1 DEF BusGood, MutexesHeld, Holds, IsI2c, TakeI2c, spi
<1>7. I2cState'
  BY <1>2, <1>4 DEF BusGood, I2cState, I2cQuiet, TakeI2c
<1>8. SpiState'
  BY <1>2, <1>3, SpiKept DEF TakeI2c, history
<1>9. ToldOfOwn' /\ OkDone'
  BY <1>2, <1>3 DEF BusGood, ToldOfOwn, OkDone, TakeI2c, history
<1> QED
  BY <1>5, <1>6, <1>7, <1>8, <1>9 DEF BusGood

LEMMA TakeSpiKeeps ==
  ASSUME BusGood, NEW t \in Tasks, TakeSpi(t)
  PROVE  BusGood'
<1>1. pc \in [Tasks -> BusPc] /\ op[t].chip \in Chips
  BY DEF BusGood, BusTypes, BusOp
<1>2. pc'[t] = "start" /\ pc' \in [Tasks -> BusPc] /\ \A u \in Tasks \ {t} : pc'[u] = pc[u]
  BY <1>1 DEF TakeSpi, Goto, BusPc
<1>3. pc[t] = "take" /\ ~Holds(t) /\ i2c_semphr_handle # t
  BY DEF TakeSpi, BusGood, MutexesHeld, Holds
<1>4. spi_semphr_handle = NoTask /\ spi_semphr_handle' = t /\ spi_task_handle' = t /\ t # NoTask
  BY NoTaskIsNone DEF TakeSpi, Free
<1>5. BusTypes'
  BY <1>1, <1>2, <1>4 DEF BusGood, BusTypes, TakeSpi, i2c, history
<1>6. MutexesHeld'
  <2>1. \A u \in Tasks : spi_semphr_handle # u
    BY <1>4, NoTaskIsNone
  <2> QED
    BY <1>2, <1>3, <1>4, <2>1 DEF BusGood, MutexesHeld, Holds, IsI2c, TakeSpi, i2c
<1>7. SpiState'
  BY <1>2, <1>4 DEF BusGood, SpiState, SpiQuiet, TakeSpi
<1>8. I2cState'
  BY <1>2, <1>3, I2cKept DEF TakeSpi, history
<1>9. ToldOfOwn' /\ OkDone'
  BY <1>2, <1>3 DEF BusGood, ToldOfOwn, OkDone, TakeSpi, history
<1> QED
  BY <1>5, <1>6, <1>7, <1>8, <1>9 DEF BusGood

----------------------------------------------------------------------------
(* The transfers.                                                           *)

LEMMA ShortsAre ==
  ASSUME NEW call
  PROVE  Shorts(call) \in SUBSET ({"tx", "rx"} \X {"stop", "startrx"})
BY DEF Shorts

LEMMA StartI2cKeeps ==
  ASSUME BusGood, NEW t \in Tasks, StartI2c(t)
  PROVE  BusGood'
<1>1. pc \in [Tasks -> BusPc] /\ op[t].n \in Nat /\ op[t].call \in BusCalls /\ twim \in Twim
  BY DEF BusGood, BusTypes, BusOp
<1>2. pc'[t] = "wait" /\ pc' \in [Tasks -> BusPc] /\ \A u \in Tasks \ {t} : pc'[u] = pc[u]
  BY <1>1 DEF StartI2c, Goto, BusPc
<1>3. pc[t] = "start" /\ IsI2c(t)
  BY DEF StartI2c
<1>4. i2c_semphr_handle = t /\ spi_semphr_handle # t
  BY <1>3 DEF BusGood, MutexesHeld, Holds
<1>5. i2c_task_handle = t /\ I2cQuiet /\ twim.shorts = {} /\ twim.error = FALSE
  BY <1>1, <1>3, <1>4 DEF BusGood, I2cState, Twim
<1>6. notification[t] = "none"
  BY <1>3 DEF BusGood, ToldOfOwn
<1>7. /\ twim'.xfr = op[t].n /\ twim'.call = op[t].call /\ twim'.shorts = Shorts(op[t].call)
      /\ twim'.phase = (IF op[t].call = "read" THEN "rx" ELSE "tx")
      /\ twim'.stopped = twim.stopped /\ twim'.error = twim.error
      /\ twim' \in Twim
  <2> DEFINE s == twim.shorts \cup Shorts(op[t].call)
             phase == IF op[t].call = "read" THEN "rx" ELSE "tx"
             r == [twim EXCEPT !.shorts = s, !.xfr = op[t].n, !.call = op[t].call, !.phase = phase]
  <2>1. s = Shorts(op[t].call) /\ s \in SUBSET ({"tx", "rx"} \X {"stop", "startrx"})
    BY <1>5, ShortsAre
  <2>2. phase \in {"tx", "rx"}
    OBVIOUS
  <2>3. twim' = r
    BY <1>1, <1>5 DEF StartI2c, I2cQuiet, Twim
  <2> HIDE DEF s, phase
  <2> QED
    BY <1>1, <2>1, <2>2, <2>3 DEF Twim, phase
<1>8. /\ op' = op /\ notification' = notification /\ result' = result /\ done' = done
      /\ i2c_semphr_handle' = i2c_semphr_handle /\ i2c_task_handle' = i2c_task_handle
      /\ spi_semphr_handle' = spi_semphr_handle /\ spi_task_handle' = spi_task_handle
      /\ current_csn_pin' = current_csn_pin
      /\ spim' = spim /\ transfers' = transfers /\ selected' = selected
  BY DEF StartI2c, i2c, spi, history
<1>9. BusTypes'
  BY <1>2, <1>7, <1>8 DEF BusGood, BusTypes
<1>10. MutexesHeld'
  BY <1>2, <1>3, <1>8 DEF BusGood, MutexesHeld, Holds, IsI2c
<1>11. I2cState'
  <2>1. I2cMoves(t)'
    BY <1>5, <1>6, <1>7, <1>8 DEF I2cMoves, I2cQuiet
  <2>2. i2c_semphr_handle' = t /\ i2c_task_handle' = t /\ t # NoTask
    BY <1>4, <1>5, <1>8, NoTaskIsNone
  <2>3. ~twim'.error /\ twim'.shorts = Shorts(op'[t].call)
    BY <1>5, <1>7, <1>8
  <2> QED
    BY <1>2, <2>1, <2>2, <2>3 DEF I2cState
<1>12. SpiState'
  BY <1>2, <1>4, <1>8, SpiKept DEF spi
<1>13. ToldOfOwn' /\ OkDone'
  BY <1>2, <1>3, <1>6, <1>8 DEF BusGood, ToldOfOwn, OkDone
<1> QED
  BY <1>9, <1>10, <1>11, <1>12, <1>13 DEF BusGood

LEMMA StartSpiKeeps ==
  ASSUME BusGood, NEW t \in Tasks, StartSpi(t)
  PROVE  BusGood'
<1>1. pc \in [Tasks -> BusPc] /\ op[t].n \in Nat /\ op[t].chip \in Chips /\ spim \in Spim
  BY DEF BusGood, BusTypes, BusOp
<1>2. pc'[t] = "wait" /\ pc' \in [Tasks -> BusPc] /\ \A u \in Tasks \ {t} : pc'[u] = pc[u]
  BY <1>1 DEF StartSpi, Goto, BusPc
<1>3. pc[t] = "start" /\ ~IsI2c(t)
  BY DEF StartSpi
<1>4. spi_semphr_handle = t /\ i2c_semphr_handle # t
  BY <1>3 DEF BusGood, MutexesHeld, Holds
<1>5. spi_task_handle = t /\ SpiQuiet
  BY <1>3, <1>4 DEF BusGood, SpiState
<1>6. notification[t] = "none"
  BY <1>3 DEF BusGood, ToldOfOwn
<1>7. /\ spim'.xfr = op[t].n /\ spim'.chip = op[t].chip /\ spim'.end = spim.end
      /\ spim' \in Spim
      /\ op[t].chip \in selected' /\ selected \subseteq selected'
  BY <1>1, <1>5 DEF StartSpi, SpiQuiet, Spim
<1>8. /\ op' = op /\ notification' = notification /\ result' = result /\ done' = done
      /\ i2c_semphr_handle' = i2c_semphr_handle /\ i2c_task_handle' = i2c_task_handle
      /\ spi_semphr_handle' = spi_semphr_handle /\ spi_task_handle' = spi_task_handle
      /\ current_csn_pin' = current_csn_pin
      /\ twim' = twim /\ transfers' = transfers
  BY DEF StartSpi, i2c, spi, history
<1>9. BusTypes'
  BY <1>2, <1>7, <1>8 DEF BusGood, BusTypes
<1>10. MutexesHeld'
  BY <1>2, <1>3, <1>8 DEF BusGood, MutexesHeld, Holds, IsI2c
<1>11. SpiState'
  <2>1. SpiMoves(t)'
    BY <1>5, <1>6, <1>7, <1>8 DEF SpiMoves, SpiQuiet
  <2>2. spi_semphr_handle' = t /\ spi_task_handle' = t /\ t # NoTask
    BY <1>4, <1>5, <1>8, NoTaskIsNone
  <2> QED
    BY <1>2, <2>1, <2>2 DEF SpiState
<1>12. I2cState'
  BY <1>2, <1>4, <1>8, I2cKept DEF i2c
<1>13. ToldOfOwn' /\ OkDone'
  BY <1>2, <1>3, <1>6, <1>8 DEF BusGood, ToldOfOwn, OkDone
<1> QED
  BY <1>9, <1>10, <1>11, <1>12, <1>13 DEF BusGood

\* The task was told "OK", and the bus it waited for is quiet again.
LEMMA WaitedKeeps ==
  ASSUME BusGood, NEW t \in Tasks, Waited(t)
  PROVE  BusGood'
<1>1. /\ pc \in [Tasks -> BusPc] /\ notification \in [Tasks -> {"none", "OK", "NACK"}]
      /\ result \in [Tasks -> BusResult] /\ op[t].n \in Nat
  BY DEF BusGood, BusTypes, BusOp
<1>2. pc[t] = "wait" /\ notification[t] = "OK" /\ op[t].n \in done
  BY DEF Waited, BusGood, ToldOfOwn
<1>3. /\ pc'[t] = "release" /\ notification'[t] = "none"
      /\ pc' \in [Tasks -> BusPc] /\ notification' \in [Tasks -> {"none", "OK", "NACK"}]
      /\ \A u \in Tasks \ {t} : pc'[u] = pc[u] /\ notification'[u] = notification[u]
  BY <1>1 DEF Waited, Goto, BusPc
<1>4. /\ result'[t].n = op[t].n /\ result'[t].err = "OK"
      /\ result' \in [Tasks -> BusResult]
      /\ \A u \in Tasks \ {t} : result'[u] = result[u]
  <2> DEFINE r == [result[t] EXCEPT !.n = op[t].n, !.err = notification[t]]
  <2>1. result[t] \in BusResult
    BY <1>1
  <2>2. r \in BusResult /\ r.n = op[t].n /\ r.err = "OK"
    BY <1>1, <1>2, <2>1 DEF BusResult
  <2>3. result' = [result EXCEPT ![t] = r]
    BY DEF Waited
  <2> HIDE DEF r
  <2> QED
    BY <1>1, <2>2, <2>3
<1>5. /\ op' = op /\ twim' = twim /\ spim' = spim /\ selected' = selected /\ done' = done
      /\ i2c_semphr_handle' = i2c_semphr_handle /\ i2c_task_handle' = i2c_task_handle
      /\ spi_semphr_handle' = spi_semphr_handle /\ spi_task_handle' = spi_task_handle
      /\ current_csn_pin' = current_csn_pin /\ transfers' = transfers
  BY DEF Waited, i2c, spi
<1>6. BusTypes'
  BY <1>3, <1>4, <1>5 DEF BusGood, BusTypes
<1>7. MutexesHeld'
  BY <1>2, <1>3, <1>5 DEF BusGood, MutexesHeld, Holds, IsI2c
<1>8. I2cState'
  <2>1. i2c_semphr_handle = t => I2cQuiet
    BY <1>2 DEF BusGood, I2cState, I2cMoves, I2cEnded
  <2> QED
    BY <1>2, <1>3, <1>5, <2>1 DEF BusGood, I2cState, I2cQuiet, I2cMoves, I2cEnded
<1>9. SpiState'
  <2>1. spi_semphr_handle = t => SpiQuiet
    BY <1>2 DEF BusGood, SpiState, SpiMoves, SpiEnded
  <2> QED
    BY <1>2, <1>3, <1>5, <2>1 DEF BusGood, SpiState, SpiQuiet, SpiMoves, SpiEnded
<1>10. ToldOfOwn'
  BY <1>3, <1>5 DEF BusGood, ToldOfOwn
<1>11. OkDone'
  BY <1>2, <1>3, <1>4, <1>5 DEF BusGood, OkDone
<1> QED
  BY <1>6, <1>7, <1>8, <1>9, <1>10, <1>11 DEF BusGood

\* A wait for the mutex that runs out: the caller did not have it.
LEMMA TakeTimeoutKeeps ==
  ASSUME BusGood, NEW t \in Tasks, TakeTimeout(t)
  PROVE  BusGood'
<1>1. /\ pc' \in [Tasks -> BusPc] /\ op' \in [Tasks -> BusOp]
      /\ transfers' \in Nat /\ result' \in [Tasks -> BusResult]
      /\ pc'[t] \in {"idle", "take"} /\ result'[t].err # "OK"
      /\ \A u \in Tasks \ {t} : pc'[u] = pc[u] /\ op'[u] = op[u] /\ result'[u] = result[u]
  BY ReturnsTypes DEF TakeTimeout, BusGood
<1>2. pc[t] = "take" /\ i2c_semphr_handle # t /\ spi_semphr_handle # t
  BY DEF TakeTimeout, BusGood, MutexesHeld, Holds
<1>3. /\ notification' = notification /\ twim' = twim /\ spim' = spim
      /\ selected' = selected /\ done' = done
      /\ i2c_semphr_handle' = i2c_semphr_handle /\ i2c_task_handle' = i2c_task_handle
      /\ spi_semphr_handle' = spi_semphr_handle /\ spi_task_handle' = spi_task_handle
      /\ current_csn_pin' = current_csn_pin
  BY DEF TakeTimeout, i2c, spi
<1>4. BusTypes'
  BY <1>1, <1>3 DEF BusGood, BusTypes
<1>5. MutexesHeld'
  BY <1>1, <1>2, <1>3 DEF BusGood, MutexesHeld, Holds, IsI2c
<1>6. I2cState' /\ SpiState'
  BY <1>1, <1>2, <1>3, I2cKept, SpiKept DEF i2c, spi
<1>7. ToldOfOwn' /\ OkDone'
  BY <1>1, <1>2, <1>3 DEF BusGood, ToldOfOwn, OkDone
<1> QED
  BY <1>4, <1>5, <1>6, <1>7 DEF BusGood

\* The mutex is given back with the bus quiet and its shortcuts undone.
LEMMA ReleaseI2cKeeps ==
  ASSUME BusGood, NEW t \in Tasks, ReleaseI2c(t)
  PROVE  BusGood'
<1>1. /\ pc[t] = "release" /\ IsI2c(t) /\ result[t].n = op[t].n
      /\ result[t].err \in {"OK", "NACK", "XFR_TIMEOUT"} /\ twim \in Twim
  BY DEF ReleaseI2c, BusGood, OkDone, BusTypes, BusResult
<1>2. result[t].err = "OK" => op[t].n \in done
  BY <1>1 DEF BusGood, OkDone
<1>3. /\ pc' \in [Tasks -> BusPc] /\ op' \in [Tasks -> BusOp]
      /\ transfers' \in Nat /\ result' \in [Tasks -> BusResult]
      /\ pc'[t] \in {"idle", "take"}
      /\ result'[t].err # "OK" \/ (result'[t].n = op[t].n /\ result[t].err = "OK")
      /\ \A u \in Tasks \ {t} : pc'[u] = pc[u] /\ op'[u] = op[u] /\ result'[u] = result[u]
  BY <1>1, ReturnsTypes DEF ReleaseI2c, BusGood
<1>4. i2c_semphr_handle = t /\ spi_semphr_handle # t
  BY <1>1 DEF BusGood, MutexesHeld, Holds
<1>5. I2cQuiet /\ twim.shorts = Shorts(op[t].call) /\ ~twim.error
  BY <1>1, <1>4 DEF BusGood, I2cState
<1>6. /\ twim'.xfr = twim.xfr /\ twim'.phase = twim.phase /\ twim'.shorts = {}
      /\ twim'.stopped = twim.stopped /\ twim'.error = twim.error
      /\ twim' \in Twim
  BY <1>1, <1>5 DEF ReleaseI2c, Twim
<1>7. /\ notification' = notification /\ spim' = spim /\ selected' = selected /\ done' = done
      /\ i2c_semphr_handle' = NoTask
      /\ i2c_task_handle' \in {NoTask, i2c_task_handle}
      /\ spi_semphr_handle' = spi_semphr_handle /\ spi_task_handle' = spi_task_handle
      /\ current_csn_pin' = current_csn_pin
  BY DEF ReleaseI2c, spi
<1>8. BusTypes'
  BY <1>3, <1>6, <1>7 DEF BusGood, BusTypes
<1>9. MutexesHeld'
  <2>1. \A u \in Tasks : i2c_semphr_handle' # u
    BY <1>7, NoTaskIsNone
  <2>2. \A u \in Tasks \ {t} : ~(Holds(u) /\ IsI2c(u))
    BY <1>4 DEF BusGood, MutexesHeld
  <2>3. ~Holds(t)'
    BY <1>3 DEF Holds
  <2>4. \A u \in Tasks \ {t} : (Holds(u)' <=> Holds(u)) /\ (IsI2c(u)' <=> IsI2c(u))
    BY <1>3 DEF Holds, IsI2c
  <2> QED
    BY <1>4, <1>7, <2>1, <2>2, <2>3, <2>4 DEF BusGood, MutexesHeld
<1>10. I2cState'
  <2>1. \A u \in Tasks : i2c_semphr_handle' # u
    BY <1>7, NoTaskIsNone
  <2> QED
    BY <1>5, <1>6, <2>1 DEF I2cState, I2cQuiet
<1>11. SpiState'
  BY <1>3, <1>4, <1>7, SpiKept DEF spi, ReleaseI2c
<1>12. ToldOfOwn' /\ OkDone'
  BY <1>1, <1>2, <1>3, <1>7 DEF BusGood, ToldOfOwn, OkDone
<1> QED
  BY <1>8, <1>9, <1>10, <1>11, <1>12 DEF BusGood

LEMMA ReleaseSpiKeeps ==
  ASSUME BusGood, NEW t \in Tasks, ReleaseSpi(t)
  PROVE  BusGood'
<1>1. /\ pc[t] = "release" /\ ~IsI2c(t) /\ result[t].n = op[t].n
      /\ result[t].err \in {"OK", "NACK", "XFR_TIMEOUT"}
  BY DEF ReleaseSpi, BusGood, OkDone, BusTypes, BusResult
<1>2. result[t].err = "OK" => op[t].n \in done
  BY <1>1 DEF BusGood, OkDone
<1>3. /\ pc' \in [Tasks -> BusPc] /\ op' \in [Tasks -> BusOp]
      /\ transfers' \in Nat /\ result' \in [Tasks -> BusResult]
      /\ pc'[t] \in {"idle", "take"}
      /\ result'[t].err # "OK" \/ (result'[t].n = op[t].n /\ result[t].err = "OK")
      /\ \A u \in Tasks \ {t} : pc'[u] = pc[u] /\ op'[u] = op[u] /\ result'[u] = result[u]
  BY <1>1, ReturnsTypes DEF ReleaseSpi, BusGood
<1>4. spi_semphr_handle = t /\ i2c_semphr_handle # t
  BY <1>1 DEF BusGood, MutexesHeld, Holds
<1>5. SpiQuiet
  BY <1>1, <1>4 DEF BusGood, SpiState
<1>6. /\ notification' = notification /\ twim' = twim /\ spim' = spim
      /\ selected' = selected /\ done' = done
      /\ spi_semphr_handle' = NoTask /\ spi_task_handle' = NoTask
      /\ i2c_semphr_handle' = i2c_semphr_handle /\ i2c_task_handle' = i2c_task_handle
      /\ current_csn_pin' = current_csn_pin
  BY DEF ReleaseSpi, i2c
<1>7. BusTypes'
  BY <1>3, <1>6 DEF BusGood, BusTypes
<1>8. MutexesHeld'
  <2>1. \A u \in Tasks : spi_semphr_handle' # u
    BY <1>6, NoTaskIsNone
  <2>2. \A u \in Tasks \ {t} : ~(Holds(u) /\ ~IsI2c(u))
    BY <1>4 DEF BusGood, MutexesHeld
  <2>3. ~Holds(t)'
    BY <1>3 DEF Holds
  <2>4. \A u \in Tasks \ {t} : (Holds(u)' <=> Holds(u)) /\ (IsI2c(u)' <=> IsI2c(u))
    BY <1>3 DEF Holds, IsI2c
  <2> QED
    BY <1>4, <1>6, <2>1, <2>2, <2>3, <2>4 DEF BusGood, MutexesHeld
<1>9. SpiState'
  <2>1. \A u \in Tasks : spi_semphr_handle' # u
    BY <1>6, NoTaskIsNone
  <2> QED
    BY <1>5, <1>6, <2>1 DEF SpiState, SpiQuiet
<1>10. I2cState'
  BY <1>3, <1>4, <1>6, I2cKept DEF i2c
<1>11. ToldOfOwn' /\ OkDone'
  BY <1>1, <1>2, <1>3, <1>6 DEF BusGood, ToldOfOwn, OkDone
<1> QED
  BY <1>7, <1>8, <1>9, <1>10, <1>11 DEF BusGood

----------------------------------------------------------------------------
(* The peripherals and the interrupts.                                      *)

LEMMA LastByteKeeps ==
  ASSUME BusGood, ~fault, LastByte
  PROVE  BusGood'
<1>1. twim \in Twim
  BY DEF BusGood, BusTypes
<1>2. ~I2cQuiet
  BY DEF LastByte, I2cQuiet
<1>3. PICK u \in Tasks :
        /\ i2c_semphr_handle = u /\ i2c_task_handle = u /\ pc[u] = "wait" /\ IsI2c(u)
        /\ twim.shorts = Shorts(op[u].call)
        /\ I2cMoves(u) \/ I2cEnded(u)
  BY <1>2, I2cOwner
<1>4. I2cMoves(u) /\ op[u].call \in I2cCalls
  BY <1>3 DEF LastByte, I2cEnded, IsI2c
<1>5. /\ pc' = pc /\ op' = op /\ notification' = notification /\ result' = result
      /\ i2c_semphr_handle' = i2c_semphr_handle /\ i2c_task_handle' = i2c_task_handle
      /\ spi_semphr_handle' = spi_semphr_handle /\ spi_task_handle' = spi_task_handle
      /\ current_csn_pin' = current_csn_pin
      /\ spim' = spim /\ transfers' = transfers /\ selected' = selected
      /\ done \subseteq done'
  BY DEF LastByte, Recorded, i2c, spi
<1>6. /\ twim' \in Twim /\ twim'.shorts = twim.shorts /\ twim'.error = twim.error
      /\ I2cMoves(u)' \/ I2cEnded(u)'
  <2>1. CASE <<twim.phase, "stop">> \in twim.shorts
    <3>1. Moved(twim) /\ twim.xfr = op[u].n /\ <<twim.phase, "startrx">> \notin twim.shorts
      BY <1>3, <1>4, <2>1 DEF I2cMoves, I2cCalls, Shorts, Moved
    <3>2. twim' = [twim EXCEPT !.xfr = 0, !.phase = "idle", !.stopped = TRUE]
      BY <2>1, <3>1 DEF LastByte
    <3>3. op[u].n \in done'
      BY <3>1 DEF LastByte, Recorded
    <3>4. /\ twim'.xfr = 0 /\ twim'.phase = "idle" /\ twim'.stopped = TRUE
          /\ twim'.shorts = twim.shorts /\ twim'.error = twim.error
          /\ twim' \in Twim
      BY <1>1, <3>2 DEF Twim
    <3>5. I2cEnded(u)'
      BY <1>4, <1>5, <3>3, <3>4 DEF I2cEnded, I2cMoves
    <3> QED
      BY <3>4, <3>5
  <2>2. CASE <<twim.phase, "stop">> \notin twim.shorts
    <3>1. op[u].call = "write_and_read" /\ twim.phase = "tx"
      BY <1>3, <1>4, <2>2 DEF I2cMoves, I2cCalls, Shorts
    <3>2. <<twim.phase, "startrx">> \in twim.shorts
      BY <1>3, <3>1 DEF Shorts
    <3>3. twim' = [twim EXCEPT !.phase = "rx"]
      BY <2>2, <3>2 DEF LastByte
    <3>4. /\ twim'.xfr = twim.xfr /\ twim'.call = twim.call /\ twim'.phase = "rx"
          /\ twim'.stopped = twim.stopped /\ twim'.shorts = twim.shorts
          /\ twim'.error = twim.error /\ twim' \in Twim
      BY <1>1, <3>3 DEF Twim
    <3>5. I2cMoves(u)'
      BY <1>4, <1>5, <3>1, <3>4 DEF I2cMoves
    <3> QED
      BY <3>4, <3>5
  <2> QED
    BY <2>1, <2>2
<1>7. BusTypes'
  BY <1>5, <1>6 DEF BusGood, BusTypes
<1>8. MutexesHeld'
  BY <1>5 DEF BusGood, MutexesHeld, Holds, IsI2c
<1>9. I2cState'
  BY <1>3, <1>5, <1>6, NoTaskIsNone DEF BusGood, I2cState
<1>10. SpiState'
  BY <1>5, SpiKept DEF spi
<1>11. ToldOfOwn' /\ OkDone'
  BY <1>5 DEF BusGood, ToldOfOwn, OkDone
<1> QED
  BY <1>7, <1>8, <1>9, <1>10, <1>11 DEF BusGood

LEMMA SpimEndKeeps ==
  ASSUME BusGood, ~fault, SpimEnd
  PROVE  BusGood'
<1>1. spim \in Spim
  BY DEF BusGood, BusTypes
<1>2. ~SpiQuiet
  BY DEF SpimEnd, SpiQuiet
<1>3. PICK u \in Tasks :
        /\ spi_semphr_handle = u /\ spi_task_handle = u /\ pc[u] = "wait" /\ ~IsI2c(u)
        /\ SpiMoves(u) \/ SpiEnded(u)
  BY <1>2, SpiOwner
<1>4. SpiMoves(u)
  BY <1>3 DEF SpimEnd, SpiEnded
<1>5. /\ pc' = pc /\ op' = op /\ notification' = notification /\ result' = result
      /\ i2c_semphr_handle' = i2c_semphr_handle /\ i2c_task_handle' = i2c_task_handle
      /\ spi_semphr_handle' = spi_semphr_handle /\ spi_task_handle' = spi_task_handle
      /\ current_csn_pin' = current_csn_pin
      /\ twim' = twim /\ transfers' = transfers /\ selected' = selected
      /\ done \subseteq done'
  BY DEF SpimEnd, Recorded, i2c, spi
<1>6. op[u].n \in done'
  BY <1>4 DEF SpimEnd, Recorded, SpiMoves
<1>7. spim'.xfr = 0 /\ spim'.end = TRUE /\ spim' \in Spim
  BY <1>1 DEF SpimEnd, Spim
<1>8. SpiEnded(u)'
  BY <1>4, <1>5, <1>6, <1>7 DEF SpiEnded, SpiMoves
<1>9. BusTypes'
  BY <1>5, <1>7 DEF BusGood, BusTypes
<1>10. MutexesHeld'
  BY <1>5 DEF BusGood, MutexesHeld, Holds, IsI2c
<1>11. SpiState'
  BY <1>3, <1>5, <1>8, NoTaskIsNone DEF SpiState
<1>12. I2cState'
  BY <1>5, I2cKept DEF i2c
<1>13. ToldOfOwn' /\ OkDone'
  BY <1>5 DEF BusGood, ToldOfOwn, OkDone
<1> QED
  BY <1>9, <1>10, <1>11, <1>12, <1>13 DEF BusGood

LEMMA StoppedCallbackKeeps ==
  ASSUME BusGood, i2c_stopped_event_callback
  PROVE  BusGood'
<1>1. twim \in Twim /\ notification \in [Tasks -> {"none", "OK", "NACK"}]
  BY DEF BusGood, BusTypes
<1>2. ~I2cQuiet
  BY DEF i2c_stopped_event_callback, I2cQuiet
<1>3. PICK u \in Tasks :
        /\ i2c_semphr_handle = u /\ i2c_task_handle = u /\ pc[u] = "wait" /\ IsI2c(u)
        /\ twim.shorts = Shorts(op[u].call)
        /\ I2cMoves(u) \/ I2cEnded(u)
  BY <1>2, I2cOwner
<1>4. I2cEnded(u)
  BY <1>3 DEF i2c_stopped_event_callback, I2cMoves
<1>5. /\ pc' = pc /\ op' = op /\ result' = result /\ done' = done
      /\ i2c_semphr_handle' = i2c_semphr_handle /\ i2c_task_handle' = i2c_task_handle
      /\ spi_semphr_handle' = spi_semphr_handle /\ spi_task_handle' = spi_task_handle
      /\ current_csn_pin' = current_csn_pin
      /\ spim' = spim /\ transfers' = transfers /\ selected' = selected
  BY DEF i2c_stopped_event_callback, i2c, spi, history
<1>6. /\ twim'.xfr = 0 /\ twim'.phase = "idle" /\ twim'.stopped = FALSE
      /\ twim'.shorts = twim.shorts /\ twim'.error = twim.error
      /\ twim' \in Twim
  BY <1>1, <1>4 DEF i2c_stopped_event_callback, I2cEnded, Twim
<1>7. /\ notification' \in [Tasks -> {"none", "OK", "NACK"}] /\ notification'[u] = "OK"
      /\ \A v \in Tasks \ {u} : notification'[v] = notification[v]
  <2>1. notification' = [notification EXCEPT ![u] = "OK"]
    BY <1>3, NoTaskIsNone DEF i2c_stopped_event_callback, Notified
  <2> QED
    BY <1>1, <2>1
<1>8. BusTypes'
  BY <1>5, <1>6, <1>7 DEF BusGood, BusTypes
<1>9. MutexesHeld'
  BY <1>5 DEF BusGood, MutexesHeld, Holds, IsI2c
<1>10. I2cState'
  <2>1. I2cQuiet'
    BY <1>6 DEF I2cQuiet
  <2> QED
    BY <1>3, <1>5, <1>6, <1>7, <2>1, NoTaskIsNone DEF BusGood, I2cState
<1>11. SpiState'
  <2>1. spi_semphr_handle # u
    BY <1>3 DEF BusGood, MutexesHeld
  <2> QED
    BY <1>5, <1>7, <2>1, SpiKept DEF spi
<1>12. ToldOfOwn' /\ OkDone'
  BY <1>3, <1>4, <1>5, <1>7 DEF BusGood, ToldOfOwn, OkDone, I2cEnded
<1> QED
  BY <1>8, <1>9, <1>10, <1>11, <1>12 DEF BusGood

LEMMA SpiInterruptKeeps ==
  ASSUME BusGood, spi_int_handler
  PROVE  BusGood'
<1>1. spim \in Spim /\ notification \in [Tasks -> {"none", "OK", "NACK"}]
  BY DEF BusGood, BusTypes
<1>2. ~SpiQuiet
  BY DEF spi_int_handler, SpiQuiet
<1>3. PICK u \in Tasks :
        /\ spi_semphr_handle = u /\ spi_task_handle = u /\ pc[u] = "wait" /\ ~IsI2c(u)
        /\ SpiMoves(u) \/ SpiEnded(u)
  BY <1>2, SpiOwner
<1>4. SpiEnded(u)
  BY <1>3 DEF spi_int_handler, SpiMoves
<1>5. /\ pc' = pc /\ op' = op /\ result' = result /\ done' = done
      /\ i2c_semphr_handle' = i2c_semphr_handle /\ i2c_task_handle' = i2c_task_handle
      /\ spi_semphr_handle' = spi_semphr_handle /\ spi_task_handle' = spi_task_handle
      /\ current_csn_pin' = current_csn_pin
      /\ twim' = twim /\ transfers' = transfers
  BY DEF spi_int_handler, i2c, spi, history
<1>6. spim'.xfr = 0 /\ spim'.end = FALSE /\ spim' \in Spim
  BY <1>1, <1>4 DEF spi_int_handler, SpiEnded, Spim
<1>7. /\ notification' \in [Tasks -> {"none", "OK", "NACK"}] /\ notification'[u] = "OK"
      /\ \A v \in Tasks \ {u} : notification'[v] = notification[v]
  <2>1. notification' = [notification EXCEPT ![u] = "OK"]
    BY <1>3, NoTaskIsNone DEF spi_int_handler, Notified
  <2> QED
    BY <1>1, <2>1
<1>8. BusTypes'
  BY <1>5, <1>6, <1>7 DEF BusGood, BusTypes
<1>9. MutexesHeld'
  BY <1>5 DEF BusGood, MutexesHeld, Holds, IsI2c
<1>10. SpiState'
  <2>1. SpiQuiet'
    BY <1>6 DEF SpiQuiet
  <2> QED
    BY <1>3, <1>5, <1>7, <2>1, NoTaskIsNone DEF SpiState
<1>11. I2cState'
  <2>1. i2c_semphr_handle # u
    BY <1>3 DEF BusGood, MutexesHeld
  <2> QED
    BY <1>5, <1>7, <2>1, I2cKept DEF i2c
<1>12. ToldOfOwn' /\ OkDone'
  BY <1>3, <1>4, <1>5, <1>7 DEF BusGood, ToldOfOwn, OkDone, SpiEnded
<1> QED
  BY <1>8, <1>9, <1>10, <1>11, <1>12 DEF BusGood

----------------------------------------------------------------------------
(* The theorems.                                                            *)

LEMMA NoFaultBefore == [Next]_vars /\ fault => fault'
  BY DEF Next, vars, history, Call, CallI2c, CallSpi, Step, TakeI2c, TakeSpi, TakeTimeout,
         StartI2c, StartSpi, Waited, WaitTimeout, ReleaseI2c, ReleaseSpi, Peripheral,
         LastByte, NotAcknowledged, Stopped, SpimEnd, Interrupt, i2c_stopped_event_callback,
         i2c_err_callback, spi_int_handler, Fault

LEMMA NextKeeps == BusInv /\ [Next]_vars => BusInv'
<1> SUFFICES ASSUME BusInv, [Next]_vars, ~fault'
             PROVE  BusGood'
  BY DEF BusInv
<1>1. BusGood /\ ~fault
  <2>1. ~fault
    BY NoFaultBefore
  <2> QED
    BY <2>1 DEF BusInv
<1>2. ASSUME NEW t \in Tasks, Call(t) PROVE BusGood'
  BY <1>1, <1>2, CallsKeep, BusAssumption
<1>3. ASSUME NEW t \in Tasks, Step(t) PROVE BusGood'
  <2>1. ~WaitTimeout(t)
    BY DEF WaitTimeout, Fault
  <2> QED
    BY <1>1, <1>3, <2>1, TakeI2cKeeps, TakeSpiKeeps, TakeTimeoutKeeps, StartI2cKeeps,
       StartSpiKeeps, WaitedKeeps, ReleaseI2cKeeps, ReleaseSpiKeeps DEF Step
<1>4. CASE Peripheral
  <2>1. ~NotAcknowledged
    BY DEF NotAcknowledged, Fault
  <2>2. ~Stopped
    <3>1. twim.phase # "stopping"
      BY <1>1, I2cOwner DEF I2cQuiet, I2cMoves, I2cEnded
    <3> QED
      BY <3>1 DEF Stopped
  <2> QED
    BY <1>1, <1>4, <2>1, <2>2, LastByteKeeps, SpimEndKeeps DEF Peripheral
<1>5. CASE Interrupt
  <2>1. ~i2c_err_callback
    BY <1>1 DEF i2c_err_callback, BusGood, I2cState
  <2> QED
    BY <1>1, <1>5, <2>1, StoppedCallbackKeeps, SpiInterruptKeeps DEF Interrupt
<1>6. CASE UNCHANGED vars
  <2>1. /\ pc' = pc /\ op' = op /\ notification' = notification /\ result' = result
        /\ done' = done /\ transfers' = transfers /\ twim' = twim /\ spim' = spim
        /\ selected' = selected
        /\ i2c_semphr_handle' = i2c_semphr_handle /\ i2c_task_handle' = i2c_task_handle
        /\ spi_semphr_handle' = spi_semphr_handle /\ spi_task_handle' = spi_task_handle
        /\ current_csn_pin' = current_csn_pin
    BY <1>6 DEF vars, i2c, spi, history
  <2>2. BusTypes' /\ MutexesHeld' /\ ToldOfOwn' /\ OkDone'
    BY <1>1, <2>1 DEF BusGood, BusTypes, MutexesHeld, Holds, IsI2c, ToldOfOwn, OkDone
  <2>3. I2cState' /\ SpiState'
    BY <1>1, <2>1, I2cKept, SpiKept DEF i2c, spi
  <2> QED
    BY <2>2, <2>3 DEF BusGood
<1> QED
  BY <1>2, <1>3, <1>4, <1>5, <1>6 DEF Next

\* BusInv holds of every behaviour: while there has been no fault, each bus is
\* used by the owner of its mutex alone and only the owner is notified.
THEOREM BusesOwned == Spec => []BusInv
<1>1. Init => BusInv
  BY BusInit
<1>2. BusInv /\ [Next]_vars => BusInv'
  BY NextKeeps
<1> QED
  BY <1>1, <1>2, PTL DEF Spec

\* Without a fault, a call that returns nrf_OK has moved its bytes
\* (the calls of i2c_thread_safe.c and spi_thread_safe.c).
THEOREM OkTransfers == Spec => []OkMeansTransferred
<1>1. BusInv => OkMeansTransferred
  BY DEF BusInv, BusGood, OkDone, OkMeansTransferred
<1> QED
  BY <1>1, BusesOwned, PTL

\* Without a fault, a peripheral moves the bytes only of a call that waits.
THEOREM BuffersKept == Spec => []BuffersAlive
<1>1. BusInv => BuffersAlive
  <2> SUFFICES ASSUME BusGood
               PROVE  /\ twim.xfr # 0 => \E t \in Tasks : op[t].n = twim.xfr /\ pc[t] = "wait"
                      /\ spim.xfr # 0 => \E t \in Tasks : op[t].n = spim.xfr /\ pc[t] = "wait"
    BY DEF BusInv, BuffersAlive
  <2>1. ASSUME twim.xfr # 0
        PROVE  \E t \in Tasks : op[t].n = twim.xfr /\ pc[t] = "wait"
    BY <2>1, I2cOwner DEF I2cQuiet, I2cMoves, I2cEnded
  <2>2. ASSUME spim.xfr # 0
        PROVE  \E t \in Tasks : op[t].n = spim.xfr /\ pc[t] = "wait"
    BY <2>2, SpiOwner DEF SpiQuiet, SpiMoves, SpiEnded
  <2> QED
    BY <2>1, <2>2
<1> QED
  BY <1>1, BusesOwned, PTL

----------------------------------------------------------------------------
(* The parts of an image.                                                   *)

\* No image has more parts than oled_send_data can count in a byte; those of
\* nrf_gfx.c fill the display's 1024 bytes at most.
FramesFit == \A size \in Frames : size <= 255 * OLED_SPI_MAX_XFR_BYTES

LEMMA SplitCovers ==
  ASSUME NEW size \in Nat \ {0}, size <= 255 * OLED_SPI_MAX_XFR_BYTES, NEW i \in Nat
  PROVE  /\ Split(size) \in Nat \ {0}
         /\ i + 1 < Split(size) => TxSize(size, i) = OLED_SPI_MAX_XFR_BYTES
         /\ i + 1 = Split(size) => i * OLED_SPI_MAX_XFR_BYTES + TxSize(size, i) = size
<1> DEFINE q == size \div 255
           r == size % 255
<1>1. q \in Nat /\ r \in 0 .. 254 /\ size = 255 * q + r
  OBVIOUS
<1>2. q <= 255 /\ (q = 255 => r = 0)
  BY <1>1 DEF OLED_SPI_MAX_XFR_BYTES
<1>3. Split(size) = q + IF r = 0 THEN 0 ELSE 1
  <2>1. Split(size) = (q + IF r = 0 THEN 0 ELSE 1) % 256
    BY DEF Split, OLED_SPI_MAX_XFR_BYTES
  <2> HIDE DEF q, r
  <2>2. q + (IF r = 0 THEN 0 ELSE 1) \in 0 .. 255
    BY <1>1, <1>2
  <2>3. \A n \in 0 .. 255 : n % 256 = n
    OBVIOUS
  <2> QED
    BY <2>1, <2>2, <2>3
<1>4. TxSize(size, i) = IF i = Split(size) - 1 /\ r # 0 THEN r ELSE 255
  BY DEF TxSize, OLED_SPI_MAX_XFR_BYTES
<1> HIDE DEF q, r
<1> QED
  BY <1>1, <1>2, <1>3, <1>4 DEF OLED_SPI_MAX_XFR_BYTES

\* How far each call is.
PartsInPlace ==
    \A t \in Tasks : pc[t] # "idle" =>
        /\ op[t].call # "none"
        /\ op[t].crossed \/ op[t].whole
        /\ op[t].sent = op[t].i * OLED_SPI_MAX_XFR_BYTES
        /\ op[t].call = "data" => op[t].size \in Frames /\ op[t].i < Split(op[t].size)
        /\ op[t].call # "data" => op[t].i = 0
SentWhole ==
    \A t \in Tasks :
        pc[t] = "idle" /\ result[t].err = "OK" => result[t].crossed \/ result[t].whole

\* The pin stands as t set it, and its bytes are taken for what they are.
PinFits(t) ==
    /\ oled_dc_pin = op[t].call
    /\ pc[t] = "wait" => /\ spim.xfr # 0 => spim.fits
                         /\ spim.end \/ notification[t] # "none" => op[t].n \in taken
    /\ pc[t] = "release" /\ result[t].err = "OK" => op[t].n \in taken
\* A call on the SPI bus that no other has crossed.
Alone(t) == pc[t] # "idle" /\ ~IsI2c(t) /\ ~op[t].crossed
PinsInPlace == \A t \in Tasks : Alone(t) => PinFits(t)
FrameInv == fault \/ (PartsInPlace /\ SentWhole /\ PinsInPlace)

LEMMA FrameInit == Init => FrameInv
  BY DEF Init, FrameInv, PartsInPlace, SentWhole, PinsInPlace, Alone, NoResult

\* Only the owner of the bus waits for a transfer or gives the mutex.
LEMMA SpiAlone ==
  ASSUME BusGood, NEW t \in Tasks, NEW u \in Tasks, Holds(t), ~IsI2c(t), Holds(u), ~IsI2c(u)
  PROVE  t = u
BY DEF BusGood, MutexesHeld

\* A step that leaves the pin, the bus and the call as they are, or brings the
\* call to a point where nothing has been sent.
LEMMA PinKept ==
  ASSUME NEW t \in Tasks, PinFits(t),
         oled_dc_pin' = oled_dc_pin, op'[t].call = op[t].call,
         \/ pc'[t] \in {"take", "start"}
         \/ /\ pc'[t] = pc[t] /\ op'[t].n = op[t].n /\ notification'[t] = notification[t]
            /\ result'[t] = result[t] /\ spim' = spim /\ taken' = taken
  PROVE  PinFits(t)'
BY DEF PinFits

LEMMA PinCalls ==
  ASSUME BusTypes, PartsInPlace, PinsInPlace, NEW t \in Tasks, Call(t)
  PROVE  PinsInPlace'
<1>1. /\ pc \in [Tasks -> BusPc] /\ op \in [Tasks -> BusOp] /\ spim \in Spim
      /\ result \in [Tasks -> BusResult]
  BY DEF BusTypes
<1>2. ASSUME NEW call \in I2cCalls, CallI2c(t, call) PROVE PinsInPlace'
  <2>1. /\ \A u \in Tasks \ {t} : pc'[u] = pc[u] /\ op'[u] = op[u] /\ result'[u] = result[u]
        /\ op'[t].call = call
        /\ oled_dc_pin' = oled_dc_pin /\ spim' = spim /\ taken' = taken
        /\ notification' = notification
    BY <1>1, <1>2 DEF CallI2c, Goto, NoOp
  <2>2. IsI2c(t)'
    BY <2>1 DEF IsI2c
  <2> QED
    BY <2>1, <2>2, PinKept DEF PinsInPlace, Alone, IsI2c
<1>3. ASSUME NEW call \in SpiCalls, NEW chip \in Chips, NEW size, CallSpi(t, call, chip, size)
      PROVE  PinsInPlace'
  <2>1. /\ pc'[t] = "take" /\ oled_dc_pin' = call /\ taken' = taken
        /\ notification' = notification
        /\ \A u \in Tasks \ {t} : pc'[u] = pc[u] /\ result'[u] = result[u]
    BY <1>1, <1>3 DEF CallSpi, Goto
  <2>2. /\ op'[t] = [NoOp EXCEPT !.call = call, !.n = transfers', !.chip = chip, !.size = size]
        /\ \A u \in Tasks \ {t} :
              op'[u] = [op[u] EXCEPT !.crossed = @ \/ op[u].call \in SpiCalls \ {call}]
    BY <1>3 DEF CallSpi
  <2>3. op'[t].call = call
    BY <2>2 DEF NoOp
  <2>4. ASSUME NEW u \in Tasks, u # t
        PROVE  /\ op'[u].call = op[u].call /\ op'[u].n = op[u].n
               /\ op'[u].crossed <=> op[u].crossed \/ op[u].call \in SpiCalls \ {call}
    <3>1. op[u] \in BusOp
      BY <1>1
    <3> QED
      BY <2>2, <2>4, <3>1 DEF BusOp
  <2>5. /\ spim'.xfr = spim.xfr /\ spim'.end = spim.end
        /\ call = oled_dc_pin /\ spim.fits => spim'.fits
    BY <1>1, <1>3 DEF CallSpi, Spim
  <2>6. PinFits(t)'
    BY <2>1, <2>3 DEF PinFits
  <2>7. ASSUME NEW u \in Tasks, u # t, Alone(u)' PROVE PinFits(u)'
    <3>1. pc[u] # "idle" /\ ~IsI2c(u) /\ ~op[u].crossed /\ op[u].call \notin SpiCalls \ {call}
      BY <2>1, <2>4, <2>7 DEF Alone, IsI2c
    <3>2. PinFits(u)
      BY <3>1 DEF PinsInPlace, Alone
    <3>3. op[u].call \in BusCalls /\ op[u].call # "none"
      BY <1>1, <3>1 DEF PartsInPlace, BusOp
    <3>4. op[u].call = call
      BY <3>1, <3>3 DEF BusCalls, IsI2c
    <3> QED
      BY <2>1, <2>4, <2>5, <2>7, <3>2, <3>4 DEF PinFits
  <2> QED
    BY <2>6, <2>7 DEF PinsInPlace
<1> QED
  BY <1>2, <1>3 DEF Call, SpiCalls

LEMMA PinSteps ==
  ASSUME BusGood, PinsInPlace, NEW t \in Tasks, Step(t), ~WaitTimeout(t)
  PROVE  PinsInPlace'
<1>1. /\ pc \in [Tasks -> BusPc] /\ op \in [Tasks -> BusOp] /\ spim \in Spim
      /\ result \in [Tasks -> BusResult] /\ notification \in [Tasks -> {"none", "OK", "NACK"}]
  BY DEF BusGood, BusTypes
<1>2. CASE TakeI2c(t) \/ TakeSpi(t) \/ StartI2c(t)
  <2>1. /\ op' = op /\ oled_dc_pin' = oled_dc_pin /\ spim' = spim /\ taken' = taken
        /\ notification' = notification /\ result' = result
        /\ pc[t] # "idle" /\ (pc'[t] = "start" \/ IsI2c(t))
        /\ \A u \in Tasks \ {t} : pc'[u] = pc[u]
    BY <1>1, <1>2 DEF TakeI2c, TakeSpi, StartI2c, Goto, history
  <2> QED
    BY <2>1, PinKept DEF PinsInPlace, Alone, IsI2c
<1>3. CASE TakeTimeout(t) \/ ReleaseI2c(t) \/ ReleaseSpi(t)
  <2>1. /\ oled_dc_pin' = oled_dc_pin /\ spim' = spim /\ taken' = taken
        /\ notification' = notification /\ pc[t] # "idle"
        /\ \E err \in {"OK", "NACK", "XFR_TIMEOUT"} : Returns(t, err)
    <3>1. pc[t] = "release" => result[t].err \in {"OK", "NACK", "XFR_TIMEOUT"}
      BY <1>1 DEF BusGood, OkDone, BusResult
    <3> QED
      BY <1>3, <3>1 DEF TakeTimeout, ReleaseI2c, ReleaseSpi
  <2>2. \A u \in Tasks \ {t} : pc'[u] = pc[u] /\ op'[u] = op[u] /\ result'[u] = result[u]
    BY <1>1, <2>1 DEF Returns, Goto
  <2>3. \/ pc'[t] = "idle"
        \/ pc'[t] = "take" /\ op'[t].call = op[t].call /\ op'[t].crossed = op[t].crossed
    BY <2>1, ReturnsTypes DEF BusGood
  <2> QED
    BY <2>1, <2>2, <2>3, PinKept DEF PinsInPlace, Alone, IsI2c
<1>4. CASE StartSpi(t)
  <2>1. /\ pc[t] = "start" /\ ~IsI2c(t) /\ Holds(t)
        /\ op' = op /\ oled_dc_pin' = oled_dc_pin /\ taken' = taken
        /\ notification' = notification /\ result' = result /\ pc'[t] = "wait"
        /\ \A u \in Tasks \ {t} : pc'[u] = pc[u]
    BY <1>1, <1>4 DEF StartSpi, Goto, history, Holds
  <2>2. SpiQuiet /\ notification[t] = "none"
    BY <2>1 DEF BusGood, SpiState, MutexesHeld, ToldOfOwn
  <2>3. spim' = [spim EXCEPT !.xfr = op[t].n, !.chip = op[t].chip,
                             !.fits = oled_dc_pin = op[t].call]
    BY <1>4, <2>2 DEF StartSpi, SpiQuiet
  <2>4. ~spim'.end /\ (oled_dc_pin = op[t].call => spim'.fits)
    BY <1>1, <2>2, <2>3 DEF SpiQuiet, Spim
  <2>5. ASSUME Alone(t)' PROVE PinFits(t)'
    <3>1. PinFits(t)
      BY <2>1, <2>5 DEF PinsInPlace, Alone, IsI2c
    <3> QED
      BY <2>1, <2>2, <2>4, <3>1 DEF PinFits
  <2>6. ASSUME NEW u \in Tasks, u # t, Alone(u)' PROVE PinFits(u)'
    <3>1. PinFits(u) /\ ~IsI2c(u)
      BY <2>1, <2>6 DEF PinsInPlace, Alone, IsI2c
    <3>2. ~Holds(u)
      BY <2>1, <2>6, <3>1, SpiAlone
    <3> QED
      BY <2>1, <2>6, <3>1, <3>2 DEF PinFits, Holds
  <2> QED
    BY <2>5, <2>6 DEF PinsInPlace
<1>5. CASE Waited(t)
  <2>1. /\ pc[t] = "wait" /\ notification[t] # "none" /\ pc'[t] = "release"
        /\ op' = op /\ oled_dc_pin' = oled_dc_pin /\ taken' = taken /\ spim' = spim
        /\ \A u \in Tasks \ {t} :
              pc'[u] = pc[u] /\ notification'[u] = notification[u] /\ result'[u] = result[u]
    BY <1>1, <1>5 DEF Waited, Goto
  <2>2. ASSUME Alone(t)' PROVE PinFits(t)'
    <3>1. PinFits(t)
      BY <2>1, <2>2 DEF PinsInPlace, Alone, IsI2c
    <3> QED
      BY <2>1, <3>1 DEF PinFits
  <2>3. ASSUME NEW u \in Tasks, u # t, Alone(u)' PROVE PinFits(u)'
    <3>1. PinFits(u)
      BY <2>1, <2>3 DEF PinsInPlace, Alone, IsI2c
    <3> QED
      BY <2>1, <2>3, <3>1, PinKept
  <2> QED
    BY <2>2, <2>3 DEF PinsInPlace
<1> QED
  BY <1>2, <1>3, <1>4, <1>5 DEF Step

LEMMA PinHardware ==
  ASSUME BusGood, PinsInPlace, Peripheral \/ Interrupt, ~fault, ~fault'
  PROVE  PinsInPlace'
<1>1. /\ pc \in [Tasks -> BusPc] /\ op \in [Tasks -> BusOp] /\ spim \in Spim
      /\ notification \in [Tasks -> {"none", "OK", "NACK"}]
  BY DEF BusGood, BusTypes
<1>2. pc' = pc /\ op' = op /\ oled_dc_pin' = oled_dc_pin /\ result' = result
  BY DEF Peripheral, LastByte, NotAcknowledged, Stopped, SpimEnd, Interrupt,
     i2c_stopped_event_callback, i2c_err_callback, spi_int_handler, history
<1>3. CASE LastByte \/ NotAcknowledged \/ Stopped
  <2>1. notification' = notification /\ spim' = spim /\ taken' = taken
    BY <1>3 DEF LastByte, NotAcknowledged, Fault, Stopped, history
  <2> QED
    BY <1>2, <2>1, PinKept DEF PinsInPlace, Alone, IsI2c
<1>4. CASE i2c_stopped_event_callback \/ i2c_err_callback
  <2>1. spim' = spim /\ taken' = taken /\ ~I2cQuiet
    BY <1>4 DEF i2c_stopped_event_callback, i2c_err_callback, history, I2cQuiet, BusGood, I2cState
  <2>2. PICK u \in Tasks : i2c_task_handle = u /\ IsI2c(u)
    BY <2>1, I2cOwner
  <2>3. \A t \in Tasks \ {u} : notification'[t] = notification[t]
    BY <1>1, <1>4, <2>2, NoTaskIsNone DEF i2c_stopped_event_callback, i2c_err_callback, Notified
  <2> QED
    BY <1>2, <2>1, <2>2, <2>3, PinKept DEF PinsInPlace, Alone, IsI2c
<1>5. CASE SpimEnd
  <2>1. notification' = notification /\ spim'.xfr = 0 /\ spim.xfr # 0
    BY <1>1, <1>5 DEF SpimEnd, Spim
  <2>2. PICK u \in Tasks : pc[u] = "wait" /\ ~IsI2c(u) /\ (SpiMoves(u) \/ SpiEnded(u))
    BY <2>1, SpiOwner DEF SpiQuiet
  <2>3. spim.xfr = op[u].n /\ spim.chip \in selected
    BY <2>1, <2>2 DEF SpiMoves, SpiEnded
  <2>4. taken \subseteq taken' /\ (spim.fits => op[u].n \in taken')
    BY <1>5, <2>3 DEF SpimEnd, Recorded
  <2>5. ASSUME NEW t \in Tasks, Alone(t)' PROVE PinFits(t)'
    <3>1. PinFits(t) /\ ~IsI2c(t)
      BY <1>2, <2>5 DEF PinsInPlace, Alone, IsI2c
    <3>2. pc[t] = "wait" => t = u
      BY <2>2, <3>1, SpiAlone DEF Holds
    <3> QED
      BY <1>2, <2>1, <2>4, <3>1, <3>2 DEF PinFits
  <2> QED
    BY <2>5 DEF PinsInPlace
<1>6. CASE spi_int_handler
  <2>1. taken' = taken /\ spim.end /\ ~spim'.end /\ spim'.xfr = spim.xfr /\ spim'.fits = spim.fits
    BY <1>1, <1>6 DEF spi_int_handler, history, Spim
  <2>2. PICK u \in Tasks : spi_task_handle = u /\ pc[u] = "wait" /\ ~IsI2c(u)
    BY <2>1, SpiOwner DEF SpiQuiet
  <2>3. \A t \in Tasks \ {u} : notification'[t] = notification[t]
    BY <1>1, <1>6, <2>2, NoTaskIsNone DEF spi_int_handler, Notified
  <2>4. ASSUME NEW t \in Tasks, Alone(t)' PROVE PinFits(t)'
    <3>1. PinFits(t)
      BY <1>2, <2>4 DEF PinsInPlace, Alone, IsI2c
    <3> QED
      BY <1>2, <2>1, <2>3, <3>1 DEF PinFits
  <2> QED
    BY <2>4 DEF PinsInPlace
<1> QED
  BY <1>3, <1>4, <1>5, <1>6 DEF Peripheral, Interrupt

LEMMA ReturnsWhole ==
  ASSUME FramesFit, BusTypes, PartsInPlace, SentWhole,
         NEW t \in Tasks, NEW err \in {"OK", "NACK", "XFR_TIMEOUT"},
         pc[t] # "idle", Returns(t, err),
         err = "OK" /\ ~op[t].crossed => op[t].n \in IF IsI2c(t) THEN done ELSE taken
  PROVE  PartsInPlace' /\ SentWhole'
<1> DEFINE o == op[t]
           sent == o.sent + IF o.call = "data" THEN TxSize(o.size, o.i) ELSE o.size
           whole == /\ o.whole /\ o.sent = o.i * OLED_SPI_MAX_XFR_BYTES
                    /\ o.n \in IF IsI2c(t) THEN done ELSE taken
           More == o.call = "data" /\ err = "OK" /\ o.i + 1 < Split(o.size)
<1>1. /\ o \in BusOp /\ op \in [Tasks -> BusOp] /\ pc \in [Tasks -> BusPc]
      /\ result \in [Tasks -> BusResult]
      /\ o.i \in Nat /\ o.size \in Nat /\ o.sent \in Nat
  BY DEF BusTypes, BusOp
<1>2. /\ o.call # "none" /\ (o.crossed \/ o.whole) /\ o.sent = o.i * OLED_SPI_MAX_XFR_BYTES
      /\ o.call = "data" => o.size \in Frames /\ o.i < Split(o.size)
      /\ o.call # "data" => o.i = 0
  BY DEF PartsInPlace
<1>3. ASSUME o.call = "data"
      PROVE  /\ Split(o.size) \in Nat
             /\ o.i + 1 < Split(o.size) => TxSize(o.size, o.i) = OLED_SPI_MAX_XFR_BYTES
             /\ o.i + 1 = Split(o.size) => sent = o.size
  <2>1. o.size \in Nat \ {0} /\ o.size <= 255 * OLED_SPI_MAX_XFR_BYTES
    BY <1>2, <1>3, BusAssumption DEF FramesFit
  <2> QED
    BY <1>1, <1>2, <1>3, <2>1, SplitCovers
<1>4. \A u \in Tasks \ {t} : pc'[u] = pc[u] /\ op'[u] = op[u] /\ result'[u] = result[u]
  BY <1>1 DEF Returns, Goto
<1>5. CASE More
  <2>1. /\ op' = [op EXCEPT ![t] = [o EXCEPT !.i = @ + 1, !.n = transfers', !.sent = sent,
                                            !.whole = whole]]
        /\ pc' = [pc EXCEPT ![t] = "take"]
    BY <1>5 DEF Returns, Goto
  <2>2. /\ pc'[t] = "take" /\ op'[t].i = o.i + 1 /\ op'[t].sent = sent /\ op'[t].whole = whole
        /\ op'[t].call = "data" /\ op'[t].size = o.size /\ op'[t].crossed = o.crossed
    BY <1>1, <1>5, <2>1 DEF BusOp
  <2>3. (o.crossed \/ whole) /\ sent = (o.i + 1) * OLED_SPI_MAX_XFR_BYTES
    BY <1>1, <1>2, <1>3, <1>5 DEF OLED_SPI_MAX_XFR_BYTES
  <2>4. PartsInPlace'
    <3>1. ASSUME NEW u \in Tasks, u # t, pc'[u] # "idle"
          PROVE  /\ op'[u].call # "none" /\ (op'[u].crossed \/ op'[u].whole)
                 /\ op'[u].sent = op'[u].i * OLED_SPI_MAX_XFR_BYTES
                 /\ op'[u].call = "data" => op'[u].size \in Frames /\ op'[u].i < Split(op'[u].size)
                 /\ op'[u].call # "data" => op'[u].i = 0
      <4>1. pc[u] # "idle" /\ op'[u] = op[u]
        BY <1>4, <3>1
      <4> QED
        BY <3>1, <4>1 DEF PartsInPlace
    <3>2. /\ op'[t].crossed \/ op'[t].whole
          /\ op'[t].sent = op'[t].i * OLED_SPI_MAX_XFR_BYTES
          /\ op'[t].size \in Frames /\ op'[t].i < Split(op'[t].size)
      BY <1>2, <1>5, <2>2, <2>3
    <3> QED
      BY <2>2, <3>1, <3>2 DEF PartsInPlace
  <2> QED
    BY <1>4, <2>2, <2>4 DEF SentWhole
<1>6. CASE ~More
  <2>1. /\ result' = [result EXCEPT ![t] = [n |-> o.n, err |-> err, crossed |-> o.crossed,
                                            whole |-> whole /\ sent = o.size]]
        /\ pc' = [pc EXCEPT ![t] = "idle"]
    BY <1>6 DEF Returns, Goto
  <2>2. /\ pc'[t] = "idle" /\ result'[t].err = err /\ result'[t].crossed = o.crossed
        /\ result'[t].whole = (whole /\ sent = o.size)
    BY <1>1, <2>1
  <2>3. err = "OK" => o.crossed \/ (whole /\ sent = o.size)
    <3>1. CASE o.call = "data"
      <4>1. err = "OK" => o.i + 1 = Split(o.size)
        BY <1>1, <1>2, <1>3, <1>6, <3>1
      <4> QED
        BY <1>2, <1>3, <3>1, <4>1
    <3>2. CASE o.call # "data"
      BY <1>1, <1>2, <3>2 DEF OLED_SPI_MAX_XFR_BYTES
    <3> QED
      BY <3>1, <3>2
  <2> HIDE DEF whole, sent, o, More
  <2>4. PartsInPlace'
    BY <1>4, <2>2 DEF PartsInPlace
  <2>5. SentWhole'
    BY <1>4, <2>2, <2>3 DEF SentWhole
  <2> QED
    BY <2>4, <2>5
<1> QED
  BY <1>5, <1>6

LEMMA FrameNext ==
  ASSUME FramesFit, BusInv, FrameInv, [Next]_vars
  PROVE  FrameInv'
<1> SUFFICES ASSUME ~fault' PROVE PartsInPlace' /\ SentWhole' /\ PinsInPlace'
  BY DEF FrameInv
<1>1. ~fault
  BY NoFaultBefore
<1>2. BusGood /\ BusTypes /\ OkDone /\ PartsInPlace /\ SentWhole /\ PinsInPlace
  BY <1>1 DEF BusInv, BusGood, FrameInv
<1>3. /\ pc \in [Tasks -> BusPc] /\ op \in [Tasks -> BusOp] /\ result \in [Tasks -> BusResult]
  BY <1>2 DEF BusTypes
<1>4. ASSUME NEW t \in Tasks, Call(t) PROVE PartsInPlace' /\ SentWhole' /\ PinsInPlace'
  <2> DEFINE Begun ==
        /\ \A u \in Tasks \ {t} :
              /\ pc'[u] = pc[u] /\ result'[u] = result[u]
              /\ op'[u].call = op[u].call /\ op'[u].size = op[u].size /\ op'[u].i = op[u].i
              /\ op'[u].sent = op[u].sent /\ (op'[u].whole <=> op[u].whole)
              /\ op[u].crossed => op'[u].crossed
        /\ pc'[t] = "take" /\ result'[t] = NoResult
        /\ op'[t].i = 0 /\ op'[t].sent = 0 /\ op'[t].whole = TRUE /\ op'[t].call # "none"
        /\ op'[t].call = "data" => op'[t].size \in Frames
  <2>1. Begun
    <3>1. ASSUME NEW call \in I2cCalls, CallI2c(t, call) PROVE Begun
      BY <1>3, <3>1 DEF CallI2c, Goto, NoOp, I2cCalls
    <3>2. ASSUME NEW call \in SpiCalls, NEW chip \in Chips, NEW size,
                 call = "data" => size \in Frames, CallSpi(t, call, chip, size)
          PROVE  Begun
      <4>1. /\ pc'[t] = "take" /\ result'[t] = NoResult
            /\ \A u \in Tasks \ {t} : pc'[u] = pc[u] /\ result'[u] = result[u]
        BY <1>3, <3>2 DEF CallSpi, Goto
      <4>2. /\ op'[t] = [NoOp EXCEPT !.call = call, !.n = transfers', !.chip = chip, !.size = size]
            /\ \A u \in Tasks \ {t} :
                  op'[u] = [op[u] EXCEPT !.crossed = @ \/ op[u].call \in SpiCalls \ {call}]
        BY <3>2 DEF CallSpi
      <4>3. /\ op'[t].call = call /\ op'[t].size = size
            /\ op'[t].i = 0 /\ op'[t].sent = 0 /\ op'[t].whole = TRUE
        BY <4>2 DEF NoOp
      <4>4. ASSUME NEW u \in Tasks, u # t
            PROVE  /\ op'[u].call = op[u].call /\ op'[u].size = op[u].size /\ op'[u].i = op[u].i
                   /\ op'[u].sent = op[u].sent /\ (op'[u].whole <=> op[u].whole)
                   /\ op[u].crossed => op'[u].crossed
        <5>1. op[u] \in BusOp
          BY <1>3
        <5> DEFINE crossed == op[u].crossed \/ op[u].call \in SpiCalls \ {call}
        <5>2. op'[u] = [op[u] EXCEPT !.crossed = crossed]
          BY <4>2, <4>4, Zenon
        <5>3. op[u].crossed => crossed
          OBVIOUS
        <5> HIDE DEF crossed
        <5>4. /\ op'[u].call = op[u].call /\ op'[u].size = op[u].size
              /\ op'[u].i = op[u].i /\ op'[u].sent = op[u].sent
          BY <5>1, <5>2 DEF BusOp
        <5>5. op'[u].whole = op[u].whole
          BY <5>1, <5>2 DEF BusOp
        <5>6. op'[u].crossed = crossed
          BY <5>1, <5>2 DEF BusOp
        <5> QED
          BY <5>3, <5>4, <5>5, <5>6
      <4> QED
        BY <3>2, <4>1, <4>3, <4>4 DEF SpiCalls
    <3> QED
      BY <1>4, <3>1, <3>2 DEF Call, SpiCalls
  <2>2. op'[t].call = "data" => 0 < Split(op'[t].size)
    <3>1. ASSUME NEW z \in Frames PROVE 0 < Split(z)
      <4>1. z \in Nat \ {0} /\ z <= 255 * OLED_SPI_MAX_XFR_BYTES /\ 0 \in Nat
        BY BusAssumption DEF FramesFit
      <4> QED
        BY <4>1, SplitCovers
    <3> QED
      BY <2>1, <3>1
  <2>3. PartsInPlace'
    BY <1>2, <2>1, <2>2 DEF PartsInPlace, OLED_SPI_MAX_XFR_BYTES
  <2> QED
    BY <1>2, <1>4, <2>1, <2>3, PinCalls DEF SentWhole, NoResult
<1>5. ASSUME NEW t \in Tasks, Step(t) PROVE PartsInPlace' /\ SentWhole' /\ PinsInPlace'
  <2> SUFFICES PartsInPlace' /\ SentWhole'
    <3>1. ~WaitTimeout(t)
      BY DEF WaitTimeout, Fault
    <3> QED
      BY <1>2, <1>5, <3>1, PinSteps
  <2>1. CASE TakeTimeout(t)
    BY <1>2, <2>1, ReturnsWhole DEF TakeTimeout
  <2>2. CASE ReleaseI2c(t) \/ ReleaseSpi(t)
    <3>1. pc[t] = "release" /\ Returns(t, result[t].err)
      BY <2>2 DEF ReleaseI2c, ReleaseSpi
    <3>2. /\ result[t].err \in {"OK", "NACK", "XFR_TIMEOUT"}
          /\ result[t].err = "OK" => op[t].n \in done
          /\ result[t].err = "OK" /\ ~op[t].crossed /\ ~IsI2c(t) => op[t].n \in taken
      BY <1>2, <1>3, <3>1 DEF OkDone, BusResult, PinsInPlace, PinFits, Alone
    <3> QED
      BY <1>2, <3>1, <3>2, ReturnsWhole
  <2>3. CASE TakeI2c(t) \/ TakeSpi(t) \/ StartI2c(t) \/ StartSpi(t) \/ Waited(t)
    <3>1. /\ pc[t] # "idle" /\ op' = op
          /\ \E l \in {"start", "wait", "release"} : pc' = [pc EXCEPT ![t] = l]
          /\ \A u \in Tasks \ {t} : result'[u] = result[u]
      BY <1>3, <2>3 DEF TakeI2c, TakeSpi, StartI2c, StartSpi, Waited, Goto, history
    <3> QED
      BY <1>2, <1>3, <3>1 DEF PartsInPlace, SentWhole
  <2>4. ~WaitTimeout(t)
    BY DEF WaitTimeout, Fault
  <2> QED
    BY <1>5, <2>1, <2>2, <2>3, <2>4 DEF Step
<1>6. CASE Peripheral \/ Interrupt \/ UNCHANGED vars
  <2>1. pc' = pc /\ op' = op /\ result' = result
    BY <1>6 DEF vars, history, Peripheral, LastByte, NotAcknowledged, Stopped, SpimEnd, Interrupt,
       i2c_stopped_event_callback, i2c_err_callback, spi_int_handler
  <2>2. PartsInPlace' /\ SentWhole'
    BY <1>2, <2>1 DEF PartsInPlace, SentWhole
  <2>3. CASE UNCHANGED vars
    <3>1. /\ oled_dc_pin' = oled_dc_pin /\ spim' = spim /\ taken' = taken
          /\ notification' = notification
      BY <2>3 DEF vars, history
    <3> QED
      BY <1>2, <2>1, <2>2, <3>1, PinKept DEF PinsInPlace, Alone, IsI2c
  <2> QED
    BY <1>1, <1>2, <1>6, <2>2, <2>3, PinHardware
<1> QED
  BY <1>4, <1>5, <1>6 DEF Next

\* Without a fault, an image that oled_send_data has sent to the end has reached
\* the display whole: every part in its place, with its length and under the
\* right level of the data pin, unless another task called the driver with a
\* command meanwhile.
THEOREM FramesSentWhole == ASSUME FramesFit PROVE Spec => []FrameWhole
<1>1. FrameInv => FrameWhole
  BY DEF FrameInv, SentWhole, FrameWhole
<1>2. Init => FrameInv
  BY FrameInit
<1>3. BusInv /\ FrameInv /\ [Next]_vars => FrameInv'
  BY FrameNext
<1> QED
  BY <1>1, <1>2, <1>3, BusesOwned, PTL DEF Spec
=============================================================================
