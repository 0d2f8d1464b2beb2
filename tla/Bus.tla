--------------------------------- MODULE Bus ---------------------------------
(***************************************************************************)
(* The I2C and SPI transfers of libs/nrf_HAL (i2c_thread_safe.c over       *)
(* i2c.c, spi_thread_safe.c over spi.c) and the display driver's split of  *)
(* an image into SPI transfers (nrf_oled_driver.c).                        *)
(*                                                                         *)
(* A caller takes the bus's mutex, leaves its task handle for the          *)
(* interrupt, starts the peripheral and waits, with a time limit, for a    *)
(* notification.  A task has one notification slot, whichever bus it uses. *)
(* An interrupt is one step: no task runs before it is over.  Between two  *)
(* steps of a task everything else can happen: the peripherals move on,    *)
(* interrupts, the other tasks, the time limit.                            *)
(*                                                                         *)
(* Both buses are installed (Hardware_drivers_install) and nothing         *)
(* uninstalls them.  A transfer is known by its number.                    *)
(*                                                                         *)
(* The display tells commands from the bytes of an image by a pin, which   *)
(* the driver sets before it takes the mutex and sets once for all parts   *)
(* of an image.                                                            *)
(***************************************************************************)
EXTENDS Integers

CONSTANTS
    Tasks, NoTask,
    Chips,                  \* chip select pins
    Frames,                 \* sizes of the images that are drawn
    MaxTransfers            \* bound

ASSUME BusAssumption ==
    /\ NoTask \notin Tasks
    /\ Chips # {}
    /\ Frames \subseteq Nat \ {0}
    /\ MaxTransfers \in Nat

VARIABLES
    pc, op,                 \* what a task is doing, and with what parameters
    notification,           \* the pending notification of a task
    \* i2c_thread_safe.c
    i2c_semphr_handle, i2c_task_handle,
    twim,                   \* the I2C peripheral
    \* spi_thread_safe.c
    spi_semphr_handle, spi_task_handle, current_csn_pin,
    spim,                   \* the SPI peripheral
    selected,               \* chips whose select pin is low
    oled_dc_pin,            \* what the display takes a byte for: "cmd", "data"
    \* history
    transfers,              \* number of the last transfer
    done,                   \* those whose bytes have all been moved
    taken,                  \* the SPI transfers taken for what they were sent as
    result,                 \* a task's last transfer and what it returned
    fault                   \* a wait ran out, or a device did not acknowledge

i2c == <<i2c_semphr_handle, i2c_task_handle>>
spi == <<spi_semphr_handle, spi_task_handle, current_csn_pin>>
history == <<transfers, done, taken, result, fault>>
vars == <<pc, op, notification, i2c, twim, spi, spim, selected, oled_dc_pin, history>>

I2cCalls == {"write", "read", "write_and_read"}
SpiCalls == {"cmd", "data"}
IsI2c(t) == op[t].call \in I2cCalls

NoOp == [call |-> "none", n |-> 0, chip |-> CHOOSE c \in Chips : TRUE, size |-> 0, i |-> 0,
         sent |-> 0, whole |-> TRUE, crossed |-> FALSE]
NoResult == [n |-> 0, err |-> "none", whole |-> TRUE, crossed |-> FALSE]

Init ==
    /\ pc = [t \in Tasks |-> "idle"] /\ op = [t \in Tasks |-> NoOp]
    /\ notification = [t \in Tasks |-> "none"]
    /\ i2c_semphr_handle = NoTask /\ i2c_task_handle = NoTask
    /\ twim = [xfr |-> 0, phase |-> "idle", call |-> "none", shorts |-> {}, stopped |-> FALSE,
               error |-> FALSE]
    /\ spi_semphr_handle = NoTask /\ spi_task_handle = NoTask
    /\ current_csn_pin = NoOp.chip
    /\ spim = [xfr |-> 0, chip |-> NoOp.chip, fits |-> TRUE, end |-> FALSE]
    /\ selected = {} /\ oled_dc_pin = "data"
    /\ transfers = 0 /\ done = {} /\ taken = {} /\ fault = FALSE
    /\ result = [t \in Tasks |-> NoResult]

Goto(t, l) == pc' = [pc EXCEPT ![t] = l]

\* xTaskNotifyFromISR, which overwrites
Notified(t, err) ==
    IF t = NoTask THEN notification ELSE [notification EXCEPT ![t] = err]

\* What was moved is recorded until the first fault, and is of no use after it.
Recorded(xfrs, n) == IF fault THEN xfrs ELSE xfrs \cup {n}
Fault == fault' = TRUE /\ done' = {} /\ taken' = {}

----------------------------------------------------------------------------
(* The split of an image.                                                   *)

OLED_SPI_MAX_XFR_BYTES == 255

\* The number of parts, which is kept in a byte.
Split(size) ==
    (size \div OLED_SPI_MAX_XFR_BYTES + IF size % OLED_SPI_MAX_XFR_BYTES = 0 THEN 0 ELSE 1) % 256

TxSize_Remainder(size, i) ==    \* mutant
    IF i = Split(size) - 1 THEN size % OLED_SPI_MAX_XFR_BYTES ELSE OLED_SPI_MAX_XFR_BYTES
TxSize(size, i) ==
    IF i = Split(size) - 1 /\ size % OLED_SPI_MAX_XFR_BYTES # 0
    THEN size % OLED_SPI_MAX_XFR_BYTES ELSE OLED_SPI_MAX_XFR_BYTES

Parts(call, size) == IF call = "data" THEN Split(size) ELSE 1

----------------------------------------------------------------------------
(* The calls.                                                               *)

\* adxl345_lib.c calls the first kind; oled_send_cmd and oled_send_data the other.
CallI2c(t, call) ==
    /\ pc[t] = "idle" /\ transfers < MaxTransfers
    /\ transfers' = transfers + 1
    /\ op' = [op EXCEPT ![t] = [NoOp EXCEPT !.call = call, !.n = transfers']]
    /\ result' = [result EXCEPT ![t] = NoResult]
    /\ Goto(t, "take")
    /\ UNCHANGED <<notification, i2c, twim, spi, spim, selected, oled_dc_pin, done, taken, fault>>

\* The pin is set whatever the other tasks are sending.
CallSpi(t, call, chip, size) ==
    /\ pc[t] = "idle" /\ transfers + Parts(call, size) <= MaxTransfers
    /\ oled_dc_pin' = call
    /\ spim' = [spim EXCEPT !.fits = @ /\ call = oled_dc_pin]
    /\ transfers' = transfers + 1
    /\ op' = [u \in Tasks |->
                IF u = t
                THEN [NoOp EXCEPT !.call = call, !.n = transfers', !.chip = chip, !.size = size]
                ELSE [op[u] EXCEPT !.crossed = @ \/ op[u].call \in SpiCalls \ {call}]]
    /\ result' = [result EXCEPT ![t] = NoResult]
    /\ Goto(t, "take")
    /\ UNCHANGED <<notification, i2c, twim, spi, selected, done, taken, fault>>

Free_Always(semphr) == TRUE     \* mutant
Free(semphr) == semphr = NoTask

TakeI2c(t) ==
    /\ pc[t] = "take" /\ IsI2c(t) /\ Free(i2c_semphr_handle)
    /\ i2c_semphr_handle' = t /\ i2c_task_handle' = t
    /\ Goto(t, "start")
    /\ UNCHANGED <<op, notification, twim, spi, spim, selected, oled_dc_pin, history>>

TakeSpi(t) ==
    /\ pc[t] = "take" /\ ~IsI2c(t) /\ Free(spi_semphr_handle)
    /\ spi_semphr_handle' = t /\ spi_task_handle' = t /\ current_csn_pin' = op[t].chip
    /\ Goto(t, "start")
    /\ UNCHANGED <<op, notification, i2c, twim, spim, selected, oled_dc_pin, history>>

\* Back in the caller.  oled_send_data goes on with the next part, and stops
\* at the first that fails.
Returns(t, err) ==
    LET o     == op[t]
        sent  == o.sent + IF o.call = "data" THEN TxSize(o.size, o.i) ELSE o.size
        whole == /\ o.whole /\ o.sent = o.i * OLED_SPI_MAX_XFR_BYTES
                 /\ o.n \in IF IsI2c(t) THEN done ELSE taken
    IN  IF o.call = "data" /\ err = "OK" /\ o.i + 1 < Split(o.size)
        THEN /\ transfers' = transfers + 1
             /\ op' = [op EXCEPT ![t] = [o EXCEPT !.i = @ + 1, !.n = transfers', !.sent = sent,
                                                  !.whole = whole]]
             /\ result' = [result EXCEPT ![t] = NoResult]
             /\ Goto(t, "take")
        ELSE /\ op' = [op EXCEPT ![t] = NoOp]
             /\ result' = [result EXCEPT ![t] = [n |-> o.n, err |-> err, crossed |-> o.crossed,
                                                 whole |-> whole /\ sent = o.size]]
             /\ Goto(t, "idle")
             /\ UNCHANGED transfers

TakeTimeout(t) ==
    /\ pc[t] = "take"
    /\ ~Free(IF IsI2c(t) THEN i2c_semphr_handle ELSE spi_semphr_handle)
    /\ Returns(t, "XFR_TIMEOUT")
    /\ UNCHANGED <<notification, i2c, twim, spi, spim, selected, oled_dc_pin, done, taken, fault>>

Shorts_NoRead(call) ==          \* mutant
    IF call = "read" THEN {<<"rx", "stop">>} ELSE {<<"tx", "stop">>}
\* LASTTX_STOP, LASTRX_STOP and LASTTX_STARTRX
Shorts(call) ==
    CASE call = "write" -> {<<"tx", "stop">>}
      [] call = "read"  -> {<<"rx", "stop">>}
      [] OTHER          -> {<<"tx", "startrx">>, <<"rx", "stop">>}

\* A start that finds the peripheral at work may break in or be lost.
StartI2c(t) ==
    /\ pc[t] = "start" /\ IsI2c(t)
    /\ LET shorted == [twim EXCEPT !.shorts = @ \cup Shorts(op[t].call)]
       IN  \/ twim' = [shorted EXCEPT !.xfr = op[t].n, !.call = op[t].call,
                                      !.phase = IF op[t].call = "read" THEN "rx" ELSE "tx"]
           \/ twim.phase \notin {"idle", "held"} /\ twim' = shorted
    /\ Goto(t, "wait")
    /\ UNCHANGED <<op, notification, i2c, spi, spim, selected, oled_dc_pin, history>>

StartSpi(t) ==
    /\ pc[t] = "start" /\ ~IsI2c(t)
    /\ selected' = selected \cup {op[t].chip}
    /\ \/ spim' = [spim EXCEPT !.xfr = op[t].n, !.chip = op[t].chip,
                               !.fits = oled_dc_pin = op[t].call]
       \/ spim.xfr # 0 /\ UNCHANGED spim
    /\ Goto(t, "wait")
    /\ UNCHANGED <<op, notification, i2c, twim, spi, oled_dc_pin, history>>

\* xTaskNotifyWait
Waited(t) ==
    /\ pc[t] = "wait" /\ notification[t] # "none"
    /\ result' = [result EXCEPT ![t] = [@ EXCEPT !.n = op[t].n, !.err = notification[t]]]
    /\ notification' = [notification EXCEPT ![t] = "none"]
    /\ Goto(t, "release")
    /\ UNCHANGED <<op, i2c, twim, spi, spim, selected, oled_dc_pin, transfers, done, taken, fault>>

Deselected(t) == IF IsI2c(t) THEN selected ELSE selected \ {op[t].chip}
LimitReached_Never(t) == FALSE  \* mutant
LimitReached(t) == pc[t] = "wait" /\ notification[t] = "none"

WaitTimeout(t) ==
    /\ LimitReached(t)
    /\ result' = [result EXCEPT ![t] = [@ EXCEPT !.n = op[t].n, !.err = "XFR_TIMEOUT"]]
    /\ selected' = Deselected(t)
    /\ Fault
    /\ Goto(t, "release")
    /\ UNCHANGED <<op, notification, i2c, twim, spi, spim, oled_dc_pin, transfers>>

\* Only i2c_write_and_read_data_arr and the SPI call take the handle back.
ReleaseI2c(t) ==
    /\ pc[t] = "release" /\ IsI2c(t)
    /\ twim' = [twim EXCEPT !.shorts = @ \ Shorts(op[t].call)]
    /\ i2c_task_handle' = IF op[t].call = "write_and_read" THEN NoTask ELSE i2c_task_handle
    /\ i2c_semphr_handle' = NoTask
    /\ Returns(t, result[t].err)
    /\ UNCHANGED <<notification, spi, spim, selected, oled_dc_pin, done, taken, fault>>

ReleaseSpi(t) ==
    /\ pc[t] = "release" /\ ~IsI2c(t)
    /\ spi_task_handle' = NoTask /\ spi_semphr_handle' = NoTask
    /\ Returns(t, result[t].err)
    /\ UNCHANGED <<notification, i2c, twim, current_csn_pin, spim, selected, oled_dc_pin,
                   done, taken, fault>>

----------------------------------------------------------------------------
(* The peripherals.                                                         *)

Moved(p) == p.call = "write" \/ p.phase = "rx"
\* The last byte of a phase; what follows is what the shorts say.
LastByte ==
    /\ twim.phase \in {"tx", "rx"}
    /\ twim' = CASE <<twim.phase, "stop">> \in twim.shorts ->
                        [twim EXCEPT !.xfr = 0, !.phase = "idle", !.stopped = TRUE]
                 [] <<twim.phase, "startrx">> \in twim.shorts -> [twim EXCEPT !.phase = "rx"]
                 [] OTHER -> [twim EXCEPT !.xfr = 0, !.phase = "held"]
    /\ done' = IF Moved(twim) THEN Recorded(done, twim.xfr) ELSE done
    /\ UNCHANGED <<pc, op, notification, i2c, spi, spim, selected, oled_dc_pin,
                   transfers, taken, result, fault>>

NotAcknowledged ==
    /\ twim.phase \in {"tx", "rx"}
    /\ twim' = [twim EXCEPT !.phase = "refused", !.error = TRUE]
    /\ Fault
    /\ UNCHANGED <<pc, op, notification, i2c, spi, spim, selected, oled_dc_pin,
                   transfers, result>>

Stopped ==
    /\ twim.phase = "stopping"
    /\ twim' = [twim EXCEPT !.xfr = 0, !.phase = "idle", !.stopped = TRUE]
    /\ UNCHANGED <<pc, op, notification, i2c, spi, spim, selected, oled_dc_pin, history>>

\* A chip that is not selected does not listen.
SpimEnd ==
    /\ spim.xfr # 0
    /\ spim' = [spim EXCEPT !.xfr = 0, !.end = TRUE]
    /\ done' = IF spim.chip \in selected THEN Recorded(done, spim.xfr) ELSE done
    /\ taken' = IF spim.chip \in selected /\ spim.fits THEN Recorded(taken, spim.xfr) ELSE taken
    /\ UNCHANGED <<pc, op, notification, i2c, twim, spi, selected, oled_dc_pin,
                   transfers, result, fault>>

----------------------------------------------------------------------------
(* The interrupts.                                                          *)

\* SPIM0_SPIS0_TWIM0_TWIS0_SPI0_TWI0_IRQHandler: one event at a time, STOPPED first.
i2c_stopped_event_callback ==
    /\ twim.stopped
    /\ twim' = [twim EXCEPT !.stopped = FALSE]
    /\ notification' = Notified(i2c_task_handle, "OK")
    /\ UNCHANGED <<pc, op, i2c, spi, spim, selected, oled_dc_pin, history>>

i2c_err_callback ==
    /\ twim.error /\ ~twim.stopped
    /\ twim' = [twim EXCEPT !.error = FALSE,
                            !.phase = IF @ = "idle" THEN "idle" ELSE "stopping"]
    /\ notification' = Notified(i2c_task_handle, "NACK")
    /\ UNCHANGED <<pc, op, i2c, spi, spim, selected, oled_dc_pin, history>>

spi_int_handler ==
    /\ spim.end
    /\ spim' = [spim EXCEPT !.end = FALSE]
    /\ selected' = selected \ {current_csn_pin}
    /\ notification' = Notified(spi_task_handle, "OK")
    /\ UNCHANGED <<pc, op, i2c, twim, spi, oled_dc_pin, history>>

----------------------------------------------------------------------------
Call(t) ==
    \/ \E call \in I2cCalls : CallI2c(t, call)
    \/ \E chip \in Chips : \/ CallSpi(t, "cmd", chip, 1)
                           \/ \E size \in Frames : CallSpi(t, "data", chip, size)
Step(t) ==
    \/ TakeI2c(t) \/ TakeSpi(t) \/ TakeTimeout(t)
    \/ StartI2c(t) \/ StartSpi(t)
    \/ Waited(t) \/ WaitTimeout(t)
    \/ ReleaseI2c(t) \/ ReleaseSpi(t)
Peripheral == LastByte \/ NotAcknowledged \/ Stopped \/ SpimEnd
Interrupt == i2c_stopped_event_callback \/ i2c_err_callback \/ spi_int_handler

Next ==
    \/ \E t \in Tasks : Call(t) \/ Step(t)
    \/ Peripheral
    \/ Interrupt

Spec == Init /\ [][Next]_vars
FairSpec == Spec /\ \A t \in Tasks : WF_vars(Step(t))
----------------------------------------------------------------------------
(* The properties.  After a fault the stop of the transfer that failed can *)
(* notify a later call of the same task, or of another, on either bus; the *)
(* README shows how.                                                       *)

\* A call that returns nrf_OK has moved its bytes: no interrupt of another
\* transfer, of another task or of the other bus has ended its wait
\* (i2c_write_data_arr, i2c_read_data_arr, i2c_write_and_read_data_arr,
\* spi_poll_xfr_thread_safe), as long as there has been no fault.
OkMeansTransferred ==
    \A t \in Tasks : result[t].err = "OK" /\ ~fault => result[t].n \in done

\* A peripheral moves bytes only while the call whose buffers they are has not
\* returned: the buffers are on the caller's stack (read_reg, write_reg).
BuffersAlive ==
    ~fault => \A p \in {twim, spim} :
        p.xfr # 0 => \E t \in Tasks : op[t].n = p.xfr /\ pc[t] = "wait"

\* An image whose last part was sent has reached the display whole, and every
\* byte of it as image: every part selected, in its place, with its length and
\* under the right level of the pin (oled_send_data, and oled_send_cmd of a
\* command), as long as there has been no fault and no other task has called
\* the driver with the other kind of bytes while the call ran.
FrameWhole ==
    \A t \in Tasks :
        pc[t] = "idle" /\ result[t].err = "OK" /\ ~fault /\ ~result[t].crossed
        => result[t].whole

\* Every call returns, whatever the devices, the interrupts and the other
\* callers do: both waits have a time limit.
CallsReturn == \A t \in Tasks : pc[t] # "idle" ~> pc[t] = "idle"
=============================================================================
