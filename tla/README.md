# Verification of watchx

watchx is the firmware of a smart watch: an nRF52832 with Nordic's SoftDevice,
FreeRTOS, and a display, buttons and accelerometer on SPI and I2C.  It pairs
with a phone, keeps the bonds in flash, and follows the phone's notifications
and media player.  This directory holds TLA+ models of its concurrent core, the
TLC configurations that check them, and proofs for TLAPS.

Paths below are relative to `src/src/` of the repository.

## The system

Three tasks and the interrupts share the processor:

| who | priority | does |
|---|---|---|
| SoftDevice task (`libs/components/ble/ble_stack_init`) | 7 | fetches SoC and BLE events in order and calls the handlers of every library |
| kernel task (`main/kernel_task.c`) | 6 | sets a BLE session up and down, command by command |
| general task (`main/main.c`) | 5 | polls the buttons, starts and stops advertising, draws |
| interrupts | | buttons, accelerometer, I2C, SPI, UART, RTC |

A blocking call everywhere has the same form: take the library's mutex, store
the calling task's handle in a global, start an operation, wait for a task
notification with a timeout, clear the handle, give the mutex.  A handler or
interrupt notifies the task the global names.  FreeRTOS gives each task one
notification slot, which all the libraries share.  What can go wrong is in this
form: an answer that comes after its timeout, a return that skips one of the
last two steps, a check made before the mutex, and a buffer that dies while an
operation still uses it.

### Inventory

| component | state | operations | speaks to | hard | correct when |
|---|---|---|---|---|---|
| NVS store, `libs/nrf_HAL/nvs` | flash page 127, `nvs_mutex_handle`, `nvs_task_handle` | add, read, delete, modify, erase, pointer, size, count | SoftDevice flash driver, SoC events | two tasks, late SoC event, flash error, power loss between erase and write | a stored record is there until somebody removes it; uids are unique |
| GATT client, `ble_gatt_client` | `client_struct`, `client_buff`, `client_taskhandle`, mutex | init, deinit, 8 procedures, event handler | SoftDevice, the phone | late answers, refused starts, one buffer for all | a call gets the answer to its own procedure; the mutex comes back |
| kernel task, `main/kernel_task.c` | `kernel_cmd_q`, the session | commands connected, disconnected, notification, indication | every BLE library | commands of an older connection, a full queue | every connection is set up, every disconnection torn down |
| pairing and bonds, `ble_gap` | `gap_inst`, `ble_gap_taskhandle`, keys, the event pointer | security init, delete bonds, event handler | NVS, SoftDevice | events overwritten in the slot, out of order, unasked; pointers into the event buffer | paired means stored; the peer's keys are found |
| advertising, `ble_gap_advertise.c` | `ble_advertisement_State` | start, stop, timeouts | SoftDevice, buttons | two tasks assign the state | the state says whether the watch advertises |
| AMS, ANCS, `ble_ams`, `ble_ancs` | handles of the phone's services, supported commands, the pool of names, the list of notifications | init, deinit, event handlers, commands | GATT client, memory managers | values before init, during the tear-down and in bursts; full memory | what is stored is what the phone sent last |
| queue, memory pool, linked list, `kernel/memory_manager` | arrays and indexes, a mutex each | add, remove, read, modify | ANCS, AMS, the tests | checks outside the mutex, wrap-around, full and empty | they behave like a deque, a map, a list |
| thread-safe I2C and SPI, `nrf_HAL/i2c`, `spi` | mutex, task handle, the peripheral | write, read, transfer, interrupt callbacks | display, accelerometer | the wait shorter than the transfer, devices that do not answer | a call returns the result of its own transfer |
| UART logger, `nrf_HAL/uart/logger.c` | transmit ring, DMA | transmit, interrupt | every task | the interrupt runs between two steps of a task; overrun during a transfer | bytes leave in order, once; the newest are kept |
| kernel time, `kernel/time_manager` | a calendar | the RTC interrupt, get, set | nobody yet | carries | the next second follows |
| GATT server, peer information | handle tables, a few values of the phone | init, event handler | SoftDevice | little | it answers every request |
| buttons, accelerometer | event queues | interrupts, polling | general task | a queue of one that is overwritten | the last event is kept |
| drivers, graphics, start-up | registers, a frame | register access, drawing | hardware | | as the data sheet says |

`PROJECT.json` lists the components one by one with what is modelled of each,
and the hazards with the line where each bites.

## Modules

    NvsPage --- Nvs --- MCNvs            KVStore   the abstract store
                 \----- NvsProofs
    GattTable - GattClient --- MCGattClient
         \             \------ GattProofs
          \--- Kernel --- MCKernel
                  \----- KernelProofs
    Pairing --- PairingProofs
    KernelMem ------ Apple --- AppleProofs
    KernelLinkList --/
    Bus --- BusProofs
    Logger --- LoggerProofs
    KernelQueue --- KernelLibProofs      Deque     the abstract queue
    KernelTime --/                       Clock     the abstract clock

* **NvsPage** is the flash page as the loops of `nvs.c` see it: records, and
  what stands where the scan stops.  Its helpers have the names of the code's.
  An interrupted write leaves one of the pages `Interrupted` names (cut inside a
  record or after its first word; over a torn header, also after the one word
  that spoils the record before it), one whose buffer changed under it one of
  `Garbled`.
* **Nvs** is the store.  `pc[t]` is the place of task t in its call: at the
  mutex, building `arr_data`, between setting the handle and starting the
  operation, waiting.  `flash` is the SoftDevice's operation, `soc` the events
  not yet fetched, `notify` the notification slots.  `usage` is the way the
  tasks use the store, chosen once.  `promised` is history: for every uid the
  payload a caller was last told is stored; `result` is what each call returned.
* **KVStore** is what `nvs.h` promises: one uid changes per step, and what a
  call returns is true of the store (`IsTrue`).  `Nvs` implements it; during a
  rewrite the mapped store is `arr_data`, since the page is erased before it is
  written back.  It allows for one false answer: the checks before the mutex see
  the erased page, so while a rewrite goes on (`rewriting`) a stored uid may be
  called absent; without that exception StoreSpec fails in NvsTasks.
* **GattTable** is `client_struct` and its search loop; **GattClient** the
  client: one `FindClient`, `StartProcedure`, `Answer` and `Copy` stand for the
  corresponding parts of the ten functions, which differ in whether they fill
  `client_buff` before they start, whether they look at the SoftDevice's answer,
  what the event handler copies and what they copy back.  The `of` fields are
  history: for whom a procedure was started; `late` counts the calls made since
  a wait ended before its answer.
* **Kernel** is the session: events, the callbacks of the SoftDevice task, the
  command queue, the steps of `ble_funcs_init` and `ble_funcs_deinit`, and
  advertising.  It shares `GattTable` with GattClient; a GATT call counts there
  for the time it takes and for what it does to the client's mutex.
* **Pairing** is `ble_gap_security_init` against the events of the peer: one
  label of `pc` per wait, `notify` the kernel task's slot, `evt_buffer` the stack
  buffer of the SoftDevice task that `ble_gap_Evt` points into.  The store is a
  sequence of bonds; its flash operations end in one step and notify through the
  same slot.  A second task may be in `ble_gap_delete_bonds`, whose wait for the
  erase may run out: it then gives the mutex with the erase in progress.
  `undercut` records that an erase nobody waits for any more ended between a count
  of the bonds and the use of that count.
* **KernelMem** and **KernelLinkList** are operators on a pool and a list, one
  per function of the code.  **Apple** composes them with the two clients: the
  kernel task's `pc` runs through the steps of `ble_ams_init`, `ble_ancs_init`
  and their counterparts, the peer's values are handled between any two of them.
  A pool is `overrun`, for good, once a block was written that reaches its end.
* **Bus** is both serial buses with the peripherals: a transfer has a number,
  `op` says what each task asked for, `twim` and `spim` what the hardware does,
  with the shortcuts the driver programmed.  The display driver's split of an
  image is part of it, since a frame is many transfers, and so is the pin that
  tells the display data from commands, which a call sets before it asks for the
  bus.
* **Logger** is the transmit ring: one action for each stretch of
  `logger_transmit_bytes` the interrupt can fall between, and the interrupt.
* **KernelQueue** is the circular buffer, each call in three steps: its checks,
  the mutex, and what is done under it.  It implements **Deque** until one of
  two things in `hist` happens.
* **KernelTime** is the calendar of the RTC interrupt; it implements **Clock**,
  through the reference `DayNumber` of the Gregorian calendar.
* **MC...** give the constants values; operators named `..._<Bug>` beside a
  definition are mutated forms of it, used to see that the properties notice.

### Choices of atomicity and abstraction

NVS.  A uid check and the start of its call are one step, since nothing can be
seen between them; the mutex comes in a later step, which is the point.  The
last location is computed in the step that calls `sd_flash_write`, both being
under the mutex.  The end of a call (clear the handle, give the mutex, return)
is one step.  The SoftDevice is busy only while an operation is in progress, and
delivers SoC events in order.  `fault` is a task whose copy ran over its stack:
undefined behaviour, after which the model lets it do nothing.  A LEN word that
is garbled counts as `"blocked"`.  Not modelled: a page that is full to the last
word, where the scan reads beyond it (the sizes of the runs exclude it), and the
functions that only count.

GATT.  The SoftDevice runs one procedure and one write command per connection.
Error codes become success, absent or error.  HVX and TIMEOUT events only call
callbacks and belong to Kernel.  An answer may take longer than the 1000 ms of
`xTaskNotifyWait`, since the phone has 30 s by the standard; the properties say
what holds until that has happened, and the mutex and the return of every call
do not depend on it.

Kernel.  Each stage of a set-up is one call whose outcome does not matter, as
the code asserts the result and goes on.  Three constants name situations: a full
bond store (`BondsFull`), a peer that reconnects before the old session is torn
down (`EagerPeer`), a general task that is overtaken between the SoftDevice's
advertising call and its own assignment (not `PromptTask`).  Values and timeouts
come in any order; `mutex_lost` is the client's mutex kept by a call that has
returned.  The handle is always
the same: the firmware supports one connection, and the SoftDevice reuses it.

Pairing.  A key stands for everything one pairing produces.  The peer may refuse
the request, begin before it is asked, fail at any point, or disconnect; any
other event may be fetched over the one whose pointer is kept.  `hist` records
what happened since the connection was made; the properties name the entries
that excuse them, each a defect of the table below.

Apple.  The pool's data is its length, a notification its uid and version.  The
numeric attributes and the player's state, which are parsed into fields, are
left out.  A GATT call counts for what it achieves at the peer; the request for a
notification's attributes may fail.  What is written past the end of the pool
lands on other variables, so of an overrun pool, and of everything else from
then on, nothing is claimed.

Bus.  An interrupt is one step.  A peripheral that is started while it works may
break in or be lost.  A device fails by not acknowledging; a wait may run out
whenever the task waits.  Bytes are not told apart: a phase moves all of its
bytes in one step.  The pin is read when a transfer starts and while it moves.

Logger.  One task writes.  The interrupt preempts it, so an action of the task
needs that no interrupt is due.  Bytes are numbered in the order of acceptance.

KernelQueue.  Its use is one sender and one receiver.  Counting is in nodes, and
`IndexLimit` is where a `uint16_t` wraps.  Lowering `back_index` below zero wraps
it (`"below"` in `hist`), after which the memory outside the queue is read
(`Foreign`) or the loop of a removal does not end (`Endless`).  A reset gives the
mutex whoever holds it (`"given"` if another task does).

KernelTime.  Incrementing, comparing and resetting a field is one operator per
field.  A read or a change from a task is not modelled: the firmware has none.

## Runs

| run | states | shows |
|---|---|---|
| NvsTasks | 35,308 | one writer of everything beside a reader, or two rewriters: promises kept, KVStore with its answers implemented, every call returns |
| NvsDeployed | 1,389,576 | the firmware's use (`ble_gap.c` 605-734, `ble_gap_advertise.c` 170-177, `kernel_task.c` 149) with one flash error, one expired wait, one power loss |
| NvsDuplicateUid | counterexample | add's uid check beside a rewrite |
| GattSession | 531,593 | every kind of procedure, two tasks, two connections after each other, answers in time and late |
| KernelSessions | 419,774 | three sessions, values and timeouts in any order, queue and bond store full |
| KernelEagerPeer | counterexample | a fast reconnect is torn down |
| Pairing | 2,278,441 | three connections, three pairings, a deletion of the bonds that may give up before its erase ends, a flash error, every wait expiring |
| Apple | 753,951 | three connections, three values, requests that fail, names that fit the pool or run over its end, a list shorter than the notifications |
| Bus | 752,335 | two tasks, both buses, failing devices and waits that run out, images of two and three parts with commands between them; every call returns |
| Logger | 127,137 | twenty bytes through a ring of six, with transfers that may take all of it |
| KernelQueue | 3,010,632 | every operation on a queue of three, with resets and deletions, wrapped indices included |
| KernelTime | 1,744,416 | every second from five years' dates to the end of 2099 |

**Bounds.**  Two tasks are all that use NVS and GATT in the firmware.  Two uids
make every interaction of one record with another; payloads of one and two words
make a record grow, with the real metadata of 5 words.  The page has 19 words, room
for a third record, so that a duplicate would fit, and 15 in NvsDeployed, which two
records and the remains of a torn one overflow.  One error, one expired wait and one power loss are
enough for each to fall between any two steps of any calls, and one behaviour has
all three.  In GATT two events fill the SoftDevice's queue while the task handles
one, the usage repeats without a bound while answers are in time, and `MaxLate = 2` calls
follow a late one: the call it meets and the one after.  In Kernel a third
connection comes after a session that ended in any way; the queue is 2 instead
of 10, so that the three values fill it.  With the real length only the number
of values needed grows: 12 values show the same drop at length 10.

In Pairing two bonds fill the store, the third connection finds it full or
partly deleted, and one deletion and one error fall anywhere.  In Apple the pool
has its real 256 bytes and the names are 115 and 130 long: two short ones fit,
two long ones do not; three uids overflow a list of two, whose first and last
node are removed (of longer lists the proof speaks); a third connection comes
after a session whose notifications did damage.  In Bus three transfers are the one that fails, the one it
disturbs, and one after; 510 and 512 bytes end on and past a part of 255.  What
the calls asked for and got is kept until the first fault, where the properties
that read it end; the code goes on, and must still return.  In Logger a
ring of six bytes and transfers of up to eight keep the order of the real sizes,
20 (`config/sys_config.h` 75) and 255, so that one transfer can be the whole
ring; twenty bytes go round it three times.  A queue of three has a
first, a middle and a last node at every rotation.  In KernelTime the limits of
the time of day are small (24 seconds a day), the dates are all the real ones; the years
include the century 2000, 1901 and 2099.

**Fairness.**  Weak fairness of each task's steps: FreeRTOS runs the ready task
of highest priority, and each of these blocks, with a timeout, until it is done.
Weak fairness of the SoftDevice task: it has the highest priority and loops until
the events are fetched.  Weak fairness of a flash operation's end: the SoftDevice
always reports one.  In Apple only the kernel task is fair, in Bus only the steps of
each call, whose waits can expire; in Logger the writer, the UART and its
interrupt, which has no peer to wait for.  Nothing is assumed of the phone, except that a connection
the watch closes does close (the SoftDevice's supervision timeout).  No fairness
is assumed of buttons, errors, devices or power.

### What the properties are about

* `MutualExclusion`, `HandleOwner`: the common form above is
  followed on every path, and a late event finds no handle to misuse.
* `SourceAlive`, `NoStaleAnswer` (NVS), `OwnAnswer`, `OwnData` (GATT),
  `OkMeansTransferred`, `BuffersAlive` (Bus): answers
  and buffers belong to the call that waits.  They are stated until a wait
  expires; after that they are false, see below.
* `UniqueUids`, `BufferFits`: the copy loops of delete and modify rely on at most
  one record per uid; with two, the copy is shorter than its buffer, and with
  none longer.
* `PromisesKept`, `StoreSpec`, `LossOnlyOverTornHeader`: data, and the answers
  about it.
* `SessionReady`, `SessionGone`, `ConnectionServed`, `DisconnectionHandled`: a
  session is complete or absent once its commands are done, whatever arrived in
  between, and it gets there.
* `ClientMutexKept`: the leak of `IS_CLIENT_INITED` is reached by a notification
  carried out after a timeout's tear-down, and by nothing else.
* `AdvertisementStateTrue`: two tasks write the variable that decides whether
  the buttons work.
* `OkMeansEncrypted`, `BondAgreement`, `BondUidsContiguous`, `KeyFitsRequest`,
  `BondedPeerFound`: what a pairing returned, what the watch stored and what the
  peer keeps agree, and the next connection finds it.
* `NamesAreThePeers`, `ListHoldsNotifications`, `CommandSupported`,
  `LastNotificationFetched`: the containers hold what the peer sent, through
  set-ups, tear-downs and full memory.
* `FrameWhole`: the arithmetic of the display's parts, over many transfers, and
  the pin, which a second user of the display may move between two of them.
* `HoldsNewest`, `SentInOrder`, `EveryByteSent`: the ring loses only the oldest
  bytes, and the last byte always leaves.
* `DequeUntilBroken`, `CountersAgree`, `ClockSpec`: refinements and what they rest on.
* `CallReturns`, `CallsReturn`, `SecurityInitReturns`: no call blocks for ever.

## Where the code does not do what it says

The two violating runs are findings of `PROJECT.json`.  The models reproduce
further ones; each is seen by changing a constant of a run, or by dropping the
exception a property names:

| where | violated | the code |
|---|---|---|
| NvsTasks, a read longer than the record | none | `nvs.c` 348 returns without giving the mutex: it stays with a task that is in no call, and every later call gives up waiting for it |
| NvsTasks, `IsTrue` without `rewriting` | `StoreSpec` | reads, deletions, changes and `nvs_get_data_pointer` look the uid up before they take the mutex (709, 736, 757): while another task has the page erased, a stored uid is called absent |
| NvsTasks, `MaxError = 1` | `PromisesKept` | delete and modify end in `return nrf_OK` (474, 588) |
| NvsTasks, `PageWords = 13` | `PromisesKept` | the page is erased (547) before the write (563) of the record that grew is refused |
| NvsTasks, `MaxTimeout = 1` | `PromisesKept` | the old operation's event (770) answers the next call |
| GattSession, without `late` | `OwnAnswer`, `OwnData` | an answer that outlived its wait wakes the next call; `gatt_client_char_read` (666) ignores that the SoftDevice refused it, waits, and returns another procedure's data |
| KernelSessions, without `~mutex_lost` | `SessionReady`, `SessionGone` | a notification command carried out after the session (`ble_ancs.c` 476) reaches `IS_CLIENT_INITED` (`ble_gatt_client.c` 13), which keeps the mutex: no later session is set up |
| KernelSessions, without `~lost` | `SessionGone` | `kernel_send_cmd` drops the command (72); `ble_gap_security_init` returns nrf_OK without a bond (613) |
| KernelSessions, `PromptTask = FALSE` | `AdvertisementStateTrue` | `ble_gap_advertise.c` 195 assigns after the event handler did |
| Pairing, `OkMeansEncrypted` | its exceptions | nrf_OK is returned when the peer refuses, and when a value left from an earlier call is taken for the first answer; a request that comes unasked is dropped, `ble_gap_taskhandle` being NULL |
| Pairing, `BondAgreement` | its exceptions | a value put over the one before (`ble_gap_event_handler.c` 65) loses it; a full store returns nrf_OK |
| Pairing, without `~undercut` | `BondUidsContiguous`, `BondedPeerFound`, `KeyFitsRequest` | `nvs_erase_page` gives up while the erase runs (`nvs.c` 74-79) and `ble_gap_delete_bonds` gives the mutex (`ble_gap.c` 734-737): a pairing counts the bonds that are about to go, stores its own as number two, and after the erase it stands alone, where the scan does not look |
| Pairing, `BondedPeerFound` | its exception | the next event is fetched into the buffer `ble_gap_Evt` points into (642): the bond is "not found" |
| Apple, `NamesAreThePeers` | its exceptions | the pool (`config/ble_config.h` 186) holds two names of 121 bytes: an add leaves 7 bytes out of its check (`kernel_mem_manager.c` 69, 110), a change has no check (541), and both write on past the end of the pool (`overrun`) |
| Apple, `ListHoldsNotifications` | its exceptions | a notification that comes during `ble_ancs_init` (134-143) walks a cleared list out of its memory, damage that later sessions keep, or is reset with it; the counter goes on when the list is full |
| Apple, `LastNotificationFetched` | a second uid before the command | one uid is kept for all (`ble_ancs.c` 533), although `README.md` 2 has the watch show notifications |
| Apple, `LastNotificationFetched` without `"failed"` | | the write that asks for the attributes may be refused or time out (`ble_ancs.c` 476-479); `kernel_task.c` 288 ignores it and nothing asks again |
| Apple, deinit of a session without security | an assertion | `ble_ams_deinit` calls `kernel_mem_deinit`, whose mutex is NULL before the first init |
| Bus, `OkMeansTransferred` after a fault | | the STOPPED interrupt of a failed transfer writes nrf_OK over its error, or ends a later wait of the same task on either bus: write and read leave `i2c_task_handle` set |
| Bus, `BuffersAlive` after a fault | | a transfer whose wait ran out goes on in the caller's stack, and its END raises the chip select of the next |
| Bus, without `~crossed` | `FrameWhole` | the driver sets the data/command pin (`nrf_oled_driver.c` 46, 66) before it has the bus: a command of another task between two parts of an image, or before the first starts, has the rest taken for commands, every call returning nrf_OK |
| Logger, `misflagged` | `HoldsNewest`, `SentInOrder` | an interrupt between the copy and the flag (328-331) makes a buffer full that is not: stale bytes are sent |
| Logger, `overrun` | `SentInOrder` | a stop forgets what was already sent (208-227): those bytes are sent again; an overrun that ends at the end of the buffer has all of it sent by one transfer and then again (357-377) |
| KernelQueue, two senders | `CountersAgree` | both pass the check for room (119-124) and the second overruns |
| KernelQueue, without `hist` | `CountersAgree`, `DequeUntilBroken` | `back_index` wraps below zero (246, 352) when an element sent to the front of a new queue is received or removed from the back; a removal then copies without an end (337-342) |
| KernelQueue, without `hist` | `DequeUntilBroken` | `kernel_q_reset` gives the mutex whoever holds it (75): two calls run at once; and it clears the data but keeps the indices, so the elements are still there, blank |

The properties of the passing runs say under which conditions these do not
happen, and the conditions are constants, history variables or exceptions in the
property, never missing behaviour.

Reading the code for the models showed more, which no run shows:

* `ble_ancs.c`: `ble_ancs_instance_inited` is never set, so the getters and
  `ble_ancs_perform_notif_Action` always refuse; the attribute handles found in
  one session survive into the next.
* `ble_gap_advertise.c`: the arrays for fast pairing are filled from index 1.
* `adxl345_lib.c`: a register read returns 0 when the transfer fails, and the
  errors of writes are dropped.  `nrf_accelrometer.c` 281-288 calls the blocking
  I2C from an interrupt, its switch drops sources that occur together, and its
  pause enables the interrupt (252); the firmware's calls of it are commented out.
* `nrf_oled_driver.c`: the number of parts is a byte, too small for more than
  65,025 bytes; `nrf_gfx.c` passes the column as the page.
* `logger.c`: a message as long as the buffer is refused, although
  `config/sys_config.h` 75 speaks of a 500 byte buffer; tasks write without a
  lock; nothing starts the reception, which would copy nothing (563).
* `kernel_time.c` copies its structures while the interrupt may change them: a
  reader would see 23:00:00 for 23:59:59, and a date set field by field could be
  carried over half-way.  A prescaler of 327 and a compare value of 100 make a second
  of 1.001 s, a minute and a half lost per day.
* `nrf_button.c` deletes its queue before it disables the interrupts.

## Proofs

All for any number of tasks, uids, connections, entries, nodes and dates, and any
usage and any bounds on the environment but where a hypothesis is named.

* **NvsProofs.**  `LockInv` (types of the three lock variables, `MutualExclusion`,
  `HandleOwner`) is inductive; neither property is so alone, since a task that
  returns through `nvs_read_raw_data` gives the mutex without clearing the
  handle, and only knowing that the handle is the owner's, and set between
  `SetHandle` and `return_mech` alone, shows it is clear then.  Hence theorems
  `MutexWorks` and `HandlerNotifiesOwner`, through late events, errors and power
  losses.  `ChainInv` says where the chain operation, event, notification stands:
  at most one link, for the task the handle names, which waits.  It is inductive
  until a wait expires (`AnswerInd`), whence `SourceStaysAlive` and
  `AnswersMatch`.
  The theorems about the data rest on these and on what the recursive functions
  of `NvsPage` compute for every page, which follows from their definitions by
  the least index at which it would fail (`LeastElement`, `Recursion`).
  `DataInv` follows a call that changes the page: until the erase `arr_data` is the
  page but for one uid, after it `arr_data` is all that is left.
  `UidsStayUnique`, `CopiesFit`, `PromisesAreKept` and `StoreImplemented` follow
  in an `OrderlyUse`, which the module defines from three conditions: no failures
  (`FailureFree`), overlapping changes only to different uids by delete and modify
  (`WritersApart`), and a page with room for every uid (`PageSuffices`).  Without
  any of the three they are false
  (`NvsDuplicateUid`, and the table above); NvsTasks is such a use.
  `StoreImplemented` speaks of the answers too: what a call returns is true of
  the map when it returns, with the false absence the table names allowed while
  a rewrite goes on and at no other time.
  `SurviveInv` is about any number of errors and power losses: on a page whose
  scan does not end on a foreign word every promise is on the page, since an
  interrupted write only appends, and only a record of a uid its add found absent, or of
  none.  The one step that spoils what was stored is the first word an add writes
  over a torn header, whether or not the power lasts for the others.
  `LossNeedsTornHeader` follows in a `DeployedUse` (`NoRewrites` and `WritersApart`),
  the firmware's: no rewrites, and one task that adds and erases.
* **GattProofs.**  The same two facts for the client's mutex and handle, whatever
  answers do: `ClientMutexWorks`, `HandlerNotifiesRunner`.  `LateInv` says that until a
  wait ends before its answer everything outstanding was started by
  the call that now runs, so what wakes it is its own: `AnswersReachTheirCall`.
  `DataInv` adds where the bytes are: while nothing is late, what stands in
  `client_buff` and what the answer will put there belong to the call that runs,
  so `ReadsReturnTheirData`.
* **KernelProofs.**  `ButtonsKeepWorking`: under `PromptTask`,
  `AdvertisementStateTrue`.  Two tasks assign the variable, so the invariant says
  who owes it the next assignment (`AdvOwed`): the general task between the
  SoftDevice's call and its own assignment, or the SoftDevice task while an event
  that ends the advertisement is queued or being handled (`Pending`), never both;
  and there is at most one such event (`OnlyOneEnd`), since only an advertisement
  in progress ends.
  `SessionInv` follows a command on its way from the event through the queue to
  the kernel task: "connected" is in front of everything, nothing of a session
  comes behind its end, and what the stages of a set-up have done so far is what
  stands.  Hence `SessionReadyHolds`, `SessionGoneHolds` and
  `ClientMutexKeptHolds`, under the `SessionLimits` the module defines: the one
  connection and one GATT client the firmware has (`FirmwareLimits`), and a peer
  that does not reconnect before the tear-down (`PatientPeer`), with which the
  first two are false.  Values and timeouts come in any order; the third says
  what it takes for them to cost the client its mutex.
* **PairingProofs.**  `PairingInv` has seven layers, each inductive with those
  before it.  `BondInv`: the uids are 1 .. n, also during a write or a deletion,
  as the store changes only at its ends, unless `undercut`; that an erase whose
  wait has expired still runs is part of it, and whoever counts meanwhile is
  recorded when it ends.  `OkInv`: while nothing is in `hist`
  that excuses it, the notification slot tells what the connection is.  `InStep`:
  which step of the pairing goes with which place of the kernel task.
  `KeysKnown`: whose key every bond, buffer and request holds.  `RequestInv` and
  `KeysReal`: the request in the reused buffer is the connected peer's until an
  event is recorded that overwrites it.  `ReplyFits`: the bond the scan found
  is still the one asked for when its key is given.  From them the three invariants of the
  run, and its two action properties `KeyFitsRequest` and `BondedPeerFound`.
* **BusProofs.**  `BusInv`: there has been a fault, or each bus is in a state
  its mutex explains.  With no owner it is quiet; while the owner waits, its
  transfer moves, has ended with the interrupt to come, or the owner has been
  told.  That the two buses notify through one slot per task makes the invariant one:
  a task waits on one bus only, so a notification pending for it is of that bus.
  `OkTransfers` and `BuffersKept` follow.
  `FrameInv` counts the parts of an image that are sent; `SplitCovers`, the
  arithmetic of a division with remainder, says the last one ends where the image
  ends; the pin stands as the call set it (`PinsInPlace`) as long as no other
  task has called the driver with the other kind of bytes, which `crossed` records.
  `FramesSentWhole` needs `FramesFit`, defined there, that the number of parts is a
  byte: the images of `nrf_gfx.c` fill at most the display's 1024 bytes.
* **LoggerProofs.**  `LoggerInv`: byte p of the ring is number `Lap` + p + 1 in
  front of head and N less behind it (`InPlace`), whatever happens to the flags;
  until a flag is made wrong, the conditions of `logger_transmit_bytes` say
  exactly when there is no room (`OverflowsIs`, `Room`), and what is no longer in
  the ring has been sent or dropped (`Accounted`).  It must say what a transfer
  of the whole ring leaves behind: it is started over when it ends, so `Sent`
  counts its bytes only once the ring is full again.  Hence `NewestAreHeld` and
  `BytesStayInOrder` for a ring longer or shorter than a transfer, wherever the
  interrupt falls but between a copy and its flag (`logger.c` 326-331), which
  `misflagged` records.  No invariant
  mentions the remainder of a division; `ModWraps` takes it out once.
* **AppleProofs.**  `Session` says who is where: at most one session is being set
  up or torn down, and what a client has of it goes with the kernel task's place
  (`OneSession`, `MediaSession`).  With it a command can only be
  pending of the connection that announced it: `OnlySupportedCommands`.
  `NamesInv`, that the pool is one block per name with the books of its bytes
  (`PoolIs`), is inductive once it is stated from the pool's
  initialisation on rather than from `inited`, where `NamesAreThePeers` begins:
  a name may come in between.  Hence `PoolHoldsNames`, the lemmas of the pool's calls
  being about any pool that `PoolIs` describes.  The theorems of this module end
  where the pool is overrun, since that damages other variables; `ShortNamesFit`
  says when it cannot be: if two names of any length that comes, with the
  7 bytes of each, stay below the size of the pool (`ShortNames`, defined there).
  `ListInv`: as long as nothing in `hist` excuses it, the list's memory is a
  chain of distinct nodes with every other node free (`Chain`), and they hold the
  peer's notifications, one each (`Holds`).  The walks of `kernel_link_list.c`
  follow the links a number of times, so what they reach on a chain is
  shown by counting up from the head (`Upwards`), and what adding, removing the first
  and removing a later node make of it is a chain again.  `ListFollowsPeer`
  follows for a list of any length.  The proof corrected the property:
  a walk that left the memory leaves its traces to the next session, where nothing
  of `hist` excused them; now "wild" does, and the run has the third
  connection that shows it.
* **KernelLibProofs, the queue.**  Until something is in `hist`, `QueueInv`: the
  counters match (`CountersMatch`), a task under the mutex has it (`MutexHeld`), and
  for every task that has passed its checks they still hold (`ChecksHold`): a sender's room can only grow
  and a receiver's elements can only stay, since the other side does the opposite.
  That is why one sender and one receiver are safe and two senders are not.
  Then `QueueIsDeque`: each operation's effect on the elements is a lemma over
  `Wrap`, the removal in three cases (below the wrap, above it, across it).
* **KernelLibProofs, the time.**  `TimeInv`, a date that exists with its weekday, is
  inductive; `NextDateIsNextDay` compares the code's tables with the reference in
  the cases within a month, from month to month and from year to year, using
  that from 1901 to 2099 every fourth year is a leap year (`LeapYears`).  With
  `NextTimeIsNextSecond`, `CalendarIsClock`.

Assumed: the `ASSUME`s on constants in the modules (null values are not tasks,
uids or handles; bounds are naturals), which TLC evaluates in the runs.

Every safety property of the passing runs has a theorem.  Only model-checked, and
out of the prover's reach, are the liveness properties: `CallReturns`,
`CallsReturn`, `ConnectionServed`, `DisconnectionHandled`, `SecurityInitReturns`,
`EveryByteSent`, `LastNotificationFetched`.

## Not modelled

* **GATT server**: it answers each request in its handler, and no task waits.
  **Peer information** is part of Kernel as far as its set-up, tear-down and GATT
  calls go; its handlers and getters only copy what was read.
* **Buttons**: three interrupts that overwrite a queue of one element, which a
  task polls.  Kernel takes any press at any moment instead.
* **Accelerometer events**: its calls are commented out in `main.c`.
* **Peripheral drivers** (GPIO, GPIOTE, PPI, timers, ADC, PWM, RNG, watchdog,
  the polling halves of I2C and SPI): register accesses without a state of their
  own, and most of them unused.  **Graphics and fonts**: drawing into an array.
* **Start-up, C library support**: vendor code.  **`app_scheduler.c`** and
  **`nvs_ota.c`** are commented out.

A third of the lines of the implementation, `config/sdk_config.h`
with its 12,644, are Nordic's options, and of the rest much is fonts,
register definitions, and code that is commented out or that nothing calls.
The models cover nearly all of what runs concurrently.
