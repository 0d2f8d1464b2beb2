-------------------------------- MODULE Nvs --------------------------------
(***************************************************************************)
(* The key-value store of src/src/libs/nrf_HAL/nvs/nvs.c: FreeRTOS tasks   *)
(* call it, the SoftDevice carries out its flash operations, and the       *)
(* SoftDevice task answers through nrf_soc_event_handler.                  *)
(*                                                                         *)
(* A call runs through the labels of pc[t].  The mutex is held from        *)
(* TakeMutex on; nvs_task_handle names the task the next SoC event is      *)
(* passed to; notify[t] is the single FreeRTOS notification slot of t.     *)
(* budget bounds what the environment may do: flash errors, expired waits, *)
(* power losses.                                                           *)
(***************************************************************************)
EXTENDS NvsPage, FiniteSets

CONSTANTS
    Task,           \* the tasks that call the store
    NoTask,         \* NULL, and the owner of a free mutex
    Usages,         \* ways to use the store: the calls each task may make
    MaxError, MaxTimeout, MaxPower, \* bounds on the environment
    NoVal,          \* no payload was promised
    StoredBefore    \* the records an earlier boot left in the page

ASSUME NvsAssumption ==
    /\ NoTask \notin Task
    /\ NoVal \notin Val \cup {Torn}
    /\ {MaxError, MaxTimeout, MaxPower} \subseteq Nat
    /\ Usages \subseteq [Task -> SUBSET [op : {"add", "read", "delete", "modify",
           "erase", "pointer"}, uid : Uid, n : Sizes, val : Val]]
    /\ StoredBefore \in Seq([uid : Uid, n : Sizes, val : Val])

VARIABLES
    usage,              \* the one of Usages the firmware is built with
    page,               \* flash page 127
    nvs_init,
    mutex,              \* owner of nvs_mutex_handle
    nvs_task_handle,
    flash,              \* the SoftDevice's flash operation in progress
    soc,                \* SoC events the SoftDevice task has not fetched yet
    notify,             \* "none", or the value of a pending notification
    pc, req, arr_data,  \* the call of each task and its buffer on the stack
    result,             \* what the last call of each task returned, and read
    promised,           \* per uid, the payload the callers were told is stored
    budget

vars == <<usage, page, nvs_init, mutex, nvs_task_handle, flash, soc, notify, pc, req,
          arr_data, result, promised, budget>>

Op == {"add", "read", "delete", "modify", "erase", "pointer"}
Request == [op : Op, uid : Uid, n : Sizes, val : Val]
Rewrites == {"delete", "modify"}
Labels == {"idle", "take", "build", "handle", "erase", "erase_wait", "write",
           "write_wait", "copy", "lookup", "fault"}
Waiting == {"erase_wait", "write_wait"}
Errors == {"nrf_OK", "nrf_ERR_INTERNAL", "nrf_ERR_TIMEOUT", "nrf_ERR_INVALID_STATE",
           "nrf_ERR_NO_MEMORY", "NVS_ERR_UID_ABSENT", "NVS_ERR_UID_ALRDY_PRESENT",
           "sd_error", "NULL", "pointer", "none"}
NoFlash == [kind |-> "none"]
FlashOp == [kind : {"erase", "write"}, recs : Seq(Record), pad : BOOLEAN,
            owner : Task, live : BOOLEAN]
EmptyBuffer == [recs |-> <<>>, len |-> 0]

RecordOf(r) == [uid |-> r.uid, n |-> r.n, val |-> r.val]

TypeOK ==
    /\ usage \in Usages
    /\ page \in Page
    /\ nvs_init \in BOOLEAN
    /\ mutex \in Task \cup {NoTask}
    /\ nvs_task_handle \in Task \cup {NoTask}
    /\ flash \in {NoFlash} \cup FlashOp
    /\ soc \in Seq({"success", "error"})
    /\ notify \in [Task -> {"none", "nrf_OK", "nrf_ERR_INTERNAL"}]
    /\ pc \in [Task -> Labels]
    /\ req \in [Task -> Request]
    /\ arr_data \in [Task -> [recs : Seq(Record), len : Nat]]
    /\ result \in [Task -> [err : Errors, data : Val \cup {NoVal, Torn}]]
    /\ promised \in [Uid -> Val \cup {NoVal}]
    /\ budget \in [error : Nat, timeout : Nat, power : Nat]

\* The payload recs holds for u, NoVal when it holds none.
Stored(recs, u) ==
    LET i == SelectInSeq(recs, LAMBDA r : r.uid = u)
    IN  IF i = 0 THEN NoVal ELSE recs[i].val

NoResult == [err |-> "none", data |-> NoVal]
SomeRequest == CHOOSE r \in Request : TRUE

Init ==
    /\ usage \in Usages
    /\ page = [recs |-> StoredBefore, tail |-> "clean"]
    /\ nvs_init = FALSE
    /\ mutex = NoTask
    /\ nvs_task_handle = NoTask
    /\ flash = NoFlash
    /\ soc = <<>>
    /\ notify = [t \in Task |-> "none"]
    /\ pc = [t \in Task |-> "idle"]
    /\ req = [t \in Task |-> SomeRequest]
    /\ arr_data = [t \in Task |-> EmptyBuffer]
    /\ result = [t \in Task |-> NoResult]
    /\ promised = [u \in Uid |-> Stored(StoredBefore, u)]
    /\ budget = [error |-> MaxError, timeout |-> MaxTimeout, power |-> MaxPower]

----------------------------------------------------------------------------
(* The start of a call.                                                     *)

\* Called once, before the other tasks run (kernel_task.c:149).
nvs_flash_init ==
    /\ ~nvs_init
    /\ nvs_init' = TRUE
    /\ UNCHANGED <<usage, page, mutex, nvs_task_handle, flash, soc, notify, pc, req,
                   arr_data, result, promised, budget>>

\* What the uid check, made before the mutex is taken, answers.
Refusal(r) ==
    CASE r.op = "add" /\ nvs_is_uid_present(page, r.uid) -> "NVS_ERR_UID_ALRDY_PRESENT"
      [] r.op \in Rewrites \cup {"read"} /\ ~nvs_is_uid_present(page, r.uid) -> "NVS_ERR_UID_ABSENT"
      [] OTHER -> IF nvs_init THEN "none"
                  ELSE IF r.op = "pointer" THEN "NULL" ELSE "nrf_ERR_INVALID_STATE"

\* nvs_add_data, nvs_read_data, nvs_delete_data, nvs_modify_data,
\* nvs_erase_partition and nvs_get_data_pointer up to the mutex.
Call(t) ==
    /\ pc[t] = "idle"
    /\ \E r \in usage[t] :
        /\ req' = [req EXCEPT ![t] = r]
        /\ result' = [result EXCEPT ![t] = [NoResult EXCEPT !.err = Refusal(r)]]
        /\ pc' = [pc EXCEPT ![t] = IF Refusal(r) = "none" THEN "take" ELSE "idle"]
    /\ UNCHANGED <<usage, page, nvs_init, mutex, nvs_task_handle, flash, soc, notify,
                   arr_data, promised, budget>>

AfterTake(op) ==
    CASE op \in Rewrites -> "build"
      [] op = "read" -> "copy"
      [] op = "pointer" -> "lookup"
      [] OTHER -> "handle"

MutexFree_Always == TRUE    \* mutant
MutexFree == mutex = NoTask

TakeMutex(t) ==
    /\ pc[t] = "take"
    /\ MutexFree
    /\ mutex' = t
    /\ pc' = [pc EXCEPT ![t] = AfterTake(req[t].op)]
    /\ UNCHANGED <<usage, page, nvs_init, nvs_task_handle, flash, soc, notify, req,
                   arr_data, result, promised, budget>>

\* xSemaphoreTake waited nvs_op_timeout for a mutex somebody else holds.
MutexTimeout(t) ==
    /\ pc[t] = "take"
    /\ mutex # NoTask
    /\ pc' = [pc EXCEPT ![t] = "idle"]
    /\ result' = [result EXCEPT ![t].err =
                     IF req[t].op = "pointer" THEN "NULL" ELSE "nrf_ERR_TIMEOUT"]
    /\ UNCHANGED <<usage, page, nvs_init, mutex, nvs_task_handle, flash, soc, notify,
                   req, arr_data, promised, budget>>

----------------------------------------------------------------------------
(* The end of a call: return_mech.                                          *)

Promise(r, err) ==
    IF r.op \in {"add", "modify"} /\ err = "nrf_OK"
    THEN [promised EXCEPT ![r.uid] = r.val] ELSE promised

\* The code returned for err: delete and modify end in "return nrf_OK".
Returned(op, err) == IF op \in Rewrites THEN "nrf_OK" ELSE err

Released_KeepsHandle == mutex' = NoTask /\ UNCHANGED nvs_task_handle    \* mutant
Released == mutex' = NoTask /\ nvs_task_handle' = NoTask

\* The stack frame dies: a flash write that still reads arr_data from it has
\* lost its source.
Return(t, err) ==
    /\ pc' = [pc EXCEPT ![t] = "idle"]
    /\ result' = [result EXCEPT ![t].err = Returned(req[t].op, err)]
    /\ promised' = Promise(req[t], Returned(req[t].op, err))
    /\ Released
    /\ flash' = IF flash # NoFlash /\ flash.owner = t
                THEN [flash EXCEPT !.live = FALSE] ELSE flash
    /\ arr_data' = [arr_data EXCEPT ![t] = EmptyBuffer]

----------------------------------------------------------------------------
(* Under the mutex.                                                         *)

TooLong_OffByOne(r) ==      \* mutant
    LET i == nvs_get_uid_pointer(page, r.uid) IN i # 0 /\ r.n >= page.recs[i].n
TooLong(r) ==
    LET i == nvs_get_uid_pointer(page, r.uid) IN i # 0 /\ r.n > page.recs[i].n

\* A read that asks for more than is stored returns without giving the mutex;
\* one of a uid that has gone since its check leaves the buffer as it was (NoVal)
\* and returns nrf_OK.
nvs_read_raw_data(t) ==
    /\ pc[t] = "copy"
    /\ pc' = [pc EXCEPT ![t] = "idle"]
    /\ IF TooLong(req[t])
       THEN /\ result' = [result EXCEPT ![t].err = "nrf_ERR_NO_MEMORY"]
            /\ UNCHANGED mutex
       ELSE /\ result' = [result EXCEPT ![t] = [err |-> "nrf_OK",
                                                 data |-> Stored(page.recs, req[t].uid)]]
            /\ mutex' = NoTask
    /\ UNCHANGED <<usage, page, nvs_init, nvs_task_handle, flash, soc, notify, req,
                   arr_data, promised, budget>>

nvs_get_data_pointer(t) ==
    /\ pc[t] = "lookup"
    /\ pc' = [pc EXCEPT ![t] = "idle"]
    /\ mutex' = NoTask
    /\ result' = [result EXCEPT ![t].err =
                     IF nvs_get_uid_pointer(page, req[t].uid) = 0 THEN "NULL" ELSE "pointer"]
    /\ UNCHANGED <<usage, page, nvs_init, nvs_task_handle, flash, soc, notify, req,
                   arr_data, promised, budget>>

Kept_Inverted(r) ==         \* mutant
    SelectSeq(page.recs, LAMBDA s : s.uid = r.uid)
        \o (IF r.op = "modify" THEN <<RecordOf(r)>> ELSE <<>>)
\* The records a delete or modify copies into arr_data.
Kept(r) ==
    IF r.op = "modify" THEN Append(Without(page.recs, r.uid), RecordOf(r))
    ELSE Without(page.recs, r.uid)

Others(r) == nvs_get_size_of_stored_data(page) - nvs_get_size_of_data(page, r.uid)

BufferLen_NoHeader(r) ==    \* mutant
    (Others(r) - Meta + (IF r.op = "modify" THEN r.n ELSE 0)) % 65536
\* The length computed for arr_data, a uint16_t.
BufferLen(r) ==
    (IF r.op = "modify" THEN Others(r) + r.n ELSE Others(r) - Meta) % 65536

\* The copy is only as long as arr_data if the uid is present exactly once.
\* A longer copy, or one of a torn header (LEN 0xFFFFFFFF), runs over the
\* stack; so does an arr_data whose length wrapped below zero.
Overruns(r) ==
    \/ page.tail = "sod"
    \/ RecordWords(Kept(r)) > BufferLen(r)
    \/ r.op = "delete" /\ Others(r) < Meta

BuildArrData(t) ==
    /\ pc[t] = "build"
    /\ IF Overruns(req[t])
       THEN /\ pc' = [pc EXCEPT ![t] = "fault"]
            /\ UNCHANGED <<arr_data, promised>>
       ELSE /\ pc' = [pc EXCEPT ![t] = "handle"]
            /\ arr_data' = [arr_data EXCEPT ![t] =
                               [recs |-> Kept(req[t]), len |-> BufferLen(req[t])]]
            /\ promised' = [promised EXCEPT ![req[t].uid] = NoVal]
    /\ UNCHANGED <<usage, page, nvs_init, mutex, nvs_task_handle, flash, soc, notify,
                   req, result, budget>>

AfterHandle_Erases(op) == "erase"       \* mutant
AfterHandle(op) == IF op = "add" THEN "write" ELSE "erase"

SetHandle(t) ==
    /\ pc[t] = "handle"
    /\ nvs_task_handle' = t
    /\ pc' = [pc EXCEPT ![t] = AfterHandle(req[t].op)]
    /\ arr_data' = IF req[t].op = "add"
                   THEN [arr_data EXCEPT ![t] = [recs |-> <<RecordOf(req[t])>>,
                                                 len |-> Words(req[t])]]
                   ELSE arr_data
    /\ UNCHANGED <<usage, page, nvs_init, mutex, flash, soc, notify, req, result,
                   promised, budget>>

\* sd_flash_page_erase, which refuses while an operation is in progress.
StartErase(t) ==
    /\ pc[t] = "erase"
    /\ IF flash # NoFlash
       THEN Return(t, "sd_error")
       ELSE /\ flash' = [kind |-> "erase", recs |-> <<>>, pad |-> FALSE,
                         owner |-> t, live |-> TRUE]
            /\ pc' = [pc EXCEPT ![t] = "erase_wait"]
            /\ promised' = IF req[t].op = "erase" THEN [u \in Uid |-> NoVal] ELSE promised
            /\ UNCHANGED <<mutex, nvs_task_handle, arr_data, result>>
    /\ UNCHANGED <<usage, page, nvs_init, soc, notify, req, budget>>

\* sd_flash_write.  It also refuses a range that leaves the flash, whose last
\* page this is.
WriteRefused(t) ==
    \/ flash # NoFlash
    \/ (IF req[t].op = "add" THEN nvs_get_ptr_last_loction(page) ELSE 0)
           + arr_data[t].len > PageWords

StartWrite(t) ==
    /\ pc[t] = "write"
    /\ IF WriteRefused(t)
       THEN Return(t, "sd_error")
       ELSE /\ flash' = [kind |-> "write", recs |-> arr_data[t].recs,
                         pad |-> arr_data[t].len > RecordWords(arr_data[t].recs),
                         owner |-> t, live |-> TRUE]
            /\ pc' = [pc EXCEPT ![t] = "write_wait"]
            /\ UNCHANGED <<mutex, nvs_task_handle, arr_data, result, promised>>
    /\ UNCHANGED <<usage, page, nvs_init, soc, notify, req, budget>>

Answered_Always(t) == TRUE      \* mutant
Answered(t) == notify[t] # "none"

\* xTaskNotifyWait after the erase: the notification becomes err, which
\* delete and modify go on to overwrite.
EraseAnswer(t) ==
    /\ pc[t] = "erase_wait"
    /\ Answered(t)
    /\ notify' = [notify EXCEPT ![t] = "none"]
    /\ IF req[t].op = "erase" \/ (req[t].op = "delete" /\ arr_data[t].len = 0)
       THEN Return(t, notify[t])
       ELSE /\ pc' = [pc EXCEPT ![t] = "write"]
            /\ UNCHANGED <<mutex, nvs_task_handle, flash, arr_data, result, promised>>
    /\ UNCHANGED <<usage, page, nvs_init, soc, req, budget>>

WriteAnswer(t) ==
    /\ pc[t] = "write_wait"
    /\ Answered(t)
    /\ notify' = [notify EXCEPT ![t] = "none"]
    /\ Return(t, notify[t])
    /\ UNCHANGED <<usage, page, nvs_init, soc, req, budget>>

\* xTaskNotifyWait expires; the flash operation goes on.
NotifyTimeout(t) ==
    /\ pc[t] \in Waiting
    /\ notify[t] = "none"
    /\ budget.timeout > 0
    /\ budget' = [budget EXCEPT !.timeout = @ - 1]
    /\ Return(t, "nrf_ERR_TIMEOUT")
    /\ UNCHANGED <<usage, page, nvs_init, soc, notify, req>>

----------------------------------------------------------------------------
(* The SoftDevice and power.                                                *)

FlashSuccess ==
    /\ flash # NoFlash
    /\ IF flash.kind = "erase" THEN page' = ErasedPage
       ELSE IF flash.live THEN page' = Written(page, flash.recs, flash.pad)
       ELSE page' \in Garbled(page, flash.recs)
    /\ flash' = NoFlash
    /\ soc' = Append(soc, "success")
    /\ UNCHANGED <<usage, nvs_init, mutex, nvs_task_handle, notify, pc, req, arr_data,
                   result, promised, budget>>

\* What a flash operation that does not complete can leave behind.
Unfinished ==
    IF flash = NoFlash THEN {page}
    ELSE IF flash.kind = "erase" THEN {page, ErasedPage}
    ELSE Interrupted(page, flash.recs)

FlashError ==
    /\ flash # NoFlash
    /\ budget.error > 0
    /\ budget' = [budget EXCEPT !.error = @ - 1]
    /\ page' \in Unfinished
    /\ flash' = NoFlash
    /\ soc' = Append(soc, "error")
    /\ UNCHANGED <<usage, nvs_init, mutex, nvs_task_handle, notify, pc, req, arr_data,
                   result, promised>>

NotifyValue_Raw(event) == event     \* mutant
NotifyValue(event) == IF event = "success" THEN "nrf_OK" ELSE "nrf_ERR_INTERNAL"

Notified_Inverted(event) ==     \* mutant
    IF nvs_task_handle # NoTask THEN notify
    ELSE [notify EXCEPT ![nvs_task_handle] = NotifyValue(event)]
Notified(event) ==
    IF nvs_task_handle = NoTask THEN notify
    ELSE [notify EXCEPT ![nvs_task_handle] = NotifyValue(event)]

nrf_soc_event_handler ==
    /\ soc # <<>>
    /\ soc' = Tail(soc)
    /\ notify' = Notified(Head(soc))
    /\ UNCHANGED <<usage, page, nvs_init, mutex, nvs_task_handle, flash, pc, req,
                   arr_data, result, promised, budget>>

\* RAM is lost; the page keeps what the interrupted operation left in it.
PowerLoss ==
    /\ budget.power > 0
    /\ budget' = [budget EXCEPT !.power = @ - 1]
    /\ page' \in Unfinished
    /\ nvs_init' = FALSE
    /\ mutex' = NoTask
    /\ nvs_task_handle' = NoTask
    /\ flash' = NoFlash
    /\ soc' = <<>>
    /\ notify' = [t \in Task |-> "none"]
    /\ pc' = [t \in Task |-> "idle"]
    /\ req' = [t \in Task |-> SomeRequest]
    /\ arr_data' = [t \in Task |-> EmptyBuffer]
    /\ result' = [t \in Task |-> NoResult]
    /\ UNCHANGED <<usage, promised>>

----------------------------------------------------------------------------
TaskStep(t) ==
    \/ TakeMutex(t) \/ MutexTimeout(t)
    \/ BuildArrData(t) \/ SetHandle(t)
    \/ StartErase(t) \/ EraseAnswer(t)
    \/ StartWrite(t) \/ WriteAnswer(t)
    \/ nvs_read_raw_data(t) \/ nvs_get_data_pointer(t)

Next ==
    \/ nvs_flash_init
    \/ \E t \in Task : Call(t) \/ TaskStep(t) \/ NotifyTimeout(t)
    \/ FlashSuccess \/ FlashError \/ nrf_soc_event_handler
    \/ PowerLoss

\* The scheduler runs every ready task, a started flash operation ends, and
\* the SoftDevice task, the one of highest priority, fetches its events.
Fairness ==
    /\ \A t \in Task : WF_vars(TaskStep(t))
    /\ WF_vars(FlashSuccess)
    /\ WF_vars(nrf_soc_event_handler)

Spec == Init /\ [][Next]_vars /\ Fairness

----------------------------------------------------------------------------
(* Properties.                                                              *)

Holding == Labels \ {"idle", "take"}

\* The code between xSemaphoreTake and xSemaphoreGive is run by one task at a
\* time, the owner of nvs_mutex_handle.
MutualExclusion == \A t \in Task : pc[t] \in Holding => mutex = t

\* nrf_soc_event_handler only ever notifies the task that holds the mutex and
\* is carrying out a flash operation, however late the event arrives.
HandleOwner ==
    nvs_task_handle # NoTask =>
        /\ mutex = nvs_task_handle
        /\ pc[nvs_task_handle] \in {"erase", "write"} \cup Waiting

\* No wait for the SoftDevice has expired so far.
NoneExpired == budget.timeout = MaxTimeout

\* As long as no wait has expired: while the SoftDevice reads arr_data of a
\* task's stack, the task is still inside the call and arr_data still holds
\* the records it asked to write.
SourceAlive ==
    NoneExpired /\ flash.kind = "write" =>
        /\ flash.live
        /\ pc[flash.owner] = "write_wait"
        /\ flash.recs = arr_data[flash.owner].recs

\* As long as no wait has expired: a notification is only pending for a task
\* that waits, once the operation it waits for has ended, so no wait is answered
\* by the end of another operation.
NoStaleAnswer ==
    NoneExpired =>
        \A t \in Task : notify[t] # "none" => pc[t] \in Waiting /\ flash = NoFlash

\* No two records carry the same uid: what delete and modify skip while they
\* copy the page "will only execute once".
UniqueUids ==
    \A i, j \in DOMAIN page.recs :
        page.recs[i].uid = page.recs[j].uid /\ page.recs[i].uid \in Uid => i = j

\* A rewrite of the page has erased it and not yet written it back.
Rewriting(t) ==
    /\ req[t].op \in Rewrites
    /\ pc[t] \in {"erase_wait", "write", "write_wait"}
    /\ pc[t] = "erase_wait" => flash = NoFlash

\* The records the store holds: during a rewrite, those being written back.
StoredRecs ==
    IF \E t \in Task : Rewriting(t)
    THEN arr_data[CHOOSE t \in Task : Rewriting(t)].recs
    ELSE page.recs

\* What add and modify returned nrf_OK for is stored until it is deleted,
\* modified or erased: other calls never lose or change it.
PromisesKept ==
    \A u \in Uid : promised[u] # NoVal => Stored(StoredRecs, u) = promised[u]

\* The copy of the page made by delete and modify stays inside arr_data.
BufferFits == \A t \in Task : pc[t] # "fault"

\* The caller was promised a payload that the store does not hold.
Lost(u) == promised[u] # NoVal /\ Stored(StoredRecs, u) # promised[u]

\* As long as no wait has expired, a promise is only lost while something is
\* written over a record header that a flash error or a power loss cut short, or
\* to a page that such a write has blocked: never by the failure itself.
LossOnlyOverTornHeader ==
    [][NoneExpired' =>
          \A u \in Uid : Lost(u)' =>
              \/ Lost(u)
              \/ page.tail = "sod" /\ flash.kind = "write"
              \/ page.tail = "blocked"]_vars

\* Every call returns: a wait for the SoftDevice is answered, as its event
\* cannot slip between the start of the operation and the wait.
CallReturns == \A t \in Task : pc[t] # "idle" ~> pc[t] = "idle"

\* The store as its callers see it: single uids change, each in one step, and
\* every answer is true of the store, but that a uid may be called absent while
\* another is rewritten.
Payloads == [u \in Uid |-> Stored(StoredRecs, u)]
Away == page.recs # StoredRecs
Answers == [t \in Task |-> [call |-> req[t], err |-> result[t].err, data |-> result[t].data]]
Store == INSTANCE KVStore WITH store <- Payloads, rewriting <- Away, answer <- Answers
StoreSpec == Store!Spec

============================================================================
