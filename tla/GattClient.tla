----------------------------- MODULE GattClient -----------------------------
(***************************************************************************)
(* The blocking GATT client of                                             *)
(* src/src/libs/components/ble/ble_gatt_client: FreeRTOS tasks start one   *)
(* SoftDevice procedure at a time, ble_gatt_client_handler copies the      *)
(* peer's answer into client_buff and notifies the task that waits.        *)
(*                                                                         *)
(* pc[t] is where task t stands in its call: "take" waits for              *)
(* ble_client_semphr_handle, "table" searches client_struct, "start" is    *)
(* about to call the SoftDevice, "wait" is in xTaskNotifyWait, "expired"   *)
(* has waited in vain, "copy" is about to copy client_buff.                *)
(*                                                                         *)
(* of fields are history: the task whose current call started a procedure, *)
(* NoTask once that call is over.                                          *)
(***************************************************************************)
EXTENDS GattTable, FiniteSets

CONSTANTS
    Task, NoTask,
    Requests,       \* Requests[t]: the calls t may make
    MaxEvents,      \* room for events in the SoftDevice
    MaxLinks,       \* bound on connections that are established
    MaxLate         \* bound on late

Discoveries == {"chars", "desc"}
Reads == {"read", "desc_read"}
WriteCmds == {"write_cmd", "desc_write"}
Procedures == {"mtu", "service", "explore", "write"} \cup Discoveries \cup Reads
Op == {"init", "deinit"} \cup WriteCmds \cup Procedures
Request == [op : Op, conn : Handle \cup {NoHandle}, num : Nat \ {0}]

ASSUME GattAssumption ==
    /\ NoTask \notin Task
    /\ MaxEvents \in Nat /\ MaxLinks \in Nat /\ MaxLate \in Nat
    /\ \A t \in Task : Requests[t] \subseteq Request

VARIABLES
    client_struct,
    mutex,              \* owner of ble_client_semphr_handle
    client_taskhandle,
    client_buff,
    notify,             \* the notification slot of each task
    link,               \* the connections that are up
    proc,               \* per connection, the procedure in progress
    tx,                 \* per connection, the write command being sent
    events,             \* BLE events the SoftDevice task has not handled
    pc, req,
    got,                \* whose data the last discovery or read copied
    links,              \* connections that may still be established
    late                \* history: calls since a wait ended before its answer
                        \* came, that one included

vars == <<client_struct, mutex, client_taskhandle, client_buff, notify, link,
          proc, tx, events, pc, req, got, links, late>>

Labels == {"idle", "take", "table", "start", "wait", "expired", "copy"}
Owner == Task \cup {NoTask}
None == [op |-> "none", of |-> NoTask]
Pending == {None} \cup [op : Op, of : Owner]
Event == [op : Op, of : Owner, status : {"ok", "absent", "error"}]
NoNote == [ok |-> FALSE, own |-> FALSE, set |-> FALSE]
Zeroed == [kind |-> "zero", of |-> NoTask]
Idle == [op |-> "init", conn |-> NoHandle, num |-> 1]

TypeOK ==
    /\ client_struct \in Table
    /\ mutex \in Owner
    /\ client_taskhandle \in Owner
    /\ client_buff \in [kind : {"zero", "pattern", "data"}, of : Owner]
    /\ notify \in [Task -> [ok : BOOLEAN, own : BOOLEAN, set : BOOLEAN]]
    /\ link \subseteq Handle
    /\ proc \in [Handle -> Pending] /\ tx \in [Handle -> Pending]
    /\ events \in Seq(Event) /\ Len(events) <= MaxEvents
    /\ pc \in [Task -> Labels]
    /\ req \in [Task -> Request]
    /\ got \in [Task -> {"none", "own", "other"}]
    /\ links \in Nat /\ late \in Nat

\* gatt_client_pre_init.
Init ==
    /\ client_struct = EmptyTable
    /\ mutex = NoTask
    /\ client_taskhandle = NoTask
    /\ client_buff = Zeroed
    /\ notify = [t \in Task |-> NoNote]
    /\ link = {}
    /\ proc = [h \in Handle |-> None]
    /\ tx = [h \in Handle |-> None]
    /\ events = <<>>
    /\ pc = [t \in Task |-> "idle"]
    /\ req = [t \in Task |-> Idle]
    /\ got = [t \in Task |-> "none"]
    /\ links = MaxLinks
    /\ late = 0

----------------------------------------------------------------------------
(* Calling and returning.                                                   *)

Call(t) ==
    /\ pc[t] = "idle"
    /\ late < MaxLate
    /\ late' = IF late = 0 THEN 0 ELSE late + 1
    /\ \E r \in Requests[t] : req' = [req EXCEPT ![t] = r]
    /\ pc' = [pc EXCEPT ![t] = "take"]
    /\ got' = [got EXCEPT ![t] = "none"]
    /\ UNCHANGED <<client_struct, mutex, client_taskhandle, client_buff, notify,
                   link, proc, tx, events, links>>

MutexFree_Always == TRUE        \* mutant
MutexFree == mutex = NoTask

TakeMutex(t) ==
    /\ pc[t] = "take"
    /\ MutexFree
    /\ mutex' = t
    /\ pc' = [pc EXCEPT ![t] = "table"]
    /\ UNCHANGED <<client_struct, client_taskhandle, client_buff, notify, link,
                   proc, tx, events, req, got, links, late>>

\* BLE_CLIENT_FUNCTIONS_MUTEX_WAIT_TIME has passed.
MutexTimeout(t) ==
    /\ pc[t] = "take"
    /\ mutex # NoTask
    /\ pc' = [pc EXCEPT ![t] = "idle"]
    /\ UNCHANGED <<client_struct, mutex, client_taskhandle, client_buff, notify,
                   link, proc, tx, events, req, got, links, late>>

\* The call of t no longer waits for what it started.
Disowned(x, t) == IF x.of = t THEN [x EXCEPT !.of = NoTask] ELSE x
Abandon(t) ==
    /\ proc' = [h \in Handle |-> Disowned(proc[h], t)]
    /\ tx' = [h \in Handle |-> Disowned(tx[h], t)]
    /\ events' = [i \in DOMAIN events |-> Disowned(events[i], t)]
    /\ client_buff' = Disowned(client_buff, t)

Released_KeepsHandle == mutex' = NoTask /\ UNCHANGED client_taskhandle     \* mutant
Released == mutex' = NoTask /\ client_taskhandle' = NoTask

\* The common end of every procedure: return_mech.
Return(t) ==
    /\ pc' = [pc EXCEPT ![t] = "idle"]
    /\ Released
    /\ Abandon(t)

\* A return from the middle of a function, which keeps the mutex.
ReturnHolding(t) ==
    /\ pc' = [pc EXCEPT ![t] = "idle"]
    /\ UNCHANGED <<client_struct, mutex, client_taskhandle, client_buff, proc, tx, events>>

----------------------------------------------------------------------------
(* Connection handling.  Both functions give the mutex back and leave       *)
(* client_taskhandle alone when they fail.                                  *)

GiveBack(t) ==
    /\ pc' = [pc EXCEPT ![t] = "idle"]
    /\ mutex' = NoTask
    /\ UNCHANGED <<proc, tx, events>>

gatt_client_init(t) ==
    /\ pc[t] = "table" /\ req[t].op = "init"
    /\ \/ /\ req[t].conn = NoHandle
          /\ ReturnHolding(t)
       \/ /\ req[t].conn # NoHandle
          /\ ~Known(client_struct, NoHandle)
          /\ GiveBack(t)
          /\ UNCHANGED <<client_struct, client_buff, client_taskhandle>>
       \/ /\ req[t].conn # NoHandle
          /\ Known(client_struct, NoHandle)
          /\ GiveBack(t)
          /\ client_struct' = Occupied(client_struct, req[t].conn)
          /\ client_buff' = Zeroed
          /\ client_taskhandle' = NoTask
    /\ UNCHANGED <<notify, link, req, got, links, late>>

gatt_client_deinit(t) ==
    /\ pc[t] = "table" /\ req[t].op = "deinit"
    /\ IF Known(client_struct, req[t].conn)
       THEN /\ GiveBack(t)
            /\ client_struct' = Freed(client_struct, req[t].conn)
            /\ client_buff' = Zeroed
       ELSE /\ GiveBack(t)
            /\ UNCHANGED <<client_struct, client_buff>>
    /\ UNCHANGED <<client_taskhandle, notify, link, req, got, links, late>>

----------------------------------------------------------------------------
(* Procedures.                                                              *)

\* The search for the connection.  A discovery of characteristics or
\* descriptors puts what it looks for into client_buff.
FindClient(t) ==
    /\ pc[t] = "table" /\ req[t].op \notin {"init", "deinit"}
    /\ \/ /\ ~Known(client_struct, req[t].conn)
          /\ Return(t)
          /\ UNCHANGED client_struct
       \/ /\ Known(client_struct, req[t].conn)
          /\ ~Inited(client_struct, req[t].conn)
          /\ ReturnHolding(t)
       \/ /\ Inited(client_struct, req[t].conn)
          /\ pc' = [pc EXCEPT ![t] = "start"]
          /\ client_taskhandle' = t
          /\ client_buff' = IF req[t].op \in Discoveries
                            THEN [kind |-> "pattern", of |-> t] ELSE client_buff
          /\ UNCHANGED <<client_struct, mutex, proc, tx, events>>
    /\ UNCHANGED <<notify, link, req, got, links, late>>

\* The SoftDevice runs one procedure and sends one write command at a time.
Accepted(r) ==
    /\ r.conn \in link
    /\ IF r.op \in WriteCmds THEN tx[r.conn] = None ELSE proc[r.conn] = None

\* gatt_client_char_read does not look at what sd_ble_gattc_read returns.
Started(r) == Accepted(r) \/ r.op = "read"

AfterStart_Skips(r) == IF r.op \in WriteCmds THEN "expired" ELSE "wait"     \* mutant
\* Write commands, too, are waited for: their transmission is notified.
AfterStart(r) == "wait"

StartProcedure(t) ==
    /\ pc[t] = "start"
    /\ IF Started(req[t])
       THEN /\ pc' = [pc EXCEPT ![t] = AfterStart(req[t])]
            /\ proc' = IF Accepted(req[t]) /\ req[t].op \in Procedures
                       THEN [proc EXCEPT ![req[t].conn] = [op |-> req[t].op, of |-> t]]
                       ELSE proc
            /\ tx' = IF Accepted(req[t]) /\ req[t].op \in WriteCmds
                     THEN [tx EXCEPT ![req[t].conn] = [op |-> req[t].op, of |-> t]]
                     ELSE tx
            /\ UNCHANGED <<mutex, client_taskhandle, client_buff, events>>
       ELSE Return(t)
    /\ UNCHANGED <<client_struct, notify, link, req, got, links, late>>

Copies == {"service"} \cup Discoveries \cup Reads
Again_OffByOne(r) == r.op = "explore" /\ r.num > 0      \* mutant
\* gatt_client_explore_service goes on to its next service.
Again(r) == r.op = "explore" /\ r.num > 1

Answer(t) ==
    /\ pc[t] = "wait"
    /\ notify[t].set
    /\ notify' = [notify EXCEPT ![t] = NoNote]
    /\ \/ /\ ~notify[t].ok
          /\ Return(t)
          /\ UNCHANGED req
       \/ /\ notify[t].ok
          /\ req[t].op \notin Copies /\ ~Again(req[t])
          /\ Return(t)
          /\ UNCHANGED req
       \/ /\ notify[t].ok
          /\ req[t].op \in Copies \/ Again(req[t])
          /\ pc' = [pc EXCEPT ![t] = IF Again(req[t]) THEN "start" ELSE "copy"]
          /\ req' = IF Again(req[t]) THEN [req EXCEPT ![t].num = @ - 1] ELSE req
          /\ UNCHANGED <<mutex, client_taskhandle, client_buff, proc, tx, events>>
    /\ UNCHANGED <<client_struct, link, got, links, late>>

Copy(t) ==
    /\ pc[t] = "copy"
    /\ got' = [got EXCEPT ![t] = IF client_buff = [kind |-> "data", of |-> t]
                                 THEN "own" ELSE "other"]
    /\ Return(t)
    /\ UNCHANGED <<client_struct, notify, link, req, links, late>>

\* Something t started can still be answered.
Outstanding(t) ==
    \/ \E h \in Handle : proc[h].of = t \/ tx[h].of = t
    \/ \E i \in DOMAIN events : events[i].of = t

MayExpire_Never(t) == FALSE     \* mutant
MayExpire(t) == pc[t] = "wait" /\ ~notify[t].set

\* BLE_CLIENT_FUNCTIONS_CLIENT_WAIT_TIME has passed without a notification.
\* The answer may still come: the peer has 30 s.
WaitExpires(t) ==
    /\ MayExpire(t)
    /\ pc' = [pc EXCEPT ![t] = "expired"]
    /\ late' = IF late = 0 /\ Outstanding(t) THEN 1 ELSE late
    /\ UNCHANGED <<client_struct, mutex, client_taskhandle, client_buff, notify,
                   link, proc, tx, events, req, got, links>>

GiveUp(t) ==
    /\ pc[t] = "expired"
    /\ Return(t)
    /\ UNCHANGED <<client_struct, notify, link, req, got, links, late>>

----------------------------------------------------------------------------
(* The SoftDevice and its task.                                             *)

Statuses(op) == IF op \in Discoveries THEN {"ok", "absent", "error"} ELSE {"ok", "error"}

\* The peer answers the procedure in progress on h.
Response(h) ==
    /\ proc[h] # None
    /\ Len(events) < MaxEvents
    /\ \E s \in Statuses(proc[h].op) :
          events' = Append(events, [op |-> proc[h].op, of |-> proc[h].of, status |-> s])
    /\ proc' = [proc EXCEPT ![h] = None]
    /\ UNCHANGED <<client_struct, mutex, client_taskhandle, client_buff, notify,
                   link, tx, pc, req, got, links, late>>

\* BLE_GATTC_EVT_WRITE_CMD_TX_COMPLETE.
WriteCmdSent(h) ==
    /\ tx[h] # None
    /\ Len(events) < MaxEvents
    /\ events' = Append(events, [op |-> tx[h].op, of |-> tx[h].of, status |-> "ok"])
    /\ tx' = [tx EXCEPT ![h] = None]
    /\ UNCHANGED <<client_struct, mutex, client_taskhandle, client_buff, notify,
                   link, proc, pc, req, got, links, late>>

\* What the search of a discovery's answer finds depends on what client_buff
\* holds: its own pattern, or by now something else.
Matches(e) ==
    IF client_buff = [kind |-> "pattern", of |-> e.of] THEN {e.status = "ok"}
    ELSE IF e.status = "error" THEN {FALSE} ELSE BOOLEAN

\* The answer replaces client_buff.
Filled(e, match) ==
    CASE e.op \in Discoveries -> match
      [] e.op \in {"service", "explore"} \cup Reads -> e.status = "ok"
      [] OTHER -> FALSE

Notified(t, e, match) ==
    [set |-> TRUE, own |-> e.of = t,
     ok |-> IF e.op \in Discoveries THEN match ELSE e.status = "ok"]

ble_gatt_client_handler ==
    /\ events # <<>>
    /\ LET e == Head(events)
       IN  \E match \in Matches(e) :
              /\ client_buff' = IF Filled(e, match) THEN [kind |-> "data", of |-> e.of]
                                                    ELSE client_buff
              /\ notify' = IF client_taskhandle = NoTask THEN notify
                           ELSE [notify EXCEPT ![client_taskhandle] =
                                     Notified(client_taskhandle, e, match)]
    /\ events' = Tail(events)
    /\ UNCHANGED <<client_struct, mutex, client_taskhandle, link, proc, tx, pc,
                   req, got, links, late>>

LinkUp(h) ==
    /\ h \notin link
    /\ Cardinality(link) < Clients
    /\ links > 0
    /\ links' = links - 1
    /\ link' = link \cup {h}
    /\ UNCHANGED <<client_struct, mutex, client_taskhandle, client_buff, notify,
                   proc, tx, events, pc, req, got, late>>

\* The SoftDevice drops what was in progress without an event of its own.
LinkDown(h) ==
    /\ h \in link
    /\ link' = link \ {h}
    /\ proc' = [proc EXCEPT ![h] = None]
    /\ tx' = [tx EXCEPT ![h] = None]
    /\ UNCHANGED <<client_struct, mutex, client_taskhandle, client_buff, notify,
                   events, pc, req, got, links, late>>

----------------------------------------------------------------------------
TaskStep(t) ==
    \/ TakeMutex(t) \/ MutexTimeout(t)
    \/ gatt_client_init(t) \/ gatt_client_deinit(t)
    \/ FindClient(t) \/ StartProcedure(t) \/ Answer(t) \/ Copy(t)
    \/ WaitExpires(t) \/ GiveUp(t)

Next ==
    \/ \E t \in Task : Call(t) \/ TaskStep(t)
    \/ \E h \in Handle : Response(h) \/ WriteCmdSent(h) \/ LinkUp(h) \/ LinkDown(h)
    \/ ble_gatt_client_handler

\* Ready tasks run and every wait is bounded; the SoftDevice task, the one of
\* highest priority, handles its events.  Nothing is assumed of the peer.
Fairness ==
    /\ \A t \in Task : WF_vars(TaskStep(t))
    /\ WF_vars(ble_gatt_client_handler)

Spec == Init /\ [][Next]_vars /\ Fairness

----------------------------------------------------------------------------
(* Properties.                                                              *)

Holding == Labels \ {"idle", "take"}

\* client_buff, client_taskhandle and client_struct belong to the task that
\* holds the mutex.
MutualExclusion == \A t \in Task : pc[t] \in Holding => mutex = t

\* The handler only ever notifies the task that runs a procedure.
HandleOwner ==
    client_taskhandle # NoTask =>
        pc[client_taskhandle] \in {"start", "wait", "copy", "expired"}

\* Until an answer is late, a task is never woken by the answer to a procedure
\* of an earlier call, nor by one that arrives when it no longer waits.
OwnAnswer == late > 0 \/ \A t \in Task : notify[t].set => pc[t] = "wait" /\ notify[t].own

\* Until an answer is late, a discovery or read that succeeds returns what the
\* peer answered to it.
OwnData == late > 0 \/ \A t \in Task : got[t] # "other"

\* Every call returns, whatever the peer and the link do.
CallReturns == \A t \in Task : pc[t] # "idle" ~> pc[t] = "idle"

============================================================================
