------------------------------- MODULE Kernel -------------------------------
(***************************************************************************)
(* The life of a BLE session: src/src/main/kernel_task.c, with             *)
(* the GAP event handler and advertising of libs/components/ble/ble_gap.   *)
(*                                                                         *)
(* The SoftDevice task, of higher priority than every other, handles the   *)
(* BLE events; its callbacks store the connection handle and send commands *)
(* through kernel_cmd_q.  The kernel task sets the BLE functions up and    *)
(* tears them down, command by command; each of its GATT calls may take    *)
(* seconds.  The general task starts and stops advertising.                *)
(*                                                                         *)
(* A GATT call counts here for what it does to the client's mutex;         *)
(* GattClient models the calls themselves.                                 *)
(***************************************************************************)
EXTENDS GattTable

CONSTANTS
    KERNEL_TASK_CMD_Q_LEN,
    BondsFull,      \* may BLE_GAP_MAX_BOND_USERS_STORED bonds be stored?
    EagerPeer,      \* may a peer connect before the last session is torn down?
    PromptTask,     \* does the general task go on before anyone connects?
    MaxEvents,      \* room for events in the SoftDevice
    MaxLinks, MaxValues, MaxTimeouts    \* bounds: connections, values, timeouts

ASSUME KernelAssumption ==
    /\ KERNEL_TASK_CMD_Q_LEN \in Nat \ {0}
    /\ {BondsFull, EagerPeer, PromptTask} \subseteq BOOLEAN
    /\ {MaxEvents, MaxLinks, MaxValues, MaxTimeouts} \subseteq Nat

VARIABLES
    \* SoftDevice
    link,                   \* the connection that is up, NoHandle without one
    closing,                \* sd_ble_gap_disconnect was called for it
    advertising,
    events,
    \* gap_inst[0], ble_gap_advertise.c
    ble_gap_conn_handle,
    ble_advertisement_State,
    general,                \* where the general task is in an advertising call
    \* kernel_task.c
    sending,                \* the command the SoftDevice task is sending
    kernel_cmd_q,
    pc,                     \* where the kernel task is
    conn_handle,            \* its local variable
    \* the BLE functions
    client_struct,
    mutex_lost,             \* ble_client_semphr_handle is never given again
    peer, ams, ancs,        \* their conn_handle
    \* bounds and history
    budget,
    refused,                \* pairing over this connection has failed
    lost                    \* its bond was not stored or its end was dropped

softdevice == <<link, closing, advertising>>
adv == <<ble_advertisement_State, general>>
functions == <<client_struct, mutex_lost, peer, ams, ancs>>
vars == <<softdevice, events, ble_gap_conn_handle, adv, sending, kernel_cmd_q,
          pc, conn_handle, functions, budget, refused, lost>>

Conn == Handle \cup {NoHandle}
Cmd == {"disconnected", "connected", "notif_recv", "indic_recv"}
Values == {"notification", "indication"}
Event == [type : {"connected", "disconnected", "timeout", "adv_terminated"} \cup Values,
          conn : Conn]
Labels == {"main", "init", "security", "pairing", "client", "mtu", "peer", "ams",
           "ancs", "ancs_calls", "deinit", "services", "clear", "notif"}

TypeOK ==
    /\ link \in Conn /\ ble_gap_conn_handle \in Conn /\ conn_handle \in Conn
    /\ peer \in Conn /\ ams \in Conn /\ ancs \in Conn
    /\ {closing, advertising, ble_advertisement_State, mutex_lost, refused, lost} \subseteq BOOLEAN
    /\ events \in Seq(Event) /\ Len(events) <= MaxEvents
    /\ general \in {"idle", "started", "stopped"}
    /\ sending \in Cmd \cup {"none"}
    /\ kernel_cmd_q \in Seq(Cmd) /\ Len(kernel_cmd_q) <= KERNEL_TASK_CMD_Q_LEN
    /\ pc \in Labels
    /\ client_struct \in Table
    /\ budget \in [links : 0 .. MaxLinks, values : 0 .. MaxValues, timeouts : 0 .. MaxTimeouts]

\* Kernel_task_preinit.  The handle of ble_ancs_handler is 0 at first, but no
\* value is taken for one of its before it has found its characteristics.
Init ==
    /\ link = NoHandle /\ closing = FALSE /\ advertising = FALSE
    /\ events = <<>>
    /\ ble_gap_conn_handle = NoHandle
    /\ ble_advertisement_State = FALSE /\ general = "idle"
    /\ sending = "none" /\ kernel_cmd_q = <<>>
    /\ pc = "main" /\ conn_handle = NoHandle
    /\ client_struct = EmptyTable /\ mutex_lost = FALSE
    /\ peer = NoHandle /\ ams = NoHandle /\ ancs = NoHandle
    /\ budget = [links |-> MaxLinks, values |-> MaxValues, timeouts |-> MaxTimeouts]
    /\ refused = FALSE /\ lost = FALSE

----------------------------------------------------------------------------
(* Advertising: the general task, on the up and down buttons.               *)

\* sd_ble_gap_adv_start returns NRF_SUCCESS: there is no connection yet.
ble_gap_start_advertise ==
    /\ general = "idle"
    /\ ~ble_advertisement_State
    /\ link = NoHandle /\ ~advertising
    /\ advertising' = TRUE
    /\ general' = "started"
    /\ UNCHANGED <<link, closing, events, ble_gap_conn_handle, ble_advertisement_State,
                   sending, kernel_cmd_q, pc, conn_handle, functions, budget, refused, lost>>

ble_gap_stop_advertise ==
    /\ general = "idle"
    /\ ble_advertisement_State
    /\ advertising
    /\ advertising' = FALSE
    /\ general' = "stopped"
    /\ UNCHANGED <<link, closing, events, ble_gap_conn_handle, ble_advertisement_State,
                   sending, kernel_cmd_q, pc, conn_handle, functions, budget, refused, lost>>

\* The assignment that follows the call of the SoftDevice.
AdvertiseReturns ==
    /\ general # "idle"
    /\ ble_advertisement_State' = (general = "started")
    /\ general' = "idle"
    /\ UNCHANGED <<softdevice, events, ble_gap_conn_handle, sending, kernel_cmd_q, pc,
                   conn_handle, functions, budget, refused, lost>>

----------------------------------------------------------------------------
(* The SoftDevice and the peer.                                             *)

Happens(type, h) ==
    /\ Len(events) < MaxEvents
    /\ events' = Append(events, [type |-> type, conn |-> h])
    /\ UNCHANGED <<ble_gap_conn_handle, adv, sending, kernel_cmd_q, pc, conn_handle,
                   functions>>

\* Nothing of the last session is left to do.
Settled == events = <<>> /\ sending = "none" /\ kernel_cmd_q = <<>> /\ pc = "main"

Connect(h) ==
    /\ advertising
    /\ EagerPeer \/ Settled
    /\ PromptTask => general = "idle"
    /\ budget.links > 0
    /\ link' = h /\ advertising' = FALSE
    /\ budget' = [budget EXCEPT !.links = @ - 1]
    /\ refused' = FALSE /\ lost' = FALSE
    /\ Happens("connected", h)
    /\ UNCHANGED closing

Disconnect ==
    /\ link # NoHandle
    /\ link' = NoHandle /\ closing' = FALSE
    /\ Happens("disconnected", link)
    /\ UNCHANGED <<advertising, budget, refused, lost>>

\* BLE_ADV_DURATION, a minute, is over: the call that started it has returned.
AdvertisingEnds ==
    /\ advertising
    /\ general = "idle"
    /\ advertising' = FALSE
    /\ Happens("adv_terminated", NoHandle)
    /\ UNCHANGED <<link, closing, budget, refused, lost>>

\* The peer does not answer for 30 s, or stops authenticating its payload.
Timeout ==
    /\ link # NoHandle
    /\ budget.timeouts > 0
    /\ budget' = [budget EXCEPT !.timeouts = @ - 1]
    /\ Happens("timeout", link)
    /\ UNCHANGED <<softdevice, refused, lost>>

\* BLE_GATTC_EVT_HVX.
SendValue(type) ==
    /\ link # NoHandle
    /\ budget.values > 0
    /\ budget' = [budget EXCEPT !.values = @ - 1]
    /\ Happens(type, link)
    /\ UNCHANGED <<softdevice, refused, lost>>

----------------------------------------------------------------------------
(* The SoftDevice task.                                                     *)

ble_gap_disconnect(h) == closing' = (closing \/ (link = h /\ h # NoHandle))

Handles(type) ==
    /\ sending = "none"
    /\ events # <<>> /\ Head(events).type = type
    /\ events' = Tail(events)
    /\ UNCHANGED <<link, advertising, general, kernel_cmd_q, pc, conn_handle,
                   functions, budget, refused, lost>>

Stored_Forgets(h) == ble_gap_conn_handle        \* mutant
\* ble_gap_set_conn_handle.
Stored(h) == h

\* Its callback sends before the handler looks at the advertisement.
ble_device_connected_callback ==
    /\ Handles("connected")
    /\ ble_gap_conn_handle' = Stored(Head(events).conn)
    /\ sending' = "connected"
    /\ UNCHANGED <<closing, ble_advertisement_State>>

ble_device_disconnected_callback ==
    /\ Handles("disconnected")
    /\ sending' = "disconnected"
    /\ UNCHANGED <<closing, ble_gap_conn_handle, ble_advertisement_State>>

\* The callbacks of a GAP and of a GATT timeout do the same.
ble_client_timeout_handler ==
    /\ Handles("timeout")
    /\ ble_gap_disconnect(Head(events).conn)
    /\ sending' = "disconnected"
    /\ UNCHANGED <<ble_gap_conn_handle, ble_advertisement_State>>

ForAncs_Any(h) == TRUE      \* mutant
\* ble_ancs_client_event_handler: is a notification one of this session?
ForAncs(h) == ancs = h

ble_client_handle_value_notification ==
    /\ Handles("notification")
    /\ sending' = IF ForAncs(Head(events).conn) THEN "notif_recv" ELSE "none"
    /\ UNCHANGED <<closing, ble_gap_conn_handle, ble_advertisement_State>>

ble_client_handle_value_indication ==
    /\ Handles("indication")
    /\ sending' = "indic_recv"
    /\ UNCHANGED <<closing, ble_gap_conn_handle, ble_advertisement_State>>

AdvSetTerminated ==
    /\ Handles("adv_terminated")
    /\ ble_advertisement_State' = FALSE
    /\ UNCHANGED <<closing, ble_gap_conn_handle, sending>>

AfterConnected_Keeps == ble_advertisement_State     \* mutant
AfterConnected == FALSE

\* The end of kernel_send_cmd, and of the event handler.
Sent ==
    /\ sending' = "none"
    /\ ble_advertisement_State' =
           IF sending = "connected" THEN AfterConnected ELSE ble_advertisement_State
    /\ UNCHANGED <<softdevice, events, ble_gap_conn_handle, general, pc, conn_handle,
                   functions, budget, refused>>

HasRoom_OffByOne == Len(kernel_cmd_q) <= KERNEL_TASK_CMD_Q_LEN      \* mutant
HasRoom == Len(kernel_cmd_q) < KERNEL_TASK_CMD_Q_LEN

kernel_send_cmd ==
    /\ sending # "none"
    /\ HasRoom
    /\ kernel_cmd_q' = Append(kernel_cmd_q, sending)
    /\ UNCHANGED lost
    /\ Sent

\* The kernel task waits: in a procedure, or for a mutex nobody gives.
Slow == \/ pc \in {"pairing", "mtu", "peer", "ams", "ancs", "ancs_calls", "notif"}
        \/ mutex_lost /\ pc \in {"client", "deinit"}

\* KERNEL_CMD_Q_SEND_WAIT has passed and there is still no room.
SendTimeout ==
    /\ sending # "none"
    /\ Len(kernel_cmd_q) = KERNEL_TASK_CMD_Q_LEN
    /\ Slow
    /\ lost' = (lost \/ sending = "disconnected")
    /\ UNCHANGED kernel_cmd_q
    /\ Sent

----------------------------------------------------------------------------
(* The kernel task.                                                         *)

KernelOnly == UNCHANGED <<link, advertising, events, adv, sending, budget>>

Target_SkipsDisconnected(cmd) ==        \* mutant
    CASE cmd = "connected" -> "init"
      [] cmd = "notif_recv" -> "notif"
      [] OTHER -> "main"
Target(cmd) ==
    CASE cmd = "disconnected" -> "deinit"
      [] cmd = "connected" -> "init"
      [] cmd = "notif_recv" -> "notif"
      [] OTHER -> "main"

main_loop ==
    /\ pc = "main"
    /\ kernel_cmd_q # <<>>
    /\ pc' = Target(Head(kernel_cmd_q))
    /\ kernel_cmd_q' = Tail(kernel_cmd_q)
    /\ KernelOnly
    /\ UNCHANGED <<closing, ble_gap_conn_handle, conn_handle, functions, refused, lost>>

Goes(to) ==
    /\ pc' = to
    /\ KernelOnly
    /\ UNCHANGED kernel_cmd_q

ble_funcs_init ==
    /\ pc = "init"
    /\ conn_handle' = ble_gap_conn_handle
    /\ Goes("security")
    /\ UNCHANGED <<closing, ble_gap_conn_handle, functions, refused, lost>>

\* ble_gap_security_init up to sd_ble_gap_authenticate, which fails without
\* an open connection.
SecurityStart ==
    /\ pc = "security"
    /\ Goes(IF ble_gap_conn_handle # NoHandle /\ ble_gap_conn_handle = link /\ ~closing
            THEN "pairing" ELSE "main")
    /\ UNCHANGED <<closing, ble_gap_conn_handle, conn_handle, functions, refused, lost>>

Paired ==
    /\ pc = "pairing"
    /\ Goes("client")
    /\ UNCHANGED <<closing, ble_gap_conn_handle, conn_handle, functions, refused, lost>>

\* A timeout, or an unexpected event.
PairingFails ==
    /\ pc = "pairing"
    /\ Goes("main")
    /\ refused' = TRUE
    /\ UNCHANGED <<closing, ble_gap_conn_handle, conn_handle, functions, lost>>

\* "no more bonds can be stored", which returns nrf_OK.
NoMoreBonds ==
    /\ BondsFull
    /\ pc = "pairing"
    /\ Goes("client")
    /\ ble_gap_disconnect(ble_gap_conn_handle)
    /\ ble_gap_conn_handle' = NoHandle
    /\ refused' = TRUE /\ lost' = TRUE
    /\ UNCHANGED <<conn_handle, functions>>

\* A GATT call on an entry that is not initialised keeps the mutex.
GattCall(h) ==
    mutex_lost' = (mutex_lost \/ (Known(client_struct, h) /\ ~Inited(client_struct, h)))

gatt_client_init ==
    /\ pc = "client"
    /\ Goes("mtu")
    /\ mutex_lost' = (mutex_lost \/ conn_handle = NoHandle)
    /\ client_struct' = IF ~mutex_lost' /\ Known(client_struct, NoHandle)
                        THEN Occupied(client_struct, conn_handle) ELSE client_struct
    /\ UNCHANGED <<closing, ble_gap_conn_handle, conn_handle, peer, ams, ancs, refused, lost>>

gatt_client_set_server_mtu ==
    /\ pc = "mtu"
    /\ Goes("peer")
    /\ GattCall(conn_handle)
    /\ UNCHANGED <<closing, ble_gap_conn_handle, conn_handle, client_struct, peer, ams,
                   ancs, refused, lost>>

\* Stores the handle when all its calls are made.
ble_peer_device_init ==
    /\ pc = "peer"
    /\ Goes("ams")
    /\ GattCall(conn_handle)
    /\ peer' = conn_handle
    /\ UNCHANGED <<closing, ble_gap_conn_handle, conn_handle, client_struct, ams, ancs,
                   refused, lost>>

\* Stores the handle before it makes its calls, as ble_ancs_init does.
ble_ams_init ==
    /\ pc = "ams"
    /\ Goes("ancs")
    /\ IF conn_handle = NoHandle THEN UNCHANGED <<ams, mutex_lost>>
       ELSE ams' = conn_handle /\ GattCall(conn_handle)
    /\ UNCHANGED <<closing, ble_gap_conn_handle, conn_handle, client_struct, peer, ancs,
                   refused, lost>>

ble_ancs_init ==
    /\ pc = "ancs"
    /\ Goes("ancs_calls")
    /\ ancs' = conn_handle
    /\ UNCHANGED <<closing, ble_gap_conn_handle, conn_handle, client_struct, mutex_lost,
                   peer, ams, refused, lost>>

AncsInitReturns ==
    /\ pc = "ancs_calls"
    /\ Goes("main")
    /\ GattCall(conn_handle)
    /\ UNCHANGED <<closing, ble_gap_conn_handle, conn_handle, client_struct, peer, ams,
                   ancs, refused, lost>>

\* ble_funcs_deinit up to the return of gatt_client_deinit.
ble_funcs_deinit ==
    /\ pc = "deinit"
    /\ Goes("services")
    /\ conn_handle' = ble_gap_conn_handle
    /\ client_struct' = IF ~mutex_lost /\ Known(client_struct, ble_gap_conn_handle)
                        THEN Freed(client_struct, ble_gap_conn_handle) ELSE client_struct
    /\ UNCHANGED <<closing, ble_gap_conn_handle, mutex_lost, peer, ams, ancs, refused, lost>>

\* ble_ams_deinit, ble_ancs_deinit, ble_peer_device_info_deinit.
ServicesDeinit ==
    /\ pc = "services"
    /\ Goes("clear")
    /\ ams' = NoHandle /\ ancs' = NoHandle /\ peer' = NoHandle
    /\ UNCHANGED <<closing, ble_gap_conn_handle, conn_handle, client_struct, mutex_lost,
                   refused, lost>>

ble_gap_instance_clear ==
    /\ pc = "clear"
    /\ Goes("main")
    /\ ble_gap_conn_handle' = NoHandle
    /\ UNCHANGED <<closing, conn_handle, functions, refused, lost>>

ble_ancs_process_notif ==
    /\ pc = "notif"
    /\ Goes("main")
    /\ GattCall(ancs)
    /\ UNCHANGED <<closing, ble_gap_conn_handle, conn_handle, client_struct, peer, ams,
                   ancs, refused, lost>>

----------------------------------------------------------------------------
SoftDeviceTask ==
    \/ ble_device_connected_callback \/ ble_device_disconnected_callback
    \/ ble_client_timeout_handler
    \/ ble_client_handle_value_notification \/ ble_client_handle_value_indication
    \/ AdvSetTerminated \/ kernel_send_cmd \/ SendTimeout

KernelTask ==
    \/ main_loop
    \/ ble_funcs_init \/ SecurityStart \/ Paired \/ PairingFails \/ NoMoreBonds
    \/ gatt_client_init \/ gatt_client_set_server_mtu
    \/ ble_peer_device_init \/ ble_ams_init \/ ble_ancs_init \/ AncsInitReturns
    \/ ble_funcs_deinit \/ ServicesDeinit \/ ble_gap_instance_clear
    \/ ble_ancs_process_notif

Next ==
    \/ ble_gap_start_advertise \/ ble_gap_stop_advertise \/ AdvertiseReturns
    \/ \E h \in Handle : Connect(h)
    \/ Disconnect \/ AdvertisingEnds \/ Timeout
    \/ \E type \in Values : SendValue(type)
    \/ SoftDeviceTask
    \/ KernelTask

\* Ready tasks run, and every wait of theirs is bounded.  A connection that is
\* being closed closes; otherwise nothing is assumed of the peer.
Fairness ==
    /\ WF_vars(SoftDeviceTask) /\ WF_vars(KernelTask) /\ WF_vars(AdvertiseReturns)
    /\ WF_vars(closing /\ Disconnect)

Spec == Init /\ [][Next]_vars /\ Fairness

----------------------------------------------------------------------------
(* Properties.                                                              *)

\* Every function knows the connection and the GATT client serves it.
Ready ==
    /\ ble_gap_conn_handle = link
    /\ Inited(client_struct, link)
    /\ peer = link /\ ams = link /\ ancs = link

\* Nothing of a session is left.
Gone ==
    /\ ble_gap_conn_handle = NoHandle
    /\ client_struct = EmptyTable
    /\ peer = NoHandle /\ ams = NoHandle /\ ancs = NoHandle

\* Once the commands of a connection are done its session is set up, unless
\* pairing failed, the connection is being closed, or the GATT client has lost
\* its mutex.
SessionReady ==
    Settled /\ link # NoHandle /\ ~closing /\ ~refused /\ ~mutex_lost => Ready

\* Once the commands of a disconnection are done nothing is left of the session,
\* unless the command was dropped, the bond store was full, or the GATT client
\* has lost its mutex.
SessionGone == Settled /\ link = NoHandle /\ ~lost /\ ~mutex_lost => Gone

\* The GATT client loses its mutex to nothing but a notification that is carried
\* out when a timeout has already torn its session down: neither set-up nor
\* teardown loses it, nor a notification of a session without a timeout.
ClientMutexKept ==
    [][mutex_lost' => \/ mutex_lost
                      \/ pc = "notif" /\ ancs = NoHandle /\ budget.timeouts < MaxTimeouts]_vars

\* When nobody is about to change it, ble_advertisement_State says whether the
\* SoftDevice advertises; otherwise a later start or stop is refused.
AdvertisementStateTrue ==
    general = "idle" /\ events = <<>> /\ sending = "none" =>
        ble_advertisement_State = advertising

\* Every connection is set up in the end, or ends, or fails to pair, unless the
\* GATT client has lost its mutex.
ConnectionServed == link # NoHandle ~> Ready \/ refused \/ link = NoHandle \/ mutex_lost

\* After every disconnection the session is torn down in the end, unless the
\* command was dropped, the bond store was full, or the mutex was lost.
DisconnectionHandled == link = NoHandle ~> Gone \/ lost \/ mutex_lost

============================================================================
