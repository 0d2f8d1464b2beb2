---------------------------- MODULE KernelProofs ----------------------------
(***************************************************************************)
(* Theorems about Kernel, for every queue length, number of connections    *)
(* and bound on the environment: ble_advertisement_State, which two tasks  *)
(* write, agrees with the SoftDevice whenever both have written it; and    *)
(* with one connection, as the firmware is built, whose peer waits for the *)
(* end of the last session, every session that lasts is set up, every one  *)
(* that is over is torn down, and the GATT client keeps its mutex.         *)
(***************************************************************************)
EXTENDS Kernel, TLAPS

EndsAdvertising == {"connected", "adv_terminated"}

\* The types of what advertising depends on.
AdvTypes ==
    /\ advertising \in BOOLEAN
    /\ ble_advertisement_State \in BOOLEAN
    /\ general \in {"idle", "started", "stopped"}
    /\ events \in Seq(Event)

\* An end of the advertisement, ble_advertisement_State has not been told of yet.
EventEnds == \E i \in 1 .. Len(events) : events[i].type \in EndsAdvertising
Pending == EventEnds \/ sending = "connected"

\* There is one such end at most.
OnlyOneEnd ==
    /\ \A i, j \in 1 .. Len(events) :
           events[i].type \in EndsAdvertising /\ events[j].type \in EndsAdvertising => i = j
    /\ sending = "connected" => ~EventEnds

\* Who owes ble_advertisement_State its next assignment.
AdvOwed ==
    /\ general = "started" => advertising /\ ~ble_advertisement_State
    /\ general = "stopped" => ~advertising /\ ble_advertisement_State /\ ~Pending
    /\ Pending => ~advertising /\ ble_advertisement_State
    /\ general = "idle" => (ble_advertisement_State <=> advertising \/ Pending)

AdvInv == AdvTypes /\ OnlyOneEnd /\ AdvOwed

LEMMA AdvInit == Init => AdvInv
<1> SUFFICES ASSUME Init PROVE AdvInv
  OBVIOUS
<1> USE DEF Init
<1>1. AdvTypes
  <2>1. events \in Seq(Event)
    OBVIOUS
  <2> QED
    BY <2>1 DEF AdvTypes
<1>2. Len(events) = 0 /\ ~EventEnds /\ ~Pending
  BY DEF EventEnds, Pending
<1>3. OnlyOneEnd
  BY <1>2 DEF OnlyOneEnd
<1>4. AdvOwed
  BY <1>2 DEF AdvOwed
<1> QED
  BY <1>1, <1>3, <1>4 DEF AdvInv

\* Values, timeouts and disconnections are queued: nothing here changes.
LEMMA OtherEvent ==
  ASSUME AdvInv, NEW e \in Event, e.type \notin EndsAdvertising,
         events' = Append(events, e),
         UNCHANGED <<advertising, ble_advertisement_State, general, sending>>
  PROVE  AdvInv'
<1> USE DEF AdvInv, AdvTypes
<1>1. events' \in Seq(Event) /\ Len(events') = Len(events) + 1
  OBVIOUS
<1>2. \A i \in 1 .. Len(events') :
          events'[i].type \in EndsAdvertising => i \in 1 .. Len(events) /\ events'[i] = events[i]
  BY <1>1
<1>3. \A i \in 1 .. Len(events) : i \in 1 .. Len(events') /\ events'[i] = events[i]
  BY <1>1
<1>4. EventEnds' <=> EventEnds
  BY <1>2, <1>3 DEF EventEnds
<1>5. OnlyOneEnd'
  BY <1>2, <1>4 DEF OnlyOneEnd
<1> QED
  BY <1>1, <1>4, <1>5 DEF AdvOwed, Pending

\* The advertisement ends: the only end there is.
LEMMA EndEvent ==
  ASSUME AdvInv, NEW e \in Event, e.type \in EndsAdvertising, advertising, general = "idle",
         events' = Append(events, e), ~advertising',
         advertising' \in BOOLEAN,
         UNCHANGED <<ble_advertisement_State, general, sending>>
  PROVE  AdvInv'
<1> USE DEF AdvInv, AdvTypes
<1>1. events' \in Seq(Event) /\ Len(events') = Len(events) + 1
  OBVIOUS
<1>2. ~EventEnds /\ sending # "connected" /\ ble_advertisement_State
  BY DEF AdvOwed, Pending
<1>3. \A i \in 1 .. Len(events') : events'[i].type \in EndsAdvertising => i = Len(events')
  BY <1>1, <1>2 DEF EventEnds
<1>4. events'[Len(events')] = e /\ Len(events') \in 1 .. Len(events')
  BY <1>1
<1>5. EventEnds'
  BY <1>4 DEF EventEnds
<1>6. OnlyOneEnd'
  BY <1>2, <1>3 DEF OnlyOneEnd
<1> QED
  BY <1>1, <1>2, <1>5, <1>6 DEF AdvOwed, Pending

\* The SoftDevice task takes the first event.
LEMMA EventTaken ==
  ASSUME AdvInv, events # <<>>, events' = Tail(events)
  PROVE  /\ events' \in Seq(Event)
         /\ EventEnds => (EventEnds' <=> Head(events).type \notin EndsAdvertising)
         /\ ~EventEnds => ~EventEnds'
         /\ \A i, j \in 1 .. Len(events') :
              events'[i].type \in EndsAdvertising /\ events'[j].type \in EndsAdvertising => i = j
<1> USE DEF AdvInv, AdvTypes
<1>1. /\ events' \in Seq(Event) /\ Len(events') + 1 = Len(events)
      /\ Len(events) \in Nat /\ Len(events') \in Nat
      /\ \A i \in 1 .. Len(events') : i + 1 \in 1 .. Len(events) /\ events'[i] = events[i + 1]
  OBVIOUS
<1>2. Head(events) = events[1] /\ 1 \in 1 .. Len(events)
  BY <1>1
<1>3. \A i \in 1 .. Len(events) : i # 1 => i - 1 \in 1 .. Len(events') /\ events'[i - 1] = events[i]
  BY <1>1
<1>4. \A i, j \in 1 .. Len(events') :
          events'[i].type \in EndsAdvertising /\ events'[j].type \in EndsAdvertising => i = j
  <2> SUFFICES ASSUME NEW i \in 1 .. Len(events'), NEW j \in 1 .. Len(events'),
                      events'[i].type \in EndsAdvertising, events'[j].type \in EndsAdvertising
               PROVE  i = j
    OBVIOUS
  <2>1. i + 1 = j + 1
    BY <1>1 DEF OnlyOneEnd
  <2> QED
    BY <2>1, <1>1
<1>5. EventEnds' => EventEnds
  BY <1>1 DEF EventEnds
<1>6. EventEnds' => Head(events).type \notin EndsAdvertising
  <2> SUFFICES ASSUME NEW i \in 1 .. Len(events'), events'[i].type \in EndsAdvertising,
                      Head(events).type \in EndsAdvertising
               PROVE  FALSE
    BY DEF EventEnds
  <2>1. i + 1 = 1
    BY <1>1, <1>2 DEF OnlyOneEnd
  <2> QED
    BY <2>1, <1>1
<1>7. EventEnds /\ Head(events).type \notin EndsAdvertising => EventEnds'
  BY <1>2, <1>3 DEF EventEnds
<1> QED
  BY <1>1, <1>4, <1>5, <1>6, <1>7

LEMMA GeneralStep ==
  ASSUME AdvInv, ble_gap_start_advertise \/ ble_gap_stop_advertise \/ AdvertiseReturns
  PROVE  AdvInv'
<1> USE DEF AdvInv, AdvTypes, AdvOwed, OnlyOneEnd, Pending, EventEnds
<1>1. CASE ble_gap_start_advertise
  BY <1>1 DEF ble_gap_start_advertise
<1>2. CASE ble_gap_stop_advertise
  BY <1>2 DEF ble_gap_stop_advertise
<1>3. CASE AdvertiseReturns
  BY <1>3 DEF AdvertiseReturns, softdevice
<1> QED
  BY <1>1, <1>2, <1>3

LEMMA PeerStep ==
  ASSUME AdvInv, PromptTask, link \in Conn,
         \/ \E h \in Handle : Connect(h)
         \/ Disconnect \/ AdvertisingEnds \/ Timeout \/ \E type \in Values : SendValue(type)
  PROVE  AdvInv'
<1> USE DEF Happens, adv
<1>1. ASSUME NEW h \in Handle, Connect(h) PROVE AdvInv'
  <2> DEFINE e == [type |-> "connected", conn |-> h]
  <2>1. e \in Event /\ e.type \in EndsAdvertising
    BY DEF Event, Conn, EndsAdvertising
  <2> QED
    BY <1>1, <2>1, EndEvent DEF Connect
<1>2. CASE AdvertisingEnds
  <2> DEFINE e == [type |-> "adv_terminated", conn |-> NoHandle]
  <2>1. e \in Event /\ e.type \in EndsAdvertising
    BY DEF Event, Conn, EndsAdvertising
  <2> QED
    BY <1>2, <2>1, EndEvent DEF AdvertisingEnds
<1>3. ASSUME NEW type \in Values \cup {"disconnected", "timeout"},
             events' = Append(events, [type |-> type, conn |-> link]),
             UNCHANGED <<advertising, adv, sending>>
      PROVE  AdvInv'
  <2> DEFINE e == [type |-> type, conn |-> link]
  <2>1. e \in Event /\ e.type \notin EndsAdvertising
    BY DEF Event, Values, EndsAdvertising
  <2> QED
    BY <1>3, <2>1, OtherEvent
<1>4. CASE Disconnect
  BY <1>4, <1>3 DEF Disconnect
<1>5. CASE Timeout
  BY <1>5, <1>3 DEF Timeout, softdevice
<1>6. ASSUME NEW type \in Values, SendValue(type) PROVE AdvInv'
  BY <1>6, <1>3 DEF SendValue, softdevice
<1> QED
  BY <1>1, <1>2, <1>4, <1>5, <1>6


LEMMA HandlerStep ==
  ASSUME AdvInv,
         \/ ble_device_connected_callback \/ ble_device_disconnected_callback
         \/ ble_client_timeout_handler \/ ble_client_handle_value_notification
         \/ ble_client_handle_value_indication \/ AdvSetTerminated
  PROVE  AdvInv'
<1> USE DEF Handles
<1>1. ASSUME Handles("disconnected") \/ Handles("timeout") \/ Handles("notification")
                 \/ Handles("indication"),
             UNCHANGED ble_advertisement_State, sending' # "connected"
      PROVE  AdvInv'
  <2>1. /\ events # <<>> /\ events' = Tail(events) /\ sending # "connected"
        /\ Head(events).type \notin EndsAdvertising
        /\ UNCHANGED <<advertising, general>>
    BY <1>1 DEF EndsAdvertising
  <2>2. EventEnds' <=> EventEnds
    BY <2>1, EventTaken
  <2>3. OnlyOneEnd'
    BY <1>1, <2>1, EventTaken DEF OnlyOneEnd
  <2> QED
    BY <1>1, <2>1, <2>2, <2>3, EventTaken DEF AdvInv, AdvTypes, AdvOwed, Pending
<1>2. ASSUME Handles("connected") \/ Handles("adv_terminated")
      PROVE  /\ EventEnds /\ ~EventEnds'
             /\ events' \in Seq(Event) /\ ~advertising' /\ UNCHANGED <<advertising, general>>
             /\ ble_advertisement_State /\ general = "idle"
             /\ OnlyOneEnd' <=> TRUE
  <2>1. /\ events # <<>> /\ events' = Tail(events) /\ sending # "connected"
        /\ Head(events).type \in EndsAdvertising
        /\ UNCHANGED <<advertising, general>>
    BY <1>2 DEF EndsAdvertising
  <2>2. EventEnds
    BY <2>1 DEF AdvInv, AdvTypes, EventEnds
  <2>3. ~EventEnds'
    BY <2>1, <2>2, EventTaken
  <2>4. OnlyOneEnd'
    BY <2>1, <2>3, EventTaken DEF OnlyOneEnd
  <2>5. ble_advertisement_State /\ general = "idle" /\ ~advertising
    BY <2>2 DEF AdvInv, AdvTypes, AdvOwed, Pending
  <2> QED
    BY <2>1, <2>2, <2>3, <2>4, <2>5, EventTaken
<1>3. CASE ble_device_connected_callback
  BY <1>3, <1>2 DEF ble_device_connected_callback, AdvInv, AdvTypes, AdvOwed, Pending
<1>4. CASE AdvSetTerminated
  BY <1>4, <1>2 DEF AdvSetTerminated, AdvInv, AdvTypes, AdvOwed, Pending
<1>5. CASE ble_device_disconnected_callback
  BY <1>5, <1>1 DEF ble_device_disconnected_callback
<1>6. CASE ble_client_timeout_handler
  BY <1>6, <1>1 DEF ble_client_timeout_handler
<1>7. CASE ble_client_handle_value_notification
  BY <1>7, <1>1 DEF ble_client_handle_value_notification
<1>8. CASE ble_client_handle_value_indication
  BY <1>8, <1>1 DEF ble_client_handle_value_indication
<1> QED
  BY <1>3, <1>4, <1>5, <1>6, <1>7, <1>8

LEMMA SendStep ==
  ASSUME AdvInv, kernel_send_cmd \/ SendTimeout
  PROVE  AdvInv'
<1>1. sending # "none" /\ Sent
  BY DEF kernel_send_cmd, SendTimeout
<1>2. /\ UNCHANGED <<advertising, events, general>> /\ sending' = "none"
      /\ ble_advertisement_State' =
             IF sending = "connected" THEN FALSE ELSE ble_advertisement_State
  BY <1>1 DEF Sent, AfterConnected, softdevice
<1>3. EventEnds' <=> EventEnds
  BY <1>2 DEF EventEnds
<1>4. AdvTypes' /\ OnlyOneEnd'
  BY <1>2, <1>3 DEF AdvInv, AdvTypes, OnlyOneEnd
<1>5. AdvOwed'
  <2>1. CASE sending = "connected"
    BY <2>1, <1>2, <1>3 DEF AdvInv, AdvTypes, OnlyOneEnd, AdvOwed, Pending
  <2>2. CASE sending # "connected"
    BY <2>2, <1>2, <1>3 DEF AdvInv, AdvTypes, AdvOwed, Pending
  <2> QED
    BY <2>1, <2>2
<1> QED
  BY <1>4, <1>5 DEF AdvInv

\* The kernel task has no part in it.
LEMMA KernelStep == KernelTask => UNCHANGED <<link, advertising, events, adv, sending>>
<1> USE DEF KernelOnly, Goes
<1>1. main_loop \/ ble_funcs_init \/ SecurityStart \/ Paired \/ PairingFails \/ NoMoreBonds
          => KernelOnly
  BY DEF main_loop, ble_funcs_init, SecurityStart, Paired, PairingFails, NoMoreBonds
<1>2. gatt_client_init \/ gatt_client_set_server_mtu \/ ble_peer_device_init \/ ble_ams_init
          \/ ble_ancs_init \/ AncsInitReturns => KernelOnly
  BY DEF gatt_client_init, gatt_client_set_server_mtu, ble_peer_device_init, ble_ams_init,
         ble_ancs_init, AncsInitReturns
<1>3. ble_funcs_deinit \/ ServicesDeinit \/ ble_gap_instance_clear \/ ble_ancs_process_notif
          => KernelOnly
  BY DEF ble_funcs_deinit, ServicesDeinit, ble_gap_instance_clear, ble_ancs_process_notif
<1> QED
  BY <1>1, <1>2, <1>3 DEF KernelTask

LEMMA LinkType == Init => link \in Conn
  BY DEF Init, Conn

LEMMA LinkStep == link \in Conn /\ [Next]_vars => link' \in Conn
<1> SUFFICES ASSUME link \in Conn, [Next]_vars PROVE link' \in Conn
  OBVIOUS
<1>1. ASSUME NEW h \in Handle, Connect(h) PROVE link' \in Conn
  BY <1>1 DEF Connect, Conn
<1>2. CASE Disconnect
  BY <1>2 DEF Disconnect, Conn
<1>3. ble_gap_start_advertise \/ ble_gap_stop_advertise \/ AdvertiseReturns => UNCHANGED link
  BY DEF ble_gap_start_advertise, ble_gap_stop_advertise, AdvertiseReturns, softdevice
<1>4. AdvertisingEnds \/ Timeout \/ (\E type \in Values : SendValue(type)) => UNCHANGED link
  BY DEF AdvertisingEnds, Timeout, SendValue, softdevice
<1>5. SoftDeviceTask => UNCHANGED link
  BY DEF SoftDeviceTask, ble_device_connected_callback, ble_device_disconnected_callback,
         ble_client_timeout_handler, ble_client_handle_value_notification,
         ble_client_handle_value_indication, AdvSetTerminated, Handles, kernel_send_cmd,
         SendTimeout, Sent, softdevice
<1>6. KernelTask => UNCHANGED link
  BY KernelStep
<1>7. CASE UNCHANGED vars
  BY <1>7 DEF vars, softdevice
<1> QED
  BY <1>1, <1>2, <1>3, <1>4, <1>5, <1>6, <1>7 DEF Next

LEMMA AdvNext == PromptTask /\ link \in Conn /\ AdvInv /\ [Next]_vars => AdvInv'
<1> SUFFICES ASSUME PromptTask, link \in Conn, AdvInv, [Next]_vars PROVE AdvInv'
  OBVIOUS
<1>1. CASE SoftDeviceTask
  BY <1>1, HandlerStep, SendStep DEF SoftDeviceTask
<1>2. CASE UNCHANGED <<link, advertising, events, adv, sending>>
  BY <1>2 DEF adv, AdvInv, AdvTypes, OnlyOneEnd, AdvOwed, Pending, EventEnds
<1>3. CASE UNCHANGED vars
  BY <1>2, <1>3 DEF vars, softdevice
<1> QED
  BY <1>1, <1>2, <1>3, GeneralStep, PeerStep, KernelStep DEF Next

\* When neither task is about to assign ble_advertisement_State, it says whether
\* the SoftDevice advertises, provided the general task is not overtaken between
\* the SoftDevice's call and its own assignment (ble_gap_advertise.c 192-195).
THEOREM ButtonsKeepWorking ==
  ASSUME PromptTask
  PROVE  Spec => []AdvertisementStateTrue
<1> DEFINE Inv == link \in Conn /\ AdvInv
<1>1. Init => Inv
  BY AdvInit, LinkType
<1>2. Inv /\ [Next]_vars => Inv'
  BY AdvNext, LinkStep
<1>3. Inv => AdvertisementStateTrue
  BY DEF AdvInv, AdvTypes, AdvOwed, Pending, EventEnds, AdvertisementStateTrue
<1> QED
  BY <1>1, <1>2, <1>3, PTL DEF Spec

----------------------------------------------------------------------------
(***************************************************************************)
(* Sessions, as the firmware is built, with one connection and one GATT    *)
(* client, and of a peer that connects again when the last session is torn *)
(* down.                                                                   *)
(*                                                                         *)
(* A command goes from events through sending and kernel_cmd_q to pc.      *)
(* The invariant rests on the order on that way: "connected" is in front   *)
(* of everything, and as long as nothing has timed out no notification     *)
(* comes behind the end of the connection.  Behind a timeout one may come, *)
(* and takes the mutex of the GATT client with it; what is said of the     *)
(* sessions holds until then.                                              *)
(***************************************************************************)
h0 == CHOOSE h \in Handle : TRUE
FirmwareLimits == Handle = {h0} /\ Clients = 1
PatientPeer == ~EagerPeer
SessionLimits == FirmwareLimits /\ PatientPeer

\* What is queued; what is queued behind the first; what is queued behind an end.
Ends == {"disconnected", "timeout"}
EventTypes == {events[k].type : k \in 1 .. Len(events)}
LaterTypes == {events[k].type : k \in 2 .. Len(events)}
TypesBehindEnd ==
    {events[k].type : k \in {n \in 1 .. Len(events) : \E m \in 1 .. n - 1 : events[m].type \in Ends}}
Queued == {kernel_cmd_q[k] : k \in 1 .. Len(kernel_cmd_q)}
LaterQueued == {kernel_cmd_q[k] : k \in 2 .. Len(kernel_cmd_q)}
QueuedBehindEnd ==
    {kernel_cmd_q[k] : k \in {n \in 1 .. Len(kernel_cmd_q) :
                                 \E m \in 1 .. n - 1 : kernel_cmd_q[m] = "disconnected"}}

LEMMA EventAppended ==
  ASSUME NEW S, events \in Seq(S), NEW e \in S, events' = Append(events, e)
  PROVE  /\ events' \in Seq(S)
         /\ EventTypes' = EventTypes \cup {e.type}
         /\ LaterTypes' = IF events = <<>> THEN {} ELSE LaterTypes \cup {e.type}
         /\ TypesBehindEnd' = IF EventTypes \cap Ends = {} THEN TypesBehindEnd
                              ELSE TypesBehindEnd \cup {e.type}
<1>1. /\ events' \in Seq(S) /\ Len(events') = Len(events) + 1 /\ Len(events) \in Nat
      /\ \A k \in 1 .. Len(events) : k \in 1 .. Len(events') /\ events'[k] = events[k]
      /\ events'[Len(events')] = e /\ Len(events') \in 1 .. Len(events')
      /\ \A k \in 1 .. Len(events') : k \in 1 .. Len(events) \/ k = Len(events')
      /\ events = <<>> <=> Len(events) = 0
  OBVIOUS
<1>2. EventTypes' = EventTypes \cup {e.type}
  BY <1>1 DEF EventTypes
<1>3. LaterTypes' = IF events = <<>> THEN {} ELSE LaterTypes \cup {e.type}
  BY <1>1 DEF LaterTypes
<1>4. TypesBehindEnd' = IF EventTypes \cap Ends = {} THEN TypesBehindEnd
                        ELSE TypesBehindEnd \cup {e.type}
  <2>1. ASSUME NEW n \in 1 .. Len(events)
        PROVE  (\E m \in 1 .. n - 1 : events'[m].type \in Ends)
                   <=> (\E m \in 1 .. n - 1 : events[m].type \in Ends)
    BY <1>1
  <2>2. (\E m \in 1 .. Len(events') - 1 : events'[m].type \in Ends)
            <=> EventTypes \cap Ends # {}
    BY <1>1 DEF EventTypes
  <2> QED
    BY <1>1, <2>1, <2>2 DEF TypesBehindEnd
<1> QED
  BY <1>1, <1>2, <1>3, <1>4

LEMMA EventRemoved ==
  ASSUME NEW S, events \in Seq(S), events # <<>>, events' = Tail(events)
  PROVE  /\ events' \in Seq(S) /\ Head(events) \in S
         /\ EventTypes = EventTypes' \cup {Head(events).type}
         /\ EventTypes' = LaterTypes /\ LaterTypes' \subseteq LaterTypes
         /\ TypesBehindEnd' \subseteq TypesBehindEnd
         /\ Head(events).type \in Ends => EventTypes' \subseteq TypesBehindEnd
<1>1. /\ events' \in Seq(S) /\ Len(events') + 1 = Len(events)
      /\ Len(events) \in Nat /\ Len(events') \in Nat
      /\ \A k \in 1 .. Len(events') : k + 1 \in 2 .. Len(events) /\ events'[k] = events[k + 1]
      /\ \A k \in 2 .. Len(events) : k - 1 \in 1 .. Len(events') /\ events'[k - 1] = events[k]
      /\ Head(events) = events[1] /\ 1 \in 1 .. Len(events) /\ Head(events) \in S
  OBVIOUS
<1>2. EventTypes' = LaterTypes
  <2>1. EventTypes' \subseteq LaterTypes
    BY <1>1 DEF EventTypes, LaterTypes
  <2>2. ASSUME NEW k \in 2 .. Len(events) PROVE events[k].type \in EventTypes'
    <3>1. k - 1 \in 1 .. Len(events') /\ events'[k - 1] = events[k]
      BY <1>1
    <3> QED
      BY <3>1 DEF EventTypes
  <2> QED
    BY <2>1, <2>2 DEF LaterTypes
<1>3. LaterTypes' \subseteq LaterTypes
  BY <1>1 DEF LaterTypes
<1>4. EventTypes = LaterTypes \cup {Head(events).type}
  BY <1>1 DEF EventTypes, LaterTypes
<1>5. TypesBehindEnd' \subseteq TypesBehindEnd
  <2> SUFFICES ASSUME NEW n \in 1 .. Len(events'), NEW m \in 1 .. n - 1,
                      events'[m].type \in Ends
               PROVE  events'[n].type \in TypesBehindEnd
    BY DEF TypesBehindEnd
  <2>1. n + 1 \in 1 .. Len(events) /\ m + 1 \in 1 .. (n + 1) - 1 /\ events[m + 1].type \in Ends
    BY <1>1
  <2> QED
    BY <1>1, <2>1 DEF TypesBehindEnd
<1>6. Head(events).type \in Ends => EventTypes' \subseteq TypesBehindEnd
  <2> SUFFICES ASSUME Head(events).type \in Ends, NEW k \in 2 .. Len(events)
               PROVE  events[k].type \in TypesBehindEnd
    BY <1>2 DEF LaterTypes
  <2>1. k \in 1 .. Len(events) /\ 1 \in 1 .. k - 1 /\ events[1].type \in Ends
    BY <1>1
  <2> QED
    BY <2>1 DEF TypesBehindEnd
<1> QED
  BY <1>1, <1>2, <1>3, <1>4, <1>5, <1>6

LEMMA CommandAppended ==
  ASSUME kernel_cmd_q \in Seq(Cmd), NEW c \in Cmd, kernel_cmd_q' = Append(kernel_cmd_q, c)
  PROVE  /\ kernel_cmd_q' \in Seq(Cmd) /\ kernel_cmd_q' # <<>>
         /\ Queued' = Queued \cup {c}
         /\ LaterQueued' = IF kernel_cmd_q = <<>> THEN {} ELSE LaterQueued \cup {c}
         /\ QueuedBehindEnd' = IF "disconnected" \in Queued THEN QueuedBehindEnd \cup {c}
                               ELSE QueuedBehindEnd
<1> DEFINE q == kernel_cmd_q
<1>1. /\ q' \in Seq(Cmd) /\ Len(q') = Len(q) + 1 /\ Len(q) \in Nat
      /\ \A k \in 1 .. Len(q) : k \in 1 .. Len(q') /\ q'[k] = q[k]
      /\ q'[Len(q')] = c /\ Len(q') \in 1 .. Len(q')
      /\ \A k \in 1 .. Len(q') : k \in 1 .. Len(q) \/ k = Len(q')
      /\ q = <<>> <=> Len(q) = 0
      /\ q' # <<>>
  OBVIOUS
<1>2. Queued' = Queued \cup {c}
  BY <1>1 DEF Queued
<1>3. LaterQueued' = IF kernel_cmd_q = <<>> THEN {} ELSE LaterQueued \cup {c}
  BY <1>1 DEF LaterQueued
<1>4. QueuedBehindEnd' = IF "disconnected" \in Queued THEN QueuedBehindEnd \cup {c}
                         ELSE QueuedBehindEnd
  <2>1. ASSUME NEW n \in 1 .. Len(q)
        PROVE  (\E m \in 1 .. n - 1 : q'[m] = "disconnected")
                   <=> (\E m \in 1 .. n - 1 : q[m] = "disconnected")
    BY <1>1
  <2>2. (\E m \in 1 .. Len(q') - 1 : q'[m] = "disconnected") <=> "disconnected" \in Queued
    BY <1>1 DEF Queued
  <2> QED
    BY <1>1, <2>1, <2>2 DEF QueuedBehindEnd
<1> QED
  BY <1>1, <1>2, <1>3, <1>4

LEMMA CommandRemoved ==
  ASSUME kernel_cmd_q \in Seq(Cmd), kernel_cmd_q # <<>>, kernel_cmd_q' = Tail(kernel_cmd_q)
  PROVE  /\ kernel_cmd_q' \in Seq(Cmd) /\ Head(kernel_cmd_q) \in Cmd
         /\ Queued = Queued' \cup {Head(kernel_cmd_q)}
         /\ Queued' = LaterQueued /\ LaterQueued' \subseteq LaterQueued
         /\ QueuedBehindEnd' \subseteq QueuedBehindEnd
         /\ Head(kernel_cmd_q) = "disconnected" => Queued' \subseteq QueuedBehindEnd
<1> DEFINE q == kernel_cmd_q
<1>1. /\ q' \in Seq(Cmd) /\ Len(q') + 1 = Len(q) /\ Len(q) \in Nat /\ Len(q') \in Nat
      /\ \A k \in 1 .. Len(q') : k + 1 \in 2 .. Len(q) /\ q'[k] = q[k + 1]
      /\ \A k \in 2 .. Len(q) : k - 1 \in 1 .. Len(q') /\ q'[k - 1] = q[k]
      /\ Head(q) = q[1] /\ 1 \in 1 .. Len(q) /\ Head(q) \in Cmd
  OBVIOUS
<1>2. Queued' = LaterQueued
  <2>1. Queued' \subseteq LaterQueued
    BY <1>1 DEF Queued, LaterQueued
  <2>2. LaterQueued \subseteq Queued'
    BY <1>1 DEF Queued, LaterQueued
  <2> QED
    BY <2>1, <2>2
<1>3. LaterQueued' \subseteq LaterQueued
  BY <1>1 DEF LaterQueued
<1>4. Queued = LaterQueued \cup {Head(q)}
  BY <1>1 DEF Queued, LaterQueued
<1>5. QueuedBehindEnd' \subseteq QueuedBehindEnd
  <2> SUFFICES ASSUME NEW n \in 1 .. Len(q'), NEW m \in 1 .. n - 1, q'[m] = "disconnected"
               PROVE  q'[n] \in QueuedBehindEnd
    BY DEF QueuedBehindEnd
  <2>1. n + 1 \in 1 .. Len(q) /\ m + 1 \in 1 .. (n + 1) - 1 /\ q[m + 1] = "disconnected"
    BY <1>1
  <2> QED
    BY <1>1, <2>1 DEF QueuedBehindEnd
<1>6. Head(q) = "disconnected" => Queued' \subseteq QueuedBehindEnd
  <2> SUFFICES ASSUME Head(q) = "disconnected", NEW k \in 2 .. Len(q)
               PROVE  q[k] \in QueuedBehindEnd
    BY <1>2 DEF LaterQueued
  <2>1. k \in 1 .. Len(q) /\ 1 \in 1 .. k - 1 /\ q[1] = "disconnected"
    BY <1>1
  <2> QED
    BY <2>1 DEF QueuedBehindEnd
<1> QED
  BY <1>1, <1>2, <1>3, <1>4, <1>5, <1>6

\* The searches of the GATT client in its one entry.
Free == client_struct = [k \in 1 .. 1 |-> FreeClient]
Mine == client_struct = [k \in 1 .. 1 |-> [conn_handle |-> h0, client_inited |-> TRUE]]

LEMMA Searches ==
  ASSUME SessionLimits
  PROVE  /\ h0 \in Handle /\ h0 # NoHandle
         /\ Free => /\ ~Known(client_struct, h0) /\ Known(client_struct, NoHandle)
                    /\ ~Inited(client_struct, NoHandle)
                    /\ Freed(client_struct, NoHandle) = client_struct
                    /\ Occupied(client_struct, h0)
                          = [k \in 1 .. 1 |-> [conn_handle |-> h0, client_inited |-> TRUE]]
                    /\ client_struct = EmptyTable
         /\ Mine => /\ Inited(client_struct, h0) /\ Known(client_struct, h0)
                    /\ ~Known(client_struct, NoHandle)
                    /\ Freed(client_struct, h0) = [k \in 1 .. 1 |-> FreeClient]
<1> USE TableAssumption DEF SessionLimits, FirmwareLimits, PatientPeer
<1>1. h0 \in Handle /\ h0 # NoHandle
  OBVIOUS
<1>2. ASSUME NEW c, NEW h, client_struct = [k \in 1 .. 1 |-> c]
      PROVE  Find(client_struct, h) = IF c.conn_handle = h THEN 1 ELSE 0
  <2> DEFINE I == {k \in 1 .. Len(client_struct) : client_struct[k].conn_handle = h}
  <2>1. Find(client_struct, h) = IF I # {} THEN Min(I) ELSE 0
    BY DEF Find, SelectInSeq
  <2>2. Len(client_struct) = 1
    BY <1>2
  <2>3. I = IF c.conn_handle = h THEN {1} ELSE {}
    BY <1>2, <2>2
  <2>4. Min({1}) = 1
    BY DEF Min
  <2> HIDE DEF I
  <2> QED
    BY <2>1, <2>3, <2>4
<1>3. ASSUME Free
      PROVE  /\ Find(client_struct, h0) = 0 /\ Find(client_struct, NoHandle) = 1
  <2>1. client_struct = [k \in 1 .. 1 |-> FreeClient]
    BY <1>3 DEF Free
  <2>2. \A h : Find(client_struct, h) = IF FreeClient.conn_handle = h THEN 1 ELSE 0
    BY <2>1, <1>2
  <2> QED
    BY <1>1, <2>2 DEF FreeClient
<1>4. ASSUME Mine
      PROVE  /\ Find(client_struct, h0) = 1 /\ Find(client_struct, NoHandle) = 0
  <2> DEFINE mine == [conn_handle |-> h0, client_inited |-> TRUE]
  <2>1. client_struct = [k \in 1 .. 1 |-> mine] /\ mine.conn_handle = h0
    BY <1>4 DEF Mine
  <2> HIDE DEF mine
  <2>2. \A h : Find(client_struct, h) = IF mine.conn_handle = h THEN 1 ELSE 0
    BY <2>1, <1>2
  <2> QED
    BY <1>1, <2>1, <2>2
<1>5. CASE Free
  <2>1. /\ ~Known(client_struct, h0) /\ Known(client_struct, NoHandle)
        /\ ~Inited(client_struct, NoHandle)
    BY <1>3, <1>5 DEF Known, Inited, Free, FreeClient
  <2>2. /\ Freed(client_struct, NoHandle) = client_struct
        /\ Occupied(client_struct, h0)
              = [k \in 1 .. 1 |-> [conn_handle |-> h0, client_inited |-> TRUE]]
        /\ client_struct = EmptyTable
    <3>1. client_struct = [k \in 1 .. 1 |-> FreeClient] /\ Find(client_struct, NoHandle) = 1
      BY <1>3, <1>5 DEF Free
    <3>2. Freed(client_struct, NoHandle) = client_struct
      BY <3>1 DEF Freed
    <3>3. Occupied(client_struct, h0)
              = [k \in 1 .. 1 |-> [conn_handle |-> h0, client_inited |-> TRUE]]
      <4> DEFINE mine == [conn_handle |-> h0, client_inited |-> TRUE]
      <4>1. Occupied(client_struct, h0) = [client_struct EXCEPT ![1] = mine]
        BY <3>1 DEF Occupied
      <4> HIDE DEF mine
      <4>2. [client_struct EXCEPT ![1] = mine] = [k \in 1 .. 1 |-> mine]
        BY <3>1
      <4> QED
        BY <4>1, <4>2 DEF mine
    <3>4. client_struct = EmptyTable
      BY <3>1 DEF EmptyTable
    <3> QED
      BY <3>2, <3>3, <3>4
  <2>3. ~Mine
    BY <1>1, <1>5 DEF Free, Mine, FreeClient
  <2> QED
    BY <1>1, <2>1, <2>2, <2>3
<1>6. CASE Mine
  <2>1. /\ Inited(client_struct, h0) /\ Known(client_struct, h0)
        /\ ~Known(client_struct, NoHandle)
    BY <1>4, <1>6 DEF Known, Inited, Mine
  <2>2. Freed(client_struct, h0) = [k \in 1 .. 1 |-> FreeClient]
    BY <1>4, <1>6 DEF Freed, Mine
  <2>3. ~Free
    BY <1>1, <1>6 DEF Free, Mine, FreeClient
  <2> QED
    BY <1>1, <2>1, <2>2, <2>3
<1> QED
  BY <1>1, <1>5, <1>6

----------------------------------------------------------------------------
SessionEvent == {e \in Event : e.type # "adv_terminated" => e.conn = h0}
TearDown == {"deinit", "services", "clear"}
Resting == {"main", "notif"}
SetUp == Labels \ (TearDown \cup Resting)

SessionTypes ==
    /\ link \in {h0, NoHandle} /\ ble_gap_conn_handle \in {h0, NoHandle}
    /\ closing \in BOOLEAN /\ lost \in BOOLEAN
    /\ advertising => link = NoHandle
    /\ closing => link # NoHandle
    /\ events \in Seq(SessionEvent)
    /\ sending \in Cmd \cup {"none"}
    /\ kernel_cmd_q \in Seq(Cmd)
    /\ pc \in Labels
    /\ Free \/ Mine
    /\ ancs \in {h0, NoHandle}
    /\ mutex_lost \in BOOLEAN

ConnectedFirst ==
    /\ "connected" \notin LaterTypes
    /\ "connected" \in EventTypes => sending = "none" /\ kernel_cmd_q = <<>> /\ pc = "main"
    /\ sending = "connected" => kernel_cmd_q = <<>> /\ pc = "main"
    /\ "connected" \notin LaterQueued
    /\ "connected" \in Queued => pc = "main"

NoNotification == "notification" \notin EventTypes
NoCommand == sending # "notif_recv" /\ "notif_recv" \notin Queued

NoTimeouts == budget.timeouts = MaxTimeouts

\* Without a timeout no notification comes behind the end of a connection.
EndsLast ==
    NoTimeouts =>
        /\ "notification" \notin TypesBehindEnd
        /\ sending = "disconnected" => NoNotification
        /\ "notif_recv" \notin QueuedBehindEnd
        /\ "disconnected" \in Queued => sending # "notif_recv" /\ NoNotification
        /\ pc \in TearDown => NoCommand /\ NoNotification

Budget ==
    /\ budget \in [links : 0 .. MaxLinks, values : 0 .. MaxValues, timeouts : 0 .. MaxTimeouts]
    /\ NoTimeouts => "timeout" \notin EventTypes

EndPending ==
    \/ "disconnected" \in EventTypes \/ sending = "disconnected" \/ "disconnected" \in Queued
    \/ pc \in TearDown

OpenMeansNoEnd == link = h0 /\ (~closing \/ NoTimeouts) => ~EndPending

NotificationKnown == NoTimeouts /\ (~NoCommand \/ pc = "notif") => ancs = h0

\* What the set-up has done so far.
SetUpSoFar ==
    /\ pc = "security" => conn_handle = ble_gap_conn_handle
    /\ pc = "pairing" => ble_gap_conn_handle = h0
    /\ pc = "client" /\ ~lost => ble_gap_conn_handle = h0
    /\ pc \in SetUp \ {"init", "security"} => conn_handle = h0
    /\ pc \in {"mtu", "peer", "ams", "ancs", "ancs_calls"} /\ ~mutex_lost => Mine
    /\ pc \in {"ams", "ancs", "ancs_calls"} => peer = h0
    /\ pc \in {"ancs", "ancs_calls"} => ams = h0
    /\ pc = "ancs_calls" => ancs = h0

Up == ble_gap_conn_handle = h0 /\ Mine /\ peer = h0 /\ ams = h0 /\ ancs = h0
Down ==
    /\ ble_gap_conn_handle = NoHandle /\ Free
    /\ peer = NoHandle /\ ams = NoHandle /\ ancs = NoHandle

\* A connection that lasts is announced, being set up, or served.
Served ==
    link = h0 /\ ~closing /\ ~refused /\ ~mutex_lost =>
        \/ "connected" \in EventTypes
        \/ /\ ble_gap_conn_handle = h0
           /\ \/ sending = "connected" \/ "connected" \in Queued
              \/ pc \in SetUp
              \/ pc \in Resting /\ Up

\* A connection that is over is announced as such, or nothing is left of it.
Over ==
    ~mutex_lost =>
        /\ ~lost /\ Mine => ble_gap_conn_handle = h0 \/ "connected" \in EventTypes
        /\ ~lost /\ pc \in {"services", "clear"} => Free
        /\ pc = "clear" => ams = NoHandle /\ ancs = NoHandle /\ peer = NoHandle
        /\ link = NoHandle /\ ~lost /\ ~EndPending =>
              /\ Down /\ pc \in Resting
              /\ "connected" \notin EventTypes /\ sending # "connected" /\ "connected" \notin Queued

SessionInv ==
    /\ SessionTypes /\ ConnectedFirst /\ EndsLast /\ Budget /\ OpenMeansNoEnd
    /\ NotificationKnown /\ SetUpSoFar /\ Served /\ Over

\* What a step may do to the mutex of the GATT client.
MutexStep ==
    mutex_lost' => \/ mutex_lost
                   \/ pc = "notif" /\ ancs = NoHandle /\ budget.timeouts < MaxTimeouts

LEMMA SessionInit == SessionLimits /\ Init => SessionInv
<1> SUFFICES ASSUME SessionLimits, Init PROVE SessionInv
  OBVIOUS
<1> USE DEF Init
<1>1. events \in Seq(SessionEvent) /\ kernel_cmd_q \in Seq(Cmd)
  OBVIOUS
<1>2. EventTypes = {} /\ LaterTypes = {} /\ TypesBehindEnd = {}
  BY DEF EventTypes, LaterTypes, TypesBehindEnd
<1>3. Queued = {} /\ LaterQueued = {} /\ QueuedBehindEnd = {}
  BY DEF Queued, LaterQueued, QueuedBehindEnd
<1>4. Free
  BY DEF Free, EmptyTable, SessionLimits, FirmwareLimits, PatientPeer
<1>5. SessionTypes
  BY <1>1, <1>4 DEF SessionTypes, Labels
<1>6. ConnectedFirst /\ EndsLast /\ OpenMeansNoEnd /\ NotificationKnown /\ SetUpSoFar
  BY <1>2, <1>3 DEF ConnectedFirst, EndsLast, NoNotification, NoCommand, TearDown,
     OpenMeansNoEnd, EndPending, NotificationKnown, SetUpSoFar, SetUp, Resting
<1>7. Budget
  BY <1>2, <1>3, KernelAssumption DEF Budget, NoNotification, NoCommand, NoTimeouts
<1>8. Served /\ Over
  BY <1>2, <1>3, <1>4, Searches DEF Served, Over, Down, Resting
<1> QED
  BY <1>5, <1>6, <1>7, <1>8 DEF SessionInv

LEMMA ViewsKept ==
  ASSUME UNCHANGED <<events, kernel_cmd_q>>
  PROVE  UNCHANGED <<EventTypes, LaterTypes, TypesBehindEnd, Queued, LaterQueued,
                     QueuedBehindEnd>>
BY DEF EventTypes, LaterTypes, TypesBehindEnd, Queued, LaterQueued, QueuedBehindEnd

\* The mutex of the GATT client: set-up makes its calls on the entry that it has
\* initialised, and teardown gives the mutex back.
LEMMA MutexSteps ==
  ASSUME SessionLimits, SessionInv, [Next]_vars
  PROVE  mutex_lost' \in BOOLEAN /\ (mutex_lost => mutex_lost') /\ MutexStep
<1> USE Searches DEF SessionInv
<1>0. mutex_lost \in BOOLEAN
  BY DEF SessionTypes
<1>1. CASE \/ gatt_client_init \/ gatt_client_set_server_mtu \/ ble_peer_device_init
           \/ ble_ams_init \/ AncsInitReturns
  <2>1. conn_handle = h0
    BY <1>1 DEF SetUpSoFar, SetUp, Labels, TearDown, Resting, gatt_client_init,
       gatt_client_set_server_mtu, ble_peer_device_init, ble_ams_init, AncsInitReturns
  <2>2. pc # "client" /\ ~mutex_lost => Mine
    BY <1>1 DEF SetUpSoFar, gatt_client_init, gatt_client_set_server_mtu,
       ble_peer_device_init, ble_ams_init, AncsInitReturns
  <2>3. mutex_lost' = mutex_lost
    BY <1>0, <1>1, <2>1, <2>2 DEF gatt_client_init, gatt_client_set_server_mtu,
       ble_peer_device_init, ble_ams_init, AncsInitReturns, GattCall
  <2> QED
    BY <1>0, <2>3 DEF MutexStep
<1>2. CASE ble_ancs_process_notif
  <2>1. ancs = NoHandle => budget.timeouts < MaxTimeouts
    <3>1. ancs = NoHandle => ~NoTimeouts
      BY <1>2 DEF NotificationKnown, ble_ancs_process_notif
    <3> QED
      BY <3>1, KernelAssumption DEF Budget, NoTimeouts
  <2>2. ancs = h0 => mutex_lost' = mutex_lost
    BY <1>0, <1>2 DEF SessionTypes, ble_ancs_process_notif, GattCall
  <2>3. mutex_lost' \in BOOLEAN /\ (mutex_lost => mutex_lost')
    BY <1>0, <1>2 DEF ble_ancs_process_notif, GattCall
  <2> QED
    BY <1>2, <2>1, <2>2, <2>3 DEF SessionTypes, MutexStep, ble_ancs_process_notif
<1>3. CASE ~(\/ gatt_client_init \/ gatt_client_set_server_mtu \/ ble_peer_device_init
             \/ ble_ams_init \/ AncsInitReturns \/ ble_ancs_process_notif)
  <2>1. UNCHANGED mutex_lost
    BY <1>3 DEF Next, SoftDeviceTask, KernelTask, vars, functions,
       ble_gap_start_advertise, ble_gap_stop_advertise, AdvertiseReturns,
       Connect, Disconnect, AdvertisingEnds, Timeout, SendValue, Happens,
       ble_device_connected_callback, ble_device_disconnected_callback,
       ble_client_timeout_handler, ble_client_handle_value_notification,
       ble_client_handle_value_indication, AdvSetTerminated, Handles,
       kernel_send_cmd, SendTimeout, Sent, main_loop, ble_funcs_init, SecurityStart,
       Paired, PairingFails, NoMoreBonds, ble_ancs_init, ble_funcs_deinit,
       ServicesDeinit, ble_gap_instance_clear
  <2> QED
    BY <1>0, <2>1 DEF MutexStep
<1> QED
  BY <1>1, <1>2, <1>3

\* The steps of the kernel task between two commands.
LEMMA SessionSteps ==
  ASSUME SessionLimits, SessionInv,
         \/ ble_funcs_init \/ SecurityStart \/ Paired \/ PairingFails \/ NoMoreBonds
         \/ gatt_client_init \/ gatt_client_set_server_mtu
         \/ ble_peer_device_init \/ ble_ams_init \/ ble_ancs_init \/ AncsInitReturns
         \/ ble_funcs_deinit \/ ServicesDeinit \/ ble_gap_instance_clear
         \/ ble_ancs_process_notif
  PROVE  SessionInv'
<1>0. /\ UNCHANGED <<link, advertising, events, sending, budget, kernel_cmd_q>>
      /\ pc # "main" /\ pc' \in Labels
  BY DEF ble_funcs_init, SecurityStart, Paired, PairingFails, NoMoreBonds, gatt_client_init,
     gatt_client_set_server_mtu, ble_peer_device_init, ble_ams_init, ble_ancs_init,
     AncsInitReturns, ble_funcs_deinit, ServicesDeinit, ble_gap_instance_clear,
     ble_ancs_process_notif, Goes, KernelOnly, Labels
<1>1. UNCHANGED <<EventTypes, LaterTypes, TypesBehindEnd, Queued, LaterQueued, QueuedBehindEnd>>
  BY <1>0, ViewsKept
<1>m. mutex_lost' \in BOOLEAN /\ (mutex_lost => mutex_lost') /\ MutexStep
  BY MutexSteps DEF Next, KernelTask
<1> USE <1>0, <1>1, Searches
        DEF SessionInv, NoNotification, NoCommand, NoTimeouts, EndPending, Up, Down,
            TearDown, Resting, SetUp, Goes
<1>2. \/ ble_funcs_init \/ SecurityStart \/ Paired \/ PairingFails \/ NoMoreBonds
      => SessionInv'
  <2> SUFFICES ASSUME \/ ble_funcs_init \/ SecurityStart \/ Paired \/ PairingFails
                      \/ NoMoreBonds
               PROVE  SessionInv'
    OBVIOUS
  <2> USE DEF ble_funcs_init, SecurityStart, Paired, PairingFails, NoMoreBonds,
              ble_gap_disconnect, functions
  <2>a. UNCHANGED <<client_struct, mutex_lost>>
    OBVIOUS
  <2>b. Free' \/ Mine'
    BY <2>a DEF SessionTypes, Free, Mine
  <2>c. ble_gap_conn_handle' \in {h0, NoHandle} /\ closing' \in BOOLEAN /\ lost' \in BOOLEAN
    BY DEF SessionTypes
  <2>d. closing' => link # NoHandle
    BY DEF SessionTypes
  <2>1. SessionTypes'
    BY <2>a, <2>b, <2>c, <2>d DEF SessionTypes
  <2>2. ConnectedFirst' /\ EndsLast' /\ Budget'
    BY DEF ConnectedFirst, EndsLast, Budget
  <2>3. OpenMeansNoEnd' /\ NotificationKnown'
    BY DEF OpenMeansNoEnd, NotificationKnown
  <2>4. SetUpSoFar'
    BY DEF SetUpSoFar, SessionTypes, Mine
  <2>5. Served'
    BY DEF Served, SessionTypes, SetUpSoFar, Labels
  <2>6. Over'
    BY DEF Over, SessionTypes, ConnectedFirst, SetUpSoFar, Free, Mine, Labels
  <2> QED
    BY <2>1, <2>2, <2>3, <2>4, <2>5, <2>6
<1>3. \/ gatt_client_init \/ gatt_client_set_server_mtu \/ ble_peer_device_init
      \/ ble_ams_init \/ ble_ancs_init \/ AncsInitReturns
      => SessionInv'
  <2> SUFFICES ASSUME \/ gatt_client_init \/ gatt_client_set_server_mtu
                      \/ ble_peer_device_init \/ ble_ams_init \/ ble_ancs_init
                      \/ AncsInitReturns
               PROVE  SessionInv'
    OBVIOUS
  <2> USE DEF gatt_client_init, gatt_client_set_server_mtu, ble_peer_device_init, ble_ams_init,
              ble_ancs_init, AncsInitReturns, GattCall
  <2>a. conn_handle = h0
    BY DEF SetUpSoFar, Labels
  <2>b. Free' \/ Mine'
    BY <2>a DEF SessionTypes, Free, Mine
  <2>c. mutex_lost' \in BOOLEAN /\ mutex_lost' = mutex_lost
    BY <1>m DEF MutexStep, SessionTypes
  <2>d. UNCHANGED <<ble_gap_conn_handle, closing, lost, refused>>
    OBVIOUS
  <2>1. SessionTypes'
    BY <2>a, <2>b, <2>c, <2>d DEF SessionTypes
  <2>2. ConnectedFirst' /\ EndsLast' /\ Budget'
    BY DEF ConnectedFirst, EndsLast, Budget
  <2>3. OpenMeansNoEnd' /\ NotificationKnown'
    BY <2>a DEF OpenMeansNoEnd, NotificationKnown
  <2>4. SetUpSoFar'
    BY <2>a, <2>c, <2>1 DEF SetUpSoFar, SessionTypes, Mine
  <2>5. Served'
    BY <2>a, <2>c DEF Served, SessionTypes, SetUpSoFar, ConnectedFirst, Mine, Labels
  <2>6. Over'
    BY <2>a, <2>b, <2>c DEF Over, SessionTypes, ConnectedFirst, SetUpSoFar, Labels
  <2> QED
    BY <2>1, <2>2, <2>3, <2>4, <2>5, <2>6
<1>4. ble_funcs_deinit \/ ServicesDeinit \/ ble_gap_instance_clear \/ ble_ancs_process_notif
      => SessionInv'
  <2> SUFFICES ASSUME \/ ble_funcs_deinit \/ ServicesDeinit \/ ble_gap_instance_clear
                      \/ ble_ancs_process_notif
               PROVE  SessionInv'
    OBVIOUS
  <2> USE DEF ble_funcs_deinit, ServicesDeinit, ble_gap_instance_clear, ble_ancs_process_notif,
              GattCall, functions
  <2>a. /\ Free' \/ Mine'
        /\ pc = "deinit" /\ ~mutex_lost /\ (Mine => ble_gap_conn_handle = h0) => Free'
        /\ pc # "deinit" => UNCHANGED client_struct
    <3>1. CASE ble_funcs_deinit
      <4>1. CASE Free
        <5>1. UNCHANGED client_struct
          BY <3>1, <4>1 DEF SessionTypes
        <5> QED
          BY <4>1, <5>1, <3>1 DEF Free
      <4>2. CASE Mine /\ ble_gap_conn_handle = h0
        <5>1. ~mutex_lost => Free'
          BY <3>1, <4>2 DEF Free
        <5>2. mutex_lost => Mine'
          BY <3>1, <4>2 DEF Mine
        <5> QED
          BY <3>1, <5>1, <5>2
      <4>3. CASE Mine /\ ble_gap_conn_handle = NoHandle
        <5>1. UNCHANGED client_struct
          BY <3>1, <4>3
        <5> QED
          BY <4>3, <5>1, <3>1 DEF Mine
      <4> QED
        BY <4>1, <4>2, <4>3 DEF SessionTypes
    <3>2. CASE ~ble_funcs_deinit
      <4>1. UNCHANGED client_struct /\ pc # "deinit"
        BY <3>2
      <4> QED
        BY <4>1 DEF SessionTypes, Free, Mine
    <3> QED
      BY <3>1, <3>2
  <2>b. mutex_lost' \in BOOLEAN /\ (mutex_lost => mutex_lost')
    BY <1>m
  <2>d. ble_gap_conn_handle' \in {h0, NoHandle} /\ UNCHANGED <<closing, lost, refused>>
    BY DEF SessionTypes
  <2>1. SessionTypes'
    BY <2>a, <2>b, <2>d DEF SessionTypes
  <2>2. ConnectedFirst' /\ EndsLast' /\ Budget'
    BY DEF ConnectedFirst, EndsLast, Budget
  <2>3. OpenMeansNoEnd' /\ NotificationKnown'
    BY DEF OpenMeansNoEnd, NotificationKnown, EndsLast
  <2>4. SetUpSoFar'
    BY DEF SetUpSoFar
  <2>5. Served'
    BY <2>b DEF Served, OpenMeansNoEnd, SessionTypes, ConnectedFirst, Mine
  <2>6. Over'
    BY <2>a, <2>b DEF Over, SessionTypes, ConnectedFirst, Free, Mine
  <2> QED
    BY <2>1, <2>2, <2>3, <2>4, <2>5, <2>6
<1> QED
  BY <1>2, <1>3, <1>4

\* The kernel task takes the next command.
LEMMA SessionCommand ==
  ASSUME SessionLimits, SessionInv, main_loop
  PROVE  SessionInv'
<1> DEFINE cmd == Head(kernel_cmd_q)
<1>1. /\ UNCHANGED <<link, advertising, closing, events, sending, budget, ble_gap_conn_handle,
                     conn_handle, client_struct, mutex_lost, peer, ams, ancs, refused, lost>>
      /\ pc = "main" /\ pc' = Target(cmd) /\ kernel_cmd_q # <<>>
      /\ kernel_cmd_q' = Tail(kernel_cmd_q)
  BY DEF main_loop, KernelOnly, functions
<1>2. UNCHANGED <<EventTypes, LaterTypes, TypesBehindEnd>>
  BY <1>1 DEF EventTypes, LaterTypes, TypesBehindEnd
<1>3. /\ kernel_cmd_q' \in Seq(Cmd) /\ cmd \in Cmd
      /\ Queued = Queued' \cup {cmd}
      /\ Queued' = LaterQueued /\ LaterQueued' \subseteq LaterQueued
      /\ QueuedBehindEnd' \subseteq QueuedBehindEnd
      /\ cmd = "disconnected" => Queued' \subseteq QueuedBehindEnd
  BY <1>1, CommandRemoved DEF SessionInv, SessionTypes
<1> HIDE DEF cmd
<1>4. pc' = CASE cmd = "disconnected" -> "deinit" [] cmd = "connected" -> "init"
              [] cmd = "notif_recv" -> "notif" [] OTHER -> "main"
  BY <1>1 DEF Target
<1> USE <1>1, <1>2, <1>3, <1>4
        DEF SessionInv, NoNotification, NoCommand, NoTimeouts, EndPending, Up, Down,
            TearDown, Resting, SetUp
<1>5. SessionTypes'
  BY DEF SessionTypes, Free, Mine, Labels
<1>6. ConnectedFirst'
  BY DEF ConnectedFirst
<1>7. EndsLast' /\ Budget'
  BY DEF EndsLast, Budget
<1>8. OpenMeansNoEnd' /\ NotificationKnown' /\ SetUpSoFar'
  BY DEF OpenMeansNoEnd, NotificationKnown, SetUpSoFar
<1>9. Served'
  BY DEF Served, OpenMeansNoEnd, ConnectedFirst, Mine, Labels
<1>10. Over'
  BY DEF Over, ConnectedFirst, Free, Mine
<1> QED
  BY <1>5, <1>6, <1>7, <1>8, <1>9, <1>10

\* The SoftDevice task hands a command to the kernel task or gives up.
LEMMA SessionSends ==
  ASSUME SessionLimits, SessionInv, kernel_send_cmd \/ SendTimeout
  PROVE  SessionInv'
<1>1. /\ UNCHANGED <<link, advertising, closing, events, budget, ble_gap_conn_handle, pc,
                     conn_handle, client_struct, mutex_lost, peer, ams, ancs, refused>>
      /\ sending \in Cmd /\ sending' = "none"
  BY DEF kernel_send_cmd, SendTimeout, Sent, softdevice, functions, SessionInv, SessionTypes
<1>2. UNCHANGED <<EventTypes, LaterTypes, TypesBehindEnd>>
  BY <1>1 DEF EventTypes, LaterTypes, TypesBehindEnd
<1> USE <1>1, <1>2
        DEF SessionInv, NoNotification, NoCommand, NoTimeouts, EndPending, Up, Down,
            TearDown, Resting, SetUp
<1>3. CASE kernel_send_cmd
  <2>1. kernel_cmd_q' = Append(kernel_cmd_q, sending) /\ UNCHANGED lost
    BY <1>3 DEF kernel_send_cmd
  <2>2. /\ kernel_cmd_q' \in Seq(Cmd)
        /\ Queued' = Queued \cup {sending}
        /\ LaterQueued' = IF kernel_cmd_q = <<>> THEN {} ELSE LaterQueued \cup {sending}
        /\ QueuedBehindEnd' = IF "disconnected" \in Queued THEN QueuedBehindEnd \cup {sending}
                              ELSE QueuedBehindEnd
    BY <2>1, CommandAppended DEF SessionTypes
  <2>3. SessionTypes'
    BY <2>1, <2>2 DEF SessionTypes, Free, Mine
  <2>4. ConnectedFirst'
    <3>1. kernel_cmd_q = <<>> => Queued = {}
      BY DEF Queued
    <3>2. sending = "connected" => kernel_cmd_q = <<>> /\ pc = "main"
      BY DEF ConnectedFirst
    <3> QED
      BY <2>2, <3>1, <3>2 DEF ConnectedFirst, Cmd
  <2>5. EndsLast' /\ Budget'
    BY <2>2 DEF EndsLast, Budget
  <2>6. OpenMeansNoEnd' /\ NotificationKnown' /\ SetUpSoFar'
    BY <2>1, <2>2 DEF OpenMeansNoEnd, NotificationKnown, SetUpSoFar, Mine
  <2>7. Served'
    BY <2>2 DEF Served, Mine
  <2>8. Over'
    BY <2>1, <2>2 DEF Over, Free, Mine
  <2> QED
    BY <2>3, <2>4, <2>5, <2>6, <2>7, <2>8
<1>4. CASE SendTimeout
  <2>1. /\ UNCHANGED kernel_cmd_q /\ lost' = (lost \/ sending = "disconnected")
        /\ Len(kernel_cmd_q) = KERNEL_TASK_CMD_Q_LEN
    BY <1>4 DEF SendTimeout
  <2>2. UNCHANGED <<Queued, LaterQueued, QueuedBehindEnd>>
    BY <2>1 DEF Queued, LaterQueued, QueuedBehindEnd
  <2>3. sending # "connected"
    <3> SUFFICES ASSUME sending = "connected" PROVE FALSE
      OBVIOUS
    <3>1. Len(kernel_cmd_q) = 0
      BY DEF ConnectedFirst
    <3> QED
      BY <2>1, <3>1, KernelAssumption
  <2>4. SessionTypes'
    BY <2>1 DEF SessionTypes, Free, Mine
  <2>5. ConnectedFirst' /\ EndsLast' /\ Budget'
    BY <2>1, <2>2 DEF ConnectedFirst, EndsLast, Budget
  <2>6. OpenMeansNoEnd' /\ NotificationKnown' /\ SetUpSoFar'
    BY <2>1, <2>2 DEF OpenMeansNoEnd, NotificationKnown, SetUpSoFar, SessionTypes, Mine
  <2>7. Served'
    BY <2>2, <2>3 DEF Served, Mine
  <2>8. Over'
    BY <2>1, <2>2 DEF Over, SessionTypes, Free, Mine
  <2> QED
    BY <2>4, <2>5, <2>6, <2>7, <2>8
<1> QED
  BY <1>3, <1>4

\* The SoftDevice task takes the next event.
LEMMA SessionHandles ==
  ASSUME SessionLimits, SessionInv,
         \/ ble_device_connected_callback \/ ble_device_disconnected_callback
         \/ ble_client_timeout_handler \/ ble_client_handle_value_notification
         \/ ble_client_handle_value_indication \/ AdvSetTerminated
  PROVE  SessionInv'
<1> DEFINE e == Head(events)
<1>1. /\ UNCHANGED <<link, advertising, budget, kernel_cmd_q, pc, conn_handle, client_struct,
                     mutex_lost, peer, ams, ancs, refused, lost>>
      /\ events # <<>> /\ events' = Tail(events) /\ sending = "none"
  BY DEF ble_device_connected_callback, ble_device_disconnected_callback,
     ble_client_timeout_handler, ble_client_handle_value_notification,
     ble_client_handle_value_indication, AdvSetTerminated, Handles, functions
<1>2. UNCHANGED <<Queued, LaterQueued, QueuedBehindEnd>>
  BY <1>1 DEF Queued, LaterQueued, QueuedBehindEnd
<1>3. /\ events' \in Seq(SessionEvent) /\ e \in SessionEvent
      /\ EventTypes = EventTypes' \cup {e.type}
      /\ EventTypes' = LaterTypes /\ LaterTypes' \subseteq LaterTypes
      /\ TypesBehindEnd' \subseteq TypesBehindEnd
      /\ e.type \in Ends => EventTypes' \subseteq TypesBehindEnd
  BY <1>1, EventRemoved DEF SessionInv, SessionTypes
<1>4. e.type # "adv_terminated" => e.conn = h0
  BY <1>3 DEF SessionEvent
<1> HIDE DEF e
<1>5. /\ e.type = "connected" => ble_gap_conn_handle' = h0 /\ sending' = "connected"
      /\ e.type # "connected" => UNCHANGED ble_gap_conn_handle /\ sending' # "connected"
      /\ sending' = "disconnected" <=> e.type \in Ends
      /\ e.type = "timeout" => closing' = (closing \/ (link = h0 /\ h0 # NoHandle))
      /\ e.type # "timeout" => UNCHANGED closing
      /\ sending' = "notif_recv" => e.type = "notification" /\ ancs = h0
      /\ sending' \in Cmd \cup {"none"}
  BY <1>4 DEF ble_device_connected_callback, ble_device_disconnected_callback,
     ble_client_timeout_handler, ble_client_handle_value_notification,
     ble_client_handle_value_indication, AdvSetTerminated, Handles, Stored, ForAncs,
     ble_gap_disconnect, Ends, Cmd, e
<1> USE <1>1, <1>2, <1>3, <1>5, Searches
        DEF SessionInv, NoNotification, NoCommand, NoTimeouts, EndPending, Up, Down,
            TearDown, Resting, SetUp, Ends
<1>6. SessionTypes'
  <2>1. Free' \/ Mine'
    BY DEF SessionTypes, Free, Mine
  <2>2. ble_gap_conn_handle' \in {h0, NoHandle} /\ closing' \in BOOLEAN
    BY DEF SessionTypes
  <2>3. closing' => link # NoHandle
    BY DEF SessionTypes
  <2> QED
    BY <2>1, <2>2, <2>3 DEF SessionTypes
<1>7. ConnectedFirst'
  BY DEF ConnectedFirst
<1>8. EndsLast' /\ Budget'
  BY DEF EndsLast, Budget
<1>9. OpenMeansNoEnd'
  <2>1. closing \in BOOLEAN
    BY DEF SessionTypes
  <2>2. e.type = "timeout" => ~NoTimeouts /\ (link = h0 => closing')
    BY <2>1 DEF Budget
  <2>3. closing => closing'
    BY <2>1
  <2>4. OpenMeansNoEnd /\ NoTimeouts' = NoTimeouts
    OBVIOUS
  <2>5. EndPending' => EndPending \/ e.type = "timeout"
    OBVIOUS
  <2> HIDE DEF EndPending, NoTimeouts
  <2> QED
    BY <2>1, <2>2, <2>3, <2>4, <2>5 DEF OpenMeansNoEnd
<1>10. NotificationKnown' /\ SetUpSoFar'
  BY DEF NotificationKnown, SetUpSoFar, ConnectedFirst, Mine
<1>11. Served'
  BY DEF Served, ConnectedFirst, SessionTypes, Mine
<1>12. Over'
  BY DEF Over, ConnectedFirst, Free, Mine
<1> QED
  BY <1>6, <1>7, <1>8, <1>9, <1>10, <1>11, <1>12

\* The peer, the SoftDevice and the general task.
LEMMA SessionQueued ==
  ASSUME SessionLimits, SessionInv,
         \/ \E h \in Handle : Connect(h)
         \/ Disconnect \/ AdvertisingEnds \/ Timeout
         \/ \E type \in Values : SendValue(type)
  PROVE  SessionInv'
<1>1. /\ UNCHANGED <<ble_gap_conn_handle, sending, kernel_cmd_q, pc, conn_handle,
                     client_struct, mutex_lost, peer, ams, ancs>>
  BY DEF Connect, Disconnect, AdvertisingEnds, Timeout, SendValue, Happens, functions
<1>2. UNCHANGED <<Queued, LaterQueued, QueuedBehindEnd>>
  BY <1>1 DEF Queued, LaterQueued, QueuedBehindEnd
<1>3. ASSUME NEW t \in {"connected", "disconnected", "timeout", "adv_terminated"} \cup Values,
             NEW h \in Conn, t # "adv_terminated" => h = h0, Happens(t, h)
      PROVE  /\ events' \in Seq(SessionEvent)
             /\ EventTypes' = EventTypes \cup {t}
             /\ LaterTypes' = IF events = <<>> THEN {} ELSE LaterTypes \cup {t}
             /\ TypesBehindEnd' = IF EventTypes \cap Ends = {} THEN TypesBehindEnd
                                  ELSE TypesBehindEnd \cup {t}
  <2> DEFINE e == [type |-> t, conn |-> h]
  <2>1. e \in SessionEvent /\ e.type = t
    BY <1>3 DEF SessionEvent, Event
  <2>2. events' = Append(events, e)
    BY <1>3 DEF Happens
  <2> HIDE DEF e
  <2>3. events \in Seq(SessionEvent)
    BY DEF SessionInv, SessionTypes
  <2> QED
    BY <2>1, <2>2, <2>3, EventAppended
<1> USE <1>1, <1>2, Searches
        DEF SessionInv, NoNotification, NoCommand, NoTimeouts, EndPending, Up, Down,
            TearDown, Resting, SetUp, Ends
<1>4. ASSUME NEW h \in Handle, Connect(h) PROVE SessionInv'
  <2>1. /\ advertising /\ Settled /\ h = h0
        /\ link' = h0 /\ ~advertising' /\ ~refused' /\ ~lost' /\ UNCHANGED closing
        /\ refused' = FALSE /\ lost' = FALSE /\ advertising' = FALSE
        /\ budget' = [budget EXCEPT !.links = @ - 1] /\ budget.links > 0
        /\ Happens("connected", h)
    BY <1>4 DEF Connect, SessionLimits, FirmwareLimits, PatientPeer
  <2>2. /\ events = <<>> /\ sending = "none" /\ kernel_cmd_q = <<>> /\ pc = "main"
        /\ EventTypes = {} /\ LaterTypes = {} /\ TypesBehindEnd = {}
        /\ Queued = {} /\ LaterQueued = {} /\ QueuedBehindEnd = {}
    BY <2>1 DEF Settled, EventTypes, LaterTypes, TypesBehindEnd, Queued, LaterQueued,
                QueuedBehindEnd
  <2>3. /\ events' \in Seq(SessionEvent) /\ EventTypes' = {"connected"}
        /\ LaterTypes' = {} /\ TypesBehindEnd' = {}
    BY <1>3, <2>1, <2>2 DEF Conn
  <2>4. SessionTypes'
    BY <2>1, <2>3 DEF SessionTypes, Free, Mine
  <2>5. ConnectedFirst' /\ EndsLast'
    BY <2>2, <2>3 DEF ConnectedFirst, EndsLast
  <2>6. Budget'
    <3>1. /\ budget' \in [links : 0 .. MaxLinks, values : 0 .. MaxValues,
                          timeouts : 0 .. MaxTimeouts]
          /\ budget'.values = budget.values /\ budget'.timeouts = budget.timeouts
      BY <2>1, KernelAssumption DEF Budget
    <3> QED
      BY <2>2, <2>3, <3>1 DEF Budget
  <2>7. OpenMeansNoEnd' /\ NotificationKnown' /\ SetUpSoFar'
    BY <2>2, <2>3 DEF OpenMeansNoEnd, NotificationKnown, SetUpSoFar
  <2>8. Served' /\ Over'
    BY <2>1, <2>2, <2>3 DEF Served, Over
  <2> QED
    BY <2>4, <2>5, <2>6, <2>7, <2>8
<1>5. ASSUME Disconnect PROVE SessionInv'
  <2>1. /\ link = h0 /\ link' = NoHandle /\ closing' = FALSE
        /\ UNCHANGED <<advertising, budget, refused, lost>>
        /\ Happens("disconnected", h0)
    BY <1>5 DEF Disconnect, SessionTypes
  <2>2. /\ events' \in Seq(SessionEvent) /\ EventTypes' = EventTypes \cup {"disconnected"}
        /\ LaterTypes' = IF events = <<>> THEN {} ELSE LaterTypes \cup {"disconnected"}
        /\ TypesBehindEnd' = IF EventTypes \cap Ends = {} THEN TypesBehindEnd
                             ELSE TypesBehindEnd \cup {"disconnected"}
    BY <1>3, <2>1 DEF Conn
  <2>3. SessionTypes'
    BY <2>1, <2>2 DEF SessionTypes, Free, Mine
  <2>4. ConnectedFirst' /\ EndsLast' /\ Budget'
    BY <2>1, <2>2 DEF ConnectedFirst, EndsLast, Budget
  <2>5. OpenMeansNoEnd' /\ NotificationKnown' /\ SetUpSoFar'
    BY <2>1, <2>2 DEF OpenMeansNoEnd, NotificationKnown, SetUpSoFar, Mine
  <2>6. Served' /\ Over'
    BY <2>1, <2>2 DEF Served, Over, Free, Mine
  <2> QED
    BY <2>3, <2>4, <2>5, <2>6
<1>6. ASSUME AdvertisingEnds PROVE SessionInv'
  <2>1. /\ advertising /\ link = NoHandle /\ ~advertising' /\ advertising' = FALSE
        /\ UNCHANGED <<link, closing, budget, refused, lost>>
        /\ Happens("adv_terminated", NoHandle)
    BY <1>6 DEF AdvertisingEnds, SessionTypes
  <2>2. /\ events' \in Seq(SessionEvent) /\ EventTypes' = EventTypes \cup {"adv_terminated"}
        /\ LaterTypes' = IF events = <<>> THEN {} ELSE LaterTypes \cup {"adv_terminated"}
        /\ TypesBehindEnd' = IF EventTypes \cap Ends = {} THEN TypesBehindEnd
                             ELSE TypesBehindEnd \cup {"adv_terminated"}
    BY <1>3, <2>1 DEF Conn
  <2>3. SessionTypes'
    BY <2>1, <2>2 DEF SessionTypes, Free, Mine
  <2>4. ConnectedFirst' /\ EndsLast' /\ Budget'
    BY <2>1, <2>2 DEF ConnectedFirst, EndsLast, Budget
  <2>5. OpenMeansNoEnd' /\ NotificationKnown' /\ SetUpSoFar'
    BY <2>1, <2>2 DEF OpenMeansNoEnd, NotificationKnown, SetUpSoFar, Mine
  <2>6. Served' /\ Over'
    BY <2>1, <2>2 DEF Served, Over, Free, Mine
  <2> QED
    BY <2>3, <2>4, <2>5, <2>6
<1>7. ASSUME Timeout PROVE SessionInv'
  <2>1. /\ link = h0 /\ budget.timeouts > 0
        /\ budget' = [budget EXCEPT !.timeouts = @ - 1]
        /\ UNCHANGED <<link, closing, advertising, refused, lost>>
        /\ Happens("timeout", h0)
    BY <1>7 DEF Timeout, SessionTypes, softdevice, SessionLimits, FirmwareLimits, PatientPeer
  <2>2. /\ events' \in Seq(SessionEvent) /\ EventTypes' = EventTypes \cup {"timeout"}
        /\ LaterTypes' = IF events = <<>> THEN {} ELSE LaterTypes \cup {"timeout"}
        /\ TypesBehindEnd' = IF EventTypes \cap Ends = {} THEN TypesBehindEnd
                             ELSE TypesBehindEnd \cup {"timeout"}
    BY <1>3, <2>1 DEF Conn
  <2>3. /\ budget' \in [links : 0 .. MaxLinks, values : 0 .. MaxValues,
                        timeouts : 0 .. MaxTimeouts]
        /\ budget'.timeouts # MaxTimeouts
    BY <2>1, KernelAssumption DEF Budget
  <2>4. SessionTypes'
    BY <2>1, <2>2 DEF SessionTypes, Free, Mine
  <2>5. ConnectedFirst' /\ EndsLast'
    BY <2>1, <2>2, <2>3 DEF ConnectedFirst, EndsLast
  <2>6. Budget'
    BY <2>1, <2>2, <2>3 DEF Budget
  <2>7. OpenMeansNoEnd' /\ NotificationKnown' /\ SetUpSoFar'
    BY <2>1, <2>2, <2>3 DEF OpenMeansNoEnd, NotificationKnown, SetUpSoFar, Mine
  <2>8. Served' /\ Over'
    BY <2>1, <2>2 DEF Served, Over, Free, Mine
  <2> QED
    BY <2>4, <2>5, <2>6, <2>7, <2>8
<1>8. ASSUME NEW t \in Values, SendValue(t) PROVE SessionInv'
  <2>1. /\ link = h0 /\ budget.values > 0
        /\ budget' = [budget EXCEPT !.values = @ - 1]
        /\ UNCHANGED <<link, closing, advertising, refused, lost>>
        /\ Happens(t, h0) /\ t \in {"notification", "indication"}
    BY <1>8 DEF SendValue, SessionTypes, softdevice, SessionLimits, FirmwareLimits, PatientPeer, Values
  <2>2. /\ events' \in Seq(SessionEvent) /\ EventTypes' = EventTypes \cup {t}
        /\ LaterTypes' = IF events = <<>> THEN {} ELSE LaterTypes \cup {t}
        /\ TypesBehindEnd' = IF EventTypes \cap Ends = {} THEN TypesBehindEnd
                             ELSE TypesBehindEnd \cup {t}
    BY <1>3, <2>1 DEF Conn
  <2>3. /\ budget' \in [links : 0 .. MaxLinks, values : 0 .. MaxValues,
                        timeouts : 0 .. MaxTimeouts]
        /\ budget'.timeouts = budget.timeouts
    BY <2>1, KernelAssumption DEF Budget
  <2>4. NoTimeouts => ~EndPending /\ "timeout" \notin EventTypes
    BY <2>1 DEF OpenMeansNoEnd, Budget
  <2>5. SessionTypes'
    BY <2>1, <2>2 DEF SessionTypes, Free, Mine
  <2>6. ConnectedFirst' /\ EndsLast'
    BY <2>1, <2>2, <2>4 DEF ConnectedFirst, EndsLast
  <2>7. Budget'
    BY <2>1, <2>2, <2>3, <2>4 DEF Budget
  <2>8. OpenMeansNoEnd' /\ NotificationKnown' /\ SetUpSoFar'
    BY <2>1, <2>2, <2>3, <2>4 DEF OpenMeansNoEnd, NotificationKnown, SetUpSoFar, Mine
  <2>9. Served' /\ Over'
    BY <2>1, <2>2 DEF Served, Over, Free, Mine
  <2> QED
    BY <2>5, <2>6, <2>7, <2>8, <2>9
<1> QED
  BY <1>4, <1>5, <1>6, <1>7, <1>8

\* The general task, and the steps that change nothing.
LEMMA SessionElse ==
  ASSUME SessionLimits, SessionInv,
         \/ ble_gap_start_advertise \/ ble_gap_stop_advertise \/ AdvertiseReturns
         \/ UNCHANGED vars
  PROVE  SessionInv'
<1>1. /\ UNCHANGED <<link, closing, events, ble_gap_conn_handle, sending, kernel_cmd_q, pc,
                     conn_handle, client_struct, mutex_lost, peer, ams, ancs, budget, refused,
                     lost>>
      /\ advertising' => link = NoHandle
  BY DEF ble_gap_start_advertise, ble_gap_stop_advertise, AdvertiseReturns, vars, softdevice, adv,
     functions, SessionInv, SessionTypes
<1>2. UNCHANGED <<EventTypes, LaterTypes, TypesBehindEnd, Queued, LaterQueued, QueuedBehindEnd>>
  BY <1>1, ViewsKept
<1> USE <1>1, <1>2
        DEF SessionInv, NoNotification, NoCommand, NoTimeouts, EndPending, Up, Down
<1>3. SessionTypes'
  BY DEF SessionTypes, Free, Mine
<1>4. ConnectedFirst' /\ EndsLast' /\ Budget' /\ OpenMeansNoEnd'
  BY DEF ConnectedFirst, EndsLast, Budget, OpenMeansNoEnd
<1>5. NotificationKnown' /\ SetUpSoFar' /\ Served' /\ Over'
  BY DEF NotificationKnown, SetUpSoFar, Served, Over, Free, Mine
<1> QED
  BY <1>3, <1>4, <1>5

LEMMA SessionHolds == SessionLimits => (Spec => []SessionInv)
<1> SUFFICES ASSUME SessionLimits PROVE Spec => []SessionInv
  OBVIOUS
<1>1. Init => SessionInv
  BY SessionInit
<1>2. SessionInv /\ [Next]_vars => SessionInv'
  BY SessionSteps, SessionCommand, SessionSends, SessionHandles, SessionQueued, SessionElse
     DEF Next, SoftDeviceTask, KernelTask
<1> QED
  BY <1>1, <1>2, PTL DEF Spec

\* Between two commands, of a connection that lasts, everything is set up: the handle, the
\* entry of the GATT client and the handles of the three services, unless the GATT client has
\* lost its mutex.
THEOREM SessionReadyHolds ==
  ASSUME SessionLimits
  PROVE  Spec => []SessionReady
<1>1. SessionInv => SessionReady
  <2> SUFFICES ASSUME SessionInv, Settled, link # NoHandle, ~closing, ~refused, ~mutex_lost
               PROVE  Ready
    BY DEF SessionReady
  <2>1. link = h0 /\ Served
    BY DEF SessionInv, SessionTypes
  <2>2. "connected" \notin EventTypes /\ "connected" \notin Queued
    BY DEF Settled, EventTypes, Queued
  <2>3. Up
    BY <2>1, <2>2 DEF Served, Settled, SetUp, Resting
  <2> QED
    BY <2>1, <2>3, Searches DEF Up, Ready
<1> QED
  BY <1>1, SessionHolds, PTL

\* When nothing of a disconnection is left to do, nothing of its session is left, unless its
\* command was dropped, the bond store was full or the GATT client has lost its mutex.
THEOREM SessionGoneHolds ==
  ASSUME SessionLimits
  PROVE  Spec => []SessionGone
<1>1. SessionInv => SessionGone
  <2> SUFFICES ASSUME SessionInv, Settled, link = NoHandle, ~lost, ~mutex_lost
               PROVE  Gone
    BY DEF SessionGone
  <2>1. ~EndPending
    BY DEF EndPending, Settled, EventTypes, Queued, TearDown
  <2>2. Down
    BY <2>1 DEF SessionInv, Over
  <2> QED
    BY <2>2, Searches DEF Down, Gone
<1> QED
  BY <1>1, SessionHolds, PTL

\* The GATT client loses its mutex only to a notification that is carried out after a timeout
\* has torn its session down.
THEOREM ClientMutexKeptHolds ==
  ASSUME SessionLimits
  PROVE  Spec => ClientMutexKept
<1>1. SessionInv /\ [Next]_vars
      => [mutex_lost' => \/ mutex_lost
                         \/ pc = "notif" /\ ancs = NoHandle /\ budget.timeouts < MaxTimeouts]_vars
  BY MutexSteps DEF MutexStep
<1> QED
  BY <1>1, SessionHolds, PTL DEF Spec, ClientMutexKept

============================================================================
