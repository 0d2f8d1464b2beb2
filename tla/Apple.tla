-------------------------------- MODULE Apple --------------------------------
(***************************************************************************)
(* The clients of Apple's services: libs/components/ble/ble_ams and        *)
(* ble_ancs, with the memory pool and the linked list they keep their data *)
(* in, as main/kernel_task.c runs them.                                    *)
(*                                                                         *)
(* The kernel task sets them up and tears them down.  The values the peer  *)
(* sends are handled in the SoftDevice task, which preempts the kernel     *)
(* task between any two of its steps and is not preempted by it.  A task   *)
(* of an application executes media commands.                              *)
(*                                                                         *)
(* Every connection has handle 0, the only one the SoftDevice gives with   *)
(* one link.  A GATT call counts for what it achieves at the peer; Kernel  *)
(* and GattClient model what else it does, and what a full kernel_cmd_q    *)
(* does to a session.                                                      *)
(***************************************************************************)
EXTENDS KernelMem, KernelLinkList, FiniteSets

CONSTANTS
    Commands,               \* media commands
    Lengths,                \* of the names a peer sends
    Uids,                   \* of the notifications of a peer
    KERNEL_TASK_CMD_Q_LEN,
    MaxLinks, MaxValues     \* bounds: connections; values, timeouts and commands

ASSUME AppleAssumption ==
    /\ Lengths \subseteq 1 .. mem_size - 1
    /\ Uids \subseteq Nat \ {0}
    /\ {KERNEL_TASK_CMD_Q_LEN, MaxLinks, MaxValues} \subseteq Nat

VARIABLES
    \* the peer
    link,
    subscribed,             \* the services whose notifications it has enabled
    registered,             \* the media attributes were asked for
    \* kernel_task.c
    kernel_cmd_q, pc,
    \* ble_ams.c
    ble_ams_handler, ble_ams_mem_inst,
    \* ble_ancs.c
    ble_ancs_handler, ble_ancs_ll_inst,
    app,                    \* the command an application is executing
    \* bounds and history
    budget,
    supported,              \* the commands the peer has said it supports
    names,                  \* the names it sent last
    present,                \* its notifications, as far as announced
    pending,                \* the one announced last, until it is fetched
    hist

peer == <<link, subscribed, registered>>
ams == <<ble_ams_handler, ble_ams_mem_inst>>
ancs == <<ble_ancs_handler, ble_ancs_ll_inst>>
sent == <<supported, names, present, pending>>
vars == <<peer, kernel_cmd_q, pc, ams, ancs, app, budget, sent, hist>>

Attributes == {"mediaplayer", "track_name"}
NoNames == [a \in Attributes |-> 0]
Absent == [u \in Uids |-> 0]        \* the version of a notification, 0 without it

Init ==
    /\ link = FALSE /\ subscribed = {} /\ registered = FALSE
    /\ kernel_cmd_q = <<>> /\ pc = "main"
    /\ ble_ams_handler = [conn_handle |-> FALSE, inited |-> FALSE, found |-> FALSE, cmds |-> {}]
    /\ ble_ams_mem_inst = NoPool
    /\ ble_ancs_handler = [conn_handle |-> FALSE, found |-> FALSE, total_notif_present |-> 0,
                           last_nuid |-> 0]
    /\ ble_ancs_ll_inst = NoList
    /\ app = "none"
    /\ budget = [links |-> MaxLinks, values |-> MaxValues]
    /\ supported = {} /\ names = NoNames /\ present = Absent /\ pending = 0
    /\ hist = {}

Spend(b) == budget[b] > 0 /\ budget' = [budget EXCEPT ![b] = @ - 1]

----------------------------------------------------------------------------
(* The link.                                                                *)

\* kernel_send_cmd: nothing waits for room with the commands modelled here.
Sends(cmd) ==
    kernel_cmd_q' = IF Len(kernel_cmd_q) < KERNEL_TASK_CMD_Q_LEN
                    THEN Append(kernel_cmd_q, cmd) ELSE kernel_cmd_q
HasRoom == Len(kernel_cmd_q) < KERNEL_TASK_CMD_Q_LEN

\* Once the last session is torn down.  A peer that is bonded still has the
\* subscriptions it had.
Connect ==
    /\ ~link /\ pc = "main" /\ kernel_cmd_q = <<>>
    /\ Spend("links")
    /\ link' = TRUE /\ registered' = FALSE
    /\ subscribed' \in SUBSET subscribed
    /\ Sends("connected")
    /\ supported' = {} /\ names' = NoNames /\ present' = Absent /\ pending' = 0
    /\ hist' = (IF app = "none" THEN {} ELSE {"spans"})
               \cup (IF ble_ancs_ll_inst.wild THEN {"wild"} ELSE {})
    /\ UNCHANGED <<pc, ams, ancs, app>>

Disconnect ==
    /\ link /\ HasRoom
    /\ link' = FALSE
    /\ Sends("disconnected")
    /\ UNCHANGED <<subscribed, registered, pc, ams, ancs, app, budget, sent, hist>>

\* The link is to be closed, but the session ends before it is.
Timeout ==
    /\ link /\ HasRoom
    /\ Spend("values")
    /\ Sends("disconnected")
    /\ UNCHANGED <<peer, pc, ams, ancs, app, sent, hist>>

----------------------------------------------------------------------------
(* ble_ams_client_event_handler.                                            *)

AmsHandles == ble_ams_handler.conn_handle /\ ble_ams_handler.found

CommandsUpdate(S) ==
    /\ link /\ "ams" \in subscribed
    /\ Spend("values")
    /\ supported' = supported \cup S
    /\ IF AmsHandles
       THEN ble_ams_handler' = [ble_ams_handler EXCEPT !.cmds = S]
       ELSE UNCHANGED ble_ams_handler
    /\ UNCHANGED <<peer, kernel_cmd_q, pc, ble_ams_mem_inst, ancs, app, names, present, pending,
                   hist>>

Stored_AddOnly(p, a, len) ==    \* mutant
    IF len = 0 THEN kernel_mem_delete_data(p, a) ELSE kernel_mem_add_data(p, a, len)
\* A name that comes for the first time is added, another takes its place.
Stored(p, a, len) ==
    IF len = 0 THEN kernel_mem_delete_data(p, a)
    ELSE IF AddError(p, a, len) = "UID_ALRDY_PRESENT" THEN kernel_mem_modify_data(p, a, len)
    ELSE kernel_mem_add_data(p, a, len)

NameUpdate(a, len) ==
    /\ link /\ "ams" \in subscribed /\ registered
    /\ Spend("values")
    /\ names' = [names EXCEPT ![a] = len]
    /\ IF AmsHandles
       THEN /\ ble_ams_mem_inst' = Stored(ble_ams_mem_inst, a, len)
            /\ hist' = IF len # 0 /\ AddError(ble_ams_mem_inst, a, len) = "OUT_OF_MEM"
                       THEN hist \cup {"no_room"} ELSE hist
       ELSE UNCHANGED <<ble_ams_mem_inst, hist>>
    /\ UNCHANGED <<peer, kernel_cmd_q, pc, ble_ams_handler, ancs, app, supported, present,
                   pending>>

----------------------------------------------------------------------------
(* ble_ancs_client_event_handler.                                           *)

AncsHandles == ble_ancs_handler.conn_handle /\ ble_ancs_handler.found

\* A value that comes before its client is ready.
Early == ~AncsHandles \/ pc \in {"ancs_reset", "ll_reset", "ll_clear"}

\* What a handler makes of the list, the last nuid and the counter; the list may
\* refuse, the counter goes on.
Announces(u, version, list, last_nuid, total) ==
    /\ link /\ "ancs" \in subscribed
    /\ Spend("values")
    /\ present' = [present EXCEPT ![u] = version]
    /\ hist' = hist \cup (IF Early THEN {"early"} ELSE {})
                    \cup (IF Cardinality({v \in Uids : present'[v] # 0}) > total_poss_node THEN {"full"} ELSE {})
    /\ IF AncsHandles
       THEN /\ ble_ancs_ll_inst' = list
            /\ ble_ancs_handler' = [ble_ancs_handler EXCEPT !.last_nuid = last_nuid,
                                                            !.total_notif_present = total % 2^16]
       ELSE UNCHANGED ancs
    /\ UNCHANGED <<peer, pc, ams, app, supported, names>>

\* The command for the kernel task.
Wakes(u) ==
    IF AncsHandles
    THEN Sends("notif_recv") /\ pending' = IF Early THEN pending ELSE u
    ELSE UNCHANGED <<kernel_cmd_q, pending>>

Added(u) == kernel_ll_add_data(ble_ancs_ll_inst, [uid |-> u, version |-> 1])

NotifAdded(u) ==
    /\ present[u] = 0
    /\ Announces(u, 1, Added(u), u, ble_ancs_handler.total_notif_present + 1)
    /\ Wakes(u)

NotifModified(u) ==
    /\ present[u] # 0
    /\ Announces(u, 2, kernel_ll_modify_data(ble_ancs_ll_inst, u, [uid |-> u, version |-> 2]),
                 u, ble_ancs_handler.total_notif_present)
    /\ Wakes(u)

NotifRemoved(u) ==
    /\ present[u] # 0
    /\ Announces(u, 0, kernel_ll_remove_data(ble_ancs_ll_inst, u),
                 ble_ancs_handler.last_nuid, ble_ancs_handler.total_notif_present - 1)
    /\ UNCHANGED <<kernel_cmd_q, pending>>

----------------------------------------------------------------------------
(* The kernel task: a command, then the steps of ble_funcs_init,            *)
(* ble_funcs_deinit or ble_func_recv_notif.                                 *)

Label == [connected |-> "security", disconnected |-> "ams_cmds", notif_recv |-> "fetch"]

KernelCommand ==
    /\ pc = "main" /\ kernel_cmd_q # <<>>
    /\ pc' = Label[Head(kernel_cmd_q)]
    /\ kernel_cmd_q' = Tail(kernel_cmd_q)
    /\ UNCHANGED <<peer, ams, ancs, app, budget, sent, hist>>

Goes(from, to) ==
    /\ pc = from /\ pc' = to
    /\ UNCHANGED <<kernel_cmd_q, app, budget, sent, hist>>

\* Without security, nothing is set up.
ble_gap_security_init ==
    /\ \E to \in {"ams_reset", "main"} : Goes("security", to)
    /\ UNCHANGED <<peer, ams, ancs>>

\* No value reaches the client before its handle is set.
AmsReset ==
    /\ Goes("ams_reset", "ams_discover")
    /\ ble_ams_mem_inst' = kernel_mem_init(ble_ams_mem_inst)
    /\ ble_ams_handler' = [ble_ams_handler EXCEPT !.inited = FALSE, !.conn_handle = TRUE]
    /\ UNCHANGED <<peer, ancs>>

\* The calls fail without a link, and may fail with one.  Only the first is
\* looked at.
AmsDiscover ==
    /\ \E to \in {"ams_chars", "ancs_conn"} :
        /\ to = "ams_chars" => link
        /\ Goes("ams_discover", to)
    /\ UNCHANGED <<peer, ams, ancs>>

AmsChars ==
    /\ Goes("ams_chars", "ams_cccd")
    /\ \E ok \in {FALSE, link} :
        ble_ams_handler' = [ble_ams_handler EXCEPT !.found = @ \/ ok]
    /\ UNCHANGED <<peer, ble_ams_mem_inst, ancs>>

Subscribes(service, found) ==
    /\ subscribed' \in {subscribed} \cup (IF link /\ found THEN {subscribed \cup {service}} ELSE {})
    /\ UNCHANGED <<link, registered, ams, ancs>>

AmsSubscribe ==
    /\ Goes("ams_cccd", "ams_register")
    /\ Subscribes("ams", ble_ams_handler.found)

AmsRegister ==
    /\ Goes("ams_register", "ancs_conn")
    /\ ble_ams_handler' = [ble_ams_handler EXCEPT !.inited = TRUE]
    /\ registered' \in {registered, link /\ ble_ams_handler.found}
    /\ UNCHANGED <<link, subscribed, ble_ams_mem_inst, ancs>>

AncsConn ==
    /\ Goes("ancs_conn", "ancs_reset")
    /\ ble_ancs_handler' = [ble_ancs_handler EXCEPT !.conn_handle = TRUE]
    /\ UNCHANGED <<peer, ams, ble_ancs_ll_inst>>

AncsReset ==
    /\ Goes("ancs_reset", "ll_reset")
    /\ ble_ancs_handler' = [ble_ancs_handler EXCEPT !.total_notif_present = 0, !.last_nuid = 0]
    /\ UNCHANGED <<peer, ams, ble_ancs_ll_inst>>

ListHeadReset ==
    /\ Goes("ll_reset", "ll_clear")
    /\ ble_ancs_ll_inst' = HeadReset(ble_ancs_ll_inst)
    /\ UNCHANGED <<peer, ams, ble_ancs_handler>>

ListMemoryReset ==
    /\ Goes("ll_clear", "ancs_discover")
    /\ ble_ancs_ll_inst' = MemoryReset(ble_ancs_ll_inst)
    /\ UNCHANGED <<peer, ams, ble_ancs_handler>>

AncsDiscover ==
    /\ \E to \in {"ancs_chars", "main"} :
        /\ to = "ancs_chars" => link
        /\ Goes("ancs_discover", to)
    /\ UNCHANGED <<peer, ams, ancs>>

AncsChars ==
    /\ Goes("ancs_chars", "ancs_cccd")
    /\ \E ok \in {FALSE, link} :
        ble_ancs_handler' = [ble_ancs_handler EXCEPT !.found = @ \/ ok]
    /\ UNCHANGED <<peer, ams, ble_ancs_ll_inst>>

AncsSubscribe ==
    /\ Goes("ancs_cccd", "main")
    /\ Subscribes("ancs", ble_ancs_handler.found)

CmdsCleared_Not(h) == h         \* mutant
CmdsCleared(h) == [h EXCEPT !.cmds = {}]

AmsClearCmds ==
    /\ Goes("ams_cmds", "ams_pool")
    /\ ble_ams_handler' = CmdsCleared(ble_ams_handler)
    /\ UNCHANGED <<peer, ble_ams_mem_inst, ancs>>

\* The mutex of a pool that was never initialised is NULL: an assertion of the
\* kernel's stops the program.
AmsMemDeinit ==
    /\ ble_ams_mem_inst.mutex
    /\ Goes("ams_pool", "ams_clear")
    /\ ble_ams_mem_inst' = kernel_mem_deinit(ble_ams_mem_inst)
    /\ UNCHANGED <<peer, ble_ams_handler, ancs>>

AmsClear ==
    /\ Goes("ams_clear", "ancs_clear")
    /\ ble_ams_handler' = [ble_ams_handler EXCEPT !.inited = FALSE, !.conn_handle = FALSE]
    /\ UNCHANGED <<peer, ble_ams_mem_inst, ancs>>

AncsClear ==
    /\ Goes("ancs_clear", "ll_deinit")
    /\ ble_ancs_handler' = [ble_ancs_handler EXCEPT !.conn_handle = FALSE,
                                                    !.total_notif_present = 0, !.last_nuid = 0]
    /\ UNCHANGED <<peer, ams, ble_ancs_ll_inst>>

ListDeinit ==
    /\ Goes("ll_deinit", "main")
    /\ ble_ancs_ll_inst' = kernel_ll_deinit(ble_ancs_ll_inst)
    /\ UNCHANGED <<peer, ams, ble_ancs_handler>>

\* The notification the kernel task asks the peer for; the request may fail, or
\* time out, and is not repeated.
Fetched_Oldest == LET l == ble_ancs_ll_inst     \* mutant
                  IN  IF l.head_ptr \in Nodes THEN l.data[l.head_ptr].uid ELSE 0
Fetched == ble_ancs_handler.last_nuid

ble_ancs_process_notif ==
    /\ pc = "fetch" /\ pc' = "main"
    /\ \E ok \in {FALSE, link} :
        /\ pending' = IF ok /\ Fetched = pending THEN 0 ELSE pending
        /\ hist' = IF ~ok /\ link THEN hist \cup {"failed"} ELSE hist
    /\ UNCHANGED <<peer, kernel_cmd_q, ams, ancs, app, budget, supported, names, present>>

----------------------------------------------------------------------------
(* ble_ams_execute_cmd, in another task; its write waits for other calls.   *)

ble_ams_execute_cmd(c) ==
    /\ app = "none"
    /\ ble_ams_handler.inited /\ c \in ble_ams_handler.cmds
    /\ Spend("values")
    /\ app' = c
    /\ hist' = hist \ {"spans"}
    /\ UNCHANGED <<peer, kernel_cmd_q, pc, ams, ancs, sent>>

CommandWritten ==
    /\ app # "none"
    /\ app' = "none"
    /\ UNCHANGED <<peer, kernel_cmd_q, pc, ams, ancs, budget, sent, hist>>

----------------------------------------------------------------------------

Peer ==
    \/ Connect \/ Disconnect \/ Timeout
    \/ \E S \in SUBSET Commands : CommandsUpdate(S)
    \/ \E a \in Attributes, len \in Lengths \cup {0} : NameUpdate(a, len)
    \/ \E u \in Uids : NotifAdded(u) \/ NotifModified(u) \/ NotifRemoved(u)

KernelTask ==
    \/ KernelCommand \/ ble_gap_security_init
    \/ AmsReset \/ AmsDiscover \/ AmsChars \/ AmsSubscribe \/ AmsRegister
    \/ AncsConn \/ AncsReset \/ ListHeadReset \/ ListMemoryReset
    \/ AncsDiscover \/ AncsChars \/ AncsSubscribe
    \/ AmsClearCmds \/ AmsMemDeinit \/ AmsClear \/ AncsClear \/ ListDeinit
    \/ ble_ancs_process_notif

App == CommandWritten \/ \E c \in Commands : ble_ams_execute_cmd(c)

Next == Peer \/ KernelTask \/ App

Spec == Init /\ [][Next]_vars
FairSpec == Spec /\ WF_vars(KernelTask)

----------------------------------------------------------------------------
(* Properties.                                                              *)

Deinit == {"ams_pool", "ams_clear"}

\* No name has been written past the end of the pool, over other variables.
Intact == ~ble_ams_mem_inst.overrun

\* While the media client is in use, the pool gives out for each attribute the
\* name the peer sent last, and its books agree with its blocks; unless a name
\* was refused for want of room, or the pool was overrun.
NamesAreThePeers ==
    ble_ams_handler.inited /\ pc \notin Deinit /\ "no_room" \notin hist /\ Intact
    => /\ \A a \in Attributes : kernel_mem_get_Data_ptr(ble_ams_mem_inst, a) = names[a]
       /\ ble_ams_mem_inst.total_uid = Len(ble_ams_mem_inst.blocks)

\* A command is written to a peer that said it supports it, unless the call
\* outlives the connection it began in, or the pool was overrun.
CommandSupported ==
    [][app # "none" /\ app' = "none" /\ link /\ ble_ams_handler.conn_handle
          /\ "spans" \notin hist /\ Intact
       => app \in supported]_vars

\* The list holds the notifications of the peer, each once and as announced
\* last, and their number is counted; unless one came before the client was
\* ready, in an earlier session then led a walk out of the list's memory, there
\* were more than the list has nodes, or the pool was overrun.
ListHoldsNotifications ==
    ble_ancs_handler.conn_handle /\ pc \notin {"ancs_reset", "ll_reset", "ll_clear"}
        /\ hist \cap {"early", "full", "wild"} = {} /\ Intact
    => LET l == ble_ancs_ll_inst
           there == {u \in Uids : present[u] # 0}
       IN  /\ ~l.wild
           /\ l.head_ptr = NULL \/ Terminated(l)
           /\ {l.data[n] : n \in Linked(l)} = {[uid |-> u, version |-> present[u]] : u \in there}
           /\ Cardinality(Linked(l)) = Cardinality(there)
           /\ l.total_link_nodes = Cardinality(there)
           /\ ble_ancs_handler.total_notif_present = Cardinality(there)

\* The notification announced last is asked for, while the session lasts, unless
\* the request for one failed or the pool was overrun.
LastNotificationFetched ==
    pending # 0 ~> \/ pending = 0 \/ ~ble_ancs_handler.conn_handle
                   \/ "failed" \in hist \/ ~Intact

==============================================================================
