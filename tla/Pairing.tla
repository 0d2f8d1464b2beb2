------------------------------ MODULE Pairing ------------------------------
(***************************************************************************)
(* Pairing and bonds: src/src/libs/components/ble/ble_gap.                 *)
(*                                                                         *)
(* The kernel task runs ble_gap_security_init once per connection and      *)
(* waits in it for the values that the GAP event handler, in the           *)
(* SoftDevice task, puts into the task's one notification slot; its        *)
(* nvs_add_data waits in the same slot for the end of a flash write.       *)
(* Another task may delete the bonds.                                      *)
(*                                                                         *)
(* A key stands for what one pairing produces (EDIV, RAND, LTK, IRKs);     *)
(* the n-th pairing produces key n.  Nvs models the store in detail: here  *)
(* a flash operation is done, and answered, in one step.                   *)
(***************************************************************************)
EXTENDS Naturals, Sequences, SequencesExt, FiniteSets

CONSTANTS
    BLE_GAP_MAX_BOND_USERS_STORED,
    MaxLinks, MaxPairings,      \* bounds: connections, pairings that are begun
    MaxDeletes, MaxErrors,      \* bounds: deletions, flash errors
    MaxEvents                   \* room for events in the SoftDevice

ASSUME PairingAssumption ==
    /\ BLE_GAP_MAX_BOND_USERS_STORED \in Nat \ {0}
    /\ {MaxLinks, MaxPairings, MaxDeletes, MaxErrors, MaxEvents} \subseteq Nat

VARIABLES
    \* SoftDevice and peer
    link, smp,              \* the connection and where its security procedure is
    encrypted,
    peer_key,               \* the key the connected peer holds
    events,
    flash,                  \* the flash operation in progress
    \* the SoftDevice task
    evt_buffer,             \* the key in the event its stack buffer holds
    ble_gap_Evt,            \* was the pointer into that buffer set?
    \* ble_gap.c
    mutex, ble_gap_taskhandle, gap_handle_valid,
    key_set,                \* the keys the SoftDevice filled in last
    notify,                 \* the kernel task's notification slot
    pc, uid_to_store,       \* the kernel task in ble_gap_security_init
    total_bond_present, i,  \* its scan of the bonds
    result,                 \* what the call for this connection returned
    deleter,                \* the task in ble_gap_delete_bonds
    bonds,                  \* the records in the store
    \* bounds and history
    budget,
    due,                    \* no security_init yet for this connection
    completed,              \* the keys of pairings that succeeded
    undercut,               \* has an erase ended after a count of the bonds, before its use?
    hist                    \* what happened since the connection was made

softdevice == <<link, smp, encrypted, peer_key>>
kernel == <<pc, uid_to_store, total_bond_present, i, result>>
vars == <<softdevice, events, flash, evt_buffer, ble_gap_Evt, mutex, ble_gap_taskhandle,
          gap_handle_valid, key_set, notify, kernel, deleter, bonds, budget, due, completed,
          undercut, hist>>

NoKey == 0
Keys == 1 .. MaxPairings
GapValues == {"SEC_PARAM_REQ", "SEC_INFO_REQ", "LESC_DHKEY_REQ", "CONN_SEC_UPDATE", "AUTH_STATUS"}
Pairs == {"params", "exchange", "dhkey", "checks", "passkey", "confirmed", "keys"}
NoFlash == [kind |-> "none", uid |-> 0, key |-> NoKey]
ThisKey == MaxPairings - budget.pairings    \* of the pairing begun last

Init ==
    /\ link = FALSE /\ smp = "idle" /\ encrypted = FALSE /\ peer_key = NoKey
    /\ events = <<>> /\ flash = NoFlash
    /\ evt_buffer = NoKey /\ ble_gap_Evt = FALSE
    /\ mutex = "free" /\ ble_gap_taskhandle = FALSE /\ gap_handle_valid = FALSE
    /\ key_set = NoKey /\ notify = "none"
    /\ pc = "idle" /\ uid_to_store = 0 /\ total_bond_present = 0 /\ i = 0
    /\ result = "none"
    /\ deleter = "idle" /\ bonds = <<>>
    /\ budget = [links |-> MaxLinks, pairings |-> MaxPairings, deletes |-> MaxDeletes,
                 errors |-> MaxErrors]
    /\ due = FALSE /\ completed = {} /\ undercut = FALSE /\ hist = {}

----------------------------------------------------------------------------
(* The peer and the SoftDevice's security procedure.                        *)

Raise(type, key) ==
    /\ Len(events) < MaxEvents
    /\ events' = Append(events, [type |-> type, key |-> key])
    /\ UNCHANGED <<flash, evt_buffer, ble_gap_Evt, mutex, ble_gap_taskhandle, gap_handle_valid,
                   notify, kernel, deleter, bonds, due, undercut>>

\* A peer that waits until the last session is torn down, as one of those
\* paired before or as a new one.
Connect ==
    /\ ~link /\ budget.links > 0
    /\ pc = "idle" /\ events = <<>> /\ ~gap_handle_valid
    /\ link' = TRUE /\ smp' = "idle" /\ encrypted' = FALSE
    /\ peer_key' \in completed \cup {NoKey}
    /\ budget' = [budget EXCEPT !.links = @ - 1]
    /\ due' = TRUE /\ gap_handle_valid' = TRUE
    /\ evt_buffer' = NoKey
    /\ hist' = {} /\ result' = "none"
    /\ UNCHANGED <<events, flash, ble_gap_Evt, mutex, ble_gap_taskhandle, key_set, notify, pc,
                   uid_to_store, total_bond_present, i, deleter, bonds, completed, undercut>>

\* A pairing that is cut off may be reported as failed first.
Disconnect ==
    /\ link
    /\ link' = FALSE /\ smp' = "idle" /\ encrypted' = FALSE
    /\ \/ smp \in Pairs /\ Raise("AUTH_STATUS", NoKey)
       \/ UNCHANGED <<events, flash, evt_buffer, ble_gap_Evt, mutex, ble_gap_taskhandle,
                      gap_handle_valid, notify, kernel, deleter, bonds, due, undercut>>
    /\ UNCHANGED <<peer_key, key_set, budget, completed, hist>>

\* The peer may also begin before it is asked to, or once more.
PeerPairs ==
    /\ link /\ smp \in {"requested", "idle"}
    /\ budget.pairings > 0
    /\ budget' = [budget EXCEPT !.pairings = @ - 1]
    /\ smp' = "params"
    /\ hist' = IF smp = "idle" THEN hist \cup {"unasked"} ELSE hist
    /\ Raise("SEC_PARAM_REQ", NoKey)
    /\ UNCHANGED <<link, encrypted, peer_key, key_set, completed>>

PeerEncrypts ==
    /\ link /\ smp \in {"requested", "idle"} /\ ~encrypted
    /\ peer_key # NoKey
    /\ smp' = "info"
    /\ hist' = IF smp = "idle" THEN hist \cup {"unasked"} ELSE hist
    /\ Raise("SEC_INFO_REQ", peer_key)
    /\ UNCHANGED <<link, encrypted, peer_key, key_set, budget, completed>>

PeerRefuses ==
    /\ link /\ smp = "requested"
    /\ smp' = "idle"
    /\ hist' = hist \cup {"refused"}
    /\ Raise("AUTH_STATUS", NoKey)
    /\ UNCHANGED <<link, encrypted, peer_key, key_set, budget, completed>>

PairingFails ==
    /\ link /\ smp \in Pairs
    /\ smp' = "idle"
    /\ Raise("AUTH_STATUS", NoKey)
    /\ UNCHANGED <<link, encrypted, peer_key, key_set, budget, completed, hist>>

\* From one event of a successful pairing to the next; a passkey is only shown
\* for a comparison.
PairingGoesOn ==
    /\ link
    /\ \/ smp = "exchange" /\ smp' = "dhkey" /\ Raise("LESC_DHKEY_REQ", NoKey)
       \/ smp = "checks" /\ smp' = "passkey" /\ Raise("PASSKEY_DISPLAY", NoKey)
    /\ UNCHANGED <<link, encrypted, peer_key, key_set, budget, completed, hist>>

Encrypts ==
    /\ link /\ smp \in {"checks", "confirmed", "restore"}
    /\ encrypted' = TRUE
    /\ smp' = IF smp = "restore" THEN "idle" ELSE "keys"
    /\ key_set' = IF smp = "restore" THEN key_set ELSE ThisKey
    /\ Raise("CONN_SEC_UPDATE", NoKey)
    /\ UNCHANGED <<link, peer_key, budget, completed, hist>>

PairingSucceeds ==
    /\ link /\ smp = "keys"
    /\ smp' = "idle"
    /\ peer_key' = ThisKey /\ completed' = completed \cup {ThisKey}
    /\ hist' = hist \cup {"paired"}
    /\ Raise("AUTH_STATUS", NoKey)
    /\ UNCHANGED <<link, encrypted, key_set, budget>>

----------------------------------------------------------------------------
(* The SoftDevice task: events reach the kernel task's slot, the last value *)
(* over one that was not taken yet.                                         *)

task_notify(x) ==
    IF ble_gap_taskhandle
    THEN /\ notify' = x
         /\ hist' = IF notify # "none" THEN hist \cup {"overwritten"} ELSE hist
    ELSE UNCHANGED <<notify, hist>>

GapEvent ==
    /\ events # <<>>
    /\ events' = Tail(events)
    /\ evt_buffer' = Head(events).key
    /\ ble_gap_Evt' = (ble_gap_Evt \/ Head(events).type = "SEC_INFO_REQ")
    /\ IF Head(events).type \in GapValues
       THEN task_notify(Head(events).type) /\ UNCHANGED smp
       ELSE /\ smp' = IF smp = "passkey" THEN "confirmed" ELSE smp
            /\ UNCHANGED <<notify, hist>>
    /\ UNCHANGED <<link, encrypted, peer_key, flash, mutex, ble_gap_taskhandle, gap_handle_valid,
                   key_set, kernel, deleter, bonds, budget, due, completed, undercut>>

\* Any other event is fetched into the same buffer.
OtherEvent ==
    /\ link /\ evt_buffer # NoKey
    /\ evt_buffer' = NoKey
    /\ hist' = hist \cup {"buffer_reused"}
    /\ UNCHANGED <<softdevice, events, flash, ble_gap_Evt, mutex, ble_gap_taskhandle,
                   gap_handle_valid, key_set, notify, kernel, deleter, bonds, budget, due,
                   completed, undercut>>

\* Where the kernel task uses the bonds that it has counted.
Counted == {"add", "scan", "reply"}

\* An erase that ble_gap_delete_bonds no longer waits for.
OutlivesWait == flash.kind = "erase" /\ deleter # "waiting"

\* The end of a flash operation, passed to the task that waits for it.
FlashEnds ==
    /\ flash # NoFlash
    /\ flash' = NoFlash
    /\ \E ok \in BOOLEAN :
        /\ ok \/ budget.errors > 0
        /\ budget' = IF ok THEN budget ELSE [budget EXCEPT !.errors = @ - 1]
        /\ bonds' = IF ~ok THEN bonds
                    ELSE IF flash.kind = "erase" THEN <<>>
                    ELSE Append(bonds, [uid |-> flash.uid, key |-> flash.key])
        /\ undercut' = (undercut \/ (ok /\ OutlivesWait /\ pc \in Counted))
        /\ IF pc = "flash"
           THEN /\ notify' = IF ok THEN "nrf_OK" ELSE "nrf_ERR_INTERNAL"
                /\ hist' = IF notify # "none" THEN hist \cup {"overwritten"} ELSE hist
           ELSE UNCHANGED <<notify, hist>>
    /\ deleter' = IF deleter = "waiting" THEN "answered" ELSE deleter
    /\ UNCHANGED <<softdevice, events, evt_buffer, ble_gap_Evt, mutex, ble_gap_taskhandle,
                   gap_handle_valid, key_set, kernel, due, completed>>

----------------------------------------------------------------------------
(* ble_gap_security_init, in the kernel task.                               *)

Goes(label) ==
    /\ pc' = label
    /\ UNCHANGED <<mutex, ble_gap_taskhandle, uid_to_store, total_bond_present, i, result>>

\* return_mech is a step of its own: events still find the task handle set.
Fails(err) ==
    /\ pc' = "return" /\ result' = err
    /\ UNCHANGED <<mutex, ble_gap_taskhandle, uid_to_store, total_bond_present, i>>

\* The mutex is free, or the wait for it expires.
SecurityStart ==
    /\ pc = "idle" /\ due
    /\ due' = FALSE
    /\ \/ /\ mutex = "free"
          /\ mutex' = "kernel" /\ ble_gap_taskhandle' = TRUE
          /\ pc' = "authenticate" /\ result' = "none"
          /\ hist' = IF notify # "none" THEN hist \cup {"leftover"} ELSE hist
       \/ /\ mutex # "free"
          /\ result' = "ble_gap_err_mutex_not_avial"
          /\ UNCHANGED <<mutex, ble_gap_taskhandle, pc, hist>>
    /\ UNCHANGED <<softdevice, events, flash, evt_buffer, ble_gap_Evt, gap_handle_valid, key_set,
                   notify, uid_to_store, total_bond_present, i, deleter, bonds, budget, completed,
                   undercut>>

\* The SoftDevice refuses without a connection or when the peer was quicker.
sd_ble_gap_authenticate ==
    /\ pc = "authenticate"
    /\ IF link /\ smp = "idle"
       THEN smp' = "requested" /\ Goes("first")
       ELSE Fails("sd_error") /\ UNCHANGED smp
    /\ UNCHANGED <<link, encrypted, peer_key, events, flash, evt_buffer, ble_gap_Evt,
                   gap_handle_valid, key_set, notify, deleter, bonds, budget, due, completed,
                   undercut, hist>>

\* The label each wait goes on to, by the value it takes; the error otherwise.
FirstValue_NoLookup(x) == IF x = "SEC_PARAM_REQ" THEN "params" ELSE "ok"    \* mutant
FirstValue(x) ==
    CASE x = "SEC_PARAM_REQ" -> "params"
      [] x = "SEC_INFO_REQ" -> "lookup"
      [] OTHER -> "ok"
Expected ==
    [first |-> "any", dhkey |-> "LESC_DHKEY_REQ", update |-> "CONN_SEC_UPDATE",
     auth |-> "AUTH_STATUS", found |-> "CONN_SEC_UPDATE", flash |-> "nrf_OK"]
After_Unauthenticated(label) ==     \* mutant
    [dhkey |-> "calculate", update |-> "store", auth |-> "store", found |-> "ok",
     flash |-> "ok"][label]
After(label) ==
    [dhkey |-> "calculate", update |-> "auth", auth |-> "store", found |-> "ok",
     flash |-> "ok"][label]

WaitTakes ==
    /\ pc \in DOMAIN Expected
    /\ notify # "none"
    /\ notify' = "none"
    /\ IF pc = "first" THEN Goes(FirstValue(notify))
       ELSE IF notify = Expected[pc] THEN Goes(After(pc))
       ELSE Fails("ble_gap_err_security_init_failed")
    /\ UNCHANGED <<softdevice, events, flash, evt_buffer, ble_gap_Evt, gap_handle_valid, key_set,
                   deleter, bonds, budget, due, completed, undercut, hist>>

WaitExpires ==
    /\ pc \in DOMAIN Expected
    /\ notify = "none"
    /\ Fails("ble_gap_err_timeout")
    /\ hist' = hist \cup {"expired"}
    /\ UNCHANGED <<softdevice, events, flash, evt_buffer, ble_gap_Evt, gap_handle_valid, key_set,
                   notify, deleter, bonds, budget, due, completed, undercut>>

\* sd_ble_gap_sec_params_reply, whose error is only reported.
ParamsReply ==
    /\ pc = "params"
    /\ smp' = IF smp = "params" THEN "exchange" ELSE smp
    /\ Goes("dhkey")
    /\ UNCHANGED <<link, encrypted, peer_key, events, flash, evt_buffer, ble_gap_Evt,
                   gap_handle_valid, key_set, notify, deleter, bonds, budget, due, completed,
                   undercut, hist>>

\* The peer's public key may be invalid, and the SoftDevice may refuse the
\* reply.
nrf_start_dhkey_calculation ==
    /\ pc = "calculate"
    /\ \/ smp = "dhkey" /\ smp' = "checks" /\ Goes("update")
       \/ UNCHANGED smp /\ Fails("ble_gap_err_dh_key_cal_failed")
    /\ UNCHANGED <<link, encrypted, peer_key, events, flash, evt_buffer, ble_gap_Evt,
                   gap_handle_valid, key_set, notify, deleter, bonds, budget, due, completed,
                   undercut, hist>>

nvs_Get_total_no_of_uid == Len(bonds)

\* No room: the connection is given up and the call returns nrf_OK.
BondUid == nvs_Get_total_no_of_uid + 1

StoreBond ==
    /\ pc = "store"
    /\ IF nvs_Get_total_no_of_uid >= BLE_GAP_MAX_BOND_USERS_STORED
       THEN /\ gap_handle_valid' = FALSE
            /\ pc' = "ok"
            /\ hist' = hist \cup {"full"}
            /\ UNCHANGED uid_to_store
       ELSE /\ uid_to_store' = BondUid
            /\ pc' = "add"
            /\ UNCHANGED <<gap_handle_valid, hist>>
    /\ UNCHANGED <<softdevice, events, flash, evt_buffer, ble_gap_Evt, mutex, ble_gap_taskhandle,
                   key_set, notify, total_bond_present, i, result, deleter, bonds, budget, due,
                   completed, undercut>>

\* nvs_add_data up to its wait.
nvs_add_data ==
    /\ pc = "add"
    /\ IF (\E n \in DOMAIN bonds : bonds[n].uid = uid_to_store) \/ flash # NoFlash
       THEN Fails("nvs_error") /\ UNCHANGED flash
       ELSE /\ flash' = [kind |-> "write", uid |-> uid_to_store, key |-> key_set]
            /\ Goes("flash")
    /\ UNCHANGED <<softdevice, events, evt_buffer, ble_gap_Evt, gap_handle_valid, key_set, notify,
                   deleter, bonds, budget, due, completed, undercut, hist>>

\* The scan of the uids 1 .. total; what the event asked for is read from the
\* SoftDevice task's buffer in each round.
Matches_Any(u) == \E n \in DOMAIN bonds : bonds[n].uid = u     \* mutant
Matches(u) == \E n \in DOMAIN bonds : bonds[n].uid = u /\ bonds[n].key = evt_buffer

LastUid_OffByOne == total_bond_present - 1     \* mutant
LastUid == total_bond_present

LookUp ==
    /\ pc = "lookup"
    /\ total_bond_present' = nvs_Get_total_no_of_uid /\ i' = 1
    /\ pc' = "scan"
    /\ UNCHANGED <<softdevice, events, flash, evt_buffer, ble_gap_Evt, mutex, ble_gap_taskhandle,
                   gap_handle_valid, key_set, notify, uid_to_store, result, deleter, bonds,
                   budget, due, completed, undercut, hist>>

Scan ==
    /\ pc = "scan"
    /\ IF i > LastUid \/ ~ble_gap_Evt
       THEN /\ smp' = IF smp = "info" THEN "idle" ELSE smp
            /\ Fails("ble_gap_err_bond_info_not_found")
       ELSE /\ UNCHANGED <<smp, mutex, ble_gap_taskhandle, uid_to_store, total_bond_present,
                           result>>
            /\ IF Matches(i) THEN pc' = "reply" /\ UNCHANGED i
                             ELSE i' = i + 1 /\ UNCHANGED pc
    /\ UNCHANGED <<link, encrypted, peer_key, events, flash, evt_buffer, ble_gap_Evt,
                   gap_handle_valid, key_set, notify, deleter, bonds, budget, due, completed,
                   undercut, hist>>

\* sd_ble_gap_sec_info_reply, with pointers into the record that matched.
SecInfoReply ==
    /\ pc = "reply"
    /\ smp' = IF smp = "info" THEN "restore" ELSE smp
    /\ Goes("found")
    /\ UNCHANGED <<link, encrypted, peer_key, events, flash, evt_buffer, ble_gap_Evt,
                   gap_handle_valid, key_set, notify, deleter, bonds, budget, due, completed,
                   undercut, hist>>

\* The owner of the mutex when the call has ended.
Given_OnlyOnSuccess(label) == IF label = "ok" THEN "free" ELSE mutex    \* mutant
Given(label) == "free"

Return ==
    /\ pc \in {"ok", "return"}
    /\ pc' = "idle"
    /\ result' = IF pc = "ok" THEN "nrf_OK" ELSE result
    /\ mutex' = Given(pc) /\ ble_gap_taskhandle' = FALSE
    /\ uid_to_store' = 0 /\ total_bond_present' = 0 /\ i' = 0   \* its local variables
    /\ UNCHANGED <<softdevice, events, flash, evt_buffer, ble_gap_Evt, gap_handle_valid, key_set,
                   notify, deleter, bonds, budget, due, completed, undercut, hist>>

\* When the connection is torn down.
ble_gap_instance_clear ==
    /\ pc = "idle" /\ ~link /\ ~due
    /\ mutex = "free"
    /\ gap_handle_valid \/ key_set # NoKey
    /\ gap_handle_valid' = FALSE /\ key_set' = NoKey
    /\ UNCHANGED <<softdevice, events, flash, evt_buffer, ble_gap_Evt, mutex, ble_gap_taskhandle,
                   notify, kernel, deleter, bonds, budget, due, completed, undercut, hist>>

----------------------------------------------------------------------------
(* ble_gap_delete_bonds, in another task.                                   *)

MutexFree_Always == TRUE    \* mutant
MutexFree == mutex = "free"

ble_gap_delete_bonds ==
    /\ deleter = "idle" /\ budget.deletes > 0
    /\ MutexFree
    /\ mutex' = "deleter" /\ deleter' = "erase"
    /\ budget' = [budget EXCEPT !.deletes = @ - 1]
    /\ UNCHANGED <<softdevice, events, flash, evt_buffer, ble_gap_Evt, ble_gap_taskhandle,
                   gap_handle_valid, key_set, notify, kernel, bonds, due, completed, undercut,
                   hist>>

\* nvs_erase_partition up to its wait.
Erase ==
    /\ deleter = "erase"
    /\ IF nvs_Get_total_no_of_uid # 0 /\ flash = NoFlash
       THEN /\ flash' = [kind |-> "erase", uid |-> 0, key |-> NoKey]
            /\ deleter' = "waiting"
       ELSE deleter' = "answered" /\ UNCHANGED flash
    /\ UNCHANGED <<softdevice, events, evt_buffer, ble_gap_Evt, mutex, ble_gap_taskhandle,
                   gap_handle_valid, key_set, notify, kernel, bonds, budget, due, completed,
                   undercut, hist>>

\* The wait is over, the erase is not; it is left to end by itself.
EraseExpires ==
    /\ deleter = "waiting"
    /\ deleter' = "answered"
    /\ UNCHANGED <<softdevice, events, flash, evt_buffer, ble_gap_Evt, mutex, ble_gap_taskhandle,
                   gap_handle_valid, key_set, notify, kernel, bonds, budget, due, completed,
                   undercut, hist>>

DeleteReturns ==
    /\ deleter = "answered"
    /\ deleter' = "idle" /\ mutex' = "free"
    /\ UNCHANGED <<softdevice, events, flash, evt_buffer, ble_gap_Evt, ble_gap_taskhandle,
                   gap_handle_valid, key_set, notify, kernel, bonds, budget, due, completed,
                   undercut, hist>>

----------------------------------------------------------------------------

Environment ==
    \/ Connect \/ Disconnect \/ PeerPairs \/ PeerEncrypts \/ PeerRefuses
    \/ PairingFails \/ PairingGoesOn \/ Encrypts \/ PairingSucceeds
    \/ OtherEvent

SecurityInit ==
    \/ SecurityStart \/ sd_ble_gap_authenticate \/ WaitTakes \/ WaitExpires
    \/ ParamsReply \/ nrf_start_dhkey_calculation \/ StoreBond \/ nvs_add_data
    \/ LookUp \/ Scan \/ SecInfoReply \/ Return

Next ==
    \/ Environment \/ GapEvent \/ FlashEnds
    \/ SecurityInit \/ ble_gap_instance_clear
    \/ ble_gap_delete_bonds \/ Erase \/ EraseExpires \/ DeleteReturns

Spec == Init /\ [][Next]_vars

\* The tasks run, and the SoftDevice ends the flash operations it began.
Liveness ==
    /\ WF_vars(SecurityInit) /\ WF_vars(GapEvent) /\ WF_vars(FlashEnds)
    /\ WF_vars(Erase) /\ WF_vars(DeleteReturns)

FairSpec == Spec /\ Liveness

----------------------------------------------------------------------------
(* Properties.                                                              *)

\* No two bonds have one uid, and no uid is beyond the last that fits.  The uids
\* are 1 .. n, as the scan of ble_gap_security_init and the uid of the next bond
\* rely on, unless an erase whose wait had expired has ended between a count of
\* the bonds and its use.
BondUidsContiguous ==
    /\ \A m, n \in DOMAIN bonds : bonds[m].uid = bonds[n].uid => m = n
    /\ \A n \in DOMAIN bonds : bonds[n].uid \in 1 .. BLE_GAP_MAX_BOND_USERS_STORED
    /\ ~undercut => \A n \in DOMAIN bonds : bonds[n].uid = n

\* A call that returned nrf_OK leaves an encrypted connection, unless the
\* connection is gone or was given up, or the first value may not have been the
\* answer to the request: the peer refused it or began by itself, or a value
\* was left from an earlier call or put over the answer.
OkMeansEncrypted ==
    pc = "idle" /\ result = "nrf_OK" /\ link /\ gap_handle_valid
        /\ hist \cap {"refused", "unasked", "leftover", "overwritten"} = {}
    => encrypted

\* After a call in which the peer paired as it was asked to, nrf_OK is returned
\* if and only if the bond that the peer keeps is stored: unless the store was
\* full, a wait expired or a value was put over one that was not taken.
BondAgreement ==
    pc = "idle" /\ flash = NoFlash /\ deleter = "idle" /\ hist \ {"buffer_reused"} = {"paired"}
        /\ budget.deletes = MaxDeletes
    => (result = "nrf_OK" <=> \E n \in DOMAIN bonds : bonds[n].key = ThisKey)

\* The keys given to the SoftDevice for encryption are those it asked for, unless
\* an erase has undercut a call.
KeyFitsRequest ==
    [][smp = "info" /\ smp' = "restore" /\ ~undercut
       => \E n \in DOMAIN bonds : bonds[n].uid = i /\ bonds[n].key = peer_key]_vars

RequestRead == hist \cap {"buffer_reused", "leftover"} = {}

\* A peer whose bond was stored when the scan began is not told that it is not,
\* unless another event was fetched over its request, the first value was one
\* left from an earlier call, or an erase has undercut a call.
BondedPeerFound ==
    [][smp = "info" /\ smp' = "idle" /\ pc = "scan" /\ pc' = "return" /\ RequestRead
          /\ ~undercut
       => \A n \in DOMAIN bonds : n <= total_bond_present => bonds[n].key # peer_key]_vars

\* Every call returns, with the mutex given.
SecurityInitReturns == mutex = "kernel" ~> pc = "idle" /\ mutex # "kernel"

============================================================================
