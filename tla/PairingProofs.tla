---------------------------- MODULE PairingProofs ----------------------------
(***************************************************************************)
(* Theorems about Pairing, for every size of the bond store and every      *)
(* bound on connections, pairings, deletions and errors: each safety       *)
(* property of the module, from one inductive invariant in seven layers.   *)
(*                                                                         *)
(*   BondInv     types, the owner of the mutex, the uids on their way      *)
(*   OkInv       the first value taken is the peer's request, and what     *)
(*               follows CONN_SEC_UPDATE is encrypted                      *)
(*   InStep      how far the call is when the pairing is at each stage     *)
(*   KeysKnown   the new key: filled in, being written, stored             *)
(*   RequestInv  the peer's request, from the event to the scan            *)
(*   KeysReal    what is stored was produced by a pairing                  *)
(*   ReplyFits   the bond that the scan found, until it is given           *)
(*                                                                         *)
(* Each layer is kept by every step from the layers before it.             *)
(***************************************************************************)
EXTENDS Pairing, SequenceTheorems, TLAPS

----------------------------------------------------------------------------
(* The store: who owns it, and where its uids come from.                    *)

Answers == {"none", "nrf_OK", "nrf_ERR_INTERNAL"}
Waits == {"first", "dhkey", "update", "auth", "found", "flash"}
Places == Waits \cup {"idle", "authenticate", "params", "calculate", "store", "add", "lookup",
                      "scan", "reply", "ok", "return"}

Smps == Pairs \cup {"idle", "requested", "info", "restore"}
GapEvents == [type : GapValues \cup {"PASSKEY_DISPLAY"}, key : Nat]
Bond == [uid : Nat, key : Nat]
Budget == [links : Nat, pairings : 0 .. MaxPairings, deletes : 0 .. MaxDeletes, errors : Nat]

PairingTypes ==
    /\ link \in BOOLEAN /\ encrypted \in BOOLEAN
    /\ smp \in Smps /\ (smp # "idle" => link)
    /\ peer_key \in Nat /\ key_set \in Nat /\ evt_buffer \in Nat
    /\ completed \subseteq Nat
    /\ events \in Seq(GapEvents)
    /\ flash \in [kind : {"none", "write", "erase"}, uid : Nat, key : Nat]
    /\ flash.kind = "none" => flash = NoFlash
    /\ ble_gap_Evt \in BOOLEAN /\ gap_handle_valid \in BOOLEAN /\ due \in BOOLEAN
    /\ notify \in GapValues \cup Answers
    /\ pc \in Places /\ i \in Nat /\ uid_to_store \in Nat /\ total_bond_present \in Nat
    /\ undercut \in BOOLEAN
    /\ due => pc = "idle"
    /\ deleter \in {"idle", "erase", "waiting", "answered"}
    /\ bonds \in Seq(Bond)
    /\ budget \in Budget

\* Who holds ble_gap_mutex.
Owners ==
    /\ pc # "idle" <=> mutex = "kernel"
    /\ ble_gap_taskhandle <=> pc # "idle"
    /\ deleter # "idle" <=> mutex = "deleter"
    /\ deleter # "idle" \/ flash.kind = "erase" => budget.deletes # MaxDeletes

\* The next uid, wherever it is on its way into the store.
NextUid ==
    /\ flash.kind = "write" =>
          /\ flash.uid \in 1 .. BLE_GAP_MAX_BOND_USERS_STORED
          /\ \A n \in DOMAIN bonds : bonds[n].uid # flash.uid
          /\ ~undercut => flash.uid = Len(bonds) + 1
    /\ pc = "add" =>
          /\ uid_to_store \in 1 .. BLE_GAP_MAX_BOND_USERS_STORED
          /\ ~undercut => uid_to_store \in 1 .. Len(bonds) + 1

BondInv == PairingTypes /\ Owners /\ BondUidsContiguous /\ NextUid

LEMMA BondInit == Init => BondInv
<1> SUFFICES ASSUME Init PROVE BondInv
  OBVIOUS
<1> USE DEF Init
<1>1. events \in Seq(GapEvents) /\ bonds \in Seq(Bond) /\ Len(bonds) = 0
  OBVIOUS
<1>2. budget \in Budget
  BY PairingAssumption DEF Budget
<1>3. PairingTypes
  BY <1>1, <1>2 DEF PairingTypes, Smps, NoFlash, NoKey, Answers, Places, Waits
<1>4. Owners /\ BondUidsContiguous /\ NextUid
  BY <1>1, PairingAssumption
     DEF Owners, BondUidsContiguous, NextUid, NoFlash, nvs_Get_total_no_of_uid
<1> QED
  BY <1>3, <1>4 DEF BondInv

LEMMA TypeFacts ==
  ASSUME PairingTypes
  PROVE  /\ ThisKey \in Nat
         /\ \A t \in GapValues \cup {"PASSKEY_DISPLAY"}, k \in Nat :
                Raise(t, k) => events' \in Seq(GapEvents)
         /\ events # <<>> => Head(events) \in GapEvents /\ Tail(events) \in Seq(GapEvents)
         /\ budget.links > 0 => [budget EXCEPT !.links = @ - 1] \in Budget
         /\ budget.pairings > 0 => [budget EXCEPT !.pairings = @ - 1] \in Budget
         /\ budget.deletes > 0 => [budget EXCEPT !.deletes = @ - 1] \in Budget
         /\ budget.errors > 0 => [budget EXCEPT !.errors = @ - 1] \in Budget
<1>1. ThisKey \in Nat
  BY PairingAssumption DEF ThisKey, PairingTypes, Budget
<1>2. ASSUME NEW t \in GapValues \cup {"PASSKEY_DISPLAY"}, NEW k \in Nat, Raise(t, k)
      PROVE  events' \in Seq(GapEvents)
  <2>1. [type |-> t, key |-> k] \in GapEvents
    BY DEF GapEvents
  <2> QED
    BY <1>2, <2>1 DEF Raise, PairingTypes
<1>3. events # <<>> => Head(events) \in GapEvents /\ Tail(events) \in Seq(GapEvents)
  BY DEF PairingTypes
<1>4. budget \in Budget
  BY DEF PairingTypes
<1>5. /\ budget.links > 0 => [budget EXCEPT !.links = @ - 1] \in Budget
      /\ budget.pairings > 0 => [budget EXCEPT !.pairings = @ - 1] \in Budget
      /\ budget.deletes > 0 => [budget EXCEPT !.deletes = @ - 1] \in Budget
      /\ budget.errors > 0 => [budget EXCEPT !.errors = @ - 1] \in Budget
  BY <1>4, PairingAssumption DEF Budget
<1> QED
  BY <1>1, <1>2, <1>3, <1>5

\* The environment leaves the store and its users alone.
LEMMA BondEnvironment ==
  ASSUME BondInv, Environment
  PROVE  BondInv'
<1> USE DEF Environment, Connect, Disconnect, PeerPairs, PeerEncrypts, PeerRefuses, PairingFails,
     PairingGoesOn, Encrypts, PairingSucceeds, OtherEvent, softdevice, kernel
<1>0. PairingTypes
  BY DEF BondInv
<1>1. UNCHANGED <<flash, ble_gap_Evt, mutex, ble_gap_taskhandle, notify, pc, uid_to_store,
                  total_bond_present, i, deleter, bonds, undercut>>
  BY DEF Raise
<1>2. budget' \in Budget /\ budget'.deletes = budget.deletes
  <2>1. \/ UNCHANGED budget
        \/ budget.links > 0 /\ budget' = [budget EXCEPT !.links = @ - 1]
        \/ budget.pairings > 0 /\ budget' = [budget EXCEPT !.pairings = @ - 1]
    OBVIOUS
  <2>2. budget \in Budget
    BY <1>0 DEF PairingTypes
  <2> QED
    BY <1>0, <2>1, <2>2, TypeFacts DEF Budget
<1>3. events' \in Seq(GapEvents)
  <2>1. \/ UNCHANGED events
        \/ \E t \in GapValues \cup {"PASSKEY_DISPLAY"}, k \in {NoKey, peer_key} : Raise(t, k)
    BY DEF GapValues
  <2>2. \A k \in {NoKey, peer_key} : k \in Nat
    BY <1>0 DEF PairingTypes, NoKey
  <2> QED
    BY <1>0, <2>1, <2>2, TypeFacts DEF PairingTypes
<1>4. /\ peer_key' \in Nat /\ key_set' \in Nat /\ evt_buffer' \in Nat
      /\ completed' \subseteq Nat
  <2>1. /\ completed' = completed \/ completed' = completed \cup {ThisKey}
        /\ peer_key' \in completed \cup {NoKey, peer_key, ThisKey}
        /\ key_set' \in {key_set, ThisKey} /\ evt_buffer' \in {evt_buffer, NoKey}
    BY DEF Raise
  <2> QED
    BY <1>0, <2>1, TypeFacts DEF PairingTypes, NoKey
<1>5. /\ link' \in BOOLEAN /\ encrypted' \in BOOLEAN /\ gap_handle_valid' \in BOOLEAN
      /\ due' \in BOOLEAN /\ (due' => pc = "idle")
  <2>1. /\ link' \in {link, TRUE, FALSE} /\ encrypted' \in {encrypted, TRUE, FALSE}
        /\ gap_handle_valid' \in {gap_handle_valid, TRUE}
        /\ due' = due \/ (due' = TRUE /\ pc = "idle")
    BY DEF Raise
  <2>2. link' \in BOOLEAN /\ encrypted' \in BOOLEAN
    BY <1>0, <2>1, Zenon DEF PairingTypes
  <2>3. gap_handle_valid' \in BOOLEAN
    BY <1>0, <2>1, Zenon DEF PairingTypes
  <2>4. due' \in BOOLEAN /\ (due' => pc = "idle")
    <3>1. due \in BOOLEAN /\ (due => pc = "idle")
      BY <1>0 DEF PairingTypes
    <3>2. CASE due' = due
      BY <3>1, <3>2
    <3>3. CASE due' = TRUE /\ pc = "idle"
      BY <3>3
    <3> QED
      BY <2>1, <3>2, <3>3
  <2> QED
    BY <2>2, <2>3, <2>4
<1>6. smp' \in Smps /\ (smp' # "idle" => link')
  BY <1>0 DEF PairingTypes, Smps, Pairs
<1>7. PairingTypes'
  BY <1>0, <1>1, <1>2, <1>3, <1>4, <1>5, <1>6 DEF PairingTypes
<1> QED
  BY <1>1, <1>2, <1>7 DEF BondInv, Owners, BondUidsContiguous, NextUid, nvs_Get_total_no_of_uid

\* The call of the kernel task.
LEMMA BondSecurityInit ==
  ASSUME BondInv, SecurityInit
  PROVE  BondInv'
<1> USE DEF SecurityInit, SecurityStart, sd_ble_gap_authenticate, WaitTakes, WaitExpires,
            ParamsReply, nrf_start_dhkey_calculation, StoreBond, nvs_add_data, LookUp, Scan,
     SecInfoReply, Return,
            Goes, Fails
<1>0. PairingTypes
  BY DEF BondInv
<1>1. /\ UNCHANGED <<link, encrypted, peer_key, events, evt_buffer, ble_gap_Evt, key_set, deleter,
                     bonds, budget, completed, undercut>>
      /\ notify' \in {notify, "none"} /\ gap_handle_valid' \in {gap_handle_valid, FALSE}
      /\ due' \in {due, FALSE}
  BY DEF softdevice, kernel
<1>2. smp' \in Smps /\ (smp' # "idle" => link)
  BY <1>0 DEF PairingTypes, Smps, Pairs, softdevice
<1>3. pc' \in Places /\ ~due'
  <2>1. pc \in {"dhkey", "update", "auth", "found", "flash"} => After(pc) \in Places
    BY DEF After, Places, Waits
  <2>2. DOMAIN Expected = Waits
    BY DEF Expected, Waits
  <2>3. pc \in Waits => pc = "first" \/ pc \in {"dhkey", "update", "auth", "found", "flash"}
    BY DEF Waits
  <2>4. ~due'
    BY <1>0, <2>2 DEF PairingTypes, Waits
  <2> QED
    BY <2>1, <2>2, <2>3, <2>4 DEF FirstValue, Places, Waits
<1>4. /\ flash' \in [kind : {"none", "write", "erase"}, uid : Nat, key : Nat]
      /\ flash'.kind = "none" => flash' = NoFlash
      /\ flash' # flash => pc' = "flash" /\ flash'.kind = "write" /\ flash'.uid = uid_to_store
  BY <1>0 DEF PairingTypes
<1>5. uid_to_store' \in Nat /\ i' \in Nat /\ total_bond_present' \in Nat
  BY <1>0 DEF PairingTypes, BondUid, nvs_Get_total_no_of_uid
<1>6. PairingTypes'
  <2>1. notify' \in GapValues \cup Answers /\ gap_handle_valid' \in BOOLEAN /\ due' \in BOOLEAN
    <3>1. notify' \in GapValues \cup Answers
      BY <1>0, <1>1 DEF PairingTypes, Answers
    <3>2. gap_handle_valid' \in BOOLEAN /\ due' \in BOOLEAN
      BY <1>0, <1>1, Zenon DEF PairingTypes
    <3> QED
      BY <3>1, <3>2
  <2> QED
    BY <1>0, <1>1, <1>2, <1>3, <1>4, <1>5, <2>1 DEF PairingTypes
<1>7. /\ pc' # "idle" <=> mutex' = "kernel"
      /\ ble_gap_taskhandle' <=> pc' # "idle"
      /\ deleter' # "idle" <=> mutex' = "deleter"
  <2>1. \A p \in {"dhkey", "update", "auth", "found", "flash"} : After(p) # "idle"
    BY DEF After
  <2>2. DOMAIN Expected = Waits
    BY DEF Expected, Waits
  <2>3. Owners
    BY DEF BondInv
  <2> QED
    BY <1>1, <2>1, <2>2, <2>3 DEF Owners, FirstValue, Waits, Given
<1>8. Owners'
  BY <1>0, <1>1, <1>4, <1>7 DEF BondInv, Owners
<1>9. BondUidsContiguous'
  BY <1>1 DEF BondInv, BondUidsContiguous, nvs_Get_total_no_of_uid
<1>10. NextUid'
  <2>1. CASE StoreBond
    BY <1>0, <1>1, <2>1, PairingAssumption
       DEF BondInv, NextUid, BondUid, nvs_Get_total_no_of_uid, PairingTypes
  <2>2. CASE nvs_add_data
    <3>1. ASSUME \A n \in DOMAIN bonds : bonds[n].uid # uid_to_store, ~undercut
          PROVE  uid_to_store = Len(bonds) + 1
      BY <1>0, <2>2, <3>1 DEF BondInv, NextUid, BondUidsContiguous, PairingTypes
    <3> QED
      BY <1>1, <2>2, <3>1 DEF BondInv, NextUid
  <2>3. CASE ~StoreBond /\ ~nvs_add_data
    <3>1. UNCHANGED flash
      BY <2>3 DEF softdevice
    <3>2. pc' # "add"
      BY <2>3 DEF FirstValue, After, Expected, kernel
    <3> QED
      BY <1>1, <3>1, <3>2 DEF BondInv, NextUid
  <2> QED
    BY <2>1, <2>2, <2>3
<1> QED
  BY <1>6, <1>8, <1>9, <1>10 DEF BondInv

\* Nobody waits for an erase while the bonds are counted: only an erase that
\* outlives its wait can end then.
LEMMA CountedApart == BondInv /\ pc \in Counted => deleter # "waiting"
  BY DEF BondInv, Owners, Counted

LEMMA BondFlashEnds ==
  ASSUME BondInv, FlashEnds
  PROVE  BondInv'
<1>1. PICK ok \in BOOLEAN :
        /\ budget' = IF ok THEN budget ELSE [budget EXCEPT !.errors = @ - 1]
        /\ ok \/ budget.errors > 0
        /\ bonds' = IF ~ok THEN bonds
                    ELSE IF flash.kind = "erase" THEN <<>>
                    ELSE Append(bonds, [uid |-> flash.uid, key |-> flash.key])
        /\ undercut' = (undercut \/ (ok /\ OutlivesWait /\ pc \in Counted))
        /\ notify' \in {notify, "nrf_OK", "nrf_ERR_INTERNAL"}
        /\ deleter' = IF deleter = "waiting" THEN "answered" ELSE deleter
        /\ flash # NoFlash /\ flash' = NoFlash
        /\ UNCHANGED <<link, encrypted, smp, peer_key, events, evt_buffer, ble_gap_Evt, mutex,
                       ble_gap_taskhandle, gap_handle_valid, key_set, pc, uid_to_store,
                       total_bond_present, i, due,
                       completed>>
  BY DEF FlashEnds, kernel, softdevice
<1>2. PairingTypes
  BY DEF BondInv
<1>3. flash.kind \in {"write", "erase"}
  BY <1>1, <1>2 DEF PairingTypes
<1>4. budget' \in Budget /\ budget'.deletes = budget.deletes
  BY <1>1, <1>2, TypeFacts DEF PairingTypes, Budget
<1>5. [uid |-> flash.uid, key |-> flash.key] \in Bond
  BY <1>2 DEF PairingTypes, Bond
<1>6. bonds' \in Seq(Bond)
  BY <1>1, <1>2, <1>5 DEF PairingTypes
<1>7. PairingTypes'
  BY <1>1, <1>2, <1>4, <1>6 DEF PairingTypes, Answers, NoFlash, NoKey
<1>8. Owners'
  BY <1>1, <1>3, <1>4 DEF BondInv, Owners, NoFlash
<1>9. BondUidsContiguous' /\ NextUid'
  <2>1. CASE bonds' = bonds
    BY <1>1, <2>1 DEF BondInv, BondUidsContiguous, NextUid, NoFlash
  <2>2. CASE bonds' = <<>> /\ ok /\ flash.kind = "erase"
    <3>1. pc = "add" => undercut'
      BY <1>1, <2>2, CountedApart DEF Counted, OutlivesWait
    <3>2. DOMAIN bonds' = {}
      BY <2>2
    <3>3. NextUid'
      BY <1>1, <3>1 DEF BondInv, NextUid, NoFlash
    <3> QED
      BY <3>2, <3>3 DEF BondUidsContiguous
  <2>3. CASE bonds' = Append(bonds, [uid |-> flash.uid, key |-> flash.key]) /\ flash.kind = "write"
    <3>1. bonds \in Seq(Bond) /\ undercut' = undercut
      <4>1. ~OutlivesWait
        BY <2>3 DEF OutlivesWait
      <4>2. undercut' = (undercut \/ (ok /\ OutlivesWait /\ pc \in Counted))
        BY <1>1
      <4>3. undercut' = undercut
        BY <1>2, <4>1, <4>2 DEF PairingTypes
      <4> QED
        BY <1>2, <4>3 DEF PairingTypes
    <3>2. /\ Len(bonds') = Len(bonds) + 1 /\ DOMAIN bonds' = 1 .. Len(bonds) + 1
          /\ DOMAIN bonds = 1 .. Len(bonds) /\ Len(bonds) \in Nat
          /\ \A n \in 1 .. Len(bonds) : bonds'[n] = bonds[n]
          /\ bonds'[Len(bonds) + 1].uid = flash.uid
      BY <2>3, <3>1, <1>5
    <3>3. /\ flash.uid \in 1 .. BLE_GAP_MAX_BOND_USERS_STORED
          /\ \A n \in DOMAIN bonds : bonds[n].uid # flash.uid
          /\ ~undercut => flash.uid = Len(bonds) + 1
      BY <2>3 DEF BondInv, NextUid
    <3>4. BondUidsContiguous
      BY DEF BondInv
    <3>5. \A n \in DOMAIN bonds' : n \in DOMAIN bonds \/ n = Len(bonds) + 1
      BY <3>2
    <3>6. BondUidsContiguous'
      BY <3>1, <3>2, <3>3, <3>4, <3>5 DEF BondUidsContiguous
    <3>7. NextUid'
      BY <1>1, <3>1, <3>2 DEF BondInv, NextUid, NoFlash
    <3> QED
      BY <3>6, <3>7
  <2> QED
    BY <1>1, <1>3, <2>1, <2>2, <2>3
<1> QED
  BY <1>7, <1>8, <1>9 DEF BondInv

LEMMA BondElse ==
  ASSUME BondInv,
         \/ GapEvent \/ ble_gap_instance_clear \/ ble_gap_delete_bonds \/ Erase
         \/ EraseExpires \/ DeleteReturns
         \/ UNCHANGED vars
  PROVE  BondInv'
<1>0. PairingTypes
  BY DEF BondInv
<1> USE DEF GapEvent, ble_gap_instance_clear, ble_gap_delete_bonds, Erase, EraseExpires, DeleteReturns, vars,
            softdevice, kernel, MutexFree
<1>1. UNCHANGED <<link, encrypted, peer_key, ble_gap_taskhandle, pc, uid_to_store,
                  total_bond_present, i, bonds, due, completed, undercut>>
  OBVIOUS
<1>2. budget' \in Budget /\ (budget'.deletes # budget.deletes => ble_gap_delete_bonds)
  BY <1>0, TypeFacts DEF PairingTypes, Budget
<1>3. events' \in Seq(GapEvents) /\ evt_buffer' \in Nat
  BY <1>0, TypeFacts DEF PairingTypes, GapEvents
<1>4. smp' \in Smps /\ (smp' # "idle" => link)
  <2>1. smp' = smp \/ (smp = "passkey" /\ smp' = "confirmed")
    OBVIOUS
  <2> QED
    BY <1>0, <2>1 DEF PairingTypes, Smps, Pairs
<1>c. key_set' \in Nat /\ gap_handle_valid' \in BOOLEAN
  <2>1. key_set' \in {key_set, NoKey} /\ gap_handle_valid' \in {gap_handle_valid, FALSE}
    OBVIOUS
  <2> QED
    <3>1. key_set' \in Nat
      BY <1>0, <2>1 DEF PairingTypes, NoKey
    <3>2. gap_handle_valid' \in BOOLEAN
      BY <1>0, <2>1, Zenon DEF PairingTypes
    <3> QED
      BY <3>1, <3>2
<1>b. ble_gap_Evt' \in BOOLEAN
  BY <1>0 DEF PairingTypes
<1>5. notify' \in GapValues \cup Answers
  BY <1>0 DEF PairingTypes, task_notify
<1>6. /\ flash' \in [kind : {"none", "write", "erase"}, uid : Nat, key : Nat]
      /\ flash'.kind = "none" => flash' = NoFlash
      /\ flash' # flash => Erase /\ flash'.kind = "erase" /\ deleter' = "waiting"
      /\ deleter' \in {"idle", "erase", "waiting", "answered"}
  BY <1>0 DEF PairingTypes, NoKey
<1>7. PairingTypes'
  BY <1>0, <1>1, <1>2, <1>3, <1>4, <1>b, <1>c, <1>5, <1>6 DEF PairingTypes
<1>8. budget'.deletes # MaxDeletes \/ (budget'.deletes = budget.deletes /\ ~ble_gap_delete_bonds)
  <2>1. budget \in Budget /\ budget.deletes \in 0 .. MaxDeletes
    BY <1>0 DEF PairingTypes, Budget
  <2>2. CASE ble_gap_delete_bonds
    <3>1. budget'.deletes = budget.deletes - 1
      BY <2>1, <2>2 DEF Budget
    <3> QED
      BY <2>1, <3>1, PairingAssumption
  <2> QED
    BY <2>2
<1>9. Owners'
  BY <1>0, <1>1, <1>6, <1>8 DEF BondInv, Owners, PairingTypes
<1>10. BondUidsContiguous' /\ NextUid'
  BY <1>1, <1>6 DEF BondInv, BondUidsContiguous, NextUid, nvs_Get_total_no_of_uid
<1> QED
  BY <1>7, <1>9, <1>10 DEF BondInv

LEMMA BondNext == BondInv /\ [Next]_vars => BondInv'
  BY BondEnvironment, BondSecurityInit, BondFlashEnds, BondElse DEF Next

\* No two bonds have one uid, whatever fails and whoever deletes.  The uids are
\* 1 .. n, so that the scan of ble_gap_security_init reaches every bond, unless an
\* erase that outlived its wait has ended between a count of the bonds and its use.
THEOREM UidsStayContiguous == Spec => []BondUidsContiguous
<1>1. BondInv => BondUidsContiguous
  BY DEF BondInv
<1> QED
  BY <1>1, BondInit, BondNext, PTL DEF Spec

----------------------------------------------------------------------------
(* nrf_OK and encryption.                                                   *)

\* What the SoftDevice has raised and its task has not handled.
Unhandled == {events[n].type : n \in 1 .. Len(events)}

LEMMA Queueing ==
  ASSUME PairingTypes
  PROVE  /\ \A t \in GapValues \cup {"PASSKEY_DISPLAY"}, k \in Nat :
                Raise(t, k) =>
                  /\ events' # <<>> /\ Unhandled' = Unhandled \cup {t}
                  /\ events # <<>> => Head(events') = Head(events)
                  /\ events = <<>> => events' = <<[type |-> t, key |-> k]>>
         /\ events # <<>> /\ events' = Tail(events) =>
                Unhandled = Unhandled' \cup {Head(events).type}
         /\ UNCHANGED events => UNCHANGED Unhandled
<1>1. ASSUME NEW t \in GapValues \cup {"PASSKEY_DISPLAY"}, NEW k \in Nat, Raise(t, k)
      PROVE  /\ events' # <<>> /\ Unhandled' = Unhandled \cup {t}
             /\ events # <<>> => Head(events') = Head(events)
             /\ events = <<>> => events' = <<[type |-> t, key |-> k]>>
  <2> DEFINE e == [type |-> t, key |-> k]
  <2>1. e \in GapEvents /\ e.type = t /\ events' = Append(events, e) /\ events \in Seq(GapEvents)
    BY <1>1 DEF Raise, GapEvents, PairingTypes
  <2> HIDE DEF e
  <2>2. /\ Len(events') = Len(events) + 1 /\ events' \in Seq(GapEvents) /\ Len(events) \in Nat
        /\ \A n \in 1 .. Len(events) : n \in 1 .. Len(events') /\ events'[n] = events[n]
        /\ \A n \in 1 .. Len(events') : n \in 1 .. Len(events) \/ n = Len(events')
        /\ events'[Len(events')] = e /\ Len(events') \in 1 .. Len(events')
    BY <2>1
  <2>3. Unhandled' = Unhandled \cup {t}
    BY <2>1, <2>2 DEF Unhandled
  <2>4. /\ events' # <<>> /\ (events # <<>> => Head(events') = Head(events))
        /\ events = <<>> => events' = <<e>>
    <3>1. events = <<>> => events' = <<e>>
      BY <2>1
    <3>2. ASSUME events # <<>> PROVE Head(events') = Head(events)
      <4>1. 1 \in 1 .. Len(events) /\ Head(events) = events[1] /\ Head(events') = events'[1]
        BY <2>1, <2>2, <3>2
      <4> QED
        BY <2>2, <4>1
    <3> QED
      BY <2>2, <3>1, <3>2
  <2> QED
    BY <2>3, <2>4 DEF e
<1>2. ASSUME events # <<>>, events' = Tail(events)
      PROVE  Unhandled = Unhandled' \cup {Head(events).type}
  <2>1. /\ events \in Seq(GapEvents) /\ events' \in Seq(GapEvents)
        /\ Len(events') + 1 = Len(events) /\ Len(events') \in Nat
        /\ \A n \in 1 .. Len(events') : n + 1 \in 1 .. Len(events) /\ events'[n] = events[n + 1]
        /\ \A n \in 1 .. Len(events) : n # 1 => n - 1 \in 1 .. Len(events') /\ events'[n - 1] = events[n]
        /\ Head(events) = events[1] /\ 1 \in 1 .. Len(events)
    BY <1>2 DEF PairingTypes
  <2>2. Unhandled' \cup {Head(events).type} \subseteq Unhandled
    <3>1. ASSUME NEW n \in 1 .. Len(events') PROVE events'[n].type \in Unhandled
      <4>1. n + 1 \in 1 .. Len(events) /\ events'[n] = events[n + 1]
        BY <2>1
      <4> QED
        BY <4>1 DEF Unhandled
    <3>2. Head(events).type \in Unhandled
      BY <2>1 DEF Unhandled
    <3>3. \A x \in Unhandled' : x \in Unhandled
      <4> SUFFICES ASSUME NEW x \in Unhandled' PROVE x \in Unhandled
        OBVIOUS
      <4>1. PICK n \in 1 .. Len(events') : x = events'[n].type
        BY Zenon DEF Unhandled
      <4> QED
        BY <3>1, <4>1, Zenon
    <3> QED
      BY <3>2, <3>3, Zenon
  <2>3. Unhandled \subseteq Unhandled' \cup {Head(events).type}
    <3>1. ASSUME NEW n \in 1 .. Len(events), n # 1 PROVE events[n].type \in Unhandled'
      <4>1. n - 1 \in 1 .. Len(events') /\ events'[n - 1] = events[n]
        BY <2>1, <3>1
      <4> QED
        BY <4>1 DEF Unhandled
    <3>2. \A x \in Unhandled : x \in Unhandled' \/ x = Head(events).type
      <4> SUFFICES ASSUME NEW x \in Unhandled
                   PROVE  x \in Unhandled' \/ x = Head(events).type
        OBVIOUS
      <4>1. PICK n \in 1 .. Len(events) : x = events[n].type
        BY Zenon DEF Unhandled
      <4>2. CASE n = 1
        BY <2>1, <4>1, <4>2, Zenon
      <4>3. CASE n # 1
        BY <3>1, <4>1, <4>3, Zenon
      <4> QED
        BY <4>2, <4>3
    <3> QED
      BY <3>2, Zenon
  <2> QED
    BY <2>2, <2>3
<1>3. UNCHANGED events => UNCHANGED Unhandled
  BY DEF Unhandled
<1> QED
  BY <1>1, <1>2, <1>3

\* Nothing has come between the kernel task's request and the answer to it.
Trusted == hist \cap {"refused", "unasked", "leftover", "overwritten"} = {}
PeerRequests == {"SEC_PARAM_REQ", "SEC_INFO_REQ"}

\* Then the first value that reaches the call is a request of the peer.
FirstIsRequest ==
    Trusted =>
      /\ due => smp = "idle" /\ events = <<>>
      /\ pc = "authenticate" => smp = "idle" /\ events = <<>> /\ notify = "none"
      /\ pc = "first" =>
          \/ smp \in {"requested", "idle"} /\ events = <<>> /\ notify = "none"
          \/ smp # "requested" /\ notify \in PeerRequests
          \/ /\ smp # "requested" /\ notify = "none"
             /\ events # <<>> /\ Head(events).type \in PeerRequests

\* From CONN_SEC_UPDATE on the connection is encrypted.
EncryptedSince ==
    /\ link /\ "CONN_SEC_UPDATE" \in Unhandled => encrypted
    /\ link /\ pc # "idle" /\ "leftover" \notin hist /\ notify = "CONN_SEC_UPDATE" => encrypted
    /\ link /\ Trusted /\ pc \in {"auth", "store", "add", "flash", "ok"} => encrypted
    /\ pc = "return" => result # "nrf_OK"
    /\ link /\ Trusted /\ pc = "idle" /\ result = "nrf_OK" => encrypted

OkInv == FirstIsRequest /\ EncryptedSince

LEMMA OkInit == Init => OkInv
  BY DEF Init, OkInv, FirstIsRequest, EncryptedSince, Trusted, Unhandled

LEMMA OkEnvironment ==
  ASSUME BondInv, OkInv, Environment
  PROVE  OkInv'
<1>0. PairingTypes /\ peer_key \in Nat /\ NoKey \in Nat
  BY DEF BondInv, PairingTypes, NoKey
<1> USE Queueing, <1>0 DEF OkInv
<1>1. CASE Connect
  <2>1. pc' = "idle" /\ result' = "none" /\ events' = <<>> /\ smp' = "idle"
    BY <1>1 DEF Connect
  <2>2. Unhandled' = {}
    BY <2>1 DEF Unhandled
  <2> QED
    BY <2>1, <2>2 DEF FirstIsRequest, EncryptedSince
<1>2. CASE Disconnect
  <2>1. /\ link' = FALSE /\ smp' = "idle"
        /\ \/ smp \in Pairs /\ Raise("AUTH_STATUS", NoKey)
           \/ UNCHANGED events
        /\ UNCHANGED <<pc, due, notify, hist, result>>
    BY <1>2 DEF Disconnect, Raise, kernel
  <2>2. FirstIsRequest'
    BY <2>1 DEF FirstIsRequest, Trusted, Pairs, GapValues
  <2> QED
    BY <2>1, <2>2 DEF EncryptedSince, Trusted
<1>3. CASE PeerPairs
  <2>1. /\ smp \in {"requested", "idle"} /\ smp' = "params" /\ Raise("SEC_PARAM_REQ", NoKey)
        /\ hist' = IF smp = "idle" THEN hist \cup {"unasked"} ELSE hist
        /\ UNCHANGED <<link, encrypted, pc, due, notify, result>>
    BY <1>3 DEF PeerPairs, Raise, kernel
  <2>2. FirstIsRequest'
    <3>1. events' # <<>> /\ (events = <<>> => Head(events').type \in PeerRequests)
      BY <2>1 DEF GapValues, PeerRequests
    <3>2. Trusted' => Trusted /\ smp = "requested"
      BY <2>1 DEF Trusted
    <3> QED
      BY <2>1, <3>1, <3>2 DEF FirstIsRequest, GapValues
  <2>3. /\ Trusted' => Trusted
        /\ "leftover" \notin hist' => "leftover" \notin hist
    BY <2>1 DEF Trusted
  <2>4. "CONN_SEC_UPDATE" \in Unhandled' => "CONN_SEC_UPDATE" \in Unhandled
    BY <2>1 DEF GapValues
  <2> QED
    BY <2>1, <2>2, <2>3, <2>4 DEF EncryptedSince
<1>4. CASE PeerEncrypts
  <2>1. /\ smp \in {"requested", "idle"} /\ smp' = "info" /\ Raise("SEC_INFO_REQ", peer_key)
        /\ hist' = IF smp = "idle" THEN hist \cup {"unasked"} ELSE hist
        /\ UNCHANGED <<link, encrypted, pc, due, notify, result>>
    BY <1>4 DEF PeerEncrypts, Raise, kernel
  <2>2. FirstIsRequest'
    BY <2>1, SMTT(30) DEF FirstIsRequest, Trusted, PeerRequests, GapValues
  <2>3. /\ Trusted' => Trusted
        /\ "leftover" \notin hist' => "leftover" \notin hist
    BY <2>1 DEF Trusted
  <2>4. "CONN_SEC_UPDATE" \in Unhandled' => "CONN_SEC_UPDATE" \in Unhandled
    BY <2>1 DEF GapValues
  <2> QED
    BY <2>1, <2>2, <2>3, <2>4 DEF EncryptedSince
<1>5. CASE PeerRefuses
  <2>1. /\ hist' = hist \cup {"refused"} /\ Raise("AUTH_STATUS", NoKey)
        /\ UNCHANGED <<link, encrypted, pc, due, notify, result>>
    BY <1>5 DEF PeerRefuses, Raise, kernel
  <2>2. ~Trusted' /\ ("leftover" \notin hist' => "leftover" \notin hist)
    BY <2>1 DEF Trusted
  <2>3. "CONN_SEC_UPDATE" \in Unhandled' => "CONN_SEC_UPDATE" \in Unhandled
    BY <2>1 DEF GapValues
  <2> QED
    BY <2>1, <2>2, <2>3 DEF FirstIsRequest, EncryptedSince
<1>6. CASE PairingFails \/ PairingGoesOn \/ PairingSucceeds
  <2>1. /\ smp \in Pairs /\ smp' \in Pairs \cup {"idle"}
        /\ \E t \in {"AUTH_STATUS", "LESC_DHKEY_REQ", "PASSKEY_DISPLAY"} : Raise(t, NoKey)
        /\ UNCHANGED <<link, encrypted, pc, due, notify, result>>
        /\ hist' = hist \/ hist' = hist \cup {"paired"}
    BY <1>6 DEF PairingFails, PairingGoesOn, PairingSucceeds, Raise, kernel, Pairs
  <2>2. FirstIsRequest'
    BY <2>1 DEF FirstIsRequest, Trusted, Pairs, GapValues
  <2>3. EncryptedSince'
    BY <2>1 DEF EncryptedSince, Trusted, GapValues
  <2> QED
    BY <2>2, <2>3
<1>7. CASE Encrypts
  <2>1. /\ smp \in Pairs \cup {"restore"} /\ smp' \in Pairs \cup {"idle"}
        /\ Raise("CONN_SEC_UPDATE", NoKey) /\ encrypted' = TRUE
        /\ UNCHANGED <<link, pc, due, notify, result, hist>>
    BY <1>7 DEF Encrypts, Raise, kernel, Pairs
  <2>2. FirstIsRequest'
    BY <2>1 DEF FirstIsRequest, Trusted, Pairs, GapValues
  <2>3. EncryptedSince'
    BY <2>1 DEF EncryptedSince, Trusted
  <2> QED
    BY <2>2, <2>3
<1>8. CASE OtherEvent
  <2>1. /\ hist' = hist \cup {"buffer_reused"}
        /\ UNCHANGED <<link, encrypted, smp, events, pc, due, notify, result>>
    BY <1>8 DEF OtherEvent, kernel, softdevice
  <2> QED
    BY <2>1 DEF FirstIsRequest, EncryptedSince, Trusted
<1> QED
  BY <1>1, <1>2, <1>3, <1>4, <1>5, <1>6, <1>7, <1>8 DEF Environment

LEMMA OkSecurityInit ==
  ASSUME BondInv, OkInv, SecurityInit
  PROVE  OkInv'
<1>0. PairingTypes /\ (due => pc = "idle") /\ UNCHANGED <<link, encrypted, events, Unhandled>>
  BY DEF SecurityInit, SecurityStart, sd_ble_gap_authenticate, WaitTakes, WaitExpires,
     ParamsReply, nrf_start_dhkey_calculation, StoreBond, nvs_add_data, LookUp, Scan,
     SecInfoReply, Return,
     softdevice, BondInv, PairingTypes, Unhandled
<1> USE <1>0 DEF OkInv, Trusted
<1>1. CASE SecurityStart
  BY <1>1 DEF SecurityStart, FirstIsRequest, EncryptedSince, softdevice
<1>2. CASE sd_ble_gap_authenticate
  BY <1>2 DEF sd_ble_gap_authenticate, FirstIsRequest, EncryptedSince, Goes, Fails
<1>3. CASE WaitTakes
  <2>1. notify # "none" /\ notify' = "none" /\ UNCHANGED <<smp, due, hist>>
    BY <1>3 DEF WaitTakes, softdevice
  <2>2. CASE pc = "first"
    <3>1. pc' = FirstValue(notify) /\ (Trusted => notify \in PeerRequests)
      BY <1>3, <2>1, <2>2 DEF WaitTakes, Goes, FirstIsRequest
    <3> QED
      BY <2>1, <3>1 DEF FirstIsRequest, EncryptedSince, FirstValue, PeerRequests
  <2>3. CASE pc # "first"
    <3>1. pc \in {"dhkey", "update", "auth", "found", "flash"}
      BY <1>3, <2>3 DEF WaitTakes, Expected
    <3>2. \/ /\ pc' = "return" /\ result' # "nrf_OK"
          \/ /\ notify = Expected[pc] /\ pc' = After(pc) /\ UNCHANGED result
      BY <1>3, <2>3 DEF WaitTakes, Goes, Fails
    <3>3. \/ pc' = "return" /\ result' # "nrf_OK"
          \/ pc' = "calculate"
          \/ pc \in {"update", "found"} /\ notify = "CONN_SEC_UPDATE" /\ pc' \in {"auth", "ok"}
          \/ pc \in {"auth", "flash"} /\ pc' \in {"store", "ok"}
      BY <3>1, <3>2 DEF Expected, After
    <3> QED
      BY <2>1, <3>3 DEF FirstIsRequest, EncryptedSince
  <2> QED
    BY <2>2, <2>3
<1>4. CASE WaitExpires
  BY <1>4 DEF WaitExpires, Fails, FirstIsRequest, EncryptedSince, softdevice, Expected
<1>5. CASE ParamsReply
  BY <1>5 DEF ParamsReply, Goes, FirstIsRequest, EncryptedSince
<1>6. CASE nrf_start_dhkey_calculation
  BY <1>6 DEF nrf_start_dhkey_calculation, Goes, Fails, FirstIsRequest, EncryptedSince
<1>7. CASE StoreBond
  BY <1>7 DEF StoreBond, FirstIsRequest, EncryptedSince, softdevice
<1>8. CASE nvs_add_data
  BY <1>8 DEF nvs_add_data, Goes, Fails, FirstIsRequest, EncryptedSince, softdevice
<1>9. CASE LookUp \/ Scan \/ SecInfoReply
  BY <1>9 DEF LookUp, Scan, SecInfoReply, Goes, Fails, FirstIsRequest, EncryptedSince, softdevice
<1>10. CASE Return
  BY <1>10 DEF Return, FirstIsRequest, EncryptedSince, softdevice
<1> QED
  BY <1>1, <1>2, <1>3, <1>4, <1>5, <1>6, <1>7, <1>8, <1>9, <1>10 DEF SecurityInit

LEMMA OkElse ==
  ASSUME BondInv, OkInv,
         \/ GapEvent \/ FlashEnds \/ ble_gap_instance_clear \/ ble_gap_delete_bonds \/ Erase
         \/ EraseExpires \/ DeleteReturns \/ UNCHANGED vars
  PROVE  OkInv'
<1>0. PairingTypes /\ (ble_gap_taskhandle <=> pc # "idle")
  BY DEF BondInv, Owners
<1> USE <1>0, Queueing DEF OkInv, Trusted
<1>1. CASE GapEvent
  <2>1. /\ events # <<>> /\ events' = Tail(events)
        /\ UNCHANGED <<link, encrypted, pc, due, result>>
        /\ smp' = smp \/ (smp = "passkey" /\ smp' = "confirmed")
        /\ \/ UNCHANGED <<notify, hist>>
              /\ (Head(events).type \in GapValues => pc = "idle")
           \/ /\ pc # "idle" /\ notify' = Head(events).type
              /\ hist' = IF notify # "none" THEN hist \cup {"overwritten"} ELSE hist
    BY <1>1 DEF GapEvent, task_notify, kernel
  <2>2. FirstIsRequest'
    BY <2>1 DEF FirstIsRequest, PeerRequests, GapValues
  <2>3. EncryptedSince'
    BY <2>1 DEF EncryptedSince
  <2> QED
    BY <2>2, <2>3
<1>2. CASE FlashEnds
  <2>1. /\ UNCHANGED <<link, encrypted, smp, events, pc, due, result>>
        /\ \/ UNCHANGED <<notify, hist>>
           \/ /\ pc = "flash" /\ notify' \in {"nrf_OK", "nrf_ERR_INTERNAL"}
              /\ hist' = IF notify # "none" THEN hist \cup {"overwritten"} ELSE hist
    BY <1>2 DEF FlashEnds, softdevice, kernel
  <2> QED
    BY <2>1 DEF FirstIsRequest, EncryptedSince
<1>3. CASE \/ ble_gap_instance_clear \/ ble_gap_delete_bonds \/ Erase
         \/ EraseExpires \/ DeleteReturns
           \/ UNCHANGED vars
  <2>1. UNCHANGED <<link, encrypted, smp, events, pc, due, result, notify, hist>>
    BY <1>3 DEF ble_gap_instance_clear, ble_gap_delete_bonds, Erase, EraseExpires, DeleteReturns, vars,
       softdevice, kernel
  <2> QED
    BY <2>1 DEF FirstIsRequest, EncryptedSince
<1> QED
  BY <1>1, <1>2, <1>3

LEMMA OkNext == BondInv /\ OkInv /\ [Next]_vars => OkInv'
  BY OkEnvironment, OkSecurityInit, OkElse DEF Next

\* ble_gap_security_init returns nrf_OK on an encrypted connection, when the
\* first value it took was the answer to its request.
THEOREM OkIsEncrypted == Spec => []OkMeansEncrypted
<1>1. OkInv => OkMeansEncrypted
  BY DEF OkInv, EncryptedSince, OkMeansEncrypted, Trusted
<1> QED
  BY <1>1, BondInit, BondNext, OkInit, OkNext, PTL DEF Spec

----------------------------------------------------------------------------
(* The call and the pairing, step by step, while nothing disturbs them.     *)

\* The queue of events is never longer than two while nothing disturbs the call.
LEMMA ShortSequences ==
  ASSUME NEW S, NEW e \in S, NEW f \in S
  PROVE  /\ Append(<<>>, e) = <<e>> /\ Append(<<f>>, e) = <<f, e>>
         /\ Head(<<e>>) = e /\ Tail(<<e>>) = <<>>
         /\ Head(<<e, f>>) = e /\ Tail(<<e, f>>) = <<f>>
<1>0. <<>> \in Seq(S) /\ <<e>> \in Seq(S) /\ <<f>> \in Seq(S) /\ <<e, f>> \in Seq(S) /\ <<f, e>> \in Seq(S)
  OBVIOUS
<1>1. Append(<<>>, e) = <<e>>
  OBVIOUS
<1>2. Append(<<f>>, e) = <<f, e>>
  <2> DEFINE s == Append(<<f>>, e)
             t == <<f, e>>
  <2>1. s \in Seq(S) /\ Len(s) = 2 /\ s[1] = f /\ s[2] = e
    OBVIOUS
  <2>2. t \in Seq(S) /\ Len(t) = 2 /\ t[1] = f /\ t[2] = e
    OBVIOUS
  <2>3. \A n \in 1 .. Len(s) : s[n] = t[n]
    <3> HIDE DEF s, t
    <3> QED BY <2>1, <2>2
  <2> HIDE DEF s, t
  <2>4. s = t
    BY <2>1, <2>2, <2>3, SeqEqual
  <2> QED
    BY <2>4 DEF s, t
<1>3. Head(<<e>>) = e
  OBVIOUS
<1>4. Tail(<<e>>) = <<>>
  OBVIOUS
<1>5. Head(<<e, f>>) = e
  OBVIOUS
<1>6. Tail(<<e, f>>) = <<f>>
  OBVIOUS
<1> QED
  BY <1>1, <1>2, <1>3, <1>4, <1>5, <1>6

\* Nothing has happened but, perhaps, that the peer paired as it was asked to.
Undisturbed == hist \subseteq {"paired", "buffer_reused"}

\* The values on their way into the notification slot.
Raw(v) == [type |-> v, key |-> NoKey]
NoneOnWay == notify = "none" /\ events = <<>>
OnWay(v) ==
    \/ notify = v /\ events = <<>>
    \/ notify = "none" /\ events = <<Raw(v)>>
BothOnWay(v, w) ==
    \/ notify = v /\ events = <<Raw(w)>>
    \/ notify = "none" /\ events = <<Raw(v), Raw(w)>>

\* Then the call keeps step with the pairing.
BeforePairing ==
    /\ due => smp = "idle" /\ events = <<>> /\ "paired" \notin hist
    /\ pc = "authenticate" => smp = "idle" /\ NoneOnWay /\ "paired" \notin hist
    /\ smp # "idle" => "paired" \notin hist
WhilePairing ==
    /\ smp = "requested" => pc = "first" /\ NoneOnWay
    /\ smp = "params" => \/ pc = "first" /\ OnWay("SEC_PARAM_REQ")
                         \/ pc = "params" /\ NoneOnWay
    /\ smp = "exchange" => pc = "dhkey" /\ NoneOnWay
    /\ smp = "dhkey" => \/ pc = "dhkey" /\ OnWay("LESC_DHKEY_REQ")
                        \/ pc \in {"calculate", "return", "idle"} /\ NoneOnWay
    /\ smp \in {"checks", "confirmed"} => pc = "update" /\ NoneOnWay
    /\ smp = "passkey" => pc = "update" /\ notify = "none" /\ events = <<Raw("PASSKEY_DISPLAY")>>
    /\ smp = "keys" => \/ pc = "update" /\ OnWay("CONN_SEC_UPDATE")
                       \/ pc = "auth" /\ NoneOnWay
AfterPairing ==
    "paired" \in hist =>
        \/ pc = "update" /\ BothOnWay("CONN_SEC_UPDATE", "AUTH_STATUS")
        \/ pc = "auth" /\ OnWay("AUTH_STATUS")
        \/ pc \in {"store", "add", "ok", "return", "idle"} /\ NoneOnWay
        \/ pc = "flash" /\ events = <<>> /\ notify \in Answers

InStep == Undisturbed => BeforePairing /\ WhilePairing /\ AfterPairing

LEMMA InStepInit == Init => InStep
  BY DEF Init, InStep, BeforePairing, WhilePairing, AfterPairing, Pairs

LEMMA InStepEnvironment ==
  ASSUME BondInv, InStep, Environment
  PROVE  InStep'
<1>0. PairingTypes /\ peer_key \in Nat /\ NoKey \in Nat
  BY DEF BondInv, PairingTypes, NoKey
<1>a. /\ \A t \in GapValues \cup {"PASSKEY_DISPLAY"} :
            Raise(t, NoKey) /\ events = <<>> => events' = <<Raw(t)>>
      /\ \A t, v \in GapValues \cup {"PASSKEY_DISPLAY"} :
            Raise(t, NoKey) /\ events = <<Raw(v)>> => events' = <<Raw(v), Raw(t)>>
  <2>1. \A t \in GapValues \cup {"PASSKEY_DISPLAY"} : Raw(t) \in GapEvents
    BY DEF Raw, GapEvents, NoKey
  <2>2. /\ \A e \in GapEvents : events' = Append(events, e) /\ events = <<>> => events' = <<e>>
        /\ \A e, f \in GapEvents :
              events' = Append(events, e) /\ events = <<f>> => events' = <<f, e>>
    BY ShortSequences
  <2>3. \A t : Raise(t, NoKey) => events' = Append(events, Raw(t))
    BY DEF Raise, Raw
  <2> QED
    BY <2>1, <2>2, <2>3
<1> USE <1>0, <1>a DEF InStep, Undisturbed
<1>1. CASE Connect
  <2>1. pc' = "idle" /\ events' = <<>> /\ smp' = "idle" /\ hist' = {}
    BY <1>1 DEF Connect
  <2> QED
    BY <2>1 DEF BeforePairing, WhilePairing, AfterPairing
<1>2. CASE Disconnect
  <2>1. /\ smp' = "idle"
        /\ smp \in Pairs \/ UNCHANGED events
        /\ UNCHANGED <<pc, due, notify, hist>>
    BY <1>2 DEF Disconnect, Raise, kernel
  <2>2. "paired" \in hist \/ due \/ pc = "authenticate" => UNCHANGED events \/ ~Undisturbed
    BY <2>1 DEF BeforePairing, Pairs
  <2> QED
    BY <2>1, <2>2 DEF BeforePairing, WhilePairing, AfterPairing, NoneOnWay, OnWay, BothOnWay
<1>3. CASE PeerPairs
  <2>1. /\ smp \in {"requested", "idle"} /\ smp' = "params" /\ Raise("SEC_PARAM_REQ", NoKey)
        /\ hist' = IF smp = "idle" THEN hist \cup {"unasked"} ELSE hist
        /\ UNCHANGED <<pc, due, notify>>
    BY <1>3 DEF PeerPairs, Raise, kernel
  <2>2. Undisturbed' => Undisturbed /\ smp = "requested" /\ hist' = hist
    BY <2>1
  <2> QED
    BY <2>1, <2>2 DEF BeforePairing, WhilePairing, AfterPairing, NoneOnWay, OnWay, GapValues
<1>4. CASE PeerEncrypts
  <2>1. /\ smp \in {"requested", "idle"} /\ smp' = "info"
        /\ hist' = IF smp = "idle" THEN hist \cup {"unasked"} ELSE hist
        /\ UNCHANGED <<pc, due, notify>>
    BY <1>4 DEF PeerEncrypts, Raise, kernel
  <2>2. Undisturbed' => Undisturbed /\ smp = "requested" /\ hist' = hist
    BY <2>1
  <2> QED
    BY <2>1, <2>2 DEF BeforePairing, WhilePairing, AfterPairing
<1>5. CASE PeerRefuses
  BY <1>5 DEF PeerRefuses
<1>6. CASE PairingFails
  <2>1. /\ smp \in Pairs /\ smp' = "idle" /\ UNCHANGED <<pc, due, notify, hist>>
    BY <1>6 DEF PairingFails, Raise, kernel
  <2> QED
    BY <2>1 DEF BeforePairing, WhilePairing, AfterPairing, Pairs
<1>7. CASE PairingGoesOn
  <2>1. /\ \/ smp = "exchange" /\ smp' = "dhkey" /\ Raise("LESC_DHKEY_REQ", NoKey)
           \/ smp = "checks" /\ smp' = "passkey" /\ Raise("PASSKEY_DISPLAY", NoKey)
        /\ UNCHANGED <<pc, due, notify, hist>>
    BY <1>7 DEF PairingGoesOn, Raise, kernel
  <2> QED
    BY <2>1 DEF BeforePairing, WhilePairing, AfterPairing, NoneOnWay, OnWay, GapValues
<1>8. CASE Encrypts
  <2>1. /\ smp \in {"checks", "confirmed", "restore"}
        /\ smp' = IF smp = "restore" THEN "idle" ELSE "keys"
        /\ Raise("CONN_SEC_UPDATE", NoKey)
        /\ UNCHANGED <<pc, due, notify, hist>>
    BY <1>8 DEF Encrypts, Raise, kernel
  <2> QED
    BY <2>1 DEF BeforePairing, WhilePairing, AfterPairing, NoneOnWay, OnWay, GapValues
<1>9. CASE PairingSucceeds
  <2>1. /\ smp = "keys" /\ smp' = "idle" /\ hist' = hist \cup {"paired"}
        /\ Raise("AUTH_STATUS", NoKey)
        /\ UNCHANGED <<pc, due, notify>>
    BY <1>9 DEF PairingSucceeds, Raise, kernel
  <2>2. Undisturbed' => \/ pc = "update" /\ BothOnWay("CONN_SEC_UPDATE", "AUTH_STATUS")'
                        \/ pc = "auth" /\ OnWay("AUTH_STATUS")'
    BY <2>1 DEF WhilePairing, NoneOnWay, OnWay, BothOnWay, GapValues, Raw
  <2> QED
    BY <2>1, <2>2 DEF BeforePairing, WhilePairing, AfterPairing
<1>10. CASE OtherEvent
  <2>1. /\ hist' = hist \cup {"buffer_reused"} /\ UNCHANGED <<smp, events, pc, due, notify>>
    BY <1>10 DEF OtherEvent, kernel, softdevice
  <2> QED
    BY <2>1 DEF BeforePairing, WhilePairing, AfterPairing, NoneOnWay, OnWay, BothOnWay
<1> QED
  BY <1>1, <1>2, <1>3, <1>4, <1>5, <1>6, <1>7, <1>8, <1>9, <1>10 DEF Environment

LEMMA InStepSecurityInit ==
  ASSUME BondInv, InStep, SecurityInit
  PROVE  InStep'
<1>0. PairingTypes /\ UNCHANGED events /\ (due => pc = "idle")
  BY DEF SecurityInit, SecurityStart, sd_ble_gap_authenticate, WaitTakes, WaitExpires,
     ParamsReply, nrf_start_dhkey_calculation, StoreBond, nvs_add_data, LookUp, Scan,
     SecInfoReply, Return,
     softdevice, BondInv, PairingTypes
<1> USE <1>0 DEF InStep, Undisturbed, BeforePairing, WhilePairing, AfterPairing, NoneOnWay, OnWay,
                 BothOnWay
<1>1. CASE SecurityStart
  <2>1. /\ pc = "idle" /\ due /\ ~due' /\ UNCHANGED <<smp, notify>>
        /\ \/ pc' = "authenticate"
              /\ hist' = IF notify # "none" THEN hist \cup {"leftover"} ELSE hist
           \/ UNCHANGED <<pc, hist>>
    BY <1>1 DEF SecurityStart, softdevice
  <2>2. CASE pc' = "authenticate"
    <3>1. Undisturbed' => Undisturbed /\ hist' = hist /\ notify = "none"
      <4>1. "leftover" \in hist' \/ (notify = "none" /\ hist' = hist)
        BY <2>1, <2>2
      <4> QED
        BY <4>1
    <3> QED
      BY <2>1, <2>2, <3>1
  <2>3. CASE UNCHANGED <<pc, hist>>
    BY <2>1, <2>3
  <2> QED
    BY <2>1, <2>2, <2>3
<1>2. CASE sd_ble_gap_authenticate
  <2>1. /\ pc = "authenticate" /\ UNCHANGED <<notify, due, hist>>
        /\ \/ pc' = "first" /\ smp' = "requested"
           \/ pc' = "return" /\ UNCHANGED smp
    BY <1>2 DEF sd_ble_gap_authenticate, Goes, Fails
  <2> QED
    BY <2>1
<1>3. CASE WaitTakes
  <2>1. notify # "none" /\ notify' = "none" /\ UNCHANGED <<smp, due, hist>>
    BY <1>3 DEF WaitTakes, softdevice
  <2>2. CASE pc = "first"
    <3>1. pc' = FirstValue(notify)
      BY <1>3, <2>2 DEF WaitTakes, Goes
    <3>2. pc' \in {"params", "lookup", "ok"} /\ (notify = "SEC_PARAM_REQ" => pc' = "params")
      BY <3>1 DEF FirstValue
    <3> QED
      BY <2>1, <2>2, <3>2
  <2>3. CASE pc # "first"
    <3>1. pc \in {"dhkey", "update", "auth", "found", "flash"}
      BY <1>3, <2>3 DEF WaitTakes, Expected
    <3>2. pc' = IF notify = Expected[pc] THEN After(pc) ELSE "return"
      BY <1>3, <2>3 DEF WaitTakes, Goes, Fails
    <3>3. \/ pc = "dhkey" /\ pc' = IF notify = "LESC_DHKEY_REQ" THEN "calculate" ELSE "return"
          \/ pc = "update" /\ pc' = IF notify = "CONN_SEC_UPDATE" THEN "auth" ELSE "return"
          \/ pc = "auth" /\ pc' = IF notify = "AUTH_STATUS" THEN "store" ELSE "return"
          \/ pc \in {"found", "flash"} /\ pc' \in {"ok", "return"}
      BY <3>1, <3>2 DEF Expected, After
    <3> QED
      BY <2>1, <3>3
  <2> QED
    BY <2>2, <2>3
<1>4. CASE WaitExpires
  BY <1>4 DEF WaitExpires
<1>5. CASE ParamsReply
  BY <1>5 DEF ParamsReply, Goes
<1>6. CASE nrf_start_dhkey_calculation
  BY <1>6 DEF nrf_start_dhkey_calculation, Goes, Fails
<1>7. CASE StoreBond
  BY <1>7 DEF StoreBond, softdevice
<1>8. CASE nvs_add_data
  BY <1>8 DEF nvs_add_data, Goes, Fails, softdevice, Answers
<1>9. CASE LookUp \/ Scan \/ SecInfoReply
  BY <1>9 DEF LookUp, Scan, SecInfoReply, Goes, Fails, softdevice
<1>10. CASE Return
  BY <1>10 DEF Return, softdevice
<1> QED
  BY <1>1, <1>2, <1>3, <1>4, <1>5, <1>6, <1>7, <1>8, <1>9, <1>10 DEF SecurityInit

LEMMA InStepElse ==
  ASSUME BondInv, InStep,
         \/ GapEvent \/ FlashEnds \/ ble_gap_instance_clear \/ ble_gap_delete_bonds \/ Erase
         \/ EraseExpires \/ DeleteReturns \/ UNCHANGED vars
  PROVE  InStep'
<1>0. PairingTypes /\ (ble_gap_taskhandle <=> pc # "idle")
  BY DEF BondInv, Owners
<1> USE <1>0 DEF InStep, Undisturbed
<1>1. CASE GapEvent
  <2>1. /\ events # <<>> /\ events' = Tail(events)
        /\ UNCHANGED <<pc, due>>
        /\ IF Head(events).type \in GapValues
           THEN /\ UNCHANGED smp
                /\ IF pc = "idle" THEN UNCHANGED <<notify, hist>>
                   ELSE /\ notify' = Head(events).type
                        /\ hist' = IF notify # "none" THEN hist \cup {"overwritten"} ELSE hist
           ELSE /\ smp' = IF smp = "passkey" THEN "confirmed" ELSE smp
                /\ UNCHANGED <<notify, hist>>
    BY <1>1 DEF GapEvent, task_notify, kernel
  <2>2. /\ \A v \in GapValues \cup {"PASSKEY_DISPLAY"} :
              events = <<Raw(v)>> => Head(events).type = v /\ events' = <<>>
        /\ \A v, w \in GapValues : events = <<Raw(v), Raw(w)>> => Head(events).type = v /\ events' = <<Raw(w)>>
    <3>1. /\ \A e \in GapEvents : events = <<e>> => Head(events) = e /\ events' = <<>>
          /\ \A e, f \in GapEvents : events = <<e, f>> => Head(events) = e /\ events' = <<f>>
      <4>1. events' = Tail(events)
        BY <2>1
      <4>2. ASSUME NEW e \in GapEvents, events = <<e>> PROVE Head(events) = e /\ events' = <<>>
        BY <4>1, <4>2, ShortSequences
      <4>3. ASSUME NEW e \in GapEvents, NEW f \in GapEvents, events = <<e, f>>
            PROVE  Head(events) = e /\ events' = <<f>>
        BY <4>1, <4>3, ShortSequences
      <4> QED
        BY <4>2, <4>3
    <3>2. \A v \in GapValues \cup {"PASSKEY_DISPLAY"} : Raw(v) \in GapEvents /\ Raw(v).type = v
      BY DEF Raw, GapEvents, NoKey
    <3> QED
      BY <3>1, <3>2
  <2>3. SUFFICES ASSUME Undisturbed' PROVE BeforePairing' /\ WhilePairing' /\ AfterPairing'
    OBVIOUS
  <2>4. /\ Undisturbed /\ hist' = hist
        /\ Head(events).type \in GapValues /\ pc # "idle" => notify = "none"
    <3>1. "overwritten" \notin hist'
      BY <2>3
    <3> QED
      BY <2>1, <2>3, <3>1
  <2>5. BeforePairing'
    BY <2>1, <2>4 DEF BeforePairing, NoneOnWay
  <2>6. WhilePairing'
    BY <2>1, <2>2, <2>4 DEF WhilePairing, NoneOnWay, OnWay, GapValues
  <2>7. AfterPairing'
    BY <2>1, <2>2, <2>4 DEF AfterPairing, NoneOnWay, OnWay, BothOnWay, GapValues
  <2> QED
    BY <2>5, <2>6, <2>7
<1>2. CASE FlashEnds
  <2>1. /\ UNCHANGED <<smp, events, pc, due>>
        /\ \/ UNCHANGED <<notify, hist>>
           \/ /\ pc = "flash" /\ notify' \in {"nrf_OK", "nrf_ERR_INTERNAL"}
              /\ hist' = IF notify # "none" THEN hist \cup {"overwritten"} ELSE hist
    BY <1>2 DEF FlashEnds, softdevice, kernel
  <2> QED
    BY <2>1 DEF BeforePairing, WhilePairing, AfterPairing, NoneOnWay, OnWay, BothOnWay, Answers
<1>3. CASE \/ ble_gap_instance_clear \/ ble_gap_delete_bonds \/ Erase
         \/ EraseExpires \/ DeleteReturns
           \/ UNCHANGED vars
  <2>1. UNCHANGED <<smp, events, pc, due, notify, hist>>
    BY <1>3 DEF ble_gap_instance_clear, ble_gap_delete_bonds, Erase, EraseExpires, DeleteReturns, vars,
       softdevice, kernel
  <2> QED
    BY <2>1 DEF BeforePairing, WhilePairing, AfterPairing, NoneOnWay, OnWay, BothOnWay
<1> QED
  BY <1>1, <1>2, <1>3

LEMMA InStepNext == BondInv /\ InStep /\ [Next]_vars => InStep'
  BY InStepEnvironment, InStepSecurityInit, InStepElse DEF Next

----------------------------------------------------------------------------
(* Where the key of the last pairing is.                                    *)

StoredKeys == {bonds[n].key : n \in 1 .. Len(bonds)}
Unstored == flash.key # ThisKey /\ ThisKey \notin StoredKeys

\* No key is newer than the one of the pairing begun last.
KeysBegun ==
    /\ key_set <= ThisKey /\ flash.key <= ThisKey
    /\ \A k \in StoredKeys : k <= ThisKey

\* That one is new until its pairing has distributed it.
KeyIsNew ==
    /\ smp \in Pairs => ThisKey > 0
    /\ smp \in Pairs \ {"keys"} => Unstored /\ key_set # ThisKey
    /\ Undisturbed /\ smp = "keys" => Unstored /\ key_set = ThisKey

\* Where it is after a pairing that nothing disturbed.
KeyOnItsWay ==
    /\ ThisKey > 0
    /\ pc # "idle" => key_set = ThisKey
    /\ pc \in {"update", "auth", "store", "add", "return"} => Unstored
    /\ pc = "flash" /\ notify = "none" =>
          flash.kind = "write" /\ flash.key = ThisKey /\ ThisKey \notin StoredKeys
    /\ pc = "flash" /\ notify = "nrf_ERR_INTERNAL" => Unstored
    /\ pc = "ok" \/ (pc = "flash" /\ notify = "nrf_OK") =>
          flash.kind = "none" /\ ThisKey \in StoredKeys
    /\ pc = "idle" =>
          /\ flash.key # ThisKey
          /\ budget.deletes = MaxDeletes => (result = "nrf_OK" <=> ThisKey \in StoredKeys)

KeysKnown ==
    /\ KeysBegun /\ KeyIsNew
    /\ Undisturbed /\ "paired" \in hist => KeyOnItsWay

LEMMA KeysFacts ==
  ASSUME BondInv
  PROVE  /\ ThisKey \in Nat /\ key_set \in Nat /\ flash.key \in Nat /\ StoredKeys \subseteq Nat
         /\ flash.kind = "none" => flash.key = 0
         /\ UNCHANGED bonds => UNCHANGED StoredKeys
         /\ UNCHANGED budget => UNCHANGED ThisKey
<1>1. PairingTypes
  BY DEF BondInv
<1>2. ThisKey \in Nat
  BY <1>1, TypeFacts
<1>3. StoredKeys \subseteq Nat
  <2>1. \A n \in 1 .. Len(bonds) : bonds[n] \in Bond
    BY <1>1 DEF PairingTypes
  <2> QED
    BY <2>1 DEF StoredKeys, Bond
<1>4. key_set \in Nat /\ flash.key \in Nat /\ (flash.kind = "none" => flash.key = 0)
  BY <1>1 DEF PairingTypes, NoFlash, NoKey
<1> QED
  BY <1>2, <1>3, <1>4 DEF StoredKeys, ThisKey

LEMMA KeysInit == Init => KeysKnown
<1> SUFFICES ASSUME Init PROVE KeysKnown
  OBVIOUS
<1>1. BondInv /\ StoredKeys = {} /\ key_set = 0 /\ flash.key = 0 /\ smp = "idle" /\ hist = {}
  BY BondInit DEF Init, StoredKeys, NoFlash, NoKey
<1> QED
  BY <1>1, KeysFacts DEF KeysKnown, KeysBegun, KeyIsNew, Pairs

LEMMA KeysEnvironment ==
  ASSUME BondInv, InStep, KeysKnown, Environment
  PROVE  KeysKnown'
<1>0. PairingTypes
  BY DEF BondInv
<1>a. UNCHANGED <<flash, pc, notify, bonds, StoredKeys>> /\ (UNCHANGED budget => UNCHANGED ThisKey)
  <2>1. UNCHANGED <<flash, pc, notify, bonds>>
    BY DEF Environment, Connect, Disconnect, PeerPairs, PeerEncrypts, PeerRefuses, PairingFails,
       PairingGoesOn, Encrypts, PairingSucceeds, OtherEvent, Raise, softdevice, kernel
  <2> QED
    BY <2>1, KeysFacts
<1> USE KeysFacts, <1>a DEF InStep, KeysKnown, KeysBegun
<1>1. CASE Connect
  <2>1. smp' = "idle" /\ hist' = {} /\ UNCHANGED key_set
    BY <1>1 DEF Connect
  <2>2. UNCHANGED ThisKey
    BY <1>0, <1>1 DEF Connect, ThisKey, PairingTypes, Budget
  <2> QED
    BY <2>1, <2>2 DEF KeyIsNew, Pairs
<1>2. CASE Disconnect \/ PairingFails
  <2>1. /\ smp' = "idle" /\ UNCHANGED <<key_set, budget, hist, result>>
    BY <1>2 DEF Disconnect, PairingFails, Raise, kernel
  <2> QED
    BY <2>1 DEF KeyIsNew, KeyOnItsWay, Unstored, Undisturbed, Pairs
<1>3. CASE PeerPairs
  <2>1. /\ smp \in {"requested", "idle"} /\ smp' = "params" /\ UNCHANGED key_set
        /\ hist' = IF smp = "idle" THEN hist \cup {"unasked"} ELSE hist
    BY <1>3 DEF PeerPairs
  <2>2. ThisKey' = ThisKey + 1
    <3>1. budget \in Budget /\ budget.pairings \in Nat /\ budget'.pairings = budget.pairings - 1
      BY <1>0, <1>3 DEF PeerPairs, PairingTypes, Budget
    <3> QED
      BY <3>1, PairingAssumption DEF ThisKey
  <2>3. KeysBegun' /\ KeyIsNew'
    BY <2>1, <2>2 DEF KeyIsNew, Unstored
  <2>4. Undisturbed' => "paired" \notin hist'
    BY <2>1 DEF Undisturbed, BeforePairing
  <2> QED
    BY <2>3, <2>4
<1>4. CASE PeerEncrypts
  <2>1. /\ smp \in {"requested", "idle"} /\ smp' = "info" /\ UNCHANGED <<key_set, budget>>
        /\ hist' = IF smp = "idle" THEN hist \cup {"unasked"} ELSE hist
    BY <1>4 DEF PeerEncrypts
  <2>2. Undisturbed' => "paired" \notin hist'
    BY <2>1 DEF Undisturbed, BeforePairing
  <2> QED
    BY <2>1, <2>2 DEF KeyIsNew, Pairs
<1>5. CASE PeerRefuses
  <2>1. smp' = "idle" /\ hist' = hist \cup {"refused"} /\ UNCHANGED <<key_set, budget>>
    BY <1>5 DEF PeerRefuses
  <2> QED
    BY <2>1 DEF KeyIsNew, Pairs, Undisturbed
<1>6. CASE PairingGoesOn
  <2>1. /\ smp \in Pairs \ {"keys"} /\ smp' \in Pairs \ {"keys"}
        /\ UNCHANGED <<key_set, budget, hist>>
    BY <1>6 DEF PairingGoesOn, Pairs
  <2> QED
    BY <2>1 DEF KeyIsNew, Unstored, Undisturbed, BeforePairing, Pairs
<1>7. CASE Encrypts
  <2>1. /\ smp # "idle" /\ UNCHANGED <<budget, hist>>
        /\ \/ smp \in Pairs \ {"keys"} /\ smp' = "keys" /\ key_set' = ThisKey
           \/ smp' = "idle" /\ key_set' = key_set
    BY <1>7 DEF Encrypts, Pairs
  <2> QED
    BY <2>1 DEF KeyIsNew, Unstored, Undisturbed, BeforePairing, Pairs
<1>8. CASE PairingSucceeds
  <2>1. /\ smp = "keys" /\ smp' = "idle" /\ hist' = hist \cup {"paired"}
        /\ UNCHANGED <<key_set, budget>>
    BY <1>8 DEF PairingSucceeds
  <2>2. Undisturbed' => KeyOnItsWay'
    BY <2>1 DEF KeyIsNew, KeyOnItsWay, Unstored, Undisturbed, WhilePairing, Pairs
  <2> QED
    BY <2>1, <2>2 DEF KeyIsNew, Pairs
<1>9. CASE OtherEvent
  <2>1. hist' = hist \cup {"buffer_reused"} /\ UNCHANGED <<smp, key_set, budget, result>>
    BY <1>9 DEF OtherEvent, softdevice, kernel
  <2> QED
    BY <2>1 DEF KeyIsNew, KeyOnItsWay, Unstored, Undisturbed
<1> QED
  BY <1>1, <1>2, <1>3, <1>4, <1>5, <1>6, <1>7, <1>8, <1>9 DEF Environment

LEMMA KeysSecurityInit ==
  ASSUME BondInv, OkInv, InStep, KeysKnown, SecurityInit
  PROVE  KeysKnown'
<1>0. /\ UNCHANGED <<bonds, StoredKeys, budget, ThisKey, key_set>>
      /\ due => pc = "idle"
  BY KeysFacts DEF SecurityInit, SecurityStart, sd_ble_gap_authenticate, WaitTakes, WaitExpires,
     ParamsReply, nrf_start_dhkey_calculation, StoreBond, nvs_add_data, LookUp, Scan,
     SecInfoReply, Return,
     softdevice, BondInv, PairingTypes
<1> USE <1>0, KeysFacts DEF InStep, KeysKnown, KeysBegun
<1>1. CASE SecurityStart
  <2>1. /\ due /\ UNCHANGED <<smp, flash>>
        /\ hist' = hist \cup {"leftover"} \/ hist' = hist
    BY <1>1 DEF SecurityStart, softdevice
  <2>2. Undisturbed' => Undisturbed /\ "paired" \notin hist'
    BY <2>1 DEF Undisturbed, BeforePairing
  <2> QED
    BY <2>1, <2>2 DEF KeyIsNew, Unstored
<1>2. CASE sd_ble_gap_authenticate
  <2>1. /\ pc = "authenticate" /\ UNCHANGED <<flash, hist>>
        /\ smp' = smp \/ smp' = "requested"
    BY <1>2 DEF sd_ble_gap_authenticate
  <2>2. Undisturbed' => Undisturbed /\ "paired" \notin hist'
    BY <2>1 DEF Undisturbed, BeforePairing
  <2> QED
    BY <2>1, <2>2 DEF KeyIsNew, Unstored, Pairs
<1>3. CASE WaitTakes
  <2>1. UNCHANGED <<smp, flash, hist>>
    BY <1>3 DEF WaitTakes, softdevice
  <2>2. KeyIsNew'
    BY <2>1 DEF KeyIsNew, Unstored, Undisturbed
  <2>3. ASSUME Undisturbed', "paired" \in hist' PROVE KeyOnItsWay'
    <3>1. Undisturbed /\ KeyOnItsWay /\ AfterPairing /\ "paired" \in hist
      BY <2>1, <2>3 DEF Undisturbed
    <3>2. pc \in {"update", "auth", "flash"} /\ notify # "none"
      BY <1>3, <3>1 DEF WaitTakes, Expected, AfterPairing
    <3>3. pc' = IF notify = Expected[pc] THEN After(pc) ELSE "return"
      BY <1>3, <3>2 DEF WaitTakes, Goes, Fails
    <3>4. \/ pc = "update" /\ pc' \in {"auth", "return"}
          \/ pc = "auth" /\ pc' \in {"store", "return"}
          \/ pc = "flash" /\ notify = "nrf_OK" /\ pc' = "ok"
          \/ pc = "flash" /\ notify = "nrf_ERR_INTERNAL" /\ pc' = "return"
      BY <3>1, <3>2, <3>3 DEF Expected, After, AfterPairing, Answers
    <3> QED
      BY <2>1, <3>1, <3>4 DEF KeyOnItsWay, Unstored
  <2> QED
    BY <2>1, <2>2, <2>3
<1>4. CASE WaitExpires
  <2>1. hist' = hist \cup {"expired"} /\ UNCHANGED <<smp, flash>>
    BY <1>4 DEF WaitExpires, softdevice
  <2> QED
    BY <2>1 DEF KeyIsNew, Unstored, Undisturbed
<1>5. CASE ParamsReply \/ nrf_start_dhkey_calculation
  <2>1. /\ pc \in {"params", "calculate"} /\ UNCHANGED <<flash, hist>>
        /\ \/ smp' = smp
           \/ smp \in Pairs \ {"keys"} /\ smp' \in Pairs \ {"keys"}
    BY <1>5 DEF ParamsReply, nrf_start_dhkey_calculation, Pairs
  <2>2. Undisturbed' => Undisturbed /\ "paired" \notin hist'
    BY <2>1 DEF Undisturbed, AfterPairing
  <2> QED
    BY <2>1, <2>2 DEF KeyIsNew, Unstored
<1>6. CASE StoreBond
  <2>1. /\ pc = "store" /\ UNCHANGED <<smp, flash>>
        /\ \/ hist' = hist \cup {"full"}
           \/ hist' = hist /\ pc' = "add"
    BY <1>6 DEF StoreBond, softdevice
  <2> QED
    BY <2>1 DEF KeyIsNew, KeyOnItsWay, Unstored, Undisturbed
<1>7. CASE nvs_add_data
  <2>1. /\ pc = "add" /\ UNCHANGED <<smp, notify, hist>>
        /\ \/ pc' = "return" /\ UNCHANGED flash
           \/ pc' = "flash" /\ flash' = [kind |-> "write", uid |-> uid_to_store, key |-> key_set]
    BY <1>7 DEF nvs_add_data, Goes, Fails, softdevice
  <2>2. KeyIsNew'
    BY <2>1 DEF KeyIsNew, Unstored, Undisturbed, WhilePairing
  <2>3. ASSUME Undisturbed', "paired" \in hist' PROVE KeyOnItsWay'
    <3>1. Undisturbed /\ KeyOnItsWay /\ notify = "none"
      BY <2>1, <2>3 DEF Undisturbed, AfterPairing, NoneOnWay
    <3> QED
      BY <2>1, <3>1 DEF KeyOnItsWay, Unstored
  <2> QED
    BY <2>1, <2>2, <2>3
<1>8. CASE LookUp \/ Scan \/ SecInfoReply
  <2>1. /\ pc \in {"lookup", "scan", "reply"} /\ UNCHANGED <<flash, hist>>
        /\ smp' = smp \/ smp' \in {"idle", "restore"}
    BY <1>8 DEF LookUp, Scan, SecInfoReply, Goes, Fails, softdevice
  <2>2. Undisturbed' => Undisturbed /\ "paired" \notin hist'
    BY <2>1 DEF Undisturbed, AfterPairing
  <2> QED
    BY <2>1, <2>2 DEF KeyIsNew, Unstored, Pairs
<1>9. CASE Return
  <2>1. /\ pc \in {"ok", "return"} /\ pc' = "idle" /\ UNCHANGED <<smp, flash, hist>>
        /\ result' = "nrf_OK" <=> pc = "ok"
    BY <1>9 DEF Return, softdevice, OkInv, EncryptedSince
  <2> QED
    BY <2>1 DEF KeyIsNew, KeyOnItsWay, Unstored, Undisturbed
<1> QED
  BY <1>1, <1>2, <1>3, <1>4, <1>5, <1>6, <1>7, <1>8, <1>9 DEF SecurityInit

LEMMA KeysFlashEnds ==
  ASSUME BondInv, InStep, KeysKnown, FlashEnds
  PROVE  KeysKnown'
<1>0. PairingTypes /\ flash.kind # "none" /\ flash.key \in Nat
  BY DEF BondInv, PairingTypes, FlashEnds
<1>1. PICK ok \in BOOLEAN :
        /\ budget' = IF ok THEN budget ELSE [budget EXCEPT !.errors = @ - 1]
        /\ bonds' = IF ~ok THEN bonds
                    ELSE IF flash.kind = "erase" THEN <<>>
                    ELSE Append(bonds, [uid |-> flash.uid, key |-> flash.key])
        /\ IF pc = "flash"
           THEN /\ notify' = IF ok THEN "nrf_OK" ELSE "nrf_ERR_INTERNAL"
                /\ hist' = IF notify # "none" THEN hist \cup {"overwritten"} ELSE hist
           ELSE UNCHANGED <<notify, hist>>
  BY DEF FlashEnds
<1>2. /\ flash'.kind = "none" /\ flash'.key = 0
      /\ UNCHANGED <<smp, key_set, pc, result>>
  BY DEF FlashEnds, softdevice, kernel, NoFlash, NoKey
<1>3. UNCHANGED ThisKey /\ UNCHANGED budget.deletes
  BY <1>0, <1>1 DEF ThisKey, PairingTypes, Budget
<1>4. StoredKeys' = IF ~ok THEN StoredKeys
                    ELSE IF flash.kind = "erase" THEN {} ELSE StoredKeys \cup {flash.key}
  <2>1. CASE ~ok
    BY <1>1, <2>1, KeysFacts
  <2>2. CASE ok /\ flash.kind = "erase"
    BY <1>1, <2>2 DEF StoredKeys
  <2>3. CASE ok /\ flash.kind # "erase"
    <3>1. [uid |-> flash.uid, key |-> flash.key] \in Bond /\ bonds \in Seq(Bond)
      BY <1>0 DEF PairingTypes, Bond
    <3>2. /\ Len(bonds') = Len(bonds) + 1 /\ Len(bonds) \in Nat
          /\ \A n \in 1 .. Len(bonds) : bonds'[n] = bonds[n]
          /\ bonds'[Len(bonds) + 1].key = flash.key
      BY <1>1, <2>3, <3>1
    <3> QED
      BY <2>3, <3>2 DEF StoredKeys
  <2> QED
    BY <2>1, <2>2, <2>3
<1> USE KeysFacts, <1>2, <1>3, <1>4 DEF InStep, KeysKnown
<1>5. KeysBegun'
  BY DEF KeysBegun
<1>6. KeyIsNew'
  <2>1. Undisturbed' => Undisturbed
    BY <1>1 DEF Undisturbed
  <2> QED
    BY <2>1 DEF KeyIsNew, Unstored, Pairs
<1>7. ASSUME Undisturbed', "paired" \in hist' PROVE KeyOnItsWay'
  <2>1. "overwritten" \notin hist'
    BY <1>7 DEF Undisturbed
  <2>2. /\ Undisturbed /\ "paired" \in hist /\ KeyOnItsWay
        /\ pc = "flash" => notify = "none" /\ notify' = IF ok THEN "nrf_OK" ELSE "nrf_ERR_INTERNAL"
        /\ pc # "flash" => UNCHANGED notify
    BY <1>1, <1>7, <2>1 DEF Undisturbed
  <2>3. /\ pc = "flash" => flash.kind = "write" /\ flash.key = ThisKey /\ ThisKey \notin StoredKeys
        /\ pc # "flash" => flash.key # ThisKey /\ pc # "ok"
        /\ flash.kind = "erase" => budget.deletes # MaxDeletes
    <3>1. pc \in {"update", "auth", "store", "add", "ok", "return", "idle", "flash"}
      BY <2>2 DEF AfterPairing
    <3>2. flash.kind = "erase" => budget.deletes # MaxDeletes
      BY DEF BondInv, Owners
    <3> QED
      BY <1>0, <2>2, <3>1, <3>2 DEF KeyOnItsWay, Unstored
  <2>4. CASE pc = "flash"
    BY <1>0, <2>2, <2>3, <2>4 DEF KeyOnItsWay, Unstored
  <2>5. CASE pc # "flash"
    BY <1>0, <2>2, <2>3, <2>5 DEF KeyOnItsWay, Unstored
  <2> QED
    BY <2>4, <2>5
<1> QED
  BY <1>5, <1>6, <1>7

LEMMA KeysElse ==
  ASSUME BondInv, InStep, KeysKnown,
         \/ GapEvent \/ ble_gap_instance_clear \/ ble_gap_delete_bonds \/ Erase
         \/ EraseExpires \/ DeleteReturns
         \/ UNCHANGED vars
  PROVE  KeysKnown'
<1>0. UNCHANGED <<bonds, StoredKeys, pc, result>>
  BY KeysFacts DEF GapEvent, ble_gap_instance_clear, ble_gap_delete_bonds, Erase, EraseExpires, DeleteReturns,
     vars, kernel
<1> USE <1>0, KeysFacts DEF InStep, KeysKnown, KeysBegun
<1>1. CASE GapEvent
  <2>1. /\ events # <<>> /\ UNCHANGED <<flash, budget, key_set>>
        /\ smp' = smp \/ (smp = "passkey" /\ smp' = "confirmed")
        /\ hist' = hist \/ hist' = hist \cup {"overwritten"}
    BY <1>1 DEF GapEvent, task_notify
  <2>2. KeyIsNew'
    BY <2>1 DEF KeyIsNew, Unstored, Undisturbed, Pairs
  <2>3. ASSUME Undisturbed', "paired" \in hist' PROVE KeyOnItsWay'
    <3>1. Undisturbed /\ "paired" \in hist /\ KeyOnItsWay /\ pc # "flash"
      BY <2>1, <2>3 DEF Undisturbed, AfterPairing
    <3> QED
      BY <2>1, <3>1 DEF KeyOnItsWay, Unstored
  <2> QED
    BY <2>1, <2>2, <2>3
<1>2. CASE ble_gap_instance_clear
  <2>1. /\ smp = "idle" /\ pc = "idle" /\ key_set' = 0
        /\ UNCHANGED <<flash, budget, smp, notify, hist>>
    BY <1>2 DEF ble_gap_instance_clear, softdevice, BondInv, PairingTypes, NoKey
  <2> QED
    BY <2>1 DEF KeyIsNew, KeyOnItsWay, Unstored, Undisturbed, Pairs
<1>3. CASE ble_gap_delete_bonds
  <2>1. pc = "idle" /\ UNCHANGED <<flash, key_set, smp, notify, hist>>
    BY <1>3 DEF ble_gap_delete_bonds, softdevice, BondInv, Owners, MutexFree
  <2>2. UNCHANGED ThisKey /\ budget'.deletes # MaxDeletes
    BY <1>3, PairingAssumption, SMTT(30) DEF ble_gap_delete_bonds, BondInv, PairingTypes, Budget, ThisKey
  <2> QED
    BY <2>1, <2>2 DEF KeyIsNew, KeyOnItsWay, Unstored, Undisturbed
<1>4. CASE Erase
  <2>1. /\ pc = "idle" /\ UNCHANGED <<budget, key_set, smp, notify, hist>>
        /\ flash' = flash \/ flash'.key = 0
    BY <1>4 DEF Erase, softdevice, BondInv, Owners, NoKey
  <2> QED
    BY <2>1 DEF KeyIsNew, KeyOnItsWay, Unstored, Undisturbed, Pairs
<1>5. CASE EraseExpires \/ DeleteReturns \/ UNCHANGED vars
  <2>1. UNCHANGED <<flash, budget, key_set, smp, notify, hist>>
    BY <1>5 DEF EraseExpires, DeleteReturns, vars, softdevice
  <2> QED
    BY <2>1 DEF KeyIsNew, KeyOnItsWay, Unstored, Undisturbed
<1> QED
  BY <1>1, <1>2, <1>3, <1>4, <1>5

LEMMA KeysNext == BondInv /\ OkInv /\ InStep /\ KeysKnown /\ [Next]_vars => KeysKnown'
  BY KeysEnvironment, KeysSecurityInit, KeysFlashEnds, KeysElse DEF Next

\* A pairing that nothing disturbed is answered with nrf_OK if and only if its
\* bond is in the store.
THEOREM BondsAgree == Spec => []BondAgreement
<1>1. BondInv /\ KeysKnown => BondAgreement
  <2> SUFFICES ASSUME BondInv, KeysKnown, pc = "idle", hist \ {"buffer_reused"} = {"paired"},
                      budget.deletes = MaxDeletes
               PROVE  result = "nrf_OK" <=> \E n \in DOMAIN bonds : bonds[n].key = ThisKey
    BY DEF BondAgreement
  <2>1. KeyOnItsWay
    BY DEF KeysKnown, Undisturbed
  <2>2. DOMAIN bonds = 1 .. Len(bonds)
    BY DEF BondInv, PairingTypes
  <2> QED
    BY <2>1, <2>2 DEF KeyOnItsWay, StoredKeys
<1> QED
  BY <1>1, BondInit, BondNext, OkInit, OkNext, InStepInit, InStepNext, KeysInit, KeysNext, PTL
     DEF Spec

----------------------------------------------------------------------------
(* The peer's request for its key, and the scan that looks for it.          *)

Queued == {events[n] : n \in 1 .. Len(events)}
InfoRequestLast == \A n \in 1 .. Len(events) : events[n].type = "SEC_INFO_REQ" => n = Len(events)

LEMMA QueueOfRequests ==
  ASSUME PairingTypes
  PROVE  /\ \A t \in GapValues \cup {"PASSKEY_DISPLAY"}, k \in Nat :
                Raise(t, k) =>
                  /\ Queued' = Queued \cup {[type |-> t, key |-> k]}
                  /\ Unhandled' = Unhandled \cup {t}
                  /\ "SEC_INFO_REQ" \notin Unhandled => InfoRequestLast'
         /\ events # <<>> /\ events' = Tail(events) =>
                  /\ Queued = Queued' \cup {Head(events)}
                  /\ Unhandled = Unhandled' \cup {Head(events).type}
                  /\ InfoRequestLast => InfoRequestLast'
                  /\ InfoRequestLast /\ Head(events).type = "SEC_INFO_REQ" => events' = <<>>
         /\ UNCHANGED events => UNCHANGED <<Queued, Unhandled>> /\ (InfoRequestLast => InfoRequestLast')
<1>1. ASSUME NEW t \in GapValues \cup {"PASSKEY_DISPLAY"}, NEW k \in Nat, Raise(t, k)
      PROVE  /\ Queued' = Queued \cup {[type |-> t, key |-> k]}
             /\ "SEC_INFO_REQ" \notin Unhandled => InfoRequestLast'
  <2> DEFINE e == [type |-> t, key |-> k]
  <2>1. e \in GapEvents /\ e.type = t /\ events' = Append(events, e) /\ events \in Seq(GapEvents)
    BY <1>1 DEF Raise, GapEvents, PairingTypes
  <2> HIDE DEF e
  <2>2. /\ Len(events') = Len(events) + 1 /\ Len(events) \in Nat
        /\ \A n \in 1 .. Len(events) : n \in 1 .. Len(events') /\ events'[n] = events[n]
        /\ \A n \in 1 .. Len(events') : n \in 1 .. Len(events) \/ n = Len(events')
        /\ events'[Len(events')] = e /\ Len(events') \in 1 .. Len(events')
    BY <2>1
  <2>3. Queued' = Queued \cup {e}
    BY <2>1, <2>2 DEF Queued
  <2>4. "SEC_INFO_REQ" \notin Unhandled => InfoRequestLast'
    BY <2>1, <2>2 DEF Unhandled, InfoRequestLast
  <2> QED
    BY <2>3, <2>4 DEF e
<1>2. ASSUME events # <<>>, events' = Tail(events)
      PROVE  /\ Queued = Queued' \cup {Head(events)}
             /\ InfoRequestLast => InfoRequestLast'
             /\ InfoRequestLast /\ Head(events).type = "SEC_INFO_REQ" => events' = <<>>
  <2>1. /\ events \in Seq(GapEvents) /\ events' \in Seq(GapEvents)
        /\ Len(events') + 1 = Len(events) /\ Len(events') \in Nat
        /\ \A n \in 1 .. Len(events') : n + 1 \in 1 .. Len(events) /\ events'[n] = events[n + 1]
        /\ \A n \in 1 .. Len(events) : n # 1 => n - 1 \in 1 .. Len(events') /\ events'[n - 1] = events[n]
        /\ Head(events) = events[1] /\ 1 \in 1 .. Len(events)
    BY <1>2 DEF PairingTypes
  <2>2. Queued' \cup {Head(events)} \subseteq Queued
    BY <2>1, SMTT(30) DEF Queued
  <2>3. Queued \subseteq Queued' \cup {Head(events)}
    BY <2>1 DEF Queued
  <2>4. InfoRequestLast => InfoRequestLast'
    BY <2>1 DEF InfoRequestLast
  <2>5. ASSUME InfoRequestLast, Head(events).type = "SEC_INFO_REQ" PROVE events' = <<>>
    <3>1. Len(events') = 0
      BY <2>1, <2>5 DEF InfoRequestLast
    <3> QED
      BY <2>1, <3>1
  <2> QED
    BY <2>2, <2>3, <2>4, <2>5
<1>3. UNCHANGED events => UNCHANGED <<Queued, Unhandled>> /\ (InfoRequestLast => InfoRequestLast')
  BY DEF Queued, Unhandled, InfoRequestLast
<1> QED
  BY <1>1, <1>2, <1>3, Queueing

\* May the call still take a request of the peer?
Done == {"found", "ok", "return", "idle"}
MayAsk == pc \notin Done \/ due

\* What the peer asks for is the key that it holds.
AsksForItsKey ==
    link => /\ evt_buffer \in {NoKey, peer_key}
            /\ \A e \in Queued : e.key = IF e.type = "SEC_INFO_REQ" THEN peer_key ELSE NoKey

\* It has asked for nothing but in its own procedure, and then says no more.
NoRequest == evt_buffer = NoKey /\ "SEC_INFO_REQ" \notin Unhandled
AsksInTurn ==
    /\ link /\ MayAsk /\ smp # "info" => NoRequest
    /\ smp \in Pairs \ {"params"} => NoRequest
    /\ smp = "restore" => ~MayAsk
    /\ link /\ MayAsk => InfoRequestLast

\* The call knows of the request.
Asked ==
    /\ link /\ "leftover" \notin hist /\ pc \notin Done
    /\ notify = "SEC_INFO_REQ" \/ pc \in {"lookup", "scan"}
RequestKept ==
    Asked => /\ smp = "info" /\ events = <<>> /\ ble_gap_Evt
             /\ "buffer_reused" \notin hist => evt_buffer = peer_key
Scanned ==
    pc = "scan" /\ ~undercut =>
        /\ total_bond_present <= Len(bonds) /\ i \in 1 .. total_bond_present + 1
        /\ Asked /\ "buffer_reused" \notin hist => \A n \in 1 .. i - 1 : bonds[n].key # peer_key

RequestInv == AsksForItsKey /\ AsksInTurn /\ RequestKept /\ Scanned

LEMMA RequestInit == Init => RequestInv
<1> SUFFICES ASSUME Init PROVE RequestInv
  OBVIOUS
<1>1. Queued = {} /\ Unhandled = {} /\ InfoRequestLast
  BY DEF Init, Queued, Unhandled, InfoRequestLast
<1> QED
  BY <1>1 DEF Init, RequestInv, AsksForItsKey, AsksInTurn, NoRequest, RequestKept, Asked, Scanned,
     Pairs, MayAsk, Done

LEMMA RequestEnvironment ==
  ASSUME BondInv, RequestInv, Environment
  PROVE  RequestInv'
<1>0. PairingTypes /\ peer_key \in Nat /\ NoKey \in Nat /\ (due => pc = "idle")
  BY DEF BondInv, PairingTypes, NoKey
<1>a. UNCHANGED <<ble_gap_Evt, notify, pc, total_bond_present, i, bonds, undercut>>
  BY DEF Environment, Connect, Disconnect, PeerPairs, PeerEncrypts, PeerRefuses, PairingFails,
     PairingGoesOn, Encrypts, PairingSucceeds, OtherEvent, Raise, softdevice, kernel
<1>b. /\ smp \in Pairs => smp # "idle" /\ smp # "info" /\ smp # "requested" /\ smp # "restore"
      /\ smp # "idle" => link
  BY <1>0 DEF PairingTypes, Pairs
<1> USE <1>0, <1>a, <1>b, QueueOfRequests DEF RequestInv
<1>1. CASE Connect
  <2>1. /\ pc = "idle" /\ evt_buffer' = NoKey /\ smp' = "idle" /\ events' = <<>>
    BY <1>1 DEF Connect
  <2>2. Queued' = {} /\ Unhandled' = {} /\ InfoRequestLast'
    BY <2>1 DEF Queued, Unhandled, InfoRequestLast
  <2> QED
    BY <2>1, <2>2 DEF AsksForItsKey, AsksInTurn, NoRequest, RequestKept, Asked, Scanned, Pairs, Done
<1>2. CASE Disconnect
  <2>1. link' = FALSE /\ smp' = "idle"
    BY <1>2 DEF Disconnect
  <2> QED
    BY <2>1 DEF AsksForItsKey, AsksInTurn, RequestKept, Asked, Scanned, Pairs
<1>3. CASE PeerPairs \/ PeerRefuses \/ PairingFails \/ PairingGoesOn
  <2>1. /\ UNCHANGED <<link, peer_key, evt_buffer, due>>
        /\ smp # "info" /\ smp' # "info" /\ smp' # "restore" /\ link
        /\ smp' \in Pairs \ {"params"} => smp \in Pairs \ {"params"}
        /\ \E t \in GapValues \cup {"PASSKEY_DISPLAY"} : t # "SEC_INFO_REQ" /\ Raise(t, NoKey)
        /\ hist' = hist \/ hist' = hist \cup {"unasked"} \/ hist' = hist \cup {"refused"}
    BY <1>3 DEF PeerPairs, PeerRefuses, PairingFails, PairingGoesOn, Raise, Pairs, GapValues
  <2>2. ~Asked
    BY <2>1 DEF RequestKept
  <2>3. ~Asked'
    BY <2>1, <2>2 DEF Asked
  <2>4. PICK t \in GapValues \cup {"PASSKEY_DISPLAY"} : t # "SEC_INFO_REQ" /\ Raise(t, NoKey)
    BY <2>1
  <2>5. AsksForItsKey'
    BY <2>1, <2>4 DEF AsksForItsKey
  <2>6. AsksInTurn'
    BY <2>1, <2>4 DEF AsksInTurn, NoRequest, MayAsk
  <2> QED
    BY <2>3, <2>5, <2>6 DEF RequestKept, Scanned
<1>4. CASE PeerEncrypts
  <2>1. /\ UNCHANGED <<link, peer_key, evt_buffer, due>>
        /\ smp # "info" /\ smp' = "info" /\ link
        /\ Raise("SEC_INFO_REQ", peer_key)
        /\ hist' = hist \/ hist' = hist \cup {"unasked"}
    BY <1>4 DEF PeerEncrypts, Raise
  <2>2. ~Asked
    BY <2>1 DEF RequestKept
  <2>3. ~Asked'
    BY <2>1, <2>2 DEF Asked
  <2>5. AsksForItsKey'
    BY <2>1 DEF AsksForItsKey, GapValues
  <2>6. AsksInTurn'
    BY <2>1 DEF AsksInTurn, NoRequest, MayAsk, GapValues, Pairs
  <2> QED
    BY <2>3, <2>5, <2>6 DEF RequestKept, Scanned
<1>5. CASE Encrypts
  <2>1. /\ UNCHANGED <<link, peer_key, evt_buffer, due, hist>>
        /\ smp \in {"checks", "confirmed", "restore"} /\ link
        /\ smp' = IF smp = "restore" THEN "idle" ELSE "keys"
        /\ Raise("CONN_SEC_UPDATE", NoKey)
    BY <1>5 DEF Encrypts, Raise
  <2>2. ~Asked
    BY <2>1 DEF RequestKept
  <2>3. ~Asked'
    BY <2>1, <2>2 DEF Asked
  <2>5. AsksForItsKey'
    BY <2>1 DEF AsksForItsKey, GapValues
  <2>6. AsksInTurn'
    BY <2>1 DEF AsksInTurn, NoRequest, MayAsk, GapValues, Pairs
  <2> QED
    BY <2>3, <2>5, <2>6 DEF RequestKept, Scanned
<1>6. CASE PairingSucceeds
  <2>1. /\ UNCHANGED <<link, evt_buffer, due>> /\ hist' = hist \cup {"paired"}
        /\ smp = "keys" /\ link /\ smp' = "idle"
        /\ Raise("AUTH_STATUS", NoKey)
    BY <1>6 DEF PairingSucceeds, Raise
  <2>2. ~Asked
    BY <2>1 DEF RequestKept
  <2>3. ~Asked'
    BY <2>1, <2>2 DEF Asked
  <2>4. NoRequest /\ \A e \in Queued : e.type # "SEC_INFO_REQ" /\ e.key = NoKey
    BY <2>1 DEF AsksInTurn, AsksForItsKey, NoRequest, Pairs, Queued, Unhandled
  <2>5. AsksForItsKey'
    BY <2>1, <2>4 DEF AsksForItsKey, NoRequest, GapValues
  <2>6. AsksInTurn'
    BY <2>1, <2>4 DEF AsksInTurn, NoRequest, MayAsk, GapValues, Pairs
  <2> QED
    BY <2>3, <2>5, <2>6 DEF RequestKept, Scanned
<1>7. CASE OtherEvent
  <2>1. /\ UNCHANGED <<link, smp, peer_key, events, due>>
        /\ evt_buffer' = NoKey /\ hist' = hist \cup {"buffer_reused"}
    BY <1>7 DEF OtherEvent, softdevice, kernel
  <2>2. AsksForItsKey' /\ AsksInTurn'
    BY <2>1 DEF AsksForItsKey, AsksInTurn, NoRequest, MayAsk
  <2>3. RequestKept' /\ Scanned'
    BY <2>1 DEF RequestKept, Asked, Scanned
  <2> QED
    BY <2>2, <2>3
<1> QED
  BY <1>1, <1>2, <1>3, <1>4, <1>5, <1>6, <1>7 DEF Environment

LEMMA RequestSecurityInit ==
  ASSUME BondInv, RequestInv, SecurityInit
  PROVE  RequestInv'
<1>0. PairingTypes /\ (due => pc = "idle") /\ (smp # "idle" => link)
  BY DEF BondInv, PairingTypes
<1>a. UNCHANGED <<ble_gap_Evt, evt_buffer, events, link, peer_key, bonds, undercut>> /\ ~due'
  <2>1. UNCHANGED <<ble_gap_Evt, evt_buffer, events, link, peer_key, bonds, undercut>>
    BY DEF SecurityInit, SecurityStart, sd_ble_gap_authenticate, WaitTakes, WaitExpires,
       ParamsReply, nrf_start_dhkey_calculation, StoreBond, nvs_add_data, LookUp, Scan,
     SecInfoReply, Return,
       softdevice
  <2>2. ~due'
    BY <1>0 DEF SecurityInit, SecurityStart, sd_ble_gap_authenticate, WaitTakes, WaitExpires,
       ParamsReply, nrf_start_dhkey_calculation, StoreBond, nvs_add_data, LookUp, Scan,
     SecInfoReply, Return,
       Expected
  <2> QED
    BY <2>1, <2>2
<1>b. AsksForItsKey'
  BY <1>0, <1>a, QueueOfRequests DEF RequestInv, AsksForItsKey
<1> USE <1>0, <1>a, QueueOfRequests DEF RequestInv
<1>1. CASE SecurityStart
  <2>1. /\ pc = "idle" /\ due /\ UNCHANGED <<smp, notify>>
        /\ \/ /\ pc' = "authenticate"
              /\ notify # "none" => "leftover" \in hist'
           \/ pc' = "idle"
    BY <1>1 DEF SecurityStart, softdevice
  <2>2. AsksInTurn'
    BY <2>1 DEF AsksInTurn, NoRequest, MayAsk, Done
  <2>3. ~Asked'
    BY <2>1 DEF Asked, Done
  <2> QED
    BY <1>b, <2>1, <2>2, <2>3 DEF RequestKept, Scanned
<1>2. CASE sd_ble_gap_authenticate
  <2>1. /\ pc = "authenticate" /\ UNCHANGED <<notify, hist>>
        /\ \/ smp = "idle" /\ smp' = "requested" /\ pc' = "first"
           \/ smp' = smp /\ pc' = "return"
    BY <1>2 DEF sd_ble_gap_authenticate, Goes, Fails
  <2>2. AsksInTurn'
    BY <2>1 DEF AsksInTurn, NoRequest, MayAsk, Done, Pairs
  <2>3. ~Asked'
    BY <2>1 DEF Asked, Done, RequestKept
  <2> QED
    BY <1>b, <2>1, <2>2, <2>3 DEF RequestKept, Scanned
<1>3. CASE WaitTakes \/ WaitExpires
  <2>1. /\ pc \in Waits /\ notify' = "none" /\ UNCHANGED smp
        /\ hist' = hist \/ hist' = hist \cup {"expired"}
    BY <1>3 DEF WaitTakes, WaitExpires, Expected, Waits, softdevice
  <2>2. /\ pc' # "scan" /\ pc' # "idle"
        /\ pc \in {"found"} => pc' \in Done
        /\ pc' = "lookup" => pc = "first" /\ notify = "SEC_INFO_REQ"
    BY <1>3 DEF WaitTakes, WaitExpires, Expected, FirstValue, After, Goes, Fails, Done
  <2>3. AsksInTurn'
    BY <2>1, <2>2 DEF AsksInTurn, NoRequest, MayAsk, Done, Waits
  <2>4. Asked' => Asked
    BY <2>1, <2>2 DEF Asked, Done, Waits
  <2>5. RequestKept'
    BY <2>1, <2>4 DEF RequestKept
  <2> QED
    BY <1>b, <2>2, <2>3, <2>5 DEF Scanned
<1>4. CASE ParamsReply \/ nrf_start_dhkey_calculation
  <2>1. /\ pc \in {"params", "calculate"} /\ UNCHANGED <<notify, hist>>
        /\ pc' \in {"dhkey", "update", "return"}
        /\ \/ smp' = smp
           \/ smp \in Pairs /\ smp' \in Pairs
    BY <1>4 DEF ParamsReply, nrf_start_dhkey_calculation, Goes, Fails, Pairs
  <2>2. AsksInTurn'
    BY <2>1 DEF AsksInTurn, NoRequest, MayAsk, Done, Pairs
  <2>3. Asked' => Asked /\ smp' = "info"
    BY <2>1 DEF Asked, Done, RequestKept, Pairs
  <2>4. RequestKept'
    BY <2>1, <2>3 DEF RequestKept
  <2> QED
    BY <1>b, <2>1, <2>2, <2>4 DEF Scanned
<1>5. CASE StoreBond \/ nvs_add_data
  <2>1. /\ pc \in {"store", "add"} /\ UNCHANGED <<smp, notify>>
        /\ pc' \in {"ok", "add", "return", "flash"}
        /\ hist \subseteq hist' /\ (pc' # "ok" => hist' = hist)
    BY <1>5 DEF StoreBond, nvs_add_data, Goes, Fails, softdevice
  <2>2. AsksInTurn'
    BY <2>1 DEF AsksInTurn, NoRequest, MayAsk, Done
  <2>3. Asked' => Asked /\ hist' = hist
    BY <2>1 DEF Asked, Done
  <2>4. RequestKept'
    BY <2>1, <2>3 DEF RequestKept
  <2> QED
    BY <1>b, <2>1, <2>2, <2>4 DEF Scanned
<1>6. CASE LookUp
  <2>1. /\ pc = "lookup" /\ pc' = "scan" /\ total_bond_present' = Len(bonds) /\ i' = 1
        /\ UNCHANGED <<smp, notify, hist>>
    BY <1>6 DEF LookUp, nvs_Get_total_no_of_uid, softdevice
  <2>2. AsksInTurn'
    BY <2>1 DEF AsksInTurn, NoRequest, MayAsk, Done
  <2>3. Asked' => Asked
    BY <2>1 DEF Asked, Done
  <2>4. RequestKept'
    BY <2>1, <2>3 DEF RequestKept
  <2>5. Scanned'
    BY <2>1 DEF Scanned, PairingTypes
  <2> QED
    BY <1>b, <2>2, <2>4, <2>5
<1>7. CASE Scan
  <2>1. /\ pc = "scan" /\ UNCHANGED <<notify, total_bond_present, hist>>
        /\ \/ pc' = "return" /\ smp' \in {smp, "idle"}
           \/ pc' = "reply" /\ smp' = smp
           \/ /\ pc' = "scan" /\ smp' = smp /\ i' = i + 1
              /\ i <= total_bond_present /\ ~Matches(i)
    BY <1>7 DEF Scan, LastUid, Fails, PairingTypes
  <2>2. AsksInTurn'
    BY <2>1 DEF AsksInTurn, NoRequest, MayAsk, Done, Pairs
  <2>3. Asked' => Asked /\ smp' = smp
    BY <2>1 DEF Asked, Done
  <2>4. RequestKept'
    BY <2>1, <2>3 DEF RequestKept
  <2>5. Scanned'
    <3> SUFFICES ASSUME pc' = "scan", ~undercut PROVE Scanned'
      BY DEF Scanned
    <3>1. /\ i \in 1 .. total_bond_present /\ total_bond_present <= Len(bonds) /\ i' = i + 1
          /\ bonds[i].key # evt_buffer
      BY <2>1 DEF Scanned, Matches, BondInv, BondUidsContiguous, PairingTypes
    <3>2. i' \in 1 .. total_bond_present' + 1 /\ total_bond_present' <= Len(bonds')
      BY <2>1, <3>1 DEF PairingTypes
    <3>3. ASSUME Asked', "buffer_reused" \notin hist' PROVE \A n \in 1 .. i' - 1 : bonds'[n].key # peer_key'
      <4>1. bonds[i].key # peer_key /\ \A n \in 1 .. i - 1 : bonds[n].key # peer_key
        BY <2>1, <2>3, <3>1, <3>3 DEF Scanned, RequestKept
      <4> QED
        BY <3>1, <4>1
    <3> QED
      BY <3>2, <3>3 DEF Scanned
  <2> QED
    BY <1>b, <2>2, <2>4, <2>5
<1>8. CASE Return
  <2>1. pc' = "idle" /\ UNCHANGED <<smp, notify, hist>>
    BY <1>8 DEF Return, softdevice
  <2>2. AsksInTurn'
    BY <2>1 DEF AsksInTurn, NoRequest, MayAsk, Done
  <2> QED
    BY <1>b, <2>1, <2>2 DEF RequestKept, Scanned, Asked, Done
<1>9. CASE SecInfoReply
  <2>1. /\ pc = "reply" /\ pc' = "found" /\ UNCHANGED <<notify, hist>>
        /\ smp' = IF smp = "info" THEN "restore" ELSE smp
    BY <1>9 DEF SecInfoReply, Goes
  <2>2. AsksInTurn'
    BY <2>1 DEF AsksInTurn, NoRequest, MayAsk, Done, Pairs
  <2> QED
    BY <1>b, <2>1, <2>2 DEF RequestKept, Scanned, Asked, Done
<1> QED
  BY <1>1, <1>2, <1>3, <1>4, <1>5, <1>6, <1>7, <1>8, <1>9 DEF SecurityInit

LEMMA RequestElse ==
  ASSUME BondInv, RequestInv,
         \/ GapEvent \/ FlashEnds \/ ble_gap_instance_clear \/ ble_gap_delete_bonds \/ Erase
         \/ EraseExpires \/ DeleteReturns \/ UNCHANGED vars
  PROVE  RequestInv'
<1>0. PairingTypes /\ (due => pc = "idle") /\ (smp # "idle" => link)
  BY DEF BondInv, PairingTypes
<1> USE <1>0, QueueOfRequests DEF RequestInv
<1>1. CASE GapEvent
  <2>1. /\ events # <<>> /\ events' = Tail(events) /\ evt_buffer' = Head(events).key
        /\ ble_gap_Evt' = (ble_gap_Evt \/ Head(events).type = "SEC_INFO_REQ")
        /\ UNCHANGED <<link, peer_key, pc, total_bond_present, i, bonds, undercut, due>>
        /\ smp' = smp \/ (smp = "passkey" /\ smp' = "confirmed")
        /\ \/ UNCHANGED <<notify, hist>>
           \/ /\ notify' = Head(events).type /\ Head(events).type \in GapValues /\ smp' = smp
              /\ hist' = IF notify # "none" THEN hist \cup {"overwritten"} ELSE hist
    BY <1>1 DEF GapEvent, task_notify, kernel
  <2>2. AsksForItsKey'
    BY <2>1 DEF AsksForItsKey
  <2>3. AsksInTurn'
    BY <2>1 DEF AsksInTurn, AsksForItsKey, NoRequest, MayAsk, Pairs
  <2>4. ~Asked
    BY <2>1 DEF RequestKept
  <2>5. RequestKept'
    <3> SUFFICES ASSUME Asked' PROVE /\ smp' = "info" /\ events' = <<>> /\ ble_gap_Evt'
                                     /\ evt_buffer' = peer_key'
      BY DEF RequestKept
    <3>1. link /\ MayAsk /\ Head(events).type = "SEC_INFO_REQ" /\ smp' = smp
      BY <2>1, <2>4 DEF Asked, MayAsk
    <3>2. smp = "info" /\ events' = <<>>
      BY <2>1, <3>1 DEF AsksInTurn, NoRequest
    <3>3. evt_buffer' = peer_key
      BY <2>1, <3>1 DEF AsksForItsKey
    <3>4. ble_gap_Evt'
      BY <2>1, <3>1
    <3> QED
      BY <2>1, <3>1, <3>2, <3>3, <3>4
  <2>6. Scanned'
    <3>1. pc = "scan" => (Asked' => Asked)
      BY <2>1 DEF Asked
    <3> QED
      BY <2>1, <2>4, <3>1 DEF Scanned
  <2> QED
    BY <2>2, <2>3, <2>5, <2>6
<1>2. CASE FlashEnds
  <2>1. /\ UNCHANGED <<link, smp, peer_key, events, evt_buffer, ble_gap_Evt, pc, total_bond_present,
                       i, due>>
        /\ \/ UNCHANGED <<notify, hist>>
           \/ /\ pc = "flash" /\ notify' \in {"nrf_OK", "nrf_ERR_INTERNAL"}
              /\ hist' = IF notify # "none" THEN hist \cup {"overwritten"} ELSE hist
    BY <1>2 DEF FlashEnds, softdevice, kernel
  <2>2. AsksForItsKey' /\ AsksInTurn'
    BY <2>1 DEF AsksForItsKey, AsksInTurn, NoRequest, MayAsk
  <2>3. Asked' => Asked /\ (UNCHANGED hist)
    <3>1. "leftover" \in hist => "leftover" \in hist'
      BY <2>1
    <3> QED
      BY <2>1, <3>1 DEF Asked, Done, RequestKept
  <2>4. RequestKept'
    BY <2>1, <2>3 DEF RequestKept
  <2>5. Scanned'
    <3> SUFFICES ASSUME pc = "scan", ~undercut' PROVE Scanned'
      BY <2>1 DEF Scanned
    <3>1. /\ Len(bonds) \in Nat /\ Len(bonds') \in Nat /\ Len(bonds) <= Len(bonds')
          /\ \A n \in 1 .. Len(bonds) : bonds'[n] = bonds[n]
      <4>1. bonds' = bonds \/ bonds' = Append(bonds, [uid |-> flash.uid, key |-> flash.key])
        BY <1>2, CountedApart DEF FlashEnds, Counted, OutlivesWait, PairingTypes
      <4>2. bonds \in Seq(Bond) /\ [uid |-> flash.uid, key |-> flash.key] \in Bond
        BY DEF PairingTypes, Bond
      <4> QED
        BY <4>1, <4>2
    <3>2. /\ ~undercut /\ total_bond_present <= Len(bonds) /\ i \in 1 .. total_bond_present + 1
          /\ i' = i /\ total_bond_present \in Nat /\ UNCHANGED total_bond_present
      BY <1>2, <2>1 DEF FlashEnds, Scanned, PairingTypes
    <3>3. \A n \in 1 .. i - 1 : bonds'[n] = bonds[n]
      BY <3>1, <3>2
    <3>4. total_bond_present' <= Len(bonds')
      BY <3>1, <3>2
    <3> QED
      BY <2>1, <2>3, <3>2, <3>3, <3>4 DEF Scanned
  <2> QED
    BY <2>2, <2>4, <2>5
<1>3. CASE \/ ble_gap_instance_clear \/ ble_gap_delete_bonds \/ Erase
         \/ EraseExpires \/ DeleteReturns
           \/ UNCHANGED vars
  <2>1. UNCHANGED <<link, smp, peer_key, events, evt_buffer, ble_gap_Evt, pc, total_bond_present, i,
                    due, notify, hist, bonds, undercut>>
    BY <1>3 DEF ble_gap_instance_clear, ble_gap_delete_bonds, Erase, EraseExpires, DeleteReturns, vars,
       softdevice, kernel
  <2> QED
    BY <2>1 DEF AsksForItsKey, AsksInTurn, NoRequest, MayAsk, RequestKept, Asked, Scanned
<1> QED
  BY <1>1, <1>2, <1>3

LEMMA RequestNext == BondInv /\ RequestInv /\ [Next]_vars => RequestInv'
  BY RequestEnvironment, RequestSecurityInit, RequestElse DEF Next

----------------------------------------------------------------------------
(* Keys that are stored are real.                                           *)

\* A key that is stored, or about to be, was filled in by a pairing.
KeysReal ==
    /\ MayAsk /\ "CONN_SEC_UPDATE" \in Unhandled => key_set # NoKey
    /\ pc \in {"params", "dhkey", "calculate", "update"} /\ notify = "CONN_SEC_UPDATE"
          => key_set # NoKey
    /\ pc \in {"auth", "store", "add"} => key_set # NoKey
    /\ flash.kind = "write" => flash.key # NoKey
    /\ NoKey \notin StoredKeys

LEMMA KeysRealInit == Init => KeysReal
  BY DEF Init, KeysReal, Unhandled, StoredKeys, NoFlash

LEMMA KeysRealNext ==
  ASSUME BondInv, KeyIsNew, RequestInv, KeysReal, [Next]_vars
  PROVE  KeysReal'
<1>0. PairingTypes /\ (due => pc = "idle")
  BY DEF BondInv, PairingTypes
<1> USE <1>0, KeysFacts, Queueing
<1>1. CASE Environment
  <2>1. UNCHANGED <<flash, pc, notify, bonds>>
    BY <1>1 DEF Environment, Connect, Disconnect, PeerPairs, PeerEncrypts, PeerRefuses, PairingFails,
       PairingGoesOn, Encrypts, PairingSucceeds, OtherEvent, Raise, softdevice, kernel
  <2>2. CASE Connect
    <3>1. events' = <<>> /\ pc = "idle" /\ UNCHANGED key_set
      BY <2>2 DEF Connect
    <3>2. Unhandled' = {}
      BY <3>1 DEF Unhandled
    <3> QED
      BY <2>1, <3>1, <3>2 DEF KeysReal
  <2>3. CASE Encrypts
    <3>1. /\ Raise("CONN_SEC_UPDATE", NoKey) /\ UNCHANGED due
          /\ smp # "restore" => smp \in Pairs /\ key_set' = ThisKey
          /\ smp = "restore" => key_set' = key_set
      BY <2>3 DEF Encrypts, Raise, Pairs
    <3>2. smp = "restore" => ~MayAsk
      BY DEF RequestInv, AsksInTurn
    <3>3. smp # "restore" => key_set' # NoKey
      BY <3>1 DEF KeyIsNew, NoKey
    <3>4. UNCHANGED MayAsk
      BY <2>1, <3>1 DEF MayAsk
    <3>5. MayAsk => key_set' # NoKey
      BY <3>2, <3>3
    <3>6. smp = "restore" => pc \notin {"params", "dhkey", "calculate", "update", "auth", "store", "add"}
      BY <3>2 DEF MayAsk, Done
    <3> QED
      BY <2>1, <3>1, <3>3, <3>4, <3>5, <3>6 DEF KeysReal
  <2>4. CASE ~Connect /\ ~Encrypts
    <3>1. /\ UNCHANGED <<due, key_set>>
          /\ \/ UNCHANGED events
             \/ \E t \in GapValues \cup {"PASSKEY_DISPLAY"}, k \in {NoKey, peer_key} :
                   t # "CONN_SEC_UPDATE" /\ Raise(t, k)
      BY <1>1, <2>4 DEF Environment, Disconnect, PeerPairs, PeerEncrypts, PeerRefuses, PairingFails,
         PairingGoesOn, PairingSucceeds, OtherEvent, Raise, kernel, GapValues
    <3>2. \A k \in {NoKey, peer_key} : k \in Nat
      BY DEF PairingTypes, NoKey
    <3>3. "CONN_SEC_UPDATE" \in Unhandled' => "CONN_SEC_UPDATE" \in Unhandled
      BY <3>1, <3>2
    <3> QED
      BY <2>1, <3>1, <3>3 DEF KeysReal, MayAsk
  <2> QED
    BY <2>2, <2>3, <2>4
<1>2. CASE SecurityInit
  <2>0. UNCHANGED <<bonds, key_set, events, Unhandled>>
    BY <1>2 DEF SecurityInit, SecurityStart, sd_ble_gap_authenticate, WaitTakes, WaitExpires,
       ParamsReply, nrf_start_dhkey_calculation, StoreBond, nvs_add_data, LookUp, Scan,
     SecInfoReply, Return,
       softdevice
  <2> USE <2>0
  <2>1. CASE SecurityStart \/ sd_ble_gap_authenticate
    <3>1. /\ UNCHANGED flash
          /\ pc' \in {"idle", "authenticate", "first", "return"} /\ (MayAsk' => MayAsk)
      BY <2>1 DEF SecurityStart, sd_ble_gap_authenticate, Goes, Fails, MayAsk, Done
    <3> QED
      BY <3>1 DEF KeysReal
  <2>2. CASE WaitTakes
    <3>1. /\ notify' = "none" /\ UNCHANGED flash /\ pc \in Waits
          /\ pc' \in {"params", "lookup", "ok", "calculate", "auth", "store", "return"}
          /\ pc' = "auth" => pc = "update" /\ notify = "CONN_SEC_UPDATE"
          /\ pc' = "store" => pc = "auth"
          /\ MayAsk' => MayAsk
      BY <2>2 DEF WaitTakes, Expected, FirstValue, After, Goes, Fails, Waits, MayAsk, Done
    <3> QED
      BY <3>1 DEF KeysReal
  <2>3. CASE WaitExpires \/ Return
    <3>1. UNCHANGED flash /\ pc' \in {"return", "idle"} /\ (MayAsk' => MayAsk)
      BY <2>3 DEF WaitExpires, Return, Fails, MayAsk, Done
    <3> QED
      BY <3>1 DEF KeysReal
  <2>4. CASE ParamsReply \/ nrf_start_dhkey_calculation \/ LookUp \/ Scan
             \/ SecInfoReply
    <3>1. /\ pc \in {"params", "calculate", "lookup", "scan", "reply"}
          /\ UNCHANGED <<flash, notify, due>>
          /\ pc' \in {"dhkey", "update", "return", "scan", "reply", "found"}
          /\ pc' \in {"dhkey", "update"} => pc \in {"params", "calculate"}
      BY <2>4 DEF ParamsReply, nrf_start_dhkey_calculation, LookUp, Scan, SecInfoReply, Goes, Fails
    <3>2. MayAsk
      BY <3>1 DEF MayAsk, Done
    <3> QED
      BY <3>1, <3>2 DEF KeysReal
  <2>5. CASE StoreBond \/ nvs_add_data
    <3>1. /\ pc \in {"store", "add"} /\ pc' \in {"ok", "add", "return", "flash"}
          /\ flash' = flash \/ (pc = "add" /\ flash'.key = key_set)
      BY <2>5 DEF StoreBond, nvs_add_data, Goes, Fails
    <3>2. MayAsk
      BY <3>1 DEF MayAsk, Done
    <3> QED
      BY <3>1, <3>2 DEF KeysReal
  <2> QED
    BY <1>2, <2>1, <2>2, <2>3, <2>4, <2>5 DEF SecurityInit
<1>3. CASE GapEvent
  <2>1. /\ events # <<>> /\ events' = Tail(events)
        /\ UNCHANGED <<flash, bonds, key_set, pc, due>>
        /\ notify' = notify \/ notify' = Head(events).type
    BY <1>3 DEF GapEvent, task_notify, kernel
  <2>2. pc \in {"params", "dhkey", "calculate", "update"} => MayAsk
    BY DEF MayAsk, Done
  <2> QED
    BY <2>1, <2>2 DEF KeysReal, MayAsk
<1>4. CASE FlashEnds
  <2>1. /\ flash' = NoFlash /\ UNCHANGED <<events, key_set, pc, due>>
        /\ notify' = notify \/ pc = "flash"
    BY <1>4 DEF FlashEnds, softdevice, kernel
  <2>2. NoKey \notin StoredKeys'
    <3>1. CASE bonds' = bonds
      BY <3>1 DEF KeysReal
    <3>2. CASE bonds' = <<>>
      BY <3>2 DEF StoredKeys
    <3>3. CASE flash.kind = "write" /\ bonds' = Append(bonds, [uid |-> flash.uid, key |-> flash.key])
      <4>1. /\ [uid |-> flash.uid, key |-> flash.key] \in Bond /\ bonds \in Seq(Bond)
            /\ flash.key # NoKey
        BY <3>3 DEF PairingTypes, Bond, KeysReal
      <4>2. /\ Len(bonds') = Len(bonds) + 1 /\ Len(bonds) \in Nat
            /\ \A n \in 1 .. Len(bonds) : bonds'[n] = bonds[n]
            /\ bonds'[Len(bonds) + 1].key = flash.key
        BY <3>3, <4>1
      <4> QED
        BY <4>1, <4>2 DEF StoredKeys, KeysReal
    <3>4. flash.kind \in {"write", "erase"}
      BY <1>4 DEF FlashEnds, PairingTypes
    <3> QED
      BY <1>4, <3>1, <3>2, <3>3, <3>4 DEF FlashEnds
  <2> QED
    BY <2>1, <2>2 DEF KeysReal, NoFlash, MayAsk
<1>5. CASE \/ ble_gap_instance_clear \/ ble_gap_delete_bonds \/ Erase
         \/ EraseExpires \/ DeleteReturns
           \/ UNCHANGED vars
  <2>1. /\ UNCHANGED <<bonds, events, pc, due, notify>>
        /\ key_set' = key_set \/ (pc = "idle" /\ ~due)
        /\ flash' = flash \/ flash'.kind = "erase"
    BY <1>5 DEF ble_gap_instance_clear, ble_gap_delete_bonds, Erase, EraseExpires, DeleteReturns, vars, kernel
  <2> QED
    BY <2>1 DEF KeysReal, MayAsk, Done
<1> QED
  BY <1>1, <1>2, <1>3, <1>4, <1>5 DEF Next

----------------------------------------------------------------------------
(* What the scan found is still what the peer asked for when it is given.   *)

ReplyFits ==
    pc = "reply" /\ link =>
        /\ smp = "info"
        /\ ~undercut => \E n \in DOMAIN bonds : bonds[n].uid = i /\ bonds[n].key = peer_key

LEMMA ReplyFitsNext ==
  ASSUME BondInv, RequestInv, KeysReal, ReplyFits, [Next]_vars
  PROVE  ReplyFits'
<1>0. PairingTypes
  BY DEF BondInv
<1>1. CASE Environment
  <2>1. UNCHANGED <<pc, i, bonds, undercut>>
    BY <1>1 DEF Environment, Connect, Disconnect, PeerPairs, PeerEncrypts, PeerRefuses, PairingFails,
       PairingGoesOn, Encrypts, PairingSucceeds, OtherEvent, Raise, softdevice, kernel
  <2>2. pc = "reply" /\ link' => link /\ (smp = "info" => UNCHANGED <<smp, peer_key>>)
    BY <1>1 DEF Environment, Connect, Disconnect, PeerPairs, PeerEncrypts, PeerRefuses, PairingFails,
       PairingGoesOn, Encrypts, PairingSucceeds, OtherEvent, softdevice, Pairs
  <2> QED
    BY <2>1, <2>2 DEF ReplyFits
<1>2. CASE Scan
  <2> SUFFICES ASSUME pc' = "reply", link'
               PROVE  /\ smp' = "info"
                      /\ \E n \in DOMAIN bonds' : bonds'[n].uid = i' /\ bonds'[n].key = peer_key'
    BY DEF ReplyFits
  <2>1. /\ pc = "scan" /\ link /\ Matches(i) /\ UNCHANGED <<smp, peer_key, i, bonds>>
    BY <1>2 DEF Scan, Fails
  <2>2. PICK n \in DOMAIN bonds : bonds[n].uid = i /\ bonds[n].key = evt_buffer
    BY <2>1 DEF Matches
  <2>3. evt_buffer \in StoredKeys
    BY <1>0, <2>2 DEF PairingTypes, StoredKeys
  <2>4. evt_buffer = peer_key /\ evt_buffer # NoKey
    BY <2>1, <2>3 DEF RequestInv, AsksForItsKey, KeysReal
  <2>5. smp = "info"
    BY <2>1, <2>4 DEF RequestInv, AsksInTurn, NoRequest, MayAsk, Done
  <2> QED
    BY <2>1, <2>2, <2>4, <2>5
<1>3. CASE SecurityInit /\ ~Scan
  <2>1. pc' # "reply"
    BY <1>3 DEF SecurityInit, SecurityStart, sd_ble_gap_authenticate, WaitTakes, WaitExpires,
       ParamsReply, nrf_start_dhkey_calculation, StoreBond, nvs_add_data, LookUp, SecInfoReply,
       Return, Goes, Fails, FirstValue, After, Expected
  <2> QED
    BY <2>1 DEF ReplyFits
<1>4. CASE FlashEnds
  <2>1. UNCHANGED <<pc, link, smp, peer_key, i>>
    BY <1>4 DEF FlashEnds, softdevice, kernel
  <2>2. ASSUME pc = "reply", ~undercut'
        PROVE  ~undercut /\ \A n \in DOMAIN bonds : n \in DOMAIN bonds' /\ bonds'[n] = bonds[n]
    <3>1. /\ ~undercut
          /\ bonds' = bonds \/ bonds' = Append(bonds, [uid |-> flash.uid, key |-> flash.key])
      BY <1>0, <1>4, <2>2, CountedApart DEF FlashEnds, Counted, OutlivesWait, PairingTypes
    <3>2. bonds \in Seq(Bond) /\ [uid |-> flash.uid, key |-> flash.key] \in Bond
      BY <1>0 DEF PairingTypes, Bond
    <3> QED
      BY <3>1, <3>2
  <2> QED
    BY <2>1, <2>2 DEF ReplyFits
<1>5. CASE \/ GapEvent \/ ble_gap_instance_clear \/ ble_gap_delete_bonds \/ Erase
           \/ EraseExpires \/ DeleteReturns \/ UNCHANGED vars
  <2>1. /\ UNCHANGED <<pc, link, peer_key, i, bonds, undercut>>
        /\ smp = "info" => smp' = smp
    BY <1>5 DEF GapEvent, ble_gap_instance_clear, ble_gap_delete_bonds, Erase, EraseExpires,
       DeleteReturns, vars, softdevice, kernel
  <2> QED
    BY <2>1 DEF ReplyFits
<1> QED
  BY <1>1, <1>2, <1>3, <1>4, <1>5 DEF Next

----------------------------------------------------------------------------

\* All of it together.
PairingInv == BondInv /\ OkInv /\ InStep /\ KeysKnown /\ RequestInv /\ KeysReal /\ ReplyFits

\* The inductive invariant of ble_gap's pairing and bonding, with a task that
\* deletes the bonds and an erase that may outlive its wait.
THEOREM PairingInvariant == Spec => []PairingInv
<1>1. Init => PairingInv
  <2>1. Init => ReplyFits
    BY DEF Init, ReplyFits
  <2> QED
    BY <2>1, BondInit, OkInit, InStepInit, KeysInit, RequestInit, KeysRealInit DEF PairingInv
<1>2. PairingInv /\ [Next]_vars => PairingInv'
  BY BondNext, OkNext, InStepNext, KeysNext, RequestNext, KeysRealNext, ReplyFitsNext
     DEF PairingInv, KeysKnown
<1> QED
  BY <1>1, <1>2, PTL DEF Spec

\* Only the call of ble_gap_security_init ends a request for a key.
LEMMA ScanStep ==
  ASSUME PairingInv, [Next]_vars, smp = "info"
  PROVE  /\ smp' = "restore" => SecInfoReply /\ link
         /\ smp' = "idle" /\ pc = "scan" /\ pc' = "return" => Scan /\ link
<1>1. link
  BY DEF PairingInv, BondInv, PairingTypes
<1>2. Environment => smp' # "restore" /\ pc' = pc
  BY DEF Environment, Connect, Disconnect, PeerPairs, PeerEncrypts, PeerRefuses, PairingFails,
     PairingGoesOn, Encrypts, PairingSucceeds, OtherEvent, Raise, softdevice, kernel, Pairs
<1>3. \/ GapEvent \/ FlashEnds \/ ble_gap_instance_clear \/ ble_gap_delete_bonds \/ Erase
      \/ EraseExpires \/ DeleteReturns \/ UNCHANGED vars
      => smp' = smp
  BY DEF GapEvent, FlashEnds, ble_gap_instance_clear, ble_gap_delete_bonds, Erase, EraseExpires,
     DeleteReturns, vars, softdevice
<1>4. SecurityInit /\ smp' = "restore" => SecInfoReply
  BY DEF SecurityInit, SecurityStart, sd_ble_gap_authenticate, WaitTakes, WaitExpires,
     ParamsReply, nrf_start_dhkey_calculation, StoreBond, nvs_add_data, LookUp, Scan, Return,
     softdevice
<1>5. SecurityInit /\ smp' = "idle" => Scan
  BY DEF SecurityInit, SecurityStart, sd_ble_gap_authenticate, WaitTakes, WaitExpires,
     ParamsReply, nrf_start_dhkey_calculation, StoreBond, nvs_add_data, LookUp, SecInfoReply,
     Return, softdevice
<1> QED
  BY <1>1, <1>2, <1>3, <1>4, <1>5 DEF Next

\* The key that the call gives to the SoftDevice is the one the peer asked for,
\* although the SoftDevice task's buffer may have been reused meanwhile and a
\* bond be added late; no claim is made once an erase has outlived its wait and
\* ended between a count of the bonds and its use.
THEOREM KeysFitRequests == Spec => KeyFitsRequest
<1>1. ASSUME PairingInv, [Next]_vars, smp = "info", smp' = "restore", ~undercut
      PROVE  \E n \in DOMAIN bonds : bonds[n].uid = i /\ bonds[n].key = peer_key
  <2>1. pc = "reply" /\ link
    BY <1>1, ScanStep DEF SecInfoReply
  <2> QED
    BY <1>1, <2>1 DEF PairingInv, ReplyFits
<1>2. PairingInv /\ [Next]_vars
      => [smp = "info" /\ smp' = "restore" /\ ~undercut
          => \E n \in DOMAIN bonds : bonds[n].uid = i /\ bonds[n].key = peer_key]_vars
  BY <1>1
<1> QED
  BY <1>2, PairingInvariant, PTL DEF Spec, KeyFitsRequest

\* The scan only gives up on a peer whose key was not stored when it began,
\* unless the peer's request was lost from the buffer, the first value taken was
\* one left from an earlier call, or an erase that outlived its wait has ended
\* between a count of the bonds and its use.
THEOREM BondedPeersFound == Spec => BondedPeerFound
<1>1. ASSUME PairingInv, [Next]_vars, smp = "info", smp' = "idle", pc = "scan", pc' = "return",
             RequestRead, ~undercut
      PROVE  \A n \in DOMAIN bonds : n <= total_bond_present => bonds[n].key # peer_key
  <2>1. Scan /\ link
    BY <1>1, ScanStep
  <2>2. "buffer_reused" \notin hist /\ "leftover" \notin hist
    BY <1>1 DEF RequestRead
  <2>3. Asked /\ ble_gap_Evt
    BY <1>1, <2>1, <2>2 DEF PairingInv, RequestInv, RequestKept, Asked, Done
  <2>4. i > total_bond_present
    BY <1>1, <2>1, <2>3 DEF Scan, LastUid
  <2>5. /\ i \in 1 .. total_bond_present + 1
        /\ \A n \in 1 .. i - 1 : bonds[n].key # peer_key
    BY <1>1, <2>2, <2>3 DEF PairingInv, RequestInv, Scanned
  <2>6. total_bond_present \in Nat /\ DOMAIN bonds = 1 .. Len(bonds) /\ Len(bonds) \in Nat
    BY <1>1 DEF PairingInv, BondInv, PairingTypes
  <2> QED
    BY <2>4, <2>5, <2>6
<1>2. PairingInv /\ [Next]_vars
      => [smp = "info" /\ smp' = "idle" /\ pc = "scan" /\ pc' = "return" /\ RequestRead
            /\ ~undercut
          => \A n \in DOMAIN bonds : n <= total_bond_present => bonds[n].key # peer_key]_vars
  BY <1>1
<1> QED
  BY <1>2, PairingInvariant, PTL DEF Spec, BondedPeerFound

==============================================================================
