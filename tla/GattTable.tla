----------------------------- MODULE GattTable -----------------------------
(***************************************************************************)
(* client_struct, the table of GATT clients kept by                        *)
(* src/src/libs/components/ble/ble_gatt_client/ble_gatt_client.c: one      *)
(* entry per supported connection, free while its conn_handle is           *)
(* BLE_CONN_HANDLE_INVALID.  Every function of the client searches it for  *)
(* the first entry that carries the caller's connection handle.            *)
(***************************************************************************)
EXTENDS Naturals, Sequences, SequencesExt

CONSTANTS
    Handle,     \* connection handles the SoftDevice hands out
    NoHandle,   \* BLE_CONN_HANDLE_INVALID
    Clients     \* BLE_NO_OF_CLIENT_SUPPORTED

ASSUME TableAssumption ==
    /\ NoHandle \notin Handle
    /\ Clients \in Nat \ {0}

Client == [conn_handle : Handle \cup {NoHandle}, client_inited : BOOLEAN]
Table == [1 .. Clients -> Client]

FreeClient == [conn_handle |-> NoHandle, client_inited |-> FALSE]
EmptyTable == [i \in 1 .. Clients |-> FreeClient]

\* Index of the first entry with conn_handle = h, 0 when there is none.
Find(table, h) == SelectInSeq(table, LAMBDA c : c.conn_handle = h)

\* What a search for h ends in.
Known(table, h) == Find(table, h) # 0
Inited(table, h) == Known(table, h) /\ table[Find(table, h)].client_inited

\* gatt_client_init takes the first free entry, gatt_client_deinit frees the
\* entry of h.
Occupied(table, h) ==
    [table EXCEPT ![Find(table, NoHandle)] = [conn_handle |-> h, client_inited |-> TRUE]]
Freed_KeepsHandle(table, h) ==      \* mutant
    [table EXCEPT ![Find(table, h)].client_inited = FALSE]
Freed(table, h) == [table EXCEPT ![Find(table, h)] = FreeClient]

============================================================================
