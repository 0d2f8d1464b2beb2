------------------------------ MODULE KVStore ------------------------------
(***************************************************************************)
(* What nvs.h promises: a map from uids to payloads in which a uid is      *)
(* added when it is absent, deleted or modified when it is present, each   *)
(* in one step and without touching any other uid, or everything is erased; *)
(* and what the calls that return tell of it.                              *)
(*                                                                         *)
(* One promise is weaker than the header's: a delete or modify may leave   *)
(* the other uids out of sight until it has written them back.             *)
(***************************************************************************)
EXTENDS Naturals

CONSTANTS Uid, Val, NoVal, Task

VARIABLES
    store,
    rewriting,              \* the stored uids are out of sight
    answer                  \* of each task: its last call, and what it returned

vars == <<store, rewriting, answer>>

Init ==
    /\ store \in [Uid -> Val \cup {NoVal}]
    /\ rewriting = FALSE
    /\ \A t \in Task : answer[t].err = "none"

Add(u) ==
    /\ ~rewriting /\ store[u] = NoVal
    /\ \E v \in Val : store' = [store EXCEPT ![u] = v]
    /\ UNCHANGED <<rewriting, answer>>

Delete(u) ==
    /\ ~rewriting /\ store[u] # NoVal
    /\ store' = [store EXCEPT ![u] = NoVal]
    /\ rewriting' \in BOOLEAN
    /\ UNCHANGED answer

Modify(u) ==
    /\ ~rewriting /\ store[u] # NoVal
    /\ \E v \in Val : store' = [store EXCEPT ![u] = v]
    /\ rewriting' \in BOOLEAN
    /\ UNCHANGED answer

Erase ==
    /\ ~rewriting
    /\ store' = [u \in Uid |-> NoVal]
    /\ UNCHANGED <<rewriting, answer>>

WriteBack == rewriting /\ rewriting' = FALSE /\ UNCHANGED <<store, answer>>

\* What a call that succeeded has done, or read.
Done(a) ==
    CASE a.call.op \in {"add", "modify"} -> store[a.call.uid] = a.call.val
      [] a.call.op = "read" -> a.data = store[a.call.uid]
      [] a.call.op = "delete" -> store[a.call.uid] = NoVal
      [] OTHER -> \A u \in Uid : store[u] = NoVal

\* What an answer says of the store.
IsTrue(a) ==
    /\ a.err = "nrf_OK" => Done(a)
    /\ a.err = "NVS_ERR_UID_ABSENT" => store[a.call.uid] = NoVal \/ rewriting
    /\ a.err \in {"NVS_ERR_UID_ALRDY_PRESENT", "pointer"} => store[a.call.uid] # NoVal

\* A task calls, or is answered.
Answer(t) ==
    /\ answer' = [answer EXCEPT ![t] = answer'[t]]
    /\ IsTrue(answer'[t])
    /\ UNCHANGED <<store, rewriting>>

Next ==
    \/ \E u \in Uid : Add(u) \/ Delete(u) \/ Modify(u)
    \/ Erase \/ WriteBack
    \/ \E t \in Task : Answer(t)

Spec == Init /\ [][Next]_vars

============================================================================
