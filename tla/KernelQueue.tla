----------------------------- MODULE KernelQueue -----------------------------
(***************************************************************************)
(* libs/components/kernel/memory_manager/kernel_queue.c: a double-ended    *)
(* queue in a circular buffer, with a mutex.                               *)
(*                                                                         *)
(* Every call looks at used_size before it takes the mutex, so a call is   *)
(* three steps: the checks, taking the mutex, and what is done under it.   *)
(* Sizes and indices are multiples of size_of_node (kernel_q_create checks *)
(* it) and are counted in nodes; the indices are uint16_t.                 *)
(*                                                                         *)
(* The way it is used is one task that sends and one that receives; the    *)
(* README shows what two senders do.  The tasks are Sender and Reciever.   *)
(***************************************************************************)
EXTENDS Naturals, Sequences

CONSTANTS
    Capacity,               \* total_mem_size / size_of_node
    IndexLimit,             \* 2^16 / size_of_node
    Values, Blank,          \* Blank: a node of zeros
    Foreign,                \* what stands outside the queue's memory
    NoTask, Sender, Reciever

ASSUME KernelQueueAssumption ==
    /\ Capacity \in Nat \ {0}
    /\ IndexLimit \in Nat /\ Capacity < IndexLimit
    /\ Sender # Reciever /\ NoTask \notin {Sender, Reciever}

VARIABLES
    kernel_q_inited, mem, used_size, front_index, back_index,  \* kernel_q_instance
    mutex,                  \* its owner
    pc, call,               \* where each task is, and in which call
    size,                   \* used_size as each task read it under the mutex
    param, index,           \* the parameters
    dest,                   \* what was received last
    hist                    \* what has gone wrong: "below", "given"

queue == <<mem, used_size, front_index, back_index>>
vars == <<kernel_q_inited, queue, mutex, pc, call, size, param, index, dest, hist>>

Tasks == {Sender, Reciever}
Nodes == 0 .. Capacity - 1
Blanks == [n \in Nodes |-> Blank]

Init ==                     \* kernel_q_create
    /\ kernel_q_inited = TRUE
    /\ mem = Blanks /\ used_size = 0 /\ front_index = 0 /\ back_index = 0
    /\ mutex = NoTask
    /\ pc = [t \in Tasks |-> "idle"] /\ call = [t \in Tasks |-> "none"]
    /\ size = [t \in Tasks |-> 0]
    /\ param = Blank /\ index = 0 /\ dest = Blank
    /\ hist = {}

----------------------------------------------------------------------------
(* Where an element is.                                                     *)

FrontNodes == Capacity - front_index    \* ff_index

\* The node of the i-th element.
kernel_q_get_Data_ptr(i) ==
    IF front_index >= back_index /\ i > FrontNodes
    THEN i - FrontNodes - 1
    ELSE front_index + i - 1

\* Nodes that are not the queue's are read, and written, all the same.
At(n) == IF n \in Nodes THEN mem[n] ELSE Foreign
Put(n, v) == IF n \in Nodes THEN [mem EXCEPT ![n] = v] ELSE mem

----------------------------------------------------------------------------
(* The checks, and the mutex.                                               *)

Room == used_size # Capacity
Checks(t, c) ==
    /\ kernel_q_inited /\ pc[t] = "idle"
    /\ pc' = [pc EXCEPT ![t] = "take"] /\ call' = [call EXCEPT ![t] = c]
    /\ UNCHANGED <<kernel_q_inited, queue, mutex, size, dest, hist>>

CheckSend(c, v) == Checks(Sender, c) /\ Room /\ param' = v /\ UNCHANGED index
CheckRecieve(c) == Checks(Reciever, c) /\ used_size # 0 /\ UNCHANGED <<param, index>>
CheckIndex(c, i) ==
    /\ Checks(Reciever, c)
    /\ used_size # 0 /\ 1 <= i /\ i <= used_size
    /\ index' = i
    /\ UNCHANGED param

TakeMutex(t) ==
    /\ pc[t] = "take" /\ mutex = NoTask
    /\ mutex' = t /\ pc' = [pc EXCEPT ![t] = "inside"]
    /\ size' = [size EXCEPT ![t] = used_size]
    /\ UNCHANGED <<kernel_q_inited, queue, call, param, index, dest, hist>>

MutexTimeout(t) ==
    /\ pc[t] = "take" /\ mutex # NoTask
    /\ pc' = [pc EXCEPT ![t] = "idle"] /\ call' = [call EXCEPT ![t] = "none"]
    /\ UNCHANGED <<kernel_q_inited, queue, mutex, size, param, index, dest, hist>>

----------------------------------------------------------------------------
(* Under the mutex.                                                         *)

Inside(t, c) == pc[t] = "inside" /\ call[t] = c

\* Gives the mutex, and returns.
Does(t, c) ==
    /\ Inside(t, c)
    /\ mutex' = NoTask
    /\ pc' = [pc EXCEPT ![t] = "idle"] /\ call' = [call EXCEPT ![t] = "none"]
    /\ size' = [size EXCEPT ![t] = 0]
    /\ UNCHANGED <<kernel_q_inited, param, index>>

kernel_q_send_to_back ==
    /\ Does(Sender, "send_to_back")
    /\ LET back == IF back_index = Capacity THEN 0 ELSE back_index
       IN  mem' = Put(back, param) /\ back_index' = (back + 1) % IndexLimit
    /\ used_size' = size[Sender] + 1
    /\ UNCHANGED <<front_index, dest, hist>>

kernel_q_send_to_front ==
    /\ Does(Sender, "send_to_front")
    /\ front_index' = (IF front_index = 0 THEN Capacity ELSE front_index) - 1
    /\ mem' = [mem EXCEPT ![front_index'] = param]
    /\ used_size' = size[Sender] + 1
    /\ UNCHANGED <<back_index, dest, hist>>

NextFront_NoWrap == front_index + 1                 \* mutant
NextFront == IF front_index + 1 = Capacity THEN 0 ELSE front_index + 1

kernel_q_recieve_from_front ==
    /\ Does(Reciever, "recieve_from_front")
    /\ dest' = mem[front_index]
    /\ front_index' = NextFront
    /\ used_size' = size[Reciever] - 1
    /\ UNCHANGED <<mem, back_index, hist>>

\* The node before the back: until something is sent to the back it is below
\* zero, where a uint16_t has none.
BelowBack == (back_index + IndexLimit - 1) % IndexLimit
Lowered == IF BelowBack = 0 THEN Capacity ELSE BelowBack
Below == IF back_index = 0 THEN hist \cup {"below"} ELSE hist

kernel_q_recieve_from_back ==
    /\ Does(Reciever, "recieve_from_back")
    /\ dest' = At(BelowBack)
    /\ back_index' = Lowered
    /\ used_size' = size[Reciever] - 1
    /\ hist' = Below
    /\ UNCHANGED <<mem, front_index>>

\* Nodes first + 1 .. last move down by one.
Shifted(m, first, last) ==
    [n \in Nodes |-> IF first <= n /\ n < last
                      THEN (IF n + 1 \in Nodes THEN m[n + 1] ELSE Foreign)
                      ELSE m[n]]

Removed_NoCarry(i) ==                               \* mutant
    IF front_index >= back_index
    THEN IF i <= FrontNodes
         THEN Shifted(Shifted(mem, front_index + i - 1, Capacity - 1), 0, back_index - 1)
         ELSE Shifted(mem, i - 1 - FrontNodes, back_index - 1)
    ELSE Shifted(mem, front_index + i - 1, front_index + size[Reciever] - 1)
Removed(i) ==
    IF front_index >= back_index
    THEN IF i <= FrontNodes
         THEN Shifted([Shifted(mem, front_index + i - 1, Capacity - 1)
                          EXCEPT ![Capacity - 1] = mem[0]],
                      0, back_index - 1)
         ELSE Shifted(mem, i - 1 - FrontNodes, back_index - 1)
    ELSE Shifted(mem, front_index + i - 1, front_index + size[Reciever] - 1)

\* The number of nodes to move is below zero: a length of nearly 2^16 or 2^32 bytes.
Endless(i) ==
    /\ front_index >= back_index
    /\ back_index < (IF i <= FrontNodes THEN 1 ELSE i - FrontNodes)

kernel_q_remove_index ==
    /\ ~Endless(index)
    /\ Does(Reciever, "remove_index")
    /\ mem' = Removed(index)
    /\ back_index' = Lowered
    /\ used_size' = size[Reciever] - 1
    /\ hist' = Below
    /\ UNCHANGED <<front_index, dest>>

\* memcpy runs out of the memory, into a fault.
RemoveFault ==
    /\ Inside(Reciever, "remove_index") /\ Endless(index)
    /\ pc' = [pc EXCEPT ![Reciever] = "fault"]
    /\ hist' = Below
    /\ UNCHANGED <<kernel_q_inited, queue, mutex, call, size, param, index, dest>>

\* The data is chosen by the caller; it does not have to be kept from the check.
kernel_q_modify_data_at_index(v) ==
    /\ Does(Reciever, "modify_data_at_index")
    /\ mem' = Put(kernel_q_get_Data_ptr(index), v)
    /\ UNCHANGED <<used_size, front_index, back_index, dest, hist>>

----------------------------------------------------------------------------
\* By a task outside of any call, at any moment; used_size and the indices
\* stay.  It gives a mutex it has not taken: nothing happens when nobody has
\* it, otherwise it is free while its owner goes on.
kernel_q_reset ==
    /\ kernel_q_inited
    /\ mem' = Blanks
    /\ mutex' = NoTask
    /\ hist' = IF mutex = NoTask THEN hist ELSE hist \cup {"given"}
    /\ UNCHANGED <<kernel_q_inited, used_size, front_index, back_index, pc, call, size,
                   param, index, dest>>

\* A queue is deleted, and created again, when nobody uses it.
kernel_q_delete ==
    /\ kernel_q_inited /\ \A t \in Tasks : pc[t] = "idle"
    /\ kernel_q_inited' = FALSE
    /\ mem' = Blanks
    /\ UNCHANGED <<used_size, front_index, back_index, mutex, pc, call, size, param, index,
                   dest, hist>>

kernel_q_create ==
    /\ ~kernel_q_inited
    /\ kernel_q_inited' = TRUE
    /\ mem' = Blanks /\ used_size' = 0 /\ front_index' = 0 /\ back_index' = 0
    /\ mutex' = NoTask
    /\ hist' = {}
    /\ UNCHANGED <<pc, call, size, param, index, dest>>

----------------------------------------------------------------------------
Send ==
    \/ \E c \in {"send_to_back", "send_to_front"}, v \in Values : CheckSend(c, v)
    \/ kernel_q_send_to_back
    \/ kernel_q_send_to_front

Recieve ==
    \/ CheckRecieve("recieve_from_front")
    \/ CheckRecieve("recieve_from_back")
    \/ \E i \in 1 .. Capacity : \/ CheckIndex("remove_index", i)
                                \/ CheckIndex("modify_data_at_index", i)
    \/ kernel_q_recieve_from_front
    \/ kernel_q_recieve_from_back
    \/ kernel_q_remove_index
    \/ RemoveFault
    \/ \E v \in Values : kernel_q_modify_data_at_index(v)

Next ==
    \/ Send
    \/ Recieve
    \/ \E t \in Tasks : TakeMutex(t) \/ MutexTimeout(t)
    \/ kernel_q_reset
    \/ kernel_q_delete
    \/ kernel_q_create

Spec == Init /\ [][Next]_vars
----------------------------------------------------------------------------
(* The properties.                                                          *)

\* The elements, each where kernel_q_get_Data_ptr finds it; a queue that is not
\* initialised has none.
q == IF kernel_q_inited THEN [i \in 1 .. used_size |-> mem[kernel_q_get_Data_ptr(i)]] ELSE <<>>
D == INSTANCE Deque

\* While one task sends and one receives, the queue is the bounded double-ended
\* queue that kernel_queue.h describes, through every wrap, although the checks
\* are made before the mutex is taken: nothing is lost, doubled or reordered,
\* an element that leaves is the one at its end, a full queue is not overrun.
\* It stops to be one, until it is created again, when a call lowers the back
\* before anything was sent to it or a reset gives a mutex another task holds.
DequeUntilBroken == D!Init /\ [][hist' = {} => D!Next]_<<q, dest>>

\* The number of nodes from the front to the back is the number used, and no
\* index leaves the memory.
CountersMatch ==
    /\ front_index < Capacity /\ back_index <= Capacity /\ used_size <= Capacity
    /\ \/ front_index + used_size \in {back_index, back_index + Capacity}
       \/ used_size = 0 /\ front_index = 0 /\ back_index = Capacity

\* The three counters agree until then, wherever two calls meet.
CountersAgree == hist = {} => CountersMatch

=============================================================================
