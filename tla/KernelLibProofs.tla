--------------------------- MODULE KernelLibProofs ---------------------------
(***************************************************************************)
(* Theorems about two libraries of the kernel: the queue, for every        *)
(* capacity and every set of values, and the calendar, for every limit of  *)
(* the time of day and every date it may start at.                         *)
(***************************************************************************)
EXTENDS KernelQueue, KernelTime, SequenceTheorems, TLAPS

(***************************************************************************)
(* KernelQueue: its counters agree, and it implements the double-ended     *)
(* queue of Deque.                                                         *)
(***************************************************************************)
Contents == Values \cup {Blank}

QueueTypes ==
    /\ kernel_q_inited \in BOOLEAN
    /\ mem \in [Nodes -> Contents]
    /\ used_size \in Nat /\ front_index \in Nat /\ back_index \in Nat
    /\ index \in Nat

\* A task is in a call of a queue that exists, or in none.
TaskTypes ==
    /\ pc \in [Tasks -> {"idle", "take", "inside", "fault"}]
    /\ call \in [Tasks -> {"none", "send_to_back", "send_to_front", "recieve_from_front",
                           "recieve_from_back", "remove_index", "modify_data_at_index"}]
    /\ size = [t \in Tasks |-> size[t]]
    /\ index \in Nat
    /\ \A t \in Tasks : pc[t] = "idle" <=> call[t] = "none"
    /\ \A t \in Tasks : pc[t] # "idle" => kernel_q_inited

\* What was checked before the mutex was taken still holds: the other task only
\* moves the counters the other way.
ChecksHold ==
    /\ call[Sender] \in {"none", "send_to_back", "send_to_front"}
    /\ call[Sender] # "none" => used_size < Capacity /\ param \in Values
    /\ call[Reciever] \notin {"send_to_back", "send_to_front"}
    /\ call[Reciever] # "none" => 0 < used_size
    /\ call[Reciever] \in {"remove_index", "modify_data_at_index"} => index \in 1 .. used_size

\* Who is past the mutex has it, and its used_size is the queue's.
MutexHeld ==
    /\ mutex \in Tasks \cup {NoTask}
    /\ \A t \in Tasks : pc[t] = "inside" => mutex = t /\ size[t] = used_size

QueueInv == QueueTypes /\ CountersMatch /\ ChecksHold /\ MutexHeld

\* What a call finds under the mutex, and how it leaves.
LEMMA DoesIs ==
  ASSUME TaskTypes, QueueInv, NEW t \in Tasks, NEW c, Does(t, c)
  PROVE  /\ kernel_q_inited /\ kernel_q_inited' /\ call[t] = c /\ size[t] = used_size
         /\ call' = [call EXCEPT ![t] = "none"]
         /\ param' = param /\ index' = index
         /\ MutexHeld'
  BY KernelQueueAssumption DEF TaskTypes, QueueInv, MutexHeld, Does, Inside, Tasks

\* Indices that stay within the memory are not cut off.
LEMMA IndexIs ==
  ASSUME NEW n \in 0 .. Capacity
  PROVE  /\ n < Capacity => (n + 1) % IndexLimit = n + 1
         /\ 0 < n => (n + IndexLimit - 1) % IndexLimit = n - 1
<1>1. IndexLimit \in Nat \ {0} /\ Capacity \in Nat /\ Capacity < IndexLimit /\ n \in Nat
  BY KernelQueueAssumption
<1>2. \A m \in Nat : m < IndexLimit => m % IndexLimit = m
  BY <1>1
<1>3. \A m \in Nat : IndexLimit <= m /\ m < IndexLimit + IndexLimit => m % IndexLimit = m - IndexLimit
  BY <1>1
<1>4. ASSUME 0 < n PROVE (n + IndexLimit - 1) % IndexLimit = n - 1
  <2>1. PICK m : m = n + IndexLimit - 1
    OBVIOUS
  <2>2. m \in Nat /\ IndexLimit <= m /\ m < IndexLimit + IndexLimit
    BY <1>1, <1>4, <2>1
  <2> QED
    BY <1>1, <1>3, <2>1, <2>2
<1> QED
  BY <1>1, <1>2, <1>4

----------------------------------------------------------------------------
(* The elements.                                                            *)

Wrap(n) == IF n < Capacity THEN n ELSE n - Capacity

\* kernel_q_get_Data_ptr finds the elements one after another from the front.
LEMMA PtrWraps ==
  ASSUME QueueTypes, CountersMatch, NEW i \in 1 .. used_size
  PROVE  /\ kernel_q_get_Data_ptr(i) = Wrap(front_index + i - 1)
         /\ kernel_q_get_Data_ptr(i) \in Nodes
BY KernelQueueAssumption DEF QueueTypes, CountersMatch, kernel_q_get_Data_ptr, FrontNodes, Wrap, Nodes

\* The elements, counted from the front, lie one after another and go round.
ElementsLie ==
    QueueTypes /\ CountersMatch /\ kernel_q_inited =>
        /\ q \in Seq(Contents)
        /\ Len(q) = used_size
        /\ \A i \in 1 .. used_size : q[i] = mem[Wrap(front_index + i - 1)]

LEMMA Elements == ElementsLie
<1> SUFFICES ASSUME QueueTypes, CountersMatch, kernel_q_inited
             PROVE  /\ q \in Seq(Contents)
                    /\ Len(q) = used_size
                    /\ \A i \in 1 .. used_size : q[i] = mem[Wrap(front_index + i - 1)]
  BY DEF ElementsLie
<1>1. \A i \in 1 .. used_size : mem[kernel_q_get_Data_ptr(i)] \in Contents
  BY PtrWraps DEF QueueTypes
<1>2. q = [i \in 1 .. used_size |-> mem[kernel_q_get_Data_ptr(i)]]
  BY DEF q
<1>3. used_size \in Nat
  BY DEF QueueTypes
<1>4. q \in Seq(Contents) /\ Len(q) = used_size
  BY <1>1, <1>2, <1>3
<1>5. \A i \in 1 .. used_size : q[i] = mem[Wrap(front_index + i - 1)]
  BY <1>2, PtrWraps
<1> QED
  BY <1>4, <1>5

LEMMA ElementsNext == ElementsLie'
BY Elements, PTL

----------------------------------------------------------------------------
(* Each call.                                                               *)

LEMMA SendToBackIs ==
  ASSUME TaskTypes, QueueInv, kernel_q_send_to_back
  PROVE  QueueInv' /\ D!SendToBack(param) /\ param \in Values
<1> USE KernelQueueAssumption DEF kernel_q_send_to_back, QueueInv
<1>1. /\ kernel_q_inited /\ kernel_q_inited' /\ used_size < Capacity /\ param \in Values
      /\ call[Sender] = "send_to_back" /\ call' = [call EXCEPT ![Sender] = "none"]
      /\ used_size' = used_size + 1 /\ index' = index /\ param' = param /\ MutexHeld'
  BY DoesIs DEF ChecksHold, Tasks
<1> DEFINE back == IF back_index = Capacity THEN 0 ELSE back_index
<1>2. back = Wrap(front_index + used_size) /\ back \in Nodes
  BY <1>1 DEF QueueTypes, CountersMatch, Wrap, Nodes
<1>3. mem' = [mem EXCEPT ![back] = param] /\ back_index' = back + 1
  <2> HIDE DEF back
  <2>1. back \in 0 .. Capacity /\ back < Capacity
    BY <1>2 DEF Nodes
  <2>2. back + 1 = (back + 1) % IndexLimit
    BY <2>1, IndexIs
  <2> QED
    BY <1>2, <2>2 DEF Put, back
<1>4. QueueTypes'
  BY <1>1, <1>2, <1>3 DEF QueueTypes, Contents, Nodes, Tasks
<1>5. CountersMatch'
  BY <1>1, <1>2, <1>3, SMTT(30) DEF QueueTypes, CountersMatch, Nodes, Wrap
<1>6. ChecksHold'
  BY <1>1, <1>3 DEF QueueTypes, ChecksHold, TaskTypes, Tasks, Nodes
<1>7. \A i \in 1 .. used_size : mem'[Wrap(front_index + i - 1)] = mem[Wrap(front_index + i - 1)]
  BY <1>1, <1>2, <1>3 DEF QueueTypes, CountersMatch, Wrap, Nodes
<1>8. mem'[Wrap(front_index + used_size)] = param
  BY <1>2, <1>3 DEF QueueTypes
<1>9. q' = Append(q, param)
  <2>1. /\ q \in Seq(Contents) /\ Len(q) = used_size
        /\ \A i \in 1 .. used_size : q[i] = mem[Wrap(front_index + i - 1)]
    BY <1>1, Elements DEF ElementsLie
  <2>2. /\ q' \in Seq(Contents) /\ Len(q') = used_size + 1
        /\ \A i \in 1 .. used_size + 1 : q'[i] = mem'[Wrap(front_index + i - 1)]
    BY <1>1, <1>4, <1>5, ElementsNext DEF ElementsLie
  <2>3. used_size \in Nat /\ front_index \in Nat /\ param \in Contents
    BY <1>1 DEF QueueTypes, Contents
  <2>4. /\ Append(q, param) \in Seq(Contents) /\ Len(Append(q, param)) = used_size + 1
        /\ \A i \in 1 .. used_size + 1 :
              Append(q, param)[i] = IF i <= used_size THEN q[i] ELSE param
    BY <2>1, <2>3, AppendProperties
  <2>5. ASSUME NEW i \in 1 .. used_size + 1 PROVE q'[i] = Append(q, param)[i]
    <3>1. i \in 1 .. used_size \/ i = used_size + 1
      BY <2>3
    <3>2. CASE i \in 1 .. used_size
      <4>1. i <= used_size /\ q'[i] = mem'[Wrap(front_index + i - 1)]
        BY <2>2, <2>3, <3>2
      <4>2. Append(q, param)[i] = mem[Wrap(front_index + i - 1)]
        BY <2>1, <2>4, <3>2, <4>1
      <4> QED
        BY <1>7, <3>2, <4>1, <4>2
    <3>3. CASE i = used_size + 1
      <4>1. front_index + i - 1 = front_index + used_size /\ ~(i <= used_size)
        BY <2>3, <3>3
      <4> QED
        BY <2>2, <2>4, <1>8, <4>1
    <3> QED
      BY <3>1, <3>2, <3>3
  <2> QED
    BY <2>2, <2>4, <2>5, SeqEqual
<1>10. Len(q) < Capacity /\ dest' = dest
  BY <1>1, Elements DEF ElementsLie
<1> QED
  BY <1>1, <1>4, <1>5, <1>6, <1>9, <1>10 DEF D!SendToBack

LEMMA SendToFrontIs ==
  ASSUME TaskTypes, QueueInv, kernel_q_send_to_front
  PROVE  QueueInv' /\ D!SendToFront(param) /\ param \in Values
<1> USE KernelQueueAssumption DEF kernel_q_send_to_front, QueueInv
<1>1. /\ kernel_q_inited /\ kernel_q_inited' /\ used_size < Capacity /\ param \in Values
      /\ call[Sender] = "send_to_front" /\ call' = [call EXCEPT ![Sender] = "none"]
      /\ used_size' = used_size + 1 /\ index' = index /\ param' = param /\ MutexHeld'
  BY DoesIs DEF ChecksHold, Tasks
<1>2. front_index' \in Nodes /\ Wrap(front_index' + 1) = front_index
  BY <1>1 DEF QueueTypes, CountersMatch, Wrap, Nodes
<1>3. mem' = [mem EXCEPT ![front_index'] = param]
  OBVIOUS
<1>4. QueueTypes'
  BY <1>1, <1>2, <1>3 DEF QueueTypes, Contents, Nodes, Tasks
<1>5. CountersMatch'
  <2>1. back_index' = back_index /\ front_index \in Nat /\ back_index \in Nat
        /\ used_size \in Nat
    BY DEF QueueTypes
  <2>2. /\ front_index < Capacity /\ back_index <= Capacity
        /\ \/ front_index + used_size \in {back_index, back_index + Capacity}
           \/ used_size = 0 /\ front_index = 0 /\ back_index = Capacity
    BY DEF CountersMatch
  <2>3. front_index' = IF front_index = 0 THEN Capacity - 1 ELSE front_index - 1
    BY <2>1
  <2> HIDE DEF kernel_q_send_to_front, QueueInv
  <2>4. /\ front_index' < Capacity
        /\ front_index' + (used_size + 1) \in {back_index, back_index + Capacity}
    BY <1>1, <2>1, <2>2, <2>3
  <2> QED
    BY <1>1, <2>1, <2>2, <2>4 DEF CountersMatch
<1>6. ChecksHold'
  BY <1>1 DEF QueueTypes, ChecksHold, TaskTypes, Tasks
<1>7. \A i \in 2 .. used_size + 1 :
          mem'[Wrap(front_index' + i - 1)] = mem[Wrap(front_index + (i - 1) - 1)]
  BY <1>1, <1>2, <1>3 DEF QueueTypes, CountersMatch, Wrap, Nodes
<1>8. mem'[Wrap(front_index' + 1 - 1)] = param
  BY <1>2, <1>3 DEF QueueTypes, Wrap, Nodes
<1>9. q' = <<param>> \o q
  <2>1. /\ q \in Seq(Contents) /\ Len(q) = used_size
        /\ \A i \in 1 .. used_size : q[i] = mem[Wrap(front_index + i - 1)]
    BY <1>1, Elements DEF ElementsLie
  <2>2. /\ q' \in Seq(Contents) /\ Len(q') = used_size + 1
        /\ \A i \in 1 .. used_size + 1 : q'[i] = mem'[Wrap(front_index' + i - 1)]
    BY <1>1, <1>4, <1>5, ElementsNext DEF ElementsLie
  <2>3. used_size \in Nat /\ <<param>> \in Seq(Contents) /\ Len(<<param>>) = 1
    BY <1>1 DEF QueueTypes, Contents
  <2>4. /\ <<param>> \o q \in Seq(Contents) /\ Len(<<param>> \o q) = 1 + used_size
        /\ \A i \in 1 .. 1 + used_size :
              (<<param>> \o q)[i] = IF i <= 1 THEN <<param>>[i] ELSE q[i - 1]
    BY <2>1, <2>3, ConcatProperties
  <2>5. q'[1] = param /\ (<<param>> \o q)[1] = param
    BY <2>2, <2>3, <2>4, <1>8
  <2>6. ASSUME NEW i \in 2 .. used_size + 1 PROVE q'[i] = (<<param>> \o q)[i]
    <3>1. i - 1 \in 1 .. used_size /\ i \in 1 .. used_size + 1 /\ i \in 1 .. 1 + used_size
          /\ ~(i <= 1)
      BY <2>3
    <3>2. q'[i] = mem'[Wrap(front_index' + i - 1)]
      BY <2>2, <3>1
    <3>3. q[i - 1] = mem[Wrap(front_index + (i - 1) - 1)]
      BY <2>1, <3>1
    <3>4. (<<param>> \o q)[i] = q[i - 1]
      BY <2>4, <3>1
    <3> QED
      BY <3>2, <3>3, <3>4, <1>7
  <2>7. ASSUME NEW i \in 1 .. used_size + 1 PROVE q'[i] = (<<param>> \o q)[i]
    <3>1. i = 1 \/ i \in 2 .. used_size + 1
      BY <2>3
    <3> QED
      BY <3>1, <2>5, <2>6
  <2>8. Len(q') = Len(<<param>> \o q)
    BY <2>2, <2>3, <2>4
  <2> QED
    BY <2>2, <2>4, <2>7, <2>8, SeqEqual
<1>10. Len(q) < Capacity /\ dest' = dest
  BY <1>1, Elements DEF ElementsLie
<1> QED
  BY <1>1, <1>4, <1>5, <1>6, <1>9, <1>10 DEF D!SendToFront

LEMMA RecieveFromFrontIs ==
  ASSUME TaskTypes, QueueInv, kernel_q_recieve_from_front
  PROVE  QueueInv' /\ D!RecieveFromFront
<1> USE KernelQueueAssumption DEF kernel_q_recieve_from_front, QueueInv
<1>1. /\ kernel_q_inited /\ kernel_q_inited' /\ 0 < used_size /\ mem' = mem
      /\ call[Reciever] = "recieve_from_front" /\ call' = [call EXCEPT ![Reciever] = "none"]
      /\ used_size' = used_size - 1 /\ index' = index /\ param' = param /\ MutexHeld'
  BY DoesIs DEF ChecksHold, Tasks
<1>2. front_index' = Wrap(front_index + 1) /\ front_index' \in Nodes
  BY DEF QueueTypes, CountersMatch, Wrap, Nodes, NextFront
<1>4. QueueTypes'
  BY <1>1, <1>2 DEF QueueTypes, Nodes, Tasks
<1>5. CountersMatch'
  <2>1. back_index' = back_index /\ front_index < Capacity
    BY DEF CountersMatch
  <2> HIDE DEF kernel_q_recieve_from_front
  <2> QED
    BY <1>1, <1>2, <2>1 DEF QueueTypes, CountersMatch, Nodes, Wrap
<1>6. ChecksHold'
  BY <1>1 DEF QueueTypes, ChecksHold, TaskTypes, Tasks
<1>7. \A i \in 1 .. used_size - 1 : Wrap(front_index' + i - 1) = Wrap(front_index + (i + 1) - 1)
  BY <1>1, <1>2 DEF QueueTypes, CountersMatch, Wrap
<1>8. Wrap(front_index + 1 - 1) = front_index
  BY DEF QueueTypes, CountersMatch, Wrap
<1>9. q # <<>> /\ q' = Tail(q) /\ dest' = Head(q)
  <2>1. /\ q \in Seq(Contents) /\ Len(q) = used_size
        /\ \A i \in 1 .. used_size : q[i] = mem[Wrap(front_index + i - 1)]
    BY <1>1, Elements DEF ElementsLie
  <2>2. /\ q' \in Seq(Contents) /\ Len(q') = used_size - 1
        /\ \A i \in 1 .. used_size - 1 : q'[i] = mem[Wrap(front_index' + i - 1)]
    BY <1>1, <1>4, <1>5, ElementsNext DEF ElementsLie
  <2>3. used_size \in Nat /\ q # <<>>
    BY <1>1, <2>1 DEF QueueTypes
  <2>4. /\ Tail(q) \in Seq(Contents) /\ Len(Tail(q)) = used_size - 1
        /\ \A i \in 1 .. used_size - 1 : Tail(q)[i] = q[i + 1]
    BY <2>1, <2>3, HeadTailProperties
  <2>5. ASSUME NEW i \in 1 .. used_size - 1 PROVE q'[i] = Tail(q)[i]
    <3>1. i + 1 \in 1 .. used_size
      BY <2>3
    <3>2. q'[i] = mem[Wrap(front_index' + i - 1)]
      BY <2>2
    <3>3. q[i + 1] = mem[Wrap(front_index + (i + 1) - 1)]
      BY <2>1, <3>1
    <3> QED
      BY <2>4, <3>2, <3>3, <1>7
  <2>6. Head(q) = mem[front_index]
    BY <1>1, <1>8, <2>1, <2>3
  <2> QED
    BY <2>2, <2>3, <2>4, <2>5, <2>6, SeqEqual
<1> QED
  BY <1>1, <1>4, <1>5, <1>6, <1>9 DEF D!RecieveFromFront

LEMMA LoweredIs ==
  ASSUME QueueTypes, CountersMatch, 0 < back_index, 0 < used_size
  PROVE  /\ Lowered \in Nat /\ 0 < Lowered /\ Lowered <= Capacity
         /\ BelowBack = back_index - 1 /\ BelowBack \in Nodes
         /\ BelowBack = Wrap(front_index + used_size - 1)
         /\ \/ front_index + (used_size - 1) \in {Lowered, Lowered + Capacity}
            \/ used_size - 1 = 0 /\ front_index = 0 /\ Lowered = Capacity
<1>1. BelowBack = back_index - 1
  BY IndexIs, KernelQueueAssumption DEF BelowBack, QueueTypes, CountersMatch
<1> QED
  BY <1>1, KernelQueueAssumption DEF QueueTypes, CountersMatch, Lowered, Wrap, Nodes

LEMMA RecieveFromBackIs ==
  ASSUME TaskTypes, QueueInv, hist' = {}, kernel_q_recieve_from_back
  PROVE  QueueInv' /\ D!RecieveFromBack
<1> USE KernelQueueAssumption DEF kernel_q_recieve_from_back, QueueInv
<1>1. /\ kernel_q_inited /\ kernel_q_inited' /\ 0 < used_size /\ 0 < back_index /\ mem' = mem
      /\ call[Reciever] = "recieve_from_back" /\ call' = [call EXCEPT ![Reciever] = "none"]
      /\ used_size' = used_size - 1 /\ index' = index /\ param' = param /\ MutexHeld'
  BY DoesIs DEF ChecksHold, Tasks, Below, QueueTypes
<1>4. QueueTypes'
  BY <1>1, LoweredIs DEF QueueTypes, Tasks
<1>5. CountersMatch'
  <2>1. /\ Lowered \in Nat /\ Lowered <= Capacity
        /\ \/ front_index + (used_size - 1) \in {Lowered, Lowered + Capacity}
           \/ used_size - 1 = 0 /\ front_index = 0 /\ Lowered = Capacity
    BY <1>1, LoweredIs
  <2>2. back_index' = Lowered /\ front_index' = front_index
    OBVIOUS
  <2> HIDE DEF QueueInv, kernel_q_recieve_from_back
  <2> QED
    BY <1>1, <2>1, <2>2 DEF QueueInv, QueueTypes, CountersMatch
<1>6. ChecksHold'
  BY <1>1 DEF QueueTypes, ChecksHold, TaskTypes, Tasks
<1>9. q # <<>> /\ q' = SubSeq(q, 1, Len(q) - 1) /\ dest' = q[Len(q)]
  <2>1. /\ q \in Seq(Contents) /\ Len(q) = used_size
        /\ \A i \in 1 .. used_size : q[i] = mem[Wrap(front_index + i - 1)]
    BY <1>1, Elements DEF ElementsLie
  <2>2. /\ q' \in Seq(Contents) /\ Len(q') = used_size - 1
        /\ \A i \in 1 .. used_size - 1 : q'[i] = mem[Wrap(front_index + i - 1)]
    BY <1>1, <1>4, <1>5, ElementsNext DEF ElementsLie
  <2>3. used_size \in Nat /\ q # <<>> /\ \A i \in 1 .. used_size - 1 : q[i] \in Contents
    BY <1>1, <2>1, ElementOfSeq DEF QueueTypes
  <2>4. /\ SubSeq(q, 1, used_size - 1) \in Seq(Contents)
        /\ Len(SubSeq(q, 1, used_size - 1)) = used_size - 1
        /\ \A i \in 1 .. used_size - 1 : SubSeq(q, 1, used_size - 1)[i] = q[i]
    BY <1>1, <2>1, <2>3
  <2>5. \A i \in 1 .. used_size - 1 : q'[i] = SubSeq(q, 1, used_size - 1)[i]
    BY <2>1, <2>2, <2>3, <2>4, SMTT(30)
  <2>6. q[used_size] = At(BelowBack)
    BY <1>1, <2>1, <2>3, LoweredIs DEF At
  <2> QED
    BY <2>1, <2>2, <2>3, <2>4, <2>5, <2>6, SeqEqual
<1> QED
  BY <1>1, <1>4, <1>5, <1>6, <1>9 DEF D!RecieveFromBack

LEMMA ShiftedIs ==
  ASSUME NEW m \in [Nodes -> Contents], NEW first \in Int, NEW last \in Int, last < Capacity,
         0 <= first
  PROVE  /\ Shifted(m, first, last) \in [Nodes -> Contents]
         /\ \A n \in Nodes : Shifted(m, first, last)[n] =
                                 IF first <= n /\ n < last THEN m[n + 1] ELSE m[n]
<1>1. \A n \in Nodes : first <= n /\ n < last => n + 1 \in Nodes
  BY KernelQueueAssumption DEF Nodes
<1> QED
  BY <1>1 DEF Shifted

\* Where the elements are after one was removed, in the three cases of the code.
LEMMA RemovedIs ==
  ASSUME QueueTypes, CountersMatch, 0 < back_index, size[Reciever] = used_size,
         NEW r \in 1 .. used_size
  PROVE  /\ Removed(r) \in [Nodes -> Contents]
         /\ \A i \in 1 .. used_size - 1 :
                Removed(r)[Wrap(front_index + i - 1)] =
                    mem[Wrap(front_index + (IF i < r THEN i ELSE i + 1) - 1)]
<1> USE KernelQueueAssumption
<1>0. /\ mem \in [Nodes -> Contents] /\ used_size \in Nat /\ front_index \in Nat
      /\ back_index \in Nat /\ r \in Nat /\ 1 <= r /\ r <= used_size
      /\ front_index < Capacity /\ back_index <= Capacity /\ used_size <= Capacity
      /\ Capacity \in Nat
  BY DEF QueueTypes, CountersMatch
<1>1. CASE front_index < back_index
  <2>1. front_index + used_size = back_index
    BY <1>0, <1>1 DEF CountersMatch
  <2>2. Removed(r) = Shifted(mem, front_index + r - 1, front_index + used_size - 1)
    BY <1>0, <1>1 DEF Removed
  <2>3. /\ Removed(r) \in [Nodes -> Contents]
        /\ \A n \in Nodes : Removed(r)[n] = IF front_index + r - 1 <= n /\ n < front_index + used_size - 1
                                           THEN mem[n + 1] ELSE mem[n]
    BY <1>0, <2>1, <2>2, ShiftedIs
  <2>4. ASSUME NEW i \in 1 .. used_size - 1
        PROVE  Removed(r)[Wrap(front_index + i - 1)] =
                   mem[Wrap(front_index + (IF i < r THEN i ELSE i + 1) - 1)]
    <3>1. Wrap(front_index + i - 1) = front_index + i - 1 /\ front_index + i - 1 \in Nodes
      BY <1>0, <2>1 DEF Wrap, Nodes
    <3>2. Wrap(front_index + (i + 1) - 1) = front_index + i
      BY <1>0, <2>1 DEF Wrap
    <3>3. CASE i < r
      BY <1>0, <2>3, <3>1, <3>3
    <3>4. CASE ~(i < r)
      BY <1>0, <2>3, <3>1, <3>2, <3>4
    <3> QED
      BY <3>3, <3>4
  <2> QED
    BY <2>3, <2>4
<1>2. CASE front_index >= back_index
  <2>1. front_index + used_size = back_index + Capacity
    BY <1>0, <1>2 DEF CountersMatch
  <2>2. CASE r <= FrontNodes
    <3> DEFINE m1 == Shifted(mem, front_index + r - 1, Capacity - 1)
               m2 == [m1 EXCEPT ![Capacity - 1] = mem[0]]
    <3>1. Removed(r) = Shifted(m2, 0, back_index - 1)
      BY <1>2, <2>2 DEF Removed
    <3>2. /\ m1 \in [Nodes -> Contents]
          /\ \A n \in Nodes : m1[n] = IF front_index + r - 1 <= n /\ n < Capacity - 1
                                      THEN mem[n + 1] ELSE mem[n]
      BY <1>0, ShiftedIs
    <3>3. Capacity - 1 \in Nodes /\ 0 \in Nodes
      BY DEF Nodes
    <3> HIDE DEF m1
    <3>4. m2 \in [Nodes -> Contents]
      BY <1>0, <3>2, <3>3
    <3>5. \A n \in Nodes : m2[n] = IF n = Capacity - 1 THEN mem[0] ELSE m1[n]
      BY <3>2, <3>3
    <3> HIDE DEF m2
    <3>6. /\ Removed(r) \in [Nodes -> Contents]
          /\ \A n \in Nodes : Removed(r)[n] = IF 0 <= n /\ n < back_index - 1
                                             THEN m2[n + 1] ELSE m2[n]
      BY <1>0, <1>2, <3>1, <3>4, ShiftedIs
    <3>7. ASSUME NEW i \in 1 .. used_size - 1
          PROVE  Removed(r)[Wrap(front_index + i - 1)] =
                     mem[Wrap(front_index + (IF i < r THEN i ELSE i + 1) - 1)]
      <4> DEFINE p == front_index + i - 1
      <4>1. CASE p < Capacity - 1
        <5>1. Wrap(p) = p /\ p \in Nodes /\ ~(p < back_index - 1) /\ p # Capacity - 1
          BY <1>0, <1>2, <4>1 DEF Wrap, Nodes
        <5>2. Wrap(front_index + (i + 1) - 1) = p + 1
          BY <1>0, <4>1 DEF Wrap
        <5>3. Removed(r)[p] = IF front_index + r - 1 <= p THEN mem[p + 1] ELSE mem[p]
          BY <3>2, <3>5, <3>6, <4>1, <5>1
        <5> QED
          BY <1>0, <5>1, <5>2, <5>3
      <4>2. CASE p = Capacity - 1
        <5>1. Wrap(p) = p /\ p \in Nodes /\ ~(p < back_index - 1) /\ ~(i < r)
          BY <1>0, <1>2, <2>2, <4>2 DEF Wrap, Nodes, FrontNodes
        <5>2. Wrap(front_index + (i + 1) - 1) = 0
          BY <1>0, <4>2 DEF Wrap
        <5>3. Removed(r)[p] = mem[0]
          BY <3>5, <3>6, <4>2, <5>1
        <5> QED
          BY <5>1, <5>2, <5>3
      <4>3. CASE p > Capacity - 1
        <5>1. /\ Wrap(p) = p - Capacity /\ p - Capacity \in Nodes /\ 0 <= p - Capacity
              /\ p - Capacity < back_index - 1 /\ p - Capacity + 1 \in Nodes
              /\ p - Capacity + 1 # Capacity - 1 /\ ~(front_index + r - 1 <= p - Capacity + 1)
              /\ ~(i < r)
          BY <1>0, <1>2, <2>1, <2>2, <4>3 DEF Wrap, Nodes, FrontNodes
        <5>2. Wrap(front_index + (i + 1) - 1) = p - Capacity + 1
          BY <1>0, <4>3 DEF Wrap
        <5>3. Removed(r)[p - Capacity] = mem[p - Capacity + 1]
          BY <3>2, <3>5, <3>6, <5>1
        <5> QED
          BY <5>1, <5>2, <5>3
      <4> QED
        BY <1>0, <4>1, <4>2, <4>3
    <3> QED
      BY <3>6, <3>7
  <2>3. CASE ~(r <= FrontNodes)
    <3> DEFINE first == r - 1 - FrontNodes
    <3>1. Removed(r) = Shifted(mem, first, back_index - 1)
      BY <1>2, <2>3 DEF Removed
    <3>2. /\ Removed(r) \in [Nodes -> Contents]
          /\ \A n \in Nodes : Removed(r)[n] = IF first <= n /\ n < back_index - 1
                                             THEN mem[n + 1] ELSE mem[n]
      BY <1>0, <2>3, <3>1, ShiftedIs DEF FrontNodes
    <3>3. ASSUME NEW i \in 1 .. used_size - 1
          PROVE  Removed(r)[Wrap(front_index + i - 1)] =
                     mem[Wrap(front_index + (IF i < r THEN i ELSE i + 1) - 1)]
      <4> DEFINE p == Wrap(front_index + i - 1)
      <4>1. p \in Nodes /\ p \in Int
        BY <1>0 DEF Wrap, Nodes
      <4>2. CASE i < r
        <5>1. ~(first <= p /\ p < back_index - 1)
          BY <1>0, <1>2, <2>1, <2>3, <4>2 DEF Wrap, FrontNodes
        <5> QED
          BY <3>2, <4>1, <4>2, <5>1
      <4>3. CASE ~(i < r)
        <5>1. first <= p /\ p < back_index - 1 /\ Wrap(front_index + (i + 1) - 1) = p + 1
          BY <1>0, <1>2, <2>1, <2>3, <4>3 DEF Wrap, FrontNodes
        <5> QED
          BY <3>2, <4>1, <4>3, <5>1
      <4> QED
        BY <4>2, <4>3
    <3> QED
      BY <3>2, <3>3
  <2> QED
    BY <2>2, <2>3
<1>3. front_index < back_index \/ front_index >= back_index
  BY <1>0
<1> QED
  BY <1>1, <1>2, <1>3

LEMMA RemoveIndexIs ==
  ASSUME TaskTypes, QueueInv, hist' = {}, kernel_q_remove_index
  PROVE  QueueInv' /\ D!RemoveIndex(index) /\ index \in 1 .. Capacity
<1> USE KernelQueueAssumption DEF kernel_q_remove_index, QueueInv
<1>1. /\ kernel_q_inited /\ kernel_q_inited' /\ 0 < used_size /\ 0 < back_index
      /\ index \in 1 .. used_size /\ index' = index /\ param' = param
      /\ call[Reciever] = "remove_index" /\ call' = [call EXCEPT ![Reciever] = "none"]
      /\ size[Reciever] = used_size /\ used_size' = used_size - 1 /\ MutexHeld'
  BY DoesIs DEF ChecksHold, Tasks, Below, QueueTypes
<1>2. QueueTypes'
  BY <1>1, LoweredIs, RemovedIs DEF QueueTypes, Tasks
<1>3. CountersMatch'
  BY <1>1, LoweredIs DEF QueueTypes, CountersMatch
<1>4. ChecksHold'
  BY <1>1 DEF QueueTypes, ChecksHold, TaskTypes, Tasks
<1>5. q' = [k \in 1 .. Len(q) - 1 |-> q[IF k < index THEN k ELSE k + 1]]
  <2>1. /\ q \in Seq(Contents) /\ Len(q) = used_size
        /\ \A i \in 1 .. used_size : q[i] = mem[Wrap(front_index + i - 1)]
    BY <1>1, Elements DEF ElementsLie
  <2>2. /\ q' \in Seq(Contents) /\ Len(q') = used_size - 1
        /\ \A i \in 1 .. used_size - 1 : q'[i] = mem'[Wrap(front_index + i - 1)]
    BY <1>1, <1>2, <1>3, ElementsNext DEF ElementsLie
  <2>3. used_size \in Nat
    BY DEF QueueTypes
  <2>4. ASSUME NEW k \in 1 .. used_size - 1
        PROVE  q'[k] = q[IF k < index THEN k ELSE k + 1]
    <3> DEFINE j == IF k < index THEN k ELSE k + 1
    <3>1. j \in 1 .. used_size
      BY <1>1, <2>3
    <3>2. q'[k] = mem[Wrap(front_index + j - 1)]
      BY <1>1, <2>2, RemovedIs
    <3>3. q[j] = mem[Wrap(front_index + j - 1)]
      BY <2>1, <3>1
    <3> QED
      BY <3>2, <3>3
  <2>5. q' = [k \in 1 .. used_size - 1 |-> q'[k]]
    BY <2>2, LenProperties
  <2> QED
    BY <2>1, <2>4, <2>5
<1>6. index \in 1 .. Len(q) /\ index \in 1 .. Capacity /\ dest' = dest
  BY <1>1, Elements DEF ElementsLie, QueueTypes, CountersMatch
<1> QED
  BY <1>1, <1>2, <1>3, <1>4, <1>5, <1>6 DEF D!RemoveIndex

LEMMA ModifyIs ==
  ASSUME TaskTypes, QueueInv, NEW v \in Values, kernel_q_modify_data_at_index(v)
  PROVE  QueueInv' /\ D!ModifyDataAtIndex(index, v) /\ index \in 1 .. Capacity
<1> USE KernelQueueAssumption DEF kernel_q_modify_data_at_index, QueueInv
<1>1. /\ kernel_q_inited /\ kernel_q_inited' /\ 0 < used_size
      /\ index \in 1 .. used_size /\ index' = index /\ param' = param /\ MutexHeld'
      /\ call[Reciever] = "modify_data_at_index" /\ call' = [call EXCEPT ![Reciever] = "none"]
      /\ used_size' = used_size /\ front_index' = front_index /\ back_index' = back_index
  BY DoesIs DEF ChecksHold, Tasks
<1> DEFINE node == Wrap(front_index + index - 1)
<1>2. mem' = [mem EXCEPT ![node] = v] /\ node \in Nodes
  BY <1>1, PtrWraps DEF Put
<1>3. QueueTypes'
  <2>1. mem' \in [Nodes -> Contents]
    BY <1>2 DEF QueueTypes, Contents
  <2>2. /\ kernel_q_inited' \in BOOLEAN
        /\ used_size' \in Nat /\ front_index' \in Nat /\ back_index' \in Nat /\ index' \in Nat
    BY <1>1 DEF QueueTypes
  <2> QED
    BY <2>1, <2>2 DEF QueueTypes
<1>4. CountersMatch'
  BY <1>1 DEF CountersMatch
<1>5. ChecksHold'
  BY <1>1 DEF QueueTypes, ChecksHold, TaskTypes, Tasks
<1>6. q' = [q EXCEPT ![index] = v]
  <2>1. /\ q \in Seq(Contents) /\ Len(q) = used_size
        /\ \A i \in 1 .. used_size : q[i] = mem[Wrap(front_index + i - 1)]
    BY <1>1, Elements DEF ElementsLie
  <2>2. /\ q' \in Seq(Contents) /\ Len(q') = used_size
        /\ \A i \in 1 .. used_size : q'[i] = mem'[Wrap(front_index + i - 1)]
    BY <1>1, <1>3, <1>4, ElementsNext DEF ElementsLie
  <2>3. v \in Contents
    BY DEF Contents
  <2>4. /\ [q EXCEPT ![index] = v] \in Seq(Contents)
        /\ Len([q EXCEPT ![index] = v]) = used_size
        /\ \A i \in 1 .. used_size : [q EXCEPT ![index] = v][i] = IF i = index THEN v ELSE q[i]
    BY <1>1, <2>1, <2>3, ExceptSeq
  <2>5. ASSUME NEW i \in 1 .. used_size PROVE q'[i] = [q EXCEPT ![index] = v][i]
    <3>1. Wrap(front_index + i - 1) \in Nodes /\ (Wrap(front_index + i - 1) = node <=> i = index)
      BY <1>1 DEF QueueTypes, CountersMatch, Wrap, Nodes
    <3>2. mem'[Wrap(front_index + i - 1)] = IF i = index THEN v ELSE mem[Wrap(front_index + i - 1)]
      BY <1>2, <3>1 DEF QueueTypes
    <3> QED
      BY <2>1, <2>2, <2>4, <3>2
  <2> QED
    BY <2>2, <2>4, <2>5, SeqEqual
<1>7. index \in 1 .. Len(q) /\ index \in 1 .. Capacity /\ dest' = dest
  BY <1>1, Elements DEF ElementsLie, QueueTypes, CountersMatch
<1> QED
  BY <1>1, <1>3, <1>4, <1>5, <1>6, <1>7 DEF D!ModifyDataAtIndex

LEMMA ResetIs ==
  ASSUME TaskTypes, QueueInv, hist' = {}, kernel_q_reset
  PROVE  QueueInv' /\ D!Reset
<1> USE KernelQueueAssumption DEF kernel_q_reset, QueueInv
<1>1. QueueTypes' /\ mem' \in [Nodes -> {Blank}]
  BY DEF QueueTypes, Contents, Blanks
<1>2. CountersMatch' /\ ChecksHold' /\ MutexHeld'
  BY DEF CountersMatch, ChecksHold, MutexHeld
<1>3. Len(q) = used_size /\ used_size \in Nat
  BY Elements DEF ElementsLie, QueueTypes
<1>4. \A i \in 1 .. used_size : kernel_q_get_Data_ptr(i)' \in Nodes
  BY PtrWraps DEF kernel_q_get_Data_ptr, FrontNodes
<1>5. q' = [i \in 1 .. used_size |-> mem'[kernel_q_get_Data_ptr(i)']]
  BY DEF q
<1>6. q' = [k \in 1 .. used_size |-> Blank]
  BY <1>1, <1>4, <1>5
<1> QED
  BY <1>1, <1>2, <1>3, <1>6 DEF D!Reset

\* What leaves the buffer alone.
LEMMA QueueUnchanged ==
  ASSUME UNCHANGED <<kernel_q_inited, queue, dest>>
  PROVE  UNCHANGED D!vars
BY DEF queue, q, kernel_q_get_Data_ptr, FrontNodes, D!vars

----------------------------------------------------------------------------
(* The theorems.                                                            *)

\* Until something goes wrong the counters, the checks and the mutex agree.
Inv == TaskTypes /\ (hist = {} => QueueInv)

LEMMA QueueInit == Init => Inv /\ D!Init
<1> SUFFICES ASSUME Init PROVE Inv /\ D!Init
  OBVIOUS
<1> USE KernelQueueAssumption DEF Init
<1>1. QueueTypes
  BY DEF QueueTypes, Contents, Blanks
<1>2. CountersMatch /\ ChecksHold /\ MutexHeld
  BY DEF CountersMatch, ChecksHold, MutexHeld, Tasks
<1>3. TaskTypes
  BY DEF TaskTypes, Tasks
<1>4. q \in Seq(Contents) /\ Len(q) = 0
  BY <1>1, <1>2, Elements DEF ElementsLie
<1> QED
  BY <1>1, <1>2, <1>3, <1>4, EmptySeq DEF Inv, QueueInv, D!Init

LEMMA TaskTypesStep == TaskTypes /\ [Next]_vars => TaskTypes'
<1> SUFFICES ASSUME TaskTypes, [Next]_vars PROVE TaskTypes'
  OBVIOUS
<1> USE KernelQueueAssumption DEF TaskTypes
<1>1. ASSUME NEW t \in Tasks, NEW c \in {"send_to_back", "send_to_front"}, Does(t, c)
      PROVE  TaskTypes'
  BY <1>1 DEF Does, Inside
<1>2. ASSUME NEW t \in Tasks,
             NEW c \in {"recieve_from_front", "recieve_from_back", "remove_index",
                        "modify_data_at_index"}, Does(t, c)
      PROVE  TaskTypes'
  BY <1>2 DEF Does, Inside
<1>3. ASSUME NEW c \in {"send_to_back", "send_to_front"}, NEW v \in Values, CheckSend(c, v)
      PROVE  TaskTypes'
  BY <1>3 DEF CheckSend, Checks, Tasks
<1>4. ASSUME NEW c \in {"recieve_from_front", "recieve_from_back"}, CheckRecieve(c)
      PROVE  TaskTypes'
  BY <1>4 DEF CheckRecieve, Checks, Tasks
<1>5. ASSUME NEW c \in {"remove_index", "modify_data_at_index"}, NEW i \in 1 .. Capacity,
             CheckIndex(c, i)
      PROVE  TaskTypes'
  BY <1>5 DEF CheckIndex, Checks, Tasks
<1>6. ASSUME NEW t \in Tasks, TakeMutex(t) \/ MutexTimeout(t) PROVE TaskTypes'
  BY <1>6 DEF TakeMutex, MutexTimeout
<1>7. ASSUME RemoveFault PROVE TaskTypes'
  BY <1>7 DEF RemoveFault, Inside, Tasks
<1>8. ASSUME kernel_q_reset \/ kernel_q_delete \/ kernel_q_create \/ UNCHANGED vars
      PROVE  TaskTypes'
  BY <1>8 DEF kernel_q_reset, kernel_q_delete, kernel_q_create, vars
<1>9. ASSUME Send PROVE TaskTypes'
  <2>1. Sender \in Tasks
    BY DEF Tasks
  <2> QED
    BY <1>1, <1>3, <1>9, <2>1 DEF Send, kernel_q_send_to_back, kernel_q_send_to_front
<1>10. ASSUME Recieve PROVE TaskTypes'
  <2>1. Reciever \in Tasks
    BY DEF Tasks
  <2> QED
    BY <1>2, <1>4, <1>5, <1>7, <1>10, <2>1
    DEF Recieve, kernel_q_recieve_from_front, kernel_q_recieve_from_back, kernel_q_remove_index,
        kernel_q_modify_data_at_index
<1> QED
  BY <1>6, <1>8, <1>9, <1>10 DEF Next

\* Before a call is past the mutex it only fixes what it will do.
LEMMA BeforeMutex ==
  ASSUME TaskTypes, QueueInv, UNCHANGED <<kernel_q_inited, queue, mutex, dest>>,
         ChecksHold', MutexHeld', index' \in Nat
  PROVE  QueueInv' /\ UNCHANGED D!vars
<1>1. UNCHANGED D!vars
  BY QueueUnchanged
<1>2. QueueTypes' /\ CountersMatch'
  BY DEF QueueInv, QueueTypes, CountersMatch, queue
<1> QED
  BY <1>1, <1>2 DEF QueueInv

LEMMA QueueStep ==
  ASSUME Inv, [Next]_vars, hist' = {}
  PROVE  QueueInv' /\ [D!Next]_(D!vars)
<1> USE KernelQueueAssumption
<1>1. ASSUME kernel_q_create PROVE QueueInv' /\ D!Delete
  <2>1. /\ QueueTypes' /\ CountersMatch' /\ kernel_q_inited' /\ used_size' = 0
        /\ \A t \in Tasks : pc'[t] = "idle" /\ call'[t] = "none"
    BY <1>1
    DEF kernel_q_create, Inv, TaskTypes, QueueTypes, CountersMatch, Contents, Blanks
  <2>2. ChecksHold' /\ MutexHeld'
    BY <1>1, <2>1 DEF kernel_q_create, ChecksHold, MutexHeld, Tasks
  <2>3. q' \in Seq(Contents) /\ Len(q') = 0
    BY <2>1, ElementsNext DEF ElementsLie
  <2>4. q' = <<>> /\ dest' = dest
    BY <1>1, <2>3, EmptySeq DEF kernel_q_create
  <2> QED
    BY <2>1, <2>2, <2>4 DEF QueueInv, D!Delete
<1>2. CASE kernel_q_create
  BY <1>1, <1>2 DEF D!Next
<1>3. CASE ~kernel_q_create
  <2>1. hist = {}
    <3>1. CASE Send
      BY <3>1
      DEF Send, CheckSend, Checks, kernel_q_send_to_back, kernel_q_send_to_front
    <3>2. CASE Recieve
      BY <3>2
      DEF Recieve, CheckRecieve, CheckIndex, Checks, kernel_q_recieve_from_front,
          kernel_q_recieve_from_back, kernel_q_remove_index, RemoveFault,
          kernel_q_modify_data_at_index, Below
    <3>3. CASE kernel_q_reset \/ kernel_q_delete \/ UNCHANGED vars
      BY <3>3 DEF kernel_q_reset, kernel_q_delete, vars
    <3>4. CASE \E t \in Tasks : TakeMutex(t) \/ MutexTimeout(t)
      BY <3>4 DEF TakeMutex, MutexTimeout
    <3> QED
      BY <1>3, <3>1, <3>2, <3>3, <3>4 DEF Next
  <2>2. TaskTypes /\ QueueInv
    BY <2>1 DEF Inv
  <2>3. ASSUME NEW c \in {"send_to_back", "send_to_front"}, NEW v \in Values, CheckSend(c, v)
        PROVE  QueueInv' /\ UNCHANGED D!vars
    <3>1. used_size < Capacity
      BY <2>2, <2>3 DEF CheckSend, Room, QueueInv, QueueTypes, CountersMatch
    <3>2. ChecksHold' /\ MutexHeld'
      BY <2>2, <2>3, <3>1
      DEF QueueInv, ChecksHold, MutexHeld, TaskTypes, CheckSend, Checks, queue, Tasks
    <3> QED
      BY <2>2, <2>3, <3>2, BeforeMutex DEF CheckSend, Checks, QueueInv, QueueTypes
  <2>4. ASSUME NEW c \in {"recieve_from_front", "recieve_from_back"}, CheckRecieve(c)
        PROVE  QueueInv' /\ UNCHANGED D!vars
    <3>1. 0 < used_size
      BY <2>2, <2>4 DEF CheckRecieve, QueueInv, QueueTypes
    <3>2. ChecksHold' /\ MutexHeld'
      BY <2>2, <2>4, <3>1
      DEF QueueInv, ChecksHold, MutexHeld, TaskTypes, CheckRecieve, Checks, queue, Tasks
    <3> QED
      BY <2>2, <2>4, <3>2, BeforeMutex DEF CheckRecieve, Checks, QueueInv, QueueTypes
  <2>5. ASSUME NEW c \in {"remove_index", "modify_data_at_index"}, NEW i \in 1 .. Capacity,
               CheckIndex(c, i)
        PROVE  QueueInv' /\ UNCHANGED D!vars
    <3>1. 0 < used_size /\ i \in 1 .. used_size
      BY <2>2, <2>5 DEF CheckIndex, QueueInv, QueueTypes
    <3>2. ChecksHold' /\ MutexHeld'
      BY <2>2, <2>5, <3>1
      DEF QueueInv, ChecksHold, MutexHeld, TaskTypes, CheckIndex, Checks, queue, Tasks
    <3> QED
      BY <2>2, <2>5, <3>2, BeforeMutex DEF CheckIndex, Checks, QueueInv, QueueTypes
  <2>6. ASSUME NEW t \in Tasks, MutexTimeout(t) PROVE QueueInv' /\ UNCHANGED D!vars
    <3>1. ChecksHold' /\ MutexHeld'
      BY <2>2, <2>6
      DEF QueueInv, ChecksHold, MutexHeld, TaskTypes, MutexTimeout, queue, Tasks
    <3> QED
      BY <2>2, <2>6, <3>1, BeforeMutex DEF MutexTimeout, QueueInv, QueueTypes
  <2>7. ASSUME NEW t \in Tasks, TakeMutex(t) PROVE QueueInv' /\ UNCHANGED D!vars
    <3>1. ChecksHold' /\ MutexHeld'
      BY <2>2, <2>7
      DEF QueueInv, ChecksHold, MutexHeld, TaskTypes, TakeMutex, queue, Tasks
    <3>2. QueueTypes' /\ CountersMatch'
      BY <2>2, <2>7 DEF TakeMutex, QueueInv, QueueTypes, CountersMatch, queue
    <3>3. UNCHANGED D!vars
      BY <2>7, QueueUnchanged DEF TakeMutex
    <3> QED
      BY <3>1, <3>2, <3>3 DEF QueueInv
  <2>8. ~RemoveFault
    <3> SUFFICES ASSUME RemoveFault PROVE FALSE
      OBVIOUS
    <3>1. 0 < back_index /\ index \in 1 .. used_size /\ Endless(index)
      BY <2>2
      DEF RemoveFault, Inside, Below, QueueInv, QueueTypes, ChecksHold
    <3> QED
      BY <2>2, <3>1 DEF Endless, FrontNodes, QueueInv, QueueTypes, CountersMatch
  <2>9. CASE Send
    BY <2>2, <2>3, <2>9, SendToBackIs, SendToFrontIs DEF Send, D!Next
  <2>10. CASE Recieve
    BY <2>2, <2>4, <2>5, <2>8, <2>10, RecieveFromFrontIs, RecieveFromBackIs, RemoveIndexIs,
       ModifyIs DEF Recieve, D!Next
  <2>11. CASE kernel_q_reset
    BY <2>2, <2>11, ResetIs DEF D!Next
  <2>12. CASE kernel_q_delete
    <3>1. QueueTypes' /\ CountersMatch' /\ ChecksHold' /\ MutexHeld'
      BY <2>2, <2>12
      DEF kernel_q_delete, QueueInv, QueueTypes, CountersMatch, ChecksHold, MutexHeld, Contents,
          Blanks
    <3> QED
      BY <2>12, <3>1 DEF kernel_q_delete, QueueInv, q, D!Delete, D!Next
  <2>13. CASE UNCHANGED vars
    <3>1. ChecksHold' /\ MutexHeld'
      BY <2>2, <2>13 DEF QueueInv, ChecksHold, MutexHeld, vars, queue
    <3> QED
      BY <2>2, <2>13, <3>1, BeforeMutex DEF vars, QueueInv, QueueTypes
  <2> QED
    BY <1>3, <2>6, <2>7, <2>9, <2>10, <2>11, <2>12, <2>13 DEF Next
<1> QED
  BY <1>2, <1>3

LEMMA InvStep == Inv /\ [Next]_vars => Inv'
BY TaskTypesStep, QueueStep DEF Inv

\* The counters of the queue agree for every capacity, whatever one sender, one
\* receiver and resets do (kernel_queue.c), until a call lowers the back before
\* anything was sent to it or a reset gives a mutex another task holds.
THEOREM CountersWork == Spec => []CountersAgree
<1>1. Inv => CountersAgree
  BY DEF Inv, QueueInv, CountersAgree
<1> QED
  BY <1>1, QueueInit, InvStep, PTL DEF Spec

\* For every capacity and all values, the queue of kernel_queue.c is the bounded
\* double-ended queue that kernel_queue.h describes, until one of the same two.
THEOREM QueueIsDeque == Spec => DequeUntilBroken
<1>1. Inv /\ [Next]_vars => [hist' = {} => D!Next]_<<q, dest>>
  BY QueueStep DEF D!vars
<1> QED
  BY <1>1, QueueInit, InvStep, PTL DEF Spec, DequeUntilBroken

(***************************************************************************)
(* KernelTime: the calendar is a clock.                                    *)
(***************************************************************************)
TimeInv ==
    /\ current_time \in Times
    /\ current_date \in Dates(1901 .. MaxYear)

SecondOfDay(t) == t.hour * HourSeconds + t.minutes * MinuteSeconds + t.seconds
DaySeconds == (KERNEL_TIME_HOUR_MAX + 1) * HourSeconds

\* Between 1901 and 2099 "a multiple of 4" is the Gregorian rule.
LEMMA LeapYears ==
  ASSUME NEW y \in 1901 .. 2099
  PROVE  LeapDay(y) = (IF y % LEAP_YEAR_BASE_NUMBER = 0 THEN 1 ELSE 0)
  BY DEF LeapDay, LEAP_YEAR_BASE_NUMBER

\* A month has 28 to 31 days.
LEMMA MonthLengths ==
  ASSUME NEW m \in 0 .. 11, NEW y
  PROVE  DaysOf(m, y) \in 28 .. 31
  BY DEF DaysOf, kernel_months_max_Days, kernel_months_max_Days_leap_year, MONTH_JAN,
     MONTH_FEB, MONTH_DEC

\* The fields that rtc_timer_2_handler leaves behind.
LEMMA NextDateIs ==
  ASSUME NEW a, NEW m, NEW y, NEW w, NEW d,
         d = [date |-> a, month |-> m, year |-> y, day |-> w]
  PROVE  NextDate(d) =
           IF a + 1 <= DaysOf(m, y)
           THEN [date |-> a + 1, month |-> m, year |-> y, day |-> NextDay(w)]
           ELSE IF m + 1 <= 11
           THEN [date |-> 1, month |-> m + 1, year |-> y, day |-> NextDay(w)]
           ELSE [date |-> 1, month |-> 0, year |-> (y + 1) % 2^16, day |-> NextDay(w)]
<1>1. d.date = a /\ d.month = m /\ d.year = y /\ DaysOf(d.month, d.year) = DaysOf(m, y)
  OBVIOUS
<1>2. d.day = w
  OBVIOUS
<1>3. [d EXCEPT !.day = NextDay(d.day)]
        = [date |-> a, month |-> m, year |-> y, day |-> NextDay(w)]
  BY <1>2
<1>4. NextDate(d) =
        IF a + 1 <= DaysOf(m, y)
        THEN [[d EXCEPT !.day = NextDay(d.day)] EXCEPT !.date = a + 1]
        ELSE IF m + 1 <= 11
        THEN [[d EXCEPT !.day = NextDay(d.day)] EXCEPT !.date = 1, !.month = m + 1]
        ELSE [[d EXCEPT !.day = NextDay(d.day)] EXCEPT !.date = 1, !.month = 0,
                                                       !.year = (y + 1) % 2^16]
  BY <1>1 DEF NextDate, MONTH_DEC, MONTH_JAN
<1>. QED  BY <1>3, <1>4

\* A date is followed by the next day of the Gregorian calendar.
LEMMA NextDateIsNextDay ==
  ASSUME NEW d \in Dates(1901 .. 2099)
  PROVE  /\ DayNumber(d) \in Nat
         /\ DayNumber(NextDate(d)) = DayNumber(d) + 1
         /\ NextDate(d).day = DayNumber(NextDate(d)) % 7
         /\ NextDate(d).year \in 1901 .. 2100
         /\ NextDate(d).year <= 2099 => NextDate(d) \in Dates(1901 .. NextDate(d).year)
<1> DEFINE Date(a, m, y, w) == [date |-> a, month |-> m, year |-> y, day |-> w]
<1>1. PICK a, m, y, w :
        /\ a \in 1 .. 31 /\ m \in 0 .. 11 /\ y \in 1901 .. 2099 /\ w \in 0 .. 6
        /\ d = Date(a, m, y, w)
        /\ a <= DaysOf(m, y)
        /\ w = DayNumber(d) % 7
  <2>1. /\ d \in [date : 1 .. 31, month : 0 .. 11, year : 1901 .. 2099, day : 0 .. 6]
        /\ d.date <= DaysOf(d.month, d.year)
        /\ d.day = DayNumber(d) % 7
    BY DEF Dates, MONTH_JAN, MONTH_DEC, DAY_MON, DAY_SUN
  <2>2. d = Date(d.date, d.month, d.year, d.day)
    BY <2>1
  <2>3. /\ d.date \in 1 .. 31 /\ d.month \in 0 .. 11 /\ d.year \in 1901 .. 2099
        /\ d.day \in 0 .. 6
    BY <2>1
  <2>. WITNESS d.date, d.month, d.year, d.day
  <2>. QED  BY <2>1, <2>2, <2>3
<1>2. a \in 1 .. 31 /\ m \in 0 .. 11 /\ y \in 1901 .. 2099 /\ w \in 0 .. 6
  BY <1>1
<1>3. \A b, k, z, v : DayNumber(Date(b, k, z, v))
        = DaysBeforeYear(z) + DaysBeforeMonth[k] + (IF k > 1 THEN LeapDay(z) ELSE 0) + b - 1
  BY DEF DayNumber
<1>4. /\ DaysOf(m, y) \in 28 .. 31
      /\ m < 11 => DaysBeforeMonth[m + 1] = DaysBeforeMonth[m] + DaysOf(m, y)
                                              - (IF m = 1 THEN LeapDay(y) ELSE 0)
      /\ m = 11 => 365 - DaysBeforeMonth[m] = DaysOf(m, y)
      /\ DaysBeforeMonth[m] \in 0 .. 334
      /\ m < 11 => DaysBeforeMonth[m + 1] \in 0 .. 334
      /\ DaysBeforeMonth[0] = 0
  <2>1. /\ m = 1 => DaysOf(m, y) = 28 + LeapDay(y)
        /\ m # 1 => DaysOf(m, y) = IF m \in {3, 5, 8, 10} THEN 30 ELSE 31
    BY <1>2, LeapYears DEF DaysOf, kernel_months_max_Days, kernel_months_max_Days_leap_year,
         MONTH_JAN, MONTH_FEB, MONTH_DEC
  <2>2. DaysBeforeMonth[0] = 0 /\ DaysBeforeMonth[1] = 31 /\ DaysBeforeMonth[2] = 59
        /\ DaysBeforeMonth[3] = 90 /\ DaysBeforeMonth[4] = 120 /\ DaysBeforeMonth[5] = 151
        /\ DaysBeforeMonth[6] = 181 /\ DaysBeforeMonth[7] = 212 /\ DaysBeforeMonth[8] = 243
        /\ DaysBeforeMonth[9] = 273 /\ DaysBeforeMonth[10] = 304 /\ DaysBeforeMonth[11] = 334
    BY DEF DaysBeforeMonth
  <2>3. m = 0 \/ m = 1 \/ m = 2 \/ m = 3 \/ m = 4 \/ m = 5 \/ m = 6 \/ m = 7 \/ m = 8
        \/ m = 9 \/ m = 10 \/ m = 11
    BY <1>2
  <2>4. LeapDay(y) = 0 \/ LeapDay(y) = 1
    BY DEF LeapDay
  <2>. QED  BY <2>1, <2>2, <2>3, <2>4
<1>5. /\ DaysBeforeYear(y) \in Nat
      /\ LeapDay(y) \in {0, 1}
      /\ DaysBeforeYear(y + 1) = DaysBeforeYear(y) + 365 + LeapDay(y)
  <2>1. /\ y \div 100 - (y - 1) \div 100 = (IF y = 2000 THEN 1 ELSE 0)
        /\ y \div 400 - (y - 1) \div 400 = (IF y = 2000 THEN 1 ELSE 0)
        /\ y \div 4 - (y - 1) \div 4 = (IF y % 4 = 0 THEN 1 ELSE 0)
    BY <1>2
  <2>2. (y - 1) \div 100 \in {19, 20} /\ (y - 1) \div 400 \in {4, 5} /\ (y - 1) \div 4 \in Nat
    BY <1>2
  <2>3. LeapDay(y) = (IF y % 4 = 0 THEN 1 ELSE 0)
    BY <1>2, LeapYears DEF LEAP_YEAR_BASE_NUMBER
  <2>. QED  BY <1>2, <2>1, <2>2, <2>3 DEF DaysBeforeYear
<1>6. DayNumber(d) = DaysBeforeYear(y) + DaysBeforeMonth[m]
                     + (IF m > 1 THEN LeapDay(y) ELSE 0) + a - 1
  BY <1>1, <1>3
<1>7. DayNumber(d) \in Nat
  <2>1. /\ DaysBeforeYear(y) \in Nat /\ DaysBeforeMonth[m] \in Nat
        /\ (IF m > 1 THEN LeapDay(y) ELSE 0) \in Nat
    BY <1>4, <1>5
  <2>. QED  BY <1>2, <1>6, <2>1
<1>8. NextDay(w) = (DayNumber(d) + 1) % 7 /\ NextDay(w) \in 0 .. 6
  BY <1>1, <1>7 DEF NextDay, DAY_SUN, DAY_MON
<1>9. SUFFICES /\ NextDate(d) \in [date : 1 .. 31, month : 0 .. 11, year : 1901 .. 2100, day : 0 .. 6]
               /\ NextDate(d).day = NextDay(w)
               /\ DayNumber(NextDate(d)) = DayNumber(d) + 1
               /\ NextDate(d).year <= 2099 =>
                    NextDate(d).date <= DaysOf(NextDate(d).month, NextDate(d).year)
  <2>1. NextDate(d).day = DayNumber(NextDate(d)) % 7
    BY <1>8, <1>9
  <2>2. NextDate(d) \in [date : 1 .. 31, month : 0 .. 11, year : 1901 .. NextDate(d).year,
                         day : 0 .. 6]
    BY <1>9
  <2>. QED
    BY <1>7, <1>9, <2>1, <2>2 DEF Dates, MONTH_JAN, MONTH_DEC, DAY_MON, DAY_SUN
<1>10. NextDate(d) = IF a + 1 <= DaysOf(m, y) THEN Date(a + 1, m, y, NextDay(w))
                    ELSE IF m + 1 <= 11 THEN Date(1, m + 1, y, NextDay(w))
                    ELSE Date(1, 0, (y + 1) % 2^16, NextDay(w))
  BY <1>1, NextDateIs
<1>11. CASE a + 1 <= DaysOf(m, y)
  <2>1. NextDate(d) = Date(a + 1, m, y, NextDay(w))
    BY <1>10, <1>11
  <2>2. DayNumber(Date(a + 1, m, y, NextDay(w))) = DayNumber(d) + 1
    <3> DEFINE before == DaysBeforeYear(y) + DaysBeforeMonth[m]
                         + (IF m > 1 THEN LeapDay(y) ELSE 0)
    <3>1. DayNumber(Date(a + 1, m, y, NextDay(w))) = before + (a + 1) - 1
      BY <1>3
    <3>2. DayNumber(d) = before + a - 1
      BY <1>6
    <3>3. /\ (IF m > 1 THEN LeapDay(y) ELSE 0) \in Int
          /\ DaysBeforeYear(y) \in Int /\ DaysBeforeMonth[m] \in Int
      BY <1>4, <1>5
    <3>4. before \in Int /\ a \in Int
      BY <1>2, <3>3
    <3> HIDE DEF before
    <3>. QED  BY <3>1, <3>2, <3>4
  <2>3. a + 1 \in 1 .. 31
    BY <1>2, <1>4, <1>11
  <2>. QED  BY <1>2, <1>8, <1>11, <2>1, <2>2, <2>3
<1>12. CASE a + 1 > DaysOf(m, y) /\ m < 11
  <2>1. NextDate(d) = Date(1, m + 1, y, NextDay(w))
    BY <1>1, <1>4, <1>10, <1>12
  <2>2. a = DaysOf(m, y) /\ m + 1 \in 0 .. 11
    BY <1>1, <1>4, <1>12
  <2>3. 1 <= DaysOf(m + 1, y)
    BY <2>2, MonthLengths
  <2>5. DayNumber(Date(1, m + 1, y, NextDay(w))) = DayNumber(d) + 1
    <3>1. DayNumber(Date(1, m + 1, y, NextDay(w)))
            = DaysBeforeYear(y) + DaysBeforeMonth[m + 1]
              + (IF m + 1 > 1 THEN LeapDay(y) ELSE 0) + 1 - 1
      BY <1>3
    <3>2. (IF m + 1 > 1 THEN LeapDay(y) ELSE 0)
            = (IF m > 1 THEN LeapDay(y) ELSE 0) + (IF m = 1 THEN LeapDay(y) ELSE 0)
      BY <1>2, <1>5
    <3>3. DaysBeforeMonth[m + 1]
            = DaysBeforeMonth[m] + DaysOf(m, y) - (IF m = 1 THEN LeapDay(y) ELSE 0)
      BY <1>4, <1>12
    <3>4. /\ (IF m > 1 THEN LeapDay(y) ELSE 0) \in Int
          /\ (IF m = 1 THEN LeapDay(y) ELSE 0) \in Int
          /\ DaysBeforeYear(y) \in Int /\ DaysBeforeMonth[m] \in Int /\ DaysOf(m, y) \in Int
      BY <1>4, <1>5
    <3>5. DayNumber(d) = DaysBeforeYear(y) + DaysBeforeMonth[m]
                         + (IF m > 1 THEN LeapDay(y) ELSE 0) + DaysOf(m, y) - 1
      BY <1>6, <2>2
    <3>. QED  BY <3>1, <3>2, <3>3, <3>4, <3>5
  <2>. QED  BY <1>2, <1>8, <2>1, <2>2, <2>3, <2>5
<1>13. CASE a + 1 > DaysOf(m, y) /\ m = 11
  <2>1. (y + 1) % 2^16 = y + 1
    BY <1>1
  <2>2. NextDate(d) = Date(1, 0, y + 1, NextDay(w))
    BY <1>1, <1>4, <1>10, <1>13, <2>1
  <2>3. a = DaysOf(m, y)
    BY <1>1, <1>4, <1>13
  <2>5. 1 <= DaysOf(0, y + 1)
    BY MonthLengths
  <2>6. DayNumber(Date(1, 0, y + 1, NextDay(w))) = DayNumber(d) + 1
    <3>1. DayNumber(Date(1, 0, y + 1, NextDay(w)))
            = DaysBeforeYear(y + 1) + DaysBeforeMonth[0] + 0 + 1 - 1
      BY <1>3
    <3>. QED  BY <1>2, <1>4, <1>5, <1>6, <1>13, <2>3, <3>1
  <2>. QED  BY <1>2, <1>8, <2>2, <2>5, <2>6
<1>. QED  BY <1>2, <1>4, <1>7, <1>11, <1>12, <1>13

\* The carries of the time of day count its seconds.
LEMMA NextTimeIsNextSecond ==
  ASSUME NEW t \in Times
  PROVE  /\ SecondOfDay(t) \in 0 .. DaySeconds - 1
         /\ NextTime(t) \in Times
         /\ ~LastSecond(t) => /\ SecondOfDay(t) < DaySeconds - 1
                              /\ SecondOfDay(NextTime(t)) = SecondOfDay(t) + 1
         /\ LastSecond(t) => /\ SecondOfDay(t) = DaySeconds - 1
                             /\ SecondOfDay(NextTime(t)) = 0
<1> DEFINE H == KERNEL_TIME_HOUR_MAX
           M == KERNEL_TIME_MINUTE_MAX
           S == KERNEL_TIME_SECONDS_MAX
<1>0. PICK h \in 0 .. H, m \in 0 .. M, s \in 0 .. S :
        t = [hour |-> h, minutes |-> m, seconds |-> s]
  BY DEF Times
<1>1. /\ h \in 0 .. H /\ m \in 0 .. M /\ s \in 0 .. S
      /\ H \in Nat /\ M \in Nat /\ S \in Nat
      /\ t.hour = h /\ t.minutes = m /\ t.seconds = s
  BY <1>0, TimeAssumption
<1>2. NextTime(t) = IF s < S THEN [hour |-> h, minutes |-> m, seconds |-> s + 1]
                    ELSE IF m < M THEN [hour |-> h, minutes |-> m + 1, seconds |-> 0]
                    ELSE IF h < H THEN [hour |-> h + 1, minutes |-> 0, seconds |-> 0]
                    ELSE [hour |-> 0, minutes |-> 0, seconds |-> 0]
  <2>1. NextTime(t) = IF s < S THEN [t EXCEPT !.seconds = s + 1]
                      ELSE IF m < M THEN [t EXCEPT !.seconds = 0, !.minutes = m + 1]
                      ELSE IF h < H THEN [t EXCEPT !.seconds = 0, !.minutes = 0, !.hour = h + 1]
                      ELSE [t EXCEPT !.seconds = 0, !.minutes = 0, !.hour = 0]
    BY <1>1 DEF NextTime
  <2>. QED  BY <1>0, <2>1
<1>3. NextTime(t) \in Times
  BY <1>1, <1>2 DEF Times
<1>4. \A a, b \in Nat : a * (b + 1) = a * b + a /\ a * b \in Nat
  OBVIOUS
<1>5. HourSeconds \in Nat \ {0} /\ MinuteSeconds = S + 1
      /\ HourSeconds = M * MinuteSeconds + MinuteSeconds
  BY <1>1, <1>4 DEF HourSeconds, MinuteSeconds
<1>6. m * MinuteSeconds \in 0 .. M * MinuteSeconds
      /\ (m < M => (m + 1) * MinuteSeconds = m * MinuteSeconds + MinuteSeconds
                   /\ m * MinuteSeconds + MinuteSeconds <= M * MinuteSeconds)
  BY <1>1, <1>5
<1>7. h * HourSeconds \in 0 .. H * HourSeconds
      /\ (h < H => (h + 1) * HourSeconds = h * HourSeconds + HourSeconds
                   /\ h * HourSeconds + HourSeconds <= H * HourSeconds)
  BY <1>1, <1>5
<1>8. DaySeconds = H * HourSeconds + HourSeconds /\ H * HourSeconds \in Nat
      /\ 0 * HourSeconds = 0 /\ 0 * MinuteSeconds = 0 /\ M * MinuteSeconds \in Nat
  BY <1>1, <1>5 DEF DaySeconds
<1>9. SecondOfDay(t) = h * HourSeconds + m * MinuteSeconds + s
  BY <1>1 DEF SecondOfDay
<1>10. SecondOfDay(NextTime(t)) =
         IF s < S THEN h * HourSeconds + m * MinuteSeconds + (s + 1)
         ELSE IF m < M THEN h * HourSeconds + (m + 1) * MinuteSeconds
         ELSE IF h < H THEN (h + 1) * HourSeconds
         ELSE 0
  BY <1>1, <1>2, <1>5, <1>8 DEF SecondOfDay
<1>11. LastSecond(t) <=> s = S /\ m = M /\ h = H
  BY <1>1 DEF LastSecond
<1>. QED  BY <1>1, <1>3, <1>5, <1>6, <1>7, <1>8, <1>9, <1>10, <1>11
LEMMA MoreYears ==
  ASSUME NEW A, NEW B, NEW d, NEW y, d \in Dates(A), d.year = y, y \in B
  PROVE  d \in Dates(B)
<1>1. d \in [date : 1 .. 31, month : MONTH_JAN .. MONTH_DEC, year : B, day : DAY_MON .. DAY_SUN]
      /\ d.date <= DaysOf(d.month, d.year) /\ d.day = DayNumber(d) % 7
  BY DEF Dates
<1>. QED  BY <1>1 DEF Dates

LEMMA TimeInvInit == TimeInit => TimeInv
<1> SUFFICES ASSUME TimeInit PROVE TimeInv
  OBVIOUS
<1>1. current_date \in Dates(StartYears) /\ current_time \in Times
  BY DEF TimeInit
<1>2. PICK y \in StartYears : current_date.year = y
  BY <1>1 DEF Dates
<1>3. y \in 1901 .. MaxYear
  BY TimeAssumption
<1>4. current_date \in Dates(1901 .. MaxYear)
  <2> DEFINE B == 1901 .. MaxYear
  <2>1. y \in B
    BY <1>3
  <2> HIDE DEF B
  <2>2. current_date \in Dates(B)
    BY <1>1, <1>2, <2>1, MoreYears
  <2>. QED  BY <2>2 DEF B
<1>. QED  BY <1>1, <1>4 DEF TimeInv

LEMMA TimeInvNext == TimeInv /\ [TimeNext]_timeVars => TimeInv'
<1> SUFFICES ASSUME TimeInv, [TimeNext]_timeVars PROVE TimeInv'
  OBVIOUS
<1>1. CASE rtc_timer_2_handler
  <2>1. current_time' \in Times
    BY <1>1, NextTimeIsNextSecond DEF TimeInv, rtc_timer_2_handler
  <2>2. current_date \in Dates(1901 .. 2099)
    BY TimeAssumption DEF TimeInv, Dates
  <2>3. ASSUME LastSecond(current_time)
        PROVE  current_date' \in Dates(1901 .. MaxYear)
    <3>1. current_date' = NextDate(current_date) /\ current_date'.year <= MaxYear
      BY <1>1, <2>3 DEF rtc_timer_2_handler
    <3>2. MaxYear \in 1901 .. 2099
      BY TimeAssumption
    <3>3. current_date'.year \in 1901 .. 2100
      BY <2>2, <3>1, NextDateIsNextDay
    <3>4. current_date'.year <= 2099 /\ current_date'.year \in 1901 .. MaxYear
      <4> HIDE DEF NextDate
      <4>1. current_date'.year <= MaxYear
        BY <3>1
      <4>. QED  BY <3>2, <3>3, <4>1
    <3>5. current_date' \in Dates(1901 .. current_date'.year)
      BY <2>2, <3>1, <3>4, NextDateIsNextDay
    <3> DEFINE A == 1901 .. current_date'.year
               B == 1901 .. MaxYear
    <3>6. current_date'.year \in B /\ current_date' \in Dates(A)
      BY <3>4, <3>5
    <3> HIDE DEF A, B
    <3>7. current_date' \in Dates(B)
      BY <3>6, MoreYears
    <3>. QED  BY <3>7 DEF B
  <2>. QED  BY <1>1, <2>1, <2>3 DEF TimeInv, rtc_timer_2_handler
<1>2. CASE UNCHANGED timeVars
  BY <1>2 DEF TimeInv, timeVars
<1>. QED  BY <1>1, <1>2 DEF TimeNext

\* For every time of day and date it may start at, the calendar stays a date
\* with its day of the week (rtc_timer_2_handler).
THEOREM CalendarStaysValid == TimeSpec => []TimeInv
  BY TimeInvInit, TimeInvNext, PTL DEF TimeSpec

\* Every interrupt is the next second of the clock: rtc_timer_2_handler loses
\* or repeats no second, no day and no day of the week until 2099.
THEOREM CalendarIsClock == TimeSpec => ClockSpec
<1>1. TimeInit => clock!Init
  <2> SUFFICES ASSUME TimeInit PROVE clock!Init
    OBVIOUS
  <2>1. TimeInv
    BY TimeInvInit
  <2>2. current_date \in Dates(1901 .. 2099)
    BY <2>1, TimeAssumption DEF TimeInv, Dates
  <2>3. current_date.day = DayNumber(current_date) % 7
    BY <2>2 DEF Dates
  <2>4. DayNumber(current_date) \in Nat
    BY <2>2, NextDateIsNextDay
  <2>5. SecondOfDay(current_time) \in 0 .. DaySeconds - 1
    BY <2>1, NextTimeIsNextSecond DEF TimeInv
  <2>. QED
    BY <2>3, <2>4, <2>5 DEF clock!Init, SecondOfDay, DaySeconds
<1>2. TimeInv /\ [TimeNext]_timeVars
        => [clock!Next]_<<DayNumber(current_date), SecondOfDay(current_time), current_date.day>>
  <2> SUFFICES ASSUME TimeInv, rtc_timer_2_handler PROVE clock!Next
    BY DEF TimeNext, timeVars
  <2>1. current_date \in Dates(1901 .. 2099)
    BY TimeAssumption DEF TimeInv, Dates
  <2>2. CASE LastSecond(current_time)
    <3>1. current_date' = NextDate(current_date) /\ current_time' = NextTime(current_time)
      BY <2>2 DEF rtc_timer_2_handler
    <3>2. SecondOfDay(current_time) = DaySeconds - 1 /\ SecondOfDay(current_time)' = 0
      BY <2>2, <3>1, NextTimeIsNextSecond DEF TimeInv
    <3>3. /\ DayNumber(current_date)' = DayNumber(current_date) + 1
          /\ current_date'.day = DayNumber(current_date)' % 7
      BY <2>1, <3>1, NextDateIsNextDay
    <3>. QED
      BY <3>2, <3>3 DEF clock!Next, clock!Midnight, SecondOfDay, DaySeconds
  <2>3. CASE ~LastSecond(current_time)
    <3>1. current_date' = current_date /\ current_time' = NextTime(current_time)
      BY <2>3 DEF rtc_timer_2_handler
    <3>2. /\ SecondOfDay(current_time) < DaySeconds - 1
          /\ SecondOfDay(current_time)' = SecondOfDay(current_time) + 1
      BY <2>3, <3>1, NextTimeIsNextSecond DEF TimeInv
    <3>. QED
      BY <3>1, <3>2 DEF clock!Next, clock!Second, SecondOfDay, DaySeconds
  <2>. QED  BY <2>2, <2>3
<1>. QED
  BY <1>1, <1>2, TimeInvInit, TimeInvNext, PTL
     DEF TimeSpec, ClockSpec, clock!Spec, SecondOfDay

==============================================================================
