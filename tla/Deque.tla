-------------------------------- MODULE Deque --------------------------------
(***************************************************************************)
(* What kernel_queue.h promises: a bounded queue that is written and read  *)
(* at both ends, "any node" of which can be read, changed and removed.     *)
(* A full queue takes nothing and an empty one gives nothing.              *)
(***************************************************************************)
EXTENDS Naturals, Sequences

CONSTANTS Capacity, Values, Blank

VARIABLES
    q,                      \* the elements, the front first
    dest                    \* what was received last

vars == <<q, dest>>

Init == q = <<>> /\ dest = Blank

SendToBack(v) == Len(q) < Capacity /\ q' = Append(q, v) /\ UNCHANGED dest
SendToFront(v) == Len(q) < Capacity /\ q' = <<v>> \o q /\ UNCHANGED dest

RecieveFromFront == q # <<>> /\ dest' = Head(q) /\ q' = Tail(q)
RecieveFromBack == q # <<>> /\ dest' = q[Len(q)] /\ q' = SubSeq(q, 1, Len(q) - 1)

RemoveIndex(i) ==
    /\ i \in 1 .. Len(q)
    /\ q' = [k \in 1 .. Len(q) - 1 |-> q[IF k < i THEN k ELSE k + 1]]
    /\ UNCHANGED dest

ModifyDataAtIndex(i, v) ==
    /\ i \in 1 .. Len(q)
    /\ q' = [q EXCEPT ![i] = v]
    /\ UNCHANGED dest

\* A reset blanks the elements and leaves them in the queue.
Reset == q' = [k \in 1 .. Len(q) |-> Blank] /\ UNCHANGED dest
Delete == q' = <<>> /\ UNCHANGED dest

Next ==
    \/ \E v \in Values : SendToBack(v) \/ SendToFront(v)
    \/ RecieveFromFront \/ RecieveFromBack
    \/ \E i \in 1 .. Capacity : RemoveIndex(i) \/ \E v \in Values : ModifyDataAtIndex(i, v)
    \/ Reset \/ Delete

Spec == Init /\ [][Next]_vars
=============================================================================
