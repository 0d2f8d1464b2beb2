---------------------------- MODULE KernelLinkList ----------------------------
(***************************************************************************)
(* A linked list in an array of nodes: libs/components/kernel/             *)
(* memory_manager/kernel_link_list.c.  As for a pool, an operation is a    *)
(* function of the list.  A node whose next_link is NULL is free.          *)
(*                                                                         *)
(* A walk that meets a free node or leaves the array reads and writes      *)
(* memory that is not the list's: the list is "wild" from then on.         *)
(***************************************************************************)
EXTENDS Integers, FiniteSetsExt

CONSTANT total_poss_node    \* total_mem_size / sizeof_one_node

ASSUME KernelLinkListAssumption == total_poss_node \in 1 .. 2^16 - 1

Nodes == 1 .. total_poss_node
NULL == 0
LINK_TERMINATED == total_poss_node + 1
NoData == [uid |-> 0, version |-> 0]

ZeroedMemory == [n \in Nodes |-> NULL]

NoList ==
    [inited |-> FALSE, head_ptr |-> NULL, total_link_nodes |-> 0, next_link |-> ZeroedMemory,
     data |-> [n \in Nodes |-> NoData], wild |-> FALSE]

\* kernel_ll_init: the list's own fields are set before its memory is cleared.
HeadReset(l) == [l EXCEPT !.head_ptr = NULL, !.total_link_nodes = 0]
Cleared(l) == [l EXCEPT !.next_link = ZeroedMemory, !.data = [n \in Nodes |-> NoData]]
MemoryReset(l) == [Cleared(l) EXCEPT !.inited = TRUE]

\* The list still counts as initialised, and keeps its head and its count.
kernel_ll_deinit(l) == Cleared(l)

\* The links from the head on; the last is repeated.
Walk(l) ==
    LET this[k \in 0 .. total_poss_node] ==
          IF k = 0 THEN l.head_ptr
          ELSE IF this[k - 1] \in Nodes THEN l.next_link[this[k - 1]] ELSE this[k - 1]
    IN  this

Terminated(l) == Walk(l)[total_poss_node] = LINK_TERMINATED
Linked(l) == {Walk(l)[k] : k \in 0 .. total_poss_node} \cap Nodes
Wild(l) == [l EXCEPT !.wild = TRUE]

kernel_ll_add_data(l, d) ==
    LET free == {n \in Nodes : l.next_link[n] = NULL}
        node == IF l.head_ptr = NULL THEN 1 ELSE Min(free)
        tail == CHOOSE n \in Linked(l) : l.next_link[n] = LINK_TERMINATED
        links == IF l.head_ptr = NULL THEN l.next_link ELSE [l.next_link EXCEPT ![tail] = node]
    IN  IF l.wild \/ ~l.inited \/ l.total_link_nodes >= total_poss_node THEN l
        ELSE IF l.head_ptr # NULL /\ (free = {} \/ ~Terminated(l)) THEN Wild(l)
        ELSE [l EXCEPT !.head_ptr = IF @ = NULL THEN 1 ELSE @,
                       !.next_link = [links EXCEPT ![node] = LINK_TERMINATED],
                       !.data[node] = d,
                       !.total_link_nodes = @ + 1]

\* The places of the walk that hold the uid, as far as the list is searched.
Places(l, uid, last) ==
    {k \in 0 .. last : Walk(l)[k] \in Linked(l) /\ l.data[Walk(l)[k]].uid = uid}

Unlinked_HeadKept(l, k) ==     \* mutant
    IF k = 0 THEN l ELSE [l EXCEPT !.next_link[Walk(l)[k - 1]] = l.next_link[Walk(l)[k]]]

Unlinked(l, k) ==
    LET node == Walk(l)[k]
        next == l.next_link[node]
    IN  IF k = 0
        THEN [l EXCEPT !.head_ptr = IF next = LINK_TERMINATED THEN NULL ELSE next]
        ELSE [l EXCEPT !.next_link[Walk(l)[k - 1]] = next]

kernel_ll_remove_data(l, uid) ==
    LET found == Places(l, uid, l.total_link_nodes - 1)
        node == Walk(l)[Min(found)]
    IN  IF l.wild \/ ~l.inited \/ l.head_ptr = NULL THEN l
        ELSE IF found # {}
        THEN [Unlinked(l, Min(found)) EXCEPT !.next_link[node] = NULL,
                                             !.data[node] = NoData,
                                             !.total_link_nodes = @ - 1]
        ELSE IF Terminated(l) THEN l ELSE Wild(l)

kernel_ll_modify_data(l, uid, d) ==
    LET found == Places(l, uid, total_poss_node - 1)
    IN  IF l.wild \/ ~l.inited \/ l.head_ptr = NULL THEN l
        ELSE IF found # {} THEN [l EXCEPT !.data[Walk(l)[Min(found)]] = d]
        ELSE IF Terminated(l) THEN l ELSE Wild(l)

===============================================================================
