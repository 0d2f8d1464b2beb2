------------------------------ MODULE KernelMem ------------------------------
(***************************************************************************)
(* A memory pool: libs/components/kernel/memory_manager/                   *)
(* kernel_mem_manager.c.  Its operations take the pool's mutex, and none   *)
(* lasts: each is a function of the pool.  The pool is the sequence of its *)
(* blocks; the data of a block is known by its length.                     *)
(*                                                                         *)
(* Nothing keeps the blocks within the array.  A pool whose blocks reach   *)
(* its end is overrun, for good: a block lies on what follows the array,   *)
(* or the next walk leaves it.  What its neighbours then make of it, or it *)
(* of them, is undefined, and nothing is claimed of an overrun pool.       *)
(***************************************************************************)
EXTENDS Integers, Sequences, SequencesExt

CONSTANT mem_size

ASSUME KernelMemAssumption == mem_size \in 1 .. 2^16 - 1

KERNEL_MEMORY_META_DATA_SIZE == 7

\* A pool before it is used first has no mutex.
NoPool == [inited |-> FALSE, mutex |-> FALSE, used_size |-> 0, total_uid |-> 0, blocks |-> <<>>,
           overrun |-> FALSE]

kernel_mem_init(p) ==
    [inited |-> TRUE, mutex |-> TRUE, used_size |-> 0, total_uid |-> 0, blocks |-> <<>>,
     overrun |-> p.overrun]

kernel_mem_deinit(p) == [kernel_mem_init(p) EXCEPT !.inited = FALSE, !.mutex = p.mutex]

Has(p, uid) == \E b \in DOMAIN p.blocks : p.blocks[b].uid = uid
Block(p, uid) == CHOOSE b \in DOMAIN p.blocks : p.blocks[b].uid = uid
NewBlock(uid, size) == [uid |-> uid, len |-> KERNEL_MEMORY_META_DATA_SIZE + size]

\* The size of the data kernel_mem_get_Data_ptr gives out, 0 for NULL.
kernel_mem_get_Data_ptr(p, uid) ==
    IF p.inited /\ Has(p, uid)
    THEN p.blocks[Block(p, uid)].len - KERNEL_MEMORY_META_DATA_SIZE
    ELSE 0

\* The room left is a uint16_t, and leaves out the metadata of the new block.
AddError(p, uid, size) ==
    IF ~p.inited THEN "MEMPOOL_DEINITED"
    ELSE IF size = 0 THEN "INVALID_PARAM"
    ELSE IF size >= mem_size THEN "OUT_OF_MEM"
    ELSE IF Has(p, uid) THEN "UID_ALRDY_PRESENT"
    ELSE IF (mem_size - p.used_size) % 2^16 <= size THEN "OUT_OF_MEM"
    ELSE "OP_SUCCESS"

\* After a block is written behind the others.
Written(p) == [p EXCEPT !.overrun = @ \/ p.used_size >= mem_size]

kernel_mem_add_data(p, uid, size) ==
    IF AddError(p, uid, size) # "OP_SUCCESS" THEN p
    ELSE Written([p EXCEPT !.blocks = Append(@, NewBlock(uid, size)),
                           !.used_size = @ + NewBlock(uid, size).len,
                           !.total_uid = @ + 1])

kernel_mem_delete_data(p, uid) ==
    IF ~p.inited \/ ~Has(p, uid) THEN p
    ELSE [p EXCEPT !.blocks = RemoveAt(@, Block(p, uid)),
                   !.used_size = @ - p.blocks[Block(p, uid)].len,
                   !.total_uid = @ - 1]

\* The block is taken out and put behind the others, however long it is now.
kernel_mem_modify_data(p, uid, size) ==
    IF ~p.inited \/ size = 0 \/ ~Has(p, uid) THEN p
    ELSE Written([p EXCEPT !.blocks = Append(RemoveAt(@, Block(p, uid)), NewBlock(uid, size)),
                           !.used_size = @ + NewBlock(uid, size).len
                                           - p.blocks[Block(p, uid)].len])

==============================================================================
