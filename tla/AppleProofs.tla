----------------------------- MODULE AppleProofs -----------------------------
(***************************************************************************)
(* Theorems about Apple, for every peer, every size of the pool and of the *)
(* list, and every number of connections.                                  *)
(***************************************************************************)
EXTENDS Apple, FiniteSetTheorems, FunctionTheorems, SequenceTheorems, NaturalsInduction,
        WellFoundedInduction, TLAPS

(***************************************************************************)
(* The memory pool.                                                        *)
(***************************************************************************)
Blocks == [uid : Attributes, len : Int]
Pools == [inited : BOOLEAN, mutex : BOOLEAN, used_size : Int, total_uid : Int,
          blocks : Seq(Blocks), overrun : BOOLEAN]

\* What a block for a name of this length takes of the pool, 0 for no name.
Cost(len) == IF len = 0 THEN 0 ELSE KERNEL_MEMORY_META_DATA_SIZE + len

\* The pool p holds the names f, one block each, and its books agree.
PoolIs(p, f) ==
    /\ f \in [Attributes -> Nat]
    /\ \A b \in DOMAIN p.blocks :
         f[p.blocks[b].uid] # 0 /\ p.blocks[b].len = Cost(f[p.blocks[b].uid])
    /\ \A a \in Attributes : f[a] # 0 => Has(p, a)
    /\ \A b, c \in DOMAIN p.blocks : p.blocks[b].uid = p.blocks[c].uid => b = c
    /\ p.total_uid = Len(p.blocks)
    /\ p.used_size = Cost(f["mediaplayer"]) + Cost(f["track_name"])

\* Block finds the block of an attribute that has one.
LEMMA BlockIs ==
  ASSUME NEW p, NEW a, Has(p, a)
  PROVE  Block(p, a) \in DOMAIN p.blocks /\ p.blocks[Block(p, a)].uid = a
BY DEF Has, Block

\* What is left when the block at i is taken out.
LEMMA BlocksWithout ==
  ASSUME NEW s \in Seq(Blocks), NEW i \in DOMAIN s
  PROVE  /\ RemoveAt(s, i) \in Seq(Blocks)
         /\ Len(RemoveAt(s, i)) = Len(s) - 1
         /\ \A k \in 1 .. Len(s) - 1 :
              RemoveAt(s, i)[k] = IF k < i THEN s[k] ELSE s[k + 1]
<1> DEFINE left == SubSeq(s, 1, i - 1)
           right == SubSeq(s, i + 1, Len(s))
<1>1. i \in 1 .. Len(s) /\ Len(s) \in Nat
  OBVIOUS
<1>2. /\ left \in Seq(Blocks) /\ Len(left) = i - 1
      /\ \A k \in 1 .. i - 1 : left[k] = s[k]
  BY <1>1
<1>3. /\ right \in Seq(Blocks) /\ Len(right) = Len(s) - i
      /\ \A k \in 1 .. Len(s) - i : right[k] = s[k + i]
  BY <1>1
<1> HIDE DEF left, right
<1>4. /\ left \o right \in Seq(Blocks) /\ Len(left \o right) = Len(s) - 1
      /\ \A k \in 1 .. Len(s) - 1 :
           (left \o right)[k] = IF k < i THEN left[k] ELSE right[k - (i - 1)]
  <2>1. left \o right \in Seq(Blocks) /\ Len(left \o right) = Len(left) + Len(right)
    BY <1>2, <1>3, ConcatProperties
  <2>2. \A k \in 1 .. Len(left) + Len(right) :
          (left \o right)[k] = IF k <= Len(left) THEN left[k] ELSE right[k - Len(left)]
    BY <1>2, <1>3, ConcatProperties
  <2>3. Len(left) + Len(right) = Len(s) - 1
    BY <1>1, <1>2, <1>3
  <2>4. ASSUME NEW k \in 1 .. Len(s) - 1 PROVE k <= Len(left) <=> k < i
    BY <1>1, <1>2
  <2> QED
    BY <1>2, <2>1, <2>2, <2>3, <2>4
<1>5. ASSUME NEW k \in 1 .. Len(s) - 1
      PROVE  (left \o right)[k] = IF k < i THEN s[k] ELSE s[k + 1]
  <2>1. CASE k < i
    BY <2>1, <1>1, <1>2, <1>4
  <2>2. CASE ~(k < i)
    <3>1. k - (i - 1) \in 1 .. Len(s) - i /\ (k - (i - 1)) + i = k + 1
      BY <2>2, <1>1
    <3> QED
      BY <2>2, <3>1, <1>3, <1>4
  <2> QED
    BY <2>1, <2>2
<1> QED
  BY <1>4, <1>5 DEF left, right, RemoveAt

\* The operations leave a pool and say whether it is initialised.
LEMMA PoolsStayPools ==
  ASSUME NEW p \in Pools, NEW a \in Attributes, NEW len \in Nat
  PROVE  /\ kernel_mem_init(p) \in Pools /\ kernel_mem_deinit(p) \in Pools
         /\ Stored(p, a, len) \in Pools
         /\ Stored(p, a, len).inited = p.inited
<1>0. /\ p = [inited |-> p.inited, mutex |-> p.mutex, used_size |-> p.used_size,
               total_uid |-> p.total_uid, blocks |-> p.blocks, overrun |-> p.overrun]
      /\ p.inited \in BOOLEAN /\ p.mutex \in BOOLEAN /\ p.overrun \in BOOLEAN
      /\ p.used_size \in Int /\ p.total_uid \in Int /\ p.blocks \in Seq(Blocks)
  BY DEF Pools
<1>1. kernel_mem_init(p) \in Pools /\ kernel_mem_deinit(p) \in Pools
  <2> DEFINE q == [inited |-> TRUE, mutex |-> TRUE, used_size |-> 0, total_uid |-> 0,
                   blocks |-> <<>>, overrun |-> p.overrun]
  <2>1. <<>> \in Seq(Blocks)
    OBVIOUS
  <2>2. q \in Pools
    BY <1>0, <2>1 DEF Pools
  <2> HIDE DEF q
  <2>3. [q EXCEPT !.inited = FALSE, !.mutex = p.mutex] \in Pools
    BY <1>0, <2>2 DEF Pools
  <2> QED
    BY <2>2, <2>3 DEF q, kernel_mem_init, kernel_mem_deinit
<1>2. NewBlock(a, len) \in Blocks
  BY DEF NewBlock, Blocks, KERNEL_MEMORY_META_DATA_SIZE
<1>3. ASSUME NEW m \in Int, NEW n \in Int, NEW s \in Seq(Blocks), NEW o \in BOOLEAN, NEW q,
             q = [inited |-> p.inited, mutex |-> p.mutex, used_size |-> m, total_uid |-> n,
                  blocks |-> s, overrun |-> o]
      PROVE  q \in Pools /\ q.inited = p.inited
  BY <1>0, <1>3 DEF Pools
<1>4. kernel_mem_add_data(p, a, len) \in Pools /\ kernel_mem_add_data(p, a, len).inited = p.inited
  <2>1. CASE AddError(p, a, len) # "OP_SUCCESS"
    BY <2>1 DEF kernel_mem_add_data
  <2>2. CASE AddError(p, a, len) = "OP_SUCCESS"
    <3> DEFINE m == p.used_size + NewBlock(a, len).len
               s == Append(p.blocks, NewBlock(a, len))
               o == p.overrun \/ m >= mem_size
    <3>1. m \in Int /\ p.total_uid + 1 \in Int /\ s \in Seq(Blocks)
      BY <1>0, <1>2 DEF Blocks
    <3>2. kernel_mem_add_data(p, a, len)
          = [inited |-> p.inited, mutex |-> p.mutex, used_size |-> m,
             total_uid |-> p.total_uid + 1, blocks |-> s, overrun |-> o]
      BY <1>0, <2>2 DEF kernel_mem_add_data, Written
    <3>3. o \in BOOLEAN
      BY <1>0
    <3> HIDE DEF m, s, o
    <3> QED
      BY <1>3, <3>1, <3>2, <3>3
  <2> QED
    BY <2>1, <2>2
<1>5. CASE ~Has(p, a)
  BY <1>1, <1>4, <1>5 DEF Stored, kernel_mem_delete_data, kernel_mem_modify_data
<1>6. CASE Has(p, a)
  <2>1. Block(p, a) \in DOMAIN p.blocks
    BY <1>6, BlockIs
  <2>2. p.blocks[Block(p, a)].len \in Int
    <3>1. p.blocks[Block(p, a)] \in Blocks
      BY <1>0, <2>1
    <3> QED
      BY <3>1 DEF Blocks
  <2> DEFINE rest == RemoveAt(p.blocks, Block(p, a))
             moved == Append(rest, NewBlock(a, len))
             less == p.used_size - p.blocks[Block(p, a)].len
             more == p.used_size + NewBlock(a, len).len - p.blocks[Block(p, a)].len
             o == p.overrun \/ more >= mem_size
  <2>3. rest \in Seq(Blocks)
    BY <1>0, <2>1, BlocksWithout
  <2>4. moved \in Seq(Blocks) /\ less \in Int /\ more \in Int
    <3>1. moved \in Seq(Blocks)
      <4> HIDE DEF rest
      <4> QED
        BY <1>2, <2>3
    <3>2. NewBlock(a, len).len \in Int
      BY <1>2 DEF Blocks
    <3> QED
      BY <1>0, <2>2, <3>1, <3>2
  <2>5. CASE ~p.inited
    BY <1>1, <1>4, <2>5 DEF Stored, kernel_mem_delete_data, kernel_mem_modify_data
  <2>6. CASE p.inited
    <3>1. kernel_mem_delete_data(p, a)
          = [inited |-> p.inited, mutex |-> p.mutex, used_size |-> less,
             total_uid |-> p.total_uid - 1, blocks |-> rest, overrun |-> p.overrun]
      BY <1>0, <1>6, <2>6 DEF kernel_mem_delete_data
    <3>2. len # 0 => kernel_mem_modify_data(p, a, len)
                     = [inited |-> p.inited, mutex |-> p.mutex, used_size |-> more,
                        total_uid |-> p.total_uid, blocks |-> moved, overrun |-> o]
      BY <1>0, <1>6, <2>6 DEF kernel_mem_modify_data, Written
    <3>3. /\ p.total_uid - 1 \in Int /\ p.total_uid \in Int
          /\ o \in BOOLEAN /\ p.overrun \in BOOLEAN
      BY <1>0
    <3> HIDE DEF rest, moved, less, more, o
    <3>4. /\ kernel_mem_delete_data(p, a) \in Pools
          /\ kernel_mem_delete_data(p, a).inited = p.inited
      BY <1>3, <2>3, <2>4, <3>1, <3>3
    <3>5. len # 0 => /\ kernel_mem_modify_data(p, a, len) \in Pools
                     /\ kernel_mem_modify_data(p, a, len).inited = p.inited
      BY <1>3, <2>4, <3>2, <3>3
    <3> QED
      BY <1>1, <1>4, <3>4, <3>5 DEF Stored
  <2> QED
    BY <1>0, <2>5, <2>6
<1> QED
  BY <1>1, <1>5, <1>6

\* kernel_mem_get_Data_ptr gives out what a pool holds.
LEMMA GetIs ==
  ASSUME NEW p, NEW f, PoolIs(p, f), p.inited, NEW a \in Attributes
  PROVE  kernel_mem_get_Data_ptr(p, a) = f[a]
<1>1. f[a] \in Nat
  BY DEF PoolIs
<1>2. CASE Has(p, a)
  <2>1. Block(p, a) \in DOMAIN p.blocks /\ p.blocks[Block(p, a)].uid = a
    BY <1>2, BlockIs
  <2>2. f[a] # 0 /\ p.blocks[Block(p, a)].len = Cost(f[a])
    BY <2>1 DEF PoolIs
  <2> QED
    BY <1>1, <1>2, <2>2 DEF kernel_mem_get_Data_ptr, Cost, KERNEL_MEMORY_META_DATA_SIZE
<1>3. CASE ~Has(p, a)
  BY <1>3 DEF kernel_mem_get_Data_ptr, PoolIs
<1> QED
  BY <1>2, <1>3

\* A pool that was just initialised holds no name.
LEMMA FreshPool ==
  ASSUME NEW p
  PROVE  PoolIs(kernel_mem_init(p), NoNames)
BY DEF PoolIs, kernel_mem_init, NoNames, Cost, Attributes

\* The costs after one name has changed.
LEMMA CostsAre ==
  ASSUME NEW f \in [Attributes -> Nat], NEW a \in Attributes, NEW len \in Nat
  PROVE  LET g == [f EXCEPT ![a] = len]
         IN  Cost(g["mediaplayer"]) + Cost(g["track_name"])
             = Cost(f["mediaplayer"]) + Cost(f["track_name"]) + Cost(len) - Cost(f[a])
<1> DEFINE g == [f EXCEPT ![a] = len]
<1>1. "mediaplayer" \in Attributes /\ "track_name" \in Attributes
  BY DEF Attributes
<1>2. Cost(f["mediaplayer"]) \in Nat /\ Cost(f["track_name"]) \in Nat /\ Cost(len) \in Nat
  BY <1>1 DEF Cost, KERNEL_MEMORY_META_DATA_SIZE
<1>3. CASE a = "mediaplayer"
  BY <1>1, <1>2, <1>3
<1>4. CASE a = "track_name"
  BY <1>1, <1>2, <1>4
<1> QED
  BY <1>3, <1>4 DEF Attributes

\* A block of its own for a name that comes for the first time.
LEMMA AppendedIs ==
  ASSUME NEW p \in Pools, NEW q \in Pools, NEW f, PoolIs(p, f),
         NEW a \in Attributes, f[a] = 0, NEW len \in Nat \ {0},
         q.blocks = Append(p.blocks, NewBlock(a, len)),
         q.used_size = p.used_size + Cost(len), q.total_uid = p.total_uid + 1
  PROVE  PoolIs(q, [f EXCEPT ![a] = len])
<1> DEFINE s == p.blocks
           g == [f EXCEPT ![a] = len]
           b == NewBlock(a, len)
<1>1. /\ s \in Seq(Blocks) /\ Len(s) \in Nat /\ f \in [Attributes -> Nat]
      /\ \A k \in 1 .. Len(s) : f[s[k].uid] # 0 /\ s[k].len = Cost(f[s[k].uid])
      /\ \A k, l \in 1 .. Len(s) : s[k].uid = s[l].uid => k = l
  BY DEF Pools, PoolIs
<1>2. b.uid = a /\ b.len = Cost(len) /\ b \in Blocks
  BY DEF NewBlock, Cost, Blocks, KERNEL_MEMORY_META_DATA_SIZE
<1> HIDE DEF b
<1>3. /\ q.blocks = Append(s, b)
      /\ DOMAIN q.blocks = 1 .. Len(s) + 1 /\ Len(q.blocks) = Len(s) + 1
      /\ \A k \in 1 .. Len(s) : q.blocks[k] = s[k]
      /\ q.blocks[Len(s) + 1] = b
  BY <1>1, <1>2 DEF b
<1>4. /\ g \in [Attributes -> Nat] /\ g[a] = len
      /\ \A c \in Attributes : c # a => g[c] = f[c]
  BY <1>1
<1>5. \A k \in 1 .. Len(s) : s[k].uid # a /\ s[k].uid \in Attributes
  <2>1. \A k \in 1 .. Len(s) : s[k] \in Blocks
    BY <1>1
  <2> HIDE DEF s
  <2> QED
    BY <1>1, <2>1 DEF Blocks
<1>6. \A k \in 1 .. Len(s) + 1 : k = Len(s) + 1 \/ k \in 1 .. Len(s)
  BY <1>1
<1> HIDE DEF s, g
<1>7. \A k \in DOMAIN q.blocks :
        g[q.blocks[k].uid] # 0 /\ q.blocks[k].len = Cost(g[q.blocks[k].uid])
  <2> TAKE k \in DOMAIN q.blocks
  <2>1. CASE k = Len(s) + 1
    BY <1>2, <1>3, <1>4, <2>1
  <2>2. CASE k \in 1 .. Len(s)
    BY <1>1, <1>3, <1>4, <1>5, <2>2
  <2> QED
    BY <1>3, <1>6, <2>1, <2>2
<1>8. ASSUME NEW c \in Attributes, g[c] # 0 PROVE Has(q, c)
  <2>1. CASE c = a
    <3>1. Len(s) + 1 \in DOMAIN q.blocks /\ q.blocks[Len(s) + 1].uid = a
      BY <1>1, <1>2, <1>3
    <3> QED
      BY <2>1, <3>1 DEF Has
  <2>2. CASE c # a
    <3>1. f[c] # 0
      BY <1>4, <1>8, <2>2
    <3>2. Has(p, c)
      BY <3>1 DEF PoolIs
    <3>3. PICK k \in 1 .. Len(s) : s[k].uid = c
      BY <1>1, <3>2 DEF Has, s
    <3> QED
      BY <1>1, <1>3, <3>3 DEF Has
  <2> QED
    BY <2>1, <2>2
<1>9. ASSUME NEW k \in DOMAIN q.blocks, NEW l \in DOMAIN q.blocks,
             q.blocks[k].uid = q.blocks[l].uid
      PROVE  k = l
  BY <1>1, <1>2, <1>3, <1>5, <1>6, <1>9
<1>10. q.total_uid = Len(q.blocks)
  BY <1>3 DEF PoolIs, s
<1>11. q.used_size = Cost(g["mediaplayer"]) + Cost(g["track_name"])
  <2>1. Cost(f[a]) = 0
    BY DEF Cost
  <2>2. /\ p.used_size = Cost(f["mediaplayer"]) + Cost(f["track_name"])
        /\ q.used_size = p.used_size + Cost(len)
    BY DEF PoolIs
  <2>3. Cost(len) \in Int
    BY DEF Cost, KERNEL_MEMORY_META_DATA_SIZE
  <2>4. Cost(f["mediaplayer"]) \in Int /\ Cost(f["track_name"]) \in Int
    BY <1>1 DEF Cost, KERNEL_MEMORY_META_DATA_SIZE, Attributes
  <2>5. Cost(g["mediaplayer"]) + Cost(g["track_name"])
        = Cost(f["mediaplayer"]) + Cost(f["track_name"]) + Cost(len) - Cost(f[a])
    BY <1>1, CostsAre DEF g
  <2> QED
    BY <2>1, <2>2, <2>3, <2>4, <2>5
<1> QED
  BY <1>4, <1>7, <1>8, <1>9, <1>10, <1>11 DEF PoolIs, g

\* The block of a name that is taken away.
LEMMA RemovedIs ==
  ASSUME NEW p \in Pools, NEW q \in Pools, NEW f, PoolIs(p, f),
         NEW a \in Attributes, Has(p, a),
         q.blocks = RemoveAt(p.blocks, Block(p, a)),
         q.used_size = p.used_size - p.blocks[Block(p, a)].len,
         q.total_uid = p.total_uid - 1
  PROVE  PoolIs(q, [f EXCEPT ![a] = 0])
<1> DEFINE s == p.blocks
           g == [f EXCEPT ![a] = 0]
           b == Block(p, a)
<1>1. /\ s \in Seq(Blocks) /\ Len(s) \in Nat /\ f \in [Attributes -> Nat]
      /\ \A k \in 1 .. Len(s) : f[s[k].uid] # 0 /\ s[k].len = Cost(f[s[k].uid])
      /\ \A k, l \in 1 .. Len(s) : s[k].uid = s[l].uid => k = l
  BY DEF Pools, PoolIs
<1>2. b \in 1 .. Len(s) /\ s[b].uid = a /\ s[b].len = Cost(f[a])
  <2>1. b \in DOMAIN s /\ s[b].uid = a
    BY BlockIs
  <2> QED
    BY <1>1, <2>1
<1> DEFINE At(k) == IF k < b THEN k ELSE k + 1
<1>3. /\ DOMAIN q.blocks = 1 .. Len(s) - 1 /\ Len(q.blocks) = Len(s) - 1
      /\ \A k \in 1 .. Len(s) - 1 : q.blocks[k] = s[At(k)]
  <2> HIDE DEF b
  <2>1. b \in DOMAIN s
    BY <1>1, <1>2
  <2>2. /\ RemoveAt(s, b) \in Seq(Blocks)
        /\ Len(RemoveAt(s, b)) = Len(s) - 1
        /\ \A k \in 1 .. Len(s) - 1 :
              RemoveAt(s, b)[k] = IF k < b THEN s[k] ELSE s[k + 1]
    BY <1>1, <2>1, BlocksWithout
  <2>3. q.blocks = RemoveAt(s, b)
    BY DEF b
  <2> HIDE DEF s
  <2> QED
    BY <2>2, <2>3
<1>4. /\ g \in [Attributes -> Nat] /\ g[a] = 0
      /\ \A c \in Attributes : c # a => g[c] = f[c]
  BY <1>1
<1> HIDE DEF b
<1>5. \A k \in 1 .. Len(s) - 1 : At(k) \in 1 .. Len(s) /\ At(k) # b
  BY <1>1, <1>2
<1>6. \A k, l \in 1 .. Len(s) - 1 : At(k) = At(l) => k = l
  BY <1>1, <1>2
<1>7. \A k \in 1 .. Len(s) : k # b => \E l \in 1 .. Len(s) - 1 : At(l) = k
  <2> TAKE k \in 1 .. Len(s)
  <2> HAVE k # b
  <2>1. CASE k < b
    <3>1. k \in 1 .. Len(s) - 1 /\ At(k) = k
      BY <1>1, <1>2, <2>1
    <3> HIDE DEF At
    <3> QED
      BY <3>1
  <2>2. CASE k > b
    <3>1. k - 1 \in 1 .. Len(s) - 1 /\ At(k - 1) = k
      BY <1>1, <1>2, <2>2
    <3> HIDE DEF At
    <3> QED
      BY <3>1
  <2> QED
    BY <1>1, <1>2, <2>1, <2>2
<1>8. \A k \in 1 .. Len(s) : s[k].uid \in Attributes /\ (k # b => s[k].uid # a)
  <2>1. \A k \in 1 .. Len(s) : s[k] \in Blocks
    BY <1>1
  <2> QED
    BY <1>1, <1>2, <2>1 DEF Blocks
<1> HIDE DEF At, s, g
<1>9. \A k \in DOMAIN q.blocks :
        g[q.blocks[k].uid] # 0 /\ q.blocks[k].len = Cost(g[q.blocks[k].uid])
  <2> TAKE k \in DOMAIN q.blocks
  <2>1. q.blocks[k] = s[At(k)] /\ At(k) \in 1 .. Len(s) /\ At(k) # b
    BY <1>3, <1>5
  <2>2. g[s[At(k)].uid] = f[s[At(k)].uid]
    BY <1>4, <1>8, <2>1
  <2> QED
    BY <1>1, <2>1, <2>2
<1>10. ASSUME NEW c \in Attributes, g[c] # 0 PROVE Has(q, c)
  <2>1. f[c] # 0
    BY <1>4, <1>10
  <2>2. Has(p, c)
    BY <2>1 DEF PoolIs
  <2>3. PICK k \in 1 .. Len(s) : s[k].uid = c
    BY <1>1, <2>2 DEF Has, s
  <2>4. k # b
    BY <1>2, <1>4, <1>10, <2>3
  <2>5. PICK l \in 1 .. Len(s) - 1 : At(l) = k
    BY <1>7, <2>4
  <2> QED
    BY <1>3, <2>3, <2>5 DEF Has
<1>11. \A k, l \in DOMAIN q.blocks : q.blocks[k].uid = q.blocks[l].uid => k = l
  BY <1>1, <1>3, <1>5, <1>6
<1>12. q.total_uid = Len(q.blocks)
  BY <1>3 DEF PoolIs, s
<1>13. q.used_size = Cost(g["mediaplayer"]) + Cost(g["track_name"])
  <2>1. q.used_size = p.used_size - Cost(f[a])
    BY <1>2 DEF s, b
  <2>2. p.used_size = Cost(f["mediaplayer"]) + Cost(f["track_name"])
    BY DEF PoolIs
  <2>3. Cost(0) = 0
    BY DEF Cost
  <2>4. Cost(f["mediaplayer"]) \in Int /\ Cost(f["track_name"]) \in Int /\ Cost(f[a]) \in Int
    BY <1>1 DEF Cost, KERNEL_MEMORY_META_DATA_SIZE, Attributes
  <2> QED
    BY <1>1, <2>1, <2>2, <2>3, <2>4, CostsAre DEF g
<1> QED
  BY <1>4, <1>9, <1>10, <1>11, <1>12, <1>13 DEF PoolIs, g

\* A name that is not refused for want of room takes the place of the one before.
LEMMA StoredIs ==
  ASSUME NEW p \in Pools, NEW f, PoolIs(p, f), p.inited,
         NEW a \in Attributes, NEW len \in Nat, len < mem_size,
         len # 0 => AddError(p, a, len) # "OUT_OF_MEM"
  PROVE  PoolIs(Stored(p, a, len), [f EXCEPT ![a] = len])
<1> DEFINE q == Stored(p, a, len)
<1>1. q \in Pools /\ f \in [Attributes -> Nat]
  BY PoolsStayPools DEF PoolIs
<1>2. ~Has(p, a) => f[a] = 0
  BY DEF PoolIs
<1>3. CASE len = 0 /\ ~Has(p, a)
  <2>1. q = p
    BY <1>3 DEF Stored, kernel_mem_delete_data
  <2>2. [f EXCEPT ![a] = len] = f
    BY <1>1, <1>2, <1>3
  <2> QED
    BY <2>1, <2>2
<1>4. CASE len = 0 /\ Has(p, a)
  <2>1. q = [p EXCEPT !.blocks = RemoveAt(@, Block(p, a)),
                      !.used_size = @ - p.blocks[Block(p, a)].len,
                      !.total_uid = @ - 1]
    BY <1>4 DEF Stored, kernel_mem_delete_data
  <2>2. /\ q.blocks = RemoveAt(p.blocks, Block(p, a))
        /\ q.used_size = p.used_size - p.blocks[Block(p, a)].len
        /\ q.total_uid = p.total_uid - 1
    BY <2>1 DEF Pools
  <2> HIDE DEF q
  <2>3. PoolIs(q, [f EXCEPT ![a] = 0])
    BY <1>1, <1>4, <2>2, RemovedIs
  <2> QED
    BY <1>4, <2>3 DEF q
<1>5. CASE len # 0 /\ ~Has(p, a)
  <2>1. AddError(p, a, len) = "OP_SUCCESS"
    BY <1>5, KernelMemAssumption DEF AddError
  <2>2. q = Written([p EXCEPT !.blocks = Append(@, NewBlock(a, len)),
                              !.used_size = @ + NewBlock(a, len).len,
                              !.total_uid = @ + 1])
    BY <1>5, <2>1 DEF Stored, kernel_mem_add_data
  <2>3. NewBlock(a, len).len = Cost(len)
    BY <1>5 DEF NewBlock, Cost
  <2>4. /\ q.blocks = Append(p.blocks, NewBlock(a, len))
        /\ q.used_size = p.used_size + Cost(len)
        /\ q.total_uid = p.total_uid + 1
    BY <2>2, <2>3 DEF Pools, Written
  <2> HIDE DEF q
  <2> QED
    BY <1>1, <1>2, <1>5, <2>4, AppendedIs DEF q
<1>6. CASE len # 0 /\ Has(p, a)
  <2> DEFINE r == kernel_mem_delete_data(p, a)
  <2>1. q = kernel_mem_modify_data(p, a, len)
    BY <1>6, KernelMemAssumption DEF Stored, AddError
  <2>2. q = Written([p EXCEPT !.blocks = Append(RemoveAt(@, Block(p, a)), NewBlock(a, len)),
                              !.used_size = @ + NewBlock(a, len).len
                                              - p.blocks[Block(p, a)].len])
    BY <1>6, <2>1 DEF kernel_mem_modify_data
  <2>3. r = [p EXCEPT !.blocks = RemoveAt(@, Block(p, a)),
                      !.used_size = @ - p.blocks[Block(p, a)].len,
                      !.total_uid = @ - 1]
    BY <1>6 DEF kernel_mem_delete_data
  <2>4. /\ r.blocks = RemoveAt(p.blocks, Block(p, a))
        /\ r.used_size = p.used_size - p.blocks[Block(p, a)].len
        /\ r.total_uid = p.total_uid - 1
    BY <2>3 DEF Pools
  <2>5. r \in Pools
    <3>1. Stored(p, a, 0) = r
      BY DEF Stored
    <3> QED
      BY <3>1, PoolsStayPools
  <2>6. PoolIs(r, [f EXCEPT ![a] = 0])
    <3> HIDE DEF r
    <3> QED
      BY <1>1, <1>6, <2>4, <2>5, RemovedIs
  <2>7. NewBlock(a, len).len = Cost(len) /\ Cost(len) \in Int
    BY <1>6 DEF NewBlock, Cost, KERNEL_MEMORY_META_DATA_SIZE
  <2>8. p.blocks[Block(p, a)].len \in Int /\ p.used_size \in Int /\ p.total_uid \in Int
    <3>1. Block(p, a) \in DOMAIN p.blocks /\ p.blocks \in Seq(Blocks)
      BY <1>6, BlockIs DEF Pools
    <3>2. p.blocks[Block(p, a)] \in Blocks
      BY <3>1
    <3> QED
      BY <3>2 DEF Blocks, Pools
  <2>9. /\ q.blocks = Append(RemoveAt(p.blocks, Block(p, a)), NewBlock(a, len))
        /\ q.used_size = p.used_size + NewBlock(a, len).len - p.blocks[Block(p, a)].len
        /\ q.total_uid = p.total_uid
    BY <2>2 DEF Pools, Written
  <2> HIDE DEF q, r
  <2>10. /\ q.blocks = Append(r.blocks, NewBlock(a, len))
         /\ q.used_size = r.used_size + Cost(len)
         /\ q.total_uid = r.total_uid + 1
    BY <2>4, <2>7, <2>8, <2>9
  <2> DEFINE g == [f EXCEPT ![a] = 0]
  <2>11. g[a] = 0 /\ [g EXCEPT ![a] = len] = [f EXCEPT ![a] = len]
    BY <1>1
  <2> HIDE DEF g
  <2>12. PoolIs(q, [g EXCEPT ![a] = len])
    BY <1>1, <1>6, <2>5, <2>6, <2>10, <2>11, AppendedIs DEF g
  <2> QED
    BY <2>11, <2>12 DEF q
<1> QED
  BY <1>3, <1>4, <1>5, <1>6

(***************************************************************************)
(* The linked list.                                                        *)
(***************************************************************************)
Links == 0 .. total_poss_node + 1
Notifs == [uid : Nat, version : Nat]
Lists == [inited : BOOLEAN, head_ptr : Links, total_link_nodes : Int,
          next_link : [Nodes -> Links], data : [Nodes -> Notifs], wild : BOOLEAN]

\* Min gives the least of a nonempty set of naturals.
LEMMA LeastIs ==
  ASSUME NEW T, T \subseteq Nat, T # {}
  PROVE  Min(T) \in T /\ \A y \in T : Min(T) <= y
<1> DEFINE R == OpToRel(<, Nat)
<1>1. IsWellFoundedOn(R, Nat)
  BY NatLessThanWellFounded, Zenon
<1>2. \A x, y \in Nat : x < y => <<x, y>> \in R
  BY Zenon DEF OpToRel
<1> HIDE DEF R
<1>3. PICK x \in T : \A y \in T : ~ (<<y, x>> \in R)
  BY <1>1, WFMin
<1>4. ASSUME NEW y \in T PROVE x <= y
  <2>1. ~(y < x)
    BY <1>2, <1>3
  <2> QED
    BY <2>1
<1> QED
  BY <1>3, <1>4 DEF Min

\* The fields of a list.
LEMMA ListFields ==
  ASSUME NEW l \in Lists
  PROVE  /\ l.inited \in BOOLEAN /\ l.wild \in BOOLEAN
         /\ l.head_ptr \in Links /\ l.total_link_nodes \in Int
         /\ l.next_link \in [Nodes -> Links] /\ l.data \in [Nodes -> Notifs]
BY DEF Lists

\* The operations leave a list.
LEMMA ListsStayLists ==
  ASSUME NEW l \in Lists, NEW u \in Nat, NEW d \in Notifs
  PROVE  /\ HeadReset(l) \in Lists /\ MemoryReset(l) \in Lists /\ kernel_ll_deinit(l) \in Lists
         /\ kernel_ll_add_data(l, d) \in Lists
         /\ kernel_ll_modify_data(l, u, d) \in Lists
         /\ kernel_ll_remove_data(l, u) \in Lists
<1>0. total_poss_node \in Nat \ {0}
  BY KernelLinkListAssumption
<1>1. NoData \in Notifs /\ NULL \in Links /\ LINK_TERMINATED \in Links /\ 1 \in Nodes
      /\ 1 \in Links /\ Nodes \subseteq Links /\ Nodes \subseteq Nat
  BY <1>0 DEF NoData, Notifs, NULL, LINK_TERMINATED, Links, Nodes
<1> HIDE DEF Links, Notifs
<1>2. HeadReset(l) \in Lists
  <2> DEFINE m == [l EXCEPT !.head_ptr = NULL]
  <2>1. m \in Lists
    BY <1>1 DEF Lists
  <2>2. HeadReset(l) = [m EXCEPT !.total_link_nodes = 0]
    BY DEF HeadReset
  <2> HIDE DEF m
  <2> QED
    BY <2>1, <2>2 DEF Lists
<1>3. Cleared(l) \in Lists
  BY <1>1 DEF Cleared, ZeroedMemory, Lists
<1>4. MemoryReset(l) \in Lists
  <2> DEFINE c == Cleared(l)
  <2>1. c \in Lists
    BY <1>3
  <2> HIDE DEF c
  <2>2. [c EXCEPT !.inited = TRUE] \in Lists
    BY <2>1 DEF Lists
  <2> QED
    BY <2>2 DEF c, MemoryReset
<1>5. Wild(l) \in Lists
  BY DEF Wild, Lists
<1>6. kernel_ll_add_data(l, d) \in Lists
  <2> DEFINE free == {n \in Nodes : l.next_link[n] = NULL}
             node == IF l.head_ptr = NULL THEN 1 ELSE Min(free)
             tail == CHOOSE n \in Linked(l) : l.next_link[n] = LINK_TERMINATED
             links == IF l.head_ptr = NULL THEN l.next_link
                      ELSE [l.next_link EXCEPT ![tail] = node]
             head == IF l.head_ptr = NULL THEN 1 ELSE l.head_ptr
             next == [links EXCEPT ![node] = LINK_TERMINATED]
             data == [l.data EXCEPT ![node] = d]
  <2>1. CASE l.wild \/ ~l.inited \/ l.total_link_nodes >= total_poss_node
    BY <2>1 DEF kernel_ll_add_data
  <2>2. CASE /\ ~(l.wild \/ ~l.inited \/ l.total_link_nodes >= total_poss_node)
             /\ l.head_ptr # NULL /\ (free = {} \/ ~Terminated(l))
    BY <1>5, <2>2 DEF kernel_ll_add_data
  <2>3. CASE /\ ~(l.wild \/ ~l.inited \/ l.total_link_nodes >= total_poss_node)
             /\ ~(l.head_ptr # NULL /\ (free = {} \/ ~Terminated(l)))
    <3>1. node \in Nodes
      <4>1. CASE l.head_ptr = NULL
        BY <1>1, <4>1
      <4>2. CASE l.head_ptr # NULL
        <5>1. free # {} /\ free \subseteq Nat /\ free \subseteq Nodes
          BY <1>1, <2>3, <4>2
        <5> HIDE DEF free
        <5>2. Min(free) \in free
          BY <5>1, LeastIs
        <5> QED
          BY <4>2, <5>1, <5>2
      <4> QED
        BY <4>1, <4>2
    <3> HIDE DEF node, tail, free
    <3>2. links \in [Nodes -> Links]
      BY <1>1, <3>1, ListFields
    <3> HIDE DEF links
    <3>3. next \in [Nodes -> Links] /\ data \in [Nodes -> Notifs] /\ head \in Links
      BY <1>1, <3>1, <3>2, ListFields
    <3>4. kernel_ll_add_data(l, d)
          = [l EXCEPT !.head_ptr = IF @ = NULL THEN 1 ELSE @,
                      !.next_link = [links EXCEPT ![node] = LINK_TERMINATED],
                      !.data[node] = d,
                      !.total_link_nodes = @ + 1]
      BY <2>3 DEF kernel_ll_add_data, links, node, tail, free
    <3> HIDE DEF next
    <3> DEFINE m1 == [l EXCEPT !.head_ptr = head]
               m2 == [m1 EXCEPT !.next_link = next]
               m3 == [m2 EXCEPT !.data = data]
    <3>5. kernel_ll_add_data(l, d) = [m3 EXCEPT !.total_link_nodes = @ + 1]
      BY <3>4 DEF next, Lists
    <3> HIDE DEF data, head
    <3>6. m1 \in Lists
      BY <3>3 DEF Lists
    <3> HIDE DEF m1
    <3>7. m2 \in Lists
      BY <3>3, <3>6 DEF Lists
    <3> HIDE DEF m2
    <3>8. m3 \in Lists
      BY <3>3, <3>7 DEF Lists
    <3> HIDE DEF m3
    <3> QED
      BY <3>5, <3>8 DEF Lists
  <2> QED
    BY <2>1, <2>2, <2>3
<1>7. ASSUME NEW last \in Int, Places(l, u, last) # {}
      PROVE  /\ Min(Places(l, u, last)) \in Places(l, u, last)
             /\ Walk(l)[Min(Places(l, u, last))] \in Nodes
  <2>1. Places(l, u, last) \subseteq Nat
    BY DEF Places
  <2>2. Min(Places(l, u, last)) \in Places(l, u, last)
    BY <1>7, <2>1, LeastIs
  <2> QED
    BY <2>2 DEF Places, Linked
<1>8. kernel_ll_modify_data(l, u, d) \in Lists
  <2> DEFINE node == Walk(l)[Min(Places(l, u, total_poss_node - 1))]
  <2>1. [l EXCEPT !.data[node] = d] \in Lists
    <3> HIDE DEF node
    <3> QED
      BY DEF Lists
  <2> QED
    BY <1>5, <2>1 DEF kernel_ll_modify_data
<1>9. kernel_ll_remove_data(l, u) \in Lists
  <2> DEFINE last == l.total_link_nodes - 1
             k == Min(Places(l, u, last))
             node == Walk(l)[k]
  <2>1. CASE Places(l, u, last) # {} /\ ~(l.wild \/ ~l.inited \/ l.head_ptr = NULL)
    <3>1. last \in Int
      BY ListFields
    <3>2. node \in Nodes
      BY <1>7, <2>1, <3>1
    <3> HIDE DEF node, k
    <3> DEFINE next == l.next_link[node]
    <3>3. next \in Links
      BY <3>2, ListFields
    <3>4. Unlinked(l, k) \in Lists
      <4> DEFINE before == Walk(l)[k - 1]
                 head == IF next = LINK_TERMINATED THEN NULL ELSE next
      <4>1. head \in Links
        BY <1>1, <3>3
      <4>2. [l EXCEPT !.head_ptr = head] \in Lists
        <5> HIDE DEF head
        <5> QED
          BY <4>1 DEF Lists
      <4>3. [l EXCEPT !.next_link[before] = next] \in Lists
        <5> HIDE DEF before, next
        <5> QED
          BY <3>3 DEF Lists
      <4> HIDE DEF before, head
      <4> QED
        BY <4>2, <4>3 DEF Unlinked, node, before, head
    <3> DEFINE m == Unlinked(l, k)
    <3>5. kernel_ll_remove_data(l, u)
          = [m EXCEPT !.next_link[node] = NULL, !.data[node] = NoData, !.total_link_nodes = @ - 1]
      BY <2>1 DEF kernel_ll_remove_data, node, k
    <3> DEFINE m1 == [m EXCEPT !.next_link[node] = NULL]
               m2 == [m1 EXCEPT !.data[node] = NoData]
    <3>6. kernel_ll_remove_data(l, u) = [m2 EXCEPT !.total_link_nodes = @ - 1]
      BY <3>5
    <3>7. m \in Lists
      BY <3>4
    <3> HIDE DEF m
    <3>8. m1 \in Lists
      BY <1>1, <3>7 DEF Lists
    <3> HIDE DEF m1
    <3>9. m2 \in Lists
      BY <1>1, <3>8 DEF Lists
    <3> HIDE DEF m2
    <3> QED
      BY <3>6, <3>9 DEF Lists
  <2> QED
    BY <1>5, <2>1 DEF kernel_ll_remove_data
<1> QED
  BY <1>2, <1>3, <1>4, <1>6, <1>8, <1>9 DEF kernel_ll_deinit

(***************************************************************************)
(* Types.                                                                  *)
(***************************************************************************)
KernelCmds == {"connected", "disconnected", "notif_recv"}
AmsHandlers == [conn_handle : BOOLEAN, inited : BOOLEAN, found : BOOLEAN, cmds : SUBSET Commands]
AncsHandlers == [conn_handle : BOOLEAN, found : BOOLEAN, total_notif_present : Nat,
                 last_nuid : Nat]

Types ==
    /\ link \in BOOLEAN /\ registered \in BOOLEAN
    /\ kernel_cmd_q \in Seq(KernelCmds)
    /\ ble_ams_handler \in AmsHandlers
    /\ ble_ams_mem_inst \in Pools
    /\ ble_ancs_handler \in AncsHandlers
    /\ ble_ancs_ll_inst \in Lists
    /\ names \in [Attributes -> Nat]
    /\ present \in [Uids -> 0 .. 2]

\* What kernel_send_cmd does to the queue.
LEMMA SendsIs ==
  ASSUME kernel_cmd_q \in Seq(KernelCmds), NEW cmd \in KernelCmds, Sends(cmd)
  PROVE  kernel_cmd_q' \in Seq(KernelCmds)
BY DEF Sends

\* The fields and the queue start with values of their types.
LEMMA TypesInit == Init => Types
<1> SUFFICES ASSUME Init PROVE Types
  OBVIOUS
<1>0. total_poss_node \in Nat \ {0}
  BY KernelLinkListAssumption
<1>1. NoPool \in Pools
  <2>1. <<>> \in Seq(Blocks)
    OBVIOUS
  <2> QED
    BY <2>1 DEF NoPool, Pools
<1>2. NoList \in Lists
  <2>1. ZeroedMemory \in [Nodes -> Links] /\ [n \in Nodes |-> NoData] \in [Nodes -> Notifs]
    BY <1>0 DEF ZeroedMemory, Links, NULL, NoData, Notifs
  <2>2. NULL \in Links
    BY <1>0 DEF NULL, Links
  <2> QED
    BY <2>1, <2>2 DEF NoList, Lists
<1>3. kernel_cmd_q \in Seq(KernelCmds) /\ link \in BOOLEAN /\ registered \in BOOLEAN
  <2>1. <<>> \in Seq(KernelCmds)
    OBVIOUS
  <2> QED
    BY <2>1 DEF Init
<1>4. ble_ams_handler \in AmsHandlers /\ ble_ancs_handler \in AncsHandlers
  BY DEF Init, AmsHandlers, AncsHandlers
<1>5. names \in [Attributes -> Nat] /\ present \in [Uids -> 0 .. 2]
  BY DEF Init, NoNames, Absent
<1> QED
  BY <1>1, <1>2, <1>3, <1>4, <1>5 DEF Init, Types

\* The values a peer sends.
LEMMA PeersValues ==
  /\ \A len \in Lengths \cup {0} : len \in Nat /\ len < mem_size
  /\ \A u \in Uids : u \in Nat /\ u # 0
  /\ \A u \in Uids, n \in {1, 2} : [uid |-> u, version |-> n] \in Notifs
BY AppleAssumption, KernelMemAssumption DEF Notifs

\* ... and keep them whatever the peer does,
LEMMA TypesPeer == Types /\ Peer => Types'
<1> SUFFICES ASSUME Types, Peer PROVE Types'
  OBVIOUS
<1> USE DEF KernelCmds
<1>1. CASE Connect
  <2>1. kernel_cmd_q' \in Seq(KernelCmds)
    BY <1>1, SendsIs DEF Types, Connect
  <2>2. names' \in [Attributes -> Nat] /\ present' \in [Uids -> 0 .. 2]
    BY <1>1 DEF Connect, NoNames, Absent
  <2> QED
    BY <1>1, <2>1, <2>2 DEF Connect, Types, ams, ancs
<1>2. CASE Disconnect
  <2>1. kernel_cmd_q' \in Seq(KernelCmds)
    BY <1>2, SendsIs DEF Types, Disconnect
  <2> QED
    BY <1>2, <2>1 DEF Disconnect, Types, ams, ancs, sent
<1>3. CASE Timeout
  <2>1. kernel_cmd_q' \in Seq(KernelCmds)
    BY <1>3, SendsIs DEF Types, Timeout
  <2> QED
    BY <1>3, <2>1 DEF Timeout, Types, peer, ams, ancs, sent
<1>4. ASSUME NEW S \in SUBSET Commands, CommandsUpdate(S) PROVE Types'
  <2>1. ble_ams_handler' \in AmsHandlers
    BY <1>4 DEF CommandsUpdate, Types, AmsHandlers
  <2> QED
    BY <1>4, <2>1 DEF CommandsUpdate, Types, peer, ancs
<1>5. ASSUME NEW a \in Attributes, NEW len \in Lengths \cup {0}, NameUpdate(a, len) PROVE Types'
  <2>1. len \in Nat
    BY PeersValues
  <2>2. ble_ams_mem_inst' \in Pools
    BY <1>5, <2>1, PoolsStayPools DEF NameUpdate, Types
  <2>3. names' \in [Attributes -> Nat]
    BY <1>5, <2>1 DEF NameUpdate, Types
  <2> QED
    BY <1>5, <2>2, <2>3 DEF NameUpdate, Types, peer, ancs
<1>6. ASSUME NEW u \in Uids, NEW n \in 0 .. 2, NEW l \in Lists, NEW last \in Nat,
             NEW total \in Int, Announces(u, n, l, last, total), kernel_cmd_q' \in Seq(KernelCmds)
      PROVE  Types'
  <2>1. ble_ancs_handler' \in AncsHandlers
    <3>1. total % 2^16 \in Nat
      OBVIOUS
    <3> QED
      BY <1>6, <3>1 DEF Announces, Types, AncsHandlers, ancs
  <2>2. ble_ancs_ll_inst' \in Lists
    BY <1>6 DEF Announces, Types, ancs
  <2>3. present' \in [Uids -> 0 .. 2]
    BY <1>6 DEF Announces, Types
  <2> QED
    BY <1>6, <2>1, <2>2, <2>3 DEF Announces, Types, peer, ams
<1>7. ASSUME NEW u \in Uids, Wakes(u) PROVE kernel_cmd_q' \in Seq(KernelCmds)
  BY <1>7, SendsIs DEF Types, Wakes
<1>8. ble_ancs_handler.total_notif_present \in Nat /\ ble_ancs_handler.last_nuid \in Nat
  BY DEF Types, AncsHandlers
<1>9. ASSUME NEW u \in Uids, NotifAdded(u) PROVE Types'
  <2>1. Added(u) \in Lists
    BY PeersValues, ListsStayLists DEF Added, Types
  <2>2. kernel_cmd_q' \in Seq(KernelCmds)
    BY <1>7, <1>9 DEF NotifAdded
  <2> QED
    BY <1>6, <1>8, <1>9, <2>1, <2>2, PeersValues DEF NotifAdded
<1>10. ASSUME NEW u \in Uids, NotifModified(u) PROVE Types'
  <2>1. kernel_ll_modify_data(ble_ancs_ll_inst, u, [uid |-> u, version |-> 2]) \in Lists
    BY PeersValues, ListsStayLists DEF Types
  <2>2. kernel_cmd_q' \in Seq(KernelCmds)
    BY <1>7, <1>10 DEF NotifModified
  <2> QED
    BY <1>6, <1>8, <1>10, <2>1, <2>2, PeersValues DEF NotifModified
<1>11. ASSUME NEW u \in Uids, NotifRemoved(u) PROVE Types'
  <2>1. kernel_ll_remove_data(ble_ancs_ll_inst, u) \in Lists
    <3>1. [uid |-> u, version |-> 1] \in Notifs /\ u \in Nat
      BY PeersValues
    <3> QED
      BY <3>1, ListsStayLists DEF Types
  <2>2. kernel_cmd_q' \in Seq(KernelCmds)
    BY <1>11 DEF NotifRemoved, Types
  <2> QED
    BY <1>6, <1>8, <1>11, <2>1, <2>2 DEF NotifRemoved
<1> QED
  BY <1>1, <1>2, <1>3, <1>4, <1>5, <1>9, <1>10, <1>11 DEF Peer

\* through every step of the kernel task,
LEMMA TypesKernelTask == Types /\ KernelTask => Types'
<1> SUFFICES ASSUME Types, KernelTask PROVE Types'
  OBVIOUS
<1> USE DEF Types, peer, ams, ancs, sent, Goes
<1>1. CASE KernelCommand
  <2>1. kernel_cmd_q' \in Seq(KernelCmds)
    BY <1>1 DEF KernelCommand
  <2> QED
    BY <1>1, <2>1 DEF KernelCommand
<1>2. CASE ble_gap_security_init \/ AmsDiscover \/ AncsDiscover \/ ble_ancs_process_notif
  BY <1>2 DEF ble_gap_security_init, AmsDiscover, AncsDiscover, ble_ancs_process_notif
<1>3. CASE AmsReset
  <2>1. ble_ams_handler' \in AmsHandlers
    BY <1>3 DEF AmsReset, AmsHandlers
  <2>2. ble_ams_mem_inst' \in Pools
    <3>1. "track_name" \in Attributes
      BY DEF Attributes
    <3> QED
      BY <1>3, <3>1, PoolsStayPools DEF AmsReset
  <2> QED
    BY <1>3, <2>1, <2>2 DEF AmsReset
<1>4. CASE AmsChars \/ AmsRegister \/ AmsClearCmds \/ AmsClear
  <2>1. ble_ams_handler' \in AmsHandlers
    BY <1>4 DEF AmsChars, AmsRegister, AmsClearCmds, CmdsCleared, AmsClear, AmsHandlers
  <2>2. registered' \in BOOLEAN
    BY <1>4 DEF AmsChars, AmsRegister, AmsClearCmds, AmsClear, AmsHandlers
  <2> QED
    BY <1>4, <2>1, <2>2 DEF AmsChars, AmsRegister, AmsClearCmds, AmsClear
<1>5. CASE AmsSubscribe \/ AncsSubscribe
  BY <1>5 DEF AmsSubscribe, AncsSubscribe, Subscribes
<1>6. CASE AncsConn \/ AncsReset \/ AncsChars \/ AncsClear
  <2>1. ble_ancs_handler' \in AncsHandlers
    <3>1. CASE AncsConn
      BY <3>1 DEF AncsConn, AncsHandlers
    <3>2. CASE AncsChars
      BY <3>2 DEF AncsChars, AncsHandlers
    <3>3. CASE AncsClear
      BY <3>3 DEF AncsClear, AncsHandlers
    <3>4. CASE AncsReset
      BY <3>4 DEF AncsReset, AncsHandlers
    <3> QED
      BY <1>6, <3>1, <3>2, <3>3, <3>4
  <2> QED
    BY <1>6, <2>1 DEF AncsConn, AncsReset, AncsChars, AncsClear
<1>7. CASE ListHeadReset \/ ListMemoryReset \/ ListDeinit
  <2>1. 0 \in Nat /\ NoData \in Notifs
    BY DEF NoData, Notifs
  <2>2. ble_ancs_ll_inst' \in Lists
    BY <1>7, <2>1, ListsStayLists DEF ListHeadReset, ListMemoryReset, ListDeinit
  <2> QED
    BY <1>7, <2>2 DEF ListHeadReset, ListMemoryReset, ListDeinit
<1>8. CASE AmsMemDeinit
  <2>1. ble_ams_mem_inst' \in Pools
    <3>1. "track_name" \in Attributes
      BY DEF Attributes
    <3> QED
      BY <1>8, <3>1, PoolsStayPools DEF AmsMemDeinit
  <2> QED
    BY <1>8, <2>1 DEF AmsMemDeinit
<1> QED
  BY <1>1, <1>2, <1>3, <1>4, <1>5, <1>6, <1>7, <1>8 DEF KernelTask

\* and through every step.
LEMMA TypesNext == Types /\ [Next]_vars => Types'
<1> SUFFICES ASSUME Types, [Next]_vars PROVE Types'
  OBVIOUS
<1>1. CASE App
  BY <1>1 DEF App, CommandWritten, ble_ams_execute_cmd, Types, peer, ams, ancs, sent
<1>2. CASE UNCHANGED vars
  BY <1>2 DEF vars, Types, peer, ams, ancs, sent
<1> QED
  BY <1>1, <1>2, TypesPeer, TypesKernelTask DEF Next

(***************************************************************************)
(* The sessions: what is set up and torn down, in which order.             *)
(***************************************************************************)
Queued(q, cmd) == \E i \in DOMAIN q : q[i] = cmd

\* "connected" is alone, in front of all others.
First(q) == Queued(q, "connected")
            => q # <<>> /\ Head(q) = "connected" /\ ~Queued(Tail(q), "connected")

Down == Queued(kernel_cmd_q, "disconnected")

BeforeAncs == {"security", "ams_reset", "ams_discover", "ams_chars", "ams_cccd", "ams_register",
               "ancs_conn"}
Setup == BeforeAncs \cup {"ancs_reset", "ll_reset", "ll_clear", "ancs_discover", "ancs_chars",
                          "ancs_cccd"}

\* Starting(P): a connection is set up and has not come past P.
Starting(P) == Queued(kernel_cmd_q, "connected") \/ pc \in P

\* A session is set up before the next connection, and what it has set up is
\* torn down before it, or there is a command that will.
OneSession ==
    /\ Queued(kernel_cmd_q, "connected") => pc = "main" /\ First(kernel_cmd_q)
    /\ Starting(Setup) => link \/ Down
    /\ link \/ ~ble_ams_mem_inst.inited \/ Down \/ pc \in {"ams_cmds", "ams_pool"}
    /\ link \/ ~ble_ancs_handler.conn_handle \/ Down
       \/ pc \in {"ams_cmds", "ams_pool", "ams_clear", "ancs_clear"}
    /\ link \/ ble_ams_handler.cmds = {} \/ Down \/ pc = "ams_cmds"

\* The media client has a handle while it has a pool, is in use while it has a
\* pool, and has asked for the names only since.
MediaSession ==
    /\ registered => ble_ams_handler.found
    /\ ble_ams_mem_inst.inited => ble_ams_handler.conn_handle /\ pc # "ams_clear"
    /\ pc \in {"ams_discover", "ams_chars", "ams_cccd", "ams_register"} => ble_ams_mem_inst.inited
    /\ ble_ams_handler.inited => ble_ams_mem_inst.inited \/ pc = "ams_clear"
    /\ Starting({"security", "ams_reset"}) => ~registered /\ names = NoNames

\* The notification client gets its handle late.
AncsSession == Starting(BeforeAncs \cup {"ll_deinit"}) => ~ble_ancs_handler.conn_handle

\* The commands the client knows are the peer's, and so is the one executed.
CommandsInv ==
    /\ ble_ams_handler.cmds \subseteq supported
    /\ app # "none" /\ "spans" \notin hist => app \in supported

Session == OneSession /\ MediaSession /\ AncsSession /\ CommandsInv

\* What is in a queue after it was given a command, and what in its rest.
LEMMA QueuedIs ==
  ASSUME NEW q \in Seq(KernelCmds), NEW x \in KernelCmds
  PROVE  /\ \A c : ~Queued(<<>>, c)
         /\ \A c : Queued(Append(q, x), c) <=> Queued(q, c) \/ c = x
         /\ q # <<>> => \A c : Queued(q, c) <=> Head(q) = c \/ Queued(Tail(q), c)
<1>1. \A c : ~Queued(<<>>, c)
  BY DEF Queued
<1>2. ASSUME NEW c PROVE Queued(Append(q, x), c) <=> Queued(q, c) \/ c = x
  <2>1. /\ DOMAIN Append(q, x) = 1 .. Len(q) + 1 /\ DOMAIN q = 1 .. Len(q) /\ Len(q) \in Nat
        /\ Append(q, x)[Len(q) + 1] = x
        /\ \A i \in 1 .. Len(q) : Append(q, x)[i] = q[i]
    OBVIOUS
  <2>2. \A i \in 1 .. Len(q) + 1 : i \in 1 .. Len(q) \/ i = Len(q) + 1
    BY <2>1
  <2>3. Len(q) + 1 \in 1 .. Len(q) + 1 /\ \A i \in 1 .. Len(q) : i \in 1 .. Len(q) + 1
    BY <2>1
  <2> QED
    BY <2>1, <2>2, <2>3 DEF Queued
<1>3. ASSUME q # <<>>, NEW c PROVE Queued(q, c) <=> Head(q) = c \/ Queued(Tail(q), c)
  <2>1. /\ DOMAIN q = 1 .. Len(q) /\ DOMAIN Tail(q) = 1 .. Len(q) - 1
        /\ Len(q) \in Nat \ {0} /\ Head(q) = q[1]
        /\ \A i \in 1 .. Len(q) - 1 : Tail(q)[i] = q[i + 1]
    BY <1>3
  <2>2. \A i \in 1 .. Len(q) : i = 1 \/ i - 1 \in 1 .. Len(q) - 1
    BY <2>1
  <2>3. \A i \in 1 .. Len(q) - 1 : i + 1 \in 1 .. Len(q)
    BY <2>1
  <2>4. ASSUME NEW i \in 1 .. Len(q), q[i] = c PROVE Head(q) = c \/ Queued(Tail(q), c)
    <3>1. CASE i = 1
      BY <2>1, <2>4, <3>1
    <3>2. CASE i - 1 \in 1 .. Len(q) - 1
      <4>1. Tail(q)[i - 1] = q[i]
        BY <2>1, <3>2
      <4> QED
        BY <2>1, <2>4, <3>2, <4>1 DEF Queued
    <3> QED
      BY <2>2, <3>1, <3>2
  <2>5. 1 \in 1 .. Len(q)
    BY <2>1
  <2> QED
    BY <2>1, <2>3, <2>4, <2>5 DEF Queued
<1> QED
  BY <1>1, <1>2, <1>3

\* A command behind others changes what waits only by itself.
LEMMA SendsQueued ==
  ASSUME kernel_cmd_q \in Seq(KernelCmds), NEW cmd \in KernelCmds, cmd # "connected", Sends(cmd)
  PROVE  /\ Down => Down'
         /\ cmd = "disconnected" /\ HasRoom => Down'
         /\ Queued(kernel_cmd_q', "connected") => Queued(kernel_cmd_q, "connected")
         /\ First(kernel_cmd_q) => First(kernel_cmd_q')
<1>1. CASE HasRoom
  <2> DEFINE q == kernel_cmd_q
  <2>1. kernel_cmd_q' = Append(q, cmd)
    BY <1>1 DEF Sends, HasRoom
  <2>2. \A c : Queued(kernel_cmd_q', c) <=> Queued(q, c) \/ c = cmd
    BY <2>1, QueuedIs
  <2>3. ASSUME First(q), Queued(kernel_cmd_q', "connected")
        PROVE  /\ kernel_cmd_q' # <<>> /\ Head(kernel_cmd_q') = "connected"
               /\ ~Queued(Tail(kernel_cmd_q'), "connected")
    <3>1. q # <<>> /\ Head(q) = "connected" /\ ~Queued(Tail(q), "connected")
      BY <2>2, <2>3 DEF First
    <3>2. /\ Append(q, cmd) # <<>> /\ Head(Append(q, cmd)) = Head(q)
          /\ Tail(Append(q, cmd)) = Append(Tail(q), cmd) /\ Tail(q) \in Seq(KernelCmds)
      <4> HIDE DEF KernelCmds
      <4>1. Len(q) \in Nat \ {0}
        BY <3>1
      <4> QED
        BY <4>1
    <3>3. ~Queued(Append(Tail(q), cmd), "connected")
      BY <3>1, <3>2, QueuedIs
    <3> QED
      BY <2>1, <3>1, <3>2, <3>3
  <2> QED
    BY <2>2, <2>3 DEF First, Down
<1>2. CASE ~HasRoom
  BY <1>2 DEF Sends, HasRoom, Down
<1> QED
  BY <1>1, <1>2

\* Before the first connection nothing is set up.
LEMMA SessionInit == Init => Session
BY QueuedIs DEF Init, Session, OneSession, MediaSession, AncsSession, CommandsInv, Starting,
   Setup, BeforeAncs, NoPool, Queued

\* A new connection: nothing is left of the one before.
LEMMA SessionConnect ==
  ASSUME Types, Session, Connect
  PROVE  Session'
<1>1. ~link /\ link' /\ pc = "main" /\ pc' = "main" /\ kernel_cmd_q = <<>>
  BY DEF Connect
<1>2. ~Down /\ ~Queued(kernel_cmd_q, "connected")
  BY <1>1 DEF Down, Queued
<1>3. /\ ~ble_ams_mem_inst.inited /\ ~ble_ancs_handler.conn_handle
      /\ ble_ams_handler.cmds = {} /\ ~ble_ams_handler.inited
  BY <1>1, <1>2 DEF Session, OneSession, MediaSession
<1>4. /\ UNCHANGED <<ble_ams_mem_inst, ble_ams_handler, ble_ancs_handler, app>>
      /\ ~registered' /\ names' = NoNames /\ supported' = {}
      /\ app # "none" => "spans" \in hist'
  BY DEF Connect, ams, ancs
<1>5. First(kernel_cmd_q')
  <2>1. CASE kernel_cmd_q' = <<"connected">>
    BY <2>1 DEF First, Queued
  <2>2. CASE kernel_cmd_q' = <<>>
    BY <2>2 DEF First, Queued
  <2> QED
    BY <1>1, <2>1, <2>2 DEF Connect, Sends
<1>6. OneSession'
  BY <1>1, <1>3, <1>4, <1>5 DEF OneSession, Starting, Setup, BeforeAncs
<1>7. MediaSession'
  BY <1>1, <1>3, <1>4 DEF MediaSession, Starting
<1>8. AncsSession'
  BY <1>3, <1>4 DEF AncsSession
<1>9. CommandsInv'
  BY <1>3, <1>4 DEF CommandsInv
<1> QED
  BY <1>6, <1>7, <1>8, <1>9 DEF Session

\* A command of the peer's waits behind "connected"; a value finds the link up.
LEMMA SessionPeer ==
  ASSUME Types, Types', Session, Peer
  PROVE  Session'
<1> USE DEF KernelCmds
<1>1. CASE Connect
  BY <1>1, SessionConnect
<1>2. ASSUME Sends("disconnected"), HasRoom, registered' = registered,
             UNCHANGED <<pc, ams, ancs, app, sent, hist>>
      PROVE  Session'
  <2>1. /\ Down' /\ (Queued(kernel_cmd_q', "connected") => Queued(kernel_cmd_q, "connected"))
        /\ First(kernel_cmd_q) => First(kernel_cmd_q')
    BY <1>2, SendsQueued DEF Types
  <2>2. OneSession'
    BY <1>2, <2>1 DEF Session, OneSession, Starting
  <2>3. MediaSession'
    BY <1>2, <2>1 DEF Session, MediaSession, Starting, ams, sent
  <2>4. AncsSession' /\ CommandsInv'
    BY <1>2, <2>1 DEF Session, AncsSession, CommandsInv, Starting, ancs, ams, sent
  <2> QED
    BY <2>2, <2>3, <2>4 DEF Session
<1>3. CASE Disconnect \/ Timeout
  BY <1>2, <1>3 DEF Disconnect, Timeout, peer
<1>4. ASSUME NEW S \in SUBSET Commands, CommandsUpdate(S) PROVE Session'
  <2>1. /\ UNCHANGED <<peer, kernel_cmd_q, pc, ble_ams_mem_inst, ancs, app, names, hist>>
        /\ link /\ supported' = supported \cup S
        /\ ble_ams_handler'.conn_handle = ble_ams_handler.conn_handle
        /\ ble_ams_handler'.found = ble_ams_handler.found
        /\ ble_ams_handler'.inited = ble_ams_handler.inited
        /\ ble_ams_handler'.cmds \in {ble_ams_handler.cmds, S}
    BY <1>4 DEF CommandsUpdate, Types, AmsHandlers
  <2>2. OneSession'
    BY <2>1 DEF Session, OneSession, Starting, Down, peer, ancs
  <2>3. MediaSession'
    BY <2>1 DEF Session, MediaSession, Starting, peer
  <2>4. AncsSession' /\ CommandsInv'
    BY <2>1 DEF Session, AncsSession, CommandsInv, Starting, ancs
  <2> QED
    BY <2>2, <2>3, <2>4 DEF Session
<1>5. ASSUME NEW a \in Attributes, NEW len \in Lengths \cup {0}, NameUpdate(a, len) PROVE Session'
  <2>1. /\ UNCHANGED <<peer, kernel_cmd_q, pc, ble_ams_handler, ancs, app, supported>>
        /\ link /\ registered
        /\ "spans" \in hist => "spans" \in hist'
        /\ ble_ams_mem_inst'.inited = ble_ams_mem_inst.inited
    <3>1. len \in Nat
      BY PeersValues
    <3>2. ble_ams_mem_inst' \in {ble_ams_mem_inst, Stored(ble_ams_mem_inst, a, len)}
      BY <1>5 DEF NameUpdate
    <3>3. ble_ams_mem_inst'.inited = ble_ams_mem_inst.inited
      BY <3>1, <3>2, PoolsStayPools DEF Types
    <3> QED
      BY <1>5, <3>3 DEF NameUpdate
  <2>2. OneSession'
    BY <2>1 DEF Session, OneSession, Starting, Down, peer, ancs
  <2>3. MediaSession'
    BY <2>1 DEF Session, MediaSession, Starting, peer
  <2>4. AncsSession' /\ CommandsInv'
    BY <2>1 DEF Session, AncsSession, CommandsInv, Starting, ancs
  <2> QED
    BY <2>2, <2>3, <2>4 DEF Session
<1>6. ASSUME NEW u, NEW n, NEW l, NEW last, NEW total, Announces(u, n, l, last, total),
             kernel_cmd_q' = kernel_cmd_q \/ Sends("notif_recv")
      PROVE  Session'
  <2>1. /\ Down => Down'
        /\ Queued(kernel_cmd_q', "connected") => Queued(kernel_cmd_q, "connected")
        /\ First(kernel_cmd_q) => First(kernel_cmd_q')
    <3>1. CASE kernel_cmd_q' = kernel_cmd_q
      BY <3>1 DEF Down
    <3>2. CASE Sends("notif_recv")
      BY <3>2, SendsQueued DEF Types
    <3> QED
      BY <1>6, <3>1, <3>2
  <2>2. /\ UNCHANGED <<peer, pc, ams, app, supported, names>>
        /\ link /\ ("spans" \in hist => "spans" \in hist')
        /\ ble_ancs_handler'.conn_handle = ble_ancs_handler.conn_handle
    BY <1>6 DEF Announces, Types, AncsHandlers, ancs
  <2>3. OneSession'
    BY <2>1, <2>2 DEF Session, OneSession, Starting, peer, ams
  <2>4. MediaSession'
    BY <2>1, <2>2 DEF Session, MediaSession, Starting, peer, ams
  <2>5. AncsSession' /\ CommandsInv'
    BY <2>1, <2>2 DEF Session, AncsSession, CommandsInv, Starting, ams
  <2> QED
    BY <2>3, <2>4, <2>5 DEF Session
<1>7. ASSUME NEW u \in Uids, NotifAdded(u) \/ NotifModified(u) \/ NotifRemoved(u)
      PROVE  Session'
  <2>1. CASE NotifAdded(u)
    BY <1>6, <2>1 DEF NotifAdded, Wakes
  <2>2. CASE NotifModified(u)
    BY <1>6, <2>2 DEF NotifModified, Wakes
  <2>3. CASE NotifRemoved(u)
    BY <1>6, <2>3 DEF NotifRemoved
  <2> QED
    BY <1>7, <2>1, <2>2, <2>3
<1> QED
  BY <1>1, <1>3, <1>4, <1>5, <1>7 DEF Peer

\* A command is taken from the queue: the first, and "connected" only alone.
LEMMA SessionCommand ==
  ASSUME Types, Session, KernelCommand
  PROVE  Session'
<1> DEFINE q == kernel_cmd_q
<1>1. /\ pc = "main" /\ q # <<>> /\ pc' = Label[Head(q)] /\ kernel_cmd_q' = Tail(q)
      /\ UNCHANGED <<peer, ams, ancs, app, sent, hist>>
  BY DEF KernelCommand
<1>2. Head(q) \in KernelCmds
  BY <1>1 DEF Types
<1>3. \A c : Queued(q, c) <=> Head(q) = c \/ Queued(Tail(q), c)
  BY <1>1, <1>2, QueuedIs DEF Types
<1>4. ~Queued(kernel_cmd_q', "connected")
  BY <1>1, <1>3 DEF Session, OneSession, First
<1>5. \/ Head(q) = "connected" /\ pc' = "security" /\ (Down => Down')
      \/ Head(q) = "disconnected" /\ pc' = "ams_cmds"
      \/ Head(q) = "notif_recv" /\ pc' = "fetch" /\ (Down => Down')
  BY <1>1, <1>2, <1>3 DEF KernelCmds, Label, Down
<1>6. Head(q) = "connected" => Queued(q, "connected")
  BY <1>3
<1>7. OneSession'
  BY <1>1, <1>4, <1>5, <1>6 DEF Session, OneSession, Starting, Setup, BeforeAncs, peer, ams, ancs
<1>8. MediaSession'
  BY <1>1, <1>4, <1>5, <1>6 DEF Session, MediaSession, Starting, peer, ams, sent
<1>9. AncsSession' /\ CommandsInv'
  BY <1>1, <1>4, <1>5, <1>6 DEF Session, AncsSession, CommandsInv, Starting, BeforeAncs, ams, ancs, sent
<1> QED
  BY <1>7, <1>8, <1>9 DEF Session

\* Each step of a setup or teardown finds what the steps before it left.
LEMMA SessionKernelTask ==
  ASSUME Types, Types', Session, KernelTask
  PROVE  Session'
<1> USE DEF Goes, peer, ams, ancs, sent
<1>1. CASE KernelCommand
  BY <1>1, SessionCommand
<1>2. CASE ble_gap_security_init \/ AmsDiscover \/ AncsDiscover \/ ble_ancs_process_notif
  BY <1>2 DEF ble_gap_security_init, AmsDiscover, AncsDiscover, ble_ancs_process_notif,
     Session, OneSession, MediaSession, AncsSession, CommandsInv, Starting, Setup, BeforeAncs, Down
<1>3. CASE AmsReset
  <2>1. /\ pc = "ams_reset" /\ pc' = "ams_discover"
        /\ ble_ams_mem_inst'.inited
        /\ ble_ams_handler'.conn_handle /\ ~ble_ams_handler'.inited
        /\ ble_ams_handler'.found = ble_ams_handler.found
        /\ ble_ams_handler'.cmds = ble_ams_handler.cmds
    BY <1>3 DEF AmsReset, Types, AmsHandlers, kernel_mem_init
  <2>2. UNCHANGED <<kernel_cmd_q, peer, ancs, app, sent, hist>>
    BY <1>3 DEF AmsReset
  <2> QED
    BY <2>1, <2>2 DEF Session, OneSession, MediaSession, AncsSession, CommandsInv, Starting,
       Setup, BeforeAncs, Down
<1>4. CASE AmsChars \/ AmsRegister
  <2>1. /\ ble_ams_handler'.conn_handle = ble_ams_handler.conn_handle
        /\ ble_ams_handler'.cmds = ble_ams_handler.cmds
        /\ ble_ams_handler.found => ble_ams_handler'.found
        /\ pc = "ams_chars" => ble_ams_handler'.inited = ble_ams_handler.inited
    BY <1>4 DEF AmsChars, AmsRegister, Types, AmsHandlers
  <2>2. /\ UNCHANGED <<kernel_cmd_q, link, ble_ams_mem_inst, ancs, app, sent, hist>>
        /\ \/ pc = "ams_chars" /\ pc' = "ams_cccd" /\ registered' = registered
           \/ pc = "ams_register" /\ pc' = "ancs_conn"
    BY <1>4 DEF AmsChars, AmsRegister
  <2>3. registered' => registered \/ ble_ams_handler.found
    <3>1. CASE AmsChars
      BY <3>1 DEF AmsChars
    <3>2. CASE AmsRegister
      <4>1. registered' \in {registered, link /\ ble_ams_handler.found}
        BY <3>2 DEF AmsRegister
      <4> QED
        BY <4>1, Zenon
    <3> QED
      BY <1>4, <3>1, <3>2
  <2> QED
    BY <2>1, <2>2, <2>3 DEF Session, OneSession, MediaSession, AncsSession, CommandsInv, Starting,
       Setup, BeforeAncs, Down
<1>5. CASE AmsSubscribe \/ AncsSubscribe
  BY <1>5 DEF AmsSubscribe, AncsSubscribe, Subscribes, Session, OneSession, MediaSession,
     AncsSession, CommandsInv, Starting, Setup, BeforeAncs, Down
<1>6. CASE AncsConn \/ AncsReset \/ AncsChars \/ AncsClear
  <2>1. /\ pc \in {"ancs_reset", "ancs_chars"} =>
             ble_ancs_handler'.conn_handle = ble_ancs_handler.conn_handle
        /\ pc = "ancs_clear" => ~ble_ancs_handler'.conn_handle
    BY <1>6 DEF AncsConn, AncsReset, AncsChars, AncsClear, Types, AncsHandlers
  <2>2. /\ UNCHANGED <<kernel_cmd_q, peer, ams, app, sent, hist>>
        /\ \/ pc = "ancs_conn" /\ pc' = "ancs_reset"
           \/ pc = "ancs_reset" /\ pc' = "ll_reset"
           \/ pc = "ancs_chars" /\ pc' = "ancs_cccd"
           \/ pc = "ancs_clear" /\ pc' = "ll_deinit"
    BY <1>6 DEF AncsConn, AncsReset, AncsChars, AncsClear
  <2> QED
    BY <2>1, <2>2 DEF Session, OneSession, MediaSession, AncsSession, CommandsInv, Starting,
       Setup, BeforeAncs, Down
<1>7. CASE ListHeadReset \/ ListMemoryReset \/ ListDeinit
  BY <1>7 DEF ListHeadReset, ListMemoryReset, ListDeinit, Session, OneSession, MediaSession,
     AncsSession, CommandsInv, Starting, Setup, BeforeAncs, Down
<1>8. CASE AmsMemDeinit
  <2>1. ~ble_ams_mem_inst'.inited
    BY <1>8 DEF AmsMemDeinit, kernel_mem_deinit, kernel_mem_init
  <2>2. /\ pc = "ams_pool" /\ pc' = "ams_clear"
        /\ UNCHANGED <<kernel_cmd_q, peer, ble_ams_handler, ancs, app, sent, hist>>
    BY <1>8 DEF AmsMemDeinit
  <2> QED
    BY <2>1, <2>2 DEF Session, OneSession, MediaSession, AncsSession, CommandsInv, Starting,
       Setup, BeforeAncs, Down
<1>9. CASE AmsClearCmds \/ AmsClear
  <2>1. /\ pc = "ams_cmds" => /\ ble_ams_handler'.conn_handle = ble_ams_handler.conn_handle
                              /\ ble_ams_handler'.inited = ble_ams_handler.inited
                              /\ ble_ams_handler'.cmds = {}
        /\ pc = "ams_clear" => /\ ble_ams_handler'.cmds = ble_ams_handler.cmds
                               /\ ~ble_ams_handler'.inited
        /\ ble_ams_handler'.found = ble_ams_handler.found
    BY <1>9 DEF AmsClearCmds, AmsClear, CmdsCleared, Types, AmsHandlers
  <2>2. /\ UNCHANGED <<kernel_cmd_q, peer, ble_ams_mem_inst, ancs, app, sent, hist>>
        /\ \/ pc = "ams_cmds" /\ pc' = "ams_pool"
           \/ pc = "ams_clear" /\ pc' = "ancs_clear"
    BY <1>9 DEF AmsClearCmds, AmsClear
  <2> QED
    BY <2>1, <2>2 DEF Session, OneSession, MediaSession, AncsSession, CommandsInv, Starting,
       Setup, BeforeAncs, Down
<1> QED
  BY <1>1, <1>2, <1>3, <1>4, <1>5, <1>6, <1>7, <1>8, <1>9 DEF KernelTask

\* Every step keeps the sessions apart.
LEMMA SessionNext == Types /\ Types' /\ Session /\ [Next]_vars => Session'
<1> SUFFICES ASSUME Types, Types', Session, [Next]_vars PROVE Session'
  OBVIOUS
<1>1. CASE CommandWritten \/ UNCHANGED vars
  BY <1>1 DEF CommandWritten, vars, peer, ams, ancs, sent, Session, OneSession, MediaSession,
     AncsSession, CommandsInv, Starting, Down
<1>2. ASSUME NEW c \in Commands, ble_ams_execute_cmd(c) PROVE Session'
  BY <1>2 DEF ble_ams_execute_cmd, peer, ams, ancs, sent, Session, OneSession, MediaSession,
     AncsSession, CommandsInv, Starting, Down
<1> QED
  BY <1>1, <1>2, SessionPeer, SessionKernelTask DEF Next, App

\* Types and sessions, in every behaviour.
LEMMA SessionAlways == Spec => [](Types /\ Session)
<1>1. Init => Types /\ Session
  BY TypesInit, SessionInit
<1>2. Types /\ Session /\ [Next]_vars => (Types /\ Session)'
  BY TypesNext, SessionNext
<1> QED
  BY <1>1, <1>2, PTL DEF Spec

\* A command that ends was announced by the peer, unless the call outlives its
\* connection: the commands are forgotten with the session, and the next begins
\* only then.
THEOREM OnlySupportedCommands == Spec => CommandSupported
<1>1. Session /\ [Next]_vars => [app # "none" /\ app' = "none" /\ link
                                   /\ ble_ams_handler.conn_handle /\ "spans" \notin hist
                                 => app \in supported]_vars
  BY DEF Session, CommandsInv
<1> QED
  BY <1>1, SessionAlways, PTL DEF Spec, CommandSupported

(***************************************************************************)
(* The names.                                                              *)
(***************************************************************************)
\* From its initialisation on, the pool follows the names of the peer.
NamesInv ==
    ble_ams_mem_inst.inited /\ "no_room" \notin hist => PoolIs(ble_ams_mem_inst, names)

\* What is neither a new connection, a name nor a step that sets up or tears
\* down the pool leaves it as it is.
LEMMA NamesKept ==
  ASSUME [Next]_vars, ~Connect, ~AmsReset, ~AmsMemDeinit,
         \A a \in Attributes, len \in Lengths \cup {0} : ~NameUpdate(a, len)
  PROVE  /\ UNCHANGED <<ble_ams_mem_inst, names>>
         /\ "no_room" \in hist => "no_room" \in hist'
<1> USE DEF peer, ams, ancs, sent, Goes
<1>1. CASE Peer
  BY <1>1 DEF Peer, Disconnect, Timeout, CommandsUpdate, NotifAdded, NotifModified, NotifRemoved,
     Announces
<1>2. CASE KernelTask
  BY <1>2 DEF KernelTask, KernelCommand, ble_gap_security_init, AmsDiscover, AmsChars,
     AmsSubscribe, AmsRegister, AncsConn, AncsReset, ListHeadReset, ListMemoryReset, AncsDiscover,
     AncsChars, AncsSubscribe, AmsClearCmds, AmsClear, AncsClear, ListDeinit,
     ble_ancs_process_notif, Subscribes
<1>3. CASE App
  BY <1>3 DEF App, CommandWritten, ble_ams_execute_cmd
<1>4. CASE UNCHANGED vars
  BY <1>4 DEF vars
<1> QED
  BY <1>1, <1>2, <1>3, <1>4 DEF Next

\* Every step that may change a name, or the pool, changes both.
LEMMA NamesNext == Types /\ Session /\ NamesInv /\ [Next]_vars => NamesInv'
<1> SUFFICES ASSUME Types, Session, NamesInv, [Next]_vars PROVE NamesInv'
  OBVIOUS
<1>1. CASE Connect
  <2>1. ~ble_ams_mem_inst.inited
    BY <1>1 DEF Connect, Session, OneSession, Down, Queued
  <2> QED
    BY <1>1, <2>1 DEF Connect, ams, NamesInv
<1>2. CASE AmsReset
  <2>1. names = NoNames
    BY <1>2 DEF AmsReset, Goes, Session, MediaSession, Starting
  <2> QED
    BY <1>2, <2>1, FreshPool DEF AmsReset, Goes, sent, NamesInv
<1>3. CASE AmsMemDeinit
  BY <1>3 DEF AmsMemDeinit, kernel_mem_deinit, kernel_mem_init, NamesInv
<1>4. ASSUME NEW a \in Attributes, NEW len \in Lengths \cup {0}, NameUpdate(a, len)
      PROVE  NamesInv'
  <2> DEFINE p == ble_ams_mem_inst
  <2> SUFFICES ASSUME ble_ams_mem_inst'.inited, "no_room" \notin hist'
               PROVE  PoolIs(ble_ams_mem_inst', names')
    BY DEF NamesInv
  <2>1. len \in Nat /\ len < mem_size
    BY PeersValues
  <2>2. p.inited
    <3>1. ble_ams_mem_inst' \in {p, Stored(p, a, len)}
      BY <1>4 DEF NameUpdate
    <3> QED
      BY <2>1, <3>1, PoolsStayPools DEF Types
  <2>3. AmsHandles
    BY <1>4, <2>2 DEF NameUpdate, AmsHandles, Session, MediaSession
  <2>4. /\ ble_ams_mem_inst' = Stored(p, a, len) /\ names' = [names EXCEPT ![a] = len]
        /\ "no_room" \notin hist
        /\ len # 0 => AddError(p, a, len) # "OUT_OF_MEM"
    BY <1>4, <2>3 DEF NameUpdate
  <2>5. PoolIs(p, names)
    BY <2>2, <2>4 DEF NamesInv
  <2> QED
    BY <2>1, <2>2, <2>4, <2>5, StoredIs DEF Types
<1>5. CASE /\ ~Connect /\ ~AmsReset /\ ~AmsMemDeinit
           /\ \A a \in Attributes, len \in Lengths \cup {0} : ~NameUpdate(a, len)
  BY <1>5, NamesKept DEF NamesInv
<1> QED
  BY <1>1, <1>2, <1>3, <1>4, <1>5

\* The media client in use has a pool, which has followed the names, whatever
\* comes in which order, until a name is refused or the pool overrun: a setup
\* that runs while a name comes, or after a session that was not torn down,
\* would leave it behind.
THEOREM PoolHoldsNames == Spec => []NamesAreThePeers
<1>1. Init => NamesInv
  BY DEF Init, NoPool, NamesInv
<1>2. Types /\ Session /\ NamesInv => NamesAreThePeers
  <2> SUFFICES ASSUME Types, Session, NamesInv, ble_ams_handler.inited, pc \notin Deinit,
                      "no_room" \notin hist
               PROVE  /\ \A a \in Attributes :
                           kernel_mem_get_Data_ptr(ble_ams_mem_inst, a) = names[a]
                      /\ ble_ams_mem_inst.total_uid = Len(ble_ams_mem_inst.blocks)
    BY DEF NamesAreThePeers
  <2>1. ble_ams_mem_inst.inited
    BY DEF Session, MediaSession, Deinit
  <2>2. PoolIs(ble_ams_mem_inst, names)
    BY <2>1 DEF NamesInv
  <2> QED
    BY <2>1, <2>2, GetIs DEF PoolIs
<1> QED
  BY <1>1, <1>2, NamesNext, SessionAlways, PTL DEF Spec

\* A pool that a name overruns is full to its end.
LEMMA OverrunIs ==
  ASSUME NEW p \in Pools, NEW a \in Attributes, NEW len \in Nat
  PROVE  Stored(p, a, len).overrun => p.overrun \/ Stored(p, a, len).used_size >= mem_size
<1>1. kernel_mem_delete_data(p, a).overrun = p.overrun
  BY DEF kernel_mem_delete_data, Pools
<1>2. kernel_mem_add_data(p, a, len).overrun
      => p.overrun \/ kernel_mem_add_data(p, a, len).used_size >= mem_size
  BY DEF kernel_mem_add_data, Written, Pools
<1>3. kernel_mem_modify_data(p, a, len).overrun
      => p.overrun \/ kernel_mem_modify_data(p, a, len).used_size >= mem_size
  BY DEF kernel_mem_modify_data, Written, Pools
<1> QED
  BY <1>1, <1>2, <1>3 DEF Stored

\* Names so short that each takes less than half of the pool, metadata included.
ShortNames == \A len \in Lengths : 2 * Cost(len) < mem_size

ShortFit ==
    /\ Intact
    /\ ble_ams_mem_inst.inited =>
         \E f : /\ PoolIs(ble_ams_mem_inst, f)
                /\ \A a \in Attributes : 2 * Cost(f[a]) < mem_size

\* One more of them has room, and leaves room.
LEMMA ShortStored ==
  ASSUME NEW p \in Pools, NEW f, PoolIs(p, f), p.inited, ~p.overrun,
         \A b \in Attributes : 2 * Cost(f[b]) < mem_size,
         NEW a \in Attributes, NEW len \in Nat, len < mem_size, 2 * Cost(len) < mem_size
  PROVE  LET q == Stored(p, a, len)
             g == [f EXCEPT ![a] = len]
         IN  /\ PoolIs(q, g) /\ ~q.overrun
             /\ \A b \in Attributes : 2 * Cost(g[b]) < mem_size
<1> DEFINE q == Stored(p, a, len)
           g == [f EXCEPT ![a] = len]
<1>1. f \in [Attributes -> Nat] /\ g \in [Attributes -> Nat]
  BY DEF PoolIs
<1>2. mem_size \in 1 .. 2^16 - 1
  BY KernelMemAssumption
<1>3. \A b \in Attributes : /\ Cost(f[b]) \in Nat /\ 2 * Cost(f[b]) < mem_size
                            /\ Cost(g[b]) \in Nat /\ 2 * Cost(g[b]) < mem_size
  <2>1. ASSUME NEW n \in Nat PROVE Cost(n) \in Nat
    BY DEF Cost, KERNEL_MEMORY_META_DATA_SIZE
  <2>2. ASSUME NEW b \in Attributes
        PROVE  f[b] \in Nat /\ g[b] \in Nat /\ g[b] \in {f[b], len}
    BY <1>1
  <2> QED
    BY <2>1, <2>2
<1>4. "mediaplayer" \in Attributes /\ "track_name" \in Attributes
  BY DEF Attributes
<1>5. len # 0 => AddError(p, a, len) # "OUT_OF_MEM"
  <2>0. CASE Has(p, a)
    <3> SUFFICES ASSUME len # 0 PROVE AddError(p, a, len) # "OUT_OF_MEM"
      OBVIOUS
    <3> QED
      BY <2>0, KernelMemAssumption DEF AddError
  <2> SUFFICES ASSUME len # 0, ~Has(p, a) PROVE AddError(p, a, len) # "OUT_OF_MEM"
    BY <2>0
  <2>1. f[a] = 0 /\ Cost(f[a]) = 0
    BY DEF PoolIs, Cost
  <2>2. p.used_size \in Nat /\ 2 * p.used_size < mem_size
    <3>1. p.used_size = Cost(f["mediaplayer"]) + Cost(f["track_name"])
      BY DEF PoolIs
    <3>2. a = "mediaplayer" \/ a = "track_name"
      BY DEF Attributes
    <3> QED
      BY <1>3, <1>4, <2>1, <3>1, <3>2
  <2>3. 2 * (len + 7) < mem_size
    BY DEF Cost, KERNEL_MEMORY_META_DATA_SIZE
  <2>4. (mem_size - p.used_size) % 2^16 = mem_size - p.used_size
    BY <1>2, <2>2
  <2>5. ~((mem_size - p.used_size) % 2^16 <= len)
    BY <1>2, <2>2, <2>3, <2>4
  <2>6. ~(len >= mem_size)
    BY <1>2
  <2> QED
    BY <2>5, <2>6 DEF AddError
<1>6. PoolIs(q, g)
  BY <1>5, StoredIs
<1>7. q.used_size < mem_size
  <2>1. q.used_size = Cost(g["mediaplayer"]) + Cost(g["track_name"])
    BY <1>6 DEF PoolIs
  <2>2. /\ Cost(g["mediaplayer"]) \in Nat /\ 2 * Cost(g["mediaplayer"]) < mem_size
        /\ Cost(g["track_name"]) \in Nat /\ 2 * Cost(g["track_name"]) < mem_size
    BY <1>3, <1>4
  <2> HIDE DEF q, g
  <2> QED
    BY <1>2, <2>1, <2>2
<1>8. ~q.overrun
  <2>1. q.overrun => q.used_size >= mem_size
    BY OverrunIs
  <2> HIDE DEF q
  <2>2. q.used_size \in Int
    BY PoolsStayPools DEF q, Pools
  <2> QED
    BY <1>2, <1>7, <2>1, <2>2
<1> QED
  BY <1>3, <1>6, <1>8

LEMMA ShortNext == ShortNames /\ Types /\ ShortFit /\ [Next]_vars => ShortFit'
<1> SUFFICES ASSUME ShortNames, Types, ShortFit, [Next]_vars PROVE ShortFit'
  OBVIOUS
<1>1. CASE Connect
  BY <1>1 DEF Connect, ams, ShortFit, Intact
<1>2. CASE AmsReset
  <2>1. ble_ams_mem_inst' = kernel_mem_init(ble_ams_mem_inst)
    BY <1>2 DEF AmsReset
  <2>2. ~ble_ams_mem_inst'.overrun
    BY <2>1 DEF kernel_mem_init, ShortFit, Intact
  <2>3. PoolIs(ble_ams_mem_inst', NoNames)
    BY <2>1, FreshPool
  <2>4. \A a \in Attributes : 2 * Cost(NoNames[a]) < mem_size
    BY KernelMemAssumption DEF NoNames, Cost
  <2> QED
    BY <2>2, <2>3, <2>4 DEF ShortFit, Intact
<1>3. CASE AmsMemDeinit
  BY <1>3 DEF AmsMemDeinit, kernel_mem_deinit, kernel_mem_init, ShortFit, Intact
<1>4. ASSUME NEW a \in Attributes, NEW len \in Lengths \cup {0}, NameUpdate(a, len)
      PROVE  ShortFit'
  <2> DEFINE p == ble_ams_mem_inst
  <2>1. len \in Nat /\ len < mem_size
    BY PeersValues
  <2>2. CASE ble_ams_mem_inst' = p
    BY <2>2 DEF ShortFit, Intact
  <2>3. CASE ble_ams_mem_inst' = Stored(p, a, len)
    <3>1. p \in Pools /\ ~p.overrun /\ ble_ams_mem_inst'.inited = p.inited
      BY <2>1, <2>3, PoolsStayPools DEF Types, ShortFit, Intact
    <3>2. 2 * Cost(len) < mem_size
      BY KernelMemAssumption DEF ShortNames, Cost
    <3>3. CASE ~p.inited
      <4>1. ~ble_ams_mem_inst'.overrun
        BY <2>3, <3>1, <3>3 DEF Stored, kernel_mem_delete_data, kernel_mem_modify_data,
           kernel_mem_add_data, AddError
      <4> QED
        BY <3>1, <3>3, <4>1 DEF ShortFit, Intact
    <3>4. CASE p.inited
      <4>1. PICK f : PoolIs(p, f) /\ \A b \in Attributes : 2 * Cost(f[b]) < mem_size
        BY <3>4 DEF ShortFit
      <4> DEFINE g == [f EXCEPT ![a] = len]
      <4>2. /\ PoolIs(Stored(p, a, len), g) /\ ~Stored(p, a, len).overrun
            /\ \A b \in Attributes : 2 * Cost(g[b]) < mem_size
        BY <2>1, <3>1, <3>2, <3>4, <4>1, ShortStored
      <4> HIDE DEF g
      <4> QED
        BY <2>3, <4>2 DEF ShortFit, Intact
    <3> QED
      BY <3>3, <3>4
  <2> QED
    BY <1>4, <2>2, <2>3 DEF NameUpdate
<1>5. CASE /\ ~Connect /\ ~AmsReset /\ ~AmsMemDeinit
           /\ \A a \in Attributes, len \in Lengths \cup {0} : ~NameUpdate(a, len)
  BY <1>5, NamesKept DEF ShortFit, Intact
<1> QED
  BY <1>1, <1>2, <1>3, <1>4, <1>5

\* With names so short, nothing is ever written past the end of the pool,
\* however they follow each other and whatever sessions they fall into: the 7
\* bytes that kernel_mem_add_data leaves out of its check of the room do no harm
\* then.
THEOREM ShortNamesFit == ShortNames => (Spec => []Intact)
<1> SUFFICES ASSUME ShortNames PROVE Spec => []Intact
  OBVIOUS
<1>1. Init => ShortFit
  BY DEF Init, NoPool, ShortFit, Intact
<1>2. Types /\ ShortFit /\ [Next]_vars => ShortFit'
  BY ShortNext
<1>3. ShortFit => Intact
  BY DEF ShortFit
<1> QED
  BY <1>1, <1>2, <1>3, SessionAlways, PTL DEF Spec

(***************************************************************************)
(* The nodes of the list.                                                  *)
(***************************************************************************)
\* The list l consists of the m nodes w, one after another, and every other is
\* free.
Chain(l, m, w) ==
    /\ l \in Lists /\ l.inited /\ ~l.wild
    /\ m \in 0 .. total_poss_node /\ l.total_link_nodes = m
    /\ w \in [1 .. m -> Nodes]
    /\ \A i, j \in 1 .. m : w[i] = w[j] => i = j
    /\ \A n \in Nodes : l.next_link[n] # NULL => \E i \in 1 .. m : w[i] = n
    /\ \A i \in 1 .. m : l.next_link[w[i]] = IF i < m THEN w[i + 1] ELSE LINK_TERMINATED
    /\ l.head_ptr = IF m = 0 THEN NULL ELSE w[1]

\* The nodes w hold the notifications whose versions f gives, each once.
Holds(l, m, w, f) ==
    /\ f \in [Uids -> 0 .. 2]
    /\ \A i \in 1 .. m : /\ l.data[w[i]].uid \in Uids
                         /\ l.data[w[i]].version = f[l.data[w[i]].uid]
                         /\ f[l.data[w[i]].uid] # 0
    /\ \A i, j \in 1 .. m : l.data[w[i]].uid = l.data[w[j]].uid => i = j
    /\ \A u \in Uids : f[u] # 0 => \E i \in 1 .. m : l.data[w[i]].uid = u

\* What holds at 0 and from each k to k + 1 holds up to n.
LEMMA Upwards ==
  ASSUME NEW n \in Nat, NEW T, 0 \in T,
         \A m \in 0 .. n : m \in T /\ m < n => m + 1 \in T
  PROVE  0 .. n \subseteq T
<1> DEFINE Missing == {m \in 0 .. n : m \notin T}
<1> SUFFICES ASSUME Missing # {} PROVE FALSE
  OBVIOUS
<1>1. Missing \subseteq Nat
  OBVIOUS
<1>2. PICK m \in Missing : \A k \in Missing : m <= k
  <2> HIDE DEF Missing
  <2> QED
    BY <1>1, LeastIs
<1>3. m - 1 \in 0 .. n /\ m - 1 \notin Missing
  BY <1>2
<1> QED
  BY <1>2, <1>3

\* f is what Walk computes.
IsWalk(l, f) ==
    f = [k \in 0 .. total_poss_node |->
            IF k = 0 THEN l.head_ptr
            ELSE IF f[k - 1] \in Nodes THEN l.next_link[f[k - 1]] ELSE f[k - 1]]

\* A walk over a chain meets its nodes in turn, then the end.
LEMMA WalkIs ==
  ASSUME NEW l, NEW m, NEW w, Chain(l, m, w), NEW k \in 0 .. total_poss_node
  PROVE  Walk(l)[k] = IF m = 0 THEN NULL ELSE IF k < m THEN w[k + 1] ELSE LINK_TERMINATED
<1> DEFINE T == total_poss_node
           f == [i \in 0 .. T |-> IF m = 0 THEN NULL
                                  ELSE IF i < m THEN w[i + 1] ELSE LINK_TERMINATED]
<1>1. T \in Nat \ {0} /\ m \in 0 .. T
  BY KernelLinkListAssumption DEF Chain
<1>2. /\ w \in [1 .. m -> Nodes] /\ l.head_ptr = IF m = 0 THEN NULL ELSE w[1]
      /\ \A i \in 1 .. m : l.next_link[w[i]] = IF i < m THEN w[i + 1] ELSE LINK_TERMINATED
  BY DEF Chain
<1>3. NULL \notin Nodes /\ LINK_TERMINATED \notin Nodes
  BY <1>1 DEF NULL, LINK_TERMINATED, Nodes
<1>4. ASSUME NEW i \in 0 .. T
      PROVE  f[i] = IF i = 0 THEN l.head_ptr
                    ELSE IF f[i - 1] \in Nodes THEN l.next_link[f[i - 1]] ELSE f[i - 1]
  <2>1. CASE m = 0
    BY <1>1, <1>2, <1>3, <2>1
  <2>2. CASE m # 0 /\ i = 0
    BY <1>1, <1>2, <2>2
  <2>3. CASE m # 0 /\ i # 0 /\ i - 1 < m
    <3>1. i \in 1 .. m /\ i - 1 \in 0 .. T
      BY <1>1, <2>3
    <3>2. f[i - 1] = w[i]
      BY <1>1, <2>3, <3>1
    <3>3. w[i] \in Nodes /\ f[i] = IF i < m THEN w[i + 1] ELSE LINK_TERMINATED
      BY <1>2, <2>3, <3>1
    <3> HIDE DEF f
    <3> QED
      BY <1>2, <2>3, <3>1, <3>2, <3>3
  <2>4. CASE m # 0 /\ i # 0 /\ ~(i - 1 < m)
    <3>1. i - 1 \in 0 .. T /\ ~(i < m)
      BY <1>1, <2>4
    <3>2. f[i - 1] = LINK_TERMINATED /\ f[i] = LINK_TERMINATED
      BY <1>1, <2>4, <3>1
    <3> HIDE DEF f
    <3> QED
      BY <1>3, <2>4, <3>2
  <2> QED
    BY <2>1, <2>2, <2>3, <2>4
<1>5. IsWalk(l, f)
  <2>1. f = [i \in 0 .. T |-> IF i = 0 THEN l.head_ptr
                              ELSE IF f[i - 1] \in Nodes THEN l.next_link[f[i - 1]] ELSE f[i - 1]]
    <3> DEFINE g == [i \in 0 .. T |-> IF i = 0 THEN l.head_ptr
                              ELSE IF f[i - 1] \in Nodes THEN l.next_link[f[i - 1]] ELSE f[i - 1]]
    <3>1. \A i \in 0 .. T : f[i] = g[i]
      BY <1>4
    <3>2. f = [i \in 0 .. T |-> f[i]] /\ g = [i \in 0 .. T |-> g[i]]
      OBVIOUS
    <3> HIDE DEF f, g
    <3>3. [i \in 0 .. T |-> f[i]] = [i \in 0 .. T |-> g[i]]
      BY <3>1
    <3> QED
      BY <3>2, <3>3 DEF g
  <2> HIDE DEF f
  <2> QED
    BY <2>1 DEF IsWalk
<1> HIDE DEF f
<1> DEFINE g == Walk(l)
<1>6. IsWalk(l, g)
  <2>1. g = CHOOSE h : IsWalk(l, h)
    BY DEF Walk, IsWalk
  <2> HIDE DEF g
  <2> QED
    BY <1>5, <2>1
<1> DEFINE Same == {i \in 0 .. T : g[i] = f[i]}
<1>7. 0 .. T \subseteq Same
  <2> HIDE DEF g
  <2>1. 0 \in Same
    BY <1>1, <1>4, <1>6 DEF IsWalk
  <2>2. ASSUME NEW i \in 0 .. T, i \in Same, i < T PROVE i + 1 \in Same
    <3>1. i + 1 \in 0 .. T /\ i + 1 # 0 /\ (i + 1) - 1 = i
      BY <1>1, <2>2
    <3>2. g[i + 1] = IF g[i] \in Nodes THEN l.next_link[g[i]] ELSE g[i]
      BY <1>6, <3>1 DEF IsWalk
    <3>3. f[i + 1] = IF f[i] \in Nodes THEN l.next_link[f[i]] ELSE f[i]
      BY <1>4, <3>1
    <3> QED
      BY <2>2, <3>1, <3>2, <3>3
  <2> HIDE DEF Same
  <2> QED
    BY <1>1, <2>1, <2>2, Upwards
<1>8. g[k] = f[k]
  BY <1>7
<1> QED
  BY <1>8 DEF f

\* What the operations find on a chain.
LEMMA ChainIs ==
  ASSUME NEW l, NEW m, NEW w, Chain(l, m, w)
  PROVE  /\ Linked(l) = {w[i] : i \in 1 .. m}
         /\ m > 0 => Terminated(l)
         /\ \A k \in 0 .. m - 1 : Walk(l)[k] = w[k + 1] /\ Walk(l)[k] \in Linked(l)
         /\ \A k \in 0 .. total_poss_node : k >= m => Walk(l)[k] \notin Linked(l)
<1> DEFINE T == total_poss_node
<1>1. T \in Nat \ {0} /\ m \in 0 .. T /\ w \in [1 .. m -> Nodes]
  BY KernelLinkListAssumption DEF Chain
<1>2. NULL \notin Nodes /\ LINK_TERMINATED \notin Nodes
  BY <1>1 DEF NULL, LINK_TERMINATED, Nodes
<1>3. \A k \in 0 .. m - 1 : k \in 0 .. T /\ Walk(l)[k] = w[k + 1] /\ Walk(l)[k] \in Nodes
  BY <1>1, WalkIs
<1>4. \A k \in 0 .. T : k >= m => Walk(l)[k] \notin Nodes
  BY <1>1, <1>2, WalkIs
<1>5. Linked(l) = {w[i] : i \in 1 .. m}
  <2>1. ASSUME NEW n \in Linked(l) PROVE n \in {w[i] : i \in 1 .. m}
    <3>1. PICK k \in 0 .. T : n = Walk(l)[k] /\ Walk(l)[k] \in Nodes
      BY DEF Linked
    <3>2. k < m
      BY <1>1, <1>4, <3>1
    <3>3. k + 1 \in 1 .. m /\ k \in 0 .. m - 1
      BY <1>1, <3>2
    <3> QED
      BY <1>3, <3>1, <3>3
  <2>2. ASSUME NEW i \in 1 .. m PROVE w[i] \in Linked(l)
    <3>1. i - 1 \in 0 .. m - 1 /\ (i - 1) + 1 = i
      BY <1>1
    <3> QED
      BY <1>3, <3>1 DEF Linked
  <2> QED
    BY <2>1, <2>2
<1>6. m > 0 => Terminated(l)
  <2> HAVE m > 0
  <2>1. Walk(l)[T] = LINK_TERMINATED
    BY <1>1, WalkIs
  <2> QED
    BY <2>1 DEF Terminated
<1> QED
  BY <1>3, <1>4, <1>5, <1>6 DEF Linked

\* A notification the list has not got takes a free node, at the end.
LEMMA AddIs ==
  ASSUME NEW l, NEW m, NEW w, NEW f, Chain(l, m, w), Holds(l, m, w, f), m < total_poss_node,
         NEW u \in Uids, f[u] = 0
  PROVE  LET r == kernel_ll_add_data(l, [uid |-> u, version |-> 1])
         IN  \E v : Chain(r, m + 1, v) /\ Holds(r, m + 1, v, [f EXCEPT ![u] = 1])
<1> DEFINE T == total_poss_node
           d == [uid |-> u, version |-> 1]
           r == kernel_ll_add_data(l, d)
           free == {n \in Nodes : l.next_link[n] = NULL}
           node == IF l.head_ptr = NULL THEN 1 ELSE Min(free)
           tail == CHOOSE n \in Linked(l) : l.next_link[n] = LINK_TERMINATED
           links == IF l.head_ptr = NULL THEN l.next_link ELSE [l.next_link EXCEPT ![tail] = node]
           next == [links EXCEPT ![node] = LINK_TERMINATED]
           v == [i \in 1 .. m + 1 |-> IF i <= m THEN w[i] ELSE node]
           g == [f EXCEPT ![u] = 1]
<1>1. /\ T \in Nat \ {0} /\ m \in Nat /\ m < T
      /\ l \in Lists /\ l.inited /\ ~l.wild /\ l.total_link_nodes = m
      /\ w \in [1 .. m -> Nodes]
      /\ \A i, j \in 1 .. m : w[i] = w[j] => i = j
      /\ \A n \in Nodes : l.next_link[n] # NULL => \E i \in 1 .. m : w[i] = n
      /\ \A i \in 1 .. m : l.next_link[w[i]] = IF i < m THEN w[i + 1] ELSE LINK_TERMINATED
      /\ l.head_ptr = IF m = 0 THEN NULL ELSE w[1]
  BY KernelLinkListAssumption DEF Chain
<1>2. NULL \notin Nodes /\ LINK_TERMINATED \notin Nodes /\ NULL # LINK_TERMINATED /\ 1 \in Nodes
      /\ Nodes \subseteq Nat /\ Nodes \subseteq Links /\ LINK_TERMINATED \in Links
  BY <1>1 DEF NULL, LINK_TERMINATED, Nodes, Links
<1>3. l.head_ptr = NULL <=> m = 0
  <2>1. m # 0 => w[1] \in Nodes
    BY <1>1
  <2> QED
    BY <1>1, <1>2, <2>1
<1>4. \A i \in 1 .. m : w[i] \in Nodes /\ l.next_link[w[i]] # NULL
  <2> TAKE i \in 1 .. m
  <2>1. i < m => w[i + 1] \in Nodes
    BY <1>1
  <2> QED
    BY <1>1, <1>2, <2>1
<1>5. free # {} /\ node \in Nodes /\ l.next_link[node] = NULL
  <2>1. free # {}
    <3> SUFFICES ASSUME free = {} PROVE FALSE
      OBVIOUS
    <3>1. \A n \in Nodes : \E i \in 1 .. m : w[i] = n
      BY <1>1
    <3>2. w \in Surjection(1 .. m, Nodes)
      BY <1>1, <3>1 DEF Surjection
    <3>3. IsFiniteSet(1 .. m) /\ Cardinality(1 .. m) = m
      BY <1>1, FS_Interval
    <3>4. Cardinality(Nodes) <= m
      BY <3>2, <3>3, FS_Surjection
    <3>5. Cardinality(Nodes) = T
      BY <1>1, FS_Interval DEF Nodes
    <3> QED
      BY <1>1, <3>4, <3>5
  <2>2. CASE l.head_ptr = NULL
    <3>1. m = 0
      BY <1>3, <2>2
    <3>2. l.next_link[1] = NULL
      BY <1>1, <1>2, <3>1
    <3> QED
      BY <1>2, <2>1, <2>2, <3>2
  <2>3. CASE l.head_ptr # NULL
    <3>1. free \subseteq Nat
      BY <1>2
    <3> HIDE DEF free
    <3>2. Min(free) \in free
      BY <2>1, <3>1, LeastIs
    <3> QED
      BY <2>1, <2>3, <3>2 DEF free
  <2> QED
    BY <2>2, <2>3
<1>6. m > 0 => tail = w[m]
  <2> HAVE m > 0
  <2>1. w[m] \in Linked(l) /\ l.next_link[w[m]] = LINK_TERMINATED
    BY <1>1, ChainIs
  <2>2. ASSUME NEW n \in Linked(l), l.next_link[n] = LINK_TERMINATED PROVE n = w[m]
    <3>1. PICK i \in 1 .. m : n = w[i]
      BY ChainIs
    <3>2. i < m => w[i + 1] \in Nodes
      BY <1>1
    <3> QED
      BY <1>1, <1>2, <2>2, <3>1, <3>2
  <2> QED
    BY <2>1, <2>2
<1> HIDE DEF node, tail
<1>7. r = [l EXCEPT !.head_ptr = IF @ = NULL THEN 1 ELSE @, !.next_link = next,
                    !.data[node] = d, !.total_link_nodes = @ + 1]
  <2>1. ~(l.wild \/ ~l.inited \/ l.total_link_nodes >= total_poss_node)
    BY <1>1
  <2>2. ~(l.head_ptr # NULL /\ (free = {} \/ ~Terminated(l)))
    BY <1>1, <1>3, <1>5, ChainIs
  <2> QED
    BY <2>1, <2>2 DEF kernel_ll_add_data, node, tail
<1>8. /\ r.inited /\ ~r.wild /\ r.total_link_nodes = m + 1
      /\ r.head_ptr = (IF l.head_ptr = NULL THEN 1 ELSE l.head_ptr)
      /\ r.next_link = next /\ r.data = [l.data EXCEPT ![node] = d]
  <2> HIDE DEF next, d, r
  <2> QED
    BY <1>1, <1>7 DEF Lists
<1>9. r \in Lists
  <2>1. d \in Notifs /\ 0 \in Nat
    BY PeersValues
  <2> HIDE DEF d
  <2> QED
    BY <1>1, <2>1, ListsStayLists
<1> HIDE DEF r, free, d
<1>10. /\ l.next_link \in [Nodes -> Links] /\ l.data \in [Nodes -> Notifs]
  BY <1>1, ListFields
<1>11. /\ m = 0 => next = [l.next_link EXCEPT ![node] = LINK_TERMINATED]
       /\ m > 0 => next = [[l.next_link EXCEPT ![w[m]] = node] EXCEPT ![node] = LINK_TERMINATED]
  BY <1>1, <1>3, <1>6
<1> HIDE DEF next
<1>12. /\ next[node] = LINK_TERMINATED
       /\ \A n \in Nodes \ {node} : (m = 0 \/ n # w[m]) => next[n] = l.next_link[n]
       /\ m > 0 => w[m] # node /\ next[w[m]] = node
  <2>1. CASE m = 0
    BY <1>5, <1>10, <1>11, <2>1
  <2>2. CASE m > 0
    <3>1. m \in 1 .. m
      BY <1>1, <2>2
    <3>2. w[m] \in Nodes /\ w[m] # node
      BY <1>4, <1>5, <3>1
    <3> QED
      BY <1>5, <1>10, <1>11, <2>2, <3>2
  <2> QED
    BY <1>1, <2>1, <2>2
<1>13. /\ v \in [1 .. m + 1 -> Nodes] /\ v[m + 1] = node
       /\ \A i \in 1 .. m : v[i] = w[i] /\ v[i] # node
  BY <1>1, <1>4, <1>5
<1>14. \A i \in 1 .. m + 1 : i \in 1 .. m \/ i = m + 1
  BY <1>1
<1> HIDE DEF v
<1>15. Chain(r, m + 1, v)
  <2>1. m + 1 \in 0 .. T
    BY <1>1
  <2>2. \A i, j \in 1 .. m + 1 : v[i] = v[j] => i = j
    BY <1>1, <1>13, <1>14
  <2>3. ASSUME NEW n \in Nodes, next[n] # NULL PROVE \E i \in 1 .. m + 1 : v[i] = n
    <3>1. CASE n = node
      BY <1>1, <1>13, <3>1
    <3>2. CASE n # node /\ m > 0 /\ n = w[m]
      BY <1>1, <1>13, <3>2
    <3>3. CASE n # node /\ (m = 0 \/ n # w[m])
      <4>1. l.next_link[n] # NULL
        BY <1>12, <2>3, <3>3
      <4>2. PICK i \in 1 .. m : w[i] = n
        BY <1>1, <4>1
      <4>3. i \in 1 .. m + 1
        BY <1>1
      <4> QED
        BY <1>13, <4>2, <4>3
    <3> QED
      BY <1>1, <3>1, <3>2, <3>3
  <2>4. ASSUME NEW i \in 1 .. m + 1
        PROVE  next[v[i]] = IF i < m + 1 THEN v[i + 1] ELSE LINK_TERMINATED
    <3>1. CASE i = m + 1
      BY <1>1, <1>12, <1>13, <3>1
    <3>2. CASE i = m /\ m > 0
      BY <1>1, <1>12, <1>13, <3>2
    <3>3. CASE i \in 1 .. m /\ i # m
      <4>1. i < m /\ i + 1 \in 1 .. m /\ i < m + 1 /\ m \in 1 .. m
        BY <1>1, <3>3
      <4>2. w[i] # w[m] /\ w[i] # node /\ w[i] \in Nodes
        BY <1>1, <1>13, <3>3, <4>1
      <4>3. next[w[i]] = w[i + 1]
        BY <1>1, <1>12, <3>3, <4>1, <4>2
      <4> QED
        BY <1>13, <3>3, <4>1, <4>3
    <3> QED
      BY <1>1, <1>14, <3>1, <3>2, <3>3
  <2>5. r.head_ptr = v[1]
    <3>1. CASE m = 0
      BY <1>1, <1>3, <1>8, <1>13, <3>1 DEF node
    <3>2. CASE m > 0
      <4>1. 1 \in 1 .. m
        BY <1>1, <3>2
      <4> QED
        BY <1>1, <1>3, <1>8, <1>13, <3>2, <4>1
    <3> QED
      BY <1>1, <3>1, <3>2
  <2> QED
    BY <1>1, <1>8, <1>9, <1>13, <2>1, <2>2, <2>3, <2>4, <2>5 DEF Chain
<1>16. Holds(r, m + 1, v, g)
  <2>1. /\ f \in [Uids -> 0 .. 2]
        /\ \A i \in 1 .. m : /\ l.data[w[i]].uid \in Uids
                             /\ l.data[w[i]].version = f[l.data[w[i]].uid]
                             /\ f[l.data[w[i]].uid] # 0
        /\ \A i, j \in 1 .. m : l.data[w[i]].uid = l.data[w[j]].uid => i = j
        /\ \A x \in Uids : f[x] # 0 => \E i \in 1 .. m : l.data[w[i]].uid = x
    BY DEF Holds
  <2>2. /\ g \in [Uids -> 0 .. 2] /\ g[u] = 1
        /\ \A x \in Uids : x # u => g[x] = f[x]
    BY <2>1
  <2> HIDE DEF g
  <2>3. /\ r.data[node] = d
        /\ \A i \in 1 .. m : r.data[v[i]] = l.data[w[i]]
    BY <1>4, <1>5, <1>8, <1>10, <1>13
  <2>4. d.uid = u /\ d.version = 1
    BY DEF d
  <2>5. \A i \in 1 .. m : l.data[w[i]].uid # u
    BY <2>1
  <2>6. m + 1 \in 1 .. m + 1 /\ \A i \in 1 .. m : i \in 1 .. m + 1
    BY <1>1
  <2>7. ASSUME NEW i \in 1 .. m + 1
        PROVE  /\ r.data[v[i]].uid \in Uids
               /\ r.data[v[i]].version = g[r.data[v[i]].uid]
               /\ g[r.data[v[i]].uid] # 0
    <3>1. CASE i \in 1 .. m
      BY <2>1, <2>2, <2>3, <2>5, <3>1
    <3>2. CASE i = m + 1
      BY <1>13, <2>2, <2>3, <2>4, <3>2
    <3> QED
      BY <1>14, <3>1, <3>2
  <2>8. ASSUME NEW i \in 1 .. m + 1, NEW j \in 1 .. m + 1, r.data[v[i]].uid = r.data[v[j]].uid
        PROVE  i = j
    BY <1>13, <1>14, <2>1, <2>3, <2>4, <2>5, <2>8
  <2>9. ASSUME NEW x \in Uids, g[x] # 0 PROVE \E i \in 1 .. m + 1 : r.data[v[i]].uid = x
    <3>1. CASE x = u
      BY <1>13, <2>3, <2>4, <2>6, <3>1
    <3>2. CASE x # u
      <4>1. PICK i \in 1 .. m : l.data[w[i]].uid = x
        BY <2>1, <2>2, <2>9, <3>2
      <4> QED
        BY <2>3, <2>6, <4>1
    <3> QED
      BY <3>1, <3>2
  <2> QED
    BY <2>2, <2>7, <2>8, <2>9 DEF Holds
<1> QED
  BY <1>15, <1>16 DEF r, d

\* A search finds the one node with the notification.
LEMMA PlaceIs ==
  ASSUME NEW l, NEW m, NEW w, NEW f, Chain(l, m, w), Holds(l, m, w, f),
         NEW u \in Uids, f[u] # 0,
         NEW last \in m - 1 .. total_poss_node - 1
  PROVE  \E j \in 1 .. m :
            /\ l.data[w[j]].uid = u
            /\ Places(l, u, last) = {j - 1} /\ Min(Places(l, u, last)) = j - 1
            /\ Walk(l)[j - 1] = w[j]
            /\ j > 1 => Walk(l)[j - 2] = w[j - 1]
<1>1. PICK j \in 1 .. m : l.data[w[j]].uid = u
  BY DEF Holds
<1>2. m \in 0 .. total_poss_node /\ total_poss_node \in Nat
  BY KernelLinkListAssumption DEF Chain
<1>3. j - 1 \in 0 .. m - 1 /\ (j - 1) + 1 = j /\ j - 1 \in 0 .. last
  BY <1>2
<1>4. Walk(l)[j - 1] = w[j] /\ Walk(l)[j - 1] \in Linked(l)
  BY <1>3, ChainIs
<1>5. j > 1 => Walk(l)[j - 2] = w[j - 1]
  <2> HAVE j > 1
  <2>1. j - 2 \in 0 .. m - 1 /\ (j - 2) + 1 = j - 1
    BY <1>2, <1>3
  <2> QED
    BY <2>1, ChainIs
<1>6. ASSUME NEW k \in 0 .. last, Walk(l)[k] \in Linked(l), l.data[Walk(l)[k]].uid = u
      PROVE  k = j - 1
  <2>1. k \in 0 .. total_poss_node
    BY <1>2
  <2>2. k < m
    BY <1>2, <1>6, <2>1, ChainIs
  <2>3. k \in 0 .. m - 1 /\ k + 1 \in 1 .. m
    BY <1>2, <2>2
  <2>4. Walk(l)[k] = w[k + 1]
    BY <2>3, ChainIs
  <2>5. k + 1 = j
    BY <1>1, <1>6, <2>3, <2>4 DEF Holds
  <2> QED
    BY <1>2, <2>3, <2>5
<1>7. Places(l, u, last) = {j - 1}
  BY <1>1, <1>3, <1>4, <1>6 DEF Places
<1>8. Min({j - 1}) = j - 1
  BY <1>3 DEF Min
<1> QED
  BY <1>1, <1>4, <1>5, <1>7, <1>8

\* The new text takes the place of the old one.
LEMMA ModifyIs ==
  ASSUME NEW l, NEW m, NEW w, NEW f, Chain(l, m, w), Holds(l, m, w, f),
         NEW u \in Uids, f[u] # 0
  PROVE  LET r == kernel_ll_modify_data(l, u, [uid |-> u, version |-> 2])
         IN  Chain(r, m, w) /\ Holds(r, m, w, [f EXCEPT ![u] = 2])
<1> DEFINE d == [uid |-> u, version |-> 2]
           r == kernel_ll_modify_data(l, u, d)
           last == total_poss_node - 1
           g == [f EXCEPT ![u] = 2]
<1>1. /\ total_poss_node \in Nat \ {0} /\ m \in 0 .. total_poss_node
      /\ l \in Lists /\ l.inited /\ ~l.wild /\ w \in [1 .. m -> Nodes]
      /\ \A i, k \in 1 .. m : w[i] = w[k] => i = k
  BY KernelLinkListAssumption DEF Chain
<1>2. last \in m - 1 .. total_poss_node - 1
  BY <1>1
<1>3. PICK j \in 1 .. m : /\ l.data[w[j]].uid = u
                          /\ Places(l, u, last) = {j - 1} /\ Min(Places(l, u, last)) = j - 1
                          /\ Walk(l)[j - 1] = w[j]
  BY <1>2, PlaceIs
<1>4. l.head_ptr # NULL
  <2>1. l.head_ptr = w[1] /\ w[1] \in Nodes
    BY <1>1, <1>3 DEF Chain
  <2> QED
    BY <2>1 DEF Nodes, NULL
<1>5. r = [l EXCEPT !.data[w[j]] = d]
  BY <1>1, <1>3, <1>4 DEF kernel_ll_modify_data
<1>6. r \in Lists
  <2>1. d \in Notifs /\ u \in Nat
    BY PeersValues
  <2> HIDE DEF d
  <2> QED
    BY <1>1, <2>1, ListsStayLists
<1> HIDE DEF r
<1>7. /\ r.inited = l.inited /\ r.wild = l.wild /\ r.total_link_nodes = l.total_link_nodes
      /\ r.head_ptr = l.head_ptr /\ r.next_link = l.next_link
      /\ r.data = [l.data EXCEPT ![w[j]] = d]
  <2> HIDE DEF d
  <2> QED
    BY <1>1, <1>5 DEF Lists
<1>8. Chain(r, m, w)
  BY <1>6, <1>7 DEF Chain
<1>9. Holds(r, m, w, g)
  <2>1. /\ f \in [Uids -> 0 .. 2]
        /\ \A i \in 1 .. m : /\ l.data[w[i]].uid \in Uids
                             /\ l.data[w[i]].version = f[l.data[w[i]].uid]
                             /\ f[l.data[w[i]].uid] # 0
        /\ \A i, k \in 1 .. m : l.data[w[i]].uid = l.data[w[k]].uid => i = k
        /\ \A x \in Uids : f[x] # 0 => \E i \in 1 .. m : l.data[w[i]].uid = x
    BY DEF Holds
  <2>2. /\ g \in [Uids -> 0 .. 2] /\ g[u] = 2
        /\ \A x \in Uids : x # u => g[x] = f[x]
    BY <2>1
  <2> HIDE DEF g
  <2>3. l.data \in [Nodes -> Notifs]
    BY <1>1, ListFields
  <2>4. /\ r.data[w[j]] = d
        /\ \A i \in 1 .. m : i # j => r.data[w[i]] = l.data[w[i]]
    BY <1>1, <1>7, <2>3
  <2>5. d.uid = u /\ d.version = 2
    OBVIOUS
  <2> HIDE DEF d
  <2>6. \A i \in 1 .. m : i # j => l.data[w[i]].uid # u
    BY <1>3, <2>1
  <2>7. \A i \in 1 .. m : r.data[w[i]].uid = l.data[w[i]].uid
    BY <1>3, <2>4, <2>5
  <2>8. ASSUME NEW i \in 1 .. m
        PROVE  /\ r.data[w[i]].version = g[r.data[w[i]].uid]
               /\ g[r.data[w[i]].uid] # 0
    <3>1. CASE i = j
      BY <2>2, <2>4, <2>5, <3>1
    <3>2. CASE i # j
      BY <2>1, <2>2, <2>4, <2>6, <3>2
    <3> QED
      BY <3>1, <3>2
  <2>9. ASSUME NEW x \in Uids, g[x] # 0 PROVE \E i \in 1 .. m : r.data[w[i]].uid = x
    BY <1>3, <2>1, <2>2, <2>7, <2>9
  <2> QED
    BY <2>1, <2>2, <2>7, <2>8, <2>9 DEF Holds
<1> QED
  BY <1>8, <1>9 DEF r, d

\* A node that is taken out is free; those around it are linked.
LEMMA RemoveIs ==
  ASSUME NEW l, NEW m, NEW w, NEW f, Chain(l, m, w), Holds(l, m, w, f),
         NEW u \in Uids, f[u] # 0
  PROVE  LET r == kernel_ll_remove_data(l, u)
         IN  \E v : Chain(r, m - 1, v) /\ Holds(r, m - 1, v, [f EXCEPT ![u] = 0])
<1> DEFINE T == total_poss_node
           r == kernel_ll_remove_data(l, u)
           last == l.total_link_nodes - 1
           g == [f EXCEPT ![u] = 0]
<1>1. /\ T \in Nat \ {0} /\ m \in 0 .. T
      /\ l \in Lists /\ l.inited /\ ~l.wild /\ l.total_link_nodes = m
      /\ w \in [1 .. m -> Nodes]
      /\ \A i, k \in 1 .. m : w[i] = w[k] => i = k
      /\ \A n \in Nodes : l.next_link[n] # NULL => \E i \in 1 .. m : w[i] = n
      /\ \A i \in 1 .. m : l.next_link[w[i]] = IF i < m THEN w[i + 1] ELSE LINK_TERMINATED
      /\ l.head_ptr = IF m = 0 THEN NULL ELSE w[1]
  BY KernelLinkListAssumption DEF Chain
<1>2. NULL \notin Nodes /\ LINK_TERMINATED \notin Nodes /\ NULL # LINK_TERMINATED
  BY <1>1 DEF NULL, LINK_TERMINATED, Nodes
<1>3. last \in m - 1 .. total_poss_node - 1
  BY <1>1
<1>4. PICK j \in 1 .. m : /\ l.data[w[j]].uid = u
                          /\ Places(l, u, last) = {j - 1} /\ Min(Places(l, u, last)) = j - 1
                          /\ Walk(l)[j - 1] = w[j]
                          /\ j > 1 => Walk(l)[j - 2] = w[j - 1]
  BY <1>3, PlaceIs
<1>5. l.head_ptr # NULL /\ m > 0 /\ w[j] \in Nodes
  <2>1. m > 0 /\ w[1] \in Nodes /\ w[j] \in Nodes
    BY <1>1
  <2> QED
    BY <1>1, <1>2, <2>1
<1> DEFINE after == l.next_link[w[j]]
           s == Unlinked(l, j - 1)
           head == IF j = 1 THEN (IF after = LINK_TERMINATED THEN NULL ELSE after) ELSE l.head_ptr
           links == IF j = 1 THEN l.next_link ELSE [l.next_link EXCEPT ![w[j - 1]] = after]
           next == [links EXCEPT ![w[j]] = NULL]
           At(i) == IF i < j THEN i ELSE i + 1
           v == [i \in 1 .. m - 1 |-> w[At(i)]]
<1>6. r = [s EXCEPT !.next_link[w[j]] = NULL, !.data[w[j]] = NoData, !.total_link_nodes = @ - 1]
  <2> HIDE DEF s
  <2> QED
    BY <1>1, <1>4, <1>5 DEF kernel_ll_remove_data, s
<1>7. /\ r \in Lists
      /\ l.next_link \in [Nodes -> Links] /\ l.data \in [Nodes -> Notifs]
  <2>1. [uid |-> u, version |-> 1] \in Notifs /\ u \in Nat
    BY PeersValues
  <2> QED
    BY <1>1, <2>1, ListsStayLists, ListFields
<1> HIDE DEF r
<1>8. /\ s.inited = l.inited /\ s.wild = l.wild /\ s.total_link_nodes = m /\ s.data = l.data
      /\ s.head_ptr = head /\ s.next_link = links
      /\ DOMAIN s = DOMAIN l
  <2>1. CASE j = 1
    <3>1. s = [l EXCEPT !.head_ptr = head]
      BY <1>4, <2>1 DEF Unlinked
    <3> HIDE DEF head, s
    <3> QED
      BY <1>1, <2>1, <3>1 DEF Lists
  <2>2. CASE j # 1
    <3>1. (j - 1) - 1 = j - 2 /\ j > 1 /\ j - 1 # 0
      BY <1>1, <2>2
    <3>2. s = [l EXCEPT !.next_link[w[j - 1]] = after]
      BY <1>4, <3>1 DEF Unlinked
    <3> HIDE DEF after, s
    <3> QED
      BY <1>1, <2>2, <3>2 DEF Lists, head
  <2> QED
    BY <2>1, <2>2
<1> HIDE DEF s, head, links
<1>9. /\ r.inited = l.inited /\ r.wild = l.wild /\ r.total_link_nodes = m - 1
      /\ r.head_ptr = head /\ r.next_link = next
      /\ r.data = [l.data EXCEPT ![w[j]] = NoData]
  <2> HIDE DEF next
  <2>1. DOMAIN s = {"inited", "head_ptr", "total_link_nodes", "next_link", "data", "wild"}
    BY <1>1, <1>8 DEF Lists
  <2> QED
    BY <1>6, <1>8, <2>1 DEF next
<1>10. /\ next[w[j]] = NULL
       /\ \A n \in Nodes \ {w[j]} : (j = 1 \/ n # w[j - 1]) => next[n] = l.next_link[n]
       /\ j > 1 => next[w[j - 1]] = after
  <2>1. CASE j = 1
    BY <1>5, <1>7, <2>1 DEF links
  <2>2. CASE j # 1
    <3>1. j > 1 /\ j - 1 \in 1 .. m
      BY <1>1, <2>2
    <3>2. w[j - 1] \in Nodes /\ w[j - 1] # w[j]
      BY <1>1, <3>1
    <3> HIDE DEF after
    <3>3. links = [l.next_link EXCEPT ![w[j - 1]] = after]
      BY <2>2 DEF links
    <3> QED
      BY <1>5, <1>7, <2>2, <3>2, <3>3
  <2> QED
    BY <2>1, <2>2
<1> HIDE DEF next
<1>11. \A i \in 1 .. m - 1 : At(i) \in 1 .. m /\ At(i) # j
  BY <1>1
<1>12. \A i, k \in 1 .. m - 1 : At(i) = At(k) => i = k
  BY <1>1
<1>13. \A i \in 1 .. m : i # j => \E k \in 1 .. m - 1 : At(k) = i
  <2> TAKE i \in 1 .. m
  <2> HAVE i # j
  <2>1. CASE i < j
    <3>1. i \in 1 .. m - 1 /\ At(i) = i
      BY <1>1, <2>1
    <3> HIDE DEF At
    <3> QED
      BY <3>1
  <2>2. CASE i > j
    <3>1. i - 1 \in 1 .. m - 1 /\ At(i - 1) = i
      BY <1>1, <2>2
    <3> HIDE DEF At
    <3> QED
      BY <3>1
  <2> QED
    BY <1>1, <2>1, <2>2
<1>14. v \in [1 .. m - 1 -> Nodes] /\ \A i \in 1 .. m - 1 : v[i] = w[At(i)]
  BY <1>1, <1>11
<1> HIDE DEF v
<1>15. Chain(r, m - 1, v)
  <2>1. m - 1 \in 0 .. T
    BY <1>1, <1>5
  <2>2. \A i, k \in 1 .. m - 1 : v[i] = v[k] => i = k
    BY <1>1, <1>11, <1>12, <1>14
  <2>3. ASSUME NEW n \in Nodes, next[n] # NULL PROVE \E i \in 1 .. m - 1 : v[i] = n
    <3>1. n # w[j]
      BY <1>10, <2>3
    <3>2. l.next_link[n] # NULL
      <4>1. CASE j > 1 /\ n = w[j - 1]
        <5>1. j - 1 \in 1 .. m /\ j - 1 < m /\ (j - 1) + 1 = j
          BY <1>1, <4>1
        <5>2. l.next_link[w[j - 1]] = w[j]
          BY <1>1, <5>1
        <5> QED
          BY <1>2, <1>5, <4>1, <5>2
      <4>2. CASE ~(j > 1 /\ n = w[j - 1])
        <5>1. j = 1 \/ n # w[j - 1]
          BY <1>1, <4>2
        <5> QED
          BY <1>10, <2>3, <3>1, <5>1
      <4> QED
        BY <4>1, <4>2
    <3>3. PICK i \in 1 .. m : w[i] = n
      BY <1>1, <3>2
    <3>4. PICK k \in 1 .. m - 1 : At(k) = i
      BY <1>13, <3>1, <3>3
    <3> QED
      BY <1>14, <3>3, <3>4
  <2>4. ASSUME NEW i \in 1 .. m - 1
        PROVE  next[v[i]] = IF i < m - 1 THEN v[i + 1] ELSE LINK_TERMINATED
    <3>1. CASE i + 1 < j
      <4>1. /\ i \in 1 .. m /\ i < m /\ i < m - 1 /\ i + 1 \in 1 .. m - 1
            /\ At(i) = i /\ At(i + 1) = i + 1 /\ j - 1 \in 1 .. m /\ i # j /\ i # j - 1
        BY <1>1, <3>1
      <4>2. w[i] # w[j] /\ w[i] # w[j - 1] /\ w[i] \in Nodes
        BY <1>1, <4>1
      <4>3. next[w[i]] = w[i + 1]
        BY <1>1, <1>10, <4>1, <4>2
      <4> QED
        BY <1>14, <4>1, <4>3
    <3>2. CASE i + 1 = j
      <4>1. j > 1 /\ j - 1 = i /\ At(i) = i /\ (i < m - 1 => i + 1 \in 1 .. m - 1 /\ At(i + 1) = j + 1)
            /\ (i < m - 1 <=> j < m)
        BY <1>1, <3>2
      <4>2. next[w[i]] = after
        BY <1>10, <4>1
      <4>3. after = IF j < m THEN w[j + 1] ELSE LINK_TERMINATED
        BY <1>1
      <4> QED
        BY <1>14, <4>1, <4>2, <4>3
    <3>3. CASE i >= j
      <4>1. /\ At(i) = i + 1 /\ i + 1 \in 1 .. m /\ i + 1 # j
            /\ j > 1 => i + 1 # j - 1 /\ j - 1 \in 1 .. m
            /\ i < m - 1 => i + 1 \in 1 .. m - 1 /\ At(i + 1) = (i + 1) + 1
            /\ i < m - 1 <=> i + 1 < m
        BY <1>1, <3>3
      <4>2. w[i + 1] # w[j] /\ w[i + 1] \in Nodes /\ (j > 1 => w[i + 1] # w[j - 1])
        BY <1>1, <4>1
      <4>3. j = 1 \/ w[i + 1] # w[j - 1]
        BY <1>1, <4>2
      <4>4. next[w[i + 1]] = l.next_link[w[i + 1]]
        BY <1>10, <4>2, <4>3
      <4>5. l.next_link[w[i + 1]] = IF i + 1 < m THEN w[(i + 1) + 1] ELSE LINK_TERMINATED
        BY <1>1, <4>1
      <4> QED
        BY <1>14, <4>1, <4>4, <4>5
    <3> QED
      BY <1>1, <3>1, <3>2, <3>3
  <2>5. r.head_ptr = IF m - 1 = 0 THEN NULL ELSE v[1]
    <3>1. CASE j = 1 /\ m = 1
      BY <1>1, <1>9, <3>1 DEF head
    <3>2. CASE j = 1 /\ m # 1
      <4>1. 1 \in 1 .. m - 1 /\ At(1) = 2 /\ 1 < m /\ 2 \in 1 .. m /\ m - 1 # 0
        BY <1>1, <3>2
      <4>2. after = w[2] /\ w[2] \in Nodes
        BY <1>1, <3>2, <4>1
      <4> QED
        BY <1>2, <1>9, <1>14, <3>2, <4>1, <4>2 DEF head
    <3>3. CASE j # 1
      <4>1. 1 \in 1 .. m - 1 /\ At(1) = 1 /\ m - 1 # 0 /\ m # 0
        BY <1>1, <3>3
      <4> QED
        BY <1>1, <1>9, <1>14, <3>3, <4>1 DEF head
    <3> QED
      BY <3>1, <3>2, <3>3
  <2> QED
    BY <1>1, <1>7, <1>9, <1>14, <2>1, <2>2, <2>3, <2>4, <2>5 DEF Chain
<1>16. Holds(r, m - 1, v, g)
  <2>1. /\ f \in [Uids -> 0 .. 2]
        /\ \A i \in 1 .. m : /\ l.data[w[i]].uid \in Uids
                             /\ l.data[w[i]].version = f[l.data[w[i]].uid]
                             /\ f[l.data[w[i]].uid] # 0
        /\ \A i, k \in 1 .. m : l.data[w[i]].uid = l.data[w[k]].uid => i = k
        /\ \A x \in Uids : f[x] # 0 => \E i \in 1 .. m : l.data[w[i]].uid = x
    BY DEF Holds
  <2>2. /\ g \in [Uids -> 0 .. 2] /\ g[u] = 0
        /\ \A x \in Uids : x # u => g[x] = f[x]
    BY <2>1
  <2> HIDE DEF g, At
  <2>3. \A i \in 1 .. m - 1 : r.data[v[i]] = l.data[w[At(i)]] /\ l.data[w[At(i)]].uid # u
    <3>1. ASSUME NEW i \in 1 .. m, i # j PROVE w[i] # w[j] /\ w[i] \in Nodes
      BY <1>1, <3>1
    <3>2. ASSUME NEW i \in 1 .. m, i # j PROVE l.data[w[i]].uid # u
      BY <1>4, <2>1, <3>2
    <3> QED
      BY <1>7, <1>9, <1>11, <1>14, <3>1, <3>2
  <2>4. ASSUME NEW i \in 1 .. m - 1
        PROVE  /\ r.data[v[i]].uid \in Uids
               /\ r.data[v[i]].version = g[r.data[v[i]].uid]
               /\ g[r.data[v[i]].uid] # 0
    BY <1>11, <2>1, <2>2, <2>3
  <2>5. ASSUME NEW i \in 1 .. m - 1, NEW k \in 1 .. m - 1, r.data[v[i]].uid = r.data[v[k]].uid
        PROVE  i = k
    BY <1>11, <1>12, <2>1, <2>3, <2>5
  <2>6. ASSUME NEW x \in Uids, g[x] # 0 PROVE \E i \in 1 .. m - 1 : r.data[v[i]].uid = x
    <3>1. x # u /\ f[x] # 0
      BY <2>2, <2>6
    <3>2. PICK i \in 1 .. m : l.data[w[i]].uid = x
      BY <2>1, <3>1
    <3>3. PICK k \in 1 .. m - 1 : At(k) = i
      BY <1>4, <1>13, <3>1, <3>2
    <3> QED
      BY <2>3, <3>2, <3>3
  <2> QED
    BY <2>2, <2>4, <2>5, <2>6 DEF Holds
<1> QED
  BY <1>15, <1>16 DEF r

\* A list whose head and memory were reset is empty.
LEMMA EmptyIs ==
  ASSUME NEW l \in Lists, ~l.wild, l.head_ptr = NULL, l.total_link_nodes = 0
  PROVE  Chain(MemoryReset(l), 0, <<>>) /\ Holds(MemoryReset(l), 0, <<>>, Absent)
<1> DEFINE r == MemoryReset(l)
<1>1. r \in Lists
  <2>1. 0 \in Nat /\ NoData \in Notifs
    BY DEF NoData, Notifs
  <2> QED
    BY <2>1, ListsStayLists
<1>2. /\ r.inited /\ ~r.wild /\ r.head_ptr = NULL /\ r.total_link_nodes = 0
      /\ r.next_link = ZeroedMemory
  BY DEF MemoryReset, Cleared, Lists
<1>3. total_poss_node \in Nat
  BY KernelLinkListAssumption
<1> HIDE DEF r
<1>4. Chain(r, 0, <<>>)
  BY <1>1, <1>2, <1>3 DEF Chain, ZeroedMemory
<1>5. Holds(r, 0, <<>>, Absent)
  BY DEF Holds, Absent
<1> QED
  BY <1>4, <1>5 DEF r

\* There are as many notifications as nodes.
LEMMA HeldAre ==
  ASSUME NEW l, NEW m, NEW w, NEW f, Chain(l, m, w), Holds(l, m, w, f),
         NEW there, there = {u \in Uids : f[u] # 0}
  PROVE  /\ IsFiniteSet(there) /\ Cardinality(there) = m
         /\ {l.data[n] : n \in Linked(l)} = {[uid |-> u, version |-> f[u]] : u \in there}
         /\ Cardinality(Linked(l)) = m
         /\ l.head_ptr = NULL \/ Terminated(l)
<1> DEFINE uids == [i \in 1 .. m |-> l.data[w[i]].uid]
<1>1. /\ m \in Nat /\ w \in [1 .. m -> Nodes] /\ l \in Lists
      /\ \A i, j \in 1 .. m : w[i] = w[j] => i = j
      /\ l.head_ptr = IF m = 0 THEN NULL ELSE w[1]
  BY KernelLinkListAssumption DEF Chain
<1>2. IsFiniteSet(1 .. m) /\ Cardinality(1 .. m) = m
  BY <1>1, FS_Interval
<1>3. IsFiniteSet(there) /\ Cardinality(there) = m
  <2>1. uids \in [1 .. m -> there]
    BY DEF Holds
  <2>2. \A u \in there : \E i \in 1 .. m : uids[i] = u
    BY DEF Holds
  <2>3. \A i, j \in 1 .. m : uids[i] = uids[j] => i = j
    BY DEF Holds
  <2> HIDE DEF uids
  <2>4. uids \in Bijection(1 .. m, there)
    BY <2>1, <2>2, <2>3 DEF Bijection, Injection, IsInjective, Surjection
  <2>5. ExistsBijection(1 .. m, there)
    BY <2>4 DEF ExistsBijection
  <2> QED
    BY <1>2, <2>5, FS_Bijection
<1>4. Linked(l) = {w[i] : i \in 1 .. m}
  BY ChainIs
<1>5. Cardinality(Linked(l)) = m
  <2>1. w \in [1 .. m -> Linked(l)]
    BY <1>1, <1>4
  <2>2. w \in Bijection(1 .. m, Linked(l))
    BY <1>1, <1>4, <2>1 DEF Bijection, Injection, IsInjective, Surjection
  <2>3. ExistsBijection(1 .. m, Linked(l))
    BY <2>2 DEF ExistsBijection
  <2> QED
    BY <1>2, <2>3, FS_Bijection
<1>6. {l.data[n] : n \in Linked(l)} = {[uid |-> u, version |-> f[u]] : u \in there}
  <2>1. l.data \in [Nodes -> Notifs]
    BY <1>1, ListFields
  <2>2. ASSUME NEW i \in 1 .. m
        PROVE  /\ l.data[w[i]] = [uid |-> l.data[w[i]].uid, version |-> f[l.data[w[i]].uid]]
               /\ l.data[w[i]].uid \in there
    <3>1. l.data[w[i]] \in Notifs
      BY <1>1, <2>1
    <3>2. /\ l.data[w[i]].uid \in Uids /\ l.data[w[i]].version = f[l.data[w[i]].uid]
          /\ f[l.data[w[i]].uid] # 0
      BY DEF Holds
    <3> QED
      BY <3>1, <3>2 DEF Notifs
  <2>3. ASSUME NEW n \in Linked(l)
        PROVE  l.data[n] \in {[uid |-> u, version |-> f[u]] : u \in there}
    <3>1. PICK i \in 1 .. m : n = w[i]
      BY <1>4
    <3> QED
      BY <2>2, <3>1
  <2>4. ASSUME NEW u \in there
        PROVE  [uid |-> u, version |-> f[u]] \in {l.data[n] : n \in Linked(l)}
    <3>1. PICK i \in 1 .. m : l.data[w[i]].uid = u
      BY DEF Holds
    <3>2. l.data[w[i]] = [uid |-> u, version |-> f[u]] /\ w[i] \in Linked(l)
      BY <1>4, <2>2, <3>1
    <3> QED
      BY <3>2
  <2> QED
    BY <2>3, <2>4
<1>7. l.head_ptr = NULL \/ Terminated(l)
  BY <1>1, ChainIs
<1> QED
  BY <1>3, <1>5, <1>6, <1>7

(***************************************************************************)
(* The notifications.                                                      *)
(***************************************************************************)
Resets == {"ancs_reset", "ll_reset", "ll_clear"}
ListClean == hist \cap {"early", "full", "wild"} = {}

ListHolds ==
    \E m, w : /\ Chain(ble_ancs_ll_inst, m, w) /\ Holds(ble_ancs_ll_inst, m, w, present)
              /\ ble_ancs_handler.total_notif_present = m

\* Nothing is announced before the list is there, or it is recorded; from then
\* on the list follows what is announced.
ListInv ==
    /\ ble_ancs_ll_inst.wild => ~ListClean
    /\ Starting(BeforeAncs \cup Resets) /\ ListClean => present = Absent
    /\ pc \in {"ll_reset", "ll_clear"} /\ ListClean => ble_ancs_handler.total_notif_present = 0
    /\ pc = "ll_clear" /\ ListClean => /\ ble_ancs_ll_inst.head_ptr = NULL
                                       /\ ble_ancs_ll_inst.total_link_nodes = 0
    /\ ble_ancs_handler.conn_handle /\ pc \notin Resets /\ ListClean => ListHolds

\* What is announced in time reaches the list.
LEMMA AnnouncedInTime ==
  ASSUME Types, Session, ListInv, NEW u \in Uids, NEW n, NEW l, NEW last, NEW total,
         Announces(u, n, l, last, total), ListClean',
         Queued(kernel_cmd_q', "connected") => Queued(kernel_cmd_q, "connected")
  PROVE  /\ ListHolds /\ pc' = pc /\ pc \notin Resets
         /\ ble_ancs_ll_inst' = l /\ present' = [present EXCEPT ![u] = n]
         /\ ble_ancs_handler'.total_notif_present = total % 2^16
         /\ "full" \notin hist'
         /\ ~Starting(BeforeAncs \cup Resets)'
<1>1. ListClean /\ ~Early /\ "full" \notin hist'
  BY DEF Announces, ListClean
<1>2. AncsHandles /\ pc \notin Resets
  BY <1>1 DEF Early, Resets
<1>3. /\ ble_ancs_ll_inst' = l
      /\ ble_ancs_handler' = [ble_ancs_handler EXCEPT !.last_nuid = last,
                                                      !.total_notif_present = total % 2^16]
      /\ present' = [present EXCEPT ![u] = n] /\ pc' = pc
  BY <1>2 DEF Announces
<1>4. ListHolds
  BY <1>1, <1>2 DEF ListInv, AncsHandles
<1>5. ~Starting(BeforeAncs)
  BY <1>2 DEF AncsHandles, Session, AncsSession, Starting
<1>6. ble_ancs_handler'.total_notif_present = total % 2^16
  BY <1>3 DEF Types, AncsHandlers
<1> QED
  BY <1>1, <1>2, <1>3, <1>4, <1>5, <1>6 DEF Starting

\* An announcement, whatever it is, leaves the list with the peer's notifications.
LEMMA ListNotifs ==
  ASSUME Types, Session, ListInv, NEW u \in Uids,
         NotifAdded(u) \/ NotifModified(u) \/ NotifRemoved(u)
  PROVE  ListInv'
<1>0. Queued(kernel_cmd_q', "connected") => Queued(kernel_cmd_q, "connected")
  <2>1. kernel_cmd_q' = kernel_cmd_q \/ Sends("notif_recv")
    BY DEF NotifAdded, NotifModified, NotifRemoved, Wakes
  <2>2. "notif_recv" \in KernelCmds /\ "notif_recv" # "connected"
    BY DEF KernelCmds
  <2> QED
    BY <2>1, <2>2, SendsQueued DEF Types
<1>1. ASSUME ListClean', ListHolds', pc' \notin Resets, ~Starting(BeforeAncs \cup Resets)'
      PROVE  ListInv'
  <2>1. ~ble_ancs_ll_inst'.wild
    BY <1>1 DEF ListHolds, Chain
  <2> QED
    BY <1>1, <2>1 DEF ListInv, Resets
<1>2. ASSUME ~ListClean' PROVE ListInv'
  BY <1>2 DEF ListInv
<1>3. ASSUME ListHolds
      PROVE  \E m, w : /\ Chain(ble_ancs_ll_inst, m, w) /\ Holds(ble_ancs_ll_inst, m, w, present)
                       /\ ble_ancs_handler.total_notif_present = m
                       /\ m \in 0 .. total_poss_node
  BY <1>3 DEF ListHolds, Chain
<1>4. total_poss_node \in 1 .. 2^16 - 1
  BY KernelLinkListAssumption
<1>5. CASE NotifAdded(u) /\ ListClean'
  <2> DEFINE l == ble_ancs_ll_inst
             d == [uid |-> u, version |-> 1]
  <2>1. /\ present[u] = 0
        /\ Announces(u, 1, Added(u), u, ble_ancs_handler.total_notif_present + 1)
    BY <1>5 DEF NotifAdded
  <2>2. /\ ListHolds /\ pc' = pc /\ pc \notin Resets
        /\ ble_ancs_ll_inst' = Added(u) /\ present' = [present EXCEPT ![u] = 1]
        /\ ble_ancs_handler'.total_notif_present
           = (ble_ancs_handler.total_notif_present + 1) % 2^16
        /\ "full" \notin hist'
        /\ ~Starting(BeforeAncs \cup Resets)'
    BY <1>0, <1>5, <2>1, AnnouncedInTime
  <2>3. PICK m, w : /\ Chain(l, m, w) /\ Holds(l, m, w, present)
                    /\ ble_ancs_handler.total_notif_present = m
                    /\ m \in 0 .. total_poss_node
    BY <1>3, <2>2
  <2>4. m < total_poss_node
    <3> DEFINE there == {v \in Uids : present[v] # 0}
               there2 == {v \in Uids : present'[v] # 0}
    <3>1. IsFiniteSet(there) /\ Cardinality(there) = m
      BY <2>3, HeldAre
    <3>2. there2 = there \cup {u}
      BY <2>2 DEF Types
    <3>3. u \notin there
      BY <2>1
    <3>4. ~(Cardinality(there2) > total_poss_node)
      BY <2>1, <2>2 DEF Announces
    <3> HIDE DEF there, there2
    <3>5. Cardinality(there2) = m + 1
      BY <3>1, <3>2, <3>3, FS_AddElement
    <3> QED
      BY <1>4, <2>3, <3>4, <3>5
  <2>5. PICK v : /\ Chain(Added(u), m + 1, v)
                 /\ Holds(Added(u), m + 1, v, [present EXCEPT ![u] = 1])
    BY <2>1, <2>3, <2>4, AddIs DEF Added
  <2>6. (m + 1) % 2^16 = m + 1
    BY <1>4, <2>3, <2>4
  <2>7. ListHolds'
    BY <2>2, <2>3, <2>5, <2>6 DEF ListHolds
  <2> QED
    BY <1>1, <1>5, <2>2, <2>7
<1>6. CASE NotifModified(u) /\ ListClean'
  <2> DEFINE l == ble_ancs_ll_inst
             r == kernel_ll_modify_data(l, u, [uid |-> u, version |-> 2])
  <2>1. /\ present[u] # 0
        /\ Announces(u, 2, r, u, ble_ancs_handler.total_notif_present)
    BY <1>6 DEF NotifModified
  <2> HIDE DEF r
  <2>2. /\ ListHolds /\ pc' = pc /\ pc \notin Resets
        /\ ble_ancs_ll_inst' = r /\ present' = [present EXCEPT ![u] = 2]
        /\ ble_ancs_handler'.total_notif_present = ble_ancs_handler.total_notif_present % 2^16
        /\ ~Starting(BeforeAncs \cup Resets)'
    BY <1>0, <1>6, <2>1, AnnouncedInTime
  <2>3. PICK m, w : /\ Chain(l, m, w) /\ Holds(l, m, w, present)
                    /\ ble_ancs_handler.total_notif_present = m
                    /\ m \in 0 .. total_poss_node
    BY <1>3, <2>2
  <2>4. Chain(r, m, w) /\ Holds(r, m, w, [present EXCEPT ![u] = 2])
    BY <2>1, <2>3, ModifyIs DEF r
  <2>5. m % 2^16 = m
    BY <1>4, <2>3
  <2>6. ListHolds'
    BY <2>2, <2>3, <2>4, <2>5 DEF ListHolds
  <2> QED
    BY <1>1, <1>6, <2>2, <2>6
<1>7. CASE NotifRemoved(u) /\ ListClean'
  <2> DEFINE l == ble_ancs_ll_inst
             r == kernel_ll_remove_data(l, u)
  <2>1. /\ present[u] # 0
        /\ Announces(u, 0, r, ble_ancs_handler.last_nuid,
                     ble_ancs_handler.total_notif_present - 1)
    BY <1>7 DEF NotifRemoved
  <2> HIDE DEF r
  <2>2. /\ ListHolds /\ pc' = pc /\ pc \notin Resets
        /\ ble_ancs_ll_inst' = r /\ present' = [present EXCEPT ![u] = 0]
        /\ ble_ancs_handler'.total_notif_present
           = (ble_ancs_handler.total_notif_present - 1) % 2^16
        /\ ~Starting(BeforeAncs \cup Resets)'
    BY <1>0, <1>7, <2>1, AnnouncedInTime
  <2>3. PICK m, w : /\ Chain(l, m, w) /\ Holds(l, m, w, present)
                    /\ ble_ancs_handler.total_notif_present = m
                    /\ m \in 0 .. total_poss_node
    BY <1>3, <2>2
  <2>4. PICK v : Chain(r, m - 1, v) /\ Holds(r, m - 1, v, [present EXCEPT ![u] = 0])
    BY <2>1, <2>3, RemoveIs DEF r
  <2>5. (m - 1) % 2^16 = m - 1
    <3>1. m - 1 \in 0 .. total_poss_node
      BY <2>4 DEF Chain
    <3> QED
      BY <1>4, <3>1
  <2>6. ListHolds'
    BY <2>2, <2>3, <2>4, <2>5 DEF ListHolds
  <2> QED
    BY <1>1, <1>7, <2>2, <2>6
<1> QED
  BY <1>2, <1>5, <1>6, <1>7

\* What neither sets up nor tears down the list, and announces nothing, leaves
\* it as it is.
LEMMA ListKept ==
  ASSUME Types, ListInv, UNCHANGED <<ble_ancs_ll_inst, ble_ancs_handler, present>>,
         ListClean' => ListClean,
         Starting(BeforeAncs \cup Resets)' => Starting(BeforeAncs \cup Resets),
         pc' \in Resets => pc' = pc,
         pc \in Resets => pc' = pc
  PROVE  ListInv'
BY DEF ListInv, ListHolds, Resets

\* A step of the peer's finds no list left by another session, or announces.
LEMMA ListPeer ==
  ASSUME Types, Session, ListInv, Peer
  PROVE  ListInv'
<1> USE DEF KernelCmds
<1>1. CASE Connect
  <2>1. ~ble_ancs_handler.conn_handle
    BY <1>1 DEF Connect, Session, OneSession, Down, Queued
  <2>2. /\ UNCHANGED <<ble_ancs_handler, ble_ancs_ll_inst, pc>> /\ pc = "main"
        /\ present' = Absent
        /\ ble_ancs_ll_inst.wild => "wild" \in hist'
    BY <1>1 DEF Connect, ancs
  <2> QED
    BY <2>1, <2>2 DEF ListInv, ListClean
<1>2. CASE Disconnect \/ Timeout
  <2>1. Sends("disconnected") /\ UNCHANGED <<pc, ble_ancs_ll_inst, ble_ancs_handler, present, hist>>
    BY <1>2 DEF Disconnect, Timeout, ancs, sent
  <2>2. Queued(kernel_cmd_q', "connected") => Queued(kernel_cmd_q, "connected")
    BY <2>1, SendsQueued DEF Types
  <2> QED
    BY <2>1, <2>2, ListKept DEF Starting, ListClean
<1>3. ASSUME NEW S \in SUBSET Commands, CommandsUpdate(S) PROVE ListInv'
  <2>1. UNCHANGED <<kernel_cmd_q, pc, ble_ancs_ll_inst, ble_ancs_handler, present, hist>>
    BY <1>3 DEF CommandsUpdate, ancs
  <2> QED
    BY <2>1, ListKept DEF Starting, ListClean
<1>4. ASSUME NEW a \in Attributes, NEW len \in Lengths \cup {0}, NameUpdate(a, len)
      PROVE  ListInv'
  <2>1. /\ UNCHANGED <<kernel_cmd_q, pc, ble_ancs_ll_inst, ble_ancs_handler, present>>
        /\ hist \subseteq hist'
    BY <1>4 DEF NameUpdate, ancs
  <2>2. ListClean' => ListClean
    BY <2>1 DEF ListClean
  <2> QED
    BY <2>1, <2>2, ListKept DEF Starting
<1> QED
  BY <1>1, <1>2, <1>3, <1>4, ListNotifs DEF Peer

\* The list is emptied in four steps, between which nothing may be announced.
LEMMA ListKernelTask ==
  ASSUME Types, Session, ListInv, KernelTask
  PROVE  ListInv'
<1> USE DEF Goes, ancs, sent
<1>1. CASE KernelCommand
  <2> DEFINE q == kernel_cmd_q
  <2>1. /\ pc = "main" /\ q # <<>> /\ pc' = Label[Head(q)] /\ kernel_cmd_q' = Tail(q)
        /\ UNCHANGED <<ble_ancs_ll_inst, ble_ancs_handler, present, hist>>
    BY <1>1 DEF KernelCommand
  <2>2. Head(q) \in KernelCmds
    BY <2>1 DEF Types
  <2>3. \A c : Queued(q, c) <=> Head(q) = c \/ Queued(Tail(q), c)
    BY <2>1, <2>2, QueuedIs DEF Types
  <2>4. \/ Head(q) = "connected" /\ pc' = "security"
        \/ pc' \in {"ams_cmds", "fetch"}
    BY <2>1, <2>2 DEF KernelCmds, Label
  <2>5. Starting(BeforeAncs \cup Resets)' => Starting(BeforeAncs \cup Resets)
    BY <2>1, <2>3, <2>4 DEF Starting, BeforeAncs, Resets
  <2> QED
    BY <2>1, <2>4, <2>5, ListKept DEF ListClean, Resets
<1>2. CASE ble_gap_security_init \/ AmsReset \/ AmsDiscover \/ AmsChars \/ AmsSubscribe
           \/ AmsRegister \/ AncsDiscover \/ AncsSubscribe \/ AmsClearCmds \/ AmsMemDeinit
           \/ AmsClear \/ ble_ancs_process_notif
  <2>1. /\ UNCHANGED <<kernel_cmd_q, ble_ancs_ll_inst, ble_ancs_handler, present>>
        /\ hist' \in {hist, hist \cup {"failed"}}
        /\ pc \notin Resets /\ pc' \notin Resets
        /\ pc' \in BeforeAncs => pc \in BeforeAncs
    BY <1>2 DEF ble_gap_security_init, AmsReset, AmsDiscover, AmsChars, AmsSubscribe,
       AmsRegister, AncsDiscover, AncsSubscribe, AmsClearCmds, AmsMemDeinit, AmsClear,
       ble_ancs_process_notif, Subscribes, Resets, BeforeAncs
  <2> QED
    BY <2>1, ListKept DEF ListClean, Starting
<1>3. CASE AncsConn \/ AncsReset
  <2>1. /\ UNCHANGED <<kernel_cmd_q, ble_ancs_ll_inst, present, hist>>
        /\ \/ pc = "ancs_conn" /\ pc' = "ancs_reset"
           \/ /\ pc = "ancs_reset" /\ pc' = "ll_reset"
              /\ ble_ancs_handler'.total_notif_present = 0
    BY <1>3 DEF AncsConn, AncsReset, Types, AncsHandlers
  <2> QED
    BY <2>1 DEF ListInv, ListClean, Starting, BeforeAncs, Resets
<1>4. CASE ListHeadReset
  <2>1. /\ ble_ancs_ll_inst'.head_ptr = NULL /\ ble_ancs_ll_inst'.total_link_nodes = 0
        /\ ble_ancs_ll_inst'.wild = ble_ancs_ll_inst.wild
    BY <1>4 DEF ListHeadReset, HeadReset, Types, Lists
  <2>2. /\ UNCHANGED <<kernel_cmd_q, ble_ancs_handler, present, hist>>
        /\ pc = "ll_reset" /\ pc' = "ll_clear"
    BY <1>4 DEF ListHeadReset
  <2> QED
    BY <2>1, <2>2 DEF ListInv, ListClean, Starting, BeforeAncs, Resets
<1>5. CASE ListMemoryReset
  <2> DEFINE l == ble_ancs_ll_inst
  <2>1. /\ UNCHANGED <<kernel_cmd_q, ble_ancs_handler, present, hist>>
        /\ pc = "ll_clear" /\ pc' = "ancs_discover" /\ ble_ancs_ll_inst' = MemoryReset(l)
    BY <1>5 DEF ListMemoryReset
  <2>2. l \in Lists /\ ble_ancs_ll_inst'.wild = l.wild
    BY <2>1 DEF MemoryReset, Cleared, Types, Lists
  <2>3. ASSUME ListClean PROVE ListHolds'
    <3>1. /\ ~l.wild /\ l.head_ptr = NULL /\ l.total_link_nodes = 0
          /\ present = Absent /\ ble_ancs_handler.total_notif_present = 0
      BY <2>1, <2>3 DEF ListInv, Starting, Resets
    <3>2. Chain(MemoryReset(l), 0, <<>>) /\ Holds(MemoryReset(l), 0, <<>>, Absent)
      BY <2>2, <3>1, EmptyIs
    <3> QED
      BY <2>1, <3>1, <3>2 DEF ListHolds
  <2>4. Starting(BeforeAncs \cup Resets)' => Starting(BeforeAncs \cup Resets)
    BY <2>1 DEF Starting, BeforeAncs, Resets
  <2> QED
    BY <2>1, <2>2, <2>3, <2>4 DEF ListInv, ListClean
<1>6. CASE AncsChars
  <2>1. /\ ble_ancs_handler'.conn_handle = ble_ancs_handler.conn_handle
        /\ ble_ancs_handler'.total_notif_present = ble_ancs_handler.total_notif_present
    BY <1>6 DEF AncsChars, Types, AncsHandlers
  <2>2. /\ UNCHANGED <<kernel_cmd_q, ble_ancs_ll_inst, present, hist>>
        /\ pc = "ancs_chars" /\ pc' = "ancs_cccd"
    BY <1>6 DEF AncsChars
  <2> QED
    BY <2>1, <2>2 DEF ListInv, ListHolds, ListClean, Starting, BeforeAncs, Resets
<1>7. CASE AncsClear
  <2>1. ~ble_ancs_handler'.conn_handle
    BY <1>7 DEF AncsClear, Types, AncsHandlers
  <2>2. /\ UNCHANGED <<kernel_cmd_q, ble_ancs_ll_inst, present, hist>>
        /\ pc = "ancs_clear" /\ pc' = "ll_deinit"
    BY <1>7 DEF AncsClear
  <2> QED
    BY <2>1, <2>2 DEF ListInv, ListClean, Starting, BeforeAncs, Resets
<1>8. CASE ListDeinit
  <2>1. ~ble_ancs_handler.conn_handle
    BY <1>8 DEF ListDeinit, Session, AncsSession, Starting
  <2>2. ble_ancs_ll_inst'.wild = ble_ancs_ll_inst.wild
    BY <1>8 DEF ListDeinit, kernel_ll_deinit, Cleared, Types, Lists
  <2>3. /\ UNCHANGED <<kernel_cmd_q, ble_ancs_handler, present, hist>>
        /\ pc = "ll_deinit" /\ pc' = "main"
    BY <1>8 DEF ListDeinit
  <2> QED
    BY <2>1, <2>2, <2>3 DEF ListInv, ListClean, Starting, BeforeAncs, Resets
<1> QED
  BY <1>1, <1>2, <1>3, <1>4, <1>5, <1>6, <1>7, <1>8 DEF KernelTask

\* Every step keeps the list and the announcements together.
LEMMA ListNext == Types /\ Session /\ ListInv /\ [Next]_vars => ListInv'
<1> SUFFICES ASSUME Types, Session, ListInv, [Next]_vars PROVE ListInv'
  OBVIOUS
<1>1. CASE App \/ UNCHANGED vars
  <2>1. /\ UNCHANGED <<kernel_cmd_q, pc, ble_ancs_ll_inst, ble_ancs_handler, present>>
        /\ hist' \in {hist, hist \ {"spans"}}
    BY <1>1 DEF App, CommandWritten, ble_ams_execute_cmd, vars, ancs, sent
  <2>2. ListClean' => ListClean
    BY <2>1 DEF ListClean
  <2> QED
    BY <2>1, <2>2, ListKept DEF Starting
<1> QED
  BY <1>1, ListPeer, ListKernelTask DEF Next

\* While the notification client has its handle and its list, the list is a
\* chain of the peer's notifications, whatever is added, modified and removed
\* in which order, and nothing else of an earlier session remains in it.
THEOREM ListFollowsPeer == Spec => []ListHoldsNotifications
<1>1. Init => ListInv
  BY DEF Init, NoList, ListInv
<1>2. ListInv => ListHoldsNotifications
  <2> SUFFICES ASSUME ListInv, ble_ancs_handler.conn_handle,
                      pc \notin {"ancs_reset", "ll_reset", "ll_clear"},
                      hist \cap {"early", "full", "wild"} = {}
               PROVE  LET l == ble_ancs_ll_inst
                          there == {u \in Uids : present[u] # 0}
                      IN  /\ ~l.wild
                          /\ l.head_ptr = NULL \/ Terminated(l)
                          /\ {l.data[n] : n \in Linked(l)}
                             = {[uid |-> u, version |-> present[u]] : u \in there}
                          /\ Cardinality(Linked(l)) = Cardinality(there)
                          /\ l.total_link_nodes = Cardinality(there)
                          /\ ble_ancs_handler.total_notif_present = Cardinality(there)
    BY DEF ListHoldsNotifications
  <2>1. PICK m, w : /\ Chain(ble_ancs_ll_inst, m, w) /\ Holds(ble_ancs_ll_inst, m, w, present)
                    /\ ble_ancs_handler.total_notif_present = m
    BY DEF ListInv, ListClean, Resets, ListHolds
  <2>2. ~ble_ancs_ll_inst.wild /\ ble_ancs_ll_inst.total_link_nodes = m
    BY <2>1 DEF Chain
  <2> DEFINE l == ble_ancs_ll_inst
             there == {u \in Uids : present[u] # 0}
             f == present
  <2>3. Chain(l, m, w) /\ Holds(l, m, w, f) /\ there = {u \in Uids : f[u] # 0}
    BY <2>1
  <2> HIDE DEF l, there, f
  <2>4. /\ IsFiniteSet(there) /\ Cardinality(there) = m
        /\ {l.data[n] : n \in Linked(l)} = {[uid |-> u, version |-> f[u]] : u \in there}
        /\ Cardinality(Linked(l)) = m
        /\ l.head_ptr = NULL \/ Terminated(l)
    BY <2>3, HeldAre
  <2> USE DEF l, there, f
  <2> QED
    BY <2>1, <2>2, <2>4
<1> QED
  BY <1>1, <1>2, ListNext, SessionAlways, PTL DEF Spec

==============================================================================
