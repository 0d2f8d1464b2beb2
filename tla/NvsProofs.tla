----------------------------- MODULE NvsProofs -----------------------------
(***************************************************************************)
(* Theorems about Nvs, for every number of tasks, every set of requests    *)
(* and every bound on errors, expired waits and power losses.              *)
(***************************************************************************)
EXTENDS Nvs, WellFoundedInduction, TLAPS

(***************************************************************************)
(* The inductive invariant: what the locking of nvs.c relies on.  The      *)
(* mutex's owner is the one task past xSemaphoreTake, and the handle is    *)
(* only set while its task is between SetHandle and return_mech; without   *)
(* the second fact a task that leaves through nvs_read_raw_data could give *)
(* the mutex back while the handle still points at another task.           *)
(***************************************************************************)
LockTypes ==
    /\ mutex \in Task \cup {NoTask}
    /\ nvs_task_handle \in Task \cup {NoTask}
    /\ pc \in [Task -> Labels]

LockInv == LockTypes /\ MutualExclusion /\ HandleOwner

\* nvs_flash_init's state, before any call, satisfies the invariant.
LEMMA LockInit == Init => LockInv
  BY NvsAssumption DEF Init, LockInv, LockTypes, MutualExclusion, HandleOwner,
     Holding, Labels, Waiting

\* return_mech gives the mutex back and clears the handle of the task that
\* holds both.
LEMMA LockReturn ==
  ASSUME LockInv, NEW t \in Task, NEW e, pc[t] \in Holding, Return(t, e)
  PROVE  LockInv'
  BY NvsAssumption DEF LockInv, LockTypes, MutualExclusion, HandleOwner,
     Return, Released, Holding, Labels, Waiting

\* Every step of a task inside a call keeps the invariant.
LEMMA LockTaskStep ==
  ASSUME LockInv, NEW t \in Task, TaskStep(t)
  PROVE  LockInv'
<1> USE NvsAssumption DEF LockInv, LockTypes, MutualExclusion, HandleOwner,
        Holding, Labels, Waiting
<1>1. CASE TakeMutex(t)
  BY <1>1 DEF TakeMutex, MutexFree, AfterTake, Rewrites
<1>2. CASE MutexTimeout(t)
  BY <1>2 DEF MutexTimeout
<1>3. CASE BuildArrData(t)
  BY <1>3 DEF BuildArrData
<1>4. CASE SetHandle(t)
  BY <1>4 DEF SetHandle, AfterHandle
<1>5. CASE StartErase(t)
  BY <1>5, LockReturn DEF StartErase
<1>6. CASE EraseAnswer(t)
  BY <1>6, LockReturn DEF EraseAnswer
<1>7. CASE StartWrite(t)
  BY <1>7, LockReturn DEF StartWrite
<1>8. CASE WriteAnswer(t)
  BY <1>8, LockReturn DEF WriteAnswer
<1>9. CASE nvs_read_raw_data(t)
  BY <1>9 DEF nvs_read_raw_data
<1>10. CASE nvs_get_data_pointer(t)
  BY <1>10 DEF nvs_get_data_pointer
<1> QED
  BY <1>1, <1>2, <1>3, <1>4, <1>5, <1>6, <1>7, <1>8, <1>9, <1>10 DEF TaskStep

\* Every step of the system keeps the invariant.
LEMMA LockNext == LockInv /\ [Next]_vars => LockInv'
<1> SUFFICES ASSUME LockInv, [Next]_vars PROVE LockInv'
  OBVIOUS
<1> USE NvsAssumption DEF LockInv, LockTypes, MutualExclusion, HandleOwner,
        Holding, Labels, Waiting
<1>1. CASE nvs_flash_init
  BY <1>1 DEF nvs_flash_init
<1>2. ASSUME NEW t \in Task, Call(t) PROVE LockInv'
  BY <1>2 DEF Call
<1>3. ASSUME NEW t \in Task, TaskStep(t) PROVE LockInv'
  BY <1>3, LockTaskStep
<1>4. ASSUME NEW t \in Task, NotifyTimeout(t) PROVE LockInv'
  BY <1>4, LockReturn DEF NotifyTimeout
<1>5. CASE FlashSuccess \/ FlashError \/ nrf_soc_event_handler
  BY <1>5 DEF FlashSuccess, FlashError, nrf_soc_event_handler
<1>6. CASE PowerLoss
  BY <1>6 DEF PowerLoss
<1>7. CASE UNCHANGED vars
  BY <1>7 DEF vars
<1> QED
  BY <1>1, <1>2, <1>3, <1>4, <1>5, <1>6, <1>7 DEF Next

\* The mutex admits one task at a time to the code between its take and its
\* give, through timeouts, flash errors, late events and power losses.
THEOREM MutexWorks == Spec => []MutualExclusion
<1>1. LockInv => MutualExclusion
  BY DEF LockInv
<1> QED
  BY <1>1, LockInit, LockNext, PTL DEF Spec

\* nrf_soc_event_handler never notifies a task that is not in the middle of
\* one of its own flash operations.
THEOREM HandlerNotifiesOwner == Spec => []HandleOwner
<1>1. LockInv => HandleOwner
  BY DEF LockInv
<1> QED
  BY <1>1, LockInit, LockNext, PTL DEF Spec

(***************************************************************************)
(* As long as no wait for the SoftDevice expires, an operation, its event  *)
(* and its notification follow each other for one task, which waits for    *)
(* all of it.  The inductive invariant says where that chain stands: an    *)
(* operation in progress, or its event not fetched yet, or its             *)
(* notification pending, never two of them, and always for the task the    *)
(* handle names.                                                           *)
(***************************************************************************)
Flashing == {"erase", "write"} \cup Waiting

ChainInv ==
    /\ notify \in [Task -> {"none", "nrf_OK", "nrf_ERR_INTERNAL"}]
    /\ \A t \in Task : pc[t] \in Flashing => nvs_task_handle = t
    /\ flash # NoFlash =>
          /\ flash.owner \in Task
          /\ flash.live
          /\ pc[flash.owner] \in Waiting
          /\ flash.kind = "write" =>
                /\ pc[flash.owner] = "write_wait"
                /\ flash.recs = arr_data[flash.owner].recs
          /\ soc = <<>>
    /\ soc # <<>> =>
          /\ Len(soc) = 1
          /\ Head(soc) \in {"success", "error"}
          /\ Tail(soc) = <<>>
          /\ nvs_task_handle # NoTask
          /\ pc[nvs_task_handle] \in Waiting
          /\ notify[nvs_task_handle] = "none"
    /\ \A t \in Task : notify[t] # "none" =>
          pc[t] \in Waiting /\ flash = NoFlash /\ soc = <<>>

AnswerInv ==
    /\ LockInv
    /\ arr_data = [t \in Task |-> arr_data[t]]
    /\ ChainInv

BudgetInv ==
    /\ budget \in [error : Nat, timeout : Nat, power : Nat]
    /\ budget.timeout <= MaxTimeout

\* Expired waits are counted and never forgotten, power losses included.
LEMMA BudgetNext ==
  BudgetInv /\ [Next]_vars => BudgetInv' /\ (NoneExpired' => NoneExpired)
<1> SUFFICES ASSUME BudgetInv, [Next]_vars
             PROVE  BudgetInv' /\ (NoneExpired' => NoneExpired)
  OBVIOUS
<1> USE NvsAssumption DEF BudgetInv, NoneExpired
<1>1. ASSUME UNCHANGED budget PROVE BudgetInv' /\ (NoneExpired' => NoneExpired)
  BY <1>1
<1>2. ASSUME NEW t \in Task, Call(t) \/ TaskStep(t) PROVE UNCHANGED budget
  BY <1>2 DEF Call, TaskStep, TakeMutex, MutexTimeout, BuildArrData, SetHandle, StartErase,
     EraseAnswer, StartWrite, WriteAnswer, nvs_read_raw_data, nvs_get_data_pointer
<1>3. ASSUME NEW t \in Task, NotifyTimeout(t)
      PROVE  BudgetInv' /\ (NoneExpired' => NoneExpired)
  BY <1>3 DEF NotifyTimeout
<1>4. CASE nvs_flash_init \/ FlashSuccess \/ nrf_soc_event_handler \/ UNCHANGED vars
  BY <1>1, <1>4 DEF nvs_flash_init, FlashSuccess, nrf_soc_event_handler, vars
<1>5. CASE FlashError \/ PowerLoss
  <2>1. \/ budget' = [budget EXCEPT !.error = @ - 1] /\ budget.error > 0
        \/ budget' = [budget EXCEPT !.power = @ - 1] /\ budget.power > 0
    BY <1>5 DEF FlashError, PowerLoss
  <2> QED
    BY <2>1
<1> QED
  BY <1>1, <1>2, <1>3, <1>4, <1>5 DEF Next

\* Nothing is in progress before the first call.
LEMMA AnswerInit == Init => AnswerInv /\ BudgetInv
<1> SUFFICES ASSUME Init PROVE AnswerInv /\ BudgetInv
  OBVIOUS
<1>1. LockInv
  BY LockInit
<1> QED
  BY <1>1, NvsAssumption DEF Init, AnswerInv, ChainInv, Flashing, Waiting, Labels, BudgetInv

\* A task that has its answer, or was refused, leaves nothing behind it.
LEMMA AnswerReturn ==
  ASSUME AnswerInv, NEW t \in Task, NEW e, Return(t, e),
         pc[t] \in Flashing, flash = NoFlash, soc = <<>>,
         UNCHANGED soc,
         notify' = notify \/ notify' = [notify EXCEPT ![t] = "none"],
         notify'[t] = "none"
  PROVE  AnswerInv'
<1>1. LockInv'
  BY LockReturn DEF AnswerInv, Flashing, Holding, Waiting, Labels
<1>2. /\ pc' = [pc EXCEPT ![t] = "idle"]
      /\ nvs_task_handle' = NoTask
      /\ flash' = NoFlash
      /\ arr_data' = [u \in Task |-> arr_data'[u]]
  BY DEF Return, Released, AnswerInv
<1>3. \A u \in Task \ {t} : pc[u] \notin Flashing
  BY DEF AnswerInv, ChainInv
<1>4. \A u \in Task : pc'[u] \notin Flashing
  BY <1>2, <1>3 DEF AnswerInv, LockInv, LockTypes, Flashing, Waiting
<1>5. \A u \in Task : notify'[u] = "none"
  BY <1>3 DEF AnswerInv, ChainInv, Flashing
<1>6. notify' \in [Task -> {"none", "nrf_OK", "nrf_ERR_INTERNAL"}]
  BY DEF AnswerInv, ChainInv
<1> QED
  BY <1>1, <1>2, <1>4, <1>5, <1>6 DEF AnswerInv, ChainInv

\* The steps of a task inside a call keep the chain.
LEMMA AnswerTaskStep ==
  ASSUME AnswerInv, NEW t \in Task, TaskStep(t)
  PROVE  AnswerInv'
<1>0. LockInv'
  BY LockTaskStep DEF AnswerInv
<1> USE <1>0, NvsAssumption DEF AnswerInv, ChainInv, LockInv, LockTypes, Flashing, Waiting
<1>1. CASE TakeMutex(t)
  BY <1>1 DEF TakeMutex, AfterTake
<1>2. CASE MutexTimeout(t)
  BY <1>2 DEF MutexTimeout
<1>3. CASE BuildArrData(t)
  BY <1>3 DEF BuildArrData
<1>4. CASE SetHandle(t)
  BY <1>4 DEF SetHandle, AfterHandle, MutualExclusion, HandleOwner, Holding, Labels
<1>a. ASSUME pc[t] \in Flashing \ Waiting
      PROVE  flash = NoFlash /\ soc = <<>> /\ \A u \in Task : notify[u] = "none"
  BY <1>a
<1>5. CASE StartErase(t)
  <2>1. flash = NoFlash /\ soc = <<>> /\ \A u \in Task : notify[u] = "none"
    BY <1>5, <1>a DEF StartErase
  <2> QED
    BY <1>5, <2>1 DEF StartErase
<1>6. CASE EraseAnswer(t)
  <2>1. flash = NoFlash /\ soc = <<>> /\ pc[t] = "erase_wait"
    BY <1>6 DEF EraseAnswer, Answered
  <2>2. notify' = [notify EXCEPT ![t] = "none"]
    BY <1>6 DEF EraseAnswer
  <2>3. CASE Return(t, notify[t])
    <3>1. UNCHANGED soc /\ notify'[t] = "none"
      BY <1>6, <2>2 DEF EraseAnswer
    <3> QED
      BY <2>1, <2>2, <2>3, <3>1, AnswerReturn
  <2>4. CASE ~Return(t, notify[t])
    <3>1. \A u \in Task : notify'[u] = "none"
      BY <2>1, <2>2
    <3>2. notify' \in [Task -> {"none", "nrf_OK", "nrf_ERR_INTERNAL"}]
      BY <2>2
    <3>3. /\ pc' = [pc EXCEPT ![t] = "write"]
          /\ UNCHANGED <<nvs_task_handle, flash, arr_data, soc>>
      BY <1>6, <2>4 DEF EraseAnswer
    <3>4. \A u \in Task : pc'[u] \in Flashing => nvs_task_handle' = u
      BY <2>1, <3>3
    <3> QED
      BY <2>1, <3>1, <3>2, <3>3, <3>4
  <2> QED
    BY <2>3, <2>4
<1>7. CASE StartWrite(t)
  <2>1. flash = NoFlash /\ soc = <<>> /\ \A u \in Task : notify[u] = "none"
    BY <1>7, <1>a DEF StartWrite
  <2>2. CASE WriteRefused(t)
    BY <1>7, <2>1, <2>2, AnswerReturn DEF StartWrite
  <2>3. CASE ~WriteRefused(t)
    BY <1>7, <2>1, <2>3 DEF StartWrite
  <2> QED
    BY <2>2, <2>3
<1>8. CASE WriteAnswer(t)
  BY <1>8, AnswerReturn DEF WriteAnswer, Answered
<1>9. CASE nvs_read_raw_data(t)
  BY <1>9 DEF nvs_read_raw_data
<1>10. CASE nvs_get_data_pointer(t)
  BY <1>10 DEF nvs_get_data_pointer
<1> QED
  BY <1>1, <1>2, <1>3, <1>4, <1>5, <1>6, <1>7, <1>8, <1>9, <1>10 DEF TaskStep

\* A step that is not an expired wait keeps the chain.
LEMMA AnswerNext == AnswerInv /\ BudgetInv /\ [Next]_vars /\ NoneExpired' => AnswerInv'
<1> SUFFICES ASSUME AnswerInv, BudgetInv, [Next]_vars, NoneExpired' PROVE AnswerInv'
  OBVIOUS
<1>0. LockInv'
  BY LockNext DEF AnswerInv
<1> USE <1>0, NvsAssumption DEF AnswerInv, ChainInv, LockInv, LockTypes, Flashing, Waiting
<1>1. CASE nvs_flash_init
  BY <1>1 DEF nvs_flash_init
<1>2. ASSUME NEW t \in Task, Call(t) PROVE AnswerInv'
  BY <1>2 DEF Call
<1>3. ASSUME NEW t \in Task, TaskStep(t) PROVE AnswerInv'
  BY <1>3, AnswerTaskStep
<1>4. ASSUME NEW t \in Task, NotifyTimeout(t) PROVE FALSE
  BY <1>4 DEF NotifyTimeout, BudgetInv, NoneExpired
\* FlashSuccess and FlashError put the event of the operation that ends into an
\* empty queue; its owner waits, so the handle names it.
<1>5. ASSUME NEW e \in {"success", "error"}, soc' = Append(soc, e), flash # NoFlash,
             flash' = NoFlash,
             UNCHANGED <<pc, nvs_task_handle, notify, arr_data>>
      PROVE  AnswerInv'
  <2>1. soc = <<>> /\ nvs_task_handle = flash.owner /\ flash.owner \in Task
    BY <1>5
  <2>2. soc' = <<e>>
    BY <1>5, <2>1
  <2>3. Len(soc') = 1 /\ Head(soc') = e /\ Tail(soc') = <<>>
    BY <2>2
  <2>4. \A t \in Task : notify[t] = "none"
    BY <1>5
  <2> QED
    BY <1>5, <2>1, <2>3, <2>4
<1>6. CASE FlashSuccess
  BY <1>5, <1>6 DEF FlashSuccess
<1>7. CASE FlashError
  BY <1>5, <1>7 DEF FlashError
<1>8. CASE nrf_soc_event_handler
  <2>1. /\ Head(soc) \in {"success", "error"}
        /\ nvs_task_handle \in Task
        /\ soc' = <<>>
        /\ flash = NoFlash
    BY <1>8 DEF nrf_soc_event_handler
  <2>2. notify' = [notify EXCEPT ![nvs_task_handle] = NotifyValue(Head(soc))]
    BY <1>8, <2>1 DEF nrf_soc_event_handler, Notified
  <2>3. NotifyValue(Head(soc)) \in {"nrf_OK", "nrf_ERR_INTERNAL"}
    BY DEF NotifyValue
  <2> QED
    BY <1>8, <2>1, <2>2, <2>3 DEF nrf_soc_event_handler
<1>9. CASE PowerLoss
  BY <1>9 DEF PowerLoss
<1>10. CASE UNCHANGED vars
  BY <1>10 DEF vars
<1> QED
  BY <1>1, <1>2, <1>3, <1>4, <1>6, <1>7, <1>8, <1>9, <1>10 DEF Next

\* What holds of every reachable state: the chain, until a wait expires.
AnswerInd == BudgetInv /\ (NoneExpired => AnswerInv)

\* Init and every step establish it.
LEMMA AnswerAlways == Spec => []AnswerInd
<1>1. Init => AnswerInd
  BY AnswerInit DEF AnswerInd
<1>2. AnswerInd /\ [Next]_vars => AnswerInd'
  BY AnswerNext, BudgetNext DEF AnswerInd
<1> QED
  BY <1>1, <1>2, PTL DEF Spec

\* Until a wait expires, the SoftDevice never reads a source buffer its task
\* has left or changed.
THEOREM SourceStaysAlive == Spec => []SourceAlive
<1>1. AnswerInd => SourceAlive
  BY DEF AnswerInd, AnswerInv, ChainInv, SourceAlive, NoFlash
<1> QED
  BY <1>1, AnswerAlways, PTL

\* Until a wait expires, every notification answers the operation its task
\* waits for.
THEOREM AnswersMatch == Spec => []NoStaleAnswer
<1>1. AnswerInd => NoStaleAnswer
  BY DEF AnswerInd, AnswerInv, ChainInv, NoStaleAnswer
<1> QED
  BY <1>1, AnswerAlways, PTL

(***************************************************************************)
(* Recursion and search over sequences.  The recursive functions of        *)
(* NvsPage (the words of a page, the copy without a uid) and the search    *)
(* for the first record of a uid are what their definitions say for every  *)
(* sequence of records: by the least element of a set of indices.          *)
(***************************************************************************)
\* Every nonempty set of naturals has a least element.
LEMMA LeastElement ==
  ASSUME NEW T, T \subseteq Nat, T # {}
  PROVE  \E x \in T : \A y \in T : x <= y
<1> DEFINE R == OpToRel(<, Nat)
<1>1. IsWellFoundedOn(R, Nat)
  BY NatLessThanWellFounded, Zenon
<1>2. \A x, y \in Nat : x < y => <<x, y>> \in R
  BY Zenon DEF OpToRel
<1> HIDE DEF R
<1>3. PICK x \in T : \A y \in T : ~ (<<y, x>> \in R)
  BY <1>1, WFMin
<1>4. \A y \in T : ~(y < x)
  BY <1>2, <1>3
<1> QED
  BY <1>3, <1>4

\* What holds at 0 and from each k to k + 1 holds up to n.
LEMMA Upwards ==
  ASSUME NEW n \in Nat, NEW T, 0 \in T,
         \A m \in 0 .. n : m \in T /\ m < n => m + 1 \in T
  PROVE  0 .. n \subseteq T
<1> DEFINE Missing == {m \in 0 .. n : m \notin T}
<1> SUFFICES ASSUME Missing # {} PROVE FALSE
  OBVIOUS
<1>1. PICK m \in Missing : \A k \in Missing : m <= k
  <2> HIDE DEF Missing
  <2>1. Missing \subseteq Nat
    BY DEF Missing
  <2> QED
    BY <2>1, LeastElement
<1>2. m - 1 \in 0 .. n /\ m - 1 \notin Missing
  BY <1>1
<1> QED
  BY <1>1, <1>2

\* f[k] is what the first k of the steps F make of a.
Iterates(f, n, a, F) == f[0] = a /\ \A k \in 1 .. n : f[k] = F[k][f[k - 1]]

\* A recursive function over 0 .. n exists, is unique and stays in its range.
LEMMA Recursion ==
  ASSUME NEW S, NEW n \in Nat, NEW a \in S, NEW F \in [1 .. n -> [S -> S]]
  PROVE  \E f \in [0 .. n -> S] : Iterates(f, n, a, F)
<1> DEFINE Defines(f, m) == f[0] = a /\ \A k \in 1 .. m : f[k] = F[k][f[k - 1]]
           T == {m \in 0 .. n : \E f \in [0 .. m -> S] : Defines(f, m)}
<1>1. 0 \in T
  <2>1. [k \in 0 .. 0 |-> a] \in [0 .. 0 -> S]
    OBVIOUS
  <2>2. Defines([k \in 0 .. 0 |-> a], 0)
    OBVIOUS
  <2>3. \E f \in [0 .. 0 -> S] : Defines(f, 0)
    BY Zenon, <2>1, <2>2
  <2> QED
    BY <2>3
<1>2. ASSUME NEW m \in 0 .. n, m \in T, m < n PROVE m + 1 \in T
  <2>1. PICK f \in [0 .. m -> S] : Defines(f, m)
    BY <1>2
  <2> DEFINE g == [k \in 0 .. m + 1 |-> IF k = m + 1 THEN F[m + 1][f[m]] ELSE f[k]]
  <2>2. F[m + 1][f[m]] \in S
    BY <1>2
  <2>3. g \in [0 .. m + 1 -> S]
    BY <2>2
  <2>4. g[0] = a
    BY <2>1
  <2>5. ASSUME NEW k \in 1 .. m + 1 PROVE g[k] = F[k][g[k - 1]]
    BY <2>1
  <2>6. \E h \in [0 .. m + 1 -> S] : Defines(h, m + 1)
    <3>1. Defines(g, m + 1)
      BY <2>4, <2>5
    <3> HIDE DEF g, Defines
    <3> QED
      BY <2>3, <3>1
  <2>7. m + 1 \in 0 .. n
    BY <1>2
  <2> HIDE DEF Defines
  <2> QED
    BY <2>6, <2>7
<1>3. n \in T
  <2> HIDE DEF T
  <2>1. 0 .. n \subseteq T
    BY <1>1, <1>2, Upwards
  <2> QED
    BY <2>1
<1> QED
  BY <1>3 DEF Iterates

\* The words and the copy of a page, counted record by record.
WordsUpTo(recs) ==
    CHOOSE g : g = [k \in 0 .. Len(recs) |-> IF k = 0 THEN 0 ELSE g[k - 1] + Words(recs[k])]

\* RecordWords is the last of the sums over the records before.
LEMMA WordsUpToIs ==
  ASSUME NEW recs \in Seq(Record)
  PROVE  /\ RecordWords(recs) = WordsUpTo(recs)[Len(recs)]
         /\ WordsUpTo(recs) \in [0 .. Len(recs) -> Nat]
         /\ WordsUpTo(recs)[0] = 0
         /\ \A k \in 1 .. Len(recs) :
               WordsUpTo(recs)[k] = WordsUpTo(recs)[k - 1] + Words(recs[k])
<1> DEFINE n == Len(recs)
           F == [k \in 1 .. n |-> [v \in Nat |-> v + Words(recs[k])]]
<1>1. n \in Nat /\ \A k \in 1 .. n : recs[k] \in Record
  OBVIOUS
<1>2. \A k \in 1 .. n : Words(recs[k]) \in Nat
  BY <1>1, PageAssumption DEF Words, Record
<1>3. F \in [1 .. n -> [Nat -> Nat]]
  BY <1>2
<1>4. PICK f \in [0 .. n -> Nat] : Iterates(f, n, 0, F)
  <2> HIDE DEF F, n
  <2>1. 0 \in Nat /\ n \in Nat
    BY <1>1
  <2> QED
    BY <1>3, <2>1, Recursion, Zenon
<1>a. f[0] = 0
  BY <1>4 DEF Iterates
<1>5. \A k \in 1 .. n : f[k] = f[k - 1] + Words(recs[k])
  <2> SUFFICES ASSUME NEW k \in 1 .. n PROVE f[k] = f[k - 1] + Words(recs[k])
    OBVIOUS
  <2>1. f[k - 1] \in Nat
    BY <1>1
  <2>2. f[k] = F[k][f[k - 1]]
    BY <1>4 DEF Iterates
  <2> QED
    BY <2>1, <2>2
<1>6. f = [k \in 0 .. n |-> IF k = 0 THEN 0 ELSE f[k - 1] + Words(recs[k])]
  <2>1. ASSUME NEW k \in 0 .. n
        PROVE  f[k] = IF k = 0 THEN 0 ELSE f[k - 1] + Words(recs[k])
    BY <1>4, <1>a, <1>5, <1>1
  <2> QED
    BY <2>1, <1>4
<1>7. WordsUpTo(recs) =
        [k \in 0 .. n |-> IF k = 0 THEN 0 ELSE WordsUpTo(recs)[k - 1] + Words(recs[k])]
  BY <1>6 DEF WordsUpTo
<1>8. ASSUME NEW k \in 0 .. n PROVE WordsUpTo(recs)[k] = f[k]
  <2> DEFINE w == WordsUpTo(recs)
             T == {m \in 0 .. n : w[m] = f[m]}
  <2>1. 0 \in T
    BY <1>a, <1>7, <1>1
  <2>2. \A m \in 0 .. n : m \in T /\ m < n => m + 1 \in T
    <3> SUFFICES ASSUME NEW m \in T, m < n PROVE w[m + 1] = f[m + 1]
      OBVIOUS
    <3>1. m + 1 \in 1 .. n /\ (m + 1) - 1 = m
      BY <1>1
    <3>2. f[m + 1] = f[m] + Words(recs[m + 1])
      BY <1>5, <3>1
    <3>3. w[m + 1] = w[m] + Words(recs[m + 1])
      BY <1>7, <3>1
    <3> QED
      BY <3>2, <3>3
  <2>3. 0 .. n \subseteq T
    <3> HIDE DEF T, n
    <3> QED
      BY <1>1, <2>1, <2>2, Upwards
  <2> QED
    BY <2>3
<1>9. WordsUpTo(recs) \in [0 .. n -> Nat]
  BY <1>7, <1>8, <1>4
<1>10. RecordWords(recs) = WordsUpTo(recs)[n]
  BY DEF RecordWords, WordsUpTo
<1>11. WordsUpTo(recs)[0] = 0
  BY <1>8, <1>a, <1>1
<1>12. \A k \in 1 .. n : WordsUpTo(recs)[k] = WordsUpTo(recs)[k - 1] + Words(recs[k])
  BY <1>8, <1>5, <1>1
<1> QED
  BY <1>9, <1>10, <1>11, <1>12

\* What delete and modify have copied of the page after each of its records.
CopiedUpTo(recs, u) ==
    CHOOSE g : g = [k \in 0 .. Len(recs) |->
                       IF k = 0 THEN <<>>
                       ELSE IF recs[k].uid = u THEN g[k - 1]
                       ELSE Append(g[k - 1], recs[k])]

\* Without is the last of those copies.
LEMMA CopiedUpToIs ==
  ASSUME NEW recs \in Seq(Record), NEW u
  PROVE  /\ Without(recs, u) = CopiedUpTo(recs, u)[Len(recs)]
         /\ CopiedUpTo(recs, u) \in [0 .. Len(recs) -> Seq(Record)]
         /\ CopiedUpTo(recs, u)[0] = <<>>
         /\ \A k \in 1 .. Len(recs) :
               CopiedUpTo(recs, u)[k] =
                  IF recs[k].uid = u THEN CopiedUpTo(recs, u)[k - 1]
                  ELSE Append(CopiedUpTo(recs, u)[k - 1], recs[k])
<1> DEFINE n == Len(recs)
           c == CopiedUpTo(recs, u)
           Step(k, v) == IF recs[k].uid = u THEN v ELSE Append(v, recs[k])
           F == [k \in 1 .. n |-> [v \in Seq(Record) |-> Step(k, v)]]
<1>1. n \in Nat /\ \A k \in 1 .. n : recs[k] \in Record
  OBVIOUS
<1>2. \A k \in 1 .. n : \A v \in Seq(Record) : Step(k, v) \in Seq(Record)
  BY <1>1
<1> HIDE DEF Step
<1>3. F \in [1 .. n -> [Seq(Record) -> Seq(Record)]]
  BY <1>2
<1>4. PICK f \in [0 .. n -> Seq(Record)] : Iterates(f, n, <<>>, F)
  <2> HIDE DEF F, n
  <2>1. <<>> \in Seq(Record)
    OBVIOUS
  <2> QED
    BY <1>1, <1>3, <2>1, Recursion
<1>5. f[0] = <<>>
  BY <1>4 DEF Iterates
<1>6. \A k \in 1 .. n : f[k] = Step(k, f[k - 1])
  <2> SUFFICES ASSUME NEW k \in 1 .. n PROVE f[k] = Step(k, f[k - 1])
    OBVIOUS
  <2>1. f[k - 1] \in Seq(Record)
    BY <1>1
  <2>2. f[k] = F[k][f[k - 1]]
    BY <1>4 DEF Iterates
  <2> QED
    BY <2>1, <2>2
<1>7. f = [k \in 0 .. n |-> IF k = 0 THEN <<>> ELSE Step(k, f[k - 1])]
  <2>1. ASSUME NEW k \in 0 .. n
        PROVE  f[k] = IF k = 0 THEN <<>> ELSE Step(k, f[k - 1])
    BY <1>5, <1>6, <1>1
  <2> QED
    BY <2>1, <1>4
<1>8. c = [k \in 0 .. n |-> IF k = 0 THEN <<>> ELSE Step(k, c[k - 1])]
  BY <1>7 DEF CopiedUpTo, Step
<1>9. ASSUME NEW k \in 0 .. n PROVE c[k] = f[k]
  <2> DEFINE T == {m \in 0 .. n : c[m] = f[m]}
  <2> HIDE DEF c
  <2>1. 0 \in T
    BY <1>5, <1>8, <1>1
  <2>2. \A m \in 0 .. n : m \in T /\ m < n => m + 1 \in T
    <3> SUFFICES ASSUME NEW m \in T, m < n PROVE c[m + 1] = f[m + 1]
      OBVIOUS
    <3>1. m + 1 \in 1 .. n /\ (m + 1) - 1 = m
      BY <1>1
    <3>2. f[m + 1] = Step(m + 1, f[m])
      BY <1>6, <3>1
    <3>3. c[m + 1] = Step(m + 1, c[m])
      BY <1>8, <3>1
    <3> QED
      BY <3>2, <3>3
  <2>3. 0 .. n \subseteq T
    <3> HIDE DEF T, n
    <3> QED
      BY <1>1, <2>1, <2>2, Upwards
  <2> QED
    BY <2>3
<1>10. c \in [0 .. n -> Seq(Record)]
  BY <1>8, <1>9, <1>4
<1>11. c[0] = <<>>
  BY <1>9, <1>5, <1>1
<1>12. \A k \in 1 .. n : c[k] = Step(k, c[k - 1])
  BY <1>9, <1>6, <1>1
<1>13. Without(recs, u) = c[n]
  BY DEF Without, CopiedUpTo
<1> QED
  BY <1>10, <1>11, <1>12, <1>13 DEF Step

\* No page has room for less than nothing, and only an empty one needs none.
LEMMA WordsCounted ==
  ASSUME NEW recs \in Seq(Record)
  PROVE  /\ RecordWords(recs) \in Nat
         /\ RecordWords(recs) = 0 <=> recs = <<>>
<1>1. RecordWords(recs) = WordsUpTo(recs)[Len(recs)] /\ Len(recs) \in 0 .. Len(recs)
  BY WordsUpToIs
<1>2. RecordWords(recs) \in Nat
  BY <1>1, WordsUpToIs
<1>3. CASE recs = <<>>
  BY <1>1, <1>2, <1>3, WordsUpToIs
<1>4. CASE recs # <<>>
  <2> DEFINE n == Len(recs)
  <2>1. n \in 1 .. n /\ n - 1 \in 0 .. n /\ recs[n] \in Record
    BY <1>4
  <2>2. Words(recs[n]) \in Nat \ {0}
    BY <2>1, PageAssumption DEF Words, Record
  <2>3. RecordWords(recs) = WordsUpTo(recs)[n - 1] + Words(recs[n])
    BY <1>1, <2>1, WordsUpToIs
  <2>4. WordsUpTo(recs)[n - 1] \in Nat
    BY <2>1, WordsUpToIs
  <2> QED
    BY <1>2, <1>4, <2>2, <2>3, <2>4
<1> QED
  BY <1>2, <1>3, <1>4

\* A record behind the others adds its own words.
LEMMA WordsAppended ==
  ASSUME NEW recs \in Seq(Record), NEW r \in Record
  PROVE  RecordWords(Append(recs, r)) = RecordWords(recs) + Words(r)
<1> DEFINE n == Len(recs)
           w == WordsUpTo(recs)
           x == WordsUpTo(Append(recs, r))
           T == {m \in 0 .. n : x[m] = w[m]}
<1>1. /\ Append(recs, r) \in Seq(Record)
      /\ Len(Append(recs, r)) = n + 1
      /\ Append(recs, r)[n + 1] = r
      /\ n \in Nat
      /\ \A k \in 1 .. n : Append(recs, r)[k] = recs[k]
  OBVIOUS
<1>2. 0 \in T
  BY <1>1, WordsUpToIs
<1>3. ASSUME NEW m \in 0 .. n, m \in T, m < n PROVE m + 1 \in T
  <2>1. m + 1 \in 1 .. n /\ m + 1 \in 1 .. n + 1 /\ (m + 1) - 1 = m
    BY <1>1, <1>3
  <2>2. x[m + 1] = x[m] + Words(recs[m + 1])
    BY <2>1, <1>1, WordsUpToIs
  <2>3. w[m + 1] = w[m] + Words(recs[m + 1])
    BY <2>1, WordsUpToIs
  <2> QED
    BY <2>1, <2>2, <2>3, <1>3
<1>4. 0 .. n \subseteq T
  <2> HIDE DEF T, n
  <2> QED
    BY <1>1, <1>2, <1>3, Upwards
<1>5. x[n] = w[n]
  BY <1>1, <1>4
<1>6. x[n + 1] = x[n] + Words(r)
  <2>1. n + 1 \in 1 .. n + 1 /\ (n + 1) - 1 = n
    BY <1>1
  <2> QED
    BY <1>1, <2>1, WordsUpToIs
<1> QED
  BY <1>1, <1>5, <1>6, WordsUpToIs

\* No two of the records have the same uid.
Unique(recs) == \A i, j \in DOMAIN recs : recs[i].uid = recs[j].uid => i = j

\* The copy has the records of the other uids and no others, each once.
LEMMA CopyIs ==
  ASSUME NEW recs \in Seq(Record), NEW u
  PROVE  LET copy == Without(recs, u) IN
         /\ copy \in Seq(Record)
         /\ \A x \in DOMAIN copy : \E j \in DOMAIN recs : copy[x] = recs[j] /\ recs[j].uid # u
         /\ \A j \in DOMAIN recs : recs[j].uid # u => \E x \in DOMAIN copy : copy[x] = recs[j]
         /\ Unique(recs) => Unique(copy)
<1> DEFINE n == Len(recs)
           c == CopiedUpTo(recs, u)
           From(m) == \A x \in DOMAIN c[m] : \E j \in 1 .. m : c[m][x] = recs[j] /\ recs[j].uid # u
           All(m) == \A j \in 1 .. m : recs[j].uid # u => \E x \in DOMAIN c[m] : c[m][x] = recs[j]
           Once(m) == Unique(recs) => Unique(c[m])
           T == {m \in 0 .. n : From(m) /\ All(m) /\ Once(m)}
<1>1. /\ n \in Nat
      /\ c \in [0 .. n -> Seq(Record)]
      /\ c[0] = <<>>
      /\ \A k \in 1 .. n :
            c[k] = IF recs[k].uid = u THEN c[k - 1] ELSE Append(c[k - 1], recs[k])
      /\ \A k \in 1 .. n : recs[k] \in Record
      /\ DOMAIN recs = 1 .. n
  BY CopiedUpToIs
<1> HIDE DEF c
<1>2. 0 \in T
  BY <1>1 DEF Unique
<1>3. ASSUME NEW m \in 0 .. n, m \in T, m < n PROVE m + 1 \in T
  <2>0. m + 1 \in 1 .. n /\ (m + 1) - 1 = m /\ 1 .. m + 1 = (1 .. m) \cup {m + 1}
    BY <1>1, <1>3
  <2>1. From(m) /\ All(m) /\ Once(m)
    BY <1>3
  <2>2. CASE recs[m + 1].uid = u
    <3>1. c[m + 1] = c[m]
      BY <1>1, <2>0, <2>2
    <3>2. From(m + 1)
      BY <2>0, <2>1, <3>1
    <3>3. All(m + 1)
      BY <2>0, <2>1, <2>2, <3>1
    <3>4. Once(m + 1)
      BY <2>1, <3>1
    <3> QED
      BY <2>0, <3>2, <3>3, <3>4
  <2>3. CASE recs[m + 1].uid # u
    <3> DEFINE s == c[m]
               l == Len(s)
    <3>1. c[m + 1] = Append(s, recs[m + 1])
      BY <1>1, <2>0, <2>3
    <3>2. s \in Seq(Record) /\ recs[m + 1] \in Record /\ DOMAIN s = 1 .. l /\ l \in Nat
      BY <1>1, <2>0
    <3>3. /\ DOMAIN c[m + 1] = 1 .. l + 1
          /\ c[m + 1][l + 1] = recs[m + 1]
          /\ \A x \in 1 .. l : c[m + 1][x] = s[x]
      BY <3>1, <3>2
    <3>4. 1 .. l + 1 = (1 .. l) \cup {l + 1}
      BY <3>2
    <3>5. From(m + 1)
      <4> SUFFICES ASSUME NEW x \in 1 .. l + 1
                   PROVE  \E j \in 1 .. m + 1 : c[m + 1][x] = recs[j] /\ recs[j].uid # u
        BY <3>3
      <4>1. CASE x = l + 1
        BY <4>1, <2>0, <2>3, <3>3
      <4>2. CASE x \in 1 .. l
        <5>1. \E j \in 1 .. m : s[x] = recs[j] /\ recs[j].uid # u
          BY <4>2, <2>1, <3>2
        <5> QED
          BY <5>1, <4>2, <2>0, <3>3
      <4> QED
        BY <4>1, <4>2, <3>4
    <3>6. All(m + 1)
      <4> SUFFICES ASSUME NEW j \in 1 .. m + 1, recs[j].uid # u
                   PROVE  \E x \in 1 .. l + 1 : c[m + 1][x] = recs[j]
        BY <3>3
      <4>1. CASE j = m + 1
        BY <4>1, <3>3, <3>4
      <4>2. CASE j \in 1 .. m
        <5>1. PICK x \in 1 .. l : s[x] = recs[j]
          BY <4>2, <2>1, <3>2
        <5>2. c[m + 1][x] = recs[j] /\ x \in 1 .. l + 1
          BY <5>1, <3>3, <3>4
        <5> QED
          BY <5>2
      <4> QED
        BY <4>1, <4>2, <2>0
    <3>7. Once(m + 1)
      <4> SUFFICES ASSUME Unique(recs), NEW x \in 1 .. l + 1, NEW y \in 1 .. l + 1,
                          c[m + 1][x].uid = c[m + 1][y].uid
                   PROVE  x = y
        BY <3>3 DEF Unique
      <4>1. \A z \in 1 .. l : s[z].uid # recs[m + 1].uid
        <5> SUFFICES ASSUME NEW z \in 1 .. l, s[z].uid = recs[m + 1].uid PROVE FALSE
          OBVIOUS
        <5>1. PICK j \in 1 .. m : s[z] = recs[j]
          BY <2>1, <3>2
        <5>2. j \in DOMAIN recs /\ m + 1 \in DOMAIN recs /\ recs[j].uid = recs[m + 1].uid
          BY <5>1, <1>1, <2>0
        <5>3. j = m + 1
          BY <5>2 DEF Unique
        <5> QED
          BY <5>3
      <4>2. \A z, v \in 1 .. l : s[z].uid = s[v].uid => z = v
        BY <2>1, <3>2 DEF Unique
      <4> QED
        BY <4>1, <4>2, <3>3, <3>4
    <3> HIDE DEF From, All, Once
    <3> QED
      BY <2>0, <3>5, <3>6, <3>7
  <2> QED
    BY <2>2, <2>3
<1>4. n \in T
  <2> HIDE DEF T, n
  <2>1. 0 .. n \subseteq T
    BY <1>1, <1>2, <1>3, Upwards
  <2> QED
    BY <1>1, <2>1
<1>5. Without(recs, u) = c[n] /\ c[n] \in Seq(Record)
  BY <1>1, CopiedUpToIs DEF c
<1>6. From(n) /\ All(n) /\ Once(n)
  BY <1>4
<1>7. \A x \in DOMAIN c[n] : \E j \in DOMAIN recs : c[n][x] = recs[j] /\ recs[j].uid # u
  BY <1>1, <1>6
<1>8. \A j \in DOMAIN recs : recs[j].uid # u => \E x \in DOMAIN c[n] : c[n][x] = recs[j]
  BY <1>1, <1>6
<1>9. Unique(recs) => Unique(c[n])
  BY <1>6
<1> QED
  BY <1>5, <1>7, <1>8, <1>9, Zenon

\* Copying all records but the one of u saves the words of that one.
LEMMA CopyWords ==
  ASSUME NEW recs \in Seq(Record), Unique(recs), NEW i \in DOMAIN recs
  PROVE  RecordWords(recs) = RecordWords(Without(recs, recs[i].uid)) + Words(recs[i])
<1> DEFINE n == Len(recs)
           u == recs[i].uid
           c == CopiedUpTo(recs, u)
           w == WordsUpTo(recs)
           T == {m \in 0 .. n : w[m] = RecordWords(c[m]) + (IF i <= m THEN Words(recs[i]) ELSE 0)}
<1>1. /\ n \in Nat
      /\ c \in [0 .. n -> Seq(Record)]
      /\ c[0] = <<>>
      /\ \A k \in 1 .. n :
            c[k] = IF recs[k].uid = u THEN c[k - 1] ELSE Append(c[k - 1], recs[k])
      /\ DOMAIN recs = 1 .. n
      /\ \A k \in 1 .. n : recs[k] \in Record
  BY CopiedUpToIs
<1>2. /\ w \in [0 .. n -> Nat]
      /\ w[0] = 0
      /\ \A k \in 1 .. n : w[k] = w[k - 1] + Words(recs[k])
      /\ RecordWords(recs) = w[n]
  BY WordsUpToIs
<1>3. Words(recs[i]) \in Nat /\ i \in 1 .. n
  BY <1>1, PageAssumption DEF Words, Record
<1>4. \A k \in 1 .. n : recs[k].uid = u <=> k = i
  BY <1>1 DEF Unique
<1> HIDE DEF c, w
<1>5. 0 \in T
  <2>1. RecordWords(<<>>) = 0
    <3>1. <<>> \in Seq(Record)
      OBVIOUS
    <3> QED
      BY <3>1, WordsCounted
  <2> QED
    BY <1>1, <1>2, <1>3, <2>1
<1>6. ASSUME NEW m \in 0 .. n, m \in T, m < n PROVE m + 1 \in T
  <2>0. m + 1 \in 1 .. n /\ (m + 1) - 1 = m
    BY <1>1, <1>6
  <2>1. w[m] = RecordWords(c[m]) + (IF i <= m THEN Words(recs[i]) ELSE 0)
    BY <1>6
  <2>2. w[m + 1] = w[m] + Words(recs[m + 1])
    BY <1>2, <2>0
  <2>3. RecordWords(c[m]) \in Nat /\ c[m] \in Seq(Record)
    BY <1>1, <2>0, WordsCounted
  <2>4. Words(recs[m + 1]) \in Nat
    BY <1>1, <2>0, PageAssumption DEF Words, Record
  <2>5. CASE m + 1 = i
    <3>1. c[m + 1] = c[m]
      BY <1>1, <1>4, <2>0, <2>5
    <3>2. ~(i <= m) /\ i <= m + 1
      BY <2>5, <2>0
    <3>3. w[m + 1] = RecordWords(c[m + 1]) + Words(recs[i])
      BY <2>1, <2>2, <2>3, <2>5, <3>1, <3>2
    <3> QED
      BY <2>0, <3>2, <3>3
  <2>6. CASE m + 1 # i
    <3>1. c[m + 1] = Append(c[m], recs[m + 1])
      BY <1>1, <1>4, <2>0, <2>6
    <3>2. RecordWords(c[m + 1]) = RecordWords(c[m]) + Words(recs[m + 1])
      BY <1>1, <2>0, <2>3, <3>1, WordsAppended
    <3>3. i <= m + 1 <=> i <= m
      BY <1>3, <2>0, <2>6
    <3>4. CASE i <= m
      <4>1. w[m + 1] = RecordWords(c[m + 1]) + Words(recs[i])
        BY <1>3, <2>1, <2>2, <2>3, <2>4, <3>2, <3>4
      <4> QED
        BY <2>0, <3>3, <3>4, <4>1
    <3>5. CASE ~(i <= m)
      <4>1. w[m + 1] = RecordWords(c[m + 1])
        BY <2>1, <2>2, <2>3, <2>4, <3>2, <3>5
      <4>2. RecordWords(c[m + 1]) \in Nat
        BY <2>3, <2>4, <3>2
      <4> QED
        BY <2>0, <3>3, <3>5, <4>1, <4>2
    <3> QED
      BY <3>4, <3>5
  <2> QED
    BY <2>5, <2>6
<1>7. n \in T
  <2> HIDE DEF T, n
  <2>1. 0 .. n \subseteq T
    BY <1>1, <1>5, <1>6, Upwards
  <2> QED
    BY <1>1, <2>1
<1>8. Without(recs, u) = c[n]
  BY CopiedUpToIs DEF c
<1> QED
  BY <1>2, <1>3, <1>7, <1>8

\* Where the scanning loops find u: at its first record.
First(recs, u) == SelectInSeq(recs, LAMBDA r : r.uid = u)

\* The record a scan from the start of the page for a uid stops at.
LEMMA FirstIs ==
  ASSUME NEW recs \in Seq(Record), NEW u
  PROVE  /\ First(recs, u) \in 0 .. Len(recs)
         /\ First(recs, u) = 0 <=> \A j \in DOMAIN recs : recs[j].uid # u
         /\ First(recs, u) # 0 =>
               /\ First(recs, u) \in DOMAIN recs
               /\ recs[First(recs, u)].uid = u
               /\ \A j \in DOMAIN recs : recs[j].uid = u => First(recs, u) <= j
<1> DEFINE I == {j \in 1 .. Len(recs) : recs[j].uid = u}
<1>1. First(recs, u) = IF I # {} THEN CHOOSE x \in I : \A y \in I : x <= y ELSE 0
  BY DEF First, SelectInSeq, Min
<1>2. DOMAIN recs = 1 .. Len(recs) /\ Len(recs) \in Nat
  OBVIOUS
<1>3. CASE I = {}
  BY <1>1, <1>2, <1>3
<1>4. CASE I # {}
  <2>1. \E x \in I : \A y \in I : x <= y
    <3>1. I \subseteq Nat
      BY <1>2
    <3> HIDE DEF I
    <3> QED
      BY <1>4, <3>1, LeastElement
  <2>2. First(recs, u) \in I /\ \A y \in I : First(recs, u) <= y
    <3> HIDE DEF I
    <3> QED
      BY <1>1, <1>4, <2>1
  <2> QED
    BY <1>2, <1>4, <2>2
<1> QED
  BY <1>3, <1>4

\* Where uids are unique, every record is the one found by its uid.
LEMMA StoredIs ==
  ASSUME NEW recs \in Seq(Record), Unique(recs)
  PROVE  /\ \A i \in DOMAIN recs : Stored(recs, recs[i].uid) = recs[i].val
         /\ \A u : (\A i \in DOMAIN recs : recs[i].uid # u) => Stored(recs, u) = NoVal
<1>0. \A u : Stored(recs, u) = IF First(recs, u) = 0 THEN NoVal ELSE recs[First(recs, u)].val
  BY DEF Stored, First
<1>1. ASSUME NEW i \in DOMAIN recs PROVE Stored(recs, recs[i].uid) = recs[i].val
  <2>1. First(recs, recs[i].uid) # 0
    BY FirstIs
  <2>2. First(recs, recs[i].uid) = i
    BY <2>1, FirstIs DEF Unique
  <2> QED
    BY <1>0, <2>1, <2>2
<1>2. ASSUME NEW u, \A i \in DOMAIN recs : recs[i].uid # u PROVE Stored(recs, u) = NoVal
  BY <1>0, <1>2, FirstIs
<1> QED
  BY <1>1, <1>2

(***************************************************************************)
(* The store without failures.  What the theorems of this part assume is   *)
(* the use that nvs.c is written for:                                      *)
(*   - FailureFree: no flash error, expired wait or power loss, as a       *)
(*     delete or modify has all records on its stack alone for a while;    *)
(*   - WritersApart: the calls that change the page and may overlap are    *)
(*     deletes and modifies of different uids, as add checks the uid       *)
(*     before it takes the mutex (run NvsDuplicateUid shows two records of *)
(*     one uid without it);                                                *)
(*   - PageSuffices: the page starts with unique uids and has room for one *)
(*     record of every uid, in fewer words than a uint16_t counts, since   *)
(*     delete and modify erase the page before they learn that the copy    *)
(*     does not fit.                                                       *)
(***************************************************************************)

GoodRecord == [uid : Uid, n : Sizes, val : Val]
\* Such records, one of a uid.
Good(recs) == recs \in Seq(GoodRecord) /\ Unique(recs)
Holds(recs, u) == \E i \in DOMAIN recs : recs[i].uid = u

\* The calls that change the page.
Mutations == {"add", "erase"} \cup Rewrites

FailureFree == MaxError = 0 /\ MaxTimeout = 0 /\ MaxPower = 0

WritersApart ==
    \A us \in Usages : \A s, t \in Task : s # t =>
        \A q \in us[s], r \in us[t] :
            q.op \in Mutations /\ r.op \in Mutations =>
                q.op \in Rewrites /\ r.op \in Rewrites /\ q.uid # r.uid

PageSuffices ==
    /\ PageWords < 65536
    /\ Unique(StoredBefore)
    /\ \A recs \in Seq(GoodRecord) : Unique(recs) => RecordWords(recs) <= PageWords

(***************************************************************************)
(* The inductive invariant follows a call that changes the page.  From     *)
(* BuildArrData until the page is erased (Copied), arr_data is the page    *)
(* without the uid, with the new record for a modify; from then on         *)
(* (Rewriting) it is all that is left of the store, until it is written.   *)
(* An add has checked that its uid is absent, which only its own write     *)
(* changes.  An erase in progress follows the end of every promise.        *)
(***************************************************************************)
StoreTypes ==
    /\ usage \in Usages
    /\ page = [recs |-> page.recs, tail |-> "clean"]
    /\ Good(page.recs)
    /\ req = [t \in Task |-> req[t]]
    /\ arr_data \in [Task -> [recs : Seq(Record), len : Nat]]
    /\ promised \in [Uid -> Val \cup {NoVal}]
    /\ budget = [error |-> 0, timeout |-> 0, power |-> 0]

\* Which calls are at which labels.
CallInv(t) ==
    pc[t] # "idle" =>
        /\ req[t] \in usage[t]
        /\ pc[t] = "build" => req[t].op \in Rewrites
        /\ pc[t] = "copy" => req[t].op = "read"
        /\ pc[t] = "handle" \/ pc[t] \in Flashing => req[t].op \in Mutations
        /\ pc[t] \in {"erase", "erase_wait"} => req[t].op # "add"
        /\ pc[t] \in {"write", "write_wait"} => req[t].op # "erase"
        /\ pc[t] # "fault"

\* t has copied the page and not yet erased it.
Copied(t) ==
    /\ req[t].op \in Rewrites
    /\ pc[t] \in {"handle", "erase", "erase_wait"}
    /\ pc[t] = "erase_wait" => flash # NoFlash


\* A rewrite has the records it copied; the uid it rewrites was there.
RewriteInv(t) ==
    /\ Copied(t) \/ (req[t].op \in Rewrites /\ pc[t] \in {"take", "build"})
          => Holds(StoredRecs, req[t].uid)
    /\ Copied(t) \/ Rewriting(t) =>
          /\ Good(arr_data[t].recs)
          /\ arr_data[t].len = RecordWords(arr_data[t].recs)
          /\ promised[req[t].uid] = NoVal
          /\ req[t].op = "modify" => Stored(arr_data[t].recs, req[t].uid) = req[t].val
          /\ req[t].op = "delete" => Stored(arr_data[t].recs, req[t].uid) = NoVal
    /\ Copied(t) => arr_data[t].recs = Kept(req[t])
    /\ Rewriting(t) =>
          page.recs = IF pc[t] = "write_wait" /\ flash = NoFlash
                      THEN arr_data[t].recs ELSE <<>>
    /\ req[t].op = "erase" /\ pc[t] = "erase_wait" /\ flash = NoFlash => page.recs = <<>>

\* The uid of an add is absent until its record is written.
AddInv(t) ==
    req[t].op = "add" =>
        /\ pc[t] \in {"take", "handle", "write"} \/ (pc[t] = "write_wait" /\ flash # NoFlash)
              => ~Holds(page.recs, req[t].uid)
        /\ pc[t] \in {"write", "write_wait"} =>
              arr_data[t] = [recs |-> <<RecordOf(req[t])>>, len |-> Words(req[t])]
        /\ pc[t] = "write_wait" /\ flash = NoFlash =>
              Stored(page.recs, req[t].uid) = req[t].val

\* What is being erased is promised to nobody.
EraseInv(t) ==
    req[t].op = "erase" /\ pc[t] = "erase_wait" => \A u \in Uid : promised[u] = NoVal

\* The operation in progress is the one its owner waits for.
FlashInv ==
    flash # NoFlash =>
        IF flash.kind = "erase" THEN pc[flash.owner] = "erase_wait"
        ELSE flash.kind = "write" /\ pc[flash.owner] = "write_wait" /\ flash.pad = FALSE

TaskInv(t) == CallInv(t) /\ RewriteInv(t) /\ AddInv(t) /\ EraseInv(t)

StoreInv ==
    /\ StoreTypes
    /\ FlashInv
    /\ PromisesKept
    /\ \A t \in Task : TaskInv(t)

DataInv == AnswerInv /\ StoreInv

\* What is stored for each uid, where uids are unique.
LEMMA GoodIs ==
  ASSUME NEW recs, Good(recs)
  PROVE  /\ recs \in Seq(Record)
         /\ \A i \in DOMAIN recs : recs[i] \in GoodRecord
         /\ \A i \in DOMAIN recs : Stored(recs, recs[i].uid) = recs[i].val
         /\ \A u : ~Holds(recs, u) <=> Stored(recs, u) = NoVal
<1>1. \A i \in DOMAIN recs : recs[i] \in GoodRecord /\ recs[i] \in Record
  <2>1. GoodRecord \subseteq Record
    BY PageAssumption DEF GoodRecord, Record
  <2>2. \A i \in DOMAIN recs : recs[i] \in GoodRecord
    BY DEF Good
  <2> QED
    BY <2>1, <2>2
<1>2. recs \in Seq(Record)
  BY <1>1 DEF Good
<1>3. \A i \in DOMAIN recs : Stored(recs, recs[i].uid) = recs[i].val
  BY <1>2, StoredIs DEF Good
<1>4. ASSUME NEW u PROVE ~Holds(recs, u) <=> Stored(recs, u) = NoVal
  <2>1. CASE Holds(recs, u)
    <3>1. PICK i \in DOMAIN recs : recs[i].uid = u
      BY <2>1 DEF Holds
    <3>2. Stored(recs, u) \in Val
      BY <1>1, <1>3, <3>1 DEF GoodRecord
    <3> QED
      BY <2>1, <3>2, NvsAssumption
  <2>2. CASE ~Holds(recs, u)
    BY <1>2, <2>2, StoredIs DEF Holds, Good
  <2> QED
    BY <2>1, <2>2
<1> QED
  BY <1>1, <1>2, <1>3, <1>4

\* Two pages with the same records of u store the same for it.
LEMMA SameStored ==
  ASSUME NEW recs, Good(recs), NEW other, Good(other), NEW u,
         \A i \in DOMAIN recs : recs[i].uid = u => \E j \in DOMAIN other : other[j] = recs[i],
         \A j \in DOMAIN other : other[j].uid = u => \E i \in DOMAIN recs : recs[i] = other[j]
  PROVE  Stored(other, u) = Stored(recs, u) /\ (Holds(other, u) <=> Holds(recs, u))
<1>1. Holds(other, u) <=> Holds(recs, u)
  BY DEF Holds
<1>2. CASE Holds(recs, u)
  <2>1. PICK i \in DOMAIN recs : recs[i].uid = u
    BY <1>2 DEF Holds
  <2>2. PICK j \in DOMAIN other : other[j] = recs[i]
    BY <2>1
  <2>3. Stored(recs, u) = recs[i].val
    BY <2>1, GoodIs
  <2>4. Stored(other, u) = other[j].val
    <3>1. other[j].uid = u
      BY <2>1, <2>2
    <3>2. Stored(other, other[j].uid) = other[j].val
      BY GoodIs
    <3> QED
      BY <3>1, <3>2
  <2> QED
    BY <1>1, <2>2, <2>3, <2>4
<1>3. CASE ~Holds(recs, u)
  BY <1>1, <1>3, GoodIs
<1> QED
  BY <1>1, <1>2, <1>3

\* The copy without one uid holds the others as they were.
LEMMA CopyGood ==
  ASSUME NEW recs, Good(recs), NEW u
  PROVE  /\ Good(Without(recs, u))
         /\ ~Holds(Without(recs, u), u)
         /\ \A q : q # u => /\ Stored(Without(recs, u), q) = Stored(recs, q)
                            /\ Holds(Without(recs, u), q) <=> Holds(recs, q)
<1> DEFINE copy == Without(recs, u)
<1>1. /\ copy \in Seq(Record)
      /\ \A x \in DOMAIN copy : \E j \in DOMAIN recs : copy[x] = recs[j] /\ recs[j].uid # u
      /\ \A j \in DOMAIN recs : recs[j].uid # u => \E x \in DOMAIN copy : copy[x] = recs[j]
      /\ Unique(copy)
  BY GoodIs, CopyIs DEF Good
<1> HIDE DEF copy
<1>2. Good(copy)
  <2>1. \A x \in DOMAIN copy : copy[x] \in GoodRecord
    BY <1>1, GoodIs
  <2> QED
    BY <1>1, <2>1 DEF Good
<1>3. ~Holds(copy, u)
  BY <1>1 DEF Holds
<1>4. ASSUME NEW q, q # u
      PROVE  Stored(copy, q) = Stored(recs, q) /\ (Holds(copy, q) <=> Holds(recs, q))
  BY <1>1, <1>2, <1>4, SameStored
<1> QED
  BY <1>2, <1>3, <1>4 DEF copy

\* A record with a new uid behind the others leaves them as they were.
LEMMA AppendGood ==
  ASSUME NEW recs, Good(recs), NEW r \in GoodRecord, ~Holds(recs, r.uid)
  PROVE  /\ Good(Append(recs, r))
         /\ Stored(Append(recs, r), r.uid) = r.val
         /\ Holds(Append(recs, r), r.uid)
         /\ \A q : q # r.uid => /\ Stored(Append(recs, r), q) = Stored(recs, q)
                                /\ Holds(Append(recs, r), q) <=> Holds(recs, q)
<1> DEFINE n == Len(recs)
           all == Append(recs, r)
<1>1. /\ recs \in Seq(GoodRecord)
      /\ all \in Seq(GoodRecord)
      /\ n \in Nat
      /\ DOMAIN recs = 1 .. n
      /\ DOMAIN all = 1 .. n + 1
      /\ 1 .. n + 1 = (1 .. n) \cup {n + 1}
      /\ n + 1 \notin 1 .. n
      /\ all[n + 1] = r
      /\ \A i \in 1 .. n : all[i] = recs[i]
  BY DEF Good
<1> HIDE DEF all, n
<1>2. \A i \in 1 .. n : all[i].uid # r.uid
  BY <1>1 DEF Holds
<1>3. Unique(all)
  <2>1. \A i, j \in 1 .. n : recs[i].uid = recs[j].uid => i = j
    BY <1>1 DEF Good, Unique
  <2> QED
    BY <1>1, <1>2, <2>1 DEF Unique
<1>4. Good(all)
  BY <1>1, <1>3 DEF Good
<1>5. Stored(all, r.uid) = r.val /\ Holds(all, r.uid)
  BY <1>1, <1>4, GoodIs DEF Holds
<1>6. ASSUME NEW q, q # r.uid
      PROVE  Stored(all, q) = Stored(recs, q) /\ (Holds(all, q) <=> Holds(recs, q))
  <2>1. \A i \in DOMAIN recs : recs[i].uid = q => \E j \in DOMAIN all : all[j] = recs[i]
    BY <1>1
  <2>2. \A j \in DOMAIN all : all[j].uid = q => \E i \in DOMAIN recs : recs[i] = all[j]
    BY <1>1, <1>6
  <2> QED
    BY <1>4, <2>1, <2>2, SameStored
<1> QED
  BY <1>4, <1>5, <1>6 DEF all

\* What delete and modify make of a page that has their uid: a copy that fits
\* arr_data exactly.
LEMMA KeptGood ==
  ASSUME PageSuffices, Good(page.recs), page.tail = "clean",
         NEW r \in Request, r.op \in Rewrites, Holds(page.recs, r.uid)
  PROVE  /\ Good(Kept(r))
         /\ BufferLen(r) = RecordWords(Kept(r))
         /\ ~Overruns(r)
         /\ \A q : q # r.uid => /\ Stored(Kept(r), q) = Stored(page.recs, q)
                                /\ Holds(Kept(r), q) <=> Holds(page.recs, q)
         /\ r.op = "modify" => Stored(Kept(r), r.uid) = r.val
         /\ r.op = "delete" => Stored(Kept(r), r.uid) = NoVal
<1> DEFINE rest == Without(page.recs, r.uid)
           i == First(page.recs, r.uid)
           total == RecordWords(page.recs)
<1>1. page.recs \in Seq(Record) /\ Unique(page.recs)
  BY GoodIs DEF Good
<1>2. i \in DOMAIN page.recs /\ page.recs[i].uid = r.uid /\ i # 0
  BY <1>1, FirstIs DEF Holds
<1>3. total = RecordWords(rest) + Words(page.recs[i])
  BY <1>1, <1>2, CopyWords
<1>4. /\ Good(rest)
      /\ ~Holds(rest, r.uid)
      /\ \A q : q # r.uid => Stored(rest, q) = Stored(page.recs, q)
                             /\ (Holds(rest, q) <=> Holds(page.recs, q))
  BY CopyGood
<1>5. /\ RecordOf(r) \in GoodRecord
      /\ RecordOf(r).uid = r.uid
      /\ RecordOf(r).n = r.n
      /\ RecordOf(r).val = r.val
  BY DEF RecordOf, Request, GoodRecord
<1>6. total \in Nat /\ RecordWords(rest) \in Nat /\ total < 65536
  <2>1. page.recs \in Seq(GoodRecord) /\ rest \in Seq(Record)
    BY <1>4, GoodIs DEF Good
  <2>2. total <= PageWords
    BY <1>1, <2>1 DEF PageSuffices
  <2> QED
    BY <1>1, <2>1, <2>2, WordsCounted, PageAssumption DEF PageSuffices
<1>7. Words(page.recs[i]) = Meta + page.recs[i].n /\ page.recs[i].n \in Nat /\ Meta \in Nat
  <2>1. page.recs[i] \in Record
    BY <1>1, <1>2
  <2> QED
    BY <2>1, PageAssumption DEF Words, Record
<1>8. Others(r) = total - page.recs[i].n
  <2>1. nvs_get_size_of_stored_data(page) = total
    BY <1>6 DEF nvs_get_size_of_stored_data
  <2>2. nvs_get_size_of_data(page, r.uid) = page.recs[i].n
    BY <1>2 DEF nvs_get_size_of_data, First
  <2> QED
    BY <2>1, <2>2 DEF Others
<1>9. Others(r) = RecordWords(rest) + Meta
  BY <1>3, <1>6, <1>7, <1>8
<1>10. r.op \in {"delete", "modify"} /\ r.op \in Op /\ r.n \in Nat /\ page.tail # "sod"
  BY PageAssumption DEF Rewrites, Request
<1> HIDE DEF rest, i, total
<1>11. CASE r.op = "delete"
  <2>1. Kept(r) = rest
    BY <1>11 DEF Kept, rest
  <2>2. BufferLen(r) = RecordWords(rest)
    <3>1. Others(r) - Meta = RecordWords(rest) /\ RecordWords(rest) < 65536
      BY <1>3, <1>6, <1>7, <1>9
    <3>2. BufferLen(r) = (Others(r) - Meta) % 65536
      BY <1>11 DEF BufferLen
    <3> QED
      BY <1>6, <3>1, <3>2
  <2>3. ~Overruns(r)
    BY <1>6, <1>7, <1>9, <1>10, <2>1, <2>2 DEF Overruns
  <2>4. Stored(rest, r.uid) = NoVal
    BY <1>4, GoodIs
  <2> QED
    BY <1>4, <1>11, <2>1, <2>2, <2>3, <2>4
<1>12. CASE r.op = "modify"
  <2>1. Kept(r) = Append(rest, RecordOf(r))
    BY <1>12 DEF Kept, rest
  <2>2. /\ Good(Kept(r))
        /\ Stored(Kept(r), r.uid) = r.val
        /\ \A q : q # r.uid => Stored(Kept(r), q) = Stored(page.recs, q)
                               /\ (Holds(Kept(r), q) <=> Holds(page.recs, q))
    BY <1>4, <1>5, <2>1, AppendGood
  <2>3. RecordWords(Kept(r)) = RecordWords(rest) + Meta + r.n
    <3>1. rest \in Seq(Record) /\ RecordOf(r) \in Record
      BY <1>4, <1>5, GoodIs, PageAssumption DEF GoodRecord, Record
    <3>2. Words(RecordOf(r)) = Meta + r.n
      BY <1>5 DEF Words
    <3> QED
      BY <1>6, <1>7, <1>10, <2>1, <3>1, <3>2, WordsAppended
  <2>4. RecordWords(Kept(r)) < 65536
    <3>1. RecordWords(Kept(r)) <= PageWords
      BY <2>2 DEF Good, PageSuffices
    <3> QED
      BY <3>1, <2>3, <1>6, <1>7, <1>10, PageAssumption DEF PageSuffices
  <2>5. BufferLen(r) = RecordWords(Kept(r))
    <3>1. BufferLen(r) = (Others(r) + r.n) % 65536
      BY <1>12 DEF BufferLen
    <3>2. Others(r) + r.n = RecordWords(Kept(r))
      BY <1>6, <1>7, <1>9, <1>10, <2>3
    <3> QED
      BY <1>6, <1>7, <1>10, <2>3, <2>4, <3>1, <3>2
  <2>6. ~Overruns(r)
    BY <1>6, <1>7, <1>10, <1>12, <2>3, <2>5 DEF Overruns
  <2> QED
    BY <1>12, <2>2, <2>5, <2>6
<1> QED
  BY <1>10, <1>11, <1>12

\* Only the mutex's owner rewrites, so the CHOOSE of StoredRecs finds it.
HeldRecs ==
    /\ \A t \in Task : Rewriting(t) => StoredRecs = arr_data[t].recs
    /\ (\A t \in Task : ~Rewriting(t)) => StoredRecs = page.recs

\* The one task that rewrites the page is the owner of the mutex.
LEMMA StoredRecsIs == LockInv => HeldRecs
<1> SUFFICES ASSUME LockInv PROVE HeldRecs
  OBVIOUS
<1>1. \A s, t \in Task : Rewriting(s) /\ Rewriting(t) => s = t
  BY DEF Rewriting, LockInv, MutualExclusion, Holding, Labels
<1>2. ASSUME NEW t \in Task, Rewriting(t) PROVE StoredRecs = arr_data[t].recs
  <2>1. (CHOOSE s \in Task : Rewriting(s)) = t
    BY <1>1, <1>2
  <2> QED
    BY <1>2, <2>1 DEF StoredRecs
<1>3. ASSUME \A t \in Task : ~Rewriting(t) PROVE StoredRecs = page.recs
  BY <1>3 DEF StoredRecs
<1> QED
  BY <1>2, <1>3 DEF HeldRecs

\* A step that leaves the page and the buffer of a rewrite alone, and neither
\* begins nor ends one, changes nothing of what is stored.
LEMMA Quiet ==
  ASSUME LockInv, LockInv', UNCHANGED page,
         \A t \in Task : Rewriting(t)' <=> Rewriting(t),
         \A t \in Task : Rewriting(t) => arr_data'[t].recs = arr_data[t].recs
  PROVE  StoredRecs' = StoredRecs
<1>1. HeldRecs /\ HeldRecs'
  BY StoredRecsIs, PTL
<1>2. CASE \E t \in Task : Rewriting(t)
  BY <1>1, <1>2 DEF HeldRecs
<1>3. CASE \A t \in Task : ~Rewriting(t)
  BY <1>1, <1>3 DEF HeldRecs
<1> QED
  BY <1>2, <1>3

\* A task that is not past the mutex is not affected by what others do, unless
\* its uid is taken from under it.
LEMMA Bystander ==
  ASSUME NEW s \in Task, TaskInv(s), pc[s] \in {"idle", "take"},
         pc'[s] = pc[s], req'[s] = req[s], UNCHANGED usage,
         req[s].op \in Rewrites /\ pc[s] = "take" /\ Holds(StoredRecs, req[s].uid)
            => Holds(StoredRecs', req[s].uid),
         req[s].op = "add" /\ pc[s] = "take" /\ ~Holds(page.recs, req[s].uid)
            => ~Holds(page'.recs, req[s].uid)
  PROVE  TaskInv(s)'
<1>1. CallInv(s)'
  BY DEF TaskInv, CallInv, Flashing, Waiting
<1>2. RewriteInv(s)'
  <2>1. ~Copied(s)' /\ ~Rewriting(s)'
    BY DEF Copied, Rewriting
  <2> QED
    BY <2>1 DEF TaskInv, RewriteInv
<1>3. AddInv(s)'
  BY DEF TaskInv, AddInv
<1>4. EraseInv(s)'
  BY DEF EraseInv
<1> QED
  BY <1>1, <1>2, <1>3, <1>4 DEF TaskInv

\* A step of t, which holds the mutex, that leaves the stored records alone.
LEMMA OwnStep ==
  ASSUME LockInv, StoreInv, NEW t \in Task, pc[t] \in Holding,
         UNCHANGED <<usage, req, page>>, StoredRecs' = StoredRecs,
         \A s \in Task \ {t} : pc'[s] = pc[s],
         TaskInv(t)'
  PROVE  \A s \in Task : TaskInv(s)'
<1> SUFFICES ASSUME NEW s \in Task, s # t PROVE TaskInv(s)'
  OBVIOUS
<1>1. pc[s] \in {"idle", "take"}
  BY DEF LockInv, LockTypes, MutualExclusion, Holding
<1>2. TaskInv(s)
  BY DEF StoreInv
<1> QED
  BY <1>1, <1>2, Bystander

\* The calls a task may make are calls of nvs.c's functions.
LEMMA CallsAreRequests ==
  ASSUME StoreTypes, NEW t \in Task, NEW r \in usage[t]
  PROVE  r \in Request
BY NvsAssumption DEF StoreTypes, Request, Op

\* A call is one of those its task may make.
LEMMA InCall ==
  ASSUME StoreInv, NEW t \in Task, pc[t] # "idle"
  PROVE  req[t] \in usage[t] /\ req[t] \in Request
<1>1. req[t] \in usage[t]
  BY DEF StoreInv, TaskInv, CallInv
<1> QED
  BY <1>1, CallsAreRequests DEF StoreInv

\* A call passes the uid check with its uid stored, or absent, as it needs it.
LEMMA DataCall ==
  ASSUME DataInv, LockInv', NEW t \in Task, Call(t)
  PROVE  StoreInv' /\ StoredRecs' = StoredRecs
<1>0. LockInv /\ StoreInv /\ StoreTypes
  BY DEF DataInv, StoreInv, AnswerInv
<1>1. PICK r \in usage[t] :
         /\ req' = [req EXCEPT ![t] = r]
         /\ pc' = [pc EXCEPT ![t] = IF Refusal(r) = "none" THEN "take" ELSE "idle"]
  BY DEF Call
<1>2. /\ UNCHANGED <<usage, page, nvs_init, mutex, flash, arr_data, promised, budget>>
      /\ pc[t] = "idle"
  BY DEF Call
<1>3. r \in Request
  BY <1>0, CallsAreRequests
<1>4. /\ pc \in [Task -> Labels]
      /\ req = [s \in Task |-> req[s]]
  BY <1>0 DEF LockInv, LockTypes, StoreTypes
<1>5. /\ req'[t] = r
      /\ pc'[t] = IF Refusal(r) = "none" THEN "take" ELSE "idle"
      /\ \A s \in Task \ {t} : req'[s] = req[s] /\ pc'[s] = pc[s]
  BY <1>1, <1>4
<1>6. \A s \in Task : (Rewriting(s)' <=> Rewriting(s)) /\ (Copied(s)' <=> Copied(s))
  <2>1. \A s \in Task \ {t} : (Rewriting(s)' <=> Rewriting(s)) /\ (Copied(s)' <=> Copied(s))
    BY <1>2, <1>5 DEF Rewriting, Copied
  <2>2. ~Rewriting(t) /\ ~Copied(t)
    BY <1>2 DEF Rewriting, Copied
  <2>3. ~Rewriting(t)' /\ ~Copied(t)'
    BY <1>5 DEF Rewriting, Copied
  <2> QED
    BY <2>1, <2>2, <2>3
<1>7. StoredRecs' = StoredRecs
  BY <1>0, <1>2, <1>6, Quiet
<1>8. ASSUME NEW s \in Task, s # t PROVE TaskInv(s)'
  <2>1. TaskInv(s)
    BY <1>0 DEF StoreInv
  <2>2. CallInv(s)'
    BY <1>2, <1>5, <1>8, <2>1 DEF TaskInv, CallInv
  <2>3. RewriteInv(s)'
    <3>1. Kept(req[s])' = Kept(req[s])
      BY <1>2, <1>5, <1>8 DEF Kept
    <3> QED
      BY <1>2, <1>5, <1>6, <1>7, <1>8, <2>1, <3>1 DEF TaskInv, RewriteInv
  <2>4. AddInv(s)' /\ EraseInv(s)'
    BY <1>2, <1>5, <1>8, <2>1 DEF TaskInv, AddInv, EraseInv
  <2> QED
    BY <2>2, <2>3, <2>4 DEF TaskInv
<1>9. TaskInv(t)'
  <2>1. CallInv(t)'
    BY <1>2, <1>5 DEF CallInv, Flashing, Waiting
  <2>2. r.op \in Rewrites /\ pc'[t] = "take" => Holds(StoredRecs, r.uid)
    <3> SUFFICES ASSUME r.op \in Rewrites, pc'[t] = "take" PROVE Holds(StoredRecs, r.uid)
      OBVIOUS
    <3>1. Holds(page.recs, r.uid)
      BY <1>5 DEF Refusal, nvs_is_uid_present, Holds, Rewrites
    <3>2. HeldRecs
      BY <1>0, StoredRecsIs
    <3>3. page.recs # <<>>
      BY <3>1 DEF Holds
    <3>4. CASE \E s \in Task : Rewriting(s)
      <4>1. PICK s \in Task : Rewriting(s)
        BY <3>4
      <4>2. page.recs = arr_data[s].recs
        BY <1>0, <3>3, <4>1 DEF StoreInv, TaskInv, RewriteInv
      <4> QED
        BY <3>1, <3>2, <4>1, <4>2 DEF HeldRecs
    <3>5. CASE \A s \in Task : ~Rewriting(s)
      BY <3>1, <3>2, <3>5 DEF HeldRecs
    <3> QED
      BY <3>4, <3>5
  <2>3. RewriteInv(t)'
    <3>1. ~Copied(t)' /\ ~Rewriting(t)'
      BY <1>5 DEF Rewriting, Copied
    <3> QED
      BY <1>5, <1>7, <2>2, <3>1 DEF RewriteInv
  <2>4. AddInv(t)'
    <3>1. r.op = "add" /\ pc'[t] = "take" => ~Holds(page.recs, r.uid)
      BY <1>5 DEF Refusal, nvs_is_uid_present, Holds
    <3> QED
      BY <1>2, <1>5, <3>1 DEF AddInv
  <2>5. EraseInv(t)'
    BY <1>5 DEF EraseInv
  <2> QED
    BY <2>1, <2>3, <2>4, <2>5 DEF TaskInv
<1>10. StoreTypes'
  BY <1>0, <1>1, <1>2, <1>3, <1>4 DEF StoreTypes
<1>11. FlashInv'
  <2>1. flash # NoFlash => flash.owner \in Task /\ flash.owner # t
    BY <1>2 DEF DataInv, AnswerInv, ChainInv, Waiting
  <2> QED
    BY <1>0, <1>2, <1>5, <2>1 DEF StoreInv, FlashInv
<1>12. PromisesKept'
  BY <1>0, <1>2, <1>7 DEF StoreInv, PromisesKept
<1> QED
  BY <1>7, <1>8, <1>9, <1>10, <1>11, <1>12 DEF StoreInv

\* A step of t outside the flash operations changes nothing but where t is.
LEMMA PcStep ==
  ASSUME LockInv, LockInv', StoreInv, NEW t \in Task, NEW l,
         UNCHANGED <<usage, page, flash, req, arr_data, promised, budget>>,
         pc' = [pc EXCEPT ![t] = l],
         pc[t] \notin {"handle"} \cup Flashing, l \notin Flashing,
         l \in Labels \ {"fault"},
         flash # NoFlash => flash.owner # t,
         l # "idle" => req[t] \in usage[t],
         l = "build" => req[t].op \in Rewrites /\ Holds(StoredRecs, req[t].uid),
         l = "copy" => req[t].op = "read",
         l = "handle" => req[t].op \in Mutations \ Rewrites,
         l = "handle" /\ req[t].op = "add" => ~Holds(page.recs, req[t].uid),
         l # "take"
  PROVE  StoreInv' /\ StoredRecs' = StoredRecs
<1>1. /\ pc \in [Task -> Labels]
      /\ pc'[t] = l
      /\ \A s \in Task \ {t} : pc'[s] = pc[s]
  BY DEF LockInv, LockTypes
<1>2. ~Rewriting(t) /\ ~Copied(t) /\ ~Rewriting(t)' /\ ~Copied(t)'
  BY <1>1 DEF Rewriting, Copied, Flashing, Waiting
<1>3. \A s \in Task : (Rewriting(s)' <=> Rewriting(s)) /\ (Copied(s)' <=> Copied(s))
  <2>1. \A s \in Task \ {t} : (Rewriting(s)' <=> Rewriting(s)) /\ (Copied(s)' <=> Copied(s))
    BY <1>1 DEF Rewriting, Copied
  <2> QED
    BY <1>2, <2>1
<1>4. StoredRecs' = StoredRecs
  BY <1>3, Quiet
<1>5. ASSUME NEW s \in Task, s # t PROVE TaskInv(s)'
  <2>1. TaskInv(s)
    BY DEF StoreInv
  <2>2. CallInv(s)'
    BY <1>1, <1>5, <2>1 DEF TaskInv, CallInv
  <2>3. RewriteInv(s)'
    <3>1. Kept(req[s])' = Kept(req[s])
      BY DEF Kept
    <3> QED
      BY <1>1, <1>3, <1>4, <1>5, <2>1, <3>1 DEF TaskInv, RewriteInv
  <2>4. AddInv(s)' /\ EraseInv(s)'
    BY <1>1, <1>5, <2>1 DEF TaskInv, AddInv, EraseInv
  <2> QED
    BY <2>2, <2>3, <2>4 DEF TaskInv
<1>6. TaskInv(t)'
  <2>1. CallInv(t)'
    BY <1>1 DEF CallInv, Flashing, Waiting
  <2>2. RewriteInv(t)'
    BY <1>1, <1>2, <1>4 DEF RewriteInv, Flashing, Waiting
  <2>3. AddInv(t)' /\ EraseInv(t)'
    BY <1>1 DEF AddInv, EraseInv, Flashing, Waiting
  <2> QED
    BY <2>1, <2>2, <2>3 DEF TaskInv
<1>7. StoreTypes' /\ PromisesKept'
  BY <1>4 DEF StoreInv, StoreTypes, PromisesKept
<1>8. FlashInv'
  <2> SUFFICES ASSUME flash # NoFlash PROVE FlashInv'
    BY DEF FlashInv
  <2>1. pc'[flash.owner] = pc[flash.owner]
    BY <1>1
  <2> QED
    BY <2>1 DEF StoreInv, FlashInv
<1> QED
  BY <1>4, <1>5, <1>6, <1>7, <1>8 DEF StoreInv

\* Taking or failing to take the mutex, and reads, leave the page alone.
LEMMA DataPcSteps ==
  ASSUME DataInv, LockInv', NEW t \in Task,
         TakeMutex(t) \/ MutexTimeout(t) \/ nvs_read_raw_data(t) \/ nvs_get_data_pointer(t)
  PROVE  StoreInv' /\ StoredRecs' = StoredRecs
<1>0. LockInv /\ StoreInv /\ TaskInv(t)
  BY DEF DataInv, StoreInv, AnswerInv
<1>1. UNCHANGED <<usage, page, flash, req, arr_data, promised, budget>>
  BY DEF TakeMutex, MutexTimeout, nvs_read_raw_data, nvs_get_data_pointer
<1>2. pc[t] \in {"take", "copy", "lookup"}
  BY DEF TakeMutex, MutexTimeout, nvs_read_raw_data, nvs_get_data_pointer
<1>3. pc[t] \notin {"handle"} \cup Flashing
  BY <1>2 DEF Flashing, Waiting
<1>4. flash # NoFlash => flash.owner # t
  BY <1>2 DEF DataInv, AnswerInv, ChainInv, Waiting
<1>5. CASE TakeMutex(t)
  <2> DEFINE l == AfterTake(req[t].op)
  <2>1. pc[t] = "take" /\ pc' = [pc EXCEPT ![t] = l]
    BY <1>5 DEF TakeMutex
  <2>2. req[t] \in usage[t] /\ req[t].op \in Op
    BY <1>0, <2>1, InCall DEF Request
  <2>3. l \in {"build", "copy", "lookup", "handle"}
    BY DEF AfterTake
  <2>4. /\ l = "build" => req[t].op \in Rewrites
        /\ l = "copy" => req[t].op = "read"
    BY DEF AfterTake
  <2>5. l = "handle" => req[t].op \in Mutations \ Rewrites
    BY <2>2 DEF AfterTake, Op, Mutations, Rewrites
  <2>6. req[t].op \in Rewrites => Holds(StoredRecs, req[t].uid)
    BY <1>0, <2>1 DEF TaskInv, RewriteInv
  <2>7. req[t].op = "add" => ~Holds(page.recs, req[t].uid)
    BY <1>0, <2>1 DEF TaskInv, AddInv
  <2>8. l \notin Flashing /\ l \in Labels \ {"fault"} /\ l # "take"
    BY <2>3 DEF Flashing, Waiting, Labels
  <2> HIDE DEF l
  <2> QED
    BY <1>0, <1>1, <1>3, <1>4, <2>1, <2>2, <2>4, <2>5, <2>6, <2>7, <2>8, PcStep
<1>6. CASE MutexTimeout(t) \/ nvs_read_raw_data(t) \/ nvs_get_data_pointer(t)
  <2>1. pc' = [pc EXCEPT ![t] = "idle"]
    BY <1>6 DEF MutexTimeout, nvs_read_raw_data, nvs_get_data_pointer
  <2>2. "idle" \notin Flashing /\ "idle" \in Labels \ {"fault"}
    BY DEF Flashing, Waiting, Labels
  <2> QED
    BY <1>0, <1>1, <1>3, <1>4, <2>1, <2>2, PcStep
<1> QED
  BY <1>5, <1>6

\* The others, while t is past the mutex.
LEMMA OthersWait ==
  ASSUME LockInv, NEW t \in Task, pc[t] \in Holding
  PROVE  \A s \in Task \ {t} : pc[s] \in {"idle", "take"} /\ ~Rewriting(s) /\ ~Copied(s)
BY DEF LockInv, LockTypes, MutualExclusion, Holding, Rewriting, Copied

\* The copy is made of a page that has the uid, so it fits.
LEMMA DataBuild ==
  ASSUME DataInv, LockInv', PageSuffices, NEW t \in Task, BuildArrData(t)
  PROVE  StoreInv' /\ StoredRecs' = StoredRecs
<1> DEFINE r == req[t]
<1>0. LockInv /\ StoreInv /\ StoreTypes /\ TaskInv(t)
  BY DEF DataInv, StoreInv, AnswerInv
<1>1. /\ pc[t] = "build"
      /\ UNCHANGED <<usage, page, flash, req, budget>>
  BY DEF BuildArrData
<1>2. /\ pc[t] \in Holding
      /\ ~Rewriting(t)
  BY <1>1 DEF Holding, Labels, Rewriting
<1>3. StoredRecs = page.recs
  BY <1>0, <1>2, OthersWait, StoredRecsIs DEF HeldRecs
<1>4. r \in Request /\ r.op \in Rewrites /\ r.uid \in Uid /\ r \in usage[t]
  BY <1>0, <1>1, InCall DEF TaskInv, CallInv, Request
<1>5. Holds(page.recs, r.uid) /\ Good(page.recs) /\ page.tail = "clean"
  BY <1>0, <1>1, <1>3, <1>4 DEF StoreTypes, TaskInv, RewriteInv
<1>6. /\ Good(Kept(r))
      /\ BufferLen(r) = RecordWords(Kept(r))
      /\ ~Overruns(r)
      /\ r.op = "modify" => Stored(Kept(r), r.uid) = r.val
      /\ r.op = "delete" => Stored(Kept(r), r.uid) = NoVal
  BY <1>4, <1>5, KeptGood
<1>7. /\ pc' = [pc EXCEPT ![t] = "handle"]
      /\ arr_data' = [arr_data EXCEPT ![t] = [recs |-> Kept(r), len |-> BufferLen(r)]]
      /\ promised' = [promised EXCEPT ![r.uid] = NoVal]
  BY <1>6 DEF BuildArrData
<1>8. /\ Kept(r) \in Seq(Record)
      /\ BufferLen(r) \in Nat
  BY <1>6, GoodIs, WordsCounted
<1>9. StoreTypes'
  BY <1>0, <1>1, <1>4, <1>7, <1>8 DEF StoreTypes
<1>10. /\ pc'[t] = "handle"
       /\ arr_data'[t] = [recs |-> Kept(r), len |-> BufferLen(r)]
       /\ promised'[r.uid] = NoVal
       /\ \A s \in Task \ {t} : pc'[s] = pc[s]
  BY <1>0, <1>4, <1>7 DEF StoreTypes, LockInv, LockTypes
<1>11. StoredRecs' = StoredRecs
  <2>1. \A s \in Task : ~Rewriting(s)
    BY <1>0, <1>2, OthersWait
  <2>2. \A s \in Task : ~Rewriting(s)'
    BY <1>1, <1>2, <1>0, <1>10, OthersWait DEF Rewriting
  <2> QED
    BY <1>0, <1>1, <2>1, <2>2, Quiet
<1>12. TaskInv(t)'
  <2>1. CallInv(t)'
    BY <1>1, <1>4, <1>10 DEF CallInv, Flashing, Waiting, Mutations
  <2>2. RewriteInv(t)'
    <3>1. ~Rewriting(t)'
      BY <1>10 DEF Rewriting
    <3>2. Kept(r)' = Kept(r)
      BY <1>1 DEF Kept
    <3> QED
      BY <1>1, <1>3, <1>5, <1>6, <1>10, <1>11, <3>1, <3>2 DEF RewriteInv
  <2>3. AddInv(t)' /\ EraseInv(t)'
    BY <1>1, <1>4, <1>10 DEF AddInv, EraseInv, Rewrites
  <2> QED
    BY <2>1, <2>2, <2>3 DEF TaskInv
<1>13. \A s \in Task : TaskInv(s)'
  BY <1>0, <1>1, <1>2, <1>10, <1>11, <1>12, OwnStep
<1>14. FlashInv'
  <2> SUFFICES ASSUME flash # NoFlash PROVE FlashInv'
    BY <1>1 DEF FlashInv
  <2>1. flash.owner \in Task \ {t}
    BY <1>1 DEF DataInv, AnswerInv, ChainInv, Waiting
  <2> QED
    BY <1>0, <1>1, <1>10, <2>1 DEF StoreInv, FlashInv
<1>15. PromisesKept'
  BY <1>0, <1>7, <1>11 DEF StoreInv, StoreTypes, PromisesKept
<1> QED
  BY <1>11, <1>9, <1>13, <1>14, <1>15 DEF StoreInv

\* The record an add will write is put into the buffer.
LEMMA DataHandle ==
  ASSUME DataInv, LockInv', NEW t \in Task, SetHandle(t)
  PROVE  StoreInv' /\ StoredRecs' = StoredRecs
<1> DEFINE r == req[t]
           fresh == [recs |-> <<RecordOf(r)>>, len |-> Words(r)]
<1>0. LockInv /\ StoreInv /\ StoreTypes /\ TaskInv(t)
  BY DEF DataInv, StoreInv, AnswerInv
<1>1. /\ pc[t] = "handle"
      /\ pc' = [pc EXCEPT ![t] = AfterHandle(r.op)]
      /\ arr_data' = IF r.op = "add" THEN [arr_data EXCEPT ![t] = fresh] ELSE arr_data
      /\ UNCHANGED <<usage, page, flash, req, promised, budget>>
  BY DEF SetHandle
<1>2. /\ pc[t] \in Holding
      /\ ~Rewriting(t)
  BY <1>1 DEF Holding, Labels, Rewriting
<1>3. r \in Request /\ r \in usage[t] /\ r.op \in Mutations
  BY <1>0, <1>1, InCall DEF TaskInv, CallInv
<1>4. fresh \in [recs : Seq(Record), len : Nat]
  <2>1. RecordOf(r) \in Record
    BY <1>3, PageAssumption DEF RecordOf, Request, Record
  <2>2. Words(r) \in Nat
    <3>1. r.n \in Nat /\ Meta \in Nat
      BY <1>3, PageAssumption DEF Request
    <3> QED
      BY <3>1 DEF Words
  <2> QED
    BY <2>1, <2>2
<1>5. StoreTypes'
  BY <1>0, <1>1, <1>4 DEF StoreTypes
<1>6. /\ pc'[t] = IF r.op = "add" THEN "write" ELSE "erase"
      /\ r.op = "add" => arr_data'[t] = fresh
      /\ r.op # "add" => arr_data'[t] = arr_data[t]
      /\ \A s \in Task \ {t} : pc'[s] = pc[s]
  BY <1>0, <1>1 DEF StoreTypes, LockInv, LockTypes, AfterHandle
<1>7. ~Rewriting(t)'
  BY <1>1, <1>6 DEF Rewriting, Rewrites
<1>8. StoredRecs' = StoredRecs
  <2>1. \A s \in Task : ~Rewriting(s)
    BY <1>0, <1>2, OthersWait
  <2>2. \A s \in Task : ~Rewriting(s)'
    BY <1>0, <1>1, <1>2, <1>6, <1>7, OthersWait DEF Rewriting
  <2> QED
    BY <1>0, <1>1, <2>1, <2>2, Quiet
<1>9. TaskInv(t)'
  <2>1. CallInv(t)'
    BY <1>1, <1>3, <1>6 DEF CallInv, Flashing, Waiting, Mutations, Rewrites
  <2>2. RewriteInv(t)'
    <3>1. CASE r.op = "add"
      BY <1>1, <3>1 DEF RewriteInv, Copied, Rewriting, Rewrites
    <3>2. CASE r.op # "add"
      <4>1. Copied(t)' => Copied(t)
        BY <1>1 DEF Copied
      <4>2. Kept(r)' = Kept(r)
        BY <1>1 DEF Kept
      <4>3. UNCHANGED arr_data /\ pc'[t] = "erase"
        BY <1>1, <1>6, <3>2
      <4> QED
        BY <1>0, <1>1, <1>7, <1>8, <4>1, <4>2, <4>3 DEF RewriteInv, TaskInv
    <3> QED
      BY <3>1, <3>2
  <2>3. AddInv(t)'
    BY <1>0, <1>1, <1>6 DEF AddInv, TaskInv
  <2>4. EraseInv(t)'
    BY <1>6 DEF EraseInv
  <2> QED
    BY <2>1, <2>2, <2>3, <2>4 DEF TaskInv
<1>10. \A s \in Task : TaskInv(s)'
  BY <1>0, <1>1, <1>2, <1>6, <1>8, <1>9, OwnStep
<1>11. FlashInv'
  <2> SUFFICES ASSUME flash # NoFlash PROVE FlashInv'
    BY <1>1 DEF FlashInv
  <2>1. flash.owner \in Task \ {t}
    BY <1>1 DEF DataInv, AnswerInv, ChainInv, Waiting
  <2> QED
    BY <1>0, <1>1, <1>6, <2>1 DEF StoreInv, FlashInv
<1>12. PromisesKept'
  BY <1>0, <1>1, <1>8 DEF StoreInv, PromisesKept
<1> QED
  BY <1>8, <1>5, <1>10, <1>11, <1>12 DEF StoreInv

\* A task that starts an operation finds none in progress.
LEMMA NoneInProgress ==
  ASSUME AnswerInv, NEW t \in Task, pc[t] \in {"erase", "write"}
  PROVE  flash = NoFlash
BY DEF AnswerInv, ChainInv, Flashing, Waiting

\* An erase is started with the page still whole and its copy in arr_data.
LEMMA DataStartErase ==
  ASSUME DataInv, LockInv', NEW t \in Task, StartErase(t)
  PROVE  StoreInv' /\ StoredRecs' = StoredRecs
<1> DEFINE r == req[t]
<1>0. LockInv /\ StoreInv /\ StoreTypes /\ TaskInv(t) /\ AnswerInv
  BY DEF DataInv, StoreInv, AnswerInv
<1>1. pc[t] = "erase" /\ flash = NoFlash
  BY <1>0, NoneInProgress DEF StartErase
<1>2. /\ flash' = [kind |-> "erase", recs |-> <<>>, pad |-> FALSE, owner |-> t, live |-> TRUE]
      /\ pc' = [pc EXCEPT ![t] = "erase_wait"]
      /\ promised' = IF r.op = "erase" THEN [u \in Uid |-> NoVal] ELSE promised
      /\ UNCHANGED <<usage, page, req, arr_data, budget>>
  BY <1>1 DEF StartErase
<1>3. /\ pc[t] \in Holding
      /\ ~Rewriting(t)
  BY <1>1 DEF Holding, Labels, Rewriting
<1>4. /\ pc'[t] = "erase_wait"
      /\ flash'.kind = "erase"
      /\ flash'.owner = t
      /\ flash' # NoFlash
      /\ \A s \in Task \ {t} : pc'[s] = pc[s]
  BY <1>0, <1>2 DEF LockInv, LockTypes, NoFlash
<1>5. ~Rewriting(t)'
  BY <1>4 DEF Rewriting
<1>6. StoredRecs' = StoredRecs
  <2>1. \A s \in Task : ~Rewriting(s)
    BY <1>0, <1>3, OthersWait
  <2>2. \A s \in Task : ~Rewriting(s)'
    BY <1>0, <1>3, <1>4, <1>5, OthersWait DEF Rewriting
  <2> QED
    BY <1>0, <1>2, <2>1, <2>2, Quiet
<1>7. TaskInv(t)'
  <2>1. CallInv(t)'
    BY <1>0, <1>1, <1>2, <1>4 DEF TaskInv, CallInv, Flashing, Waiting
  <2>2. RewriteInv(t)'
    <3>1. Copied(t)' => Copied(t)
      BY <1>1, <1>2 DEF Copied
    <3>2. Kept(r)' = Kept(r)
      BY <1>2 DEF Kept
    <3>3. r.op \in Rewrites => UNCHANGED promised
      BY <1>2 DEF Rewrites
    <3>4. RewriteInv(t) /\ ~(pc'[t] \in {"take", "build"})
      BY <1>0, <1>4 DEF TaskInv
    <3>5. Copied(t)' => r.op \in Rewrites
      BY <1>2 DEF Copied
    <3> QED
      BY <1>2, <1>4, <1>5, <1>6, <3>1, <3>2, <3>3, <3>4, <3>5 DEF RewriteInv
  <2>3. AddInv(t)'
    BY <1>4 DEF AddInv
  <2>4. EraseInv(t)'
    BY <1>2 DEF EraseInv
  <2> QED
    BY <2>1, <2>2, <2>3, <2>4 DEF TaskInv
<1>8. \A s \in Task : TaskInv(s)'
  BY <1>0, <1>2, <1>3, <1>4, <1>6, <1>7, OwnStep
<1>9. FlashInv'
  BY <1>4 DEF FlashInv
<1>10. PromisesKept'
  BY <1>0, <1>2, <1>6 DEF StoreInv, PromisesKept
<1>11. StoreTypes'
  BY <1>0, <1>2 DEF StoreTypes
<1> QED
  BY <1>6, <1>8, <1>9, <1>10, <1>11 DEF StoreInv

\* A call that returns with no operation in progress leaves the page as what is
\* stored; what it promises is stored.
LEMMA DataReturn ==
  ASSUME DataInv, LockInv', NEW t \in Task, NEW e, Return(t, e),
         flash = NoFlash, pc[t] \in Flashing,
         UNCHANGED <<usage, page, req, budget>>,
         Rewriting(t) => page.recs = arr_data[t].recs,
         req[t].op \in {"add", "modify"} /\ Returned(req[t].op, e) = "nrf_OK"
            => Stored(page.recs, req[t].uid) = req[t].val
  PROVE  StoreInv' /\ StoredRecs' = StoredRecs
<1> DEFINE r == req[t]
<1>0. LockInv /\ StoreInv /\ StoreTypes /\ TaskInv(t) /\ AnswerInv
  BY DEF DataInv, StoreInv, AnswerInv
<1>1. /\ pc' = [pc EXCEPT ![t] = "idle"]
      /\ promised' = Promise(r, Returned(r.op, e))
      /\ flash' = NoFlash
      /\ arr_data' = [arr_data EXCEPT ![t] = EmptyBuffer]
  BY DEF Return
<1>2. pc[t] \in Holding
  BY DEF Flashing, Waiting, Holding, Labels
<1>3. /\ pc'[t] = "idle"
      /\ \A s \in Task \ {t} : pc'[s] = pc[s]
  BY <1>0, <1>1 DEF LockInv, LockTypes
<1>4. StoredRecs = page.recs
  <2>1. \A s \in Task \ {t} : ~Rewriting(s)
    BY <1>0, <1>2, OthersWait
  <2>2. CASE Rewriting(t)
    BY <1>0, <2>2, StoredRecsIs DEF HeldRecs
  <2>3. CASE ~Rewriting(t)
    BY <1>0, <2>1, <2>3, StoredRecsIs DEF HeldRecs
  <2> QED
    BY <2>2, <2>3
<1>5. StoredRecs' = page.recs
  <2>1. \A s \in Task : ~Rewriting(s)'
    BY <1>0, <1>2, <1>3, OthersWait DEF Rewriting
  <2>2. LockInv' => HeldRecs'
    BY StoredRecsIs, PTL
  <2> QED
    BY <2>1, <2>2 DEF HeldRecs
<1>6. TaskInv(t)'
  BY <1>3 DEF TaskInv, CallInv, RewriteInv, AddInv, EraseInv, Copied, Rewriting
<1>7. \A s \in Task : TaskInv(s)'
  BY <1>0, <1>2, <1>3, <1>4, <1>5, <1>6, OwnStep
<1>8. PromisesKept'
  <2>1. \A u \in Uid : promised[u] # NoVal => Stored(page.recs, u) = promised[u]
    BY <1>0, <1>4 DEF StoreInv, PromisesKept
  <2>2. r \in Request /\ promised \in [Uid -> Val \cup {NoVal}]
    <3>1. pc[t] # "idle"
      BY <1>2 DEF Holding
    <3> QED
      BY <1>0, <3>1, InCall DEF StoreTypes
  <2>3. CASE UNCHANGED promised
    BY <1>5, <2>1, <2>3 DEF PromisesKept
  <2>4. CASE promised' = [promised EXCEPT ![r.uid] = r.val] /\ Stored(page.recs, r.uid) = r.val
    BY <1>5, <2>1, <2>2, <2>4 DEF PromisesKept, Request
  <2> QED
    BY <1>1, <2>3, <2>4 DEF Promise
<1>9. StoreTypes'
  <2>1. EmptyBuffer \in [recs : Seq(Record), len : Nat]
    BY DEF EmptyBuffer
  <2>2. promised' \in [Uid -> Val \cup {NoVal}]
    <3>1. pc[t] # "idle"
      BY <1>2 DEF Holding
    <3>2. r \in Request
      BY <1>0, <3>1, InCall
    <3> QED
      BY <1>0, <1>1, <3>2 DEF StoreTypes, Promise, Request
  <2> QED
    BY <1>0, <1>1, <2>1, <2>2 DEF StoreTypes
<1>10. FlashInv'
  BY <1>1 DEF FlashInv
<1> QED
  BY <1>4, <1>5, <1>7, <1>8, <1>9, <1>10 DEF StoreInv

\* A write is started with arr_data exactly as long as its records; the one of
\* a rewrite always fits the erased page, one the SoftDevice refuses was an add.
LEMMA DataStartWrite ==
  ASSUME DataInv, LockInv', PageSuffices, NEW t \in Task, StartWrite(t)
  PROVE  StoreInv' /\ StoredRecs' = StoredRecs
<1> DEFINE r == req[t]
           a == arr_data[t]
<1>0. LockInv /\ StoreInv /\ StoreTypes /\ TaskInv(t) /\ AnswerInv
  BY DEF DataInv, StoreInv, AnswerInv
<1>1. pc[t] = "write" /\ flash = NoFlash /\ UNCHANGED <<usage, page, req, budget>>
  BY <1>0, NoneInProgress DEF StartWrite
<1>2. r \in Request /\ r \in usage[t] /\ r.op \in Mutations \ {"erase"}
  BY <1>0, <1>1, InCall DEF TaskInv, CallInv, Flashing
<1>3. pc[t] \in Holding /\ pc[t] \in Flashing
  BY <1>1 DEF Flashing, Holding, Labels
<1>4. a.recs \in Seq(Record) /\ a.len = RecordWords(a.recs) /\ a.len \in Nat
  <2>1. CASE r.op = "add"
    <3>1. a = [recs |-> <<RecordOf(r)>>, len |-> Words(r)]
      BY <1>0, <1>1, <2>1 DEF TaskInv, AddInv
    <3>2. RecordOf(r) \in Record /\ <<>> \in Seq(Record)
      <4>1. r.uid \in Uid /\ r.n \in Nat /\ r.val \in Val
        BY <1>2, PageAssumption DEF Request
      <4> QED
        BY <4>1 DEF RecordOf, Record
    <3>3. <<RecordOf(r)>> = Append(<<>>, RecordOf(r)) /\ <<RecordOf(r)>> \in Seq(Record)
      BY <3>2
    <3>4. RecordWords(<<RecordOf(r)>>) = 0 + Words(RecordOf(r))
      BY <3>2, <3>3, WordsAppended, WordsCounted
    <3>5. Words(RecordOf(r)) = Words(r)
      BY DEF Words, RecordOf
    <3>6. RecordWords(<<RecordOf(r)>>) \in Nat
      BY <3>3, WordsCounted
    <3>7. Words(r) \in Nat
      <4>1. r.n \in Nat /\ Meta \in Nat
        BY <1>2, PageAssumption DEF Request
      <4> QED
        BY <4>1 DEF Words
    <3> QED
      BY <3>1, <3>3, <3>4, <3>5, <3>6, <3>7
  <2>2. CASE r.op # "add"
    <3>1. Rewriting(t)
      BY <1>1, <1>2, <2>2 DEF Rewriting, Mutations
    <3>2. Good(a.recs) /\ a.len = RecordWords(a.recs)
      BY <1>0, <3>1 DEF TaskInv, RewriteInv
    <3> QED
      BY <3>2, GoodIs, WordsCounted
  <2> QED
    BY <2>1, <2>2
<1>5. CASE WriteRefused(t)
  <2>1. Return(t, "sd_error")
    BY <1>5 DEF StartWrite
  <2>2. r.op = "add"
    <3> SUFFICES ASSUME r.op # "add" PROVE FALSE
      OBVIOUS
    <3>1. Rewriting(t)
      BY <1>1, <1>2 DEF Rewriting, Mutations
    <3>2. Good(a.recs)
      BY <1>0, <3>1 DEF TaskInv, RewriteInv
    <3>3. a.len <= PageWords
      BY <1>4, <3>2 DEF Good, PageSuffices
    <3> QED
      BY <1>1, <1>4, <1>5, <3>3, PageAssumption DEF WriteRefused
  <2>3. ~Rewriting(t) /\ Returned(r.op, "sd_error") # "nrf_OK"
    BY <2>2 DEF Rewriting, Returned, Rewrites
  <2> QED
    BY <1>1, <1>3, <2>1, <2>3, DataReturn
<1>6. CASE ~WriteRefused(t)
  <2>1. /\ flash' = [kind |-> "write", recs |-> a.recs,
                     pad |-> a.len > RecordWords(a.recs), owner |-> t, live |-> TRUE]
        /\ pc' = [pc EXCEPT ![t] = "write_wait"]
        /\ UNCHANGED <<arr_data, promised>>
    BY <1>6 DEF StartWrite
  <2>2. /\ pc'[t] = "write_wait"
        /\ flash'.kind = "write"
        /\ flash'.owner = t
        /\ flash' # NoFlash
        /\ \A s \in Task \ {t} : pc'[s] = pc[s]
    BY <1>0, <2>1 DEF LockInv, LockTypes, NoFlash
  <2>3. flash'.pad = FALSE
    <3>1. (a.len > RecordWords(a.recs)) = FALSE
      BY <1>4
    <3> QED
      BY <2>1, <3>1
  <2>4. \A s \in Task : Rewriting(s)' <=> Rewriting(s)
    <3>1. \A s \in Task \ {t} : ~Rewriting(s) /\ ~Rewriting(s)'
      BY <1>0, <1>3, <2>2, OthersWait DEF Rewriting
    <3>2. Rewriting(t)' <=> Rewriting(t)
      BY <1>1, <2>2 DEF Rewriting
    <3> QED
      BY <3>1, <3>2
  <2>5. StoredRecs' = StoredRecs
    BY <1>0, <1>1, <2>1, <2>4, Quiet
  <2>6. TaskInv(t)'
    <3>1. CallInv(t)'
      BY <1>0, <1>1, <1>2, <2>2 DEF TaskInv, CallInv, Flashing, Waiting
    <3>2. RewriteInv(t)'
      <4>1. ~Copied(t)'
        BY <2>2 DEF Copied
      <4> QED
        BY <1>0, <1>1, <2>1, <2>2, <2>4, <4>1 DEF RewriteInv, TaskInv
    <3>3. AddInv(t)'
      BY <1>0, <1>1, <2>1, <2>2 DEF AddInv, TaskInv
    <3>4. EraseInv(t)'
      BY <2>2 DEF EraseInv
    <3> QED
      BY <3>1, <3>2, <3>3, <3>4 DEF TaskInv
  <2>7. \A s \in Task : TaskInv(s)'
    BY <1>0, <1>1, <1>3, <2>2, <2>5, <2>6, OwnStep
  <2>8. FlashInv'
    BY <2>2, <2>3 DEF FlashInv
  <2>9. PromisesKept'
    BY <1>0, <2>1, <2>5 DEF StoreInv, PromisesKept
  <2>10. StoreTypes'
    BY <1>0, <1>1, <2>1 DEF StoreTypes
  <2> QED
    BY <2>5, <2>7, <2>8, <2>9, <2>10 DEF StoreInv
<1> QED
  BY <1>5, <1>6

\* A wait that is answered has its operation done.
LEMMA AnsweredDone ==
  ASSUME AnswerInv, NEW t \in Task, Answered(t)
  PROVE  flash = NoFlash
BY DEF AnswerInv, ChainInv, Answered

\* After its erase a rewrite goes on to write, and an erase returns.
LEMMA DataEraseAnswer ==
  ASSUME DataInv, LockInv', NEW t \in Task, EraseAnswer(t)
  PROVE  StoreInv' /\ StoredRecs' = StoredRecs
<1> DEFINE r == req[t]
           a == arr_data[t]
<1>0. LockInv /\ StoreInv /\ StoreTypes /\ TaskInv(t) /\ AnswerInv
  BY DEF DataInv, StoreInv, AnswerInv
<1>1. pc[t] = "erase_wait" /\ flash = NoFlash /\ UNCHANGED <<usage, page, req, budget>>
  BY <1>0, AnsweredDone DEF EraseAnswer
<1>2. r \in Request /\ r \in usage[t] /\ r.op \in Mutations \ {"add"}
  BY <1>0, <1>1, InCall DEF TaskInv, CallInv, Flashing, Waiting
<1>3. pc[t] \in Holding /\ pc[t] \in Flashing
  BY <1>1 DEF Flashing, Waiting, Holding, Labels
<1>4. CASE r.op = "erase" \/ (r.op = "delete" /\ a.len = 0)
  <2>1. Return(t, notify[t])
    BY <1>4 DEF EraseAnswer
  <2>2. r.op \notin {"add", "modify"}
    BY <1>4
  <2>3. Rewriting(t) => page.recs = a.recs
    <3> SUFFICES ASSUME Rewriting(t) PROVE page.recs = a.recs
      OBVIOUS
    <3>1. r.op = "delete" /\ a.len = 0
      BY <1>4 DEF Rewriting, Rewrites
    <3>2. page.recs = <<>> /\ Good(a.recs) /\ a.len = RecordWords(a.recs)
      BY <1>0, <1>1 DEF TaskInv, RewriteInv
    <3>3. a.recs = <<>>
      BY <3>1, <3>2, GoodIs, WordsCounted
    <3> QED
      BY <3>2, <3>3
  <2> QED
    BY <1>1, <1>3, <2>1, <2>2, <2>3, DataReturn
<1>5. CASE ~(r.op = "erase" \/ (r.op = "delete" /\ a.len = 0))
  <2>1. /\ pc' = [pc EXCEPT ![t] = "write"]
        /\ UNCHANGED <<flash, arr_data, promised>>
    BY <1>5 DEF EraseAnswer
  <2>2. /\ pc'[t] = "write"
        /\ \A s \in Task \ {t} : pc'[s] = pc[s]
    BY <1>0, <2>1 DEF LockInv, LockTypes
  <2>3. r.op \in Rewrites
    BY <1>2, <1>5 DEF Mutations, Rewrites
  <2>4. \A s \in Task : Rewriting(s)' <=> Rewriting(s)
    <3>1. \A s \in Task \ {t} : ~Rewriting(s) /\ ~Rewriting(s)'
      BY <1>0, <1>3, <2>2, OthersWait DEF Rewriting
    <3>2. Rewriting(t)' /\ Rewriting(t)
      BY <1>1, <2>2, <2>3 DEF Rewriting
    <3> QED
      BY <3>1, <3>2
  <2>5. StoredRecs' = StoredRecs
    BY <1>0, <1>1, <2>1, <2>4, Quiet
  <2>6. TaskInv(t)'
    <3>1. CallInv(t)'
      BY <1>1, <1>2, <2>2, <2>3 DEF CallInv, Flashing, Waiting, Rewrites
    <3>2. RewriteInv(t)'
      <4>1. ~Copied(t)' /\ Rewriting(t)
        BY <1>1, <2>2, <2>3 DEF Copied, Rewriting
      <4> QED
        BY <1>0, <1>1, <2>1, <2>2, <4>1 DEF RewriteInv, TaskInv
    <3>3. AddInv(t)' /\ EraseInv(t)'
      BY <1>1, <2>2, <2>3 DEF AddInv, EraseInv, Rewrites
    <3> QED
      BY <3>1, <3>2, <3>3 DEF TaskInv
  <2>7. \A s \in Task : TaskInv(s)'
    BY <1>0, <1>1, <1>3, <2>2, <2>5, <2>6, OwnStep
  <2>8. FlashInv' /\ PromisesKept' /\ StoreTypes'
    BY <1>0, <1>1, <2>1, <2>5 DEF StoreInv, FlashInv, PromisesKept, StoreTypes
  <2> QED
    BY <2>5, <2>7, <2>8 DEF StoreInv
<1> QED
  BY <1>4, <1>5

\* After its write a call promises what is stored.
LEMMA DataWriteAnswer ==
  ASSUME DataInv, LockInv', NEW t \in Task, WriteAnswer(t)
  PROVE  StoreInv' /\ StoredRecs' = StoredRecs
<1> DEFINE r == req[t]
<1>0. StoreTypes /\ TaskInv(t) /\ AnswerInv
  BY DEF DataInv, StoreInv
<1>1. /\ pc[t] = "write_wait"
      /\ flash = NoFlash
      /\ UNCHANGED <<usage, page, req, budget>>
      /\ Return(t, notify[t])
  BY <1>0, AnsweredDone DEF WriteAnswer
<1>2. pc[t] \in Flashing
  BY <1>1 DEF Flashing, Waiting
<1>3. Rewriting(t) => page.recs = arr_data[t].recs
  BY <1>0, <1>1 DEF TaskInv, RewriteInv
<1>4. ASSUME r.op \in {"add", "modify"} PROVE Stored(page.recs, r.uid) = r.val
  <2>1. CASE r.op = "add"
    BY <1>0, <1>1, <2>1 DEF TaskInv, AddInv
  <2>2. CASE r.op = "modify"
    <3>1. Rewriting(t)
      BY <1>1, <2>2 DEF Rewriting, Rewrites
    <3> QED
      BY <1>0, <1>3, <2>2, <3>1 DEF TaskInv, RewriteInv
  <2> QED
    BY <1>4, <2>1, <2>2
<1> QED
  BY <1>1, <1>2, <1>3, <1>4, DataReturn

\* Where what is stored changes, and how: a completed erase puts the copy of a
\* rewrite, or nothing, in the page's place; a completed write stores an add.
LEMMA FlashChanges ==
  ASSUME DataInv, LockInv', PageSuffices, FlashSuccess, NEW t \in Task, t = flash.owner
  PROVE  LET r == req[t] IN
         /\ r \in Request
         /\ r \in usage[t]
         /\ r.op \in Mutations
         /\ pc[t] \in Holding
         /\ page' = [recs |-> page'.recs, tail |-> "clean"]
         /\ Good(page'.recs)
         /\ r.op = "erase" =>
               /\ page'.recs = <<>>
               /\ StoredRecs' = <<>>
               /\ \A u \in Uid : promised[u] = NoVal
         /\ r.op \in Rewrites /\ flash.kind = "erase" =>
               /\ Copied(t)
               /\ page'.recs = <<>>
               /\ StoredRecs = page.recs
               /\ Holds(page.recs, r.uid)
               /\ StoredRecs' = Kept(r)
         /\ r.op \in Rewrites /\ flash.kind = "write" =>
               /\ Rewriting(t)
               /\ pc[t] = "write_wait"
               /\ page'.recs = arr_data[t].recs
               /\ StoredRecs' = StoredRecs
         /\ r.op = "add" =>
               /\ pc[t] = "write_wait"
               /\ StoredRecs = page.recs
               /\ ~Holds(page.recs, r.uid)
               /\ page'.recs = Append(page.recs, RecordOf(r))
               /\ StoredRecs' = page'.recs
<1> DEFINE r == req[t]
<1>0. LockInv /\ StoreInv /\ StoreTypes /\ AnswerInv
  BY DEF DataInv, StoreInv, AnswerInv
<1>1. /\ flash # NoFlash
      /\ flash' = NoFlash
      /\ UNCHANGED <<pc, req, arr_data>>
      /\ page' = IF flash.kind = "erase" THEN ErasedPage
                 ELSE Written(page, flash.recs, flash.pad)
  BY <1>0 DEF FlashSuccess, AnswerInv, ChainInv
<1>2. TaskInv(t)
  BY <1>0 DEF StoreInv
<1>3. \/ flash.kind = "erase" /\ pc[t] = "erase_wait"
      \/ flash.kind = "write" /\ pc[t] = "write_wait"
  BY <1>0, <1>1 DEF StoreInv, FlashInv
<1>4. pc[t] \in Holding /\ pc[t] \in Flashing /\ pc[t] # "idle"
  BY <1>3 DEF Flashing, Waiting, Holding, Labels
<1>5. r \in Request /\ r \in usage[t] /\ r.op \in Mutations
  BY <1>0, <1>2, <1>4, InCall DEF TaskInv, CallInv
<1>6. \A s \in Task \ {t} : ~Rewriting(s) /\ ~Rewriting(s)'
  BY <1>0, <1>1, <1>2, <1>4, OthersWait DEF Rewriting
<1>7. HeldRecs /\ HeldRecs'
  BY <1>0, StoredRecsIs, PTL
<1>8. "erase" \notin Rewrites /\ "add" \notin Rewrites
  BY DEF Rewrites
<1>9. CASE flash.kind = "erase"
  <2>1. page' = [recs |-> <<>>, tail |-> "clean"] /\ pc[t] = "erase_wait"
    BY <1>1, <1>3, <1>9 DEF ErasedPage
  <2>2. ~Rewriting(t) /\ r.op # "add"
    BY <1>1, <1>2, <2>1 DEF Rewriting, TaskInv, CallInv
  <2>3. StoredRecs = page.recs
    BY <1>6, <1>7, <2>2 DEF HeldRecs
  <2>4. Good(<<>>)
    BY DEF Good, Unique
  <2>5. CASE r.op = "erase"
    <3>1. ~Rewriting(t)'
      BY <1>1, <1>8, <2>5 DEF Rewriting
    <3>2. StoredRecs' = <<>>
      BY <1>6, <1>7, <2>1, <3>1 DEF HeldRecs
    <3>3. \A u \in Uid : promised[u] = NoVal
      BY <1>2, <2>1, <2>5 DEF TaskInv, EraseInv
    <3> QED
      BY <1>2, <1>4, <1>5, <1>8, <2>1, <2>4, <2>5, <3>2, <3>3
  <2>6. CASE r.op \in Rewrites
    <3>1. Copied(t)
      BY <1>1, <2>1, <2>6 DEF Copied
    <3>2. arr_data[t].recs = Kept(r) /\ Holds(StoredRecs, r.uid)
      BY <1>2, <3>1 DEF TaskInv, RewriteInv
    <3>3. Rewriting(t)'
      BY <1>1, <2>1, <2>6 DEF Rewriting
    <3>4. StoredRecs' = Kept(r)
      BY <1>1, <1>2, <1>7, <3>2, <3>3 DEF HeldRecs
    <3> QED
      BY <1>2, <1>4, <1>5, <1>8, <1>9, <2>1, <2>3, <2>4, <2>6, <3>1, <3>2, <3>4
  <2> QED
    BY <1>5, <2>2, <2>5, <2>6 DEF Mutations
<1>10. CASE flash.kind = "write"
  <2>1. pc[t] = "write_wait" /\ flash.recs = arr_data[t].recs /\ flash.pad = FALSE
    BY <1>0, <1>1, <1>3, <1>10 DEF AnswerInv, ChainInv, StoreInv, FlashInv
  <2>2. page' = [recs |-> page.recs \o arr_data[t].recs, tail |-> "clean"]
    <3>1. page.tail = "clean"
      BY <1>0 DEF StoreTypes
    <3> QED
      BY <1>1, <1>10, <2>1, <3>1 DEF Written
  <2>3. r.op # "erase"
    BY <1>2, <2>1 DEF TaskInv, CallInv
  <2>4. CASE r.op = "add"
    <3>1. ~Holds(page.recs, r.uid) /\ arr_data[t].recs = <<RecordOf(r)>>
      BY <1>1, <1>2, <2>1, <2>4 DEF TaskInv, AddInv
    <3>2. RecordOf(r) \in GoodRecord /\ RecordOf(r).uid = r.uid /\ Good(page.recs)
      BY <1>0, <1>5 DEF RecordOf, Request, GoodRecord, StoreTypes
    <3>3. page'.recs = Append(page.recs, RecordOf(r))
      <4>1. page.recs \in Seq(GoodRecord)
        BY <3>2 DEF Good
      <4> QED
        BY <2>2, <3>1, <3>2, <4>1
    <3>4. Good(page'.recs)
      BY <3>1, <3>2, <3>3, AppendGood
    <3>5. ~Rewriting(t) /\ ~Rewriting(t)'
      BY <1>1, <1>8, <2>4 DEF Rewriting
    <3>6. StoredRecs = page.recs /\ StoredRecs' = page'.recs
      BY <1>6, <1>7, <3>5 DEF HeldRecs
    <3> QED
      BY <1>2, <1>4, <1>5, <1>8, <2>1, <2>2, <2>4, <3>1, <3>3, <3>4, <3>6
  <2>5. CASE r.op \in Rewrites
    <3>1. Rewriting(t) /\ Rewriting(t)'
      BY <1>1, <2>1, <2>5 DEF Rewriting
    <3>2. page.recs = <<>> /\ Good(arr_data[t].recs)
      BY <1>1, <1>2, <3>1 DEF TaskInv, RewriteInv
    <3>3. page'.recs = arr_data[t].recs
      <4>1. arr_data[t].recs \in Seq(GoodRecord)
        BY <3>2 DEF Good
      <4> QED
        BY <2>2, <3>2, <4>1
    <3>4. StoredRecs' = StoredRecs
      BY <1>1, <1>2, <1>7, <3>1 DEF HeldRecs
    <3> QED
      BY <1>2, <1>4, <1>5, <1>8, <1>10, <2>1, <2>2, <2>5, <3>1, <3>2, <3>3, <3>4
  <2> QED
    BY <1>5, <2>3, <2>4, <2>5 DEF Mutations
<1> QED
  BY <1>3, <1>9, <1>10

\* The end of an operation keeps what is promised, and takes no uid from under
\* another task.
LEMMA DataFlash ==
  ASSUME DataInv, LockInv', PageSuffices, WritersApart, FlashSuccess
  PROVE  StoreInv'
<1>0. LockInv /\ StoreInv /\ StoreTypes /\ AnswerInv
  BY DEF DataInv, StoreInv, AnswerInv
<1>1. PICK t \in Task : t = flash.owner
  BY <1>0 DEF FlashSuccess, AnswerInv, ChainInv
<1> DEFINE r == req[t]
<1>2. /\ r \in Request
      /\ r \in usage[t]
      /\ r.op \in Mutations
      /\ pc[t] \in Holding
      /\ page' = [recs |-> page'.recs, tail |-> "clean"]
      /\ Good(page'.recs)
  BY <1>1, FlashChanges
<1>3. r.op = "erase" => /\ page'.recs = <<>> /\ StoredRecs' = <<>>
                        /\ \A u \in Uid : promised[u] = NoVal
  BY <1>1, FlashChanges
<1>4. r.op \in Rewrites /\ flash.kind = "erase" =>
        /\ Copied(t)
        /\ page'.recs = <<>>
        /\ StoredRecs = page.recs
        /\ Holds(page.recs, r.uid)
        /\ StoredRecs' = Kept(r)
  BY <1>1, FlashChanges
<1>5. r.op \in Rewrites /\ flash.kind = "write" =>
        /\ Rewriting(t)
        /\ pc[t] = "write_wait"
        /\ page'.recs = arr_data[t].recs
        /\ StoredRecs' = StoredRecs
  BY <1>1, FlashChanges
<1>6. r.op = "add" =>
        /\ pc[t] = "write_wait"
        /\ StoredRecs = page.recs
        /\ ~Holds(page.recs, r.uid)
        /\ page'.recs = Append(page.recs, RecordOf(r))
        /\ StoredRecs' = page'.recs
  BY <1>1, FlashChanges
<1>7. /\ flash # NoFlash
      /\ flash' = NoFlash
      /\ UNCHANGED <<usage, pc, req, arr_data, promised, budget>>
  BY DEF FlashSuccess
<1>8. \/ flash.kind = "erase" /\ pc[t] = "erase_wait"
      \/ flash.kind = "write" /\ pc[t] = "write_wait"
  BY <1>0, <1>1, <1>7 DEF StoreInv, FlashInv
<1>9. Good(page.recs) /\ page.tail = "clean"
  BY <1>0 DEF StoreTypes
<1>10. r.op \in Rewrites /\ flash.kind = "erase" =>
        \A q : q # r.uid => /\ Stored(Kept(r), q) = Stored(page.recs, q)
                            /\ Holds(Kept(r), q) <=> Holds(page.recs, q)
  BY <1>2, <1>4, <1>9, KeptGood
<1>11. r.op = "add" =>
        /\ Stored(page'.recs, r.uid) = r.val
        /\ \A q : q # r.uid => Stored(page'.recs, q) = Stored(page.recs, q)
  <2> SUFFICES ASSUME r.op = "add"
               PROVE  /\ Stored(page'.recs, r.uid) = r.val
                      /\ \A q : q # r.uid => Stored(page'.recs, q) = Stored(page.recs, q)
    OBVIOUS
  <2>1. RecordOf(r) \in GoodRecord /\ RecordOf(r).uid = r.uid /\ RecordOf(r).val = r.val
    BY <1>2 DEF RecordOf, Request, GoodRecord
  <2>2. ~Holds(page.recs, RecordOf(r).uid) /\ page'.recs = Append(page.recs, RecordOf(r))
    BY <1>6, <2>1
  <2> HIDE DEF r
  <2>3. /\ Stored(Append(page.recs, RecordOf(r)), RecordOf(r).uid) = RecordOf(r).val
        /\ \A q : q # RecordOf(r).uid =>
              Stored(Append(page.recs, RecordOf(r)), q) = Stored(page.recs, q)
    BY <1>9, <2>1, <2>2, AppendGood
  <2> QED
    BY <2>1, <2>2, <2>3
<1>12. r.op = "add" \/ r.op = "erase" \/ r.op \in Rewrites
  BY <1>2 DEF Mutations
<1>13. TaskInv(t) /\ r.uid \in Uid
  BY <1>0, <1>2 DEF StoreInv, Request
<1>14. ASSUME NEW s \in Task, s # t PROVE TaskInv(s)'
  <2>1. pc[s] \in {"idle", "take"} /\ TaskInv(s)
    BY <1>0, <1>2, <1>14, OthersWait DEF StoreInv
  <2>2. pc[s] = "take" => req[s] \in usage[s]
    BY <2>1 DEF TaskInv, CallInv
  <2>3. pc[s] = "take" /\ req[s].op \in Mutations =>
           r.op \in Rewrites /\ req[s].op \in Rewrites /\ req[s].uid # r.uid
    BY <1>0, <1>2, <1>14, <2>2 DEF WritersApart, StoreTypes
  <2>4. req[s].op \in Rewrites /\ pc[s] = "take" /\ Holds(StoredRecs, req[s].uid)
           => Holds(StoredRecs', req[s].uid)
    BY <1>4, <1>5, <1>8, <1>10, <2>3 DEF Mutations
  <2>5. ~(req[s].op = "add" /\ pc[s] = "take")
    BY <2>3 DEF Mutations, Rewrites
  <2> QED
    BY <1>7, <2>1, <2>4, <2>5, Bystander
<1>15. TaskInv(t)'
  <2>1. CallInv(t)'
    BY <1>7, <1>13 DEF TaskInv, CallInv
  <2>2. RewriteInv(t)'
    <3>1. ~Copied(t)' /\ ~(pc'[t] \in {"take", "build"})
      BY <1>7, <1>8 DEF Copied
    <3>2. CASE r.op \notin Rewrites
      <4>1. ~Rewriting(t)'
        BY <1>7, <3>2 DEF Rewriting
      <4> QED
        BY <1>3, <1>7, <3>1, <4>1 DEF RewriteInv
    <3>3. CASE r.op \in Rewrites
      <4>1. RewriteInv(t) /\ (Copied(t) \/ Rewriting(t))
        BY <1>4, <1>5, <1>8, <1>13, <3>3 DEF TaskInv
      <4>2. page'.recs = IF pc[t] = "write_wait" THEN arr_data[t].recs ELSE <<>>
        BY <1>4, <1>5, <1>8, <3>3
      <4> QED
        BY <1>7, <3>1, <4>1, <4>2 DEF RewriteInv
    <3> QED
      BY <3>2, <3>3
  <2>3. AddInv(t)'
    BY <1>6, <1>7, <1>11, <1>13 DEF TaskInv, AddInv
  <2>4. EraseInv(t)'
    BY <1>3, <1>7 DEF EraseInv
  <2> QED
    BY <2>1, <2>2, <2>3, <2>4 DEF TaskInv
<1>16. PromisesKept'
  <2> SUFFICES ASSUME NEW u \in Uid, promised[u] # NoVal
               PROVE  Stored(StoredRecs', u) = promised[u]
    BY <1>7 DEF PromisesKept
  <2>1. Stored(StoredRecs, u) = promised[u]
    BY <1>0 DEF StoreInv, PromisesKept
  <2>2. CASE r.op = "erase"
    BY <1>3, <2>2
  <2>3. CASE r.op \in Rewrites
    <3>1. CASE flash.kind = "erase"
      <4>1. promised[r.uid] = NoVal
        BY <1>4, <1>13, <2>3, <3>1 DEF TaskInv, RewriteInv
      <4> QED
        BY <1>4, <1>10, <2>1, <2>3, <3>1, <4>1
    <3>2. CASE flash.kind = "write"
      BY <1>5, <2>1, <2>3, <3>2
    <3> QED
      BY <1>8, <3>1, <3>2
  <2>4. CASE r.op = "add"
    <3>1. u # r.uid
      BY <1>6, <1>9, <2>1, <2>4, GoodIs
    <3> QED
      BY <1>6, <1>11, <2>1, <2>4, <3>1
  <2> QED
    BY <1>12, <2>2, <2>3, <2>4
<1>17. StoreTypes' /\ FlashInv'
  BY <1>0, <1>2, <1>7 DEF StoreTypes, FlashInv
<1> QED
  BY <1>14, <1>15, <1>16, <1>17 DEF StoreInv

\* Steps that touch none of what the invariant is about.
LEMMA DataIdle ==
  ASSUME DataInv, LockInv',
         UNCHANGED <<usage, page, flash, pc, req, arr_data, promised, budget>>
  PROVE  StoreInv' /\ StoredRecs' = StoredRecs
<1>0. LockInv /\ StoreInv
  BY DEF DataInv, AnswerInv
<1>1. \A s \in Task : (Rewriting(s)' <=> Rewriting(s)) /\ (Copied(s)' <=> Copied(s))
  BY DEF Rewriting, Copied
<1>2. StoredRecs' = StoredRecs
  BY <1>0, <1>1, Quiet
<1>3. ASSUME NEW s \in Task PROVE TaskInv(s)'
  <2>1. TaskInv(s)
    BY <1>0 DEF StoreInv
  <2>2. Kept(req[s])' = Kept(req[s])
    BY DEF Kept
  <2>3. RewriteInv(s)'
    BY <1>1, <1>2, <2>1, <2>2 DEF TaskInv, RewriteInv
  <2>4. CallInv(s)' /\ AddInv(s)' /\ EraseInv(s)'
    BY <2>1 DEF TaskInv, CallInv, AddInv, EraseInv
  <2> QED
    BY <2>3, <2>4 DEF TaskInv
<1>4. StoreTypes' /\ FlashInv' /\ PromisesKept'
  BY <1>0, <1>2 DEF StoreInv, StoreTypes, FlashInv, PromisesKept
<1> QED
  BY <1>2, <1>3, <1>4 DEF StoreInv

\* Every step keeps the invariant, and only a completed operation changes the store.
LEMMA DataNext ==
  ASSUME FailureFree, WritersApart, PageSuffices, DataInv, [Next]_vars
  PROVE  DataInv' /\ (FlashSuccess \/ StoredRecs' = StoredRecs)
<1>0. LockInv /\ StoreInv /\ StoreTypes /\ AnswerInv
  BY DEF DataInv, StoreInv, AnswerInv
<1>1. LockInv'
  BY <1>0, LockNext
<1>2. StoreInv' /\ (FlashSuccess \/ StoredRecs' = StoredRecs)
  <2>1. CASE nvs_flash_init \/ nrf_soc_event_handler \/ UNCHANGED vars
    BY <1>1, <2>1, DataIdle DEF nvs_flash_init, nrf_soc_event_handler, vars
  <2>2. ASSUME NEW t \in Task, Call(t) PROVE StoreInv' /\ StoredRecs' = StoredRecs
    BY <1>1, <2>2, DataCall
  <2>3. ASSUME NEW t \in Task, TaskStep(t) PROVE StoreInv' /\ StoredRecs' = StoredRecs
    BY <1>1, <2>3, DataPcSteps, DataBuild, DataHandle, DataStartErase, DataStartWrite,
       DataEraseAnswer, DataWriteAnswer DEF TaskStep
  <2>4. ASSUME NEW t \in Task, NotifyTimeout(t) PROVE FALSE
    BY <1>0, <2>4 DEF NotifyTimeout, StoreTypes
  <2>5. CASE FlashSuccess
    BY <1>1, <2>5, DataFlash
  <2>6. CASE FlashError \/ PowerLoss
    BY <1>0, <2>6 DEF FlashError, PowerLoss, StoreTypes
  <2> QED
    BY <2>1, <2>2, <2>3, <2>4, <2>5, <2>6 DEF Next
<1>3. BudgetInv /\ NoneExpired'
  BY <1>0, <1>2 DEF StoreInv, StoreTypes, BudgetInv, NoneExpired, FailureFree
<1>4. AnswerInv'
  BY <1>0, <1>3, AnswerNext
<1> QED
  BY <1>2, <1>4 DEF DataInv

\* An empty RAM and the records of an earlier boot satisfy the invariant.
LEMMA DataInit ==
  ASSUME FailureFree, PageSuffices, Init
  PROVE  DataInv
<1>1. AnswerInv
  BY AnswerInit
<1>2. /\ page = [recs |-> StoredBefore, tail |-> "clean"]
      /\ \A t \in Task : pc[t] = "idle"
      /\ flash = NoFlash
      /\ promised = [u \in Uid |-> Stored(StoredBefore, u)]
  BY DEF Init
<1>3. Good(StoredBefore)
  BY NvsAssumption DEF Good, GoodRecord, PageSuffices
<1>4. StoredRecs = page.recs
  <2>1. \A t \in Task : ~Rewriting(t)
    BY <1>2 DEF Rewriting
  <2> QED
    BY <1>1, <2>1, StoredRecsIs DEF AnswerInv, HeldRecs
<1>5. PromisesKept
  BY <1>2, <1>4 DEF PromisesKept
<1>6. \A t \in Task : TaskInv(t)
  BY <1>2 DEF TaskInv, CallInv, RewriteInv, AddInv, EraseInv, Copied, Rewriting
<1>7. FlashInv
  BY <1>2 DEF FlashInv
<1>8. StoreTypes
  <2>1. EmptyBuffer \in [recs : Seq(Record), len : Nat]
    BY DEF EmptyBuffer
  <2>2. \A u \in Uid : Stored(StoredBefore, u) \in Val \cup {NoVal}
    <3> SUFFICES ASSUME NEW u \in Uid PROVE Stored(StoredBefore, u) \in Val \cup {NoVal}
      OBVIOUS
    <3>1. CASE Holds(StoredBefore, u)
      <4>1. PICK i \in DOMAIN StoredBefore : StoredBefore[i].uid = u
        BY <3>1 DEF Holds
      <4> QED
        BY <1>3, <4>1, GoodIs DEF GoodRecord
    <3>2. CASE ~Holds(StoredBefore, u)
      BY <1>3, <3>2, GoodIs
    <3> QED
      BY <3>1, <3>2
  <2> QED
    <3>1. page = [recs |-> page.recs, tail |-> "clean"] /\ Good(page.recs)
      BY <1>2, <1>3
    <3>2. usage \in Usages /\ req = [t \in Task |-> req[t]]
      BY DEF Init
    <3>3. arr_data \in [Task -> [recs : Seq(Record), len : Nat]]
      BY <2>1 DEF Init
    <3>4. promised \in [Uid -> Val \cup {NoVal}]
      BY <1>2, <2>2
    <3>5. budget = [error |-> 0, timeout |-> 0, power |-> 0]
      BY DEF Init, FailureFree
    <3> QED
      BY <3>1, <3>2, <3>3, <3>4, <3>5 DEF StoreTypes
<1> QED
  BY <1>1, <1>5, <1>6, <1>7, <1>8 DEF DataInv, StoreInv

(***************************************************************************)
(* The use of the store the theorems are about.                            *)
(***************************************************************************)
OrderlyUse == FailureFree /\ WritersApart /\ PageSuffices

\* The invariant holds of every reachable state.
LEMMA DataAlways == OrderlyUse => (Spec => []DataInv)
<1> SUFFICES ASSUME OrderlyUse PROVE Spec => []DataInv
  OBVIOUS
<1>1. Init => DataInv
  BY DataInit DEF OrderlyUse
<1>2. DataInv /\ [Next]_vars => DataInv'
  BY DataNext DEF OrderlyUse
<1> QED
  BY <1>1, <1>2, PTL DEF Spec

\* In an orderly use no two records of the page get the same uid, through any
\* interleaving of the calls: nvs_add_data's check before the mutex is enough.
THEOREM UidsStayUnique == OrderlyUse => (Spec => []UniqueUids)
<1>1. DataInv => UniqueUids
  BY DEF DataInv, StoreInv, StoreTypes, Good, Unique, UniqueUids
<1> QED
  BY <1>1, DataAlways, PTL

\* In an orderly use the copy delete and modify make of the page never runs over
\* arr_data, whose length they compute from the same page before.
THEOREM CopiesFit == OrderlyUse => (Spec => []BufferFits)
<1>1. DataInv => BufferFits
  BY DEF DataInv, StoreInv, TaskInv, CallInv, BufferFits
<1> QED
  BY <1>1, DataAlways, PTL

\* In an orderly use what add and modify returned nrf_OK for is found again, also
\* while another record is rewritten by way of an erased page.
THEOREM PromisesAreKept == OrderlyUse => (Spec => []PromisesKept)
<1>1. DataInv => PromisesKept
  BY DEF DataInv, StoreInv
<1> QED
  BY <1>1, DataAlways, PTL

\* What is stored is always one record per uid, the copy of a rewrite included.
LEMMA StoredGood ==
  ASSUME DataInv
  PROVE  Good(StoredRecs) /\ \A u : Stored(StoredRecs, u) \in Val \cup {NoVal}
<1>1. HeldRecs
  BY StoredRecsIs DEF DataInv, AnswerInv
<1>2. Good(StoredRecs)
  <2>1. CASE \E t \in Task : Rewriting(t)
    BY <1>1, <2>1 DEF HeldRecs, DataInv, StoreInv, TaskInv, RewriteInv
  <2>2. CASE \A t \in Task : ~Rewriting(t)
    BY <1>1, <2>2 DEF HeldRecs, DataInv, StoreInv, StoreTypes
  <2> QED
    BY <2>1, <2>2
<1>3. ASSUME NEW u PROVE Stored(StoredRecs, u) \in Val \cup {NoVal}
  <2>1. CASE Holds(StoredRecs, u)
    <3>1. PICK i \in DOMAIN StoredRecs : StoredRecs[i].uid = u
      BY <2>1 DEF Holds
    <3> QED
      BY <1>2, <3>1, GoodIs DEF GoodRecord
  <2>2. CASE ~Holds(StoredRecs, u)
    BY <1>2, <2>2, GoodIs
  <2> QED
    BY <2>1, <2>2
<1> QED
  BY <1>2, <1>3

\* A completed operation changes one uid, erases, or writes back, in one step.
LEMMA StoreStep ==
  ASSUME DataInv, DataInv', PageSuffices, FlashSuccess
  PROVE  Store!Next \/ UNCHANGED Store!vars
<1>0. LockInv /\ LockInv' /\ StoreInv
  BY DEF DataInv, AnswerInv
<1>1. PICK t \in Task : t = flash.owner
  BY DEF FlashSuccess, DataInv, AnswerInv, ChainInv
<1> DEFINE r == req[t]
<1>2. r \in Request /\ r.op \in Mutations /\ pc[t] \in Holding
  BY <1>0, <1>1, FlashChanges
<1>3. r.op = "erase" => page'.recs = <<>> /\ StoredRecs' = <<>> /\ StoredRecs = page.recs
  <2>1. r.op = "erase" => \A s \in Task : ~Rewriting(s)
    BY <1>0, <1>2, OthersWait DEF Rewriting, Rewrites
  <2> QED
    BY <1>0, <1>1, <2>1, FlashChanges, StoredRecsIs DEF HeldRecs
<1>4. r.op \in Rewrites /\ flash.kind = "erase" =>
        /\ StoredRecs = page.recs
        /\ Holds(page.recs, r.uid)
        /\ StoredRecs' = Kept(r)
  BY <1>0, <1>1, FlashChanges
<1>5. r.op \in Rewrites /\ flash.kind = "write" =>
        StoredRecs' = StoredRecs /\ page'.recs = StoredRecs
  <2> SUFFICES ASSUME r.op \in Rewrites, flash.kind = "write"
               PROVE  StoredRecs' = StoredRecs /\ page'.recs = StoredRecs
    OBVIOUS
  <2>1. Rewriting(t) /\ page'.recs = arr_data[t].recs /\ StoredRecs' = StoredRecs
    BY <1>0, <1>1, FlashChanges
  <2> QED
    BY <1>0, <2>1, StoredRecsIs DEF HeldRecs
<1>6. r.op = "add" =>
        /\ StoredRecs = page.recs
        /\ ~Holds(page.recs, r.uid)
        /\ StoredRecs' = Append(page.recs, RecordOf(r))
        /\ StoredRecs' = page'.recs
  BY <1>0, <1>1, FlashChanges
<1>7. r.uid \in Uid /\ r.val \in Val /\ r.op \in {"add", "erase", "delete", "modify"}
  BY <1>2 DEF Request, Mutations, Rewrites
<1>8. flash.kind \in {"erase", "write"}
  BY <1>0 DEF FlashSuccess, StoreInv, FlashInv
<1>9. Good(page.recs) /\ page.tail = "clean"
  BY <1>0 DEF StoreInv, StoreTypes
<1>10. Answers' = Answers
  BY DEF FlashSuccess, Answers
<1>11. CASE r.op = "erase"
  <2>1. Good(<<>>) /\ \A u : ~Holds(<<>>, u)
    BY DEF Good, Unique, Holds
  <2>2. Payloads' = [u \in Uid |-> NoVal]
    BY <1>3, <1>11, <2>1, GoodIs DEF Payloads
  <2>3. Away = FALSE /\ Away' = FALSE
    BY <1>3, <1>11 DEF Away
  <2> QED
    BY <1>10, <2>2, <2>3, Zenon DEF Store!Next, Store!Erase
<1>12. CASE r.op \in Rewrites /\ flash.kind = "erase"
  <2>1. /\ \A q : q # r.uid => Stored(Kept(r), q) = Stored(page.recs, q)
        /\ r.op = "modify" => Stored(Kept(r), r.uid) = r.val
        /\ r.op = "delete" => Stored(Kept(r), r.uid) = NoVal
    BY <1>2, <1>4, <1>9, <1>12, KeptGood
  <2>2. Payloads[r.uid] # NoVal
    BY <1>4, <1>7, <1>9, <1>12, GoodIs DEF Payloads
  <2>3. Away = FALSE /\ Away' \in BOOLEAN
    BY <1>4, <1>12 DEF Away
  <2>4. CASE r.op = "delete"
    <3>1. Payloads' = [Payloads EXCEPT ![r.uid] = NoVal]
      BY <1>4, <1>7, <1>12, <2>1, <2>4 DEF Payloads
    <3> QED
      BY <1>7, <1>10, <2>2, <2>3, <3>1, Zenon DEF Store!Next, Store!Delete
  <2>5. CASE r.op = "modify"
    <3>1. Payloads' = [Payloads EXCEPT ![r.uid] = r.val]
      BY <1>4, <1>7, <1>12, <2>1, <2>5 DEF Payloads
    <3> QED
      BY <1>7, <1>10, <2>2, <2>3, <3>1, Zenon DEF Store!Next, Store!Modify
  <2> QED
    BY <1>12, <2>4, <2>5 DEF Rewrites
<1>13. CASE r.op \in Rewrites /\ flash.kind = "write"
  <2>1. Payloads' = Payloads /\ Away' = FALSE
    BY <1>5, <1>13 DEF Payloads, Away
  <2>2. CASE Away = TRUE
    BY <1>10, <2>1, <2>2, Zenon DEF Store!Next, Store!WriteBack
  <2>3. CASE Away = FALSE
    BY <1>10, <2>1, <2>3, Zenon DEF Store!vars
  <2> QED
    BY <2>2, <2>3 DEF Away
<1>14. CASE r.op = "add"
  <2>1. RecordOf(r) \in GoodRecord /\ RecordOf(r).uid = r.uid /\ RecordOf(r).val = r.val
    BY <1>2 DEF RecordOf, Request, GoodRecord
  <2>2. /\ Stored(StoredRecs', r.uid) = r.val
        /\ \A q : q # r.uid => Stored(StoredRecs', q) = Stored(page.recs, q)
    <3>1. ~Holds(page.recs, RecordOf(r).uid) /\ StoredRecs' = Append(page.recs, RecordOf(r))
      BY <1>6, <1>14, <2>1
    <3> HIDE DEF r
    <3>2. /\ Stored(Append(page.recs, RecordOf(r)), RecordOf(r).uid) = RecordOf(r).val
          /\ \A q : q # RecordOf(r).uid =>
                Stored(Append(page.recs, RecordOf(r)), q) = Stored(page.recs, q)
      BY <1>9, <2>1, <3>1, AppendGood
    <3> QED
      BY <2>1, <3>1, <3>2
  <2>3. Payloads[r.uid] = NoVal
    BY <1>6, <1>7, <1>9, <1>14, GoodIs DEF Payloads
  <2>4. Payloads' = [Payloads EXCEPT ![r.uid] = r.val]
    BY <1>6, <1>7, <1>14, <2>2 DEF Payloads
  <2>5. Away = FALSE /\ Away' = FALSE
    BY <1>6, <1>14 DEF Away
  <2> QED
    BY <1>7, <1>10, <2>3, <2>4, <2>5, Zenon DEF Store!Next, Store!Add
<1> QED
  BY <1>7, <1>8, <1>11, <1>12, <1>13, <1>14 DEF Rewrites

\* A task's result is an error code and what was read.
ResultTypes == result = [t \in Task |-> [err |-> result[t].err, data |-> result[t].data]]

LEMMA ResultReturn ==
  ASSUME ResultTypes, NEW t \in Task, NEW x, result' = [result EXCEPT ![t].err = x]
  PROVE  /\ ResultTypes'
         /\ result'[t] = [err |-> x, data |-> result[t].data]
         /\ \A s \in Task \ {t} : result'[s] = result[s]
BY DEF ResultTypes

LEMMA ResultNext == ResultTypes /\ [Next]_vars => ResultTypes'
<1> SUFFICES ASSUME ResultTypes, [Next]_vars PROVE ResultTypes'
  OBVIOUS
<1>1. ASSUME NEW t \in Task, NEW x, result' = [result EXCEPT ![t].err = x] PROVE ResultTypes'
  BY <1>1, ResultReturn
<1>2. ASSUME UNCHANGED result PROVE ResultTypes'
  BY <1>2 DEF ResultTypes
<1>3. ASSUME NEW t \in Task, Call(t) PROVE ResultTypes'
  <2>1. PICK r : result' = [result EXCEPT ![t] = [NoResult EXCEPT !.err = Refusal(r)]]
    BY <1>3 DEF Call
  <2>2. [NoResult EXCEPT !.err = Refusal(r)] = [err |-> Refusal(r), data |-> NoVal]
    BY DEF NoResult
  <2> QED
    BY <2>1, <2>2 DEF ResultTypes
<1>4. ASSUME NEW t \in Task, nvs_read_raw_data(t) PROVE ResultTypes'
  <2>1. CASE TooLong(req[t])
    BY <1>1, <1>4, <2>1 DEF nvs_read_raw_data
  <2>2. CASE ~TooLong(req[t])
    BY <1>4, <2>2 DEF nvs_read_raw_data, ResultTypes
  <2> QED
    BY <2>1, <2>2
<1>5. ASSUME NEW t \in Task,
             \/ MutexTimeout(t) \/ nvs_get_data_pointer(t)
             \/ \E e : Return(t, e)
      PROVE  ResultTypes'
  BY <1>1, <1>5 DEF MutexTimeout, nvs_get_data_pointer, Return
<1>6. ASSUME NEW t \in Task, TaskStep(t) \/ NotifyTimeout(t) PROVE ResultTypes'
  BY <1>2, <1>4, <1>5, <1>6
  DEF TaskStep, TakeMutex, BuildArrData, SetHandle, StartErase, EraseAnswer, StartWrite,
      WriteAnswer, NotifyTimeout
<1>7. ASSUME PowerLoss PROVE ResultTypes'
  BY <1>7 DEF PowerLoss, ResultTypes, NoResult
<1> QED
  BY <1>2, <1>3, <1>6, <1>7
  DEF Next, vars, nvs_flash_init, FlashSuccess, FlashError, nrf_soc_event_handler

\* A step of one call that leaves the store alone, and answers what is true.
LEMMA AnswerStep ==
  ASSUME NEW t \in Task, UNCHANGED page, StoredRecs' = StoredRecs,
         \A s \in Task \ {t} : req'[s] = req[s] /\ result'[s] = result[s],
         NEW a, a = [call |-> req'[t], err |-> result'[t].err, data |-> result'[t].data],
         Store!IsTrue(a)
  PROVE  Store!Answer(t)
<1>1. Payloads' = Payloads /\ Away' = Away
  BY DEF Payloads, Away
<1>2. Answers'[t] = a
  BY DEF Answers
<1>3. Answers' = [Answers EXCEPT ![t] = Answers'[t]]
  BY DEF Answers
<1>4. Store!IsTrue(Answers'[t])
  BY <1>2
<1> QED
  BY <1>1, <1>3, <1>4, Zenon DEF Store!Answer

\* What r asked for is done.
Achieved(r) ==
    /\ r.op \in {"add", "modify"} => Stored(StoredRecs, r.uid) = r.val
    /\ r.op = "delete" => Stored(StoredRecs, r.uid) = NoVal
    /\ r.op = "erase" => StoredRecs = <<>>

\* A call that changes the page returns nrf_OK when it has done so.
LEMMA ReturnAnswer ==
  ASSUME ResultTypes, NEW t \in Task, NEW e \in {"nrf_OK", "nrf_ERR_INTERNAL", "sd_error"},
         Return(t, e), req[t] \in Request, req[t].op \in Mutations, StoreTypes,
         UNCHANGED <<page, req>>, StoredRecs' = StoredRecs,
         Returned(req[t].op, e) = "nrf_OK" => Achieved(req[t])
  PROVE  Store!Answer(t)
<1> DEFINE r == req[t]
           a == [call |-> r, err |-> Returned(r.op, e), data |-> result[t].data]
<1>1. /\ result'[t] = [err |-> Returned(r.op, e), data |-> result[t].data]
      /\ \A s \in Task \ {t} : result'[s] = result[s]
  BY ResultReturn DEF Return
<1>2. a.err \in {"nrf_OK", "nrf_ERR_INTERNAL", "sd_error"}
  BY DEF Returned
<1>3. r.uid \in Uid /\ r.op \in {"add", "erase", "delete", "modify"}
  BY DEF Request, Mutations, Rewrites
<1>4. Achieved(r) => Store!Done(a)
  <2>1. Good(<<>>) /\ \A u : ~Holds(<<>>, u)
    BY DEF Good, Unique, Holds
  <2>2. \A u : Stored(<<>>, u) = NoVal
    BY <2>1, GoodIs
  <2> QED
    BY <1>3, <2>2 DEF Achieved, Store!Done, Payloads
<1>5. Store!IsTrue(a)
  BY <1>2, <1>4 DEF Store!IsTrue
<1> QED
  BY <1>1, <1>5, AnswerStep

\* A lookup finds what is stored, unless a rewrite has it away.
LEMMA LookupTrue ==
  ASSUME DataInv, NEW u
  PROVE  /\ nvs_is_uid_present(page, u) => Stored(StoredRecs, u) # NoVal
         /\ ~nvs_is_uid_present(page, u) => Stored(StoredRecs, u) = NoVal \/ Away
         /\ (\A t \in Task : ~Rewriting(t)) => StoredRecs = page.recs
<1>1. HeldRecs /\ Good(StoredRecs) /\ Good(page.recs)
  BY StoredRecsIs, StoredGood DEF DataInv, AnswerInv, StoreInv, StoreTypes
<1>2. nvs_is_uid_present(page, u) <=> Holds(page.recs, u)
  BY DEF nvs_is_uid_present, Holds
<1>3. page.recs = StoredRecs \/ page.recs = <<>>
  <2>1. CASE \E t \in Task : Rewriting(t)
    BY <1>1, <2>1 DEF HeldRecs, DataInv, StoreInv, TaskInv, RewriteInv
  <2>2. CASE \A t \in Task : ~Rewriting(t)
    BY <1>1, <2>2 DEF HeldRecs
  <2> QED
    BY <2>1, <2>2
<1>4. ~Holds(<<>>, u)
  BY DEF Holds
<1> QED
  BY <1>1, <1>2, <1>3, <1>4, GoodIs DEF HeldRecs, Away

LEMMA CallAnswer ==
  ASSUME DataInv, ResultTypes, StoredRecs' = StoredRecs, NEW t \in Task, Call(t)
  PROVE  Store!Answer(t)
<1>1. PICK r \in usage[t] :
        /\ req' = [req EXCEPT ![t] = r]
        /\ result' = [result EXCEPT ![t] = [NoResult EXCEPT !.err = Refusal(r)]]
        /\ UNCHANGED page
  BY DEF Call
<1>2. StoreTypes /\ r \in Request
  BY CallsAreRequests DEF DataInv, StoreInv
<1> DEFINE a == [call |-> r, err |-> Refusal(r), data |-> NoVal]
<1>3. /\ req'[t] = r /\ result'[t] = [err |-> Refusal(r), data |-> NoVal]
      /\ \A s \in Task \ {t} : req'[s] = req[s] /\ result'[s] = result[s]
  BY <1>1, <1>2 DEF StoreTypes, ResultTypes, NoResult
<1>4. r.uid \in Uid
  BY <1>2 DEF Request
<1>5. CASE r.op = "add" /\ nvs_is_uid_present(page, r.uid)
  <2>1. Refusal(r) = "NVS_ERR_UID_ALRDY_PRESENT"
    BY <1>5 DEF Refusal
  <2>2. Payloads[r.uid] # NoVal
    BY <1>4, <1>5, LookupTrue DEF Payloads
  <2>3. Store!IsTrue(a)
    BY <2>1, <2>2 DEF Store!IsTrue
  <2> QED
    BY <1>1, <1>3, <2>3, AnswerStep
<1>6. CASE r.op \in Rewrites \cup {"read"} /\ ~nvs_is_uid_present(page, r.uid)
  <2>1. Refusal(r) = "NVS_ERR_UID_ABSENT"
    BY <1>6 DEF Refusal, Rewrites
  <2>2. Stored(StoredRecs, r.uid) = NoVal \/ Away
    BY <1>6, LookupTrue
  <2>3. Payloads[r.uid] = NoVal \/ Away
    BY <1>4, <2>2 DEF Payloads
  <2>4. Store!IsTrue(a)
    BY <2>1, <2>3 DEF Store!IsTrue
  <2> QED
    BY <1>1, <1>3, <2>4, AnswerStep
<1>7. CASE Refusal(r) \in {"none", "NULL", "nrf_ERR_INVALID_STATE"}
  <2>1. Store!IsTrue(a)
    BY <1>7 DEF Store!IsTrue
  <2> QED
    BY <1>1, <1>3, <2>1, AnswerStep
<1> QED
  BY <1>5, <1>6, <1>7 DEF Refusal

LEMMA LookupAnswer ==
  ASSUME DataInv, ResultTypes, StoredRecs' = StoredRecs, NEW t \in Task,
         MutexTimeout(t) \/ nvs_read_raw_data(t) \/ nvs_get_data_pointer(t)
  PROVE  Store!Answer(t)
<1> DEFINE r == req[t]
<1>1. /\ StoreInv /\ LockInv /\ pc[t] \in {"take", "copy", "lookup"}
      /\ UNCHANGED <<page, req>>
  BY DEF DataInv, AnswerInv, MutexTimeout, nvs_read_raw_data, nvs_get_data_pointer
<1>2. r \in Request /\ r.uid \in Uid
  BY <1>1, InCall DEF Request
<1>3. pc[t] # "take" => StoredRecs = page.recs
  <2>1. pc[t] # "take" => \A s \in Task : ~Rewriting(s)
    BY <1>1, OthersWait DEF Rewriting, Holding, Labels
  <2> QED
    BY <2>1, LookupTrue
<1>4. ASSUME NEW x \in {"NULL", "nrf_ERR_TIMEOUT", "nrf_ERR_NO_MEMORY"},
             result' = [result EXCEPT ![t].err = x]
      PROVE  Store!Answer(t)
  <2> DEFINE a == [call |-> r, err |-> x, data |-> result[t].data]
  <2>1. Store!IsTrue(a)
    BY DEF Store!IsTrue
  <2>2. /\ result'[t] = [err |-> x, data |-> result[t].data]
        /\ \A s \in Task \ {t} : result'[s] = result[s]
    BY <1>4, ResultReturn
  <2> QED
    BY <1>1, <2>1, <2>2, AnswerStep
<1>5. CASE MutexTimeout(t)
  BY <1>4, <1>5 DEF MutexTimeout
<1>6. CASE nvs_read_raw_data(t)
  <2>1. CASE TooLong(r)
    BY <1>4, <1>6, <2>1 DEF nvs_read_raw_data
  <2>2. CASE ~TooLong(r)
    <3> DEFINE a == [call |-> r, err |-> "nrf_OK", data |-> Stored(page.recs, r.uid)]
    <3>1. /\ result'[t] = [err |-> "nrf_OK", data |-> Stored(page.recs, r.uid)]
          /\ \A s \in Task \ {t} : result'[s] = result[s]
      BY <1>6, <2>2 DEF nvs_read_raw_data, ResultTypes
    <3>2. r.op = "read" /\ StoredRecs = page.recs
      BY <1>1, <1>3, <1>6 DEF nvs_read_raw_data, StoreInv, TaskInv, CallInv
    <3>3. Store!IsTrue(a)
      BY <1>2, <3>2 DEF Store!IsTrue, Store!Done, Payloads
    <3> QED
      BY <1>1, <3>1, <3>3, AnswerStep
  <2> QED
    BY <2>1, <2>2
<1>7. CASE nvs_get_data_pointer(t)
  <2>1. CASE nvs_get_uid_pointer(page, r.uid) = 0
    BY <1>4, <1>7, <2>1 DEF nvs_get_data_pointer
  <2>2. CASE nvs_get_uid_pointer(page, r.uid) # 0
    <3> DEFINE a == [call |-> r, err |-> "pointer", data |-> result[t].data]
    <3>1. /\ result'[t] = [err |-> "pointer", data |-> result[t].data]
          /\ \A s \in Task \ {t} : result'[s] = result[s]
      BY <1>7, <2>2, ResultReturn DEF nvs_get_data_pointer
    <3>2. Holds(page.recs, r.uid) /\ Good(page.recs)
      <4>1. Good(page.recs) /\ page.recs \in Seq(Record)
        BY <1>1, GoodIs DEF StoreInv, StoreTypes
      <4>2. First(page.recs, r.uid) # 0
        BY <2>2 DEF nvs_get_uid_pointer, First
      <4> QED
        BY <4>1, <4>2, FirstIs DEF Holds
    <3>3. Stored(StoredRecs, r.uid) # NoVal
      BY <1>1, <1>3, <1>7, <3>2, GoodIs DEF nvs_get_data_pointer
    <3>4. Store!IsTrue(a)
      BY <1>2, <3>3 DEF Store!IsTrue, Payloads
    <3> QED
      BY <1>1, <3>1, <3>4, AnswerStep
  <2> QED
    BY <2>1, <2>2
<1> QED
  BY <1>5, <1>6, <1>7

LEMMA MutationAnswer ==
  ASSUME DataInv, PageSuffices, ResultTypes, StoredRecs' = StoredRecs, NEW t \in Task,
         StartErase(t) \/ StartWrite(t) \/ EraseAnswer(t) \/ WriteAnswer(t)
  PROVE  Store!Answer(t) \/ UNCHANGED Store!vars
<1> DEFINE r == req[t]
           b == arr_data[t]
<1>1. /\ StoreInv /\ StoreTypes /\ LockInv /\ AnswerInv /\ TaskInv(t)
      /\ pc[t] \in {"erase", "write", "erase_wait", "write_wait"}
      /\ UNCHANGED <<page, req>>
  BY DEF DataInv, StoreInv, AnswerInv, StartErase, StartWrite, EraseAnswer, WriteAnswer
<1>2. r \in Request /\ r.op \in Mutations /\ pc[t] \in Holding
  BY <1>1, InCall DEF TaskInv, CallInv, Flashing, Waiting, Holding, Labels
<1>3. UNCHANGED result => UNCHANGED Store!vars
  BY <1>1 DEF Store!vars, Payloads, Away, Answers
<1>4. Rewriting(t) => /\ StoredRecs = b.recs
                      /\ r.op = "modify" => Stored(b.recs, r.uid) = r.val
                      /\ r.op = "delete" => Stored(b.recs, r.uid) = NoVal
  BY <1>1, StoredRecsIs DEF HeldRecs, TaskInv, RewriteInv
<1>5. ~Rewriting(t) => StoredRecs = page.recs
  BY <1>1, <1>2, OthersWait, StoredRecsIs DEF HeldRecs
<1>6. CASE StartErase(t)
  BY <1>1, <1>3, <1>6, NoneInProgress DEF StartErase
<1>7. CASE StartWrite(t)
  <2>1. CASE ~WriteRefused(t)
    BY <1>3, <1>7, <2>1 DEF StartWrite
  <2>2. CASE WriteRefused(t)
    <3>1. pc[t] = "write" /\ flash = NoFlash /\ Return(t, "sd_error")
      BY <1>1, <1>7, <2>2, NoneInProgress DEF StartWrite
    <3>2. r.op \in Rewrites => Rewriting(t)
      BY <3>1 DEF Rewriting
    <3>3. r.op # "erase"
      BY <1>1, <3>1 DEF TaskInv, CallInv
    <3>4. Returned(r.op, "sd_error") = "nrf_OK" => Achieved(r)
      BY <1>4, <3>2, <3>3 DEF Achieved, Returned, Rewrites
    <3> QED
      BY <1>1, <1>2, <3>1, <3>4, ReturnAnswer
  <2> QED
    BY <2>1, <2>2
<1>8. CASE EraseAnswer(t)
  <2>1. pc[t] = "erase_wait" /\ flash = NoFlash
    BY <1>1, <1>8, AnsweredDone DEF EraseAnswer
  <2>2. CASE r.op = "erase" \/ (r.op = "delete" /\ b.len = 0)
    <3>1. Return(t, notify[t]) /\ notify[t] \in {"nrf_OK", "nrf_ERR_INTERNAL"}
      BY <1>1, <1>8, <2>2 DEF EraseAnswer, Answered, AnswerInv, ChainInv
    <3>2. r.op = "delete" => Rewriting(t)
      BY <2>1 DEF Rewriting, Rewrites
    <3>3. r.op = "erase" => page.recs = <<>> /\ ~Rewriting(t)
      BY <1>1, <2>1 DEF TaskInv, RewriteInv, Rewriting, Rewrites
    <3>4. Achieved(r)
      BY <1>4, <1>5, <2>2, <3>2, <3>3 DEF Achieved
    <3> QED
      BY <1>1, <1>2, <3>1, <3>4, ReturnAnswer
  <2>3. CASE ~(r.op = "erase" \/ (r.op = "delete" /\ b.len = 0))
    BY <1>3, <1>8, <2>3 DEF EraseAnswer
  <2> QED
    BY <2>2, <2>3
<1>9. CASE WriteAnswer(t)
  <2>1. pc[t] = "write_wait" /\ flash = NoFlash
    BY <1>1, <1>9, AnsweredDone DEF WriteAnswer
  <2>2. Return(t, notify[t]) /\ notify[t] \in {"nrf_OK", "nrf_ERR_INTERNAL"}
    BY <1>1, <1>9 DEF WriteAnswer, Answered, AnswerInv, ChainInv
  <2>3. r.op \in Rewrites => Rewriting(t)
    BY <2>1 DEF Rewriting
  <2>4. r.op # "erase"
    BY <1>1, <2>1 DEF TaskInv, CallInv
  <2>5. r.op = "add" => ~Rewriting(t) /\ Stored(page.recs, r.uid) = r.val
    BY <1>1, <2>1 DEF TaskInv, AddInv, Rewriting, Rewrites
  <2>6. Achieved(r)
    BY <1>4, <1>5, <2>3, <2>4, <2>5 DEF Achieved, Rewrites
  <2> QED
    BY <1>1, <1>2, <2>2, <2>6, ReturnAnswer
<1> QED
  BY <1>6, <1>7, <1>8, <1>9

\* The steps that neither change the store nor answer anybody.
LEMMA SilentStep ==
  ASSUME StoredRecs' = StoredRecs, UNCHANGED <<page, req, result>>
  PROVE  UNCHANGED Store!vars
BY DEF Store!vars, Payloads, Away, Answers

\* In an orderly use nvs.c implements the map from uids to payloads of KVStore:
\* the erase, the write and the copy on the stack are one step to its callers, and
\* what its calls return is true of the map, but that a uid is called absent which
\* a rewrite of another has away.
THEOREM StoreImplemented == OrderlyUse => (Spec => StoreSpec)
<1> SUFFICES ASSUME OrderlyUse PROVE Spec => StoreSpec
  OBVIOUS
<1>1. Init => Store!Init /\ ResultTypes
  <2> SUFFICES ASSUME Init PROVE Store!Init /\ ResultTypes
    OBVIOUS
  <2>1. DataInv
    BY DataInit DEF OrderlyUse
  <2>2. Payloads \in [Uid -> Val \cup {NoVal}]
    BY <2>1, StoredGood DEF Payloads
  <2>3. \A t \in Task : ~Rewriting(t)
    BY DEF Init, Rewriting
  <2>4. Away = FALSE
    BY <2>1, <2>3, LookupTrue DEF Away
  <2>5. \A t \in Task : Answers[t].err = "none"
    BY DEF Answers, Init, NoResult
  <2>6. ResultTypes
    BY DEF ResultTypes, Init, NoResult
  <2> QED
    BY <2>2, <2>4, <2>5, <2>6, Zenon DEF Store!Init
<1>2. DataInv /\ DataInv' /\ ResultTypes /\ [Next]_vars => [Store!Next]_(Store!vars)
  <2> SUFFICES ASSUME DataInv, DataInv', ResultTypes, [Next]_vars
               PROVE  Store!Next \/ UNCHANGED Store!vars
    OBVIOUS
  <2>1. PageSuffices /\ (FlashSuccess \/ StoredRecs' = StoredRecs)
    BY DataNext DEF OrderlyUse
  <2>2. CASE FlashSuccess
    BY <2>1, <2>2, StoreStep
  <2>3. CASE StoredRecs' = StoredRecs /\ ~FlashSuccess
    <3>1. ASSUME NEW t \in Task, Store!Answer(t) PROVE Store!Next
      BY <3>1, Zenon DEF Store!Next
    <3>2. ASSUME NEW t \in Task, Call(t) PROVE Store!Next
      BY <2>3, <3>1, <3>2, CallAnswer
    <3>3. ASSUME NEW t \in Task, TaskStep(t) PROVE Store!Next \/ UNCHANGED Store!vars
      <4>1. CASE MutexTimeout(t) \/ nvs_read_raw_data(t) \/ nvs_get_data_pointer(t)
        BY <2>3, <3>1, <4>1, LookupAnswer
      <4>2. CASE StartErase(t) \/ StartWrite(t) \/ EraseAnswer(t) \/ WriteAnswer(t)
        BY <2>1, <2>3, <3>1, <4>2, MutationAnswer
      <4>3. CASE TakeMutex(t) \/ BuildArrData(t) \/ SetHandle(t)
        BY <2>3, <4>3, SilentStep DEF TakeMutex, BuildArrData, SetHandle
      <4> QED
        BY <3>3, <4>1, <4>2, <4>3 DEF TaskStep
    <3>4. CASE nvs_flash_init \/ nrf_soc_event_handler \/ UNCHANGED vars
      BY <2>3, <3>4, SilentStep DEF nvs_flash_init, nrf_soc_event_handler, vars
    <3>5. ~FlashError /\ ~PowerLoss /\ \A t \in Task : ~NotifyTimeout(t)
      BY DEF DataInv, StoreInv, StoreTypes, FlashError, PowerLoss, NotifyTimeout
    <3> QED
      BY <2>3, <3>2, <3>3, <3>4, <3>5 DEF Next
  <2> QED
    BY <2>1, <2>2, <2>3
<1> QED
  BY <1>1, <1>2, ResultNext, DataAlways, PTL DEF Spec, StoreSpec, Store!Spec

(***************************************************************************)
(* The store through flash errors and power losses, used as the firmware   *)
(* uses it (DeployedUse): no task deletes or modifies, and the calls that  *)
(* change the page are one task's.  A rewrite has all records on its stack *)
(* alone for a while, and a power loss takes them.                         *)
(*                                                                         *)
(* The inductive invariant is about pages whose scan does not end on a     *)
(* programmed word: there, every promise is on the page itself.  An        *)
(* interrupted write only ever appends a record, torn or not, of the uid   *)
(* its add found absent, or of no uid at all, so a scan still finds the    *)
(* others; writing behind a header without LEN blocks the page.            *)
(***************************************************************************)
NoRewrites == \A us \in Usages : \A t \in Task : \A r \in us[t] : r.op \notin Rewrites

DeployedUse == NoRewrites /\ WritersApart

SurviveTypes ==
    /\ usage \in Usages
    /\ page \in Page
    /\ req = [t \in Task |-> req[t]]
    /\ promised \in [Uid -> Val \cup {NoVal}]

\* t has been told, or is about to be, that its write succeeded.
ToldOK(t) == notify[t] = "nrf_OK" \/ (soc # <<>> /\ Head(soc) = "success")

\* An add whose uid is absent, and present once t is told so.
AddSurvives(t) ==
    req[t].op = "add" =>
        /\ pc[t] \in {"take", "handle", "write"} \/ (pc[t] = "write_wait" /\ flash # NoFlash)
              => ~Holds(page.recs, req[t].uid)
        /\ pc[t] \in {"write", "write_wait"} =>
              arr_data[t] = [recs |-> <<RecordOf(req[t])>>, len |-> Words(req[t])]
        /\ pc[t] = "write_wait" /\ ToldOK(t) /\ page.tail # "blocked" =>
              Stored(page.recs, req[t].uid) = req[t].val

TaskSurvives(t) == CallInv(t) /\ AddSurvives(t) /\ EraseInv(t)

SurviveInv ==
    /\ SurviveTypes
    /\ FlashInv
    /\ \A t \in Task : TaskSurvives(t)

\* Until a wait expires.
SurviveInd == NoneExpired => SurviveInv

\* A record behind the others is found only by uids none of them has.
LEMMA StoredAppended ==
  ASSUME NEW recs \in Seq(Record), NEW r \in Record, NEW u
  PROVE  /\ u # r.uid \/ Holds(recs, u) => Stored(Append(recs, r), u) = Stored(recs, u)
         /\ ~Holds(recs, u) => Stored(recs, u) = NoVal
         /\ ~Holds(recs, r.uid) => Stored(Append(recs, r), r.uid) = r.val
<1> DEFINE n == Len(recs)
           all == Append(recs, r)
<1>1. /\ all \in Seq(Record)
      /\ n \in Nat
      /\ DOMAIN recs = 1 .. n
      /\ Len(all) = n + 1
      /\ DOMAIN all = 1 .. n + 1
      /\ all[n + 1] = r
      /\ \A i \in 1 .. n : all[i] = recs[i]
  OBVIOUS
<1>2. \A q : /\ Stored(recs, q) = IF First(recs, q) = 0 THEN NoVal ELSE recs[First(recs, q)].val
             /\ Stored(all, q) = IF First(all, q) = 0 THEN NoVal ELSE all[First(all, q)].val
  BY DEF Stored, First
<1> HIDE DEF all, n
<1>3. ASSUME NEW q
      PROVE  /\ First(recs, q) \in 0 .. n
             /\ First(recs, q) = 0 <=> \A j \in 1 .. n : recs[j].uid # q
             /\ First(recs, q) # 0 =>
                   /\ First(recs, q) \in 1 .. n
                   /\ recs[First(recs, q)].uid = q
                   /\ \A j \in 1 .. n : recs[j].uid = q => First(recs, q) <= j
  BY <1>1, FirstIs DEF n
<1>4. ASSUME NEW q
      PROVE  /\ First(all, q) \in 0 .. n + 1
             /\ First(all, q) = 0 <=> \A j \in 1 .. n + 1 : all[j].uid # q
             /\ First(all, q) # 0 =>
                   /\ First(all, q) \in 1 .. n + 1
                   /\ all[First(all, q)].uid = q
                   /\ \A j \in 1 .. n + 1 : all[j].uid = q => First(all, q) <= j
  BY <1>1, FirstIs
<1>5. ASSUME Holds(recs, u) PROVE Stored(all, u) = Stored(recs, u)
  <2>1. First(recs, u) # 0 /\ First(recs, u) \in 1 .. n
    BY <1>1, <1>3, <1>5 DEF Holds
  <2>2. First(all, u) # 0 /\ First(all, u) <= First(recs, u)
    BY <1>1, <1>3, <1>4, <2>1
  <2>3. First(all, u) \in 1 .. n
    BY <1>1, <1>4, <2>1, <2>2
  <2>4. First(recs, u) <= First(all, u)
    BY <1>1, <1>3, <1>4, <2>1, <2>2, <2>3
  <2>5. First(all, u) = First(recs, u)
    BY <1>1, <2>1, <2>2, <2>3, <2>4
  <2> QED
    BY <1>1, <1>2, <2>1, <2>2, <2>5
<1>6. ASSUME ~Holds(recs, u) PROVE Stored(recs, u) = NoVal
  BY <1>1, <1>2, <1>3, <1>6 DEF Holds
<1>7. ASSUME u # r.uid, ~Holds(recs, u) PROVE Stored(all, u) = NoVal
  <2>1. \A j \in 1 .. n + 1 : all[j].uid # u
    <3> SUFFICES ASSUME NEW j \in 1 .. n + 1 PROVE all[j].uid # u
      OBVIOUS
    <3>1. CASE j = n + 1
      BY <1>1, <1>7, <3>1
    <3>2. CASE j \in 1 .. n
      BY <1>1, <1>7, <3>2 DEF Holds
    <3> QED
      BY <1>1, <3>1, <3>2
  <2> QED
    BY <1>2, <1>4, <2>1
<1>8. ASSUME ~Holds(recs, r.uid) PROVE Stored(all, r.uid) = r.val
  <2>1. First(all, r.uid) # 0
    BY <1>1, <1>4
  <2>2. First(all, r.uid) = n + 1
    BY <1>1, <1>4, <1>8, <2>1 DEF Holds
  <2> QED
    BY <1>1, <1>2, <2>1, <2>2
<1> QED
  BY <1>5, <1>6, <1>7, <1>8 DEF all

\* What an interrupted write leaves on a page that ends in erased flash.
LEMMA InterruptedIn ==
  ASSUME NEW p, NEW recs, p.tail = "clean", NEW q \in Interrupted(p, recs)
  PROVE  \/ q \in {p, Written(p, recs, FALSE)}
         \/ \E k \in DOMAIN recs : \E rest \in Cuts(recs[k]) : q = CutAt(p, recs, k, rest)
         \/ \E k \in DOMAIN recs : q = [CutAt(p, recs, k, <<>>) EXCEPT !.tail = "sod"]
<1>1. \/ q \in {p, Written(p, recs, FALSE)}
      \/ q \in CutInside(p, recs)
      \/ q \in CutAfterStart(p, recs)
  BY DEF Interrupted
<1>2. q \in CutInside(p, recs) =>
        \E k \in DOMAIN recs : \E rest \in Cuts(recs[k]) : q = CutAt(p, recs, k, rest)
  BY Zenon DEF CutInside
<1>3. q \in CutAfterStart(p, recs) =>
        \E k \in DOMAIN recs : q = [CutAt(p, recs, k, <<>>) EXCEPT !.tail = "sod"]
  BY Zenon DEF CutAfterStart
<1> QED
  BY <1>1, <1>2, <1>3

\* The page while t writes the record of an add, whatever becomes of the write.
LEMMA AddOutcome ==
  ASSUME page \in Page, NEW r \in Request, NEW p \in Interrupted(page, <<RecordOf(r)>>)
  PROVE  /\ p \in Page
         /\ \/ page.tail = "sod"
            \/ p.recs = page.recs
            \/ \E y \in Record : y.uid \in {r.uid, NoUid} /\ p.recs = Append(page.recs, y)
<1> DEFINE x == RecordOf(r)
           recs == <<x>>
<1>1. /\ page.recs \in Seq(Record)
      /\ page.tail \in {"clean", "sod", "blocked"}
      /\ page = [recs |-> page.recs, tail |-> page.tail]
  BY DEF Page
<1>2. x \in Record /\ x.uid = r.uid
  <2>1. r.uid \in Uid /\ r.n \in Nat /\ r.val \in Val
    BY PageAssumption DEF Request
  <2> QED
    BY <2>1 DEF RecordOf, Record
<1>a. \A q \in Record : [q EXCEPT !.val = Torn] \in Record
                         /\ [q EXCEPT !.uid = NoUid, !.val = Torn] \in Record
  BY DEF Record
<1> HIDE DEF x
<1>3. p \in Interrupted(page, recs)
  BY DEF x
<1> HIDE DEF recs
<1>4. CASE page.tail = "blocked"
  <2>1. p = page
    BY <1>3, <1>4 DEF Interrupted, Written
  <2> QED
    BY <1>4, <2>1
<1>5. CASE page.tail = "sod"
  <2>1. p \in {page, Written(page, recs, FALSE), Spoiled(page)}
    BY <1>3, <1>5 DEF Interrupted
  <2> DEFINE torn == [i \in DOMAIN page.recs |->
                        IF i = Len(page.recs) THEN [page.recs[i] EXCEPT !.val = Torn]
                                              ELSE page.recs[i]]
  <2>2. /\ Spoiled(page) = [recs |-> torn, tail |-> "sod"]
        /\ Written(page, recs, FALSE) = [recs |-> torn, tail |-> "blocked"]
    <3>1. Spoiled(page) = [page EXCEPT !.recs = torn]
      BY DEF Spoiled
    <3>2. Spoiled(page) = [recs |-> torn, tail |-> "sod"]
      BY <1>1, <1>5, <3>1
    <3>3. Written(page, recs, FALSE) = [Spoiled(page) EXCEPT !.tail = "blocked"]
      BY <1>5 DEF Written
    <3>4. [Spoiled(page) EXCEPT !.tail = "blocked"] = [recs |-> torn, tail |-> "blocked"]
      BY <3>2
    <3> QED
      BY <3>2, <3>3, <3>4
  <2>3. torn \in Seq(Record)
    <3>1. DOMAIN page.recs = 1 .. Len(page.recs) /\ Len(page.recs) \in Nat
      BY <1>1
    <3>2. \A i \in DOMAIN page.recs : page.recs[i] \in Record
      BY <1>1
    <3>3. \A i \in DOMAIN page.recs : torn[i] \in Record
      BY <1>a, <3>2
    <3>4. torn \in [1 .. Len(page.recs) -> Record]
      BY <3>1, <3>3
    <3> QED
      BY <3>1, <3>4
  <2> HIDE DEF torn
  <2>4. CASE p = page
    BY <1>5, <2>4
  <2>5. CASE p # page
    <3>1. p = [recs |-> torn, tail |-> "sod"] \/ p = [recs |-> torn, tail |-> "blocked"]
      BY <2>1, <2>2, <2>5
    <3>2. p \in Page
      BY <2>3, <3>1 DEF Page
    <3> QED
      BY <1>5, <3>2
  <2> QED
    BY <2>4, <2>5
<1>6. CASE page.tail = "clean"
  <2>1. recs \in Seq(Record) /\ recs[1] = x /\ DOMAIN recs = {1}
    BY <1>2 DEF recs
  <2>2. \A rest : CutAt(page, recs, 1, rest)
                      = [recs |-> page.recs \o <<>> \o rest, tail |-> "clean"]
    <3>1. SubSeq(recs, 1, 1 - 1) = <<>>
      BY <2>1
    <3>2. ASSUME NEW e PROVE [page EXCEPT !.recs = e] = [recs |-> e, tail |-> "clean"]
      BY <1>6 DEF Page
    <3> QED
      BY <3>1, <3>2, Zenon DEF CutAt
  <2>3. \/ p = page
        \/ p = Written(page, recs, FALSE)
        \/ \E rest \in Cuts(x) : p = CutAt(page, recs, 1, rest)
        \/ p = [CutAt(page, recs, 1, <<>>) EXCEPT !.tail = "sod"]
    <3>1. \/ p \in {page, Written(page, recs, FALSE)}
          \/ \E k \in DOMAIN recs : \E rest \in Cuts(recs[k]) : p = CutAt(page, recs, k, rest)
          \/ \E k \in DOMAIN recs : p = [CutAt(page, recs, k, <<>>) EXCEPT !.tail = "sod"]
      BY <1>3, <1>6, InterruptedIn
    <3> QED
      BY <2>1, <3>1
  <2>4. page.recs \o <<>> \o <<>> = page.recs
    BY <1>1
  <2>5. \A y \in Record : page.recs \o <<>> \o <<y>> = Append(page.recs, y)
                          /\ Append(page.recs, y) \in Seq(Record)
    BY <1>1
  <2>6. CASE p = page
    BY <2>6
  <2>7. CASE p = Written(page, recs, FALSE)
    <3>1. p = [recs |-> page.recs \o recs, tail |-> "clean"]
      BY <1>6, <2>7 DEF Written
    <3>2. page.recs \o recs = Append(page.recs, x) /\ Append(page.recs, x) \in Seq(Record)
      BY <1>1, <1>2 DEF recs
    <3> QED
      BY <1>2, <1>6, <3>1, <3>2 DEF Page
  <2>8. CASE p = [CutAt(page, recs, 1, <<>>) EXCEPT !.tail = "sod"]
    <3>1. p = [recs |-> page.recs, tail |-> "sod"]
      <4>1. CutAt(page, recs, 1, <<>>) = [recs |-> page.recs, tail |-> "clean"]
        BY <2>2, <2>4
      <4> QED
        BY <2>8, <4>1
    <3> QED
      BY <1>1, <1>6, <3>1 DEF Page
  <2>9. ASSUME NEW rest \in Cuts(x), p = CutAt(page, recs, 1, rest) PROVE
         /\ p \in Page
         /\ \/ p.recs = page.recs
            \/ \E y \in Record : y.uid \in {r.uid, NoUid} /\ p.recs = Append(page.recs, y)
    <3>0. p = [recs |-> page.recs \o <<>> \o rest, tail |-> "clean"]
      BY <2>2, <2>9
    <3>1. CASE rest = <<>>
      BY <1>1, <2>4, <3>0, <3>1 DEF Page
    <3>2. CASE rest # <<>>
      <4>1. PICK y \in Record : rest = <<y>> /\ y.uid \in {r.uid, NoUid}
        <5>1. \/ rest = <<[x EXCEPT !.uid = NoUid, !.val = Torn]>>
              \/ rest = <<[x EXCEPT !.val = Torn]>>
          BY <2>9, <3>2, Zenon DEF Cuts
        <5>2. /\ [x EXCEPT !.uid = NoUid, !.val = Torn] \in Record
              /\ [x EXCEPT !.val = Torn] \in Record
              /\ [x EXCEPT !.uid = NoUid, !.val = Torn].uid = NoUid
              /\ [x EXCEPT !.val = Torn].uid = r.uid
          BY <1>2, <1>a DEF Record
        <5> QED
          BY <5>1, <5>2
      <4>2. p.recs = Append(page.recs, y) /\ p \in Page
        BY <2>5, <3>0, <4>1 DEF Page
      <4> QED
        BY <4>1, <4>2
    <3> QED
      BY <3>1, <3>2
  <2> QED
    BY <1>6, <2>3, <2>6, <2>7, <2>8, <2>9
<1> QED
  BY <1>1, <1>4, <1>5, <1>6

\* No call in progress is a rewrite.
LEMMA SurvivingCall ==
  ASSUME NoRewrites, SurviveInv, NEW t \in Task, pc[t] # "idle"
  PROVE  /\ req[t] \in usage[t]
         /\ req[t] \in Request
         /\ req[t].op \notin Rewrites
         /\ pc[t] # "build"
         /\ ~Rewriting(t)
<1>1. CallInv(t) /\ usage \in Usages
  BY DEF SurviveInv, SurviveTypes, TaskSurvives
<1>2. req[t] \in usage[t]
  BY <1>1 DEF CallInv
<1>3. req[t] \in Request
  BY <1>1, <1>2, NvsAssumption DEF Request, Op
<1>4. req[t].op \notin Rewrites
  BY <1>1, <1>2 DEF NoRewrites
<1>5. pc[t] # "build"
  BY <1>1, <1>4 DEF CallInv
<1> QED
  BY <1>2, <1>3, <1>4, <1>5 DEF Rewriting

\* A task before the mutex only cares for the page it checked.
LEMMA SurvivingBystander ==
  ASSUME NEW s \in Task, TaskSurvives(s), pc[s] \in {"idle", "take"},
         pc'[s] = pc[s], req'[s] = req[s], UNCHANGED usage,
         pc[s] = "take" /\ req[s].op = "add" => page'.recs = page.recs
  PROVE  TaskSurvives(s)'
<1>1. CallInv(s)'
  BY DEF TaskSurvives, CallInv, Flashing, Waiting
<1>2. AddSurvives(s)'
  BY DEF TaskSurvives, AddSurvives
<1>3. EraseInv(s)'
  BY DEF EraseInv
<1> QED
  BY <1>1, <1>2, <1>3 DEF TaskSurvives

\* A step of the owner of the mutex leaves the others as they were.
LEMMA SurvivingOthers ==
  ASSUME LockInv, SurviveInv, NEW t \in Task, pc[t] \in Holding,
         UNCHANGED <<usage, req, page>>,
         \A s \in Task \ {t} : pc'[s] = pc[s],
         TaskSurvives(t)'
  PROVE  \A s \in Task : TaskSurvives(s)'
<1> SUFFICES ASSUME NEW s \in Task, s # t PROVE TaskSurvives(s)'
  OBVIOUS
<1>1. pc[s] \in {"idle", "take"}
  BY DEF LockInv, LockTypes, MutualExclusion, Holding
<1>2. TaskSurvives(s)
  BY DEF SurviveInv
<1> QED
  BY <1>1, <1>2, SurvivingBystander

\* Steps outside the flash operations.
LEMMA SurvivePcStep ==
  ASSUME AnswerInv, SurviveInv, NEW t \in Task, NEW l, NEW r,
         UNCHANGED <<usage, page, flash, soc, notify, arr_data, promised>>,
         pc' = [pc EXCEPT ![t] = l],
         req' = [req EXCEPT ![t] = r],
         pc[t] \notin Waiting, l \notin Flashing, l \in Labels \ {"fault", "build"},
         l # "idle" => r \in usage[t],
         l = "copy" => r.op = "read",
         l = "handle" => r.op \in Mutations,
         l \in {"take", "handle"} /\ r.op = "add" => ~Holds(page.recs, r.uid)
  PROVE  SurviveInv'
<1>1. /\ pc'[t] = l
      /\ req'[t] = r
      /\ \A s \in Task \ {t} : pc'[s] = pc[s] /\ req'[s] = req[s]
  BY DEF AnswerInv, LockInv, LockTypes, SurviveInv, SurviveTypes
<1>2. ASSUME NEW s \in Task, s # t PROVE TaskSurvives(s)'
  <2>1. TaskSurvives(s)
    BY DEF SurviveInv
  <2> QED
    BY <1>1, <1>2, <2>1 DEF TaskSurvives, CallInv, AddSurvives, EraseInv, ToldOK
<1>3. TaskSurvives(t)'
  <2>1. CallInv(t)'
    BY <1>1 DEF CallInv, Flashing, Waiting
  <2>2. AddSurvives(t)'
    BY <1>1 DEF AddSurvives, Flashing, Waiting
  <2>3. EraseInv(t)'
    BY <1>1 DEF EraseInv, Flashing, Waiting
  <2> QED
    BY <2>1, <2>2, <2>3 DEF TaskSurvives
<1>4. SurviveTypes'
  BY DEF SurviveInv, SurviveTypes
<1>5. FlashInv'
  <2> SUFFICES ASSUME flash # NoFlash PROVE FlashInv'
    BY DEF FlashInv
  <2>1. flash.owner \in Task \ {t}
    BY DEF AnswerInv, ChainInv
  <2> QED
    BY <1>1, <2>1 DEF SurviveInv, FlashInv
<1> QED
  BY <1>2, <1>3, <1>4, <1>5 DEF SurviveInv

\* nvs_add_data has found its uid absent before it waits for the mutex.
LEMMA SurviveCall ==
  ASSUME NoRewrites, AnswerInv, SurviveInv, NEW t \in Task, Call(t)
  PROVE  SurviveInv'
<1>1. PICK r \in usage[t] :
         /\ req' = [req EXCEPT ![t] = r]
         /\ pc' = [pc EXCEPT ![t] = IF Refusal(r) = "none" THEN "take" ELSE "idle"]
  BY DEF Call
<1> DEFINE l == IF Refusal(r) = "none" THEN "take" ELSE "idle"
<1>2. /\ UNCHANGED <<usage, page, flash, soc, notify, arr_data, promised>>
      /\ pc[t] = "idle"
  BY DEF Call
<1>3. pc[t] \notin Waiting /\ l \notin Flashing /\ l \in Labels \ {"fault", "build"} /\ l \notin {"handle", "copy"}
  BY <1>2 DEF Flashing, Waiting, Labels
<1>4. l = "take" /\ r.op = "add" => ~Holds(page.recs, r.uid)
  BY DEF Refusal, nvs_is_uid_present, Holds
<1>5. pc' = [pc EXCEPT ![t] = l]
  BY <1>1
<1> HIDE DEF l
<1> QED
  BY <1>1, <1>2, <1>3, <1>4, <1>5, SurvivePcStep

\* Taking or failing to take the mutex, and reads, leave the page alone.
LEMMA SurvivePcSteps ==
  ASSUME NoRewrites, AnswerInv, SurviveInv, NEW t \in Task,
         TakeMutex(t) \/ MutexTimeout(t) \/ nvs_read_raw_data(t) \/ nvs_get_data_pointer(t)
  PROVE  SurviveInv'
<1>1. UNCHANGED <<usage, page, flash, soc, notify, arr_data, promised, req>>
  BY DEF TakeMutex, MutexTimeout, nvs_read_raw_data, nvs_get_data_pointer
<1>2. pc[t] \in {"take", "copy", "lookup"}
  BY DEF TakeMutex, MutexTimeout, nvs_read_raw_data, nvs_get_data_pointer
<1>3. pc[t] \notin Waiting /\ pc[t] # "idle"
  BY <1>2 DEF Waiting
<1>4. req' = [req EXCEPT ![t] = req[t]]
  BY <1>1 DEF SurviveInv, SurviveTypes
<1>5. CASE TakeMutex(t)
  <2> DEFINE l == AfterTake(req[t].op)
  <2>1. pc[t] = "take" /\ pc' = [pc EXCEPT ![t] = l]
    BY <1>5 DEF TakeMutex
  <2>2. req[t] \in usage[t] /\ req[t].op \in Op /\ req[t].op \notin Rewrites
    BY <1>3, SurvivingCall DEF Request
  <2>3. l \in {"copy", "lookup", "handle"}
    BY <2>2 DEF AfterTake
  <2>4. /\ l = "handle" => req[t].op \in Mutations
        /\ l = "copy" => req[t].op = "read"
    BY <2>2 DEF AfterTake, Op, Mutations, Rewrites
  <2>5. req[t].op = "add" => ~Holds(page.recs, req[t].uid)
    BY <2>1 DEF SurviveInv, TaskSurvives, AddSurvives
  <2>6. l \notin Flashing /\ l \in Labels \ {"fault", "build"} /\ l # "idle"
    BY <2>3 DEF Flashing, Waiting, Labels
  <2> HIDE DEF l
  <2> QED
    BY <1>1, <1>3, <1>4, <2>1, <2>2, <2>4, <2>5, <2>6, SurvivePcStep
<1>6. CASE MutexTimeout(t) \/ nvs_read_raw_data(t) \/ nvs_get_data_pointer(t)
  <2>1. pc' = [pc EXCEPT ![t] = "idle"]
    BY <1>6 DEF MutexTimeout, nvs_read_raw_data, nvs_get_data_pointer
  <2>2. "idle" \notin Flashing /\ "idle" \in Labels \ {"fault", "build"}
    BY DEF Flashing, Waiting, Labels
  <2> QED
    BY <1>1, <1>3, <1>4, <2>1, <2>2, SurvivePcStep
<1> QED
  BY <1>5, <1>6

\* The record of an add is put together on the stack.
LEMMA SurviveHandle ==
  ASSUME NoRewrites, AnswerInv, SurviveInv, NEW t \in Task, SetHandle(t)
  PROVE  SurviveInv'
<1> DEFINE r == req[t]
           fresh == [recs |-> <<RecordOf(r)>>, len |-> Words(r)]
<1>1. /\ pc[t] = "handle"
      /\ pc' = [pc EXCEPT ![t] = AfterHandle(r.op)]
      /\ arr_data' = IF r.op = "add" THEN [arr_data EXCEPT ![t] = fresh] ELSE arr_data
      /\ UNCHANGED <<usage, page, flash, soc, notify, req, promised>>
  BY DEF SetHandle
<1>2. pc[t] \in Holding /\ pc[t] # "idle" /\ LockInv /\ TaskSurvives(t)
  BY <1>1 DEF Holding, Labels, AnswerInv, SurviveInv
<1>3. r \in usage[t] /\ r.op \in Mutations \ Rewrites
  BY <1>1, <1>2, SurvivingCall DEF TaskSurvives, CallInv
<1>4. /\ pc'[t] = IF r.op = "add" THEN "write" ELSE "erase"
      /\ r.op = "add" => arr_data'[t] = fresh
      /\ \A s \in Task \ {t} : pc'[s] = pc[s]
  BY <1>1, <1>2 DEF AnswerInv, LockInv, LockTypes, AfterHandle
<1>5. TaskSurvives(t)'
  <2>1. CallInv(t)'
    BY <1>1, <1>3, <1>4 DEF CallInv, Flashing, Waiting, Mutations, Rewrites
  <2>2. AddSurvives(t)'
    BY <1>1, <1>2, <1>4 DEF AddSurvives, TaskSurvives
  <2>3. EraseInv(t)'
    BY <1>4 DEF EraseInv
  <2> QED
    BY <2>1, <2>2, <2>3 DEF TaskSurvives
<1>6. \A s \in Task : TaskSurvives(s)'
  BY <1>1, <1>2, <1>4, <1>5, SurvivingOthers
<1>7. FlashInv'
  <2> SUFFICES ASSUME flash # NoFlash PROVE FlashInv'
    BY <1>1 DEF FlashInv
  <2>1. flash.owner \in Task \ {t}
    BY <1>1 DEF AnswerInv, ChainInv, Waiting
  <2> QED
    BY <1>1, <1>4, <2>1 DEF SurviveInv, FlashInv
<1>8. SurviveTypes'
  BY <1>1 DEF SurviveInv, SurviveTypes
<1> QED
  BY <1>6, <1>7, <1>8 DEF SurviveInv

\* nvs_erase_partition ends every promise before the page goes.
LEMMA SurviveStartErase ==
  ASSUME NoRewrites, AnswerInv, SurviveInv, NEW t \in Task, StartErase(t)
  PROVE  SurviveInv'
<1> DEFINE r == req[t]
<1>1. pc[t] = "erase" /\ flash = NoFlash
  BY NoneInProgress DEF StartErase
<1>2. pc[t] \in Holding /\ pc[t] # "idle" /\ LockInv /\ TaskSurvives(t)
  BY <1>1 DEF Holding, Labels, AnswerInv, SurviveInv
<1>3. r \in usage[t] /\ r.op = "erase"
  <2>1. r \in usage[t] /\ r.op \notin Rewrites
    BY <1>2, SurvivingCall
  <2>2. r.op \in Mutations /\ r.op # "add"
    BY <1>1, <1>2 DEF TaskSurvives, CallInv, Flashing
  <2> QED
    BY <2>1, <2>2 DEF Mutations
<1>4. /\ flash' = [kind |-> "erase", recs |-> <<>>, pad |-> FALSE, owner |-> t, live |-> TRUE]
      /\ pc' = [pc EXCEPT ![t] = "erase_wait"]
      /\ promised' = [u \in Uid |-> NoVal]
      /\ UNCHANGED <<usage, page, soc, notify, req, arr_data>>
  BY <1>1, <1>3 DEF StartErase
<1>5. /\ pc'[t] = "erase_wait"
      /\ flash'.kind = "erase"
      /\ flash'.owner = t
      /\ \A s \in Task \ {t} : pc'[s] = pc[s]
  BY <1>2, <1>4 DEF LockInv, LockTypes
<1>6. TaskSurvives(t)'
  <2>1. CallInv(t)'
    BY <1>3, <1>4, <1>5 DEF CallInv, Flashing, Waiting, Mutations
  <2>2. AddSurvives(t)' /\ EraseInv(t)'
    BY <1>4, <1>5 DEF AddSurvives, EraseInv
  <2> QED
    BY <2>1, <2>2 DEF TaskSurvives
<1>7. \A s \in Task : TaskSurvives(s)'
  BY <1>2, <1>4, <1>5, <1>6, SurvivingOthers
<1>8. FlashInv'
  BY <1>5 DEF FlashInv
<1>9. SurviveTypes'
  BY <1>4 DEF SurviveInv, SurviveTypes
<1> QED
  BY <1>7, <1>8, <1>9 DEF SurviveInv

\* A call that returns leaves nothing behind it.
LEMMA SurviveReturn ==
  ASSUME NoRewrites, AnswerInv, SurviveInv, NEW t \in Task, NEW e, Return(t, e),
         flash = NoFlash, pc[t] \in Flashing,
         UNCHANGED <<usage, page, soc, req>>
  PROVE  SurviveInv'
<1> DEFINE r == req[t]
<1>1. pc[t] \in Holding /\ pc[t] # "idle" /\ LockInv
  BY DEF Flashing, Waiting, Holding, Labels, AnswerInv
<1>2. /\ pc' = [pc EXCEPT ![t] = "idle"]
      /\ promised' = Promise(r, Returned(r.op, e))
      /\ flash' = NoFlash
  BY DEF Return
<1>3. r \in Request /\ r.op \notin Rewrites /\ r.uid \in Uid /\ r.val \in Val
  BY <1>1, SurvivingCall DEF Request
<1>4. \/ UNCHANGED promised
      \/ r.op = "add" /\ e = "nrf_OK" /\ promised' = [promised EXCEPT ![r.uid] = r.val]
  BY <1>2, <1>3 DEF Promise, Returned, Rewrites
<1>5. /\ pc'[t] = "idle"
      /\ \A s \in Task \ {t} : pc'[s] = pc[s]
  BY <1>1, <1>2 DEF LockInv, LockTypes
<1>6. TaskSurvives(t)'
  BY <1>5 DEF TaskSurvives, CallInv, AddSurvives, EraseInv
<1>7. \A s \in Task : TaskSurvives(s)'
  BY <1>1, <1>5, <1>6, SurvivingOthers
<1>8. FlashInv'
  BY <1>2 DEF FlashInv
<1>9. SurviveTypes'
  BY <1>3, <1>4 DEF SurviveInv, SurviveTypes
<1> QED
  BY <1>7, <1>8, <1>9 DEF SurviveInv

\* The write of an add is the whole record and no word more.
LEMMA SurviveStartWrite ==
  ASSUME NoRewrites, AnswerInv, SurviveInv, NEW t \in Task, StartWrite(t)
  PROVE  SurviveInv'
<1> DEFINE r == req[t]
           a == arr_data[t]
<1>1. pc[t] = "write" /\ flash = NoFlash /\ UNCHANGED <<usage, page, soc, notify, req>>
  BY NoneInProgress DEF StartWrite
<1>2. pc[t] \in Holding /\ pc[t] \in Flashing /\ pc[t] # "idle" /\ LockInv /\ TaskSurvives(t)
  BY <1>1 DEF Flashing, Holding, Labels, AnswerInv, SurviveInv
<1>3. r \in Request /\ r \in usage[t] /\ r.op = "add"
  <2>1. r \in Request /\ r \in usage[t] /\ r.op \notin Rewrites
    BY <1>2, SurvivingCall
  <2>2. r.op \in Mutations /\ r.op # "erase"
    BY <1>1, <1>2 DEF TaskSurvives, CallInv
  <2> QED
    BY <2>1, <2>2 DEF Mutations
<1>4. a = [recs |-> <<RecordOf(r)>>, len |-> Words(r)]
  BY <1>1, <1>2, <1>3 DEF TaskSurvives, AddSurvives
<1>5. CASE WriteRefused(t)
  <2>1. Return(t, "sd_error")
    BY <1>5 DEF StartWrite
  <2> QED
    BY <1>1, <1>2, <2>1, SurviveReturn
<1>6. CASE ~WriteRefused(t)
  <2>1. /\ flash' = [kind |-> "write", recs |-> a.recs,
                     pad |-> a.len > RecordWords(a.recs), owner |-> t, live |-> TRUE]
        /\ pc' = [pc EXCEPT ![t] = "write_wait"]
        /\ UNCHANGED <<arr_data, promised>>
    BY <1>6 DEF StartWrite
  <2>2. /\ pc'[t] = "write_wait"
        /\ flash'.kind = "write"
        /\ flash'.owner = t
        /\ \A s \in Task \ {t} : pc'[s] = pc[s]
    BY <1>2, <2>1 DEF LockInv, LockTypes
  <2>3. flash'.pad = FALSE
    <3>1. RecordWords(a.recs) = a.len /\ a.len \in Nat
      <4>1. r.uid \in Uid /\ r.n \in Nat /\ r.val \in Val /\ Meta \in Nat
        BY <1>3, PageAssumption DEF Request
      <4>2. RecordOf(r) \in Record /\ <<>> \in Seq(Record)
        BY <4>1 DEF RecordOf, Record
      <4>3. <<RecordOf(r)>> = Append(<<>>, RecordOf(r))
        BY <4>2
      <4>4. RecordWords(<<RecordOf(r)>>) = 0 + Words(RecordOf(r))
        BY <4>2, <4>3, WordsAppended, WordsCounted
      <4>5. Words(RecordOf(r)) = Words(r) /\ Words(r) \in Nat
        BY <4>1 DEF Words, RecordOf
      <4> QED
        BY <1>4, <4>4, <4>5
    <3>2. (a.len > RecordWords(a.recs)) = FALSE
      BY <3>1
    <3> QED
      BY <2>1, <3>2
  <2>4. \A s \in Task : notify[s] = "none"
    BY <1>1, <1>2 DEF AnswerInv, ChainInv, Flashing, Waiting
  <2>5. soc = <<>>
    BY <1>1, <1>2 DEF AnswerInv, ChainInv, Waiting
  <2>6. TaskSurvives(t)'
    <3>1. CallInv(t)'
      BY <1>1, <1>3, <2>2 DEF CallInv, Flashing, Waiting, Mutations
    <3>2. AddSurvives(t)'
      BY <1>1, <1>2, <2>1, <2>2, <2>4, <2>5 DEF AddSurvives, TaskSurvives, ToldOK
    <3>3. EraseInv(t)'
      BY <2>2 DEF EraseInv
    <3> QED
      BY <3>1, <3>2, <3>3 DEF TaskSurvives
  <2>7. \A s \in Task : TaskSurvives(s)'
    BY <1>1, <1>2, <2>2, <2>6, SurvivingOthers
  <2>8. FlashInv'
    BY <2>2, <2>3 DEF FlashInv
  <2>9. SurviveTypes'
    BY <1>1, <2>1 DEF SurviveInv, SurviveTypes
  <2> QED
    BY <2>7, <2>8, <2>9 DEF SurviveInv
<1> QED
  BY <1>5, <1>6

\* The end of a call that waited.
LEMMA SurviveAnswers ==
  ASSUME NoRewrites, AnswerInv, SurviveInv, NEW t \in Task, EraseAnswer(t) \/ WriteAnswer(t)
  PROVE  SurviveInv'
<1> DEFINE r == req[t]
<1>1. /\ pc[t] \in Waiting
      /\ flash = NoFlash
      /\ UNCHANGED <<usage, page, soc, req>>
  BY AnsweredDone DEF EraseAnswer, WriteAnswer, Waiting
<1>2. pc[t] \in Flashing /\ pc[t] # "idle" /\ TaskSurvives(t)
  BY <1>1 DEF Flashing, Waiting, SurviveInv
<1>3. r.op \notin Rewrites /\ r.op \in Mutations
  BY <1>2, SurvivingCall DEF TaskSurvives, CallInv
<1>4. CASE EraseAnswer(t)
  <2>1. pc[t] = "erase_wait" /\ r.op = "erase"
    BY <1>2, <1>3, <1>4 DEF EraseAnswer, TaskSurvives, CallInv, Mutations
  <2>2. Return(t, notify[t])
    BY <1>4, <2>1 DEF EraseAnswer
  <2> QED
    BY <1>1, <1>2, <2>1, <2>2, SurviveReturn
<1>5. CASE WriteAnswer(t)
  <2>1. pc[t] = "write_wait" /\ Return(t, notify[t])
    BY <1>5 DEF WriteAnswer
  <2> QED
    BY <1>1, <1>2, <2>1, SurviveReturn
<1> QED
  BY <1>4, <1>5

\* The event's outcome is handed on as it is.
LEMMA SurviveEvent ==
  ASSUME AnswerInv, SurviveInv, nrf_soc_event_handler
  PROVE  SurviveInv'
<1>1. /\ UNCHANGED <<usage, page, flash, pc, req, arr_data, promised>>
      /\ soc # <<>>
      /\ soc' = <<>>
      /\ notify' = Notified(Head(soc))
  BY DEF nrf_soc_event_handler, AnswerInv, ChainInv
<1>2. \A s \in Task : ToldOK(s)' => ToldOK(s)
  BY <1>1 DEF ToldOK, Notified, NotifyValue, AnswerInv, ChainInv
<1>3. ASSUME NEW s \in Task PROVE TaskSurvives(s)'
  <2>1. TaskSurvives(s)
    BY DEF SurviveInv
  <2>2. AddSurvives(s)'
    BY <1>1, <1>2, <2>1 DEF TaskSurvives, AddSurvives
  <2>3. CallInv(s)' /\ EraseInv(s)'
    BY <1>1, <2>1 DEF TaskSurvives, CallInv, EraseInv
  <2> QED
    BY <2>2, <2>3 DEF TaskSurvives
<1>4. SurviveTypes' /\ FlashInv'
  BY <1>1 DEF SurviveInv, SurviveTypes, FlashInv
<1> QED
  BY <1>3, <1>4 DEF SurviveInv

\* Steps that touch none of what the invariant is about.
LEMMA SurviveIdle ==
  ASSUME SurviveInv,
         UNCHANGED <<usage, page, flash, soc, notify, pc, req, arr_data, promised>>
  PROVE  SurviveInv'
<1>1. ASSUME NEW s \in Task PROVE TaskSurvives(s)'
  BY DEF SurviveInv, TaskSurvives, CallInv, AddSurvives, EraseInv, ToldOK
<1>2. SurviveTypes' /\ FlashInv'
  BY DEF SurviveInv, SurviveTypes, FlashInv
<1> QED
  BY <1>1, <1>2 DEF SurviveInv

\* The operation in progress: an erase of everything, or the record of an add.
LEMMA InProgress ==
  ASSUME NoRewrites, AnswerInv, SurviveInv, NEW t \in Task, t = flash.owner, flash # NoFlash
  PROVE  /\ req[t] \in Request
         /\ req[t] \in usage[t]
         /\ pc[t] \in Holding
         /\ soc = <<>>
         /\ notify[t] = "none"
         /\ TaskSurvives(t)
         /\ \/ /\ flash.kind = "erase"
               /\ pc[t] = "erase_wait"
               /\ req[t].op = "erase"
               /\ \A u \in Uid : promised[u] = NoVal
            \/ /\ flash.kind = "write"
               /\ pc[t] = "write_wait"
               /\ req[t].op = "add"
               /\ flash.live
               /\ flash.pad = FALSE
               /\ flash.recs = <<RecordOf(req[t])>>
               /\ ~Holds(page.recs, req[t].uid)
<1>1. /\ pc[t] \in Waiting
      /\ soc = <<>>
      /\ notify[t] = "none"
      /\ flash.live
      /\ flash.kind = "write" => flash.recs = arr_data[t].recs
  BY DEF AnswerInv, ChainInv
<1>2. \/ flash.kind = "erase" /\ pc[t] = "erase_wait"
      \/ flash.kind = "write" /\ pc[t] = "write_wait" /\ flash.pad = FALSE
  BY DEF SurviveInv, FlashInv
<1>3. pc[t] \in Holding /\ pc[t] \in Flashing /\ pc[t] # "idle" /\ TaskSurvives(t)
  BY <1>2 DEF Flashing, Waiting, Holding, Labels, SurviveInv
<1>4. req[t] \in Request /\ req[t] \in usage[t] /\ req[t].op \notin Rewrites
  BY <1>3, SurvivingCall
<1>5. CallInv(t) /\ AddSurvives(t) /\ EraseInv(t)
  BY <1>3 DEF TaskSurvives
<1>6. req[t].op \in {"add", "erase"}
  BY <1>3, <1>4, <1>5 DEF CallInv, Mutations
<1>7. CASE flash.kind = "erase" /\ pc[t] = "erase_wait"
  <2>1. req[t].op = "erase"
    BY <1>5, <1>6, <1>7 DEF CallInv
  <2> QED
    BY <1>1, <1>3, <1>4, <1>5, <1>7, <2>1 DEF EraseInv
<1>8. CASE flash.kind = "write" /\ pc[t] = "write_wait" /\ flash.pad = FALSE
  <2>1. req[t].op = "add"
    BY <1>5, <1>6, <1>8 DEF CallInv
  <2>2. arr_data[t] = [recs |-> <<RecordOf(req[t])>>, len |-> Words(req[t])]
    BY <1>5, <1>8, <2>1 DEF AddSurvives
  <2>3. ~Holds(page.recs, req[t].uid)
    BY <1>5, <1>8, <2>1 DEF AddSurvives
  <2>4. flash.recs = <<RecordOf(req[t])>>
    BY <1>1, <1>8, <2>2
  <2> QED
    BY <1>1, <1>3, <1>4, <1>8, <2>1, <2>3, <2>4
<1> QED
  BY <1>2, <1>7, <1>8

\* The uids whose promise p keeps.
Found(p) == {u \in Uid : promised[u] # NoVal => Stored(p.recs, u) = promised[u]}

\* However an operation ends, the page keeps its promises, unless it was a write
\* over a torn header.
LEMMA SurviveUnfinished ==
  ASSUME NoRewrites, AnswerInv, SurviveInv, NEW p \in Unfinished
  PROVE  /\ p \in Page
         /\ (page.tail = "sod" /\ flash.kind = "write") \/ Found(page) \subseteq Found(p)
<1>1. page \in Page
  BY DEF SurviveInv, SurviveTypes
<1>2. CASE flash = NoFlash \/ p = page
  BY <1>1, <1>2 DEF Unfinished
<1>3. CASE flash # NoFlash /\ p # page
  <2>1. PICK t \in Task : t = flash.owner
    BY <1>3 DEF AnswerInv, ChainInv
  <2> DEFINE r == req[t]
  <2>2. /\ r \in Request
        /\ \/ flash.kind = "erase" /\ \A u \in Uid : promised[u] = NoVal
           \/ /\ flash.kind = "write"
              /\ flash.recs = <<RecordOf(r)>>
              /\ ~Holds(page.recs, r.uid)
    BY <1>3, <2>1, InProgress
  <2>3. CASE flash.kind = "erase" /\ \A u \in Uid : promised[u] = NoVal
    <3>1. p = ErasedPage
      BY <1>3, <2>3 DEF Unfinished
    <3>2. ErasedPage \in Page
      BY DEF ErasedPage, Page
    <3> QED
      BY <2>3, <3>1, <3>2 DEF Found
  <2>4. CASE flash.kind = "write" /\ flash.recs = <<RecordOf(r)>> /\ ~Holds(page.recs, r.uid)
    <3>1. p \in Interrupted(page, <<RecordOf(r)>>)
      BY <1>3, <2>4 DEF Unfinished
    <3>2. /\ p \in Page
          /\ \/ page.tail = "sod"
             \/ p.recs = page.recs
             \/ \E y \in Record : y.uid \in {r.uid, NoUid} /\ p.recs = Append(page.recs, y)
      BY <1>1, <2>2, <3>1, AddOutcome
    <3>3. ASSUME page.tail # "sod", NEW u \in Uid, promised[u] # NoVal,
                 Stored(page.recs, u) = promised[u]
          PROVE  Stored(p.recs, u) = promised[u]
      <4>1. CASE p.recs = page.recs
        BY <3>3, <4>1
      <4>2. ASSUME NEW y \in Record, y.uid \in {r.uid, NoUid}, p.recs = Append(page.recs, y)
            PROVE  Stored(p.recs, u) = promised[u]
        <5>1. page.recs \in Seq(Record) /\ u # NoUid
          BY <1>1, PageAssumption DEF Page
        <5>2. Holds(page.recs, u)
          BY <3>3, <4>2, <5>1, StoredAppended
        <5>3. Stored(Append(page.recs, y), u) = Stored(page.recs, u)
          BY <4>2, <5>1, <5>2, StoredAppended
        <5> QED
          BY <3>3, <4>2, <5>3
      <4> QED
        BY <3>2, <3>3, <4>1, <4>2
    <3> QED
      BY <2>4, <3>2, <3>3 DEF Found
  <2> QED
    BY <2>2, <2>3, <2>4
<1> QED
  BY <1>2, <1>3

\* The end of an operation, with the event e.
LEMMA SurviveEnd ==
  ASSUME NoRewrites, WritersApart, AnswerInv, SurviveInv, flash # NoFlash,
         NEW t \in Task, t = flash.owner, NEW e,
         page' \in Unfinished,
         flash' = NoFlash,
         soc' = Append(soc, e),
         UNCHANGED <<usage, notify, pc, req, arr_data, promised>>,
         req[t].op = "add" /\ e = "success" /\ page'.tail # "blocked"
            => Stored(page'.recs, req[t].uid) = req[t].val
  PROVE  SurviveInv'
<1> DEFINE r == req[t]
<1>1. /\ r \in usage[t]
      /\ pc[t] \in Holding
      /\ soc = <<>>
      /\ notify[t] = "none"
      /\ TaskSurvives(t)
      /\ \/ r.op = "add" /\ pc[t] = "write_wait"
         \/ r.op = "erase" /\ pc[t] = "erase_wait"
  BY InProgress
<1>2. soc' = <<e>> /\ Head(soc') = e
  BY <1>1
<1>3. ToldOK(t)' => e = "success"
  BY <1>1, <1>2 DEF ToldOK
<1>4. page' \in Page
  BY SurviveUnfinished
<1>5. TaskSurvives(t)'
  <2>1. CallInv(t)' /\ EraseInv(t)'
    BY <1>1 DEF TaskSurvives, CallInv, EraseInv
  <2>2. AddSurvives(t)'
    BY <1>1, <1>3 DEF TaskSurvives, AddSurvives
  <2> QED
    BY <2>1, <2>2 DEF TaskSurvives
<1>6. ASSUME NEW s \in Task, s # t PROVE TaskSurvives(s)'
  <2>1. pc[s] \in {"idle", "take"} /\ TaskSurvives(s)
    BY <1>1, <1>6, OthersWait DEF AnswerInv, SurviveInv
  <2>2. pc[s] = "take" => req[s] \in usage[s]
    BY <2>1 DEF TaskSurvives, CallInv
  <2>3. ~(pc[s] = "take" /\ req[s].op = "add")
    BY <1>1, <1>6, <2>2 DEF WritersApart, SurviveInv, SurviveTypes, Mutations, Rewrites
  <2> QED
    BY <2>1, <2>3, SurvivingBystander
<1>7. SurviveTypes'
  BY <1>4 DEF SurviveInv, SurviveTypes
<1>8. FlashInv'
  BY DEF FlashInv
<1> QED
  BY <1>5, <1>6, <1>7, <1>8 DEF SurviveInv

\* A completed add has its record on the page, unless the page is blocked.
LEMMA SurviveSuccess ==
  ASSUME NoRewrites, WritersApart, AnswerInv, SurviveInv, FlashSuccess
  PROVE  SurviveInv'
<1>1. /\ flash # NoFlash
      /\ flash' = NoFlash
      /\ soc' = Append(soc, "success")
      /\ UNCHANGED <<usage, notify, pc, req, arr_data, promised>>
  BY DEF FlashSuccess
<1>2. PICK t \in Task : t = flash.owner
  BY <1>1 DEF AnswerInv, ChainInv
<1> DEFINE r == req[t]
<1>3. CASE flash.kind = "erase"
  <2>1. page' = ErasedPage /\ page' \in Unfinished
    BY <1>1, <1>3 DEF FlashSuccess, Unfinished
  <2>2. r.op # "add"
    BY <1>1, <1>2, <1>3, InProgress
  <2> QED
    BY <1>1, <1>2, <2>1, <2>2, SurviveEnd
<1>4. CASE flash.kind # "erase"
  <2>1. /\ r \in Request
        /\ flash.live
        /\ flash.pad = FALSE
        /\ flash.recs = <<RecordOf(r)>>
        /\ ~Holds(page.recs, r.uid)
    BY <1>1, <1>2, <1>4, InProgress
  <2>2. page' = Written(page, flash.recs, FALSE)
    BY <1>4, <2>1 DEF FlashSuccess
  <2>3. page' \in Unfinished
    BY <1>1, <1>4, <2>2 DEF Unfinished, Interrupted
  <2>4. page \in Page
    BY DEF SurviveInv, SurviveTypes
  <2>5. RecordOf(r) \in Record /\ RecordOf(r).uid = r.uid /\ RecordOf(r).val = r.val
    BY <2>1, PageAssumption DEF RecordOf, Record, Request
  <2>6. ASSUME page'.tail # "blocked" PROVE Stored(page'.recs, r.uid) = r.val
    <3>1. page.tail = "clean"
      BY <2>2, <2>4, <2>6 DEF Written, Page
    <3>2. page'.recs = page.recs \o <<RecordOf(r)>>
      BY <2>1, <2>2, <3>1 DEF Written
    <3>3. page.recs \in Seq(Record)
      BY <2>4 DEF Page
    <3>4. page'.recs = Append(page.recs, RecordOf(r))
      BY <2>5, <3>2, <3>3
    <3>5. ~Holds(page.recs, RecordOf(r).uid)
      BY <2>1, <2>5
    <3> HIDE DEF r
    <3>6. Stored(Append(page.recs, RecordOf(r)), RecordOf(r).uid) = RecordOf(r).val
      BY <2>5, <3>3, <3>5, StoredAppended
    <3> QED
      BY <2>5, <3>4, <3>6
  <2> QED
    BY <1>1, <1>2, <2>3, <2>6, SurviveEnd
<1> QED
  BY <1>3, <1>4

\* A flash error leaves part of the record behind the others.
LEMMA SurviveError ==
  ASSUME NoRewrites, WritersApart, AnswerInv, SurviveInv, FlashError
  PROVE  SurviveInv'
<1>1. /\ flash # NoFlash
      /\ flash' = NoFlash
      /\ page' \in Unfinished
      /\ soc' = Append(soc, "error")
      /\ UNCHANGED <<usage, notify, pc, req, arr_data, promised>>
  BY DEF FlashError
<1>2. PICK t \in Task : t = flash.owner
  BY <1>1 DEF AnswerInv, ChainInv
<1> QED
  BY <1>1, <1>2, SurviveEnd

\* After a boot no call is in progress.
LEMMA SurvivePower ==
  ASSUME NoRewrites, AnswerInv, SurviveInv, PowerLoss
  PROVE  SurviveInv'
<1>1. /\ page' \in Unfinished
      /\ flash' = NoFlash
      /\ pc' = [t \in Task |-> "idle"]
      /\ req' = [t \in Task |-> SomeRequest]
      /\ UNCHANGED <<usage, promised>>
  BY DEF PowerLoss
<1>2. page' \in Page
  BY <1>1, SurviveUnfinished
<1>3. \A s \in Task : TaskSurvives(s)'
  BY <1>1 DEF TaskSurvives, CallInv, AddSurvives, EraseInv
<1>4. SurviveTypes'
  BY <1>1, <1>2 DEF SurviveInv, SurviveTypes
<1>5. FlashInv'
  BY <1>1 DEF FlashInv
<1> QED
  BY <1>3, <1>4, <1>5 DEF SurviveInv

\* Every step but an expired wait keeps the invariant.
LEMMA SurviveNext ==
  ASSUME DeployedUse, AnswerInv, BudgetInv, SurviveInv, [Next]_vars, NoneExpired'
  PROVE  SurviveInv'
<1>0. NoRewrites /\ WritersApart
  BY DEF DeployedUse
<1>1. CASE nvs_flash_init \/ UNCHANGED vars
  BY <1>1, SurviveIdle DEF nvs_flash_init, vars
<1>2. ASSUME NEW t \in Task, Call(t) PROVE SurviveInv'
  BY <1>0, <1>2, SurviveCall
<1>3. ASSUME NEW t \in Task, BuildArrData(t) PROVE FALSE
  BY <1>0, <1>3, SurvivingCall DEF BuildArrData
<1>4. ASSUME NEW t \in Task, TaskStep(t) PROVE SurviveInv'
  BY <1>0, <1>3, <1>4, SurvivePcSteps, SurviveHandle, SurviveStartErase, SurviveStartWrite,
     SurviveAnswers DEF TaskStep
<1>5. ASSUME NEW t \in Task, NotifyTimeout(t) PROVE FALSE
  BY <1>5, NvsAssumption DEF NotifyTimeout, BudgetInv, NoneExpired
<1>6. CASE FlashSuccess
  BY <1>0, <1>6, SurviveSuccess
<1>7. CASE FlashError
  BY <1>0, <1>7, SurviveError
<1>8. CASE nrf_soc_event_handler
  BY <1>8, SurviveEvent
<1>9. CASE PowerLoss
  BY <1>0, <1>9, SurvivePower
<1> QED
  BY <1>1, <1>2, <1>4, <1>5, <1>6, <1>7, <1>8, <1>9 DEF Next

\* The records of an earlier boot are what was promised.
LEMMA SurviveInit == ASSUME Init PROVE SurviveInv
<1>1. /\ page = [recs |-> StoredBefore, tail |-> "clean"]
      /\ \A t \in Task : pc[t] = "idle"
      /\ flash = NoFlash
      /\ promised = [u \in Uid |-> Stored(StoredBefore, u)]
      /\ usage \in Usages
      /\ req = [t \in Task |-> req[t]]
  BY DEF Init
<1>a. StoredBefore \in Seq(GoodRecord)
  BY NvsAssumption DEF GoodRecord
<1>2. StoredBefore \in Seq(Record)
  <2>2. \A i \in 1 .. Len(StoredBefore) : StoredBefore[i] \in GoodRecord
    BY <1>a
  <2>3. GoodRecord \subseteq Record
    BY PageAssumption DEF Record, GoodRecord
  <2>4. StoredBefore \in [1 .. Len(StoredBefore) -> Record] /\ Len(StoredBefore) \in Nat
    BY <1>a, <2>2, <2>3
  <2> QED
    BY <2>4
<1>3. promised \in [Uid -> Val \cup {NoVal}]
  <2> SUFFICES ASSUME NEW u \in Uid PROVE Stored(StoredBefore, u) \in Val \cup {NoVal}
    BY <1>1
  <2>2. Stored(StoredBefore, u) = IF First(StoredBefore, u) = 0 THEN NoVal
                                  ELSE StoredBefore[First(StoredBefore, u)].val
    BY DEF Stored, First
  <2>3. First(StoredBefore, u) # 0 => First(StoredBefore, u) \in 1 .. Len(StoredBefore)
    BY <1>2, FirstIs
  <2>4. ASSUME NEW i \in 1 .. Len(StoredBefore) PROVE StoredBefore[i].val \in Val
    <3>1. StoredBefore[i] \in GoodRecord
      BY <1>a
    <3> QED
      BY <3>1 DEF GoodRecord
  <2> QED
    BY <2>2, <2>3, <2>4
<1>4. page \in Page
  BY <1>1, <1>2 DEF Page
<1>5. FlashInv
  BY <1>1 DEF FlashInv
<1>6. \A t \in Task : TaskSurvives(t)
  BY <1>1 DEF TaskSurvives, CallInv, AddSurvives, EraseInv
<1> QED
  BY <1>1, <1>3, <1>4, <1>5, <1>6 DEF SurviveInv, SurviveTypes

\* The end of a call only makes a promise that the page keeps, or that a blocked
\* page swallows.
LEMMA ReturnKeeps ==
  ASSUME NoRewrites, AnswerInv, SurviveInv, NEW t \in Task,
         StartErase(t) \/ StartWrite(t) \/ EraseAnswer(t) \/ WriteAnswer(t),
         page.tail # "blocked"
  PROVE  Found(page) \subseteq Found(page)'
<1> DEFINE r == req[t]
<1>1. /\ UNCHANGED page
      /\ promised \in [Uid -> Val \cup {NoVal}]
      /\ pc[t] # "idle"
      /\ TaskSurvives(t)
  BY DEF StartErase, StartWrite, EraseAnswer, WriteAnswer, SurviveInv, SurviveTypes
<1>2. r.uid \in Uid /\ r.val \in Val /\ r.op \notin Rewrites
  BY <1>1, SurvivingCall DEF Request
<1>3. CASE UNCHANGED promised
  BY <1>1, <1>3 DEF Found
<1>4. CASE promised' = [u \in Uid |-> NoVal]
  BY <1>4 DEF Found
<1>5. ASSUME NEW e, Return(t, e)
      PROVE  \/ UNCHANGED promised
             \/ r.op = "add" /\ e = "nrf_OK" /\ promised' = [promised EXCEPT ![r.uid] = r.val]
  BY <1>2, <1>5 DEF Return, Promise, Returned, Rewrites
<1>6. CASE StartErase(t) \/ StartWrite(t)
  BY <1>3, <1>4, <1>5, <1>6 DEF StartErase, StartWrite
<1>7. CASE EraseAnswer(t)
  <2>1. r.op # "add"
    BY <1>1, <1>7 DEF EraseAnswer, TaskSurvives, CallInv
  <2> QED
    BY <1>3, <1>5, <1>7, <2>1 DEF EraseAnswer
<1>8. CASE WriteAnswer(t)
  <2>1. pc[t] = "write_wait" /\ Return(t, notify[t])
    BY <1>8 DEF WriteAnswer
  <2>2. r.op = "add" /\ notify[t] = "nrf_OK" => Stored(page.recs, r.uid) = r.val
    BY <1>1, <2>1 DEF TaskSurvives, AddSurvives, ToldOK
  <2>3. CASE r.op = "add" /\ notify[t] = "nrf_OK" /\ promised' = [promised EXCEPT ![r.uid] = r.val]
    BY <1>1, <1>2, <2>2, <2>3 DEF Found
  <2> QED
    BY <1>3, <1>5, <2>1, <2>3
<1> QED
  BY <1>6, <1>7, <1>8

\* What every step does to the promises.
LEMMA FoundStays ==
  ASSUME DeployedUse, AnswerInv, BudgetInv, SurviveInv, [Next]_vars, NoneExpired',
         page.tail # "blocked", ~(page.tail = "sod" /\ flash.kind = "write")
  PROVE  Found(page) \subseteq Found(page)'
<1>0. NoRewrites
  BY DEF DeployedUse
<1>1. CASE UNCHANGED <<page, promised>>
  BY <1>1 DEF Found
<1>2. ASSUME page' \in Unfinished, UNCHANGED promised PROVE Found(page) \subseteq Found(page)'
  <2>1. Found(page) \subseteq Found(page')
    BY <1>0, <1>2, SurviveUnfinished
  <2> QED
    BY <1>2, <2>1 DEF Found
<1>3. CASE FlashError \/ PowerLoss
  BY <1>2, <1>3 DEF FlashError, PowerLoss
<1>4. CASE FlashSuccess
  <2>1. flash # NoFlash /\ UNCHANGED promised
    BY <1>4 DEF FlashSuccess
  <2>2. flash.owner \in Task /\ flash.live
    BY <2>1 DEF AnswerInv, ChainInv
  <2>3. flash.kind # "erase" => flash.pad = FALSE
    BY <1>0, <2>1, <2>2, InProgress
  <2>4. page' \in Unfinished
    BY <1>4, <2>1, <2>2, <2>3 DEF FlashSuccess, Unfinished, Interrupted
  <2> QED
    BY <1>2, <2>1, <2>4
<1>5. ASSUME NEW t \in Task, BuildArrData(t) PROVE FALSE
  BY <1>0, <1>5, SurvivingCall DEF BuildArrData
<1>6. ASSUME NEW t \in Task, TaskStep(t) PROVE Found(page) \subseteq Found(page)'
  <2>1. CASE StartErase(t) \/ StartWrite(t) \/ EraseAnswer(t) \/ WriteAnswer(t)
    BY <1>0, <2>1, ReturnKeeps
  <2>2. CASE TakeMutex(t) \/ MutexTimeout(t) \/ SetHandle(t) \/ nvs_read_raw_data(t)
               \/ nvs_get_data_pointer(t)
    BY <1>1, <2>2
    DEF TakeMutex, MutexTimeout, SetHandle, nvs_read_raw_data, nvs_get_data_pointer
  <2> QED
    BY <1>5, <1>6, <2>1, <2>2 DEF TaskStep
<1>7. ASSUME NEW t \in Task, NotifyTimeout(t) PROVE FALSE
  BY <1>7, NvsAssumption DEF NotifyTimeout, BudgetInv, NoneExpired
<1>8. CASE nvs_flash_init \/ nrf_soc_event_handler \/ UNCHANGED vars
  BY <1>1, <1>8 DEF nvs_flash_init, nrf_soc_event_handler, vars
<1>9. ASSUME NEW t \in Task, Call(t) PROVE Found(page) \subseteq Found(page)'
  BY <1>1, <1>9 DEF Call
<1> QED
  BY <1>3, <1>4, <1>6, <1>7, <1>8, <1>9 DEF Next

\* Until a wait expires.
Surviving == AnswerInd /\ SurviveInd
StoreIsPage == NoneExpired => StoredRecs = page.recs

LEMMA SurvivingAlways == DeployedUse => (Spec => []Surviving)
<1> SUFFICES ASSUME DeployedUse PROVE Spec => []Surviving
  OBVIOUS
<1>1. Init => Surviving
  BY AnswerInit, SurviveInit DEF AnswerInd, SurviveInd, Surviving
<1>2. Surviving /\ [Next]_vars => Surviving'
  <2> SUFFICES ASSUME AnswerInd, SurviveInd, [Next]_vars PROVE AnswerInd' /\ SurviveInd'
    BY DEF Surviving
  <2>1. BudgetInv /\ BudgetInv' /\ (NoneExpired' => NoneExpired)
    BY BudgetNext DEF AnswerInd
  <2>2. AnswerInd'
    BY <2>1, AnswerNext DEF AnswerInd
  <2>3. SurviveInd'
    BY <2>1, SurviveNext DEF AnswerInd, SurviveInd
  <2> QED
    BY <2>2, <2>3
<1> QED
  BY <1>1, <1>2, PTL DEF Spec

\* Without rewrites the store is the page.
LEMMA StoreOnPage == ASSUME DeployedUse, Surviving PROVE StoreIsPage
<1> SUFFICES ASSUME NoneExpired PROVE StoredRecs = page.recs
  BY DEF StoreIsPage
<1>1. AnswerInv /\ SurviveInv
  BY DEF Surviving, AnswerInd, SurviveInd
<1>2. \A t \in Task : ~Rewriting(t)
  <2> SUFFICES ASSUME NEW t \in Task, Rewriting(t) PROVE FALSE
    OBVIOUS
  <2>1. pc[t] # "idle"
    BY DEF Rewriting
  <2> QED
    BY <1>1, <2>1, SurvivingCall DEF DeployedUse
<1> QED
  BY <1>1, <1>2, StoredRecsIs DEF AnswerInv, HeldRecs

\* In the firmware's use (DeployedUse, above), until a wait expires: no flash error
\* and no power loss, at any word of a write, loses a record nvs_add_data returned
\* nrf_OK for; it takes a write over a record header that one of them cut short,
\* or to a page such a write has blocked.
THEOREM LossNeedsTornHeader == DeployedUse => (Spec => LossOnlyOverTornHeader)
<1> SUFFICES ASSUME DeployedUse PROVE Spec => LossOnlyOverTornHeader
  OBVIOUS
<1>1. Surviving => StoreIsPage
  BY StoreOnPage
<1>2. ASSUME Surviving, StoreIsPage, StoreIsPage', [Next]_vars, NoneExpired',
             NEW u \in Uid, Lost(u)', page.tail # "blocked",
             ~(page.tail = "sod" /\ flash.kind = "write")
      PROVE  Lost(u)
  <2>1. BudgetInv /\ NoneExpired
    BY <1>2, BudgetNext DEF Surviving, AnswerInd
  <2>2. AnswerInv /\ SurviveInv
    BY <1>2, <2>1 DEF Surviving, AnswerInd, SurviveInd
  <2>3. Found(page) \subseteq Found(page)'
    BY <1>2, <2>1, <2>2, FoundStays
  <2>4. StoredRecs = page.recs /\ StoredRecs' = page'.recs
    BY <1>2, <2>1 DEF StoreIsPage
  <2>5. u \notin Found(page)' => u \notin Found(page)
    BY <2>3
  <2> QED
    BY <1>2, <2>4, <2>5 DEF Lost, Found
<1>3. Surviving /\ StoreIsPage /\ StoreIsPage' /\ [Next]_vars =>
        [NoneExpired' =>
          \A u \in Uid : Lost(u)' =>
              \/ Lost(u)
              \/ page.tail = "sod" /\ flash.kind = "write"
              \/ page.tail = "blocked"]_vars
  BY <1>2
<1> QED
  BY <1>1, <1>3, SurvivingAlways, PTL DEF Spec, LossOnlyOverTornHeader

============================================================================
