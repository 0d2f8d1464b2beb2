----------------------------- MODULE GattProofs -----------------------------
(***************************************************************************)
(* Theorems about GattClient, for every number of tasks, connections and   *)
(* calls: the mutex of the GATT client does its work, and until an answer  *)
(* is late each one reaches the call that caused it, whose caller gets the *)
(* data of that answer.                                                    *)
(***************************************************************************)
EXTENDS GattClient, TLAPS

Running == {"start", "wait", "copy", "expired"}

LockInv ==
    /\ mutex \in Owner
    /\ client_taskhandle \in Owner
    /\ pc \in [Task -> Labels]
    /\ MutualExclusion
    /\ \A t \in Task : client_taskhandle = t <=> pc[t] \in Running

LEMMA LockInit == Init => LockInv
  BY GattAssumption DEF Init, LockInv, MutualExclusion, Owner, Labels, Holding, Running

LEMMA LockTaskStep ==
  ASSUME LockInv, NEW t \in Task, TaskStep(t)
  PROVE  LockInv'
<1> USE GattAssumption DEF LockInv, MutualExclusion, Owner, Labels, Holding, Running
<1>1. CASE TakeMutex(t)
  BY <1>1 DEF TakeMutex, MutexFree
<1>2. CASE MutexTimeout(t)
  BY <1>2 DEF MutexTimeout
<1>3. CASE gatt_client_init(t)
  BY <1>3 DEF gatt_client_init, ReturnHolding, GiveBack
<1>4. CASE gatt_client_deinit(t)
  BY <1>4 DEF gatt_client_deinit, GiveBack
<1>5. CASE FindClient(t)
  BY <1>5 DEF FindClient, Return, Released, ReturnHolding
<1>6. CASE StartProcedure(t)
  BY <1>6 DEF StartProcedure, AfterStart, Return, Released
<1>7. CASE Answer(t)
  BY <1>7 DEF Answer, Return, Released
<1>8. CASE Copy(t)
  BY <1>8 DEF Copy, Return, Released
<1>9. CASE WaitExpires(t)
  BY <1>9 DEF WaitExpires, MayExpire
<1>10. CASE GiveUp(t)
  BY <1>10 DEF GiveUp, Return, Released
<1> QED
  BY <1>1, <1>2, <1>3, <1>4, <1>5, <1>6, <1>7, <1>8, <1>9, <1>10 DEF TaskStep

LEMMA LockNext == LockInv /\ [Next]_vars => LockInv'
<1> SUFFICES ASSUME LockInv, [Next]_vars PROVE LockInv'
  OBVIOUS
<1> USE GattAssumption DEF LockInv, MutualExclusion, Owner, Labels, Holding, Running
<1>1. ASSUME NEW t \in Task, Call(t) PROVE LockInv'
  BY <1>1 DEF Call
<1>2. ASSUME NEW t \in Task, TaskStep(t) PROVE LockInv'
  BY <1>2, LockTaskStep
<1>3. ASSUME NEW h \in Handle, Response(h) \/ WriteCmdSent(h) \/ LinkUp(h) \/ LinkDown(h)
      PROVE  LockInv'
  BY <1>3 DEF Response, WriteCmdSent, LinkUp, LinkDown
<1>4. CASE ble_gatt_client_handler
  BY <1>4 DEF ble_gatt_client_handler
<1>5. CASE UNCHANGED vars
  BY <1>5 DEF vars
<1> QED
  BY <1>1, <1>2, <1>3, <1>4, <1>5 DEF Next

\* client_struct, client_buff and client_taskhandle are used by one task at a
\* time.
THEOREM ClientMutexWorks == Spec => []MutualExclusion
<1>1. LockInv => MutualExclusion
  BY DEF LockInv
<1> QED
  BY <1>1, LockInit, LockNext, PTL DEF Spec

\* ble_gatt_client_handler never notifies a task that runs no procedure.
THEOREM HandlerNotifiesRunner == Spec => []HandleOwner
<1>1. LockInv => HandleOwner
  BY DEF LockInv, HandleOwner, Owner, Running
<1> QED
  BY <1>1, LockInit, LockNext, PTL DEF Spec

(***************************************************************************)
(* Without late answers a procedure, its event and its notification are    *)
(* three stages of one wait: at any time at most one of them exists, and   *)
(* the task it is for waits for it.                                        *)
(***************************************************************************)

\* Nothing that was started is on its way back.
Quiet == /\ proc = [h \in Handle |-> None]
         /\ tx = [h \in Handle |-> None]
         /\ events = <<>>
Silent == \A t \in Task : ~notify[t].set

Awaited(x) == /\ x.of \in Task
              /\ pc[x.of] = "wait"

InProcedure == \E h \in Handle, x \in [op : Op, of : Task] :
    /\ Awaited(x) /\ Silent /\ events = <<>>
    /\ \/ /\ proc = [g \in Handle |-> IF g = h THEN x ELSE None]
          /\ tx = [g \in Handle |-> None]
       \/ /\ tx = [g \in Handle |-> IF g = h THEN x ELSE None]
          /\ proc = [g \in Handle |-> None]

InEvent == \E e \in Event :
    /\ Awaited(e) /\ Silent /\ events = <<e>>
    /\ proc = [h \in Handle |-> None]
    /\ tx = [h \in Handle |-> None]

InNotice == /\ Quiet
            /\ \E t \in Task : /\ notify[t].set /\ notify[t].own /\ pc[t] = "wait"
                               /\ \A u \in Task \ {t} : ~notify[u].set

AnswerInv ==
    /\ LockInv
    /\ notify \in [Task -> [ok : BOOLEAN, own : BOOLEAN, set : BOOLEAN]]
    /\ req \in [Task -> Request]
    /\ link \subseteq Handle
    /\ (Quiet /\ Silent) \/ InProcedure \/ InEvent \/ InNotice

LEMMA AnswerInit == Init => AnswerInv
  BY LockInit, GattAssumption, TableAssumption
  DEF Init, AnswerInv, Quiet, Silent, NoNote, Idle, Request, Op, Procedures,
      WriteCmds, Discoveries, Reads

\* A call that returns when nothing is on its way leaves nothing behind.
LEMMA QuietAbandon ==
  ASSUME Quiet, NEW t \in Task, Abandon(t)
  PROVE  Quiet'
<1>1. \A h \in Handle : Disowned(proc[h], t) = None /\ Disowned(tx[h], t) = None
  BY GattAssumption DEF Quiet, Disowned, None
<1>2. events' = <<>>
  BY DEF Quiet, Abandon
<1> QED
  BY <1>1, <1>2 DEF Quiet, Abandon

\* The holder of the mutex that does not wait finds everything quiet.
LEMMA HolderQuiet ==
  ASSUME AnswerInv, NEW t \in Task, pc[t] \in Holding \ {"wait"}
  PROVE  Quiet /\ Silent
<1>1. \A u \in Task : pc[u] # "wait"
  BY DEF AnswerInv, LockInv, MutualExclusion, Holding, Labels
<1> QED
  BY <1>1 DEF AnswerInv, InProcedure, InEvent, InNotice, Awaited

\* A step that moves nothing on its way back, and nobody out of a wait.
LEMMA ChainFrame ==
  ASSUME AnswerInv, UNCHANGED <<notify, proc, tx, events>>,
         \A u \in Task : pc[u] = "wait" => pc'[u] = "wait"
  PROVE  (Quiet /\ Silent)' \/ InProcedure' \/ InEvent' \/ InNotice'
<1>1. CASE Quiet /\ Silent
  BY <1>1 DEF Quiet, Silent
<1>2. CASE InProcedure
  BY <1>2 DEF InProcedure, Awaited, Silent
<1>3. CASE InEvent
  BY <1>3 DEF InEvent, Awaited, Silent
<1>4. CASE InNotice
  BY <1>4 DEF InNotice, Quiet
<1> QED
  BY <1>1, <1>2, <1>3, <1>4 DEF AnswerInv

LEMMA AnswerTaskStep ==
  ASSUME late = 0, late' = 0, AnswerInv, NEW t \in Task, TaskStep(t)
  PROVE  AnswerInv'
<1>0. LockInv'
  BY LockTaskStep DEF AnswerInv
<1>a. ASSUME UNCHANGED <<notify, req, link, proc, tx, events>>,
             \A u \in Task : pc[u] = "wait" => pc'[u] = "wait"
      PROVE  AnswerInv'
  BY <1>0, <1>a, ChainFrame DEF AnswerInv
<1>b. ASSUME pc[t] \in Holding \ {"wait"}, Abandon(t), UNCHANGED <<notify, req, link>>
      PROVE  AnswerInv'
  BY <1>0, <1>b, HolderQuiet, QuietAbandon DEF AnswerInv, Silent
<1>1. CASE TakeMutex(t)
  BY <1>1, <1>a DEF TakeMutex, AnswerInv, LockInv
<1>2. CASE MutexTimeout(t)
  BY <1>2, <1>a DEF MutexTimeout, AnswerInv, LockInv
<1>3. CASE gatt_client_init(t)
  BY <1>3, <1>a DEF gatt_client_init, ReturnHolding, GiveBack, AnswerInv, LockInv
<1>4. CASE gatt_client_deinit(t)
  BY <1>4, <1>a DEF gatt_client_deinit, GiveBack, AnswerInv, LockInv
<1>5. CASE FindClient(t)
  <2>1. CASE Return(t)
    BY <1>5, <2>1, <1>b DEF FindClient, Return, Holding, Labels
  <2>2. CASE ~Return(t)
    BY <1>5, <2>2, <1>a DEF FindClient, ReturnHolding, AnswerInv, LockInv
  <2> QED
    BY <2>1, <2>2
<1>6. CASE StartProcedure(t)
  <2>1. Quiet /\ Silent /\ pc[t] = "start"
    BY <1>6, HolderQuiet DEF StartProcedure, Holding, Labels
  <2>2. CASE ~Started(req[t])
    BY <1>6, <2>1, <2>2, <1>b DEF StartProcedure, Return, Holding, Labels
  <2>3. CASE Started(req[t])
    <3>1. pc'[t] = "wait" /\ UNCHANGED <<notify, req, link, events>>
      BY <1>6, <2>3 DEF StartProcedure, AfterStart, AnswerInv, LockInv
    <3>2. CASE UNCHANGED <<proc, tx>>
      BY <2>1, <3>1, <3>2, <1>0 DEF AnswerInv, Quiet, Silent
    <3>3. CASE ~UNCHANGED <<proc, tx>>
      <4> DEFINE x == [op |-> req[t].op, of |-> t]
      <4>1. req[t].conn \in Handle /\ req[t].op \in Op
        <5>1. Accepted(req[t])
          BY <1>6, <2>3, <3>3 DEF StartProcedure
        <5> QED
          BY <5>1 DEF Accepted, AnswerInv, Request
      <4>2. x \in [op : Op, of : Task] /\ x.of \in Task /\ pc'[x.of] = "wait"
        BY <4>1, <3>1
      <4>3. Silent' /\ events' = <<>>
        BY <2>1, <3>1 DEF Quiet, Silent
      <4>4. \/ /\ proc' = [g \in Handle |-> IF g = req[t].conn THEN x ELSE None]
               /\ tx' = [g \in Handle |-> None]
            \/ /\ tx' = [g \in Handle |-> IF g = req[t].conn THEN x ELSE None]
               /\ proc' = [g \in Handle |-> None]
        BY <1>6, <2>1, <2>3, <3>3 DEF StartProcedure, Quiet, Procedures, WriteCmds,
           Discoveries, Reads
      <4>5. InProcedure'
        BY <4>1, <4>2, <4>3, <4>4 DEF InProcedure, Awaited
      <4> QED
        BY <4>5, <3>1, <1>0 DEF AnswerInv
    <3> QED
      BY <3>2, <3>3
  <2> QED
    BY <2>2, <2>3
<1>7. CASE Answer(t)
  <2>1. Quiet /\ \A u \in Task \ {t} : ~notify[u].set
    BY <1>7 DEF Answer, AnswerInv, InProcedure, InEvent, InNotice, Silent
  <2>2. notify' = [notify EXCEPT ![t] = NoNote]
    BY <1>7 DEF Answer
  <2>3. Silent' /\ notify' \in [Task -> [ok : BOOLEAN, own : BOOLEAN, set : BOOLEAN]]
    BY <2>1, <2>2 DEF Silent, NoNote, AnswerInv
  <2>4. Quiet'
    BY <1>7, <2>1, QuietAbandon DEF Answer, Return, Quiet
  <2>5. req' \in [Task -> Request]
    <3>1. CASE UNCHANGED req
      BY <3>1 DEF AnswerInv
    <3>2. CASE ~UNCHANGED req
      <4>1. req' = [req EXCEPT ![t].num = @ - 1] /\ req[t].num > 1
        BY <1>7, <3>2 DEF Answer, Again
      <4>2. req[t] \in Request
        BY DEF AnswerInv
      <4>3. [req[t] EXCEPT !.num = @ - 1] \in Request
        BY <4>1, <4>2 DEF Request
      <4> QED
        BY <4>1, <4>3 DEF AnswerInv
    <3> QED
      BY <3>1, <3>2
  <2>6. UNCHANGED link
    BY <1>7 DEF Answer
  <2> QED
    BY <1>0, <2>3, <2>4, <2>5, <2>6 DEF AnswerInv
<1>8. CASE Copy(t)
  BY <1>8, <1>b DEF Copy, Return, Holding, Labels
<1>9. CASE WaitExpires(t)
  <2>1. ~Outstanding(t) /\ ~notify[t].set /\ pc[t] = "wait"
    BY <1>9 DEF WaitExpires, MayExpire
  <2>2. \A u \in Task : pc[u] = "wait" => u = t
    BY <2>1 DEF AnswerInv, LockInv, MutualExclusion, Holding, Labels
  <2>3. ~InProcedure
    BY <2>1, <2>2 DEF InProcedure, Awaited, Outstanding
  <2>4. ~InEvent
    <3>1. ASSUME NEW e \in Event, Awaited(e), events = <<e>> PROVE FALSE
      BY <2>1, <2>2, <3>1 DEF Awaited, Outstanding
    <3> QED
      BY <3>1 DEF InEvent
  <2>5. Quiet /\ Silent
    BY <2>1, <2>2, <2>3, <2>4 DEF AnswerInv, InNotice
  <2> QED
    BY <1>0, <1>9, <2>5 DEF WaitExpires, AnswerInv, Quiet, Silent
<1>10. CASE GiveUp(t)
  BY <1>10, <1>b DEF GiveUp, Return, Holding, Labels
<1> QED
  BY <1>1, <1>2, <1>3, <1>4, <1>5, <1>6, <1>7, <1>8, <1>9, <1>10 DEF TaskStep

LEMMA AnswerNext ==
  ASSUME late = 0, late' = 0, AnswerInv, [Next]_vars
  PROVE  AnswerInv'
<1>0. LockInv'
  BY LockNext DEF AnswerInv
<1>1. ASSUME NEW t \in Task, Call(t) PROVE AnswerInv'
  <2>1. req' \in [Task -> Request]
    BY <1>1, GattAssumption DEF Call, AnswerInv
  <2>2. \A u \in Task : pc[u] = "wait" => pc'[u] = "wait"
    BY <1>1 DEF Call, AnswerInv, LockInv
  <2> QED
    BY <1>0, <1>1, <2>1, <2>2, ChainFrame DEF Call, AnswerInv
<1>2. ASSUME NEW t \in Task, TaskStep(t) PROVE AnswerInv'
  BY <1>2, AnswerTaskStep
<1>3. ASSUME NEW h \in Handle, Response(h) PROVE AnswerInv'
  <2>1. InProcedure
    BY <1>3 DEF Response, AnswerInv, Quiet, InEvent, InNotice
  <2>2. PICK g \in Handle, x \in [op : Op, of : Task] :
          /\ Awaited(x) /\ Silent /\ events = <<>>
          /\ proc = [k \in Handle |-> IF k = g THEN x ELSE None]
          /\ tx = [k \in Handle |-> None]
    BY <1>3, <2>1 DEF Response, InProcedure
  <2>3. proc[h] = x /\ proc' = [k \in Handle |-> None]
    BY <1>3, <2>2 DEF Response
  <2>4. PICK s \in {"ok", "absent", "error"} :
          events' = <<[op |-> x.op, of |-> x.of, status |-> s]>>
    BY <1>3, <2>2, <2>3 DEF Response, Statuses
  <2>5. [op |-> x.op, of |-> x.of, status |-> s] \in Event
    BY DEF Event, Owner
  <2>6. InEvent'
    BY <1>3, <2>2, <2>3, <2>4, <2>5 DEF Response, InEvent, Awaited, Silent
  <2> QED
    BY <1>0, <1>3, <2>6 DEF Response, AnswerInv
<1>4. ASSUME NEW h \in Handle, WriteCmdSent(h) PROVE AnswerInv'
  <2>1. InProcedure
    BY <1>4 DEF WriteCmdSent, AnswerInv, Quiet, InEvent, InNotice
  <2>2. PICK g \in Handle, x \in [op : Op, of : Task] :
          /\ Awaited(x) /\ Silent /\ events = <<>>
          /\ tx = [k \in Handle |-> IF k = g THEN x ELSE None]
          /\ proc = [k \in Handle |-> None]
    BY <1>4, <2>1 DEF WriteCmdSent, InProcedure
  <2>3. tx[h] = x /\ tx' = [k \in Handle |-> None]
    BY <1>4, <2>2 DEF WriteCmdSent
  <2>4. events' = <<[op |-> x.op, of |-> x.of, status |-> "ok"]>>
    BY <1>4, <2>2, <2>3 DEF WriteCmdSent
  <2>5. [op |-> x.op, of |-> x.of, status |-> "ok"] \in Event
    BY DEF Event, Owner
  <2>6. InEvent'
    BY <1>4, <2>2, <2>3, <2>4, <2>5 DEF WriteCmdSent, InEvent, Awaited, Silent
  <2> QED
    BY <1>0, <1>4, <2>6 DEF WriteCmdSent, AnswerInv
<1>5. ASSUME NEW h \in Handle, LinkUp(h) PROVE AnswerInv'
  BY <1>0, <1>5, ChainFrame DEF LinkUp, AnswerInv
<1>6. ASSUME NEW h \in Handle, LinkDown(h) PROVE AnswerInv'
  <2>1. /\ proc' = [proc EXCEPT ![h] = None] /\ tx' = [tx EXCEPT ![h] = None]
        /\ link' = link \ {h} /\ UNCHANGED <<notify, events, pc, req>>
    BY <1>6 DEF LinkDown
  <2>2. CASE Quiet /\ Silent
    BY <1>0, <2>1, <2>2 DEF AnswerInv, Quiet, Silent
  <2>3. CASE InProcedure
    <3>1. PICK g \in Handle, x \in [op : Op, of : Task] :
            /\ Awaited(x) /\ Silent /\ events = <<>>
            /\ \/ /\ proc = [k \in Handle |-> IF k = g THEN x ELSE None]
                  /\ tx = [k \in Handle |-> None]
               \/ /\ tx = [k \in Handle |-> IF k = g THEN x ELSE None]
                  /\ proc = [k \in Handle |-> None]
      BY <2>3 DEF InProcedure
    <3>2. CASE g = h
      <4>1. Quiet'
        BY <2>1, <3>1, <3>2 DEF Quiet
      <4>2. Silent'
        BY <2>1, <3>1 DEF Silent
      <4> QED
        BY <1>0, <2>1, <4>1, <4>2 DEF AnswerInv
    <3>3. CASE g # h
      <4>1. UNCHANGED <<proc, tx>>
        BY <2>1, <3>1, <3>3
      <4> QED
        BY <1>0, <2>1, <4>1, ChainFrame DEF AnswerInv
    <3> QED
      BY <3>2, <3>3
  <2>4. CASE InEvent \/ InNotice
    <3>1. UNCHANGED <<proc, tx>>
      BY <2>1, <2>4 DEF InEvent, InNotice, Quiet
    <3> QED
      BY <1>0, <2>1, <3>1, ChainFrame DEF AnswerInv
  <2> QED
    BY <2>2, <2>3, <2>4 DEF AnswerInv
<1>7. CASE ble_gatt_client_handler
  <2>1. InEvent
    BY <1>7 DEF ble_gatt_client_handler, AnswerInv, Quiet, InProcedure, InNotice
  <2>2. PICK e \in Event : /\ Awaited(e) /\ Silent /\ events = <<e>>
                           /\ proc = [h \in Handle |-> None]
                           /\ tx = [h \in Handle |-> None]
    BY <2>1 DEF InEvent
  <2>3. client_taskhandle = e.of
    BY <2>2 DEF Awaited, AnswerInv, LockInv, Running
  <2>4. PICK match \in Matches(e) :
          notify' = [notify EXCEPT ![e.of] = Notified(e.of, e, match)]
    BY <1>7, <2>2, <2>3, GattAssumption DEF ble_gatt_client_handler, Awaited
  <2>5. Matches(e) \subseteq BOOLEAN
    BY DEF Matches
  <2>6. Notified(e.of, e, match) \in [ok : BOOLEAN, own : BOOLEAN, set : BOOLEAN]
    BY <2>5 DEF Notified
  <2>7. Notified(e.of, e, match).set /\ Notified(e.of, e, match).own
    BY DEF Notified
  <2>8. Quiet' /\ UNCHANGED <<pc, req, link>>
    BY <1>7, <2>2 DEF ble_gatt_client_handler, Quiet
  <2>9. notify' \in [Task -> [ok : BOOLEAN, own : BOOLEAN, set : BOOLEAN]]
    BY <2>4, <2>6 DEF AnswerInv
  <2>10. InNotice'
    BY <2>2, <2>4, <2>7, <2>8 DEF InNotice, Awaited, Silent, AnswerInv
  <2> QED
    BY <1>0, <2>8, <2>9, <2>10 DEF AnswerInv
<1>8. CASE UNCHANGED vars
  <2>1. UNCHANGED <<notify, req, link, proc, tx, events, pc>>
    BY <1>8 DEF vars
  <2> QED
    BY <1>0, <2>1, ChainFrame DEF AnswerInv
<1> QED
  BY <1>1, <1>2, <1>3, <1>4, <1>5, <1>6, <1>7, <1>8 DEF Next

\* The chain holds until an answer is late.
LateInv == late \in Nat /\ (late = 0 => AnswerInv)

LEMMA LateMonotone ==
  ASSUME late \in Nat, [Next]_vars
  PROVE  late' \in Nat /\ (late' = 0 => late = 0)
<1>1. late' = late \/ late' = 1 \/ (late # 0 /\ late' = late + 1)
  <2>1. ASSUME NEW t \in Task, Call(t) PROVE late' = late \/ (late # 0 /\ late' = late + 1)
    BY <2>1 DEF Call
  <2>2. ASSUME NEW t \in Task, TaskStep(t) PROVE late' = late \/ late' = 1
    BY <2>2 DEF TaskStep, TakeMutex, MutexTimeout, gatt_client_init, gatt_client_deinit,
       FindClient, StartProcedure, Answer, Copy, WaitExpires, GiveUp
  <2>3. ASSUME NEW h \in Handle, Response(h) \/ WriteCmdSent(h) \/ LinkUp(h) \/ LinkDown(h)
        PROVE  late' = late
    BY <2>3 DEF Response, WriteCmdSent, LinkUp, LinkDown
  <2>4. ASSUME ble_gatt_client_handler \/ UNCHANGED vars PROVE late' = late
    BY <2>4 DEF ble_gatt_client_handler, vars
  <2> QED
    BY <2>1, <2>2, <2>3, <2>4 DEF Next
<1> QED
  BY <1>1

LEMMA LateNext == LateInv /\ [Next]_vars => LateInv'
  BY LateMonotone, AnswerNext DEF LateInv

\* Until a wait ends before its answer came, a task is only ever woken by the
\* answer to its own procedure: no notification of the handler is for another
\* call, and none is left over.
THEOREM AnswersReachTheirCall == Spec => []OwnAnswer
<1>1. LateInv => OwnAnswer
  BY DEF LateInv, AnswerInv, OwnAnswer, Silent, InProcedure, InEvent, InNotice
<1>2. Init => LateInv
  BY AnswerInit DEF Init, LateInv
<1> QED
  BY <1>1, <1>2, LateNext, PTL DEF Spec

\* What a discovery or read copies from client_buff is the answer to it.
Data(t) == client_buff = [kind |-> "data", of |-> t]

OwnOp(x) == x.of \in Task => x.op = req[x.of].op

DataInv ==
    /\ got \in [Task -> {"none", "own"}]
    /\ \A h \in Handle : OwnOp(proc[h]) /\ OwnOp(tx[h])
    /\ \A i \in DOMAIN events : OwnOp(events[i])
    /\ \A t \in Task :
           \/ pc[t] = "copy"
           \/ notify[t].set /\ notify[t].ok /\ req[t].op \in Copies
           => Data(t)

\* Nothing to copy, nothing on its way.
LEMMA NothingToCopy ==
  ASSUME Quiet', Silent', got' \in [Task -> {"none", "own"}], \A t \in Task : pc'[t] # "copy"
  PROVE  DataInv'
BY GattAssumption DEF DataInv, Quiet, Silent, OwnOp, None

LEMMA DataTaskStep ==
  ASSUME late = 0, late' = 0, AnswerInv, AnswerInv', DataInv, NEW t \in Task, TaskStep(t)
  PROVE  DataInv'
<1>a. ASSUME UNCHANGED <<notify, req, proc, tx, events, got, client_buff>>,
             \A u \in Task : pc'[u] = "copy" => pc[u] = "copy"
      PROVE  DataInv'
  BY <1>a DEF DataInv, Data, OwnOp
<1>b. ASSUME pc[t] \in Holding \ {"wait"}, pc' = [pc EXCEPT ![t] = "idle"],
             UNCHANGED <<proc, tx, events>> \/ Abandon(t),
             UNCHANGED notify, got' \in [Task -> {"none", "own"}]
      PROVE  DataInv'
  <2>1. Quiet /\ Silent
    BY <1>b, HolderQuiet
  <2>2. Quiet' /\ Silent'
    BY <1>b, <2>1, QuietAbandon DEF Quiet, Silent
  <2>3. \A u \in Task : pc'[u] # "copy"
    BY <1>b DEF AnswerInv, LockInv, MutualExclusion, Holding, Labels
  <2> QED
    BY <1>b, <2>2, <2>3, NothingToCopy
<1>0. got \in [Task -> {"none", "own"}]
  BY DEF DataInv
<1>1. CASE TakeMutex(t)
  BY <1>1, <1>a DEF TakeMutex, AnswerInv, LockInv
<1>2. CASE MutexTimeout(t)
  BY <1>2, <1>a DEF MutexTimeout, AnswerInv, LockInv
<1>3. CASE gatt_client_init(t)
  BY <1>0, <1>3, <1>b DEF gatt_client_init, ReturnHolding, GiveBack, Holding, Labels
<1>4. CASE gatt_client_deinit(t)
  BY <1>0, <1>4, <1>b DEF gatt_client_deinit, GiveBack, Holding, Labels
<1>5. CASE FindClient(t)
  <2>1. CASE pc' = [pc EXCEPT ![t] = "idle"]
    BY <1>0, <1>5, <2>1, <1>b DEF FindClient, Return, ReturnHolding, Holding, Labels
  <2>2. CASE pc' = [pc EXCEPT ![t] = "start"]
    <3>1. Quiet /\ Silent
      BY <1>5, HolderQuiet DEF FindClient, Holding, Labels
    <3>2. UNCHANGED <<proc, tx, events, notify, got>>
      BY <1>5, <2>2 DEF FindClient, Return, ReturnHolding, AnswerInv, LockInv
    <3>3. \A u \in Task : pc'[u] # "copy"
      BY <1>5, <2>2 DEF FindClient, AnswerInv, LockInv, MutualExclusion, Holding, Labels
    <3>4. Quiet' /\ Silent'
      BY <3>1, <3>2 DEF Quiet, Silent
    <3> QED
      BY <1>0, <3>2, <3>3, <3>4, NothingToCopy
  <2> QED
    BY <1>5, <2>1, <2>2 DEF FindClient, Return, ReturnHolding
<1>6. CASE StartProcedure(t)
  <2>1. CASE ~Started(req[t])
    BY <1>0, <1>6, <2>1, <1>b DEF StartProcedure, Return, Holding, Labels
  <2>2. CASE Started(req[t])
    <3>1. Quiet /\ Silent /\ pc[t] = "start" /\ pc' = [pc EXCEPT ![t] = "wait"]
      BY <1>6, <2>2, HolderQuiet DEF StartProcedure, AfterStart, Holding, Labels
    <3>2. UNCHANGED <<notify, got, req, events>>
      BY <1>6, <2>2 DEF StartProcedure
    <3>3. \A u \in Task : pc'[u] # "copy"
      BY <3>1 DEF AnswerInv, LockInv, MutualExclusion, Holding, Labels
    <3>4. Silent' /\ events' = <<>>
      BY <3>1, <3>2 DEF Silent, Quiet
    <3>5. \A h \in Handle : OwnOp(proc[h])' /\ OwnOp(tx[h])'
      BY <1>6, <2>2, <3>1, <3>2, GattAssumption DEF StartProcedure, OwnOp, Quiet, None
    <3> QED
      BY <1>0, <3>2, <3>3, <3>4, <3>5 DEF DataInv, Silent
  <2> QED
    BY <2>1, <2>2
<1>7. CASE Answer(t)
  <2>1. pc[t] = "wait" /\ notify[t].set /\ notify' = [notify EXCEPT ![t] = NoNote]
    BY <1>7 DEF Answer
  <2>2. Quiet /\ \A u \in Task \ {t} : ~notify[u].set
    BY <2>1 DEF AnswerInv, InProcedure, InEvent, InNotice, Silent
  <2>3. Silent' /\ UNCHANGED got
    BY <1>7, <2>1, <2>2 DEF Answer, Silent, NoNote, AnswerInv
  <2>4. Quiet'
    BY <1>7, <2>2, QuietAbandon DEF Answer, Return, Quiet
  <2>5. \A u \in Task : pc[u] # "copy"
    BY <2>1 DEF AnswerInv, LockInv, MutualExclusion, Holding, Labels
  <2>6. CASE pc' = [pc EXCEPT ![t] = "copy"]
    <3>1. notify[t].ok /\ req[t].op \in Copies /\ UNCHANGED client_buff
      BY <1>7, <2>6 DEF Answer, Return, Again, AnswerInv, LockInv
    <3>2. Data(t)'
      BY <2>1, <3>1 DEF DataInv, Data
    <3>3. \A u \in Task : pc'[u] = "copy" => u = t
      BY <2>5, <2>6 DEF AnswerInv, LockInv
    <3> QED
      BY <1>0, <2>3, <2>4, <3>2, <3>3, GattAssumption DEF DataInv, Quiet, Silent, OwnOp, None
  <2>7. CASE pc' # [pc EXCEPT ![t] = "copy"]
    <3>1. \A u \in Task : pc'[u] # "copy"
      BY <1>7, <2>5, <2>7 DEF Answer, Return, AnswerInv, LockInv
    <3> QED
      BY <1>0, <2>3, <2>4, <3>1, NothingToCopy
  <2> QED
    BY <2>6, <2>7
<1>8. CASE Copy(t)
  <2>1. Data(t)
    BY <1>8 DEF Copy, DataInv
  <2>2. got' \in [Task -> {"none", "own"}]
    BY <1>0, <1>8, <2>1 DEF Copy, Data
  <2> QED
    BY <1>8, <2>2, <1>b DEF Copy, Return, Holding, Labels
<1>9. CASE WaitExpires(t)
  BY <1>9, <1>a DEF WaitExpires, AnswerInv, LockInv
<1>10. CASE GiveUp(t)
  BY <1>0, <1>10, <1>b DEF GiveUp, Return, Holding, Labels
<1> QED
  BY <1>1, <1>2, <1>3, <1>4, <1>5, <1>6, <1>7, <1>8, <1>9, <1>10 DEF TaskStep

LEMMA DataNext ==
  ASSUME late = 0, late' = 0, AnswerInv, DataInv, [Next]_vars
  PROVE  DataInv'
<1>0. AnswerInv'
  BY AnswerNext
<1>a. ASSUME UNCHANGED <<notify, req, proc, tx, events, got, pc, client_buff>>
      PROVE  DataInv'
  BY <1>a DEF DataInv, Data, OwnOp
<1>1. ASSUME NEW t \in Task, Call(t) PROVE DataInv'
  <2>1. /\ pc[t] = "idle" /\ UNCHANGED <<notify, proc, tx, events, client_buff>>
        /\ got' = [got EXCEPT ![t] = "none"] /\ pc' = [pc EXCEPT ![t] = "take"]
        /\ \A u \in Task \ {t} : req'[u] = req[u]
    BY <1>1 DEF Call, AnswerInv
  <2>2. ~notify[t].set /\ \A h \in Handle : proc[h].of # t /\ tx[h].of # t
    BY <2>1, GattAssumption DEF AnswerInv, Quiet, Silent, InProcedure, InEvent, InNotice, Awaited,
       None
  <2>3. \A i \in DOMAIN events : events[i].of # t
    BY <2>1 DEF AnswerInv, Quiet, Silent, InProcedure, InEvent, InNotice, Awaited
  <2>4. \A u \in Task : pc'[u] = "copy" => pc[u] = "copy" /\ u # t
    BY <2>1 DEF AnswerInv, LockInv
  <2> QED
    BY <2>1, <2>2, <2>3, <2>4 DEF DataInv, Data, OwnOp
<1>2. ASSUME NEW t \in Task, TaskStep(t) PROVE DataInv'
  BY <1>0, <1>2, DataTaskStep
<1>3. ASSUME NEW h \in Handle, Response(h) \/ WriteCmdSent(h) PROVE DataInv'
  <2>1. /\ UNCHANGED <<notify, req, got, pc, client_buff>>
        /\ \E x \in {proc[h], tx[h]}, s \in {"ok", "absent", "error"} :
              events' = Append(events, [op |-> x.op, of |-> x.of, status |-> s])
        /\ proc' = proc \/ proc' = [proc EXCEPT ![h] = None]
        /\ tx' = tx \/ tx' = [tx EXCEPT ![h] = None]
    BY <1>3 DEF Response, WriteCmdSent, Statuses
  <2>2. events = <<>>
    BY <1>3 DEF Response, WriteCmdSent, AnswerInv, Quiet, InProcedure, InEvent, InNotice
  <2>3. \A i \in DOMAIN events' : OwnOp(events[i])'
    BY <2>1, <2>2 DEF DataInv, OwnOp
  <2>4. \A g \in Handle : OwnOp(proc[g])' /\ OwnOp(tx[g])'
    BY <2>1, GattAssumption DEF DataInv, OwnOp, None, AnswerInv, Quiet, InProcedure, InEvent, InNotice
  <2> QED
    BY <2>1, <2>3, <2>4 DEF DataInv, Data
<1>4. ASSUME NEW h \in Handle, LinkUp(h) PROVE DataInv'
  BY <1>4, <1>a DEF LinkUp
<1>5. ASSUME NEW h \in Handle, LinkDown(h) PROVE DataInv'
  <2>1. /\ proc' = [proc EXCEPT ![h] = None] /\ tx' = [tx EXCEPT ![h] = None]
        /\ UNCHANGED <<notify, req, events, got, pc, client_buff>>
    BY <1>5 DEF LinkDown
  <2>2. \A g \in Handle : OwnOp(proc[g])' /\ OwnOp(tx[g])'
    BY <2>1, GattAssumption DEF DataInv, OwnOp, None, AnswerInv, Quiet, InProcedure, InEvent, InNotice
  <2> QED
    BY <2>1, <2>2 DEF DataInv, Data, OwnOp
<1>6. CASE ble_gatt_client_handler
  <2>1. InEvent
    BY <1>6 DEF ble_gatt_client_handler, AnswerInv, Quiet, InProcedure, InNotice
  <2>2. PICK e \in Event : /\ Awaited(e) /\ Silent /\ events = <<e>>
                           /\ proc = [h \in Handle |-> None]
                           /\ tx = [h \in Handle |-> None]
    BY <2>1 DEF InEvent
  <2>3. client_taskhandle = e.of /\ e.of \in Task /\ pc[e.of] = "wait"
    BY <2>2 DEF Awaited, AnswerInv, LockInv, Running
  <2>4. PICK match \in Matches(e) :
          /\ notify' = [notify EXCEPT ![e.of] = Notified(e.of, e, match)]
          /\ client_buff' = IF Filled(e, match) THEN [kind |-> "data", of |-> e.of]
                            ELSE client_buff
    BY <1>6, <2>2, <2>3, GattAssumption DEF ble_gatt_client_handler
  <2>5. UNCHANGED <<pc, req, got, proc, tx>> /\ events' = <<>>
    BY <1>6, <2>2 DEF ble_gatt_client_handler
  <2>6. e.op = req[e.of].op
    BY <2>2, <2>3 DEF DataInv, OwnOp
  <2>7. match \in BOOLEAN
    BY DEF Matches
  <2>8. Notified(e.of, e, match).ok /\ e.op \in Copies => Filled(e, match)
    BY <2>7 DEF Notified, Filled, Copies, Discoveries, Reads
  <2>9. notify'[e.of].ok /\ req'[e.of].op \in Copies => Data(e.of)'
    BY <2>3, <2>4, <2>5, <2>6, <2>8 DEF Data, AnswerInv
  <2>10. \A u \in Task \ {e.of} : ~notify'[u].set /\ pc'[u] # "copy"
    BY <2>2, <2>3, <2>4, <2>5 DEF Silent, AnswerInv, LockInv, MutualExclusion, Holding, Labels
  <2> QED
    BY <2>3, <2>5, <2>9, <2>10 DEF DataInv, OwnOp
<1>7. CASE UNCHANGED vars
  BY <1>7, <1>a DEF vars
<1> QED
  BY <1>1, <1>2, <1>3, <1>4, <1>5, <1>6, <1>7 DEF Next

\* Until a wait ends before its answer came, a discovery or read that succeeds
\* returns what the peer answered to it: nobody else has used client_buff.
THEOREM ReadsReturnTheirData == Spec => []OwnData
<1> DEFINE Inv == LateInv /\ (late = 0 => DataInv)
<1>1. Inv => OwnData
  BY DEF LateInv, DataInv, OwnData
<1>2. Init => Inv
  <2> SUFFICES ASSUME Init PROVE Inv
    OBVIOUS
  <2>1. LateInv
    BY AnswerInit DEF Init, LateInv
  <2>2. DataInv
    BY GattAssumption DEF Init, DataInv, OwnOp, None, NoNote
  <2> QED
    BY <2>1, <2>2
<1>3. Inv /\ [Next]_vars => Inv'
  <2> SUFFICES ASSUME Inv, [Next]_vars PROVE Inv'
    OBVIOUS
  <2>1. LateInv'
    BY LateNext
  <2>2. late' = 0 => late = 0
    BY LateMonotone DEF LateInv
  <2> QED
    BY <2>1, <2>2, DataNext DEF LateInv
<1> HIDE DEF Inv
<1> QED
  BY <1>1, <1>2, <1>3, PTL DEF Spec

=============================================================================
