--------------------------- MODULE ExchangeProofs ---------------------------
(***************************************************************************)
(* Module Exchange, for any number of workers, accounts, symbols and       *)
(* requests: type correctness and who may cancel, whatever the database    *)
(* aborts and whatever the clock says; then the invariant of the orders    *)
(* and what follows from it, when no two of them bear the same second.     *)
(***************************************************************************)
EXTENDS OrderInv, TLAPS

-----------------------------------------------------------------------------
(* Tables: what the row computations return. *)

\* A request's op tells which of the five kinds of sub-request it is.
LEMMA OrderReqType ==
  ASSUME NEW r \in SubRequest, r.op = "order"
  PROVE  r \in OrderReq
  BY DEF SubRequest, CreateAccountReq, CreateSymbolReq, OrderReq, QueryReq, CancelReq

LEMMA StatusReqType ==
  ASSUME NEW r \in SubRequest, r.op \in {"query", "cancel"}
  PROVE  r \in QueryReq \cup CancelReq
  BY DEF SubRequest, CreateAccountReq, CreateSymbolReq, OrderReq, QueryReq, CancelReq

LEMMA CreateReqType ==
  ASSUME NEW r \in SubRequest
  PROVE  /\ r.acct \in Accounts
         /\ r.op = "account" => r \in CreateAccountReq
         /\ r.op = "symbol" => r \in CreateSymbolReq
         /\ r.op \in {"account", "symbol", "order", "query", "cancel"}
  BY DEF SubRequest, CreateAccountReq, CreateSymbolReq, OrderReq, QueryReq, CancelReq

\* Pay changes one balance.
LEMMA PayType ==
  ASSUME NEW f, f \in [DOMAIN f -> Int], NEW k \in DOMAIN f, NEW n \in Int
  PROVE  /\ Pay(f, k, n) \in [DOMAIN f -> Int]
         /\ DOMAIN Pay(f, k, n) = DOMAIN f
  BY DEF Pay

\* Deliver changes or adds one POSITION row.
LEMMA DeliverType ==
  ASSUME NEW f, f \in [DOMAIN f -> Int], NEW k, NEW n \in Int
  PROVE  /\ Deliver(f, k, n) \in [DOMAIN f \cup {k} -> Int]
         /\ DOMAIN Deliver(f, k, n) = DOMAIN f \cup {k}
  BY DEF Deliver

LEMMA ShiftType ==
  ASSUME NEW f, f \in [DOMAIN f -> Int], NEW k, NEW n \in Int
  PROVE  /\ ShiftPositions(f, k, n) \in [DOMAIN f -> Int]
         /\ DOMAIN ShiftPositions(f, k, n) = DOMAIN f
  BY DEF ShiftPositions

LEMMA AbsType == ASSUME NEW n \in Int PROVE Abs(n) \in Nat
  BY DEF Abs

\* Settle adds no row and changes nothing but amounts.
LEMMA SettleRows ==
  ASSUME NEW orders \in SUBSET Order, NEW s, NEW b, NEW final \in Int,
         NEW o \in Settle(orders, s, b, final)
  PROVE  /\ o \in Order
         /\ \E q \in orders :
              /\ o.id = q.id /\ o.acct = q.acct /\ o.sym = q.sym
              /\ o.price = q.price /\ o.time = q.time
              /\ \/ o.amount = q.amount
                 \/ o.id = s /\ o.amount = final /\ final < 0
                 \/ o.id = b /\ o.amount = final /\ final > 0
  BY DEF Settle, SetAmount, Without, Order

-----------------------------------------------------------------------------
(* Workers: what going on with the next sub-request, replying or moving on  *)
(* does to the task of a worker.                                           *)

LEMMA RunType ==
  ASSUME NEW subs \in Seq(SubRequest)
  PROVE  /\ Run(subs) \in Task
         /\ Run(subs).pc \in {"idle", "account"}
         /\ Run(subs).pc # "idle" => Run(subs).req \in SubRequest
         /\ Run(subs).rows = {} /\ Run(subs).tid = NoId /\ Run(subs).found = {}
  <1>1. CASE subs = << >>
    BY <1>1 DEF Run, Idle, Task, PCs, NoReq, NoId
  <1>2. CASE subs # << >>
    <2>1. Head(subs) \in SubRequest /\ Tail(subs) \in Seq(SubRequest)
      BY <1>2
    <2>2. Run(subs) = [pc |-> "account", req |-> Head(subs), rest |-> Tail(subs),
                       tid |-> NoId, curr |-> 0, left |-> 0, rows |-> {},
                       look |-> 1, found |-> {}, report |-> {}]
      BY <1>2 DEF Run, Idle
    <2> QED BY <2>1, <2>2 DEF Task, PCs, NoId
  <1> QED BY <1>1, <1>2

\* Accounts are never deleted, so what TasksOK says of the workers that do not
\* move stays true.
LEMMA TasksStep ==
  ASSUME TasksOK, NEW w \in Workers,
         task' \in [Workers -> Task],
         \A v \in Workers \ {w} : task'[v] = task[v],
         DOMAIN account \subseteq DOMAIN account',
         TaskOK(task[w])'
  PROVE  TasksOK'
  BY DEF TasksOK, TaskOK

LEMMA ReplyTasks ==
  ASSUME TasksOK, NEW w \in Workers, NEW ok, NEW val, NEW report,
         DOMAIN account \subseteq DOMAIN account', Reply(w, ok, val, report)
  PROVE  TasksOK'
  <1>1. task[w].rest \in Seq(SubRequest)
    BY DEF TasksOK, Task
  <1>2. /\ task' \in [Workers -> Task]
        /\ \A v \in Workers \ {w} : task'[v] = task[v]
        /\ task'[w] = Run(task[w].rest)
    BY <1>1, RunType DEF TasksOK, Reply
  <1>3. TaskOK(task[w])'
    BY <1>1, <1>2, RunType DEF TaskOK, OrderPCs, StatusPCs, CancelPCs
  <1> QED BY <1>2, <1>3, TasksStep

\* Only the place in the code changes.
LEMMA GotoTasks ==
  ASSUME TasksOK, NEW w \in Workers, NEW pc \in PCs,
         DOMAIN account \subseteq DOMAIN account', Goto(w, pc),
         TaskOK([task[w] EXCEPT !.pc = pc])
  PROVE  TasksOK'
  <1>1. /\ task' \in [Workers -> Task]
        /\ \A v \in Workers \ {w} : task'[v] = task[v]
        /\ task'[w] = [task[w] EXCEPT !.pc = pc]
    BY DEF TasksOK, Goto, Task
  <1>2. TaskOK(task[w])'
    BY <1>1 DEF TaskOK
  <1> QED BY <1>1, <1>2, TasksStep

\* Most steps leave the tables alone.
LEMMA TablesSame ==
  ASSUME TablesOK, UNCHANGED tables
  PROVE  TablesOK' /\ DOMAIN account' = DOMAIN account
  BY DEF TablesOK, tables

\* A delivery to an account that exists keeps POSITION's types and foreign key.
LEMMA DeliverTables ==
  ASSUME TablesOK, NEW key \in (DOMAIN account) \X Syms, NEW n \in Int
  PROVE  /\ DOMAIN Deliver(position, key, n) \subseteq (DOMAIN account) \X Syms
         /\ Deliver(position, key, n) \in [DOMAIN Deliver(position, key, n) -> Int]
  <1> DEFINE P == Deliver(position, key, n)
  <1>1. position \in [DOMAIN position -> Int] /\ DOMAIN position \subseteq (DOMAIN account) \X Syms
    BY DEF TablesOK
  <1>2. P \in [DOMAIN position \cup {key} -> Int] /\ DOMAIN P = DOMAIN position \cup {key}
    BY <1>1, DeliverType
  <1> HIDE DEF P
  <1>3. DOMAIN P \subseteq (DOMAIN account) \X Syms /\ P \in [DOMAIN P -> Int]
    BY <1>1, <1>2
  <1> QED BY <1>3 DEF P

-----------------------------------------------------------------------------
(* One lemma per kind of handler. *)

LEMMA ReceiveType ==
  ASSUME TypeOK, NEW w \in Workers, Receive(w)
  PROVE  TypeOK'
  <1>1. TablesOK' /\ DOMAIN account' = DOMAIN account
    BY TablesSame DEF TypeOK, Receive
  <1>2. Head(todo) \in Seq(SubRequest) /\ todo' \in Seq(Request)
    BY DEF TypeOK, Receive, Request
  <1>3. /\ task' \in [Workers -> Task]
        /\ \A v \in Workers \ {w} : task'[v] = task[v]
        /\ task'[w] = Run(Head(todo))
    BY <1>2, RunType DEF TypeOK, TasksOK, Receive
  <1>4. TaskOK(task[w])'
    BY <1>2, <1>3, RunType DEF TaskOK, OrderPCs, StatusPCs, CancelPCs
  <1>5. TasksOK'
    BY <1>1, <1>3, <1>4, TasksStep DEF TypeOK
  <1> QED BY <1>1, <1>2, <1>5 DEF TypeOK, Receive

LEMMA CheckAccountType ==
  ASSUME TypeOK, NEW w \in Workers, CheckAccount(w)
  PROVE  TypeOK'
  <1> DEFINE r == task[w].req
             pc == AfterAccount(r)
  <1>1. TablesOK' /\ DOMAIN account' = DOMAIN account
    BY TablesSame DEF TypeOK, CheckAccount
  <1>2. TasksOK /\ TaskOK(task[w]) /\ r \in SubRequest
    BY DEF TypeOK, TasksOK, CheckAccount, At, TaskOK
  <1>3. CASE Reject(w)
    BY <1>1, <1>2, <1>3, ReplyTasks DEF TypeOK, Reject, CheckAccount
  <1>4. CASE Goto(w, pc) /\ (r.acct \in DOMAIN account) # (r.op = "account")
    <2>1. pc \in PCs
      BY DEF AfterAccount, PCs, OrderPCs, StatusPCs, CancelPCs
    <2>2. /\ [task[w] EXCEPT !.pc = pc].pc = pc
          /\ [task[w] EXCEPT !.pc = pc].req = r
          /\ [task[w] EXCEPT !.pc = pc].rows = task[w].rows
      BY DEF TypeOK, TasksOK, Task
    <2>3. TaskOK([task[w] EXCEPT !.pc = pc])
      BY <1>2, <1>4, <2>2, CreateReqType DEF TaskOK, AfterAccount, OrderPCs, StatusPCs, CancelPCs
    <2>4. TasksOK'
      BY <1>1, <1>2, <1>4, <2>1, <2>3, GotoTasks
    <2> QED BY <1>1, <2>4 DEF TypeOK, CheckAccount
  <1> QED BY <1>3, <1>4 DEF CheckAccount

LEMMA CreateType ==
  ASSUME TypeOK, NEW w \in Workers, CreateStep(w)
  PROVE  TypeOK'
  <1> DEFINE r == task[w].req
  <1>1. TasksOK /\ TablesOK /\ TaskOK(task[w])
    BY DEF TypeOK, TasksOK
  <1>2. CASE CreateAccount(w)
    <2>1. r \in CreateAccountReq
      BY <1>1, <1>2, CreateReqType DEF CreateAccount, At, TaskOK
    <2>2. /\ DOMAIN account' = DOMAIN account \cup {r.acct}
          /\ account' \in [DOMAIN account' -> Int]
          /\ DOMAIN account' \subseteq Accounts
      BY <1>1, <1>2, <2>1 DEF CreateAccount, TablesOK, CreateAccountReq
    <2>3. TablesOK'
      BY <1>1, <1>2, <2>2 DEF CreateAccount, TablesOK
    <2>4. TasksOK'
      BY <1>1, <1>2, <2>2, ReplyTasks DEF CreateAccount
    <2> QED BY <1>2, <2>3, <2>4 DEF TypeOK, CreateAccount
  <1>3. CASE CreatePosition(w)
    <2>1. r \in CreateSymbolReq /\ r.acct \in DOMAIN account
      BY <1>1, <1>3, CreateReqType DEF CreatePosition, At, TaskOK
    <2>2. /\ DOMAIN position' \subseteq (DOMAIN account) \X Syms
          /\ position' \in [DOMAIN position' -> Int]
      <3>1. <<r.acct, r.sym>> \in (DOMAIN account) \X Syms /\ r.num \in Int
        BY <2>1 DEF CreateSymbolReq
      <3>2. position' = Deliver(position, <<r.acct, r.sym>>, r.num)
        BY <1>3 DEF CreatePosition
      <3> QED BY <1>1, <3>1, <3>2, DeliverTables
    <2>3. UNCHANGED <<account, openOrder, exec, cancel, nextId, placed>>
      BY <1>3 DEF CreatePosition
    <2>4. TablesOK'
      BY <1>1, <2>2, <2>3 DEF TablesOK
    <2>5. TasksOK'
      BY <1>1, <1>3, ReplyTasks DEF CreatePosition
    <2> QED BY <1>3, <2>4, <2>5 DEF TypeOK, CreatePosition
  <1>4. CASE AbandonPosition(w)
    <2>1. TablesOK' /\ DOMAIN account' = DOMAIN account
      BY <1>1, <1>4, TablesSame DEF AbandonPosition
    <2>2. TasksOK'
      BY <1>1, <1>4, <2>1, ReplyTasks DEF AbandonPosition
    <2> QED BY <1>4, <2>1, <2>2 DEF TypeOK, AbandonPosition
  <1> QED BY <1>2, <1>3, <1>4 DEF CreateStep

\* The steps of Order::execute, and those of Query::execute and Cancel::execute,
\* that read the tables or give up a transaction: no table changes.
ReadStep(w) ==
  \/ CheckFunds(w) \/ BeginOrder(w) \/ AbandonOrder(w) \/ LookupId(w) \/ SelectRows(w)
  \/ LockRows(w) \/ AbandonSelect(w) \/ AbandonMatch(w) \/ ReplyOpened(w)

StatusReadStep(w) ==
  QueryStep(w) \/ CheckIfOpen(w) \/ ReadOrder(w) \/ AbandonCancel(w) \/ ReadExecuted(w)

\* At those steps the request is one of an account that exists.
LEMMA OrderTask ==
  ASSUME TypeOK, NEW w \in Workers, task[w].pc \in OrderPCs
  PROVE  /\ task[w] \in Task
         /\ task[w].req \in OrderReq
         /\ task[w].req.op = "order"
         /\ task[w].req.acct \in DOMAIN account
         /\ \A o \in task[w].rows : o \in Order /\ o.acct \in DOMAIN account
  <1>1. task[w] \in Task /\ TaskOK(task[w])
    BY DEF TypeOK, TasksOK
  <1>2. task[w].req \in SubRequest /\ task[w].req.op = "order"
    BY <1>1 DEF TaskOK, OrderPCs
  <1> QED BY <1>1, <1>2, OrderReqType DEF TaskOK, Task

LEMMA StatusTask ==
  ASSUME TypeOK, NEW w \in Workers, task[w].pc \in StatusPCs
  PROVE  /\ task[w] \in Task
         /\ task[w].req \in SubRequest
         /\ task[w].req.op \in {"query", "cancel"}
         /\ task[w].req.id \in Int
         /\ task[w].req.acct \in DOMAIN account
         /\ \A o \in task[w].rows : o \in Order /\ o.acct \in DOMAIN account
  <1>1. task[w] \in Task /\ TaskOK(task[w])
    BY DEF TypeOK, TasksOK
  <1>2. task[w].req \in SubRequest /\ task[w].req.op \in {"query", "cancel"}
    BY <1>1 DEF TaskOK, StatusPCs, CancelPCs
  <1>3. task[w].req.id \in Int
    BY <1>2, StatusReqType DEF QueryReq, CancelReq
  <1> QED BY <1>1, <1>2, <1>3 DEF TaskOK, Task

\* A worker serving an order may take any other task of that order.
LEMMA OrderTaskStep ==
  ASSUME TypeOK, NEW w \in Workers, NEW t \in Task,
         task' = [task EXCEPT ![w] = t], DOMAIN account \subseteq DOMAIN account',
         t.pc \in OrderPCs, task[w].pc \in OrderPCs, t.req = task[w].req,
         \A o \in t.rows : o.acct \in DOMAIN account
  PROVE  TasksOK'
  <1>1. /\ task[w].req \in SubRequest
        /\ task[w].req.op = "order"
        /\ task[w].req.acct \in DOMAIN account
    BY DEF TypeOK, TasksOK, TaskOK, OrderPCs
  <1>2. /\ task' \in [Workers -> Task]
        /\ \A v \in Workers \ {w} : task'[v] = task[v]
        /\ task'[w] = t
    BY DEF TypeOK, TasksOK
  <1>3. TaskOK(task[w])'
    BY <1>1, <1>2 DEF TaskOK, OrderPCs, StatusPCs, CancelPCs
  <1> QED BY <1>2, <1>3, TasksStep DEF TypeOK

LEMMA StatusTaskStep ==
  ASSUME TypeOK, NEW w \in Workers, NEW t \in Task,
         task' = [task EXCEPT ![w] = t], DOMAIN account \subseteq DOMAIN account',
         t.pc \in StatusPCs, task[w].pc \in StatusPCs, t.req = task[w].req,
         t.pc \in CancelPCs => t.req.op = "cancel",
         t.pc = "status" => t.req.op = "query" /\ t.look < 4,
         \A o \in t.rows : o.acct \in DOMAIN account
  PROVE  TasksOK'
  <1>1. /\ task[w].req \in SubRequest
        /\ task[w].req.op \in {"query", "cancel"}
        /\ task[w].req.acct \in DOMAIN account
    BY StatusTask
  <1>2. /\ task' \in [Workers -> Task]
        /\ \A v \in Workers \ {w} : task'[v] = task[v]
        /\ task'[w] = t
    BY DEF TypeOK, TasksOK
  <1>3. TaskOK(task[w])'
    BY <1>1, <1>2 DEF TaskOK, OrderPCs, StatusPCs, CancelPCs
  <1> QED BY <1>2, <1>3, TasksStep DEF TypeOK

LEMMA NextRowType ==
  ASSUME TypeOK, NEW w \in Workers, NEW o \in task[w].rows, At(w, "match"), NextRow(w, o),
         DOMAIN account \subseteq DOMAIN account'
  PROVE  TasksOK'
  <1>1. /\ task[w] \in Task /\ o \in Order /\ task[w].pc \in OrderPCs
        /\ \A q \in task[w].rows : q.acct \in DOMAIN account
    BY OrderTask DEF At, OrderPCs
  <1>2. task[w].left \in Int /\ o.amount \in Int
    BY <1>1 DEF Task, Order
  <1>3. /\ AfterFill(w, o) \in Task
        /\ AfterFill(w, o).pc \in OrderPCs
        /\ AfterFill(w, o).req = task[w].req
        /\ AfterFill(w, o).rows \subseteq task[w].rows
    <2> DEFINE final == task[w].left + o.amount
               more == IF task[w].req.amount < 0 THEN final < 0 ELSE final > 0
               rows == IF more THEN task[w].rows \ {o} ELSE {}
               left == IF more THEN final ELSE task[w].left
               pc == IF more THEN "match" ELSE "done"
    <2>1. AfterFill(w, o) = [task[w] EXCEPT !.rows = rows, !.left = left, !.pc = pc]
      BY DEF AfterFill
    <2>2. rows \in SUBSET Order /\ rows \subseteq task[w].rows
      BY <1>1 DEF Task
    <2>3. left \in Int
      BY <1>2
    <2>4. pc \in {"match", "done"}
      OBVIOUS
    <2> HIDE DEF rows, left, pc
    <2> QED BY <1>1, <2>1, <2>2, <2>3, <2>4 DEF Task, PCs, OrderPCs
  <1>4. task' = [task EXCEPT ![w] = AfterFill(w, o)]
    BY DEF NextRow
  <1>5. \A q \in AfterFill(w, o).rows : q.acct \in DOMAIN account
    BY <1>1, <1>3
  <1> QED BY <1>1, <1>3, <1>4, <1>5, OrderTaskStep

LEMMA ReadStepType ==
  ASSUME TypeOK, NEW w \in Workers, ReadStep(w)
  PROVE  TypeOK'
  <1> DEFINE r == task[w].req
  <1>1. TablesOK' /\ DOMAIN account' = DOMAIN account
    BY TablesSame DEF TypeOK, ReadStep, CheckFunds, BeginOrder, AbandonOrder, LookupId,
       SelectRows, LockRows, AbandonSelect, AbandonMatch, ReplyOpened
  <1>2. TasksOK /\ TablesOK
    BY DEF TypeOK
  <1>3. ASSUME NEW ok, NEW val, NEW report, Reply(w, ok, val, report)
        PROVE  TasksOK'
    BY <1>1, <1>2, <1>3, ReplyTasks
  <1>4. ASSUME NEW pc \in OrderPCs, task[w].pc \in OrderPCs, Goto(w, pc)
        PROVE  TasksOK'
    <2> DEFINE t == [task[w] EXCEPT !.pc = pc]
    <2>1. task[w] \in Task /\ \A o \in task[w].rows : o.acct \in DOMAIN account
      BY <1>4, OrderTask
    <2>2. t \in Task /\ t.pc = pc /\ t.req = task[w].req /\ t.rows = task[w].rows
      BY <2>1 DEF Task, PCs
    <2>3. task' = [task EXCEPT ![w] = t]
      BY <1>4 DEF Goto
    <2> QED BY <1>1, <1>4, <2>1, <2>2, <2>3, OrderTaskStep
  <1>6. CASE CheckFunds(w)
    BY <1>1, <1>3, <1>4, <1>6 DEF CheckFunds, At, OrderPCs, Reject, TypeOK
  <1>7. CASE BeginOrder(w)
    <2>1. PICK t \in {clock, clock + 1} :
            /\ clock' = t
            /\ task' = [task EXCEPT ![w] = [task[w] EXCEPT !.curr = t, !.pc = "insert"]]
      BY <1>7 DEF BeginOrder
    <2>2. task[w] \in Task /\ task[w].pc \in OrderPCs /\ t \in Nat
          /\ \A o \in task[w].rows : o.acct \in DOMAIN account
      BY <1>7, OrderTask DEF BeginOrder, At, OrderPCs, TypeOK
    <2> DEFINE u == [task[w] EXCEPT !.curr = t, !.pc = "insert"]
    <2>3. u \in Task /\ u.pc \in OrderPCs /\ u.req = task[w].req /\ u.rows = task[w].rows
      BY <2>2 DEF Task, PCs, OrderPCs
    <2>4. TasksOK'
      BY <1>1, <2>1, <2>2, <2>3, OrderTaskStep
    <2> QED BY <1>1, <1>7, <2>1, <2>2, <2>4 DEF BeginOrder, TypeOK
  <1>8. CASE AbandonOrder(w)
    <2>1. AfterInsert(r) \in OrderPCs
      BY DEF AfterInsert, OrderPCs
    <2>2. Goto(w, AfterInsert(r)) /\ task[w].pc \in OrderPCs
      BY <1>8 DEF AbandonOrder, At, OrderPCs
    <2>3. TasksOK'
      BY <1>4, <2>1, <2>2
    <2> QED BY <1>1, <1>8, <2>3 DEF AbandonOrder, TypeOK
  <1>9. CASE LookupId(w)
    <2>1. PICK i \in Int :
            task' = [task EXCEPT ![w] = [task[w] EXCEPT !.tid = i, !.pc = AfterInsert(r)]]
      <3> DEFINE ids == {o.id : o \in {q \in openOrder : q.time = task[w].curr}}
      <3>1. PICK i \in IF ids = {} THEN {NoId} ELSE ids :
              task' = [task EXCEPT ![w] = [task[w] EXCEPT !.tid = i, !.pc = AfterInsert(r)]]
        BY <1>9 DEF LookupId
      <3>2. i = NoId \/ \E o \in openOrder : i = o.id
        BY <3>1
      <3>3. i \in Int
        BY <1>2, <3>2 DEF TablesOK, Order, NoId
      <3> QED BY <3>1, <3>3
    <2>2. task[w] \in Task /\ task[w].pc \in OrderPCs
          /\ \A o \in task[w].rows : o.acct \in DOMAIN account
      BY <1>9, OrderTask DEF LookupId, At, OrderPCs
    <2> DEFINE u == [task[w] EXCEPT !.tid = i, !.pc = AfterInsert(r)]
    <2>3. u \in Task /\ u.pc \in OrderPCs /\ u.req = task[w].req /\ u.rows = task[w].rows
      BY <2>2 DEF Task, PCs, OrderPCs, AfterInsert
    <2>4. TasksOK'
      BY <1>1, <2>1, <2>2, <2>3, OrderTaskStep
    <2> QED BY <1>1, <1>9, <2>4 DEF LookupId, TypeOK
  <1>10. CASE SelectRows(w)
    <2> DEFINE rows == {o \in openOrder : Eligible(o, r)}
               u == [task[w] EXCEPT !.rows = rows, !.left = r.amount, !.pc = "lock"]
    <2>1. task[w] \in Task /\ task[w].pc \in OrderPCs /\ r.amount \in Int
      BY <1>10, OrderTask DEF SelectRows, At, OrderPCs, OrderReq
    <2>2. rows \in SUBSET Order /\ \A o \in rows : o.acct \in DOMAIN account
      BY <1>2 DEF TablesOK
    <2>3. task' = [task EXCEPT ![w] = u]
      BY <1>10 DEF SelectRows
    <2> HIDE DEF rows
    <2>4. u \in Task /\ u.pc \in OrderPCs /\ u.req = task[w].req /\ u.rows = rows
      BY <2>1, <2>2 DEF Task, PCs, OrderPCs
    <2>5. TasksOK'
      BY <1>1, <2>1, <2>2, <2>3, <2>4, OrderTaskStep
    <2> QED BY <1>1, <1>10, <2>5 DEF SelectRows, TypeOK
  <1>11. CASE LockRows(w)
    <2> DEFINE rows == {o \in openOrder : o.id \in {q.id : q \in task[w].rows} /\ Eligible(o, r)}
               u == [task[w] EXCEPT !.rows = rows, !.pc = "match"]
    <2>1. task[w] \in Task /\ task[w].pc \in OrderPCs
      BY <1>11, OrderTask DEF LockRows, At, OrderPCs
    <2>2. rows \in SUBSET Order /\ \A o \in rows : o.acct \in DOMAIN account
      BY <1>2 DEF TablesOK
    <2>3. task' = [task EXCEPT ![w] = u]
      BY <1>11 DEF LockRows
    <2> HIDE DEF rows
    <2>4. u \in Task /\ u.pc \in OrderPCs /\ u.req = task[w].req /\ u.rows = rows
      BY <2>1, <2>2 DEF Task, PCs, OrderPCs
    <2>5. TasksOK'
      BY <1>1, <2>1, <2>2, <2>3, <2>4, OrderTaskStep
    <2> QED BY <1>1, <1>11, <2>5 DEF LockRows, TypeOK
  <1>12. CASE AbandonSelect(w)
    BY <1>1, <1>4, <1>12 DEF AbandonSelect, At, OrderPCs, TypeOK
  <1>13. CASE AbandonMatch(w)
    <2>1. PICK o \in task[w].rows : NextRow(w, o)
      BY <1>13 DEF AbandonMatch, Leading
    <2>2. TasksOK'
      BY <1>1, <1>13, <2>1, NextRowType DEF AbandonMatch
    <2> QED BY <1>1, <1>13, <2>2 DEF AbandonMatch, TypeOK
  <1>14. CASE ReplyOpened(w)
    BY <1>1, <1>3, <1>14 DEF ReplyOpened, TypeOK
  <1> QED BY <1>6, <1>7, <1>8, <1>9, <1>10, <1>11, <1>12, <1>13, <1>14 DEF ReadStep

\* What the SELECTs of the checks and of a status answer can find.
LEMMA FoundType ==
  ASSUME TypeOK, NEW id \in Int
  PROVE  /\ \A k \in 1 .. 4 : OwnersIn(id)[k] \subseteq Accounts
         /\ \A k \in 1 .. 3 : StatusIn(id)[k] \subseteq Entry
         /\ Executed(id) \subseteq Entry
  <1>1. /\ openOrder \subseteq Order
        /\ \A i \in DOMAIN exec : i \in Nat /\ exec[i] \in Exec
        /\ \A i \in DOMAIN cancel : i \in Nat /\ cancel[i] \in Cancelled
    BY DEF TypeOK, TablesOK
  <1>2. Executed(id) \subseteq Entry
    BY <1>1 DEF Executed, Entry, Exec
  <1>3. \A k \in 1 .. 4 : OwnersIn(id)[k] \subseteq Accounts
    BY <1>1 DEF OwnersIn, Exec, Cancelled, Order
  <1>4. \A k \in 1 .. 3 : StatusIn(id)[k] \subseteq Entry
    <2>1. {[state |-> "open", row |-> 0, shares |-> o.amount] :
             o \in {q \in openOrder : q.id = id}} \subseteq Entry
      BY <1>1 DEF Entry, Order
    <2>2. {[state |-> "canceled", row |-> i, shares |-> cancel[i].amount] :
             i \in {j \in DOMAIN cancel : cancel[j].id = id}} \subseteq Entry
      BY <1>1 DEF Entry, Cancelled
    <2>3. StatusIn(id)[1] \subseteq Entry /\ StatusIn(id)[2] \subseteq Entry
          /\ StatusIn(id)[3] \subseteq Entry
      BY <1>2, <2>1, <2>2 DEF StatusIn
    <2> QED BY <2>3
  <1> QED BY <1>2, <1>3, <1>4

LEMMA SeenType ==
  ASSUME TypeOK, NEW w \in Workers, task[w].pc \in StatusPCs
  PROVE  Seen(w) \subseteq Accounts
  BY StatusTask, FoundType DEF Seen, Task

LEMMA StatusReadType ==
  ASSUME TypeOK, NEW w \in Workers, StatusReadStep(w)
  PROVE  TypeOK'
  <1> DEFINE r == task[w].req
  <1>1. TablesOK' /\ DOMAIN account' = DOMAIN account /\ UNCHANGED <<clock, todo>>
    BY TablesSame DEF TypeOK, StatusReadStep, QueryStep, Look, CheckTransID, CheckBelong,
       QueryOrder, CheckIfOpen, ReadOrder, AbandonCancel, ReadExecuted
  <1>2. /\ task[w].pc \in StatusPCs
        /\ task[w].pc \in CancelPCs => r.op = "cancel"
        /\ task[w].pc = "status" => r.op = "query" /\ task[w].look < 4
    BY DEF StatusReadStep, QueryStep, Look, CheckTransID, CheckBelong, QueryOrder, CheckIfOpen,
       ReadOrder, AbandonCancel, ReadExecuted, At, StatusPCs, CancelPCs, TypeOK, TasksOK, TaskOK
  <1>3. /\ task[w] \in Task /\ r.op \in {"query", "cancel"} /\ r.id \in Int
        /\ \A o \in task[w].rows : o.acct \in DOMAIN account
    BY <1>2, StatusTask
  <1>4. ASSUME NEW ok, NEW val, NEW report, Reply(w, ok, val, report)
        PROVE  TasksOK'
    BY <1>1, <1>4, ReplyTasks DEF TypeOK
  <1>5. ASSUME NEW t \in Task, task' = [task EXCEPT ![w] = t], t.pc \in StatusPCs, t.req = r,
               t.pc \in CancelPCs => r.op = "cancel",
               t.pc = "status" => r.op = "query" /\ t.look < 4,
               t.rows \subseteq task[w].rows \cup openOrder
        PROVE  TasksOK'
    <2>1. \A o \in t.rows : o.acct \in DOMAIN account
      BY <1>3, <1>5 DEF TypeOK, TablesOK
    <2> QED BY <1>1, <1>2, <1>5, <2>1, StatusTaskStep
  <1>6. ASSUME NEW pc \in {"belong", "status", "open"}, Enter(w, pc),
               pc = "open" => r.op = "cancel", pc = "status" => r.op = "query"
        PROVE  TasksOK'
    <2> DEFINE t == [task[w] EXCEPT !.pc = pc, !.found = {}, !.look = 1]
    <2>1. pc \in PCs /\ pc \in StatusPCs /\ (pc \in CancelPCs => pc = "open")
      BY DEF PCs, StatusPCs, CancelPCs
    <2>2. t \in Task /\ t.pc = pc /\ t.req = r /\ t.rows = task[w].rows /\ t.look = 1
      <3>1. 1 \in 1 .. 4 /\ {} \in SUBSET Accounts
        OBVIOUS
      <3>2. [task[w] EXCEPT !.pc = pc] \in Task
        BY <1>3, <2>1 DEF Task
      <3>3. [[task[w] EXCEPT !.pc = pc] EXCEPT !.found = {}] \in Task
        BY <3>1, <3>2 DEF Task
      <3>4. t \in Task
        BY <3>1, <3>3 DEF Task
      <3> QED BY <1>3, <3>4 DEF Task
    <2>3. task' = [task EXCEPT ![w] = t]
      BY <1>6 DEF Enter
    <2> HIDE DEF t
    <2>4. t.rows \subseteq task[w].rows \cup openOrder /\ (t.pc = "status" => t.look < 4)
      BY <2>2
    <2> QED BY <1>5, <1>6, <2>1, <2>2, <2>3, <2>4
  <1>7. CASE Look(w)
    <2> DEFINE t == [task[w] EXCEPT !.found = Seen(w), !.look = task[w].look + 1]
    <2>1. Seen(w) \in SUBSET Accounts /\ task[w].look + 1 \in 1 .. 4
      BY <1>2, <1>3, <1>7, SeenType DEF Look, Task
    <2>2. t \in Task /\ t.pc = task[w].pc /\ t.req = r /\ t.rows = task[w].rows
      BY <1>3, <2>1 DEF Task
    <2>3. task' = [task EXCEPT ![w] = t] /\ task[w].pc \in {"trans", "belong"}
      BY <1>7 DEF Look
    <2> HIDE DEF t
    <2>4. t.pc \in StatusPCs /\ t.pc \notin CancelPCs /\ t.pc # "status"
          /\ t.rows \subseteq task[w].rows \cup openOrder
      BY <1>2, <2>2, <2>3 DEF CancelPCs
    <2>5. TasksOK'
      BY <1>5, <2>2, <2>3, <2>4
    <2> QED BY <1>1, <2>5, <1>7 DEF TypeOK
  <1>8. CASE CheckTransID(w)
    BY <1>1, <1>4, <1>6, <1>8 DEF CheckTransID, Reject, TypeOK
  <1>9. CASE CheckBelong(w)
    <2>1. CASE Reject(w)
      BY <1>1, <1>4, <2>1 DEF Reject, TypeOK
    <2>2. CASE Enter(w, IF r.op = "query" THEN "status" ELSE "open")
      <3>1. CASE r.op = "query"
        BY <1>1, <1>6, <2>2, <3>1 DEF TypeOK
      <3>2. CASE r.op = "cancel"
        BY <1>1, <1>6, <2>2, <3>2 DEF TypeOK
      <3> QED BY <1>3, <3>1, <3>2
    <2> QED BY <1>9, <2>1, <2>2 DEF CheckBelong
  <1>10. CASE QueryOrder(w)
    <2> DEFINE report == task[w].report \cup StatusIn(r.id)[task[w].look]
               t == [task[w] EXCEPT !.report = report, !.look = task[w].look + 1]
    <2>1. CASE Reply(w, TRUE, 0, report)
      BY <1>1, <1>4, <2>1 DEF TypeOK
    <2>2. CASE task[w].look < 3 /\ task' = [task EXCEPT ![w] = t]
      <3>1. task[w].look \in 1 .. 3 /\ task[w].look + 1 \in 1 .. 4 /\ task[w].look + 1 < 4
        BY <1>3, <2>2 DEF Task
      <3>2. report \in SUBSET Entry
        BY <1>3, <3>1, FoundType DEF Task
      <3> HIDE DEF report
      <3>3. t \in Task /\ t.pc = task[w].pc /\ t.req = r /\ t.rows = task[w].rows
            /\ t.look = task[w].look + 1
        BY <1>3, <3>1, <3>2 DEF Task
      <3> HIDE DEF t
      <3> QED BY <1>1, <1>2, <1>5, <2>2, <3>1, <3>3 DEF TypeOK
    <2> QED BY <1>10, <2>1, <2>2 DEF QueryOrder
  <1>11. CASE CheckIfOpen(w)
    <2>1. CASE Reject(w)
      BY <1>1, <1>4, <2>1 DEF Reject, TypeOK
    <2>2. CASE Goto(w, "read")
      <3> DEFINE t == [task[w] EXCEPT !.pc = "read"]
      <3>1. t \in Task /\ t.pc = "read" /\ t.req = r /\ t.rows = task[w].rows
        BY <1>3 DEF Task, PCs, StatusPCs, CancelPCs
      <3>2. task' = [task EXCEPT ![w] = t] /\ r.op = "cancel"
        BY <1>2, <1>11, <2>2 DEF Goto, CheckIfOpen, At, CancelPCs
      <3> HIDE DEF t
      <3> QED BY <1>1, <1>5, <3>1, <3>2 DEF TypeOK, StatusPCs, CancelPCs
    <2> QED BY <1>11, <2>1, <2>2 DEF CheckIfOpen
  <1>12. CASE ReadOrder(w)
    <2> DEFINE rows == {o \in openOrder : o.id = r.id}
               report == {[state |-> "canceled", row |-> 0, shares |-> o.amount] : o \in rows}
               t == [task[w] EXCEPT !.rows = rows, !.report = report, !.pc = "cancel"]
    <2>1. rows \in SUBSET Order /\ rows \subseteq openOrder /\ report \in SUBSET Entry
      BY DEF TypeOK, TablesOK, Order, Entry
    <2>2. task' = [task EXCEPT ![w] = t] /\ r.op = "cancel"
      BY <1>2, <1>12 DEF ReadOrder, At, CancelPCs
    <2> HIDE DEF rows, report
    <2>3. t \in Task /\ t.pc = "cancel" /\ t.req = r /\ t.rows = rows
      BY <1>3, <2>1 DEF Task, PCs, StatusPCs, CancelPCs
    <2> HIDE DEF t
    <2> QED BY <1>1, <1>5, <2>1, <2>2, <2>3 DEF TypeOK, StatusPCs, CancelPCs
  <1>13. CASE AbandonCancel(w)
    BY <1>1, <1>4, <1>13 DEF AbandonCancel, TypeOK
  <1>14. CASE ReadExecuted(w)
    BY <1>1, <1>4, <1>14 DEF ReadExecuted, TypeOK
  <1> QED BY <1>7, <1>8, <1>9, <1>10, <1>11, <1>12, <1>13, <1>14 DEF StatusReadStep, QueryStep

\* A payment to an account that exists keeps ACCOUNT's types.
LEMMA PayTables ==
  ASSUME NEW f, f \in [DOMAIN f -> Int], DOMAIN f = DOMAIN account,
         NEW k \in DOMAIN account, NEW n \in Int
  PROVE  /\ DOMAIN Pay(f, k, n) = DOMAIN account
         /\ Pay(f, k, n) \in [DOMAIN Pay(f, k, n) -> Int]
  <1>1. Pay(f, k, n) \in [DOMAIN f -> Int] /\ DOMAIN Pay(f, k, n) = DOMAIN f
    BY PayType
  <1> QED BY <1>1

LEMMA ShiftTables ==
  ASSUME TablesOK, NEW k, NEW n \in Int
  PROVE  /\ DOMAIN ShiftPositions(position, k, n) = DOMAIN position
         /\ ShiftPositions(position, k, n) \in [DOMAIN ShiftPositions(position, k, n) -> Int]
  <1>1. position \in [DOMAIN position -> Int]
    BY DEF TablesOK
  <1>2. /\ ShiftPositions(position, k, n) \in [DOMAIN position -> Int]
        /\ DOMAIN ShiftPositions(position, k, n) = DOMAIN position
    BY <1>1, ShiftType
  <1> QED BY <1>2

LEMMA CommitOrderType ==
  ASSUME TypeOK, NEW w \in Workers, CommitOrder(w)
  PROVE  TypeOK'
  <1> DEFINE r == task[w].req
             o == [id |-> nextId, acct |-> r.acct, sym |-> r.sym, amount |-> r.amount,
                   price |-> r.limit, time |-> task[w].curr]
  <1>1. task[w] \in Task /\ task[w].pc \in OrderPCs /\ r \in OrderReq /\ r.acct \in DOMAIN account
        /\ \A q \in task[w].rows : q.acct \in DOMAIN account
    BY OrderTask DEF CommitOrder, At, OrderPCs
  <1>2. TablesOK /\ TasksOK
    BY DEF TypeOK
  <1>3. o \in Order /\ o.acct \in DOMAIN account
    BY <1>1, <1>2 DEF Order, OrderReq, Task, TablesOK
  <1>4. r.amount \in Int /\ -(r.limit * r.amount) \in Int
    BY <1>1 DEF OrderReq
  <1>5. DOMAIN account' = DOMAIN account /\ account' \in [DOMAIN account' -> Int]
    BY <1>1, <1>2, <1>4, PayTables DEF CommitOrder, TablesOK
  <1>6. DOMAIN position' = DOMAIN position /\ position' \in [DOMAIN position' -> Int]
    BY <1>2, <1>4, ShiftTables DEF CommitOrder, TablesOK
  <1>7. /\ openOrder' = openOrder \cup {o} /\ placed' = placed \cup {o}
        /\ nextId' = nextId + 1 /\ exec' = exec /\ cancel' = cancel
        /\ clock' = clock /\ todo' = todo /\ Goto(w, "lookup")
    BY DEF CommitOrder
  <1>8. TablesOK'
    <2> HIDE DEF o
    <2> QED BY <1>2, <1>3, <1>5, <1>6, <1>7 DEF TablesOK
  <1>9. TasksOK'
    <2> DEFINE t == [task[w] EXCEPT !.pc = "lookup"]
    <2>1. t \in Task /\ t.pc \in OrderPCs /\ t.req = r /\ t.rows = task[w].rows
      BY <1>1 DEF Task, PCs, OrderPCs
    <2> QED BY <1>1, <1>5, <1>7, <2>1, OrderTaskStep DEF Goto
  <1> QED BY <1>7, <1>8, <1>9 DEF TypeOK

\* The EXEC row of a fill has EXEC's types, and names accounts that exist.
LEMMA TradeType ==
  ASSUME TypeOK, NEW w \in Workers, At(w, "match"), NEW o \in task[w].rows
  PROVE  /\ Trade(w, o) \in Exec
         /\ Trade(w, o).buyer \in DOMAIN account
         /\ Trade(w, o).seller \in DOMAIN account
         /\ task[w].left + o.amount \in Int
         /\ Refund(task[w].req, o.price) \in Int
  <1>1. task[w] \in Task /\ task[w].req \in OrderReq /\ task[w].req.acct \in DOMAIN account
        /\ o \in Order /\ o.acct \in DOMAIN account
    BY OrderTask DEF At, OrderPCs
  <1>2. /\ task[w].left \in Int /\ task[w].tid \in Int /\ o.amount \in Int /\ o.id \in Int
        /\ o.price \in Int /\ o.acct \in Accounts
        /\ task[w].req.acct \in Accounts /\ task[w].req.sym \in Syms
        /\ task[w].req.limit \in Int
    BY <1>1 DEF Task, Order, OrderReq
  <1>3. FillAmount(task[w].left, o.amount) \in Int
    BY <1>2, AbsType DEF FillAmount
  <1>4. Trade(w, o) \in Exec
    BY <1>2, <1>3 DEF Trade, Exec
  <1>5. Trade(w, o).buyer \in DOMAIN account /\ Trade(w, o).seller \in DOMAIN account
    BY <1>1 DEF Trade
  <1>6. Refund(task[w].req, o.price) \in Int
    BY <1>2 DEF Refund
  <1> QED BY <1>2, <1>4, <1>5, <1>6

LEMMA MatchType ==
  ASSUME TypeOK, NEW w \in Workers, Match(w)
  PROVE  TypeOK'
  <1>1. PICK o \in task[w].rows :
          LET e == Trade(w, o)
              refund == Refund(task[w].req, o.price)
              paid == Pay(account, e.buyer, refund)
          IN /\ exec' = Append(exec, e)
             /\ openOrder' = BookAfter(w, e, o)
             /\ account' = Pay(paid, e.seller, e.price * e.amount)
             /\ position' = Deliver(position, <<e.buyer, e.sym>>, e.amount)
             /\ NextRow(w, o)
    BY DEF Match, Leading
  <1> DEFINE e == Trade(w, o)
             refund == Refund(task[w].req, o.price)
             paid == Pay(account, e.buyer, refund)
  <1>2. At(w, "match") /\ UNCHANGED <<cancel, nextId, placed, granted, clock, todo, replies>>
    BY DEF Match
  <1>3. /\ e \in Exec /\ e.buyer \in DOMAIN account /\ e.seller \in DOMAIN account
        /\ task[w].left + o.amount \in Int /\ refund \in Int
    BY <1>2, TradeType
  <1>4. e.amount \in Int /\ e.price * e.amount \in Int /\ e.sym \in Syms
    BY <1>3 DEF Exec
  <1>5. TablesOK
    BY DEF TypeOK
  <1> HIDE DEF e, refund
  <1>6. DOMAIN account' = DOMAIN account /\ account' \in [DOMAIN account' -> Int]
    <2>1. DOMAIN paid = DOMAIN account /\ paid \in [DOMAIN paid -> Int]
      BY <1>3, <1>5, PayTables DEF TablesOK
    <2>2. account' = Pay(paid, e.seller, e.price * e.amount)
      BY <1>1 DEF e, refund
    <2> HIDE DEF paid
    <2> QED BY <1>3, <1>4, <2>1, <2>2, PayTables
  <1>7. DOMAIN position' \subseteq (DOMAIN account) \X Syms /\ position' \in [DOMAIN position' -> Int]
    <2>1. position' = Deliver(position, <<e.buyer, e.sym>>, e.amount)
      BY <1>1 DEF e
    <2>2. <<e.buyer, e.sym>> \in (DOMAIN account) \X Syms
      BY <1>3, <1>4
    <2> QED BY <1>4, <1>5, <2>1, <2>2, DeliverTables
  <1>8. openOrder' \subseteq Order /\ \A q \in openOrder' : q.acct \in DOMAIN account
    <2>1. openOrder' = Settle(openOrder, e.sell, e.buy, task[w].left + o.amount)
      BY <1>1 DEF BookAfter, e
    <2>2. openOrder \in SUBSET Order
      BY <1>5 DEF TablesOK
    <2>3. ASSUME NEW q \in openOrder'
          PROVE  q \in Order /\ \E p \in openOrder : q.acct = p.acct
      BY <1>3, <2>1, <2>2, SettleRows
    <2> QED BY <1>5, <2>3 DEF TablesOK
  <1>9. exec' \in Seq(Exec)
    BY <1>1, <1>3, <1>5 DEF TablesOK, e
  <1>10. TablesOK'
    BY <1>2, <1>5, <1>6, <1>7, <1>8, <1>9 DEF TablesOK
  <1>11. TasksOK'
    BY <1>1, <1>2, <1>6, NextRowType
  <1> QED BY <1>2, <1>10, <1>11 DEF TypeOK

LEMMA CommitCancelType ==
  ASSUME TypeOK, NEW w \in Workers, CommitCancel(w)
  PROVE  TypeOK'
  <1>1. TablesOK /\ TasksOK /\ UNCHANGED <<clock, todo>>
    BY DEF TypeOK, CommitCancel
  <1>2. task[w].pc = "cancel" /\ task[w] \in Task
        /\ \A o \in task[w].rows : o \in Order /\ o.acct \in DOMAIN account
    BY StatusTask DEF CommitCancel, At, StatusPCs, CancelPCs
  <1>3. ASSUME DOMAIN account' = DOMAIN account
        PROVE  TasksOK'
    <2> DEFINE t == [task[w] EXCEPT !.pc = "executed"]
    <2>1. /\ t \in Task /\ t.pc = "executed" /\ t.req = task[w].req /\ t.rows = task[w].rows
          /\ task' = [task EXCEPT ![w] = t] /\ task[w].req.op = "cancel"
      BY <1>2 DEF Task, PCs, StatusPCs, CancelPCs, CommitCancel, Goto, TypeOK, TasksOK, TaskOK
    <2> HIDE DEF t
    <2>2. task[w].pc \in StatusPCs /\ t.pc \in StatusPCs
          /\ \A o \in t.rows : o.acct \in DOMAIN account
      BY <1>2, <2>1 DEF StatusPCs, CancelPCs
    <2> QED BY <1>3, <2>1, <2>2, StatusTaskStep
  <1>4. CASE UNCHANGED tables
    <2>1. TablesOK' /\ DOMAIN account' = DOMAIN account
      BY <1>1, <1>4, TablesSame
    <2> QED BY <1>1, <1>3, <2>1 DEF TypeOK
  <1>5. ASSUME NEW o \in task[w].rows,
               cancel' = Append(cancel, [acct |-> o.acct, id |-> o.id, sym |-> o.sym,
                                         amount |-> o.amount]),
               position' = IF o.amount < 0 THEN ShiftPositions(position, o.acct, -o.amount)
                                           ELSE position,
               account' = IF o.amount < 0 THEN account
                          ELSE Pay(account, o.acct, o.price * o.amount),
               openOrder' = Without(openOrder, o.id),
               UNCHANGED <<exec, nextId, placed, granted>>
        PROVE  TypeOK'
    <2>1. o \in Order /\ o.acct \in DOMAIN account
      BY <1>2
    <2>2. o.amount \in Int /\ -o.amount \in Int /\ o.price * o.amount \in Int
      BY <2>1 DEF Order
    <2>3. DOMAIN account' = DOMAIN account /\ account' \in [DOMAIN account' -> Int]
      BY <1>1, <1>5, <2>1, <2>2, PayTables DEF TablesOK
    <2>4. DOMAIN position' = DOMAIN position /\ position' \in [DOMAIN position' -> Int]
      BY <1>1, <1>5, <2>2, ShiftTables DEF TablesOK
    <2>5. cancel' \in Seq(Cancelled)
      BY <1>1, <1>5, <2>1 DEF TablesOK, Order, Cancelled
    <2>6. openOrder' \subseteq openOrder
      BY <1>5 DEF Without
    <2>7. TablesOK'
      BY <1>1, <1>5, <2>3, <2>4, <2>5, <2>6 DEF TablesOK
    <2> QED BY <1>1, <1>3, <2>3, <2>7 DEF TypeOK
  <1> QED BY <1>4, <1>5 DEF CommitCancel

-----------------------------------------------------------------------------

\* Of the handlers only these four write to the tables.
LEMMA Writers ==
  ASSUME NEW w \in Workers, Receive(w) \/ Step(w)
  PROVE  \/ CreateStep(w) \/ CommitOrder(w) \/ Match(w) \/ CommitCancel(w)
         \/ UNCHANGED tables
  <1>1. CASE Receive(w) \/ CheckAccount(w)
    BY <1>1, Zenon DEF Receive, CheckAccount
  <1>2. CASE OrderStep(w)
    BY <1>2, Zenon DEF OrderStep, CheckFunds, BeginOrder, AbandonOrder, LookupId, SelectRows,
       LockRows, AbandonSelect, AbandonMatch, ReplyOpened
  <1>3. CASE QueryStep(w) \/ CancelStep(w)
    BY <1>3, Zenon DEF QueryStep, Look, CheckTransID, CheckBelong, QueryOrder, CancelStep,
       CheckIfOpen, ReadOrder, AbandonCancel, ReadExecuted
  <1> QED BY <1>1, <1>2, <1>3, Zenon DEF Step

LEMMA InitType == Init => TypeOK
  <1> SUFFICES ASSUME Init PROVE TypeOK
    OBVIOUS
  <1>1. TablesOK
    BY ExchangeAssumption DEF Init, TablesOK
  <1>2. Idle \in Task /\ TaskOK(Idle)
    BY DEF Idle, Task, PCs, OrderPCs, StatusPCs, CancelPCs, NoReq, NoId, TaskOK
  <1>3. TasksOK
    BY <1>2 DEF Init, TasksOK
  <1>4. clock \in Nat /\ todo \in Seq(Request)
    BY ExchangeAssumption DEF Init
  <1> QED BY <1>1, <1>3, <1>4 DEF TypeOK

LEMMA NextType == TypeOK /\ [Next]_vars => TypeOK'
  <1> SUFFICES ASSUME TypeOK, [Next]_vars PROVE TypeOK'
    OBVIOUS
  <1>1. CASE UNCHANGED vars
    BY <1>1 DEF TypeOK, TablesOK, TasksOK, TaskOK, vars, tables
  <1>2. ASSUME NEW w \in Workers, Receive(w) \/ Step(w)
        PROVE  TypeOK'
    <2>1. CASE Receive(w) \/ CheckAccount(w) \/ CreateStep(w)
      BY <2>1, ReceiveType, CheckAccountType, CreateType
    <2>2. CASE CommitOrder(w) \/ Match(w) \/ CommitCancel(w)
      BY <2>2, CommitOrderType, MatchType, CommitCancelType
    <2>3. CASE ReadStep(w) \/ StatusReadStep(w)
      BY <2>3, ReadStepType, StatusReadType
    <2> QED BY <1>2, <2>1, <2>2, <2>3
            DEF Step, OrderStep, CancelStep, ReadStep, StatusReadStep
  <1> QED BY <1>1, <1>2 DEF Next

\* The tables keep their types and foreign keys and every worker's locals fit
\* the place it has reached, in every state of every run of the exchange.
THEOREM TypeCorrect == Spec => []TypeOK
  BY InitType, NextType, PTL DEF Spec

-----------------------------------------------------------------------------
(* Closed orders.  An order's row can only come back under its id, and the  *)
(* ids of the orders that were ever stored are all below the next one.      *)

IdsBelow == \A o \in placed : o.id < nextId

\* The rows of the book after a step: rows of before it, or the new order's.
LEMMA BookRows ==
  ASSUME TypeOK, [Next]_vars, NEW p \in openOrder'
  PROVE  (\E q \in openOrder : q.id = p.id /\ q.acct = p.acct) \/ p.id = nextId
  <1>1. CASE UNCHANGED vars
    BY <1>1 DEF vars, tables
  <1>2. ASSUME NEW w \in Workers, Receive(w) \/ Step(w)
        PROVE  (\E q \in openOrder : q.id = p.id /\ q.acct = p.acct) \/ p.id = nextId
    <2>1. CASE openOrder' = openOrder
      BY <2>1
    <2>2. CASE CommitOrder(w)
      BY <2>2 DEF CommitOrder
    <2>3. CASE Match(w)
      <3>1. PICK o \in task[w].rows : openOrder' = BookAfter(w, Trade(w, o), o)
        BY <2>3 DEF Match, Leading
      <3>2. openOrder \in SUBSET Order /\ task[w].left + o.amount \in Int
        BY DEF TypeOK, TablesOK, TasksOK, Task, Order
      <3>3. p \in Settle(openOrder, Trade(w, o).sell, Trade(w, o).buy, task[w].left + o.amount)
        BY <3>1 DEF BookAfter
      <3> QED BY <3>2, <3>3, SettleRows
    <2>4. CASE CommitCancel(w)
      BY <2>4 DEF CommitCancel, tables, Without
    <2>5. CASE CreateStep(w) \/ UNCHANGED tables
      BY <2>1, <2>5 DEF CreateStep, CreateAccount, CreatePosition, AbandonPosition, tables
    <2> QED BY <1>2, <2>2, <2>3, <2>4, <2>5, Writers
  <1> QED BY <1>1, <1>2 DEF Next

LEMMA IdsStep == TypeOK /\ IdsBelow /\ [Next]_vars => IdsBelow'
  <1> SUFFICES ASSUME TypeOK, IdsBelow, [Next]_vars PROVE IdsBelow'
    OBVIOUS
  <1>1. nextId \in Nat /\ \A o \in placed : o.id \in Int
    BY DEF TypeOK, TablesOK, Order
  <1>2. \/ placed' = placed /\ nextId' = nextId
        \/ \E w \in Workers : CommitOrder(w)
    <2>1. CASE UNCHANGED vars
      BY <2>1 DEF vars, tables
    <2>2. ASSUME NEW w \in Workers, Receive(w) \/ Step(w), ~CommitOrder(w)
          PROVE  placed' = placed /\ nextId' = nextId
      <3>1. CreateStep(w) \/ Match(w) \/ CommitCancel(w) \/ UNCHANGED tables
        BY <2>2, Writers
      <3> QED BY <3>1 DEF CreateStep, CreateAccount, CreatePosition, AbandonPosition, Match,
                          CommitCancel, tables
    <2> QED BY <2>1, <2>2 DEF Next
  <1>3. CASE placed' = placed /\ nextId' = nextId
    BY <1>3 DEF IdsBelow
  <1>4. ASSUME NEW w \in Workers, CommitOrder(w)
        PROVE  IdsBelow'
    <2>1. nextId' = nextId + 1 /\ \A o \in placed' : o \in placed \/ o.id = nextId
      BY <1>4 DEF CommitOrder
    <2> QED BY <1>1, <2>1 DEF IdsBelow
  <1> QED BY <1>2, <1>3, <1>4

\* An order that left the book never returns to it, whatever a stale fill or a
\* late cancellation writes: MatchOrder and CancelOrder only write rows that
\* are there, and ids are not used twice.
THEOREM ClosedForGood == Spec => ClosedStaysClosed
  <1> DEFINE Stays == \A o \in placed : (\E p \in openOrder' : p.id = o.id)
                                         => \E p \in openOrder : p.id = o.id
  <1>1. Init => IdsBelow
    BY DEF Init, IdsBelow
  <1>2. TypeOK /\ IdsBelow /\ [Next]_vars => [Stays]_vars
    <2> SUFFICES ASSUME TypeOK, IdsBelow, [Next]_vars, NEW o \in placed,
                        NEW p \in openOrder', p.id = o.id
                 PROVE  \E q \in openOrder : q.id = o.id
      OBVIOUS
    <2>1. o.id < nextId /\ o.id \in Int /\ nextId \in Nat
      BY DEF IdsBelow, TypeOK, TablesOK, Order
    <2>2. (\E q \in openOrder : q.id = p.id) \/ p.id = nextId
      BY BookRows
    <2> QED BY <2>1, <2>2
  <1> HIDE DEF Stays
  <1>3. Spec => [][Stays]_vars
    BY <1>1, <1>2, IdsStep, TypeCorrect, PTL DEF Spec
  <1> QED BY <1>3 DEF Stays, ClosedStaysClosed

-----------------------------------------------------------------------------
(* Nobody cancels another account's order, although the checks of            *)
(* Cancel::execute read four tables one after the other and may find an      *)
(* order in none of them: an order missing from the book when checkBelong    *)
(* looks for it is never open again, and checkIfOpen comes later.            *)

ChecksOK == \A w \in Workers : CheckOK(task[w])

OInv == TypeOK /\ OwnerInvariant

-----------------------------------------------------------------------------
(* What steps do to the locals the invariant speaks of. *)

\* An answer leaves a worker without id, rows or findings.
LEMMA ReplyTask ==
  ASSUME TypeOK, NEW w \in Workers, NEW ok, NEW val, NEW report, Reply(w, ok, val, report)
  PROVE  /\ \A v \in Workers \ {w} : task'[v] = task[v]
         /\ task'[w].pc \in {"idle", "account"} /\ task'[w].tid = NoId
         /\ task'[w].rows = {} /\ task'[w].found = {}
  <1>1. task[w].rest \in Seq(SubRequest) /\ task' = [task EXCEPT ![w] = Run(task[w].rest)]
    BY DEF Reply, TypeOK, TasksOK, Task
  <1> QED BY <1>1, RunType DEF TypeOK, TasksOK

\* The places a worker may come to without checks of its own to remember.
Quiet(t) ==
  /\ t.pc \in {"idle", "account", "trans", "createAccount", "createPosition"} \cup OrderPCs
  /\ t.found = {}

\* Ids that a step may give a worker to hold.
KnownId(i) == i = NoId \/ \E o \in openOrder : o.id = i

\* What any step makes of the worker that takes it.
Moved(w) ==
  /\ \A v \in Workers \ {w} : task'[v] = task[v]
  /\ task'[w].tid = task[w].tid \/ KnownId(task'[w].tid)
  /\ task'[w].rows \subseteq task[w].rows \cup openOrder

\* Findings are only kept between the four SELECTs of a check.
NothingFound(w) == task[w].pc \notin {"trans", "belong"} => task[w].found = {}

LEMMA ReplyMoved ==
  ASSUME TypeOK, NEW w \in Workers, NEW ok, NEW val, NEW report, Reply(w, ok, val, report)
  PROVE  Moved(w) /\ Quiet(task'[w])
  BY ReplyTask DEF Moved, Quiet, KnownId

LEMMA ReceiveMoved ==
  ASSUME TypeOK, NEW w \in Workers, Receive(w)
  PROVE  Moved(w) /\ Quiet(task'[w])
  <1>1. Head(todo) \in Seq(SubRequest) /\ task' = [task EXCEPT ![w] = Run(Head(todo))]
    BY DEF TypeOK, Receive, Request
  <1> QED BY <1>1, RunType DEF TypeOK, TasksOK, Moved, Quiet, KnownId

LEMMA CreateMoved ==
  ASSUME TypeOK, NEW w \in Workers, CreateStep(w)
  PROVE  Moved(w) /\ Quiet(task'[w])
  BY ReplyMoved DEF CreateStep, CreateAccount, CreatePosition, AbandonPosition

LEMMA GotoMoved ==
  ASSUME TypeOK, NEW w \in Workers, NEW pc, Goto(w, pc)
  PROVE  /\ Moved(w)
         /\ task'[w] = [task[w] EXCEPT !.pc = pc]
         /\ task'[w].pc = pc /\ task'[w].found = task[w].found /\ task'[w].req = task[w].req
         /\ task'[w].look = task[w].look
  BY DEF Goto, TypeOK, TasksOK, Task, Moved

LEMMA CheckAccountMoved ==
  ASSUME OInv, NEW w \in Workers, CheckAccount(w)
  PROVE  Moved(w) /\ Quiet(task'[w])
  <1> DEFINE pc == AfterAccount(task[w].req)
  <1>1. CASE Reject(w)
    BY <1>1, ReplyMoved DEF Reject, OInv
  <1>2. CASE Goto(w, pc)
    <2>1. task[w].found = {}
      BY DEF CheckAccount, At, OInv, OwnerInvariant, CheckOK
    <2>2. pc \in {"trans", "createAccount", "createPosition"} \cup OrderPCs
      BY DEF AfterAccount, OrderPCs
    <2> QED BY <1>2, <2>1, <2>2, GotoMoved DEF OInv, Quiet
  <1> QED BY <1>1, <1>2 DEF CheckAccount

-----------------------------------------------------------------------------
(* The steps of an order leave what was found alone. *)

LEMMA OrderMoved ==
  ASSUME TypeOK, NEW w \in Workers, OrderStep(w)
  PROVE  /\ Moved(w)
         /\ task'[w].pc \in {"idle", "account"} \cup OrderPCs
         /\ task'[w].pc = "account" => task'[w].found = {}
  <1> DEFINE r == task[w].req
  <1>1. task[w] \in Task /\ task \in [Workers -> Task]
    BY DEF TypeOK, TasksOK
  <1>a. "account" \notin OrderPCs
    BY DEF OrderPCs
  <1>b. ASSUME NEW ok, NEW val, NEW report, Reply(w, ok, val, report)
        PROVE  /\ Moved(w)
               /\ task'[w].pc \in {"idle", "account"} /\ task'[w].found = {}
    BY <1>b, ReplyMoved, ReplyTask
  <1>c. ASSUME NEW pc \in OrderPCs, Goto(w, pc)
        PROVE  Moved(w) /\ task'[w].pc \in OrderPCs
    BY <1>c, GotoMoved
  <1>2. CASE CheckFunds(w)
    <2>1. Reject(w) \/ Goto(w, "begin")
      BY <1>2, Zenon DEF CheckFunds
    <2>2. Reply(w, FALSE, 0, {}) \/ Goto(w, "begin")
      BY <2>1, Zenon DEF Reject
    <2>3. "begin" \in OrderPCs
      BY DEF OrderPCs
    <2>4. CASE Goto(w, "begin")
      BY <1>a, <1>c, <2>3, <2>4, Zenon
    <2>5. CASE Reply(w, FALSE, 0, {})
      BY <1>b, <2>5, Zenon
    <2> QED BY <2>2, <2>4, <2>5
  <1>3. CASE BeginOrder(w)
    BY <1>1, <1>3 DEF BeginOrder, Task, Moved, OrderPCs
  <1>4. CASE CommitOrder(w)
    <2>1. Goto(w, "lookup") /\ "lookup" \in OrderPCs
      BY <1>4 DEF CommitOrder, OrderPCs
    <2> QED BY <1>a, <1>c, <2>1
  <1>5. CASE AbandonOrder(w)
    <2>1. Goto(w, AfterInsert(r)) /\ AfterInsert(r) \in OrderPCs
      BY <1>5 DEF AbandonOrder, AfterInsert, OrderPCs
    <2> QED BY <1>a, <1>c, <2>1
  <1>6. CASE LookupId(w)
    <2>1. PICK i : /\ KnownId(i)
                   /\ task' = [task EXCEPT ![w] = [task[w] EXCEPT !.tid = i,
                                                                  !.pc = AfterInsert(r)]]
      BY <1>6 DEF LookupId, KnownId
    <2> QED BY <1>1, <2>1 DEF Task, Moved, AfterInsert, OrderPCs
  <1>7. CASE SelectRows(w)
    BY <1>1, <1>7 DEF SelectRows, Task, Moved, OrderPCs
  <1>8. CASE LockRows(w)
    BY <1>1, <1>8 DEF LockRows, Task, Moved, OrderPCs
  <1>9. CASE AbandonSelect(w)
    <2>1. Goto(w, "done") /\ "done" \in OrderPCs
      BY <1>9 DEF AbandonSelect, OrderPCs
    <2> QED BY <1>a, <1>c, <2>1
  <1>10. CASE Match(w) \/ AbandonMatch(w)
    <2>1. PICK o \in task[w].rows : task' = [task EXCEPT ![w] = AfterFill(w, o)]
      BY <1>10 DEF Match, AbandonMatch, Leading, NextRow
    <2>2. /\ AfterFill(w, o).tid = task[w].tid /\ AfterFill(w, o).rows \subseteq task[w].rows
          /\ AfterFill(w, o).pc \in {"match", "done"}
      BY <1>1 DEF AfterFill, Task
    <2> QED BY <1>1, <2>1, <2>2 DEF Moved, OrderPCs
  <1>11. CASE ReplyOpened(w)
    BY <1>b, <1>11 DEF ReplyOpened
  <1> QED BY <1>2, <1>3, <1>4, <1>5, <1>6, <1>7, <1>8, <1>9, <1>10, <1>11 DEF OrderStep

-----------------------------------------------------------------------------
(* What the SELECTs of a check tell. *)

LEMMA OwnersKnown ==
  ASSUME TypeOK, IdsPlaced, NEW id \in Int, NEW k \in 1 .. 4, NEW a \in OwnersIn(id)[k]
  PROVE  id < nextId
  <1>1. k = 1 \/ k = 2 \/ k = 3 \/ k = 4
    OBVIOUS
  <1>2. CASE k = 1
    BY <1>2 DEF OwnersIn, IdsPlaced
  <1>3. CASE k = 2
    BY <1>3 DEF OwnersIn, IdsPlaced
  <1>4. CASE k = 3
    BY <1>4 DEF OwnersIn, IdsPlaced
  <1>5. CASE k = 4
    BY <1>5 DEF OwnersIn, IdsPlaced
  <1> QED BY <1>1, <1>2, <1>3, <1>4, <1>5

\* checkBelong has seen the owner of an order that is still open.
LEMMA OwnerSeen ==
  ASSUME OInv, NEW w \in Workers, task[w].pc = "belong", task[w].look >= 2,
         NEW o \in openOrder, o.id = task[w].req.id
  PROVE  o.acct \in Seen(w)
  <1>1. task[w].look \in 1 .. 4
    BY DEF OInv, TypeOK, TasksOK, Task
  <1>2. CASE task[w].look = 2
    BY <1>2 DEF Seen, OwnersIn
  <1>3. CASE task[w].look > 2
    BY <1>3 DEF Seen, OInv, OwnerInvariant, CheckOK
  <1> QED BY <1>1, <1>2, <1>3

-----------------------------------------------------------------------------
(* The steps of queries and cancellations. *)

LEMMA EnterMoved ==
  ASSUME TypeOK, NEW w \in Workers, NEW pc, Enter(w, pc)
  PROVE  /\ Moved(w)
         /\ task'[w].pc = pc /\ task'[w].found = {} /\ task'[w].look = 1
         /\ task'[w].req = task[w].req
  BY DEF Enter, TypeOK, TasksOK, Task, Moved

\* None of them opens an order.
LEMMA StatusMoved ==
  ASSUME OInv, NEW w \in Workers, QueryStep(w) \/ CancelStep(w)
  PROVE  /\ Moved(w)
         /\ CheckOK(task[w])'
  <1> DEFINE r == task[w].req
  <1>1. /\ TypeOK /\ IdsPlaced /\ task[w] \in Task /\ task \in [Workers -> Task]
        /\ CheckOK(task[w])
    BY DEF OInv, OwnerInvariant, TypeOK, TasksOK
  <1>2. task[w].pc \in StatusPCs /\ r.id \in Int /\ r.op \in {"query", "cancel"}
    <2>1. task[w].pc \in StatusPCs
      BY DEF QueryStep, Look, CheckTransID, CheckBelong, QueryOrder, CancelStep, CheckIfOpen,
         ReadOrder, CommitCancel, AbandonCancel, ReadExecuted, At, StatusPCs, CancelPCs
    <2> QED BY <1>1, <2>1, StatusTask
  <1>3. nextId' = nextId /\ placed' = placed /\ openOrder' \subseteq openOrder
    <2>1. CASE CommitCancel(w)
      BY <2>1 DEF CommitCancel, tables, Without
    <2>2. CASE UNCHANGED tables
      BY <2>2 DEF tables
    <2>3. CommitCancel(w) \/ UNCHANGED tables
      BY Zenon DEF QueryStep, Look, CheckTransID, CheckBelong, QueryOrder, CancelStep,
         CheckIfOpen, ReadOrder, AbandonCancel, ReadExecuted
    <2> QED BY <2>1, <2>2, <2>3
  <1>4. ASSUME NEW ok, NEW val, NEW report, Reply(w, ok, val, report)
        PROVE  Moved(w) /\ CheckOK(task[w])'
    <2>1. Moved(w) /\ task'[w].pc \in {"idle", "account"} /\ task'[w].found = {}
      BY <1>1, <1>4, ReplyTask, ReplyMoved
    <2> QED BY <2>1 DEF CheckOK, StatusPCs, CancelPCs
  <1>5. CASE Look(w)
    <2> DEFINE t == [task[w] EXCEPT !.found = Seen(w), !.look = task[w].look + 1]
    <2>1. /\ t.pc = task[w].pc /\ t.req = r /\ t.found = Seen(w) /\ t.look = task[w].look + 1
          /\ t.tid = task[w].tid /\ t.rows = task[w].rows /\ task' = [task EXCEPT ![w] = t]
          /\ task[w].pc \in {"trans", "belong"} /\ task[w].look \in 1 .. 4
      BY <1>1, <1>5 DEF Look, Task
    <2> HIDE DEF t
    <2>2. Moved(w) /\ task'[w] = t
      BY <1>1, <2>1 DEF Moved
    <2>3. t.pc = "trans" /\ t.found # {} => t.req.id < nextId
      BY <1>1, <1>2, <2>1, OwnersKnown DEF CheckOK, Seen
    <2>4. t.pc = "belong" => t.req.id < nextId
      BY <1>1, <2>1 DEF CheckOK, StatusPCs
    <2>5. t.pc = "belong" /\ t.look > 2 =>
            \A o \in openOrder : o.id = t.req.id => o.acct \in t.found
      <3>1. ASSUME t.pc = "belong", t.look > 2, NEW o \in openOrder, o.id = t.req.id
            PROVE  o.acct \in Seen(w)
        <4>1. task[w].pc = "belong" /\ task[w].look >= 2 /\ o.id = task[w].req.id
          BY <2>1, <3>1
        <4> QED BY <4>1, OwnerSeen
      <3> QED BY <2>1, <3>1
    <2> QED BY <1>3, <2>1, <2>2, <2>3, <2>4, <2>5 DEF CheckOK, StatusPCs, CancelPCs
  <1>6. CASE CheckTransID(w)
    <2>1. CASE Seen(w) # {} /\ Enter(w, "belong")
      <3>1. r.id < nextId
        BY <1>1, <1>2, <1>6, <2>1, OwnersKnown DEF CheckTransID, At, CheckOK, Seen
      <3> QED BY <1>1, <1>3, <2>1, <3>1, EnterMoved DEF CheckOK, StatusPCs, CancelPCs
    <2>2. CASE Reject(w)
      BY <1>4, <2>2 DEF Reject
    <2> QED BY <1>6, <2>1, <2>2 DEF CheckTransID
  <1>7. CASE CheckBelong(w)
    <2> DEFINE pc == IF r.op = "query" THEN "status" ELSE "open"
    <2>1. CASE Seen(w) \subseteq {r.acct} /\ Enter(w, pc)
      <3>1. r.id < nextId
        BY <1>1, <1>7 DEF CheckBelong, At, CheckOK, StatusPCs
      <3>2. \A o \in openOrder : o.id = r.id => o.acct = r.acct
        BY <1>7, <2>1, OwnerSeen DEF CheckBelong, At
      <3>3. pc \in {"status", "open"}
        OBVIOUS
      <3> HIDE DEF pc
      <3> QED BY <1>1, <1>3, <2>1, <3>1, <3>2, <3>3, EnterMoved DEF CheckOK, StatusPCs, CancelPCs
    <2>2. CASE Reject(w)
      BY <1>4, <2>2 DEF Reject
    <2> QED BY <1>7, <2>1, <2>2 DEF CheckBelong
  <1>8. CASE QueryOrder(w)
    <2> DEFINE report == task[w].report \cup StatusIn(r.id)[task[w].look]
               t == [task[w] EXCEPT !.report = report, !.look = task[w].look + 1]
    <2>1. CASE Reply(w, TRUE, 0, report)
      BY <1>4, <2>1
    <2>2. CASE task' = [task EXCEPT ![w] = t]
      <3>1. /\ t.pc = "status" /\ t.req = r /\ t.tid = task[w].tid /\ t.rows = task[w].rows
        BY <1>1, <1>8 DEF Task, QueryOrder, At
      <3> HIDE DEF t
      <3>2. Moved(w) /\ task'[w] = t
        BY <1>1, <2>2, <3>1 DEF Moved
      <3>3. r.id < nextId
        BY <1>1, <1>8 DEF CheckOK, StatusPCs, QueryOrder, At
      <3> QED BY <1>3, <3>1, <3>2, <3>3 DEF CheckOK, StatusPCs, CancelPCs
    <2> QED BY <1>8, <2>1, <2>2 DEF QueryOrder
  <1>9. CASE CheckIfOpen(w)
    <2>1. CASE (\E o \in openOrder : o.id = r.id) /\ Goto(w, "read")
      <3>1. OwnedBy(r.id, r.acct) /\ r.id < nextId
        BY <1>1, <1>9, <2>1 DEF CheckIfOpen, At, CheckOK, StatusPCs, CancelPCs, IdsPlaced, OwnedBy
      <3>2. Moved(w) /\ task'[w].pc = "read" /\ task'[w].req = r
        BY <1>1, <2>1, GotoMoved
      <3>3. (\E o \in placed' : o.id = r.id /\ o.acct = r.acct) /\ r.id < nextId'
        BY <1>3, <3>1 DEF OwnedBy
      <3> HIDE DEF r
      <3> QED BY <3>2, <3>3 DEF CheckOK, OwnedBy, StatusPCs, CancelPCs
    <2>2. CASE Reject(w)
      BY <1>4, <2>2 DEF Reject
    <2> QED BY <1>9, <2>1, <2>2 DEF CheckIfOpen
  <1>10. CASE ReadOrder(w)
    <2> DEFINE rows == {o \in openOrder : o.id = r.id}
               report == {[state |-> "canceled", row |-> 0, shares |-> o.amount] : o \in rows}
               t == [task[w] EXCEPT !.rows = rows, !.report = report, !.pc = "cancel"]
    <2>1. /\ t.pc = "cancel" /\ t.req = r /\ t.tid = task[w].tid /\ t.rows \subseteq openOrder
          /\ task' = [task EXCEPT ![w] = t]
      BY <1>1, <1>10 DEF Task, ReadOrder, At
    <2> HIDE DEF t
    <2>2. Moved(w) /\ task'[w] = t
      BY <1>1, <2>1 DEF Moved
    <2>3. r.id < nextId /\ OwnedBy(r.id, r.acct)
      BY <1>1, <1>10 DEF CheckOK, StatusPCs, CancelPCs, ReadOrder, At
    <2> QED BY <1>3, <2>1, <2>2, <2>3 DEF CheckOK, StatusPCs, CancelPCs, OwnedBy
  <1>11. CASE CommitCancel(w)
    <2>1. Goto(w, "executed") /\ r.id < nextId /\ OwnedBy(r.id, r.acct)
      BY <1>1, <1>11 DEF CheckOK, StatusPCs, CancelPCs, CommitCancel, At
    <2> QED BY <1>1, <1>3, <2>1, GotoMoved DEF CheckOK, StatusPCs, CancelPCs, OwnedBy
  <1>12. CASE AbandonCancel(w) \/ ReadExecuted(w)
    BY <1>4, <1>12 DEF AbandonCancel, ReadExecuted
  <1> QED BY <1>5, <1>6, <1>7, <1>8, <1>9, <1>10, <1>11, <1>12 DEF QueryStep, CancelStep

-----------------------------------------------------------------------------
(* The invariant. *)

LEMMA StepMoved ==
  ASSUME OInv, NEW w \in Workers, Receive(w) \/ Step(w)
  PROVE  Moved(w) /\ CheckOK(task[w])'
  <1>1. CASE Receive(w) \/ CheckAccount(w) \/ CreateStep(w)
    <2>1. Moved(w) /\ Quiet(task'[w])
      BY <1>1, ReceiveMoved, CheckAccountMoved, CreateMoved DEF OInv
    <2> QED BY <2>1 DEF Quiet, CheckOK, OrderPCs, StatusPCs, CancelPCs
  <1>2. CASE OrderStep(w)
    BY <1>2, OrderMoved DEF OInv, CheckOK, OrderPCs, StatusPCs, CancelPCs
  <1>3. CASE QueryStep(w) \/ CancelStep(w)
    BY <1>3, StatusMoved
  <1> QED BY <1>1, <1>2, <1>3 DEF Step

\* Ids only grow, and what is stored keeps its id and its account.
LEMMA IdsPlacedStep ==
  ASSUME OInv, NEW w \in Workers, Receive(w) \/ Step(w)
  PROVE  /\ IdsPlaced'
         /\ nextId <= nextId' /\ placed \subseteq placed'
  <1>a. IdsPlaced /\ Moved(w) /\ TypeOK
    BY StepMoved DEF OInv, OwnerInvariant
  <1>b. /\ nextId \in Nat \ {0}
        /\ placed \subseteq Order /\ openOrder \subseteq Order
        /\ exec \in Seq(Exec) /\ cancel \in Seq(Cancelled)
        /\ \A v \in Workers : task[v] \in Task
    BY <1>a DEF TypeOK, TablesOK, TasksOK
  <1>c. \A o \in Order : o.id \in Int
    BY DEF Order
  <1>d. \A v \in Workers : task[v].tid \in Int /\ task[v].rows \subseteq Order
    BY <1>b DEF Task
  <1>1. /\ IdsPlaced /\ nextId \in Nat \ {0} /\ Moved(w)
        /\ \A o \in placed \cup openOrder : o.id \in Int
        /\ exec \in Seq(Exec) /\ cancel \in Seq(Cancelled)
        /\ \A v \in Workers : task[v] \in Task /\ task[v].tid \in Int
        /\ \A v \in Workers : \A o \in task[v].rows : o.id \in Int
    BY <1>a, <1>b, <1>c, <1>d
  <1>2. \/ placed' = placed /\ nextId' = nextId
        \/ \E o : /\ o.id = nextId /\ placed' = placed \cup {o} /\ openOrder' = openOrder \cup {o}
                  /\ nextId' = nextId + 1
    BY Writers DEF CreateStep, CreateAccount, CreatePosition, AbandonPosition, Match, CommitOrder,
                   CommitCancel, tables
  <1>3. nextId <= nextId' /\ placed \subseteq placed' /\ nextId' \in Nat
    BY <1>1, <1>2
  <1>4. \A o, p \in placed' : o.id < nextId' /\ (o.id = p.id => o = p)
    BY <1>1, <1>2 DEF IdsPlaced
  <1>5. ASSUME NEW o \in openOrder'
        PROVE  \E p \in placed' : p.id = o.id /\ p.acct = o.acct
    <2>1. [Next]_vars /\ TypeOK
      BY DEF Next, OInv
    <2>2. (\E q \in openOrder : q.id = o.id /\ q.acct = o.acct) \/ o.id = nextId
      BY <2>1, BookRows
    <2>3. CASE \E q \in openOrder : q.id = o.id /\ q.acct = o.acct
      BY <1>1, <1>3, <2>3 DEF IdsPlaced
    <2>4. CASE o.id = nextId /\ ~ \E q \in openOrder : q.id = o.id /\ q.acct = o.acct
      <3>1. \A q \in openOrder : q.id < nextId
        BY <1>1 DEF IdsPlaced
      <3>2. o \in placed'
        <4>1. CASE Match(w)
          <5>1. PICK m \in task[w].rows : openOrder' = BookAfter(w, Trade(w, m), m)
            BY <4>1 DEF Match, Leading
          <5>2. openOrder \in SUBSET Order /\ task[w].left + m.amount \in Int
            BY DEF OInv, TypeOK, TablesOK, TasksOK, Task, Order
          <5>3. \E q \in openOrder : q.id = o.id /\ q.acct = o.acct
            BY <5>1, <5>2, SettleRows DEF BookAfter
          <5> QED BY <2>4, <5>3
        <4>2. CASE ~Match(w)
          BY <2>4, <4>2, Writers DEF CreateStep, CreateAccount, CreatePosition, AbandonPosition,
             CommitOrder, CommitCancel, tables, Without
        <4> QED BY <4>1, <4>2
      <3> QED BY <3>2
    <2> QED BY <2>2, <2>3, <2>4
  <1>6. ASSUME NEW i \in DOMAIN exec'
        PROVE  exec'[i].buy < nextId' /\ exec'[i].sell < nextId'
    <2>1. CASE exec' = exec
      <3>1. exec'[i] \in Exec /\ exec'[i].buy < nextId /\ exec'[i].sell < nextId
        BY <1>1, <2>1 DEF IdsPlaced
      <3>2. exec'[i].buy \in Int /\ exec'[i].sell \in Int
        BY <3>1 DEF Exec
      <3> QED BY <1>1, <1>3, <3>1, <3>2
    <2>2. CASE Match(w)
      <3>1. PICK o \in task[w].rows : exec' = Append(exec, Trade(w, o))
        BY <2>2 DEF Match, Leading
      <3>2. Trade(w, o).buy \in {o.id, task[w].tid} /\ Trade(w, o).sell \in {o.id, task[w].tid}
        BY DEF Trade
      <3>3. o.id < nextId /\ task[w].tid < nextId /\ nextId' = nextId
        BY <1>1, <2>2 DEF IdsPlaced, Match
      <3> HIDE DEF Trade
      <3>4. (i \in DOMAIN exec /\ exec'[i] = exec[i]) \/ exec'[i] = Trade(w, o)
        BY <1>1, <3>1
      <3> QED BY <1>1, <3>2, <3>3, <3>4 DEF IdsPlaced
    <2> QED BY <2>1, <2>2, Writers DEF CreateStep, CreateAccount, CreatePosition, AbandonPosition,
            CommitOrder, CommitCancel, tables
  <1>7. ASSUME NEW i \in DOMAIN cancel'
        PROVE  cancel'[i].id < nextId'
    <2>1. CASE cancel' = cancel
      <3>1. cancel'[i] \in Cancelled /\ cancel'[i].id < nextId
        BY <1>1, <2>1 DEF IdsPlaced
      <3>2. cancel'[i].id \in Int
        BY <3>1 DEF Cancelled
      <3> QED BY <1>1, <1>3, <3>1, <3>2
    <2>2. CASE CommitCancel(w) /\ cancel' # cancel
      <3>1. PICK o \in task[w].rows :
              cancel' = Append(cancel, [acct |-> o.acct, id |-> o.id, sym |-> o.sym,
                                        amount |-> o.amount])
        BY <2>2 DEF CommitCancel, tables
      <3>2. o.id < nextId /\ nextId' = nextId
        BY <1>1, <2>2 DEF IdsPlaced, CommitCancel, tables
      <3>3. (i \in DOMAIN cancel /\ cancel'[i] = cancel[i]) \/ cancel'[i].id = o.id
        BY <1>1, <3>1
      <3> QED BY <1>1, <3>2, <3>3 DEF IdsPlaced
    <2> QED BY <2>1, <2>2, Writers DEF CreateStep, CreateAccount, CreatePosition, AbandonPosition,
            CommitOrder, Match, tables
  <1>8. ASSUME NEW v \in Workers
        PROVE  task'[v].tid < nextId' /\ \A o \in task'[v].rows : o.id < nextId'
    <2>1. NoId < nextId /\ \A o \in openOrder : o.id < nextId
      BY <1>1 DEF NoId, IdsPlaced
    <2>2. task'[v].tid = task[v].tid \/ KnownId(task'[v].tid)
      BY <1>1 DEF Moved
    <2>3. task'[v].rows \subseteq task[v].rows \cup openOrder
      BY <1>1 DEF Moved
    <2>4. task[v].tid < nextId /\ \A o \in task[v].rows : o.id < nextId
      BY <1>1 DEF IdsPlaced
    <2>5. task'[v].tid < nextId /\ task'[v].tid \in Int
      BY <1>1, <2>1, <2>2, <2>4 DEF KnownId, NoId
    <2> QED BY <1>1, <1>3, <2>1, <2>3, <2>4, <2>5
  <1> QED BY <1>3, <1>4, <1>5, <1>6, <1>7, <1>8 DEF IdsPlaced

\* What the other workers' checks have established stays true: an order they
\* found closed is not opened again, and new orders have new ids.
LEMMA ChecksStep ==
  ASSUME OInv, NEW w \in Workers, Receive(w) \/ Step(w)
  PROVE  ChecksOK'
  <1>1. CheckOK(task[w])' /\ \A v \in Workers \ {w} : task'[v] = task[v]
    BY StepMoved DEF Moved
  <1>2. nextId <= nextId' /\ placed \subseteq placed' /\ nextId \in Nat /\ nextId' \in Nat
    <2>1. TypeOK'
      BY NextType DEF OInv, Next
    <2> QED BY <2>1, IdsPlacedStep DEF OInv, TypeOK, TablesOK
  <1>3. ASSUME NEW v \in Workers \ {w}
        PROVE  CheckOK(task[v])'
    <2> DEFINE t == task[v]
    <2>1. CheckOK(t) /\ t \in Task
      BY DEF OInv, OwnerInvariant, TypeOK, TasksOK
    <2>2. t.pc \in StatusPCs => t.req.id \in Int
      BY StatusTask DEF OInv
    <2>3. ASSUME t.pc \in StatusPCs, t.req.id < nextId, NEW p \in openOrder', p.id = t.req.id
          PROVE  \E q \in openOrder : q.id = p.id /\ q.acct = p.acct
      <3>1. [Next]_vars /\ TypeOK
        BY DEF Next, OInv
      <3> QED BY <1>2, <2>2, <2>3, <3>1, BookRows
    <2>4. task'[v] = t
      BY <1>1
    <2> HIDE DEF t
    <2>5. t.pc = "belong" /\ t.look > 2 =>
            \A o \in openOrder' : o.id = t.req.id => o.acct \in t.found
      BY <2>1, <2>3 DEF CheckOK, StatusPCs
    <2>6. t.pc = "open" => \A o \in openOrder' : o.id = t.req.id => o.acct = t.req.acct
      BY <2>1, <2>3 DEF CheckOK, StatusPCs, CancelPCs
    <2>7. t.pc \in StatusPCs /\ t.req.id < nextId => t.req.id < nextId'
      BY <1>2, <2>2
    <2>8. /\ t.pc = "trans" /\ t.found # {} => t.req.id < nextId'
          /\ t.pc \in StatusPCs \ {"trans"} => t.req.id < nextId'
      BY <2>1, <2>7 DEF CheckOK, StatusPCs
    <2>9. t.pc \in {"read", "cancel", "executed"} =>
            \E o \in placed' : o.id = t.req.id /\ o.acct = t.req.acct
      BY <1>2, <2>1 DEF CheckOK, OwnedBy
    <2> DEFINE u == task'[v]
    <2>10. /\ u.pc = "account" => u.found = {}
           /\ u.pc = "trans" /\ u.found # {} => u.req.id < nextId'
           /\ u.pc \in StatusPCs \ {"trans"} => u.req.id < nextId'
           /\ u.pc = "belong" /\ u.look > 2 =>
                \A o \in openOrder' : o.id = u.req.id => o.acct \in u.found
           /\ u.pc = "open" => \A o \in openOrder' : o.id = u.req.id => o.acct = u.req.acct
           /\ u.pc \in {"read", "cancel", "executed"} =>
                \E o \in placed' : o.id = u.req.id /\ o.acct = u.req.acct
      <3>1. u = t
        BY <2>4
      <3>2. t.pc = "account" => t.found = {}
        BY <2>1 DEF CheckOK
      <3> HIDE DEF u
      <3> QED BY <2>5, <2>6, <2>8, <2>9, <3>1, <3>2
    <2> QED BY <2>10 DEF CheckOK, OwnedBy
  <1> QED BY <1>1, <1>3 DEF ChecksOK

\* A cancellation is only answered at the places checkIfOpen leads to.
LEMMA AnswersStep ==
  ASSUME OInv, replies \in Seq(Answer), NEW w \in Workers, Receive(w) \/ Step(w)
  PROVE  CancelledByOwner' /\ replies' \in Seq(Answer)
  <1>1. placed \subseteq placed'
    BY IdsPlacedStep
  <1>2. TypeOK /\ CancelledByOwner /\ CheckOK(task[w]) /\ task[w] \in Task
    BY DEF OInv, OwnerInvariant, TypeOK, TasksOK
  <1>3. ASSUME NEW ok \in BOOLEAN, NEW val \in Int, NEW report \in SUBSET Entry,
               Reply(w, ok, val, report), task[w].req \in SubRequest,
               ok /\ task[w].req.op = "cancel" => OwnedBy(task[w].req.id, task[w].req.acct)
        PROVE  CancelledByOwner' /\ replies' \in Seq(Answer)
    <2> DEFINE new == [req |-> task[w].req, at |-> task[w].pc, ok |-> ok, val |-> val,
                       report |-> report]
    <2>1. new \in Answer /\ replies' = Append(replies, new)
      BY <1>2, <1>3 DEF Reply, Answer, Task
    <2>2. ASSUME NEW i \in DOMAIN replies', replies'[i].ok, replies'[i].req.op = "cancel"
          PROVE  \E o \in placed' : o.id = replies'[i].req.id /\ o.acct = replies'[i].req.acct
      <3>1. (i \in DOMAIN replies /\ replies'[i] = replies[i]) \/ replies'[i] = new
        BY <2>1
      <3>2. CASE replies'[i] = new
        BY <1>1, <1>3, <2>2, <3>2 DEF OwnedBy
      <3>3. CASE i \in DOMAIN replies /\ replies'[i] = replies[i]
        BY <1>1, <1>2, <2>2, <3>3 DEF CancelledByOwner
      <3> QED BY <3>1, <3>2, <3>3
    <2> HIDE DEF new
    <2> QED BY <2>1, <2>2 DEF CancelledByOwner
  <1>4. CASE replies' = replies
    BY <1>1, <1>2, <1>4 DEF CancelledByOwner
  <1>5. task[w].pc # "idle" => task[w].req \in SubRequest
    BY <1>2 DEF TypeOK, TasksOK, TaskOK
  <1>6. 0 \in Int /\ {} \in SUBSET Entry /\ TRUE \in BOOLEAN /\ FALSE \in BOOLEAN
    OBVIOUS
  <1>7. CASE Reject(w) /\ task[w].pc # "idle"
    <2>1. Reply(w, FALSE, 0, {})
      BY <1>7, Zenon DEF Reject
    <2> QED BY <1>3, <1>5, <1>6, <1>7, <2>1, Zenon
  <1>8. CASE Reply(w, TRUE, 0, {}) /\ task[w].req.op # "cancel" /\ task[w].pc # "idle"
    BY <1>3, <1>5, <1>6, <1>8, Zenon
  <1>9. CASE ReplyOpened(w)
    <2>1. task[w].pc \in {"done", "match"} /\ task[w].tid \in Int
      BY <1>2, <1>9 DEF ReplyOpened, At, Task
    <2>2. task[w].req.op # "cancel" /\ task[w].pc # "idle" /\ Reply(w, TRUE, task[w].tid, {})
      BY <1>2, <1>9, <2>1, OrderTask DEF ReplyOpened, OrderPCs
    <2> QED BY <1>3, <1>5, <1>6, <2>1, <2>2, Zenon
  <1>10. CASE QueryOrder(w)
    <2> DEFINE report == task[w].report \cup StatusIn(task[w].req.id)[task[w].look]
    <2>1. task[w].pc = "status" /\ task[w].look \in 1 .. 3 /\ task[w].req.op = "query"
          /\ task[w].req.id \in Int
      BY <1>2, <1>10, StatusTask DEF QueryOrder, At, TypeOK, TasksOK, TaskOK, Task, StatusPCs
    <2>2. report \in SUBSET Entry
      BY <1>2, <2>1, FoundType DEF Task
    <2>3. Reply(w, TRUE, 0, report) \/ replies' = replies
      BY <1>10 DEF QueryOrder
    <2> HIDE DEF report
    <2> QED BY <1>3, <1>4, <1>5, <1>6, <2>1, <2>2, <2>3
  <1>11. CASE AbandonCancel(w) \/ ReadExecuted(w)
    <2>1. /\ task[w].pc \in {"cancel", "executed"}
          /\ OwnedBy(task[w].req.id, task[w].req.acct)
          /\ task[w].req.id \in Int /\ task[w].report \in SUBSET Entry
      BY <1>2, <1>11, StatusTask
         DEF AbandonCancel, ReadExecuted, At, CheckOK, StatusPCs, CancelPCs, Task
    <2>2. task[w].report \cup Executed(task[w].req.id) \in SUBSET Entry
      BY <1>2, <2>1, FoundType
    <2>3. \E report \in SUBSET Entry : Reply(w, TRUE, 0, report)
      BY <1>11, <2>1, <2>2 DEF AbandonCancel, ReadExecuted
    <2> QED BY <1>3, <1>5, <1>6, <2>1, <2>3
  <1>12. CASE CreateStep(w)
    <2>1. Reply(w, TRUE, 0, {}) /\ task[w].pc # "idle" /\ task[w].req.op # "cancel"
      BY <1>2, <1>12 DEF CreateStep, CreateAccount, CreatePosition, AbandonPosition, At,
                         TypeOK, TasksOK, TaskOK
    <2> QED BY <1>8, <2>1
  <1>13. \/ replies' = replies \/ (Reject(w) /\ task[w].pc # "idle") \/ CreateStep(w)
         \/ ReplyOpened(w) \/ QueryOrder(w) \/ AbandonCancel(w) \/ ReadExecuted(w)
    <2>1. CASE Receive(w) \/ CheckAccount(w) \/ CreateStep(w)
      BY <2>1 DEF Receive, CheckAccount, At
    <2>2. CASE OrderStep(w)
      BY <2>2 DEF OrderStep, CheckFunds, BeginOrder, CommitOrder, AbandonOrder, LookupId,
         SelectRows, LockRows, AbandonSelect, Match, AbandonMatch, At
    <2>3. CASE QueryStep(w) \/ CancelStep(w)
      BY <2>3 DEF QueryStep, Look, CheckTransID, CheckBelong, CancelStep, CheckIfOpen,
         ReadOrder, CommitCancel, At
    <2> QED BY <2>1, <2>2, <2>3 DEF Step
  <1> QED BY <1>4, <1>7, <1>9, <1>10, <1>11, <1>12, <1>13

-----------------------------------------------------------------------------

AInv == OInv /\ replies \in Seq(Answer)

LEMMA InitOwner == Init => AInv
  <1> SUFFICES ASSUME Init PROVE AInv
    OBVIOUS
  <1>1. \A w \in Workers : /\ task[w].pc = "idle" /\ task[w].tid = NoId
                           /\ task[w].rows = {}
    BY DEF Init, Idle
  <1>2. IdsPlaced /\ CancelledByOwner /\ replies \in Seq(Answer)
    BY <1>1 DEF Init, IdsPlaced, CancelledByOwner, NoId
  <1>3. \A w \in Workers : CheckOK(task[w])
    BY <1>1 DEF CheckOK, StatusPCs, CancelPCs
  <1> QED BY <1>2, <1>3, InitType DEF AInv, OInv, OwnerInvariant

LEMMA NextOwner == AInv /\ [Next]_vars => AInv'
  <1> SUFFICES ASSUME AInv, [Next]_vars PROVE OwnerInvariant' /\ replies' \in Seq(Answer)
    BY NextType DEF AInv, OInv
  <1>1. CASE UNCHANGED vars
    BY <1>1 DEF AInv, OInv, OwnerInvariant, IdsPlaced, CheckOK, OwnedBy, CancelledByOwner,
                vars, tables
  <1>2. ASSUME NEW w \in Workers, Receive(w) \/ Step(w)
        PROVE  OwnerInvariant' /\ replies' \in Seq(Answer)
    BY <1>2, IdsPlacedStep, ChecksStep, AnswersStep DEF AInv, OwnerInvariant, ChecksOK
  <1> QED BY <1>1, <1>2 DEF Next

\* However the four SELECTs of a check and the transactions of other workers
\* interleave, with or without aborts and orders of the same second, a
\* "canceled" answer goes to the owner of the order it names.
THEOREM OwnerCancels == Spec => []CancelledByOwner
  <1>1. AInv => CancelledByOwner
    BY DEF AInv, OInv, OwnerInvariant
  <1> QED BY <1>1, InitOwner, NextOwner, PTL DEF Spec

-----------------------------------------------------------------------------
(* TracedInvariant is inductive: whatever the interleaving of the workers,   *)
(* the staleness of the rows they fill, the transactions that abort and the  *)
(* orders that share a second, no execution trades an account with itself,   *)
(* or crosses the limit of an order that is alone in its second.             *)

TInv == TypeOK /\ TracedInvariant

\* The rows the invariant ties together, which most steps leave alone.
bookVars == <<openOrder, placed, exec, nextId>>

\* What a step keeps: TracedInvariant whatever the clock does, and the seconds
\* of the orders if the clock gives each its own.
Kept == TracedInvariant' /\ (SameSecond = FALSE /\ SecondsDiffer => SecondsDiffer')

\* An order that is alone after a step was alone before it, because orders are
\* never forgotten.
LEMMA WasAlone ==
  ASSUME placed \subseteq placed', NEW p, AloneInSecond(p)'
  PROVE  AloneInSecond(p)
  BY DEF AloneInSecond

LEMMA FoundStep ==
  ASSUME placed \subseteq placed', NEW id, NEW r, FoundFor(id, r)
  PROVE  FoundFor(id, r)'
  BY WasAlone DEF FoundFor

LEMMA TracesStep ==
  ASSUME placed \subseteq placed', NEW o, \E p \in placed : TracesTo(o, p)
  PROVE  (\E p \in placed : TracesTo(o, p))'
  BY WasAlone DEF TracesTo

LEMMA TaskTracedStep ==
  ASSUME placed \subseteq placed', NEW t, TaskTraced(t)
  PROVE  TaskTraced(t)'
  <1>1. LookupOK(t)' /\ LeftOK(t)'
    BY DEF TaskTraced, LookupOK, LeftOK
  <1>2. FoundOK(t)'
    BY FoundStep DEF TaskTraced, FoundOK
  <1>3. RowsTraced(t)'
    BY TracesStep DEF TaskTraced, RowsTraced
  <1> QED BY <1>1, <1>2, <1>3 DEF TaskTraced

\* What TasksTraced says of the workers that do not move stays true.
LEMMA TasksTracedStep ==
  ASSUME TasksTraced, NEW w \in Workers, placed \subseteq placed',
         \A v \in Workers \ {w} : task'[v] = task[v], TaskTraced(task[w])'
  PROVE  TasksTraced'
  <1> SUFFICES ASSUME NEW v \in Workers, v # w PROVE TaskTraced(task[v])'
    BY DEF TasksTraced
  <1>1. PICK t : t = task[v] /\ t = task'[v] /\ TaskTraced(t)
    BY DEF TasksTraced
  <1>2. TaskTraced(t)'
    BY <1>1, TaskTracedStep
  <1> QED BY <1>1, <1>2 DEF TaskTraced, LookupOK, FoundOK, LeftOK, RowsTraced

LEMMA BookSame ==
  ASSUME TracedInvariant, UNCHANGED bookVars
  PROVE  IdsInv' /\ BookTraced' /\ ExecInv'
  <1>1. placed' = placed /\ openOrder' = openOrder /\ exec' = exec /\ nextId' = nextId
    BY DEF bookVars
  <1>2. IdsInv' /\ BookTraced'
    BY <1>1, TracesStep DEF TracedInvariant, IdsInv, BookTraced
  <1>3. ExecInv'
    BY <1>1 DEF TracedInvariant, ExecInv, NoSelfTrade, ExecWithinLimits, AloneInSecond
  <1> QED BY <1>2, <1>3

\* A worker that does not come to store an order disturbs no stamp.
LEMMA StampSame ==
  ASSUME SecondsDiffer, NEW w \in Workers, placed' = placed,
         \A v \in Workers \ {w} : task'[v] = task[v], task'[w].pc # "insert"
  PROVE  SecondsDiffer'
  BY DEF SecondsDiffer, StampInv, At

LEMMA RepliesSame ==
  ASSUME AnswersTraced, placed \subseteq placed', replies' = replies
  PROVE  AnswersTraced'
  <1> SUFFICES ASSUME NEW i \in DOMAIN replies, replies[i].ok, replies[i].req.op = "order",
                      replies[i].val # NoId
               PROVE  FoundFor(replies[i].val, replies[i].req)'
    BY DEF AnswersTraced
  <1>1. PICK id, r : id = replies[i].val /\ r = replies[i].req /\ FoundFor(id, r)
    BY DEF AnswersTraced
  <1>2. FoundFor(id, r)'
    BY <1>1, FoundStep
  <1> QED BY <1>1, <1>2 DEF FoundFor

\* A worker between two sub-requests has nothing the invariant speaks of.
LEMMA ReplyStep ==
  ASSUME TInv, NEW w \in Workers, NEW ok \in BOOLEAN, NEW val \in Int,
         NEW report \in SUBSET Entry, Reply(w, ok, val, report),
         task[w].req \in SubRequest, placed' = placed,
         ok /\ task[w].req.op = "order" /\ val # NoId => FoundFor(val, task[w].req)
  PROVE  TasksTraced' /\ AnswersTraced' /\ (SecondsDiffer => SecondsDiffer')
  <1>1. task[w].rest \in Seq(SubRequest)
    BY DEF TInv, TypeOK, TasksOK, Task
  <1>2. /\ \A v \in Workers \ {w} : task'[v] = task[v]
        /\ task'[w] = Run(task[w].rest)
        /\ task'[w].pc \in {"idle", "account"} /\ task'[w].tid = NoId
    BY <1>1, RunType DEF Reply, TInv, TypeOK, TasksOK
  <1>3. TaskTraced(task[w])'
    BY <1>2 DEF TaskTraced, LookupOK, FoundOK, LeftOK, RowsTraced
  <1>4. TasksTraced' /\ (SecondsDiffer => SecondsDiffer')
    BY <1>2, <1>3, TasksTracedStep, StampSame DEF TInv, TracedInvariant
  <1>5. AnswersTraced'
    <2>1. PICK new : new = [req |-> task[w].req, at |-> task[w].pc, ok |-> ok, val |-> val,
                            report |-> report]
      OBVIOUS
    <2>2. replies \in Seq(Answer) /\ AnswersTraced
      BY DEF TInv, TracedInvariant, AnswersTraced
    <2>3. new \in Answer /\ replies' = Append(replies, new)
      BY <2>1 DEF Reply, Answer, TInv, TypeOK, TasksOK, Task
    <2>4. replies' \in Seq(Answer)
      BY <2>2, <2>3
    <2>5. ASSUME NEW i \in DOMAIN replies', replies'[i].ok, replies'[i].req.op = "order",
                 replies'[i].val # NoId
          PROVE  FoundFor(replies'[i].val, replies'[i].req)
      <3>1. CASE i \in DOMAIN replies
        <4>1. replies'[i] = replies[i]
          BY <2>2, <2>3, <3>1
        <4> QED BY <2>2, <2>5, <3>1, <4>1 DEF AnswersTraced
      <3>2. CASE i \notin DOMAIN replies
        <4>1. replies'[i] = new
          BY <2>2, <2>3, <2>5, <3>2
        <4> QED BY <2>1, <2>5, <4>1
      <3> QED BY <3>1, <3>2
    <2> QED BY <2>4, <2>5 DEF AnswersTraced, FoundFor, AloneInSecond
  <1> QED BY <1>4, <1>5

\* The same for a worker that goes on with its sub-request.
LEMMA MoveStep ==
  ASSUME TInv, NEW w \in Workers, NEW t, task' = [task EXCEPT ![w] = t], t.pc # "insert",
         TaskTraced(t), UNCHANGED bookVars, UNCHANGED replies
  PROVE  Kept
  <1>1. /\ \A v \in Workers \ {w} : task'[v] = task[v]
        /\ task'[w] = t
    BY DEF TInv, TypeOK, TasksOK
  <1>2. placed' = placed
    BY DEF bookVars
  <1>3. TaskTraced(t)'
    BY <1>2, TaskTracedStep
  <1>4. TaskTraced(task[w])'
    BY <1>1, <1>3 DEF TaskTraced, LookupOK, FoundOK, LeftOK, RowsTraced
  <1>5. TasksTraced' /\ AnswersTraced' /\ (SecondsDiffer => SecondsDiffer')
    BY <1>1, <1>2, <1>4, TasksTracedStep, StampSame, RepliesSame DEF TInv, TracedInvariant
  <1> QED BY <1>5, BookSame DEF TInv, TracedInvariant, Kept

LEMMA AnswerStep ==
  ASSUME TInv, NEW w \in Workers, NEW ok \in BOOLEAN, NEW val \in Int,
         NEW report \in SUBSET Entry, Reply(w, ok, val, report),
         UNCHANGED bookVars, task[w].req \in SubRequest,
         ok /\ task[w].req.op = "order" /\ val # NoId => FoundFor(val, task[w].req)
  PROVE  Kept
  <1>1. placed' = placed
    BY DEF bookVars
  <1>2. TasksTraced' /\ AnswersTraced' /\ (SecondsDiffer => SecondsDiffer')
    BY <1>1, ReplyStep
  <1> QED BY <1>2, BookSame DEF TInv, TracedInvariant, Kept

\* Rejecting a sub-request.
LEMMA RejectStep ==
  ASSUME TInv, NEW w \in Workers, Reject(w), task[w].pc # "idle", UNCHANGED bookVars
  PROVE  Kept
  <1>1. task[w].req \in SubRequest
    BY DEF TInv, TypeOK, TasksOK, TaskOK
  <1>2. 0 \in Int /\ FALSE \in BOOLEAN /\ {} \in SUBSET Entry
    OBVIOUS
  <1>3. Reply(w, FALSE, 0, {})
    BY Zenon DEF Reject
  <1> QED BY <1>1, <1>2, <1>3, AnswerStep, Zenon

\* Before it looks for it, a worker holds no id.
LEMMA NoIdYet ==
  ASSUME TInv, NEW w \in Workers, task[w].pc \notin {"select", "lock", "match", "done"}
  PROVE  task[w].tid = NoId
  BY DEF TInv, TracedInvariant, TasksTraced, TaskTraced, FoundOK

\* The places of the code the invariant says little of.
LEMMA QuietTask ==
  ASSUME NEW t, t.pc \notin {"lookup", "select", "lock", "match", "done"}, t.tid = NoId
  PROVE  TaskTraced(t)
  BY DEF TaskTraced, LookupOK, FoundOK, LeftOK, RowsTraced

LEMMA QuietGoto ==
  ASSUME TInv, NEW w \in Workers, NEW pc, Goto(w, pc),
         pc \notin {"insert", "lookup", "select", "lock", "match", "done"},
         task[w].pc \notin {"select", "lock", "match", "done"},
         UNCHANGED bookVars, UNCHANGED replies
  PROVE  Kept
  <1> DEFINE t == [task[w] EXCEPT !.pc = pc]
  <1>1. t.pc = pc /\ t.tid = NoId
    BY NoIdYet DEF TInv, TypeOK, TasksOK, Task
  <1>2. task' = [task EXCEPT ![w] = t]
    BY DEF Goto
  <1> HIDE DEF t
  <1>3. TaskTraced(t)
    BY <1>1, QuietTask
  <1> QED BY <1>1, <1>2, <1>3, MoveStep

-----------------------------------------------------------------------------
(* Steps outside Order::execute, and its own before the order is stored. *)

LEMMA ReceiveKept ==
  ASSUME TInv, NEW w \in Workers, Receive(w)
  PROVE  Kept
  <1>1. Head(todo) \in Seq(SubRequest)
    BY DEF TInv, TypeOK, Receive, Request
  <1>2. Run(Head(todo)).pc \in {"idle", "account"} /\ Run(Head(todo)).tid = NoId
    BY <1>1, RunType
  <1>3. TaskTraced(Run(Head(todo)))
    BY <1>2, QuietTask
  <1>4. task' = [task EXCEPT ![w] = Run(Head(todo))] /\ UNCHANGED bookVars /\ UNCHANGED replies
    BY DEF Receive, tables, bookVars
  <1> QED BY <1>2, <1>3, <1>4, MoveStep

LEMMA CheckAccountKept ==
  ASSUME TInv, NEW w \in Workers, CheckAccount(w)
  PROVE  Kept
  <1> DEFINE r == task[w].req
  <1>1. task[w].pc = "account" /\ UNCHANGED bookVars
    BY DEF CheckAccount, At, tables, bookVars
  <1>2. CASE Reject(w)
    BY <1>1, <1>2, RejectStep
  <1>3. CASE Goto(w, AfterAccount(r)) /\ UNCHANGED replies
    <2>1. AfterAccount(r) \in {"createAccount", "createPosition", "trans", "begin", "funds"}
      BY DEF AfterAccount
    <2> QED BY <1>1, <1>3, <2>1, QuietGoto
  <1> QED BY <1>2, <1>3 DEF CheckAccount

LEMMA CreateKept ==
  ASSUME TInv, NEW w \in Workers, CreateStep(w)
  PROVE  Kept
  <1>1. Reply(w, TRUE, 0, {}) /\ UNCHANGED bookVars
    BY DEF CreateStep, CreateAccount, CreatePosition, AbandonPosition, tables, bookVars
  <1>2. task[w].req \in SubRequest /\ task[w].req.op # "order"
    BY DEF CreateStep, CreateAccount, CreatePosition, AbandonPosition, At,
           TInv, TypeOK, TasksOK, TaskOK
  <1>3. 0 \in Int /\ TRUE \in BOOLEAN /\ {} \in SUBSET Entry
    OBVIOUS
  <1> QED BY <1>1, <1>2, <1>3, AnswerStep, Zenon

\* Enter, like Goto, moves a worker between places the invariant says little of.
LEMMA StatusReadKept ==
  ASSUME TInv, NEW w \in Workers, StatusReadStep(w)
  PROVE  Kept
  <1> DEFINE id == task[w].req.id
             canceled == {[state |-> "canceled", row |-> 0, shares |-> o.amount] :
                            o \in {q \in openOrder : q.id = id}}
  <1>1. UNCHANGED bookVars /\ task[w].pc \in StatusPCs /\ task[w].pc # "idle"
    BY DEF StatusReadStep, QueryStep, Look, CheckTransID, CheckBelong, QueryOrder, CheckIfOpen,
       ReadOrder, AbandonCancel, ReadExecuted, At, StatusPCs, CancelPCs, tables, bookVars
  <1>2. /\ task[w] \in Task /\ task[w].req \in SubRequest /\ task[w].req.op # "order"
        /\ id \in Int /\ task[w].tid = NoId
    BY <1>1, StatusTask, NoIdYet DEF TInv, StatusPCs, CancelPCs
  <1>3. ASSUME NEW report \in SUBSET Entry, Reply(w, TRUE, 0, report)
        PROVE  Kept
    <2>1. 0 \in Int /\ TRUE \in BOOLEAN
      OBVIOUS
    <2> QED BY <1>1, <1>2, <1>3, <2>1, AnswerStep, Zenon
  <1>4. ASSUME NEW t, task' = [task EXCEPT ![w] = t], t.pc \in StatusPCs, t.tid = NoId,
               UNCHANGED replies
        PROVE  Kept
    BY <1>1, <1>4, QuietTask, MoveStep DEF StatusPCs, CancelPCs
  <1>5. ASSUME NEW pc \in {"belong", "status", "open"}, Enter(w, pc), UNCHANGED replies
        PROVE  Kept
    <2> DEFINE t == [task[w] EXCEPT !.pc = pc, !.found = {}, !.look = 1]
    <2>1. t.pc \in StatusPCs /\ t.tid = NoId /\ task' = [task EXCEPT ![w] = t]
      BY <1>2, <1>5 DEF Enter, Task, StatusPCs, CancelPCs
    <2> HIDE DEF t
    <2> QED BY <1>4, <1>5, <2>1
  <1>6. CASE Reject(w)
    BY <1>1, <1>6, RejectStep
  <1>7. CASE Look(w)
    <2> DEFINE t == [task[w] EXCEPT !.found = Seen(w), !.look = task[w].look + 1]
    <2>1. t.pc \in StatusPCs /\ t.tid = NoId /\ task' = [task EXCEPT ![w] = t]
      BY <1>1, <1>2, <1>7 DEF Look, Task
    <2> HIDE DEF t
    <2> QED BY <1>4, <1>7, <2>1 DEF Look
  <1>8. CASE CheckTransID(w) \/ CheckBelong(w)
    BY <1>5, <1>6, <1>8 DEF CheckTransID, CheckBelong
  <1>9. CASE QueryOrder(w)
    <2> DEFINE report == task[w].report \cup StatusIn(id)[task[w].look]
               t == [task[w] EXCEPT !.report = report, !.look = task[w].look + 1]
    <2>1. report \in SUBSET Entry
      <3>1. task[w].look \in 1 .. 3
        BY <1>2, <1>9 DEF QueryOrder, At, TInv, TypeOK, TasksOK, TaskOK, Task
      <3> QED BY <1>2, <3>1, FoundType DEF TInv, Task
    <2>2. \/ Reply(w, TRUE, 0, report)
          \/ (task' = [task EXCEPT ![w] = t] /\ UNCHANGED replies)
      BY <1>9 DEF QueryOrder
    <2>3. t.pc \in StatusPCs /\ t.tid = NoId
      BY <1>1, <1>2 DEF Task
    <2> HIDE DEF report, t
    <2> QED BY <1>3, <1>4, <2>1, <2>2, <2>3
  <1>10. CASE CheckIfOpen(w)
    <2> DEFINE t == [task[w] EXCEPT !.pc = "read"]
    <2>1. t.pc \in StatusPCs /\ t.tid = NoId
      BY <1>2 DEF Task, StatusPCs, CancelPCs
    <2>2. Reject(w) \/ (task' = [task EXCEPT ![w] = t] /\ UNCHANGED replies)
      BY <1>10 DEF CheckIfOpen, Goto
    <2> HIDE DEF t
    <2> QED BY <1>4, <1>6, <2>1, <2>2
  <1>11. CASE ReadOrder(w)
    <2> DEFINE t == [task[w] EXCEPT !.rows = {o \in openOrder : o.id = id},
                                    !.report = canceled, !.pc = "cancel"]
    <2>1. t.pc \in StatusPCs /\ t.tid = NoId
      BY <1>2 DEF Task, StatusPCs, CancelPCs
    <2>2. task' = [task EXCEPT ![w] = t] /\ UNCHANGED replies
      BY <1>11 DEF ReadOrder
    <2> HIDE DEF t
    <2> QED BY <1>4, <2>1, <2>2
  <1>12. CASE AbandonCancel(w)
    <2>1. task[w].report \in SUBSET Entry
      BY <1>2 DEF Task
    <2> QED BY <1>3, <1>12, <2>1 DEF AbandonCancel
  <1>13. CASE ReadExecuted(w)
    <2>1. task[w].report \cup Executed(id) \in SUBSET Entry
      BY <1>2, FoundType DEF TInv, Task
    <2> QED BY <1>3, <1>13, <2>1 DEF ReadExecuted
  <1> QED BY <1>7, <1>8, <1>9, <1>10, <1>11, <1>12, <1>13 DEF StatusReadStep, QueryStep

LEMMA CommitCancelKept ==
  ASSUME TInv, NEW w \in Workers, CommitCancel(w)
  PROVE  Kept
  <1> PICK t : t = [task[w] EXCEPT !.pc = "executed"]
    OBVIOUS
  <1>1. /\ task[w].pc = "cancel" /\ task[w] \in Task
        /\ task' = [task EXCEPT ![w] = t] /\ UNCHANGED <<exec, placed, nextId, replies>>
        /\ openOrder' \subseteq openOrder
    BY DEF CommitCancel, At, Goto, TInv, TypeOK, TasksOK, tables, Without
  <1>2. t.pc = "executed" /\ t.tid = NoId
    BY <1>1, NoIdYet DEF Task
  <1>3. TaskTraced(t)
    BY <1>2, QuietTask
  <1>4. (\A v \in Workers \ {w} : task'[v] = task[v]) /\ task'[w] = t
    BY <1>1 DEF TInv, TypeOK, TasksOK
  <1>5. TaskTraced(t)'
    BY <1>1, <1>3, TaskTracedStep
  <1>6. TaskTraced(task[w])'
    BY <1>4, <1>5 DEF TaskTraced, LookupOK, FoundOK, LeftOK, RowsTraced
  <1>7. TasksTraced' /\ AnswersTraced' /\ (SecondsDiffer => SecondsDiffer')
    BY <1>1, <1>2, <1>4, <1>6, TasksTracedStep, StampSame, RepliesSame DEF TInv, TracedInvariant
  <1>8. BookTraced'
    BY <1>1, TracesStep DEF TInv, TracedInvariant, BookTraced
  <1>9. IdsInv' /\ ExecInv'
    BY <1>1 DEF TInv, TracedInvariant, IdsInv, ExecInv, NoSelfTrade, ExecWithinLimits,
                AloneInSecond
  <1> QED BY <1>7, <1>8, <1>9 DEF TracedInvariant, Kept

-----------------------------------------------------------------------------
(* Storing an order. *)

LEMMA CheckFundsKept ==
  ASSUME TInv, NEW w \in Workers, CheckFunds(w)
  PROVE  Kept
  <1>1. task[w].pc = "funds" /\ UNCHANGED bookVars
    BY DEF CheckFunds, At, tables, bookVars
  <1>2. Reject(w) \/ (Goto(w, "begin") /\ UNCHANGED replies)
    BY DEF CheckFunds
  <1> QED BY <1>1, <1>2, RejectStep, QuietGoto

LEMMA BeginOrderKept ==
  ASSUME TInv, NEW w \in Workers, BeginOrder(w)
  PROVE  Kept
  <1>1. PICK s \in {clock, clock + 1} :
          /\ SameSecond \/ s \notin Stamps
          /\ task' = [task EXCEPT ![w] = [task[w] EXCEPT !.curr = s, !.pc = "insert"]]
    BY DEF BeginOrder
  <1> DEFINE t == [task[w] EXCEPT !.curr = s, !.pc = "insert"]
  <1>2. /\ \A v \in Workers \ {w} : task'[v] = task[v]
        /\ task'[w] = t /\ t.pc = "insert" /\ t.curr = s /\ t.tid = task[w].tid
        /\ UNCHANGED bookVars /\ UNCHANGED replies
    BY <1>1 DEF TInv, TypeOK, TasksOK, Task, BeginOrder, tables, bookVars
  <1> HIDE DEF t
  <1>3. placed' = placed
    BY <1>2 DEF bookVars
  <1>4. TaskTraced(task[w])'
    BY <1>2, NoIdYet DEF BeginOrder, At, TaskTraced, LookupOK, FoundOK, LeftOK, RowsTraced
  <1>5. ASSUME SameSecond = FALSE, SecondsDiffer
        PROVE  SecondsDiffer'
    <2>1. /\ \A o \in placed : o.time # s
          /\ \A v \in Workers : At(v, "insert") => task[v].curr # s
      BY <1>1, <1>5 DEF Stamps
    <2> QED BY <1>2, <1>3, <1>5, <2>1 DEF SecondsDiffer, StampInv, At
  <1>6. TasksTraced' /\ AnswersTraced'
    BY <1>2, <1>3, <1>4, TasksTracedStep, RepliesSame DEF TInv, TracedInvariant
  <1> QED BY <1>2, <1>5, <1>6, BookSame DEF TInv, TracedInvariant, Kept

LEMMA AbandonOrderKept ==
  ASSUME TInv, NEW w \in Workers, AbandonOrder(w)
  PROVE  Kept
  <1> DEFINE t == [task[w] EXCEPT !.pc = AfterInsert(task[w].req)]
  <1>1. /\ task[w] \in Task /\ task[w].pc = "insert"
        /\ task' = [task EXCEPT ![w] = t] /\ UNCHANGED bookVars /\ UNCHANGED replies
    BY DEF AbandonOrder, At, Goto, TInv, TypeOK, TasksOK, tables, bookVars
  <1>2. task[w].tid = NoId
    BY <1>1, NoIdYet
  <1>3. /\ t.pc = AfterInsert(t.req) /\ t.tid = NoId
        /\ t.pc \in {"done", "select"}
        /\ t.pc = "select" => t.req.amount # 0
    BY <1>1, <1>2 DEF Task, AfterInsert
  <1> HIDE DEF t
  <1>4. TaskTraced(t)
    BY <1>3 DEF TaskTraced, LookupOK, FoundOK, LeftOK, RowsTraced
  <1> QED BY <1>1, <1>3, <1>4, MoveStep

LEMMA CommitOrderKept ==
  ASSUME TInv, NEW w \in Workers, CommitOrder(w)
  PROVE  Kept
  <1> DEFINE r == task[w].req
             o == [id |-> nextId, acct |-> r.acct, sym |-> r.sym, amount |-> r.amount,
                   price |-> r.limit, time |-> task[w].curr]
             t == [task[w] EXCEPT !.pc = "lookup"]
  <1>1. /\ task[w] \in Task /\ r \in OrderReq /\ task[w].pc = "insert"
        /\ openOrder' = openOrder \cup {o} /\ placed' = placed \cup {o}
        /\ nextId' = nextId + 1 /\ exec' = exec /\ replies' = replies
        /\ task' = [task EXCEPT ![w] = t]
    BY OrderTask DEF CommitOrder, At, OrderPCs, Goto, TInv
  <1>2. /\ \A v \in Workers \ {w} : task'[v] = task[v]
        /\ task'[w] = t /\ t.pc = "lookup" /\ t.req = r /\ t.curr = task[w].curr
        /\ t.tid = NoId
    BY <1>1, NoIdYet DEF TInv, TypeOK, TasksOK, Task
  <1>3. /\ nextId \in Nat \ {0}
        /\ \A p \in placed : p.id \in Int /\ 1 <= p.id /\ p.id < nextId
        /\ \A p, q \in placed : p.id = q.id => p = q
    BY DEF TInv, TypeOK, TablesOK, TracedInvariant, IdsInv, Order
  <1>4. o.id = nextId /\ o.time = task[w].curr /\ OrderOf(o, r) /\ RemainderOf(o, o)
    BY DEF OrderOf, RemainderOf
  <1> HIDE DEF o, t
  <1>5. placed \subseteq placed' /\ \A p \in placed : p.id # o.id
    BY <1>1, <1>3, <1>4
  <1>6. IdsInv'
    <2>1. \A p \in placed' : 1 <= p.id /\ p.id < nextId'
      BY <1>1, <1>3, <1>4
    <2>2. \A p, q \in placed' : p.id = q.id => p = q
      BY <1>1, <1>3, <1>5
    <2> QED BY <2>1, <2>2 DEF IdsInv
  <1>7. ASSUME SecondsDiffer
        PROVE  SecondsDiffer'
    <2>1. /\ \A p \in placed : p.time # o.time
          /\ \A v \in Workers : At(v, "insert") /\ task[v].curr = o.time => v = w
      BY <1>1, <1>4, <1>7 DEF SecondsDiffer, StampInv, At
    <2>2. \A p, q \in placed' : p.time = q.time => p = q
      BY <1>1, <1>7, <2>1 DEF SecondsDiffer
    <2>3. StampInv'
      BY <1>1, <1>2, <1>4, <1>7, <2>1 DEF SecondsDiffer, StampInv, At
    <2> QED BY <2>2, <2>3 DEF SecondsDiffer
  <1>8. BookTraced'
    <2>1. PICK n : n = o
      OBVIOUS
    <2>2. TracesTo(n, n)'
      BY <1>4, <2>1 DEF TracesTo, RemainderOf
    <2>3. \A q \in openOrder : (\E p \in placed : TracesTo(q, p))'
      BY <1>5, TracesStep DEF TInv, TracedInvariant, BookTraced
    <2> QED BY <1>1, <2>1, <2>2, <2>3 DEF BookTraced
  <1>9. TasksTraced'
    <2>1. TaskTraced(task[w])'
      BY <1>1, <1>2, <1>4 DEF TaskTraced, LookupOK, FoundOK, LeftOK, RowsTraced
    <2> QED BY <1>2, <1>5, <2>1, TasksTracedStep DEF TInv, TracedInvariant
  <1>10. ExecInv'
    <2>1. \A i \in DOMAIN exec :
            exec[i].buy \in Int /\ exec[i].sell \in Int
            /\ exec[i].buy < nextId /\ exec[i].sell < nextId
      <3>1. \A i \in DOMAIN exec : exec[i] \in Exec
        BY DEF TInv, TypeOK, TablesOK
      <3> QED BY <3>1 DEF Exec, TInv, TracedInvariant, ExecInv
    <2>2. \A i \in DOMAIN exec : exec[i].buy < nextId' /\ exec[i].sell < nextId'
                                  /\ o.id # exec[i].buy /\ o.id # exec[i].sell
      BY <1>1, <1>3, <1>4, <2>1
    <2>3. \A p \in placed' : p = o \/ (p \in placed /\ (AloneInSecond(p)' => AloneInSecond(p)))
      BY <1>1, <1>5, WasAlone
    <2>4. NoSelfTrade' /\ ExecWithinLimits'
      BY <1>1, <2>2, <2>3 DEF TInv, TracedInvariant, ExecInv, NoSelfTrade, ExecWithinLimits
    <2> QED BY <1>1, <2>2, <2>4 DEF ExecInv
  <1>11. AnswersTraced'
    BY <1>1, <1>5, RepliesSame DEF TInv, TracedInvariant
  <1> QED BY <1>6, <1>7, <1>8, <1>9, <1>10, <1>11 DEF TracedInvariant, Kept

-----------------------------------------------------------------------------
(* Looking for the id, and for orders to match. *)

LEMMA LookupIdKept ==
  ASSUME TInv, NEW w \in Workers, LookupId(w)
  PROVE  Kept
  <1> DEFINE r == task[w].req
             ids == {o.id : o \in {q \in openOrder : q.time = task[w].curr}}
  <1>1. PICK i \in IF ids = {} THEN {NoId} ELSE ids :
          task' = [task EXCEPT ![w] = [task[w] EXCEPT !.tid = i, !.pc = AfterInsert(r)]]
    BY DEF LookupId
  <1> DEFINE t == [task[w] EXCEPT !.tid = i, !.pc = AfterInsert(r)]
  <1>2. /\ task[w] \in Task /\ task[w].pc = "lookup" /\ UNCHANGED bookVars /\ UNCHANGED replies
    BY DEF LookupId, At, TInv, TypeOK, TasksOK, tables, bookVars
  <1>3. i = NoId \/ FoundFor(i, r)
    <2>1. PICK p \in placed : p.time = task[w].curr /\ OrderOf(p, r)
      BY <1>2 DEF TInv, TracedInvariant, TasksTraced, TaskTraced, LookupOK
    <2>2. ASSUME NEW o \in openOrder, o.time = task[w].curr, i = o.id
          PROVE  FoundFor(i, r)
      <3>1. PICK q \in placed : q.id = i /\ q.time = task[w].curr
        BY <2>2 DEF TInv, TracedInvariant, BookTraced, TracesTo
      <3>2. AloneInSecond(q) => q = p
        BY <2>1, <3>1 DEF AloneInSecond
      <3> QED BY <2>1, <3>1, <3>2 DEF FoundFor
    <2>3. i = NoId \/ \E o \in openOrder : o.time = task[w].curr /\ i = o.id
      BY <1>1
    <2> QED BY <2>2, <2>3
  <1>4. /\ t.tid = i /\ t.req = r /\ t.pc \in {"done", "select"}
        /\ t.pc = "select" => r.amount # 0
    BY <1>2 DEF Task, AfterInsert
  <1> HIDE DEF t
  <1>5. TaskTraced(t)
    BY <1>3, <1>4 DEF TaskTraced, LookupOK, FoundOK, LeftOK, RowsTraced
  <1> QED BY <1>1, <1>2, <1>4, <1>5, MoveStep DEF t

LEMMA SelectRowsKept ==
  ASSUME TInv, NEW w \in Workers, SelectRows(w)
  PROVE  Kept
  <1> DEFINE r == task[w].req
             rows == {o \in openOrder : Eligible(o, r)}
             t == [task[w] EXCEPT !.rows = rows, !.left = r.amount, !.pc = "lock"]
  <1>1. /\ task[w] \in Task /\ task[w].pc = "select" /\ r.amount \in Int
        /\ task' = [task EXCEPT ![w] = t] /\ UNCHANGED bookVars /\ UNCHANGED replies
    BY OrderTask DEF SelectRows, At, OrderPCs, OrderReq, TInv, tables, bookVars
  <1>2. TaskTraced(task[w])
    BY DEF TInv, TracedInvariant, TasksTraced
  <1>3. r.amount # 0
    BY <1>1, <1>2 DEF TaskTraced, LeftOK
  <1>4. \A o \in rows : Eligible(o, r) /\ \E p \in placed : TracesTo(o, p)
    BY DEF TInv, TracedInvariant, BookTraced
  <1>5. t.tid = task[w].tid /\ t.req = r /\ t.pc = "lock" /\ t.left = r.amount /\ t.rows = rows
    BY <1>1 DEF Task
  <1> HIDE DEF rows, t
  <1>6. LeftOK(t) /\ LookupOK(t)
    BY <1>1, <1>3, <1>5 DEF LeftOK, LookupOK
  <1>7. FoundOK(t) /\ RowsTraced(t)
    BY <1>2, <1>4, <1>5 DEF TaskTraced, FoundOK, RowsTraced
  <1> QED BY <1>1, <1>5, <1>6, <1>7, MoveStep DEF TaskTraced

LEMMA LockRowsKept ==
  ASSUME TInv, NEW w \in Workers, LockRows(w)
  PROVE  Kept
  <1> DEFINE r == task[w].req
             rows == {o \in openOrder : o.id \in {q.id : q \in task[w].rows} /\ Eligible(o, r)}
             t == [task[w] EXCEPT !.rows = rows, !.pc = "match"]
  <1>1. /\ task[w] \in Task /\ task[w].pc = "lock"
        /\ task' = [task EXCEPT ![w] = t] /\ UNCHANGED bookVars /\ UNCHANGED replies
    BY OrderTask DEF LockRows, At, OrderPCs, TInv, tables, bookVars
  <1>2. TaskTraced(task[w])
    BY DEF TInv, TracedInvariant, TasksTraced
  <1>3. \A o \in rows : Eligible(o, r) /\ \E p \in placed : TracesTo(o, p)
    BY DEF TInv, TracedInvariant, BookTraced
  <1>4. /\ t.tid = task[w].tid /\ t.req = r /\ t.pc = "match" /\ t.left = task[w].left
        /\ t.rows = rows
    BY <1>1 DEF Task
  <1> HIDE DEF rows, t
  <1>5. TaskTraced(t)
    BY <1>1, <1>2, <1>3, <1>4 DEF TaskTraced, LookupOK, FoundOK, LeftOK, RowsTraced
  <1> QED BY <1>1, <1>4, <1>5, MoveStep

LEMMA AbandonSelectKept ==
  ASSUME TInv, NEW w \in Workers, AbandonSelect(w)
  PROVE  Kept
  <1> DEFINE t == [task[w] EXCEPT !.pc = "done"]
  <1>1. /\ task[w] \in Task /\ task[w].pc = "lock"
        /\ task' = [task EXCEPT ![w] = t] /\ UNCHANGED bookVars /\ UNCHANGED replies
    BY OrderTask DEF AbandonSelect, Goto, At, OrderPCs, TInv, tables, bookVars
  <1>2. TaskTraced(task[w])
    BY DEF TInv, TracedInvariant, TasksTraced
  <1>3. t.tid = task[w].tid /\ t.req = task[w].req /\ t.pc = "done"
    BY <1>1 DEF Task
  <1> HIDE DEF t
  <1>4. TaskTraced(t)
    BY <1>2, <1>3 DEF TaskTraced, LookupOK, FoundOK, LeftOK, RowsTraced
  <1> QED BY <1>1, <1>3, <1>4, MoveStep

LEMMA ReplyOpenedKept ==
  ASSUME TInv, NEW w \in Workers, ReplyOpened(w)
  PROVE  Kept
  <1>1. /\ task[w] \in Task /\ task[w].pc \in {"match", "done"} /\ task[w].req \in SubRequest
        /\ Reply(w, TRUE, task[w].tid, {}) /\ UNCHANGED bookVars
    BY OrderTask DEF ReplyOpened, At, OrderPCs, SubRequest, TInv, tables, bookVars
  <1>2. task[w].tid \in Int /\ TRUE \in BOOLEAN /\ {} \in SUBSET Entry
    BY <1>1 DEF Task
  <1>3. task[w].tid # NoId => FoundFor(task[w].tid, task[w].req)
    BY DEF TInv, TracedInvariant, TasksTraced, TaskTraced, FoundOK
  <1> QED BY <1>1, <1>2, <1>3, AnswerStep, Zenon

-----------------------------------------------------------------------------
(* Filling a selected row. *)

LEMMA TracedFacts ==
  ASSUME TInv, NEW w \in Workers, At(w, "match"), NEW o \in task[w].rows
  PROVE  /\ task[w] \in Task /\ task[w].req \in OrderReq /\ o \in Order
         /\ TaskTraced(task[w])
         /\ Eligible(o, task[w].req)
         /\ \E p \in placed : TracesTo(o, p)
         /\ \/ task[w].req.amount < 0 /\ task[w].left < 0
            \/ task[w].req.amount > 0 /\ task[w].left > 0
         /\ task[w].tid # NoId => FoundFor(task[w].tid, task[w].req)
  <1>1. task[w] \in Task /\ task[w].req \in OrderReq /\ o \in Order
    BY OrderTask DEF At, OrderPCs, TInv
  <1>2. TaskTraced(task[w])
    BY DEF TInv, TracedInvariant, TasksTraced
  <1> QED BY <1>1, <1>2 DEF At, TaskTraced, RowsTraced, LeftOK, FoundOK

LEMMA AfterFillTraced ==
  ASSUME TInv, NEW w \in Workers, At(w, "match"), NEW o \in task[w].rows
  PROVE  /\ TaskTraced(AfterFill(w, o))
         /\ AfterFill(w, o).pc # "insert"
  <1> DEFINE t == task[w]
             r == t.req
             final == t.left + o.amount
             more == IF r.amount < 0 THEN final < 0 ELSE final > 0
             u == AfterFill(w, o)
  <1>1. t \in Task /\ TaskTraced(t) /\ t.pc = "match"
    BY TracedFacts DEF At
  <1>2. \/ r.amount < 0 /\ t.left < 0
        \/ r.amount > 0 /\ t.left > 0
    BY TracedFacts
  <1>3. t.left \in Int /\ o.amount \in Int /\ r.amount \in Int
    BY TracedFacts DEF Task, Order, OrderReq
  <1>4. CASE more
    <2>1. u.pc = "match" /\ u.left = final /\ u.rows \subseteq t.rows
          /\ u.req = r /\ u.tid = t.tid
      BY <1>1, <1>4 DEF AfterFill, Task
    <2>2. \/ r.amount < 0 /\ final < 0
          \/ r.amount > 0 /\ final > 0
      BY <1>2, <1>3, <1>4
    <2> HIDE DEF u, final, more
    <2>3. LookupOK(u) /\ FoundOK(u) /\ RowsTraced(u)
      BY <1>1, <2>1 DEF TaskTraced, LookupOK, FoundOK, RowsTraced
    <2>4. LeftOK(u)
      BY <2>1, <2>2 DEF LeftOK
    <2> QED BY <2>1, <2>3, <2>4 DEF u, TaskTraced
  <1>5. CASE ~more
    <2>1. u.pc = "done" /\ u.req = r /\ u.tid = t.tid
      BY <1>1, <1>5 DEF AfterFill, Task
    <2> HIDE DEF u
    <2>2. TaskTraced(u)
      BY <1>1, <2>1 DEF TaskTraced, LookupOK, FoundOK, LeftOK, RowsTraced
    <2> QED BY <2>1, <2>2 DEF u
  <1> HIDE DEF more
  <1> QED BY <1>4, <1>5

LEMMA AbandonMatchKept ==
  ASSUME TInv, NEW w \in Workers, AbandonMatch(w)
  PROVE  Kept
  <1>1. At(w, "match") /\ UNCHANGED bookVars /\ UNCHANGED replies
    BY DEF AbandonMatch, tables, bookVars
  <1>2. PICK o \in task[w].rows : NextRow(w, o)
    BY DEF AbandonMatch, Leading
  <1>3. task' = [task EXCEPT ![w] = AfterFill(w, o)]
    BY <1>2 DEF NextRow
  <1> QED BY <1>1, <1>2, <1>3, AfterFillTraced, MoveStep

\* What the EXEC row of a fill says of the placed orders its ids name.
LEMMA TradeTraced ==
  ASSUME TInv, NEW w \in Workers, At(w, "match"), NEW o \in task[w].rows
  PROVE  LET e == Trade(w, o)
         IN /\ e.buyer # e.seller
            /\ e.buy < nextId /\ e.sell < nextId
            /\ \A p \in placed : AloneInSecond(p) =>
                 /\ p.id = e.buy => /\ p.amount > 0 /\ p.acct = e.buyer
                                    /\ p.sym = e.sym /\ e.price <= p.price
                 /\ p.id = e.sell => /\ p.amount < 0 /\ p.acct = e.seller
                                     /\ p.sym = e.sym /\ e.price >= p.price
  <1> DEFINE t == task[w]
             r == t.req
             e == Trade(w, o)
  <1>1. /\ t \in Task /\ r \in OrderReq /\ o \in Order /\ Eligible(o, r)
        /\ \/ r.amount < 0 \/ r.amount > 0
    BY TracedFacts
  <1>2. /\ o.id \in Int /\ o.amount \in Int /\ o.price \in Int
        /\ r.amount \in Int /\ r.limit \in Int /\ t.tid \in Int /\ nextId \in Nat \ {0}
    BY <1>1 DEF Task, Order, OrderReq, TInv, TypeOK, TablesOK
  <1>3. /\ \A p \in placed : p.id \in Int /\ 1 <= p.id /\ p.id < nextId
        /\ \A p, q \in placed : p.id = q.id => p = q
    BY DEF TInv, TypeOK, TablesOK, Order, TracedInvariant, IdsInv
  <1>4. PICK p0 \in placed : TracesTo(o, p0)
    BY TracedFacts
  <1>5. o.id < nextId /\ \A p \in placed : p.id = o.id => p = p0
    BY <1>3, <1>4 DEF TracesTo
  <1>6. t.tid < nextId
    BY <1>2, <1>3, TracedFacts DEF NoId, FoundFor
  <1>7. \A p \in placed : p.id = t.tid /\ AloneInSecond(p) => OrderOf(p, r)
    <2>1. CASE t.tid = NoId
      BY <1>3, <2>1 DEF NoId
    <2>2. CASE t.tid # NoId
      BY <1>3, <2>2, TracedFacts DEF FoundFor
    <2> QED BY <2>1, <2>2
  <1>8. /\ o.sym = r.sym /\ o.acct # r.acct
        /\ r.amount < 0 => o.amount > 0 /\ o.price >= r.limit
        /\ r.amount > 0 => o.amount < 0 /\ o.price <= r.limit
    BY <1>1, <1>2 DEF Eligible
  <1>9. CASE r.amount < 0
    <2>1. e.buyer = o.acct /\ e.seller = r.acct /\ e.buy = o.id /\ e.sell = t.tid
          /\ e.sym = r.sym /\ e.price = o.price
      BY <1>9 DEF Trade
    <2>2. ASSUME NEW p \in placed, AloneInSecond(p), p.id = e.buy
          PROVE  p.amount > 0 /\ p.acct = e.buyer /\ p.sym = e.sym /\ e.price <= p.price
      <3>1. p = p0 /\ p.price = o.price /\ p.acct = o.acct /\ p.sym = o.sym
        BY <1>4, <1>5, <2>1, <2>2 DEF TracesTo
      <3>2. p.amount > 0
        BY <1>4, <1>8, <1>9, <2>2, <3>1 DEF TracesTo, RemainderOf
      <3>3. e.price = p.price /\ p.price \in Int
        BY <1>2, <2>1, <3>1
      <3> HIDE DEF e
      <3>4. e.price <= p.price
        BY <3>3
      <3>5. p.acct = e.buyer /\ p.sym = e.sym
        BY <1>8, <2>1, <3>1
      <3> QED BY <3>2, <3>4, <3>5
    <2>3. ASSUME NEW p \in placed, AloneInSecond(p), p.id = e.sell
          PROVE  p.amount < 0 /\ p.acct = e.seller /\ p.sym = e.sym /\ e.price >= p.price
      BY <1>2, <1>7, <1>8, <1>9, <2>1, <2>3 DEF OrderOf
    <2> HIDE DEF e
    <2> QED BY <1>5, <1>6, <1>8, <2>1, <2>2, <2>3 DEF e
  <1>10. CASE r.amount > 0
    <2>1. e.buyer = r.acct /\ e.seller = o.acct /\ e.buy = t.tid /\ e.sell = o.id
          /\ e.sym = r.sym /\ e.price = o.price
      BY <1>2, <1>10 DEF Trade
    <2>2. ASSUME NEW p \in placed, AloneInSecond(p), p.id = e.buy
          PROVE  p.amount > 0 /\ p.acct = e.buyer /\ p.sym = e.sym /\ e.price <= p.price
      BY <1>2, <1>7, <1>8, <1>10, <2>1, <2>2 DEF OrderOf
    <2>3. ASSUME NEW p \in placed, AloneInSecond(p), p.id = e.sell
          PROVE  p.amount < 0 /\ p.acct = e.seller /\ p.sym = e.sym /\ e.price >= p.price
      <3>1. p = p0 /\ p.price = o.price /\ p.acct = o.acct /\ p.sym = o.sym
        BY <1>4, <1>5, <2>1, <2>3 DEF TracesTo
      <3>2. p.amount < 0
        BY <1>4, <1>8, <1>10, <2>3, <3>1 DEF TracesTo, RemainderOf
      <3>3. e.price = p.price /\ p.price \in Int
        BY <1>2, <2>1, <3>1
      <3> HIDE DEF e
      <3>4. e.price >= p.price
        BY <3>3
      <3>5. p.acct = e.seller /\ p.sym = e.sym
        BY <1>8, <2>1, <3>1
      <3> QED BY <3>2, <3>4, <3>5
    <2> HIDE DEF e
    <2> QED BY <1>5, <1>6, <1>8, <2>1, <2>2, <2>3 DEF e
  <1> QED BY <1>1, <1>9, <1>10

LEMMA MatchKept ==
  ASSUME TInv, NEW w \in Workers, Match(w)
  PROVE  Kept
  <1>1. PICK o \in task[w].rows :
          /\ exec' = Append(exec, Trade(w, o))
          /\ openOrder' = BookAfter(w, Trade(w, o), o)
          /\ task' = [task EXCEPT ![w] = AfterFill(w, o)]
    BY DEF Match, Leading, NextRow
  <1> DEFINE e == Trade(w, o)
             final == task[w].left + o.amount
  <1>2. At(w, "match") /\ UNCHANGED <<nextId, placed, replies>>
    BY DEF Match
  <1>3. /\ e.buyer # e.seller
        /\ e.buy < nextId /\ e.sell < nextId
        /\ \A p \in placed : AloneInSecond(p) =>
             /\ p.id = e.buy => /\ p.amount > 0 /\ p.acct = e.buyer
                                /\ p.sym = e.sym /\ e.price <= p.price
             /\ p.id = e.sell => /\ p.amount < 0 /\ p.acct = e.seller
                                 /\ p.sym = e.sym /\ e.price >= p.price
    BY <1>2, TradeTraced
  <1>4. exec \in Seq(Exec) /\ openOrder \in SUBSET Order /\ final \in Int /\ e \in Exec
    BY <1>2, TradeType DEF TInv, TypeOK, TablesOK
  <1>5. openOrder' = Settle(openOrder, e.sell, e.buy, final)
    BY <1>1 DEF BookAfter
  <1> HIDE DEF e, final
  <1>6. BookTraced'
    <2> SUFFICES ASSUME NEW x \in openOrder'
                 PROVE  \E p \in placed : TracesTo(x, p)
      BY <1>2, TracesStep DEF BookTraced
    <2>1. PICK q \in openOrder :
            /\ x.id = q.id /\ x.acct = q.acct /\ x.sym = q.sym
            /\ x.price = q.price /\ x.time = q.time
            /\ \/ x.amount = q.amount
               \/ x.id = e.sell /\ x.amount = final /\ final < 0
               \/ x.id = e.buy /\ x.amount = final /\ final > 0
      BY <1>4, <1>5, SettleRows
    <2>2. PICK p \in placed : TracesTo(q, p)
      BY DEF TInv, TracedInvariant, BookTraced
    <2>3. p.id = q.id /\ p.amount \in Int
      BY <2>2 DEF TracesTo, TInv, TypeOK, TablesOK, Order
    <2>4. ASSUME AloneInSecond(p), x.amount # q.amount
          PROVE  (x.amount > 0 <=> p.amount > 0) /\ (x.amount < 0 <=> p.amount < 0)
      BY <1>3, <1>4, <2>1, <2>3, <2>4
    <2>5. AloneInSecond(p) => RemainderOf(x, p)
      BY <2>1, <2>2, <2>4 DEF TracesTo, RemainderOf
    <2>6. TracesTo(x, p)
      BY <2>1, <2>2, <2>5 DEF TracesTo
    <2> QED BY <2>6
  <1>7. ExecInv'
    <2>1. ASSUME NEW i \in DOMAIN exec'
          PROVE  (i \in DOMAIN exec /\ exec'[i] = exec[i]) \/ exec'[i] = e
      BY <1>1, <1>4 DEF e
    <2>2. ExecInv
      BY DEF TInv, TracedInvariant
    <2>3. (\A i \in DOMAIN exec : exec[i].buy < nextId /\ exec[i].sell < nextId)'
      BY <1>2, <1>3, <2>1, <2>2 DEF ExecInv
    <2>4. NoSelfTrade'
      BY <1>2, <1>3, <2>1, <2>2 DEF ExecInv, NoSelfTrade, AloneInSecond
    <2>5. ExecWithinLimits'
      BY <1>2, <1>3, <2>1, <2>2 DEF ExecInv, ExecWithinLimits, AloneInSecond
    <2> QED BY <2>3, <2>4, <2>5 DEF ExecInv
  <1>8. TasksTraced' /\ (SecondsDiffer => SecondsDiffer')
    <2>1. PICK t : t = AfterFill(w, o) /\ TaskTraced(t) /\ t.pc # "insert"
      BY <1>2, AfterFillTraced
    <2>2. (\A v \in Workers \ {w} : task'[v] = task[v]) /\ task'[w] = t
      BY <1>1, <2>1 DEF TInv, TypeOK, TasksOK
    <2>3. TaskTraced(t)'
      BY <1>2, <2>1, TaskTracedStep
    <2>4. TaskTraced(task[w])'
      BY <2>2, <2>3 DEF TaskTraced, LookupOK, FoundOK, LeftOK, RowsTraced
    <2> QED BY <1>2, <2>1, <2>2, <2>4, TasksTracedStep, StampSame DEF TInv, TracedInvariant
  <1>9. AnswersTraced' /\ IdsInv'
    BY <1>2, RepliesSame DEF TInv, TracedInvariant, IdsInv
  <1> QED BY <1>6, <1>7, <1>8, <1>9 DEF TracedInvariant, Kept

-----------------------------------------------------------------------------

LEMMA InitTraced == Init => TInv /\ SecondsDiffer
  <1> SUFFICES ASSUME Init PROVE TInv /\ SecondsDiffer
    OBVIOUS
  <1>1. \A w \in Workers : task[w].pc = "idle" /\ task[w].tid = NoId
    BY DEF Init, Idle
  <1>2. TasksTraced /\ StampInv
    BY <1>1 DEF TasksTraced, TaskTraced, LookupOK, FoundOK, LeftOK, RowsTraced, StampInv, At
  <1>3. IdsInv /\ BookTraced /\ ExecInv /\ AnswersTraced
    BY DEF Init, IdsInv, BookTraced, ExecInv, NoSelfTrade, ExecWithinLimits, AnswersTraced
  <1>4. \A o, p \in placed : o.time = p.time => o = p
    BY DEF Init
  <1> QED BY <1>2, <1>3, <1>4, InitType DEF TInv, TracedInvariant, SecondsDiffer

LEMMA NextKept ==
  ASSUME TInv, [Next]_vars
  PROVE  Kept
  <1>1. CASE UNCHANGED vars
    <2>1. UNCHANGED bookVars /\ placed' = placed /\ task' = task /\ replies' = replies
      BY <1>1 DEF vars, tables, bookVars
    <2>2. TasksTraced' /\ AnswersTraced'
      BY <2>1 DEF TInv, TracedInvariant, TasksTraced, TaskTraced, LookupOK, FoundOK, LeftOK,
         RowsTraced, TracesTo, AnswersTraced, FoundFor, AloneInSecond
    <2>3. SecondsDiffer => SecondsDiffer'
      BY <2>1 DEF SecondsDiffer, StampInv, At
    <2> QED BY <2>1, <2>2, <2>3, BookSame DEF TInv, TracedInvariant, Kept
  <1>2. ASSUME NEW w \in Workers, Receive(w) \/ Step(w)
        PROVE  Kept
    <2>1. CASE Receive(w) \/ CheckAccount(w) \/ CreateStep(w)
      BY <2>1, ReceiveKept, CheckAccountKept, CreateKept
    <2>2. CASE QueryStep(w) \/ CancelStep(w)
      BY <2>2, StatusReadKept, CommitCancelKept DEF CancelStep, StatusReadStep
    <2>3. CASE OrderStep(w)
      BY <2>3, CheckFundsKept, BeginOrderKept, CommitOrderKept, AbandonOrderKept, LookupIdKept,
         SelectRowsKept, LockRowsKept, AbandonSelectKept, MatchKept, AbandonMatchKept,
         ReplyOpenedKept DEF OrderStep
    <2> QED BY <1>2, <2>1, <2>2, <2>3 DEF Step
  <1> QED BY <1>1, <1>2 DEF Next

LEMMA TracedHolds == Spec => []TInv
  <1>1. TInv /\ [Next]_vars => TInv'
    BY NextType, NextKept DEF TInv, Kept
  <1>2. Init => TInv
    BY InitTraced
  <1> QED BY <1>1, <1>2, PTL DEF Spec

\* However stale the rows it fills, whatever orders share a second and whatever
\* transactions are aborted, no worker trades an account with itself, and an
\* execution names no order of a third account that is alone in its second.
THEOREM NeverSelfTrades == Spec => []NoSelfTrade
  <1>1. TInv => NoSelfTrade
    BY DEF TInv, TracedInvariant, ExecInv
  <1> QED BY <1>1, TracedHolds, PTL

\* No execution is above the limit of the buy order it names or below that of
\* the sell order, or for another symbol or side, if that order is alone in its
\* second; whatever the seconds of the others and the aborts.
THEOREM ExecutionsWithinLimits == Spec => []ExecWithinLimits
  <1>1. TInv => ExecWithinLimits
    BY DEF TInv, TracedInvariant, ExecInv
  <1> QED BY <1>1, TracedHolds, PTL

-----------------------------------------------------------------------------
(* When each order bears a second of its own, all of them are alone in it,   *)
(* and rows, ids and executions agree with the orders placed.                *)

Inv == TypeOK /\ OrderInvariant

LEMMA DifferAlone ==
  ASSUME SecondsDiffer, NEW p \in placed
  PROVE  AloneInSecond(p)
  BY DEF SecondsDiffer, AloneInSecond

LEMMA TracedDiffer ==
  ASSUME TInv, SecondsDiffer
  PROVE  Inv
  <1>1. PlacedInv /\ StampInv
    BY DEF TInv, TracedInvariant, IdsInv, SecondsDiffer, PlacedInv
  <1>2. \A o : (\E p \in placed : TracesTo(o, p)) => \E p \in placed : RemainderOf(o, p)
    BY DifferAlone DEF TracesTo
  <1>3. BookInv
    BY <1>2 DEF TInv, TracedInvariant, BookTraced, BookInv
  <1>4. \A id, r : FoundFor(id, r) => \E p \in placed : p.id = id /\ OrderOf(p, r)
    BY DifferAlone DEF FoundFor
  <1>5. ASSUME NEW w \in Workers
        PROVE  TaskInv(task[w])
    <2>1. TaskTraced(task[w])
      BY DEF TInv, TracedInvariant, TasksTraced
    <2>2. LookupOK(task[w]) /\ LeftOK(task[w])
      BY <2>1 DEF TaskTraced
    <2>3. IdOK(task[w])
      BY <1>4, <2>1 DEF TaskTraced, FoundOK, IdOK
    <2>4. RowsOK(task[w])
      BY <1>2, <2>1 DEF TaskTraced, RowsTraced, RowsOK
    <2> QED BY <2>2, <2>3, <2>4 DEF TaskInv
  <1>6. RepliesInv
    BY <1>4 DEF TInv, TracedInvariant, AnswersTraced, RepliesInv, OpenedNamesOwnOrder, OrderOf
  <1> QED BY <1>1, <1>3, <1>5, <1>6 DEF TInv, TracedInvariant, Inv, OrderInvariant, TasksInv

LEMMA InvTraced ==
  ASSUME Inv
  PROVE  TInv /\ SecondsDiffer
  <1>1. IdsInv /\ SecondsDiffer
    BY DEF Inv, OrderInvariant, PlacedInv, IdsInv, SecondsDiffer
  <1>2. \A o : (\E p \in placed : RemainderOf(o, p)) => \E p \in placed : TracesTo(o, p)
    BY DEF RemainderOf, TracesTo
  <1>3. BookTraced
    BY <1>2 DEF Inv, OrderInvariant, BookInv, BookTraced
  <1>4. ASSUME NEW w \in Workers
        PROVE  TaskTraced(task[w])
    <2>1. TaskInv(task[w])
      BY DEF Inv, OrderInvariant, TasksInv
    <2>2. LookupOK(task[w]) /\ LeftOK(task[w])
      BY <2>1 DEF TaskInv
    <2>3. FoundOK(task[w])
      BY <2>1 DEF TaskInv, IdOK, FoundOK, FoundFor
    <2>4. RowsTraced(task[w])
      BY <1>2, <2>1 DEF TaskInv, RowsOK, RowsTraced
    <2> QED BY <2>2, <2>3, <2>4 DEF TaskTraced
  <1>5. AnswersTraced
    BY DEF Inv, OrderInvariant, RepliesInv, OpenedNamesOwnOrder, AnswersTraced, FoundFor, OrderOf
  <1> QED BY <1>1, <1>3, <1>4, <1>5 DEF Inv, OrderInvariant, TInv, TracedInvariant, TasksTraced

LEMMA MatchFacts ==
  ASSUME Inv, NEW w \in Workers, At(w, "match"), NEW o \in task[w].rows
  PROVE  /\ task[w] \in Task /\ task[w].req \in OrderReq /\ o \in Order
         /\ TaskInv(task[w])
         /\ Eligible(o, task[w].req)
         /\ \E p \in placed : RemainderOf(o, p)
         /\ \/ task[w].req.amount < 0 /\ task[w].left < 0
            \/ task[w].req.amount > 0 /\ task[w].left > 0
         /\ task[w].tid # NoId =>
              \E p \in placed : p.id = task[w].tid /\ OrderOf(p, task[w].req)
  <1>1. task[w] \in Task /\ task[w].req \in OrderReq /\ o \in Order
    BY OrderTask DEF At, OrderPCs, Inv
  <1>2. TaskInv(task[w])
    BY DEF Inv, OrderInvariant, TasksInv
  <1> QED BY <1>1, <1>2 DEF At, TaskInv, RowsOK, LeftOK, IdOK

LEMMA TradeInv ==
  ASSUME Inv, NEW w \in Workers, At(w, "match"), NEW o \in task[w].rows
  PROVE  LET e == Trade(w, o)
         IN /\ e.buyer # e.seller
            /\ e.buy < nextId /\ e.sell < nextId
            /\ \A p \in placed :
                 /\ p.id = e.buy => /\ p.amount > 0 /\ p.acct = e.buyer
                                    /\ p.sym = e.sym /\ e.price <= p.price
                 /\ p.id = e.sell => /\ p.amount < 0 /\ p.acct = e.seller
                                     /\ p.sym = e.sym /\ e.price >= p.price
  BY InvTraced, TradeTraced, DifferAlone

LEMMA InvHolds ==
  ASSUME SameSecond = FALSE
  PROVE  Spec => []Inv
  <1>1. TInv /\ SecondsDiffer /\ [Next]_vars => (TInv /\ SecondsDiffer)'
    BY NextType, NextKept DEF TInv, Kept
  <1>2. TInv /\ SecondsDiffer => Inv
    BY TracedDiffer
  <1> QED BY <1>1, <1>2, InitTraced, PTL DEF Spec

\* The whole invariant, on which the promise below rests.
THEOREM OrdersConsistent ==
  ASSUME SameSecond = FALSE
  PROVE  Spec => []OrderInvariant
  <1>1. Inv => OrderInvariant
    BY DEF Inv
  <1> QED BY <1>1, InvHolds, PTL

\* The id in an <opened> answer is the client's own order.
THEOREM OpenedOwnOrder ==
  ASSUME SameSecond = FALSE
  PROVE  Spec => []OpenedNamesOwnOrder
  <1>1. Inv => OpenedNamesOwnOrder
    BY DEF Inv, OrderInvariant, RepliesInv
  <1> QED BY <1>1, InvHolds, PTL

-----------------------------------------------------------------------------
(* No two orders that could trade are left in the book when no request is    *)
(* in progress, for any number of workers: of two orders that cross, the one *)
(* stored later selects the other, and keeps it among its rows until one of  *)
(* the two is gone.  No two orders bear one second, and no transaction is    *)
(* aborted.                                                                  *)

UInv == Inv /\ UncrossedInvariant

MatchPCs == {"lookup", "select", "lock", "match"}

Pair(o, p) == Crosses(o, p) \/ Crosses(p, o)

\* Row o is row q, but for the number of shares.
SameOrder(o, q) ==
  /\ o.id = q.id /\ o.acct = q.acct /\ o.sym = q.sym /\ o.price = q.price /\ o.time = q.time
  /\ o.amount > 0 => q.amount > 0
  /\ o.amount < 0 => q.amount < 0

\* A step that stores no order, and in which worker w covers what it covered.
LEMMA CoverStep ==
  ASSUME UncrossedInvariant, NEW w \in Workers,
         \A v \in Workers \ {w} : task'[v] = task[v],
         placed \subseteq placed',
         \A o \in openOrder' : \E q \in openOrder : SameOrder(o, q),
         MatcherOK(task[w])',
         \A o \in openOrder', p \in openOrder' :
           Pair(o, p) /\ Covers(task[w], o, p) => Covers(task'[w], o, p)
  PROVE  UncrossedInvariant'
  <1>1. \A v \in Workers : MatcherOK(task[v])'
    BY DEF UncrossedInvariant, MatcherOK, SameOrder
  <1>2. ASSUME NEW b \in openOrder', NEW s \in openOrder', Crosses(b, s)
        PROVE  \E v \in Workers : Covers(task'[v], b, s) \/ Covers(task'[v], s, b)
    <2>1. PICK c \in openOrder, t \in openOrder : SameOrder(b, c) /\ SameOrder(s, t)
      OBVIOUS
    <2>2. Crosses(c, t)
      BY <1>2, <2>1 DEF Crosses, SameOrder
    <2>3. PICK v \in Workers : Covers(task[v], c, t) \/ Covers(task[v], t, c)
      BY <2>2 DEF UncrossedInvariant, CrossInv
    <2>4. Covers(task[v], b, s) \/ Covers(task[v], s, b)
      BY <2>1, <2>3 DEF Covers, SameOrder
    <2>5. Pair(b, s) /\ Pair(s, b)
      BY <1>2 DEF Pair
    <2>6. CASE v = w
      BY <2>4, <2>5, <2>6
    <2>7. CASE v # w
      BY <2>4, <2>7
    <2> QED BY <2>6, <2>7
  <1> QED BY <1>1, <1>2 DEF UncrossedInvariant, CrossInv

\* A step of a worker that matches nothing, before or after it.
LEMMA QuietStep ==
  ASSUME UncrossedInvariant, NEW w \in Workers,
         \A v \in Workers \ {w} : task'[v] = task[v],
         placed' = placed, openOrder' \subseteq openOrder,
         task[w].pc \notin MatchPCs \/ (task[w].pc = "match" /\ task[w].rows = {}),
         task'[w].pc \notin MatchPCs
  PROVE  UncrossedInvariant'
  <1>1. MatcherOK(task[w])'
    BY DEF MatcherOK, MatchPCs
  <1>2. \A o \in openOrder', p \in openOrder' : ~Covers(task[w], o, p)
    BY DEF Covers, MatchPCs
  <1>3. \A o \in openOrder' : \E q \in openOrder : SameOrder(o, q)
    BY DEF SameOrder
  <1> QED BY <1>1, <1>2, <1>3, CoverStep

LEMMA GotoPc ==
  ASSUME TypeOK, NEW w \in Workers, NEW pc, Goto(w, pc)
  PROVE  /\ \A v \in Workers \ {w} : task'[v] = task[v]
         /\ task'[w].pc = pc
  BY DEF Inv, TypeOK, TasksOK, Task, Goto

LEMMA EnterPc ==
  ASSUME TypeOK, NEW w \in Workers, NEW pc, Enter(w, pc)
  PROVE  /\ \A v \in Workers \ {w} : task'[v] = task[v]
         /\ task'[w].pc = pc
  BY DEF Inv, TypeOK, TasksOK, Task, Enter

LEMMA ReplyPc ==
  ASSUME Inv, NEW w \in Workers, NEW ok, NEW val, NEW report, Reply(w, ok, val, report)
  PROVE  /\ \A v \in Workers \ {w} : task'[v] = task[v]
         /\ task'[w].pc \notin MatchPCs
  <1>1. task[w].rest \in Seq(SubRequest)
    BY DEF Inv, TypeOK, TasksOK, Task
  <1>2. Run(task[w].rest).pc \in {"idle", "account"}
    BY <1>1, RunType
  <1> QED BY <1>2 DEF Reply, Inv, TypeOK, TasksOK, MatchPCs

LEMMA ReceiveUncrossed ==
  ASSUME UInv, NEW w \in Workers, Receive(w)
  PROVE  UncrossedInvariant'
  <1>1. Head(todo) \in Seq(SubRequest)
    BY DEF UInv, Inv, TypeOK, Receive, Request
  <1>2. Run(Head(todo)).pc \in {"idle", "account"}
    BY <1>1, RunType
  <1>3. /\ task' = [task EXCEPT ![w] = Run(Head(todo))]
        /\ task[w].pc = "idle" /\ placed' = placed /\ openOrder' = openOrder
    BY DEF Receive, At, tables
  <1>4. task'[w].pc \notin MatchPCs /\ \A v \in Workers \ {w} : task'[v] = task[v]
    BY <1>2, <1>3 DEF UInv, Inv, TypeOK, TasksOK, MatchPCs
  <1>5. task[w].pc \notin MatchPCs
    BY <1>3 DEF MatchPCs
  <1> QED BY <1>3, <1>4, <1>5, QuietStep DEF UInv

\* The steps that neither store nor match an order.
LEMMA AsideUncrossed ==
  ASSUME UInv, NEW w \in Workers,
         CheckAccount(w) \/ CreateStep(w) \/ CheckFunds(w) \/ BeginOrder(w) \/ QueryStep(w)
           \/ CancelStep(w) \/ ReplyOpened(w)
  PROVE  UncrossedInvariant'
  <1> DEFINE Aside == /\ \A v \in Workers \ {w} : task'[v] = task[v]
                      /\ task'[w].pc \notin MatchPCs
  <1>1. Inv /\ UncrossedInvariant /\ task \in [Workers -> Task] /\ task[w] \in Task
    BY DEF UInv, Inv, TypeOK, TasksOK
  <1>2. placed' = placed /\ openOrder' \subseteq openOrder
    <2>1. CASE CheckAccount(w) \/ CreateStep(w) \/ CheckFunds(w) \/ BeginOrder(w)
      BY <2>1 DEF CheckAccount, CreateStep, CreateAccount, CreatePosition, AbandonPosition,
                  CheckFunds, BeginOrder, tables
    <2>2. CASE QueryStep(w) \/ ReplyOpened(w)
      BY <2>2 DEF QueryStep, Look, CheckTransID, CheckBelong, QueryOrder, ReplyOpened, tables
    <2>3. CASE CancelStep(w)
      BY <2>3 DEF CancelStep, CheckIfOpen, ReadOrder, CommitCancel, AbandonCancel, ReadExecuted,
                  tables, Without
    <2> QED BY <2>1, <2>2, <2>3
  <1>3. task[w].pc \notin MatchPCs \/ (task[w].pc = "match" /\ task[w].rows = {})
    BY DEF CheckAccount, CreateStep, CreateAccount, CreatePosition, AbandonPosition, CheckFunds,
           BeginOrder, QueryStep, Look, CheckTransID, CheckBelong, QueryOrder, CancelStep,
           CheckIfOpen, ReadOrder, CommitCancel, AbandonCancel, ReadExecuted, ReplyOpened, At,
           MatchPCs
  <1>4. Aside
    <2>1. CASE CheckAccount(w)
      <3>1. AfterAccount(task[w].req) \notin MatchPCs
        BY DEF AfterAccount, MatchPCs
      <3>2. Reject(w) \/ Goto(w, AfterAccount(task[w].req))
        BY <2>1 DEF CheckAccount
      <3> QED BY <1>1, <3>1, <3>2, ReplyPc, GotoPc DEF Reject, Inv
    <2>2. CASE CreateStep(w)
      BY <1>1, <2>2, ReplyPc DEF CreateStep, CreateAccount, CreatePosition, AbandonPosition
    <2>3. CASE CheckFunds(w)
      <3>1. "begin" \notin MatchPCs
        BY DEF MatchPCs
      <3>2. Reject(w) \/ Goto(w, "begin")
        BY <2>3 DEF CheckFunds
      <3> QED BY <1>1, <3>1, <3>2, ReplyPc, GotoPc DEF Reject, Inv
    <2>4. CASE BeginOrder(w)
      BY <1>1, <2>4 DEF BeginOrder, MatchPCs, Task
    <2>5. CASE ReplyOpened(w)
      BY <1>1, <2>5, ReplyPc DEF ReplyOpened
    <2>6. CASE QueryStep(w)
      <3>1. CASE Look(w)
        BY <1>1, <3>1 DEF Look, MatchPCs, Task
      <3>2. CASE CheckTransID(w)
        <4>1. Reject(w) \/ Enter(w, "belong")
          BY <3>2 DEF CheckTransID
        <4>2. "belong" \notin MatchPCs /\ "status" \notin MatchPCs /\ "open" \notin MatchPCs
          BY DEF MatchPCs
        <4> QED BY <1>1, <4>1, <4>2, ReplyPc, EnterPc DEF Reject, Inv
      <3>3. CASE CheckBelong(w)
        <4>1. Reject(w) \/ Enter(w, "status") \/ Enter(w, "open")
          BY <3>3 DEF CheckBelong
        <4>2. "belong" \notin MatchPCs /\ "status" \notin MatchPCs /\ "open" \notin MatchPCs
          BY DEF MatchPCs
        <4> QED BY <1>1, <4>1, <4>2, ReplyPc, EnterPc DEF Reject, Inv
      <3>4. CASE QueryOrder(w)
        <4>1. CASE task[w].look < 3
          BY <1>1, <3>4, <4>1 DEF QueryOrder, At, MatchPCs, Task
        <4>2. CASE ~(task[w].look < 3)
          BY <1>1, <3>4, <4>2, ReplyPc DEF QueryOrder
        <4> QED BY <4>1, <4>2
      <3> QED BY <2>6, <3>1, <3>2, <3>3, <3>4 DEF QueryStep
    <2>7. CASE CancelStep(w)
      <3>1. CASE CheckIfOpen(w) \/ CommitCancel(w)
        <4>1. Reject(w) \/ Goto(w, "read") \/ Goto(w, "executed")
          BY <3>1 DEF CheckIfOpen, CommitCancel
        <4>2. "read" \notin MatchPCs /\ "executed" \notin MatchPCs
          BY DEF MatchPCs
        <4> QED BY <1>1, <4>1, <4>2, ReplyPc, GotoPc DEF Reject, Inv
      <3>2. CASE ReadOrder(w)
        BY <1>1, <3>2 DEF ReadOrder, MatchPCs, Task
      <3>3. CASE AbandonCancel(w) \/ ReadExecuted(w)
        BY <1>1, <3>3, ReplyPc DEF AbandonCancel, ReadExecuted
      <3> QED BY <2>7, <3>1, <3>2, <3>3 DEF CancelStep
    <2> QED BY <2>1, <2>2, <2>3, <2>4, <2>5, <2>6, <2>7
  <1> QED BY <1>1, <1>2, <1>3, <1>4, QuietStep

-----------------------------------------------------------------------------
(* The worker of an order. *)

\* The new order is with a worker that is yet to select its rows.
LEMMA CommitOrderUncrossed ==
  ASSUME UInv, NEW w \in Workers, CommitOrder(w)
  PROVE  UncrossedInvariant'
  <1> DEFINE r == task[w].req
             new == [id |-> nextId, acct |-> r.acct, sym |-> r.sym, amount |-> r.amount,
                     price |-> r.limit, time |-> task[w].curr]
  <1>1. /\ task[w] \in Task /\ task[w].pc = "insert"
        /\ openOrder' = openOrder \cup {new} /\ placed' = placed \cup {new} /\ Goto(w, "lookup")
    BY DEF CommitOrder, At, UInv, Inv, TypeOK, TasksOK
  <1>2. /\ \A v \in Workers \ {w} : task'[v] = task[v]
        /\ task'[w] = [task[w] EXCEPT !.pc = "lookup"]
    BY <1>1 DEF Goto, UInv, Inv, TypeOK, TasksOK
  <1>3. task'[w].pc = "lookup" /\ task'[w].curr = new.time /\ task'[w].req = r
    BY <1>1, <1>2 DEF Task
  <1>4. OrderOf(new, r)
    BY DEF OrderOf
  <1>5. \A o \in placed : o.time # new.time
    BY <1>1 DEF UInv, Inv, OrderInvariant, StampInv, At
  <1> HIDE DEF new, r
  <1>6. MatcherOK(task[w])'
    BY <1>1, <1>3, <1>4 DEF MatcherOK
  <1>7. ASSUME NEW v \in Workers \ {w}
        PROVE  MatcherOK(task[v])'
    <2>1. MatcherOK(task[v])
      BY DEF UInv, UncrossedInvariant
    <2>2. CASE task[v].pc \in MatchPCs
      <3>1. PICK p \in placed : p.time = task[v].curr /\ OrderOf(p, task[v].req)
        BY <2>1, <2>2 DEF MatcherOK, MatchPCs
      <3>2. task[v].curr # new.time
        BY <1>5, <3>1
      <3> QED BY <1>1, <1>2, <2>1, <3>1, <3>2 DEF MatcherOK
    <2>3. CASE task[v].pc \notin MatchPCs
      BY <1>2, <2>3 DEF MatcherOK, MatchPCs
    <2> QED BY <2>2, <2>3
  <1>8. ASSUME NEW b \in openOrder', NEW s \in openOrder', Crosses(b, s)
        PROVE  \E v \in Workers : Covers(task'[v], b, s) \/ Covers(task'[v], s, b)
    <2>1. CASE b = new \/ s = new
      BY <1>3, <2>1 DEF Covers
    <2>2. CASE b \in openOrder /\ s \in openOrder
      <3>1. PICK v \in Workers : Covers(task[v], b, s) \/ Covers(task[v], s, b)
        BY <1>8, <2>2 DEF UInv, UncrossedInvariant, CrossInv
      <3>2. v # w
        BY <1>1, <3>1 DEF Covers
      <3> QED BY <1>2, <3>1, <3>2
    <2> QED BY <1>1, <2>1, <2>2
  <1> QED BY <1>6, <1>7, <1>8 DEF UncrossedInvariant, CrossInv

\* Two rows of one second are rows of one order.
LEMMA OneOrder ==
  ASSUME Inv, NEW o \in openOrder, NEW p \in placed, o.time = p.time
  PROVE  RemainderOf(o, p)
  <1>1. PICK q \in placed : RemainderOf(o, q)
    BY DEF Inv, OrderInvariant, BookInv
  <1>2. q = p
    BY <1>1 DEF Inv, OrderInvariant, PlacedInv, RemainderOf
  <1> QED BY <1>1, <1>2

\* What a worker knows of its order, while it is open.
LEMMA OwnRow ==
  ASSUME UInv, NEW w \in Workers, task[w].pc \in MatchPCs, NEW o \in openOrder,
         o.time = task[w].curr
  PROVE  /\ o.acct = task[w].req.acct /\ o.sym = task[w].req.sym /\ o.price = task[w].req.limit
         /\ o.amount > 0 => task[w].req.amount > 0
         /\ o.amount < 0 => task[w].req.amount < 0
         /\ task[w].pc # "lookup" => o.id = task[w].tid
  <1>1. MatcherOK(task[w])
    BY DEF UInv, UncrossedInvariant
  <1>2. PICK p \in placed : p.time = task[w].curr /\ OrderOf(p, task[w].req)
    BY <1>1 DEF MatcherOK, MatchPCs
  <1>3. RemainderOf(o, p)
    BY <1>2, OneOrder DEF UInv
  <1>4. task[w].pc # "lookup" => o.id = task[w].tid
    BY <1>1 DEF MatcherOK, MatchPCs
  <1> QED BY <1>2, <1>3, <1>4 DEF RemainderOf, OrderOf

\* The worker's own order and an order that crosses it: the SELECT finds it.
LEMMA OwnEligible ==
  ASSUME UInv, NEW w \in Workers, task[w].pc \in MatchPCs,
         NEW o \in openOrder, NEW p \in openOrder, o.time = task[w].curr, Pair(o, p)
  PROVE  Eligible(p, task[w].req) /\ task[w].req.amount # 0
  <1>1. /\ o.acct = task[w].req.acct /\ o.sym = task[w].req.sym /\ o.price = task[w].req.limit
        /\ o.amount > 0 => task[w].req.amount > 0
        /\ o.amount < 0 => task[w].req.amount < 0
    BY OwnRow
  <1>2. o \in Order /\ p \in Order
    BY DEF UInv, Inv, TypeOK, TablesOK
  <1>3. CASE Crosses(o, p)
    BY <1>1, <1>2, <1>3 DEF Crosses, Eligible, Order
  <1>4. CASE Crosses(p, o)
    BY <1>1, <1>2, <1>4 DEF Crosses, Eligible, Order
  <1> QED BY <1>3, <1>4 DEF Pair

LEMMA LookupIdUncrossed ==
  ASSUME UInv, NEW w \in Workers, LookupId(w)
  PROVE  UncrossedInvariant'
  <1> DEFINE r == task[w].req
             ids == {o.id : o \in {q \in openOrder : q.time = task[w].curr}}
  <1>1. PICK i \in IF ids = {} THEN {NoId} ELSE ids :
          task' = [task EXCEPT ![w] = [task[w] EXCEPT !.tid = i, !.pc = AfterInsert(r)]]
    BY DEF LookupId
  <1>2. /\ task[w] \in Task /\ task[w].pc = "lookup" /\ openOrder' = openOrder /\ placed' = placed
    BY DEF LookupId, At, UInv, Inv, TypeOK, TasksOK, tables
  <1>3. \A v \in Workers \ {w} : task'[v] = task[v]
    BY <1>1 DEF UInv, Inv, TypeOK, TasksOK
  <1>4. /\ task'[w].pc = AfterInsert(r) /\ task'[w].tid = i /\ task'[w].req = r
        /\ task'[w].curr = task[w].curr
    BY <1>1, <1>2 DEF UInv, Inv, TypeOK, TasksOK, Task
  <1>5. PICK p \in placed : p.time = task[w].curr /\ OrderOf(p, r)
    BY <1>2 DEF UInv, UncrossedInvariant, MatcherOK
  <1>6. ASSUME NEW o \in openOrder, o.time = task[w].curr
        PROVE  o.id = i
    <2>1. PICK q \in openOrder : q.time = task[w].curr /\ i = q.id
      BY <1>1, <1>6
    <2> QED BY <1>5, <1>6, <2>1, OneOrder DEF UInv, RemainderOf
  <1>7. MatcherOK(task[w])'
    BY <1>2, <1>4, <1>5, <1>6 DEF MatcherOK
  <1>8. ASSUME NEW o \in openOrder', NEW q \in openOrder', Pair(o, q), Covers(task[w], o, q)
        PROVE  Covers(task'[w], o, q)
    <2>1. r.amount # 0
      BY <1>2, <1>8, OwnEligible DEF Covers, MatchPCs
    <2> QED BY <1>4, <1>8, <2>1 DEF Covers, AfterInsert
  <1>9. \A o \in openOrder' : \E q \in openOrder : SameOrder(o, q)
    BY <1>2 DEF SameOrder
  <1> QED BY <1>2, <1>3, <1>7, <1>8, <1>9, CoverStep DEF UInv

LEMMA SelectUncrossed ==
  ASSUME UInv, NEW w \in Workers, SelectRows(w) \/ LockRows(w)
  PROVE  UncrossedInvariant'
  <1>1. /\ task[w] \in Task /\ task[w].pc \in {"select", "lock"}
        /\ openOrder' = openOrder /\ placed' = placed
    BY DEF SelectRows, LockRows, At, UInv, Inv, TypeOK, TasksOK, tables
  <1>2. /\ \A v \in Workers \ {w} : task'[v] = task[v]
        /\ task'[w].pc \in {"lock", "match"} /\ task'[w].curr = task[w].curr
        /\ task'[w].req = task[w].req /\ task'[w].tid = task[w].tid
        /\ task'[w].rows = {o \in openOrder : /\ Eligible(o, task[w].req)
                                              /\ task[w].pc = "lock" =>
                                                   \E q \in task[w].rows : q.id = o.id}
    <2>1. CASE SelectRows(w)
      BY <1>1, <2>1 DEF SelectRows, At, UInv, Inv, TypeOK, TasksOK, Task
    <2>2. CASE LockRows(w)
      <3> DEFINE rows == {o \in openOrder : o.id \in {q.id : q \in task[w].rows}
                                            /\ Eligible(o, task[w].req)}
      <3>1. task' = [task EXCEPT ![w] = [task[w] EXCEPT !.rows = rows, !.pc = "match"]]
            /\ task[w].pc = "lock"
        BY <2>2 DEF LockRows, At
      <3>2. rows = {o \in openOrder : /\ Eligible(o, task[w].req)
                                      /\ \E q \in task[w].rows : q.id = o.id}
        OBVIOUS
      <3> HIDE DEF rows
      <3> QED BY <1>1, <3>1, <3>2 DEF UInv, Inv, TypeOK, TasksOK, Task
    <2> QED BY <2>1, <2>2
  <1>3. MatcherOK(task[w])'
    BY <1>1, <1>2 DEF UInv, UncrossedInvariant, MatcherOK
  <1>4. ASSUME NEW o \in openOrder', NEW p \in openOrder', Pair(o, p), Covers(task[w], o, p)
        PROVE  Covers(task'[w], o, p)
    <2>1. Eligible(p, task[w].req)
      BY <1>1, <1>4, OwnEligible DEF Covers, MatchPCs
    <2>2. p \in task'[w].rows
      BY <1>1, <1>2, <1>4, <2>1 DEF Covers
    <2> QED BY <1>2, <1>4, <2>2 DEF Covers
  <1>5. \A o \in openOrder' : \E q \in openOrder : SameOrder(o, q)
    BY <1>1 DEF SameOrder
  <1> QED BY <1>1, <1>2, <1>3, <1>4, <1>5, CoverStep DEF UInv

-----------------------------------------------------------------------------
(* A fill. *)

\* The side a fill leaves shares to keeps its sign, and every other row its
\* amount.
LEMMA FillRows ==
  ASSUME Inv, NEW w \in Workers, At(w, "match"), NEW o \in task[w].rows,
         NEW x \in BookAfter(w, Trade(w, o), o)
  PROVE  \E q \in openOrder : SameOrder(x, q)
  <1> DEFINE e == Trade(w, o)
             final == task[w].left + o.amount
  <1>1. \A p \in placed : (p.id = e.buy => p.amount > 0) /\ (p.id = e.sell => p.amount < 0)
    BY TradeInv
  <1>2. openOrder \in SUBSET Order /\ final \in Int
    BY TradeType DEF Inv, TypeOK, TablesOK
  <1>3. x \in Settle(openOrder, e.sell, e.buy, final)
    BY DEF BookAfter
  <1> HIDE DEF e, final
  <1>4. PICK q \in openOrder :
          /\ x.id = q.id /\ x.acct = q.acct /\ x.sym = q.sym
          /\ x.price = q.price /\ x.time = q.time
          /\ \/ x.amount = q.amount
             \/ x.id = e.sell /\ x.amount = final /\ final < 0
             \/ x.id = e.buy /\ x.amount = final /\ final > 0
    BY <1>2, <1>3, SettleRows
  <1>5. PICK p \in placed : RemainderOf(q, p)
    BY DEF Inv, OrderInvariant, BookInv
  <1>6. p.amount \in Int
    BY DEF Inv, TypeOK, TablesOK, Order
  <1>7. SameOrder(x, q)
    BY <1>1, <1>2, <1>4, <1>5, <1>6 DEF SameOrder, RemainderOf
  <1> QED BY <1>7

\* The order that was filled is gone; when the incoming order has no shares
\* left, or the selected row had more than it, the incoming order is.
LEMMA FillCloses ==
  ASSUME Inv, NEW w \in Workers, At(w, "match"), NEW o \in task[w].rows,
         NEW x \in BookAfter(w, Trade(w, o), o)
  PROVE  LET more == IF task[w].req.amount < 0 THEN task[w].left + o.amount < 0
                                               ELSE task[w].left + o.amount > 0
         IN /\ more => x.id # o.id
            /\ ~more => x.id # task[w].tid
  <1> DEFINE r == task[w].req
             final == task[w].left + o.amount
             e == Trade(w, o)
  <1>1. (r.amount < 0 \/ r.amount > 0) /\ r.amount \in Int
    BY MatchFacts DEF OrderReq
  <1>2. openOrder \in SUBSET Order /\ final \in Int
    BY TradeType DEF Inv, TypeOK, TablesOK
  <1>3. /\ r.amount < 0 => e.buy = o.id /\ e.sell = task[w].tid
        /\ r.amount > 0 => e.sell = o.id /\ e.buy = task[w].tid
    BY <1>1 DEF Trade
  <1>4. x \in Settle(openOrder, e.sell, e.buy, final)
    BY DEF BookAfter
  <1> HIDE DEF e, final
  <1>5. /\ final < 0 => x.id # e.buy
        /\ final > 0 => x.id # e.sell
        /\ final = 0 => x.id # e.buy /\ x.id # e.sell
    <2>1. CASE final < 0
      BY <1>2, <1>4, <2>1 DEF Settle, SetAmount, Without, Order
    <2>2. CASE final > 0
      BY <1>2, <1>4, <2>2 DEF Settle, SetAmount, Without, Order
    <2>3. CASE final = 0
      BY <1>2, <1>4, <2>3 DEF Settle, Without
    <2> QED BY <1>2, <2>1, <2>2, <2>3
  <1>6. IF r.amount < 0 THEN /\ final < 0 => x.id # o.id
                             /\ ~(final < 0) => x.id # task[w].tid
                        ELSE /\ final > 0 => x.id # o.id
                             /\ ~(final > 0) => x.id # task[w].tid
    BY <1>1, <1>2, <1>3, <1>5
  <1> QED BY <1>6 DEF final

LEMMA MatchUncrossed ==
  ASSUME UInv, NEW w \in Workers, Match(w)
  PROVE  UncrossedInvariant'
  <1>1. PICK o \in task[w].rows :
          /\ openOrder' = BookAfter(w, Trade(w, o), o)
          /\ task' = [task EXCEPT ![w] = AfterFill(w, o)]
    BY DEF Match, Leading, NextRow
  <1> DEFINE more == IF task[w].req.amount < 0 THEN task[w].left + o.amount < 0
                                               ELSE task[w].left + o.amount > 0
  <1>2. At(w, "match") /\ placed' = placed /\ Inv /\ task[w] \in Task
    BY DEF Match, UInv, Inv, TypeOK, TasksOK
  <1>3. \A v \in Workers \ {w} : task'[v] = task[v]
    BY <1>1, <1>2 DEF Inv, TypeOK, TasksOK
  <1>4. /\ task'[w].req = task[w].req /\ task'[w].tid = task[w].tid
        /\ task'[w].curr = task[w].curr
        /\ task'[w].pc = IF more THEN "match" ELSE "done"
        /\ more => task'[w].rows = task[w].rows \ {o}
    BY <1>1, <1>2 DEF Inv, TypeOK, TasksOK, AfterFill, Task, At
  <1>5. ASSUME NEW x \in openOrder'
        PROVE  /\ \E q \in openOrder : SameOrder(x, q)
               /\ more => x.id # o.id
               /\ ~more => x.id # task[w].tid
    BY <1>1, <1>2, <1>5, FillRows, FillCloses
  <1> HIDE DEF more
  <1>6. MatcherOK(task[w])
    BY DEF UInv, UncrossedInvariant
  <1>7. ASSUME NEW x \in openOrder', x.time = task[w].curr
        PROVE  x.id = task[w].tid
    <2>1. PICK q \in openOrder : SameOrder(x, q)
      BY <1>5
    <2> QED BY <1>2, <1>6, <1>7, <2>1 DEF MatcherOK, SameOrder, At
  <1>8. MatcherOK(task[w])'
    BY <1>2, <1>4, <1>6, <1>7 DEF MatcherOK, At
  <1>9. ASSUME NEW x \in openOrder', NEW p \in openOrder', Pair(x, p), Covers(task[w], x, p)
        PROVE  Covers(task'[w], x, p)
    <2>1. x.time = task[w].curr /\ \E q \in task[w].rows : q.id = p.id
      BY <1>2, <1>9 DEF Covers, At
    <2>2. more
      BY <1>5, <1>7, <2>1
    <2>3. \E q \in task'[w].rows : q.id = p.id
      BY <1>4, <1>5, <2>1, <2>2
    <2> QED BY <1>4, <2>1, <2>2, <2>3 DEF Covers
  <1>10. \A x \in openOrder' : \E q \in openOrder : SameOrder(x, q)
    BY <1>5
  <1> QED BY <1>2, <1>3, <1>8, <1>9, <1>10, CoverStep DEF UInv

-----------------------------------------------------------------------------
(* The theorem. *)

LEMMA InitUncrossed == Init => UncrossedInvariant
  <1> SUFFICES ASSUME Init PROVE UncrossedInvariant
    OBVIOUS
  <1>1. openOrder = {} /\ \A w \in Workers : task[w].pc = "idle"
    BY DEF Init, Idle
  <1> QED BY <1>1 DEF UncrossedInvariant, MatcherOK, CrossInv

LEMMA NextUncrossed ==
  ASSUME MayAbort = FALSE, UInv, [Next]_vars
  PROVE  UncrossedInvariant'
  <1>1. CASE UNCHANGED vars
    BY <1>1 DEF vars, tables, UInv, UncrossedInvariant, MatcherOK, CrossInv
  <1>2. ASSUME NEW w \in Workers, Receive(w)
        PROVE  UncrossedInvariant'
    BY <1>2, ReceiveUncrossed
  <1>3. ASSUME NEW w \in Workers, Step(w)
        PROVE  UncrossedInvariant'
    <2>1. ~AbandonOrder(w) /\ ~AbandonSelect(w) /\ ~AbandonMatch(w)
      BY DEF AbandonOrder, AbandonSelect, AbandonMatch
    <2>2. CASE CommitOrder(w)
      BY <2>2, CommitOrderUncrossed
    <2>3. CASE LookupId(w)
      BY <2>3, LookupIdUncrossed
    <2>4. CASE SelectRows(w) \/ LockRows(w)
      BY <2>4, SelectUncrossed
    <2>5. CASE Match(w)
      BY <2>5, MatchUncrossed
    <2>6. CASE CheckAccount(w) \/ CreateStep(w) \/ CheckFunds(w) \/ BeginOrder(w)
                 \/ QueryStep(w) \/ CancelStep(w) \/ ReplyOpened(w)
      BY <2>6, AsideUncrossed
    <2> QED BY <1>3, <2>1, <2>2, <2>3, <2>4, <2>5, <2>6 DEF Step, OrderStep
  <1> QED BY <1>1, <1>2, <1>3 DEF Next

\* Orders are matched against the rows selected after their own commit, those
\* rows are only ever made fewer or smaller by other workers, and each pass of
\* ExecOrder's loop closes one of the two orders it is about: when no request
\* is in progress, no two orders in the book could trade with each other.
THEOREM NoneLeftCrossed ==
  ASSUME SameSecond = FALSE, MayAbort = FALSE
  PROVE  Spec => []UncrossedAtRest
  <1>1. Init => UncrossedInvariant
    BY InitUncrossed
  <1>2. Inv /\ UncrossedInvariant /\ [Next]_vars => UncrossedInvariant'
    BY NextUncrossed DEF UInv
  <1>3. UncrossedInvariant => UncrossedAtRest
    BY DEF UncrossedInvariant, CrossInv, Covers, UncrossedAtRest, AtRest, At
  <1>4. Spec => []Inv
    BY InvHolds
  <1> QED BY <1>1, <1>2, <1>3, <1>4, PTL DEF Spec
=============================================================================
