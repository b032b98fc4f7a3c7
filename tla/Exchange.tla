------------------------------ MODULE Exchange ------------------------------
(***************************************************************************)
(* The sub-requests of the matching engine as the worker threads of the    *)
(* server run them against the shared database: request.cpp's execute      *)
(* methods and the functions of Database.cpp they call.                    *)
(*                                                                         *)
(* A step is one committed database transaction, or one statement read     *)
(* outside a transaction that later writes.  A transaction that only       *)
(* writes rows it has locked, or adds to them, is atomic at its commit;    *)
(* where the code reads rows, lets the lock go and writes later (ExecOrder *)
(* before MatchOrder, CancelOrder before its DELETE), read and write are   *)
(* separate steps and other workers run in between.                        *)
(***************************************************************************)
EXTENDS Tables

CONSTANTS
  Workers,          \* threads of the pool that serve requests
  Workloads,        \* the sequences of requests that may reach the pool's queue
  OpeningAccount,   \* ACCOUNT rows created before the workload
  OpeningPosition,  \* POSITION rows created before the workload
  SameSecond,       \* may two orders be stamped with the same second?
  MayAbort          \* may the database abort a transaction (deadlock, duplicate key)?

ASSUME ExchangeAssumption ==
  /\ Workloads \subseteq Seq(Request)
  /\ DOMAIN OpeningAccount \subseteq Accounts
  /\ OpeningAccount \in [DOMAIN OpeningAccount -> Int]
  /\ DOMAIN OpeningPosition \subseteq (DOMAIN OpeningAccount) \X Syms
  /\ OpeningPosition \in [DOMAIN OpeningPosition -> Int]
  /\ SameSecond \in BOOLEAN
  /\ MayAbort \in BOOLEAN

VARIABLES
  account,     \* table ACCOUNT: ACCOUNT_ID -> BALANCE
  position,    \* table POSITION: (ACCOUNT_ID, SYM) -> AMOUNT
  openOrder,   \* table OPEN_ORDER
  exec,        \* table EXEC, in EXEC_ID order
  cancel,      \* table CANCEL, in CANCEL_ID order
  nextId,      \* the sequence behind OPEN_ORDER.ORDER_ID
  clock,       \* time(NULL)
  todo,        \* requests in the pool's queue
  task,        \* what each worker is doing, with the locals of its call
  placed,      \* history: every row ever inserted in OPEN_ORDER
  granted,     \* history: the creations that took effect, in commit order
  replies      \* history: the answers, in the order they were given

tables == <<account, position, openOrder, exec, cancel, nextId, placed, granted>>
vars == <<tables, clock, todo, task, replies>>

NoReq == [op |-> "none"]
Idle == [pc |-> "idle", req |-> NoReq, rest |-> << >>,
         tid |-> NoId, curr |-> 0, left |-> 0, rows |-> {},
         look |-> 1, found |-> {}, report |-> {}]

\* Request::execute calls the next sub-request's execute; each one begins with
\* checkAccountID.
Run(subs) == IF subs = << >> THEN Idle
             ELSE [Idle EXCEPT !.pc = "account", !.req = Head(subs), !.rest = Tail(subs)]

Init ==
  /\ account = OpeningAccount
  /\ position = OpeningPosition
  /\ openOrder = {}
  /\ exec = << >>
  /\ cancel = << >>
  /\ nextId = 1
  /\ clock = 0
  /\ todo \in Workloads
  /\ task = [w \in Workers |-> Idle]
  /\ placed = {}
  /\ granted = << >>
  /\ replies = << >>

-----------------------------------------------------------------------------

At(w, pc) == task[w].pc = pc

Goto(w, pc) == task' = [task EXCEPT ![w] = [@ EXCEPT !.pc = pc]]

\* replySuccess or replyError, and on with the rest of the request.
Reply(w, ok, val, report) ==
  /\ task' = [task EXCEPT ![w] = Run(task[w].rest)]
  /\ replies' = Append(replies, [req |-> task[w].req, at |-> task[w].pc, ok |-> ok,
                                 val |-> val, report |-> report])

Reject(w) == Reply(w, FALSE, 0, {})

\* A free worker of the pool takes the request at the front of the queue.
Receive(w) ==
  /\ At(w, "idle")
  /\ todo # << >>
  /\ todo' = Tail(todo)
  /\ task' = [task EXCEPT ![w] = Run(Head(todo))]
  /\ UNCHANGED <<tables, clock, replies>>

AfterAccount(r) ==
  IF r.op = "account" THEN "createAccount"
  ELSE IF r.op = "symbol" THEN "createPosition"
  ELSE IF r.op \in {"query", "cancel"} THEN "trans"
  ELSE IF r.amount = 0 THEN "begin" ELSE "funds"

\* Faulty: only a new account is checked.
CheckAccount_CreateOnly(w) ==
  LET r == task[w].req
  IN /\ At(w, "account")
     /\ IF r.op = "account" /\ r.acct \in DOMAIN account
        THEN Reject(w)
        ELSE Goto(w, AfterAccount(r)) /\ UNCHANGED replies
     /\ UNCHANGED <<tables, clock, todo>>

\* checkAccountID opens every execute method: a new account must not exist
\* yet, any other sub-request needs one that does.
CheckAccount(w) ==
  LET r == task[w].req
      known == r.acct \in DOMAIN account
  IN /\ At(w, "account")
     /\ IF known = (r.op = "account")
        THEN Reject(w)
        ELSE Goto(w, AfterAccount(r)) /\ UNCHANGED replies
     /\ UNCHANGED <<tables, clock, todo>>

-----------------------------------------------------------------------------
(* Account::execute and Symbol::execute *)

\* ON CONFLICT DO NOTHING: an account created since the check keeps its
\* balance, and this client is told "created" all the same.
CreateAccount(w) ==
  LET r == task[w].req
  IN /\ At(w, "createAccount")
     /\ account' = [a \in DOMAIN account \cup {r.acct} |->
                      IF a \in DOMAIN account THEN account[a] ELSE r.balance]
     /\ granted' = IF r.acct \in DOMAIN account THEN granted ELSE Append(granted, r)
     /\ Reply(w, TRUE, 0, {})
     /\ UNCHANGED <<position, openOrder, exec, cancel, nextId, placed, clock, todo>>

CreatePosition(w) ==
  LET r == task[w].req
  IN /\ At(w, "createPosition")
     /\ position' = Deliver(position, <<r.acct, r.sym>>, r.num)
     /\ granted' = Append(granted, r)
     /\ Reply(w, TRUE, 0, {})
     /\ UNCHANGED <<account, openOrder, exec, cancel, nextId, placed, clock, todo>>

\* CreatePosition returns 0 and Symbol::execute does not look at it.
AbandonPosition(w) ==
  /\ At(w, "createPosition")
  /\ MayAbort
  /\ Reply(w, TRUE, 0, {})
  /\ UNCHANGED <<tables, clock, todo>>

-----------------------------------------------------------------------------
(* Order::execute *)

\* checkBuyerMoney or checkSellerShare; a seller without a POSITION row is
\* refused because the null AMOUNT does not convert.
Affordable(r) ==
  \/ r.amount > 0 /\ CanPay(account[r.acct], r)
  \/ /\ r.amount < 0
     /\ <<r.acct, r.sym>> \in DOMAIN position
     /\ CanDeliver(position[<<r.acct, r.sym>>], r)

CheckFunds(w) ==
  /\ At(w, "funds")
  /\ IF Affordable(task[w].req)
     THEN Goto(w, "begin") /\ UNCHANGED replies
     ELSE Reject(w)
  /\ UNCHANGED <<tables, clock, todo>>

\* Seconds that some stored order, or one about to be stored, bears.
Stamps == {o.time : o \in placed} \cup {task[v].curr : v \in {u \in Workers : At(u, "insert")}}

\* time_t curr = time(NULL): the second the order will bear.
BeginOrder(w) ==
  /\ At(w, "begin")
  /\ \E t \in {clock, clock + 1} :
       /\ SameSecond \/ t \notin Stamps
       /\ clock' = t
       /\ task' = [task EXCEPT ![w] = [@ EXCEPT !.curr = t, !.pc = "insert"]]
  /\ UNCHANGED <<tables, todo, replies>>

\* The transaction of CreateOrder: store the order and set aside what it needs.
CommitOrder(w) ==
  LET r == task[w].req
      o == [id |-> nextId, acct |-> r.acct, sym |-> r.sym, amount |-> r.amount,
            price |-> r.limit, time |-> task[w].curr]
  IN /\ At(w, "insert")
     /\ openOrder' = openOrder \cup {o}
     /\ placed' = placed \cup {o}
     /\ nextId' = nextId + 1
     /\ position' = IF r.amount < 0 THEN ShiftPositions(position, r.acct, r.amount) ELSE position
     /\ account' = IF r.amount > 0 THEN Pay(account, r.acct, -(r.limit * r.amount)) ELSE account
     /\ Goto(w, "lookup")
     /\ UNCHANGED <<exec, cancel, granted, clock, todo, replies>>

\* ExecOrder does nothing for an order of no shares.
AfterInsert(r) == IF r.amount = 0 THEN "done" ELSE "select"

\* CreateOrder rolls back and returns -1; Order::execute calls ExecOrder with it.
AbandonOrder(w) ==
  /\ At(w, "insert")
  /\ MayAbort
  /\ Goto(w, AfterInsert(task[w].req))
  /\ UNCHANGED <<tables, clock, todo, replies>>

\* Faulty: SELECT MAX(ORDER_ID).
LookupId_Newest(w) ==
  /\ At(w, "lookup")
  /\ task' = [task EXCEPT ![w] = [@ EXCEPT !.tid = nextId - 1, !.pc = AfterInsert(task[w].req)]]
  /\ UNCHANGED <<tables, clock, todo, replies>>

\* Faulty: repeats the SELECT until it finds the order.
LookupId_Wait(w) ==
  /\ At(w, "lookup")
  /\ \E o \in openOrder :
       /\ o.time = task[w].curr
       /\ task' = [task EXCEPT ![w] = [@ EXCEPT !.tid = o.id, !.pc = AfterInsert(task[w].req)]]
  /\ UNCHANGED <<tables, clock, todo, replies>>

\* SELECT ORDER_ID ... WHERE TIME = curr, of which the last row wins: any open
\* order of that second, or -1 when none is left.
LookupId(w) ==
  LET ids == {o.id : o \in {q \in openOrder : q.time = task[w].curr}}
  IN /\ At(w, "lookup")
     /\ \E i \in IF ids = {} THEN {NoId} ELSE ids :
          task' = [task EXCEPT ![w] = [@ EXCEPT !.tid = i, !.pc = AfterInsert(task[w].req)]]
     /\ UNCHANGED <<tables, clock, todo, replies>>

\* ExecOrder's SELECT ... FOR UPDATE finds its rows in the statement's snapshot,
SelectRows(w) ==
  /\ At(w, "select")
  /\ task' = [task EXCEPT ![w] =
                [@ EXCEPT !.rows = {o \in openOrder : Eligible(o, task[w].req)},
                          !.left = task[w].req.amount,
                          !.pc = "lock"]]
  /\ UNCHANGED <<tables, clock, todo, replies>>

\* then locks them in their newest version, dropping those that no longer
\* qualify.  W.commit() follows at once and releases the locks.
LockRows(w) ==
  LET found == {o.id : o \in task[w].rows}
  IN /\ At(w, "lock")
     /\ task' = [task EXCEPT ![w] =
                   [@ EXCEPT !.rows = {o \in openOrder : o.id \in found
                                                         /\ Eligible(o, task[w].req)},
                             !.pc = "match"]]
     /\ UNCHANGED <<tables, clock, todo, replies>>

\* Faulty: tries again.
AbandonSelect_Retry(w) ==
  /\ At(w, "lock")
  /\ MayAbort
  /\ Goto(w, "select")
  /\ UNCHANGED <<tables, clock, todo, replies>>

\* ExecOrder returns 0 and Order::execute does not look at it.
AbandonSelect(w) ==
  /\ At(w, "lock")
  /\ MayAbort
  /\ Goto(w, "done")
  /\ UNCHANGED <<tables, clock, todo, replies>>

\* Faulty: the incoming order's limit is the price.
Trade_OwnPrice(w, o) ==
  LET r == task[w].req
      n == FillAmount(task[w].left, o.amount)
  IN [buyer |-> IF r.amount < 0 THEN o.acct ELSE r.acct,
      seller |-> IF r.amount < 0 THEN r.acct ELSE o.acct,
      buy |-> IF r.amount < 0 THEN o.id ELSE task[w].tid,
      sell |-> IF r.amount < 0 THEN task[w].tid ELSE o.id,
      sym |-> r.sym, amount |-> n, price |-> r.limit]

\* Faulty: buy_id and sell_id as in the branch for buy orders.
Trade_SwappedIds(w, o) ==
  LET r == task[w].req
      n == FillAmount(task[w].left, o.amount)
  IN [buyer |-> IF r.amount < 0 THEN o.acct ELSE r.acct,
      seller |-> IF r.amount < 0 THEN r.acct ELSE o.acct,
      buy |-> task[w].tid, sell |-> o.id,
      sym |-> r.sym, amount |-> n, price |-> o.price]

\* The EXEC row for worker w and the resting order o, as o was when selected.
Trade(w, o) ==
  LET r == task[w].req
      t == task[w].tid
      n == FillAmount(task[w].left, o.amount)
  IN IF r.amount < 0
     THEN [buyer |-> o.acct, seller |-> r.acct, buy |-> o.id, sell |-> t,
           sym |-> r.sym, amount |-> n, price |-> o.price]
     ELSE [buyer |-> r.acct, seller |-> o.acct, buy |-> t, sell |-> o.id,
           sym |-> r.sym, amount |-> n, price |-> o.price]

\* The loop of ExecOrder goes on while the incoming order has shares left.
AfterFill(w, o) ==
  LET final == task[w].left + o.amount
      more == IF task[w].req.amount < 0 THEN final < 0 ELSE final > 0
  IN [task[w] EXCEPT !.rows = IF more THEN @ \ {o} ELSE {},
                     !.left = IF more THEN final ELSE @,
                     !.pc = IF more THEN "match" ELSE "done"]

NextRow(w, o) == task' = [task EXCEPT ![w] = AfterFill(w, o)]

\* Faulty: writes the selected row back when it is gone.
BookAfter_Upsert(w, e, o) ==
  Settle(Without(openOrder, o.id) \cup {o}, e.sell, e.buy, task[w].left + o.amount)

BookAfter(w, e, o) == Settle(openOrder, e.sell, e.buy, task[w].left + o.amount)

\* The transaction W2 around MatchOrder, with the buyer's refund before it.
Match(w) ==
  /\ At(w, "match")
  /\ \E o \in Leading(task[w].rows) :
       LET e == Trade(w, o)
           refund == Refund(task[w].req, o.price)
           paid == Pay(account, e.buyer, refund)
       IN /\ exec' = Append(exec, e)
          /\ openOrder' = BookAfter(w, e, o)
          /\ account' = Pay(paid, e.seller, e.price * e.amount)
          /\ position' = Deliver(position, <<e.buyer, e.sym>>, e.amount)
          /\ NextRow(w, o)
  /\ UNCHANGED <<cancel, nextId, placed, granted, clock, todo, replies>>

\* Faulty: each statement commits by itself, and the first of them fails.
AbandonMatch_Autocommit(w) ==
  /\ At(w, "match")
  /\ MayAbort
  /\ \E o \in Leading(task[w].rows) :
       LET e == Trade(w, o)
       IN /\ position' = Deliver(position, <<e.buyer, e.sym>>, e.amount)
          /\ NextRow(w, o)
  /\ UNCHANGED <<account, openOrder, exec, cancel, nextId, placed, granted, clock, todo, replies>>

\* MatchOrder swallows the exception: ExecOrder's loop goes on as if filled.
AbandonMatch(w) ==
  /\ At(w, "match")
  /\ MayAbort
  /\ \E o \in Leading(task[w].rows) : NextRow(w, o)
  /\ UNCHANGED <<tables, clock, todo, replies>>

ReplyOpened(w) ==
  /\ \/ At(w, "done")
     \/ At(w, "match") /\ task[w].rows = {}
  /\ Reply(w, TRUE, task[w].tid, {})
  /\ UNCHANGED <<tables, clock, todo>>

-----------------------------------------------------------------------------
(* Query::execute and Cancel::execute *)

\* The accounts that the four SELECTs of checkTransID, and of checkBelong, find
\* for an order, in the order the code runs them.
OwnersIn(id) ==
  << {cancel[i].acct : i \in {j \in DOMAIN cancel : cancel[j].id = id}},
     {o.acct : o \in {q \in openOrder : q.id = id}},
     {exec[i].buyer : i \in {j \in DOMAIN exec : exec[j].buy = id}},
     {exec[i].seller : i \in {j \in DOMAIN exec : exec[j].sell = id}} >>

Seen(w) == task[w].found \cup OwnersIn(task[w].req.id)[task[w].look]

\* Outside a transaction every SELECT sees what is committed when it runs.
Look(w) ==
  /\ task[w].pc \in {"trans", "belong"}
  /\ task[w].look < 4
  /\ task' = [task EXCEPT ![w] = [@ EXCEPT !.found = Seen(w), !.look = task[w].look + 1]]
  /\ UNCHANGED <<tables, clock, todo, replies>>

Enter(w, pc) ==
  task' = [task EXCEPT ![w] = [@ EXCEPT !.pc = pc, !.found = {}, !.look = 1]]

CheckTransID(w) ==
  /\ At(w, "trans")
  /\ task[w].look = 4
  /\ IF Seen(w) # {}
     THEN Enter(w, "belong") /\ UNCHANGED replies
     ELSE Reject(w)
  /\ UNCHANGED <<tables, clock, todo>>

\* Nobody else's row is taken for the account's own order.
CheckBelong(w) ==
  /\ At(w, "belong")
  /\ task[w].look = 4
  /\ IF Seen(w) \subseteq {task[w].req.acct}
     THEN Enter(w, IF task[w].req.op = "query" THEN "status" ELSE "open") /\ UNCHANGED replies
     ELSE Reject(w)
  /\ UNCHANGED <<tables, clock, todo>>

Executed(id) == {[state |-> "executed", row |-> i, shares |-> exec[i].amount] :
                   i \in {j \in DOMAIN exec : id \in {exec[j].buy, exec[j].sell}}}

\* Faulty: reads OPEN_ORDER last.
StatusIn_OpenLast(id) ==
  << {[state |-> "canceled", row |-> i, shares |-> cancel[i].amount] :
        i \in {j \in DOMAIN cancel : cancel[j].id = id}},
     Executed(id),
     {[state |-> "open", row |-> 0, shares |-> o.amount] : o \in {q \in openOrder : q.id = id}} >>

\* What the three SELECTs of QueryOrder find for an order, in their order.
StatusIn(id) ==
  << {[state |-> "open", row |-> 0, shares |-> o.amount] : o \in {q \in openOrder : q.id = id}},
     {[state |-> "canceled", row |-> i, shares |-> cancel[i].amount] :
        i \in {j \in DOMAIN cancel : cancel[j].id = id}},
     Executed(id) >>

\* They run outside a transaction too.
QueryOrder(w) ==
  LET t == task[w]
      report == t.report \cup StatusIn(t.req.id)[t.look]
  IN /\ At(w, "status")
     /\ IF t.look < 3
        THEN /\ task' = [task EXCEPT ![w] = [@ EXCEPT !.report = report, !.look = t.look + 1]]
             /\ UNCHANGED replies
        ELSE Reply(w, TRUE, 0, report)
     /\ UNCHANGED <<tables, clock, todo>>

\* Faulty: whoever passed the other checks may cancel.
CheckIfOpen_Skipped(w) ==
  /\ At(w, "open")
  /\ Goto(w, "read")
  /\ UNCHANGED <<tables, clock, todo, replies>>

CheckIfOpen(w) ==
  /\ At(w, "open")
  /\ IF \E o \in openOrder : o.id = task[w].req.id
     THEN Goto(w, "read") /\ UNCHANGED replies
     ELSE Reject(w)
  /\ UNCHANGED <<tables, clock, todo>>

\* CancelOrder reads the order without locking it, and enters it in the answer.
ReadOrder(w) ==
  LET rows == {o \in openOrder : o.id = task[w].req.id}
  IN /\ At(w, "read")
     /\ task' = [task EXCEPT ![w] =
                   [@ EXCEPT !.rows = rows,
                             !.report = {[state |-> "canceled", row |-> 0, shares |-> o.amount] :
                                           o \in rows},
                             !.pc = "cancel"]]
     /\ UNCHANGED <<tables, clock, todo, replies>>

\* The rest of its transaction: record the cancellation, give back what the
\* row that was read still had set aside, delete the order.
CommitCancel(w) ==
  /\ At(w, "cancel")
  /\ Goto(w, "executed")
  /\ \/ task[w].rows = {} /\ UNCHANGED tables
     \/ \E o \in task[w].rows :
          /\ cancel' = Append(cancel, [acct |-> o.acct, id |-> o.id, sym |-> o.sym,
                                       amount |-> o.amount])
          /\ position' = IF o.amount < 0 THEN ShiftPositions(position, o.acct, -o.amount)
                                         ELSE position
          /\ account' = IF o.amount < 0 THEN account ELSE Pay(account, o.acct, o.price * o.amount)
          /\ openOrder' = Without(openOrder, o.id)
          /\ UNCHANGED <<exec, nextId, placed, granted>>
  /\ UNCHANGED <<clock, todo, replies>>

\* A transaction that fails leaves its "canceled" entry in the answer.
AbandonCancel(w) ==
  /\ At(w, "cancel")
  /\ MayAbort
  /\ task[w].rows # {}
  /\ Reply(w, TRUE, 0, task[w].report)
  /\ UNCHANGED <<tables, clock, todo>>

\* The order's executions are read after the commit.
ReadExecuted(w) ==
  /\ At(w, "executed")
  /\ Reply(w, TRUE, 0, task[w].report \cup Executed(task[w].req.id))
  /\ UNCHANGED <<tables, clock, todo>>

-----------------------------------------------------------------------------

OrderStep(w) ==
  \/ CheckFunds(w) \/ BeginOrder(w) \/ CommitOrder(w) \/ AbandonOrder(w) \/ LookupId(w)
  \/ SelectRows(w) \/ LockRows(w) \/ AbandonSelect(w) \/ Match(w) \/ AbandonMatch(w)
  \/ ReplyOpened(w)

QueryStep(w) == Look(w) \/ CheckTransID(w) \/ CheckBelong(w) \/ QueryOrder(w)

CancelStep(w) ==
  \/ CheckIfOpen(w) \/ ReadOrder(w) \/ CommitCancel(w) \/ AbandonCancel(w) \/ ReadExecuted(w)

CreateStep(w) == CreateAccount(w) \/ CreatePosition(w) \/ AbandonPosition(w)

Step(w) ==
  CheckAccount(w) \/ CreateStep(w) \/ OrderStep(w) \/ QueryStep(w) \/ CancelStep(w)

Next == \E w \in Workers : Receive(w) \/ Step(w)

Spec == Init /\ [][Next]_vars

\* A worker thread keeps running while it has a request or the queue holds one.
FairSpec == Spec /\ \A w \in Workers : WF_vars(Receive(w) \/ Step(w))

-----------------------------------------------------------------------------
(* Types *)

OrderPCs == {"funds", "begin", "insert", "lookup", "select", "lock", "match", "done"}
CancelPCs == {"open", "read", "cancel", "executed"}
StatusPCs == {"trans", "belong", "status"} \cup CancelPCs
PCs == {"idle", "account", "createAccount", "createPosition"} \cup OrderPCs \cup StatusPCs

Task == [pc : PCs, req : SubRequest \cup {NoReq}, rest : Seq(SubRequest),
         tid : Int, curr : Nat, left : Int, rows : SUBSET Order,
         look : 1 .. 4, found : SUBSET Accounts, report : SUBSET Entry]

\* A worker past checkAccountID serves the operation its place belongs to, for
\* an account that exists, and holds rows of accounts that exist.
TaskOK(t) ==
  /\ t.pc # "idle" => t.req \in SubRequest
  /\ t.pc = "createAccount" => t.req.op = "account"
  /\ t.pc = "createPosition" => t.req.op = "symbol"
  /\ t.pc \in OrderPCs => t.req.op = "order"
  /\ t.pc \in StatusPCs => t.req.op \in {"query", "cancel"}
  /\ t.pc = "status" => t.req.op = "query" /\ t.look < 4
  /\ t.pc \in CancelPCs => t.req.op = "cancel"
  /\ t.pc \in {"createPosition"} \cup OrderPCs \cup StatusPCs => t.req.acct \in DOMAIN account
  /\ \A o \in t.rows : o.acct \in DOMAIN account

\* The columns' types and the foreign keys of POSITION and OPEN_ORDER
\* (Database.cpp's CREATE TABLEs).
TablesOK ==
  /\ DOMAIN account \subseteq Accounts
  /\ account \in [DOMAIN account -> Int]
  /\ DOMAIN position \subseteq (DOMAIN account) \X Syms
  /\ position \in [DOMAIN position -> Int]
  /\ openOrder \subseteq Order
  /\ placed \subseteq Order
  /\ \A o \in openOrder \cup placed : o.acct \in DOMAIN account
  /\ exec \in Seq(Exec)
  /\ cancel \in Seq(Cancelled)
  /\ nextId \in Nat \ {0}

TasksOK ==
  /\ task \in [Workers -> Task]
  /\ \A w \in Workers : TaskOK(task[w])

\* The tables keep their types and foreign keys, and each worker's place in the
\* code agrees with its locals: no handler reads an ACCOUNT row that its checks,
\* however old, did not establish.
TypeOK ==
  /\ TablesOK
  /\ TasksOK
  /\ clock \in Nat
  /\ todo \in Seq(Request)

-----------------------------------------------------------------------------
(* What the matching promises *)

\* No other order stored so far bears the second of order o: CreateOrder, which
\* looks for an order by its second, has not taken o for another one.
AloneInSecond(o) == \A p \in placed : p.time = o.time => p = o

\* ACCOUNT_ID != account_id in ExecOrder's SELECTs: however stale the rows a
\* worker fills, no execution has one account on both sides, and the orders
\* it names belong to the accounts it names, those alone in their second.
NoSelfTrade ==
  \A i \in DOMAIN exec :
    /\ exec[i].buyer # exec[i].seller
    /\ \A o \in placed : AloneInSecond(o) =>
         /\ o.id = exec[i].buy => o.acct = exec[i].buyer
         /\ o.id = exec[i].sell => o.acct = exec[i].seller

\* "seller's limit price <= execution price <= buyer's limit price", the first
\* comment of ExecOrder, for the orders the execution's ids name, if these are
\* alone in their second.
ExecWithinLimits ==
  \A i \in DOMAIN exec : \A o \in placed : AloneInSecond(o) =>
    /\ o.id = exec[i].buy => /\ o.amount > 0
                             /\ exec[i].price <= o.price
                             /\ o.sym = exec[i].sym
    /\ o.id = exec[i].sell => /\ o.amount < 0
                              /\ exec[i].price >= o.price
                              /\ o.sym = exec[i].sym

\* Two orders that could trade with each other.
Crosses(buy, sell) ==
  /\ buy.amount > 0 /\ sell.amount < 0
  /\ buy.sym = sell.sym /\ buy.acct # sell.acct
  /\ buy.price >= sell.price

AtRest == \A w \in Workers : At(w, "idle")

\* Each order is matched after its own commit, against rows selected after it:
\* when no request is in progress, no two resting orders could still trade,
\* although fills overwrite amounts and delete rows without looking again.
UncrossedAtRest == AtRest => \A b, s \in openOrder : ~Crosses(b, s)

\* The id an <opened> answer carries is -1 or an order of the client's own,
\* with the terms it asked for.
OpenedNamesOwnOrder ==
  \A i \in DOMAIN replies :
    LET r == replies[i].req
    IN replies[i].ok /\ r.op = "order" /\ replies[i].val # NoId =>
         \E o \in placed : /\ o.id = replies[i].val
                           /\ o.acct = r.acct /\ o.sym = r.sym
                           /\ o.amount = r.amount /\ o.price = r.limit

\* Cancel::execute's checks read four tables one after the other, and in the
\* middle of a cancellation they find an order in none of them: still nobody
\* cancels another account's order.
CancelledByOwner ==
  \A i \in DOMAIN replies :
    LET r == replies[i].req
    IN replies[i].ok /\ r.op = "cancel" =>
         \E o \in placed : o.id = r.id /\ o.acct = r.acct

\* "The trans_id doesn't exist!" (Query::execute) is not said of an order whose
\* "opened" answer was given before.
OpenedNeverUnknown ==
  \A i, j \in DOMAIN replies :
    i < j /\ replies[i].ok /\ replies[i].req.op = "order" /\ replies[j].at = "trans" =>
      replies[i].val # replies[j].req.id

\* An order that was filled or cancelled never comes back into the book: the
\* absolute UPDATEs of a stale fill find no row to revive.
ClosedStaysClosed ==
  [][\A o \in placed : (\E p \in openOrder' : p.id = o.id) => \E p \in openOrder : p.id = o.id]_vars

\* Every queued request is served, whatever transactions the database aborts.
AllServed == <>[](todo = << >> /\ AtRest)
=============================================================================
