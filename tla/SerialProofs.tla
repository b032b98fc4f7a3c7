---------------------------- MODULE SerialProofs ----------------------------
(***************************************************************************)
(* What holds of one worker: every share is counted once, executions take  *)
(* the older order's price and keep to price-time priority, no money is    *)
(* created, no account is overdrawn, and each transaction is a step of the *)
(* abstract ledger.  All of it rests on SerialInvariant: what the worker   *)
(* has read of the book is still there when it writes.                     *)
(***************************************************************************)
EXTENDS SerialInv, AccountProofs

SInv == SharesInv /\ SerialInvariant

-----------------------------------------------------------------------------
(* Nothing is stale. *)

\* Which step takes a worker to the places the invariant speaks of.
LEMMA SerialPlaces ==
  ASSUME Inv, MayAbort = FALSE, NEW w \in Workers, Receive(w) \/ Step(w)
  PROVE  /\ task'[w].pc = "insert" => BeginOrder(w)
         /\ task'[w].pc = "lookup" => CommitOrder(w)
         /\ task'[w].pc = "select" => LookupId(w)
         /\ task'[w].pc = "lock" => SelectRows(w)
         /\ task'[w].pc = "match" => LockRows(w) \/ Match(w)
         /\ task'[w].pc = "cancel" => ReadOrder(w)
<1> DEFINE r == task[w].req
           u == task'[w]
           Elsewhere == u.pc \notin {"insert", "lookup", "select", "lock", "match", "cancel"}
<1>1. task \in [Workers -> Task] /\ task[w] \in Task
  BY DEF Inv, TypeOK, TasksOK
<1>2. ASSUME NEW ok, NEW val, NEW report, Reply(w, ok, val, report)
      PROVE  Elsewhere
  BY <1>2, ReplyTask DEF Inv
<1>3. ASSUME NEW pc, Goto(w, pc) \/ Enter(w, pc)
      PROVE  u.pc = pc
  BY <1>1, <1>3 DEF Goto, Enter, Task
<1>4. CASE Receive(w)
  <2>1. task' = [task EXCEPT ![w] = Run(Head(todo))] /\ Head(todo) \in Seq(SubRequest)
    BY <1>4 DEF Receive, Inv, TypeOK, Request
  <2>2. QED BY <1>1, <2>1, RunType
<1>5. CASE CheckAccount(w)
  <2>1. Reject(w) \/ Goto(w, AfterAccount(r))
    BY <1>5 DEF CheckAccount
  <2>2. QED BY <1>2, <1>3, <2>1 DEF Reject, AfterAccount
<1>6. CASE CreateStep(w) \/ ReplyOpened(w) \/ AbandonCancel(w) \/ ReadExecuted(w)
  BY <1>2, <1>6 DEF CreateStep, CreateAccount, CreatePosition, AbandonPosition, ReplyOpened,
     AbandonCancel, ReadExecuted
<1>7. CASE QueryStep(w)
  <2>1. CASE Look(w)
    BY <1>1, <2>1 DEF Look, Task
  <2>2. CASE CheckTransID(w) \/ CheckBelong(w)
    <3>1. Reject(w) \/ \E pc \in {"belong", "status", "open"} : Enter(w, pc)
      BY <2>2 DEF CheckTransID, CheckBelong
    <3>2. QED BY <1>2, <1>3, <3>1 DEF Reject
  <2>3. CASE QueryOrder(w)
    <3>1. CASE task[w].look < 3
      BY <1>1, <2>3, <3>1 DEF QueryOrder, At, Task
    <3>2. CASE ~(task[w].look < 3)
      BY <1>2, <2>3, <3>2 DEF QueryOrder
    <3>3. QED BY <3>1, <3>2
  <2>4. QED BY <1>7, <2>1, <2>2, <2>3 DEF QueryStep
<1>8. CASE CheckIfOpen(w) \/ CommitCancel(w) \/ CheckFunds(w)
  <2>1. Reject(w) \/ \E pc \in {"read", "executed", "begin"} : Goto(w, pc)
    BY <1>8 DEF CheckIfOpen, CommitCancel, CheckFunds
  <2>2. QED BY <1>2, <1>3, <2>1 DEF Reject
<1>9. CASE BeginOrder(w)
  BY <1>1, <1>9 DEF BeginOrder, Task
<1>10. CASE CommitOrder(w)
  <2>1. Goto(w, "lookup")
    BY <1>10 DEF CommitOrder
  <2>2. QED BY <1>3, <1>10, <2>1
<1>11. CASE LookupId(w)
  <2>1. u.pc \in {"select", "done"}
    BY <1>1, <1>11 DEF LookupId, AfterInsert, Task
  <2>2. QED BY <1>11, <2>1
<1>12. CASE SelectRows(w)
  BY <1>1, <1>12 DEF SelectRows, Task
<1>13. CASE LockRows(w)
  BY <1>1, <1>13 DEF LockRows, Task
<1>14. CASE Match(w)
  <2>1. PICK o \in task[w].rows : task' = [task EXCEPT ![w] = AfterFill(w, o)]
    BY <1>14 DEF Match, Leading, NextRow
  <2>2. AfterFill(w, o).pc \in {"match", "done"}
    BY <1>1 DEF AfterFill, Task
  <2>3. QED BY <1>1, <1>14, <2>1, <2>2
<1>15. CASE ReadOrder(w)
  BY <1>1, <1>15 DEF ReadOrder, Task
<1>16. ~AbandonOrder(w) /\ ~AbandonSelect(w) /\ ~AbandonMatch(w)
  BY DEF AbandonOrder, AbandonSelect, AbandonMatch
<1>17. QED BY <1>4, <1>5, <1>6, <1>7, <1>8, <1>9, <1>10, <1>11, <1>12, <1>13, <1>14, <1>15, <1>16
           DEF Step, OrderStep, CancelStep

\* Only BeginOrder looks at the clock.
LEMMA ClockStep ==
  ASSUME Inv, NEW w \in Workers, Receive(w) \/ Step(w)
  PROVE  clock \in Nat /\ clock' \in Nat /\ clock <= clock'
<1>1. clock \in Nat
  BY DEF Inv, TypeOK
<1>2. CASE BeginOrder(w)
  BY <1>1, <1>2 DEF BeginOrder
<1>3. CASE clock' = clock
  BY <1>1, <1>3
<1>4. BeginOrder(w) \/ clock' = clock
  <2>1. CASE Receive(w) \/ CheckAccount(w) \/ CreateStep(w)
    BY <2>1 DEF Receive, CheckAccount, CreateStep, CreateAccount, CreatePosition, AbandonPosition
  <2>2. CASE OrderStep(w)
    BY <2>2 DEF OrderStep, CheckFunds, CommitOrder, AbandonOrder, LookupId, SelectRows, LockRows,
       AbandonSelect, Match, AbandonMatch, ReplyOpened
  <2>3. CASE QueryStep(w) \/ CancelStep(w)
    BY <2>3 DEF QueryStep, Look, CheckTransID, CheckBelong, QueryOrder, CancelStep, CheckIfOpen,
       ReadOrder, CommitCancel, AbandonCancel, ReadExecuted
  <2>4. QED BY <2>1, <2>2, <2>3 DEF Step
<1>5. QED BY <1>2, <1>3, <1>4

\* The ids and seconds are whole numbers.
LEMMA OrderNumbers ==
  ASSUME Inv
  PROVE  /\ nextId \in Int /\ clock \in Int
         /\ \A o \in placed \cup openOrder :
              /\ o.id \in Int /\ o.time \in Int /\ o.amount \in Int /\ o.price \in Int
              /\ o.acct \in Accounts /\ o.sym \in Syms
         /\ \A o \in placed : o.id < nextId
         /\ \A w \in Workers : task[w].curr \in Int /\ task[w].tid \in Int /\ task[w].left \in Int
  BY DEF Inv, TypeOK, TablesOK, TasksOK, Task, Order, OrderInvariant, PlacedInv

\* A second later than all before it.
LEMMA TimesStep ==
  ASSUME SInv, NEW w \in Workers, Receive(w) \/ Step(w)
  PROVE  OrdersTimed'
<1>1. /\ clock \in Nat /\ clock' \in Nat /\ clock <= clock'
      /\ nextId \in Int /\ \A o \in placed : o.id \in Int /\ o.id < nextId /\ o.time \in Int
  BY ClockStep, OrderNumbers DEF SInv, SharesInv
<1>2. /\ \A o, p \in placed : o.id < p.id => o.time < p.time
      /\ \A o \in placed : o.time <= clock
  BY DEF SInv, SerialInvariant, OrdersTimed
<1>3. CASE placed' = placed
  BY <1>1, <1>2, <1>3 DEF OrdersTimed
<1>4. CASE CommitOrder(w)
  <2> DEFINE o == [id |-> nextId, acct |-> task[w].req.acct, sym |-> task[w].req.sym,
                   amount |-> task[w].req.amount, price |-> task[w].req.limit,
                   time |-> task[w].curr]
  <2>1. placed' = placed \cup {o} /\ o.id = nextId /\ o.time = task[w].curr /\ clock' = clock
    BY <1>4 DEF CommitOrder
  <2> HIDE DEF o
  <2>2. /\ task[w].curr \in Nat /\ task[w].curr <= clock
        /\ \A p \in placed : p.time < task[w].curr
    BY <1>4 DEF CommitOrder, At, SInv, SharesInv, Inv, TypeOK, TasksOK, Task, SerialInvariant,
       SerialTask
  <2>3. QED BY <1>1, <1>2, <2>1, <2>2 DEF OrdersTimed
<1>5. QED BY <1>3, <1>4, PlacedStep DEF SInv, SharesInv

\* Its own row, when the worker looks for its id.
LEMMA OwnPlaced ==
  ASSUME Inv, NEW w \in Workers, NEW n, OwnOpen(task[w], n), NEW q \in openOrder,
         q.time = task[w].curr
  PROVE  q.id = nextId - 1
<1>1. PICK o \in openOrder : o.id = nextId - 1 /\ o.time = task[w].curr
  BY DEF OwnOpen
<1>2. PICK p \in placed : RemainderOf(o, p)
  BY DEF Inv, OrderInvariant, BookInv
<1>3. RemainderOf(q, p)
  BY <1>1, <1>2, OneOrder DEF RemainderOf
<1>4. QED BY <1>1, <1>2, <1>3 DEF RemainderOf

-----------------------------------------------------------------------------
(* One fill, exactly. *)

\* The row that is left of order o when n shares are still to be filled.
LeftOf(o, n) == IF n = 0 THEN {} ELSE {[o EXCEPT !.amount = n]}

\* When the rows are as they were read, a fill takes the same number of shares
\* off both orders and touches no other row.
LEMMA SettleExact ==
  ASSUME NEW orders \in SUBSET Order, \A o, p \in orders : o.id = p.id => o = p,
         NEW b \in orders, NEW s \in orders, b.amount > 0, s.amount < 0,
         NEW n, n = FillAmount(b.amount, s.amount) \/ n = FillAmount(s.amount, b.amount)
  PROVE  /\ n \in Int /\ n > 0 /\ n <= b.amount /\ n <= -s.amount
         /\ n = b.amount \/ n = -s.amount
         /\ Settle(orders, s.id, b.id, b.amount + s.amount) =
              (orders \ {b, s}) \cup LeftOf(b, b.amount - n) \cup LeftOf(s, s.amount + n)
<1>1. /\ b.amount \in Int /\ s.amount \in Int /\ b # s /\ b.id # s.id
      /\ \A o \in orders : (o.id = b.id <=> o = b) /\ (o.id = s.id <=> o = s)
  BY DEF Order
<1>2. /\ n \in Int /\ n > 0 /\ n <= b.amount /\ n <= -s.amount
      /\ n = b.amount \/ n = -s.amount
  BY <1>1 DEF FillAmount, Abs
<1>3. CASE b.amount + s.amount < 0
  <2>1. n = b.amount /\ b.amount - n = 0 /\ s.amount + n # 0 /\ s.amount + n = b.amount + s.amount
    BY <1>1, <1>2, <1>3
  <2>2. Settle(orders, s.id, b.id, b.amount + s.amount) =
          Without(SetAmount(orders, s.id, b.amount + s.amount), b.id)
    BY <1>3 DEF Settle
  <2>3. SetAmount(orders, s.id, b.amount + s.amount) =
          (orders \ {s}) \cup {[s EXCEPT !.amount = b.amount + s.amount]}
    BY <1>1 DEF SetAmount
  <2>4. [s EXCEPT !.amount = b.amount + s.amount].id = s.id
    BY DEF Order
  <2>5. Without((orders \ {s}) \cup {[s EXCEPT !.amount = b.amount + s.amount]}, b.id) =
          (orders \ {b, s}) \cup {[s EXCEPT !.amount = b.amount + s.amount]}
    BY <1>1, <2>4 DEF Without
  <2>6. LeftOf(b, b.amount - n) = {} /\
        LeftOf(s, s.amount + n) = {[s EXCEPT !.amount = b.amount + s.amount]}
    BY <2>1 DEF LeftOf
  <2>7. QED BY <1>2, <2>2, <2>3, <2>5, <2>6
<1>4. CASE b.amount + s.amount > 0
  <2>1. /\ n = -s.amount /\ s.amount + n = 0 /\ b.amount - n # 0
        /\ b.amount - n = b.amount + s.amount
    BY <1>1, <1>2, <1>4
  <2>2. Settle(orders, s.id, b.id, b.amount + s.amount) =
          SetAmount(Without(orders, s.id), b.id, b.amount + s.amount)
    BY <1>1, <1>4 DEF Settle
  <2>3. Without(orders, s.id) = orders \ {s}
    BY <1>1 DEF Without
  <2>4. SetAmount(orders \ {s}, b.id, b.amount + s.amount) =
          (orders \ {b, s}) \cup {[b EXCEPT !.amount = b.amount + s.amount]}
    BY <1>1 DEF SetAmount
  <2>5. LeftOf(s, s.amount + n) = {} /\
        LeftOf(b, b.amount - n) = {[b EXCEPT !.amount = b.amount + s.amount]}
    BY <2>1 DEF LeftOf
  <2>6. QED BY <1>2, <2>2, <2>3, <2>4, <2>5
<1>5. CASE b.amount + s.amount = 0
  <2>1. b.amount - n = 0 /\ s.amount + n = 0
    BY <1>1, <1>2, <1>5
  <2>2. Settle(orders, s.id, b.id, b.amount + s.amount) = Without(Without(orders, s.id), b.id)
    BY <1>5 DEF Settle
  <2>3. Without(Without(orders, s.id), b.id) = orders \ {b, s}
    BY <1>1 DEF Without
  <2>4. LeftOf(b, b.amount - n) = {} /\ LeftOf(s, s.amount + n) = {}
    BY <2>1 DEF LeftOf
  <2>5. QED BY <1>2, <2>2, <2>3, <2>4
<1>6. QED BY <1>1, <1>3, <1>4, <1>5

\* The worker matches its own order, the newest, with a row that is in the book.
LEMMA SerialMatch ==
  ASSUME SInv, NEW w \in Workers, Match(w)
  PROVE  \E m, o \in openOrder :
           /\ m.id = nextId - 1 /\ m.id = task[w].tid /\ m.time = task[w].curr
           /\ m.amount = task[w].left /\ m.acct = task[w].req.acct
           /\ m.sym = task[w].req.sym /\ m.price = task[w].req.limit
           /\ task[w].rows = {q \in openOrder : Eligible(q, task[w].req)}
           /\ o \in Leading(task[w].rows) /\ Eligible(o, task[w].req)
           /\ o.id < m.id
           /\ exec' = Append(exec, Trade(w, o))
           /\ openOrder' = BookAfter(w, Trade(w, o), o)
           /\ account' = Pay(Pay(account, Trade(w, o).buyer, Refund(task[w].req, o.price)),
                             Trade(w, o).seller, Trade(w, o).price * Trade(w, o).amount)
           /\ position' = Deliver(position, <<Trade(w, o).buyer, Trade(w, o).sym>>,
                                  Trade(w, o).amount)
           /\ task' = [task EXCEPT ![w] = AfterFill(w, o)]
<1>1. /\ OwnOpen(task[w], task[w].left) /\ task[w].tid = nextId - 1
      /\ task[w].rows = {q \in openOrder : Eligible(q, task[w].req)}
  BY DEF SInv, SerialInvariant, SerialTask, Match, At
<1>2. PICK m \in openOrder : /\ m.id = nextId - 1 /\ m.time = task[w].curr
                             /\ m.amount = task[w].left /\ m.acct = task[w].req.acct
                             /\ m.sym = task[w].req.sym /\ m.price = task[w].req.limit
  BY <1>1 DEF OwnOpen
<1>3. PICK o \in Leading(task[w].rows) :
        /\ exec' = Append(exec, Trade(w, o))
        /\ openOrder' = BookAfter(w, Trade(w, o), o)
        /\ account' = Pay(Pay(account, Trade(w, o).buyer, Refund(task[w].req, o.price)),
                          Trade(w, o).seller, Trade(w, o).price * Trade(w, o).amount)
        /\ position' = Deliver(position, <<Trade(w, o).buyer, Trade(w, o).sym>>,
                               Trade(w, o).amount)
        /\ task' = [task EXCEPT ![w] = AfterFill(w, o)]
  BY DEF Match, NextRow
<1>4. o \in openOrder /\ Eligible(o, task[w].req)
  BY <1>1 DEF Leading
<1>5. o.id < m.id
  <2>1. /\ o.id \in Int /\ o.id < nextId /\ nextId \in Int
    <3>1. Step(w)
      BY DEF Step, OrderStep
    <3>2. QED BY <1>4, <3>1, NewIds DEF SInv
  <2>2. o.acct # m.acct
    BY <1>2, <1>4 DEF Eligible
  <2>3. o.id = m.id => o = m
    BY <1>4 DEF SInv, SharesInv, SharesInvariant, OneRow
  <2>4. QED BY <1>2, <2>1, <2>2, <2>3
<1>6. QED BY <1>1, <1>2, <1>3, <1>4, <1>5

\* What a fill does to orders b and s, for n shares at a price.
TradeOf(b, s, n, price, refund) ==
  /\ b \in openOrder /\ s \in openOrder /\ b.amount > 0 /\ s.amount < 0
  /\ b.sym = s.sym /\ b.acct # s.acct /\ b.id # s.id
  /\ s.price <= price /\ price <= b.price
  /\ price = IF b.id < s.id THEN b.price ELSE s.price
  /\ 0 <= refund /\ refund <= b.price - price
  /\ 0 < n /\ n <= b.amount /\ n <= -s.amount /\ (n = b.amount \/ n = -s.amount)
  /\ exec' = Append(exec, [buyer |-> b.acct, seller |-> s.acct, buy |-> b.id, sell |-> s.id,
                           sym |-> b.sym, amount |-> n, price |-> price])
  /\ openOrder' = (openOrder \ {b, s}) \cup LeftOf(b, b.amount - n) \cup LeftOf(s, s.amount + n)
  /\ account' = Pay(Pay(account, b.acct, refund), s.acct, price * n)
  /\ position' = Deliver(position, <<b.acct, b.sym>>, n)

LEMMA SerialTrade ==
  ASSUME SInv, NEW w \in Workers, Match(w)
  PROVE  \E b, s \in openOrder : \E n, price, refund \in Int :
           /\ TradeOf(b, s, n, price, refund)
           /\ task[w].req.amount < 0 => s.id = nextId - 1
           /\ task[w].req.amount > 0 => b.id = nextId - 1
<1> DEFINE r == task[w].req
<1>1. PICK m, o \in openOrder :
        /\ m.id = nextId - 1 /\ m.id = task[w].tid
        /\ m.amount = task[w].left /\ m.acct = r.acct
        /\ m.sym = r.sym /\ m.price = r.limit
        /\ o \in Leading(task[w].rows) /\ Eligible(o, r)
        /\ o.id < m.id
        /\ exec' = Append(exec, Trade(w, o))
        /\ openOrder' = BookAfter(w, Trade(w, o), o)
        /\ account' = Pay(Pay(account, Trade(w, o).buyer, Refund(r, o.price)),
                          Trade(w, o).seller, Trade(w, o).price * Trade(w, o).amount)
        /\ position' = Deliver(position, <<Trade(w, o).buyer, Trade(w, o).sym>>,
                               Trade(w, o).amount)
  BY SerialMatch
<1>2. /\ openOrder \in SUBSET Order /\ \A p, q \in openOrder : p.id = q.id => p = q
      /\ m.amount \in Int /\ o.amount \in Int /\ m.price \in Int /\ o.price \in Int
      /\ m.id \in Int /\ o.id \in Int
  BY <1>1, OrderNumbers DEF SInv, SharesInv, SharesInvariant, OneRow, Inv, TypeOK, TablesOK
<1>3. /\ r \in OrderReq /\ r.amount \in Int /\ r.limit \in Int
      /\ \/ r.amount < 0 /\ task[w].left < 0
         \/ r.amount > 0 /\ task[w].left > 0
  <2>1. o \in task[w].rows /\ At(w, "match")
    BY <1>1 DEF Leading, Match
  <2>2. QED BY <2>1, MatchFacts DEF SInv, SharesInv, OrderReq
<1>4. CASE r.amount < 0
  <2>1. PICK n : n = FillAmount(m.amount, o.amount)
    OBVIOUS
  <2>2. /\ o.amount > 0 /\ m.amount < 0 /\ o.price >= m.price /\ o.sym = m.sym
        /\ o.acct # m.acct
    BY <1>1, <1>3, <1>4 DEF Eligible
  <2>3. /\ n \in Int /\ n > 0 /\ n <= o.amount /\ n <= -m.amount
        /\ n = o.amount \/ n = -m.amount
        /\ Settle(openOrder, m.id, o.id, o.amount + m.amount) =
             (openOrder \ {o, m}) \cup LeftOf(o, o.amount - n) \cup LeftOf(m, m.amount + n)
    <3>1. n = FillAmount(o.amount, m.amount) \/ n = FillAmount(m.amount, o.amount)
      BY <2>1
    <3>2. QED BY ONLY <1>2, <2>2, <3>1, m \in openOrder, o \in openOrder, SettleExact
  <2>4. Trade(w, o) = [buyer |-> o.acct, seller |-> m.acct, buy |-> o.id, sell |-> m.id,
                       sym |-> o.sym, amount |-> n, price |-> o.price]
    BY <1>1, <1>4, <2>1, <2>2 DEF Trade
  <2>5. Refund(r, o.price) = 0
    BY <1>3, <1>4 DEF Refund
  <2>6. BookAfter(w, Trade(w, o), o) = Settle(openOrder, m.id, o.id, o.amount + m.amount)
    <3>1. task[w].left + o.amount = o.amount + m.amount
      BY <1>1, <1>2
    <3>2. QED BY <2>4, <3>1 DEF BookAfter
  <2>7. TradeOf(o, m, n, o.price, 0)
    <3>1. /\ o.amount > 0 /\ m.amount < 0 /\ o.sym = m.sym /\ o.acct # m.acct /\ o.id # m.id
          /\ m.price <= o.price /\ o.price <= o.price /\ 0 <= 0 /\ 0 <= o.price - o.price
          /\ o.price = IF o.id < m.id THEN o.price ELSE m.price
      BY <1>1, <1>2, <2>2
    <3>2. openOrder' = (openOrder \ {o, m}) \cup LeftOf(o, o.amount - n) \cup LeftOf(m, m.amount + n)
      BY <1>1, <2>3, <2>6, Zenon
    <3>3. /\ Trade(w, o).buyer = o.acct /\ Trade(w, o).seller = m.acct /\ Trade(w, o).sym = o.sym
          /\ Trade(w, o).amount = n /\ Trade(w, o).price = o.price
      BY <2>4
    <3>4. /\ exec' = Append(exec, [buyer |-> o.acct, seller |-> m.acct, buy |-> o.id, sell |-> m.id,
                                   sym |-> o.sym, amount |-> n, price |-> o.price])
          /\ account' = Pay(Pay(account, o.acct, 0), m.acct, o.price * n)
          /\ position' = Deliver(position, <<o.acct, o.sym>>, n)
      BY <1>1, <2>4, <2>5, <3>3, Zenon
    <3>5. QED BY <1>1, <2>3, <3>1, <3>2, <3>4, Zenon DEF TradeOf
  <2>8. QED BY <1>1, <1>2, <1>3, <1>4, <2>3, <2>7
<1>5. CASE r.amount > 0
  <2>1. PICK n : n = FillAmount(m.amount, o.amount)
    OBVIOUS
  <2>2. /\ m.amount > 0 /\ o.amount < 0 /\ o.price <= m.price /\ o.sym = m.sym
        /\ o.acct # m.acct /\ ~(r.amount < 0)
    BY <1>1, <1>3, <1>5 DEF Eligible
  <2>3. /\ n \in Int /\ n > 0 /\ n <= m.amount /\ n <= -o.amount
        /\ n = m.amount \/ n = -o.amount
        /\ Settle(openOrder, o.id, m.id, m.amount + o.amount) =
             (openOrder \ {m, o}) \cup LeftOf(m, m.amount - n) \cup LeftOf(o, o.amount + n)
    BY ONLY <1>2, <2>1, <2>2, m \in openOrder, o \in openOrder, SettleExact
  <2>4. Trade(w, o) = [buyer |-> m.acct, seller |-> o.acct, buy |-> m.id, sell |-> o.id,
                       sym |-> m.sym, amount |-> n, price |-> o.price]
    BY <1>1, <2>1, <2>2 DEF Trade
  <2>5. PICK refund : refund = Refund(r, o.price)
    OBVIOUS
  <2>6. refund \in Int /\ 0 <= refund /\ refund <= m.price - o.price
    BY <1>1, <1>2, <2>2, <2>5 DEF Refund
  <2>7. BookAfter(w, Trade(w, o), o) = Settle(openOrder, o.id, m.id, m.amount + o.amount)
    BY <1>1, <2>4 DEF BookAfter
  <2>8. TradeOf(m, o, n, o.price, refund)
    <3>1. o.price = IF m.id < o.id THEN m.price ELSE o.price
      BY <1>1, <1>2
    <3>2. account' = Pay(Pay(account, m.acct, refund), o.acct, o.price * n)
      BY <1>1, <2>4, <2>5
    <3>3. position' = Deliver(position, <<m.acct, m.sym>>, n)
      BY <1>1, <2>4
    <3>4. openOrder' =
            (openOrder \ {m, o}) \cup LeftOf(m, m.amount - n) \cup LeftOf(o, o.amount + n)
      BY <1>1, <2>3, <2>7
    <3>5. m.id # o.id
      BY <1>1, <1>2
    <3>6. exec' = Append(exec, [buyer |-> m.acct, seller |-> o.acct, buy |-> m.id,
                                sell |-> o.id, sym |-> m.sym, amount |-> n, price |-> o.price])
      BY <1>1, <2>4
    <3>7. m.sym = o.sym /\ m.acct # o.acct /\ o.price <= o.price
      BY <1>2, <2>2
    <3>8. 0 < n /\ 0 <= refund /\ refund <= m.price - o.price
      BY <2>3, <2>6
    <3>9. QED BY ONLY m \in openOrder, o \in openOrder, <2>2, <2>3, <3>1, <3>2, <3>3, <3>4,
                      <3>5, <3>6, <3>7, <3>8, Zenon DEF TradeOf
  <2>9. QED BY <1>1, <1>2, <1>3, <1>5, <2>3, <2>6, <2>8
<1>6. QED BY <1>3, <1>4, <1>5

-----------------------------------------------------------------------------
(* SerialInvariant, place by place. *)

\* An order is stamped later than all that are stored.
LEMMA StampedLast ==
  ASSUME SInv, SameSecond = FALSE, NEW w \in Workers, BeginOrder(w), NEW u, u = task'[w]
  PROVE  (u.curr <= clock /\ \A o \in placed : o.time < u.curr)'
<1>1. PICK t \in {clock, clock + 1} :
        /\ t \notin Stamps /\ clock' = t
        /\ task' = [task EXCEPT ![w] = [task[w] EXCEPT !.curr = t, !.pc = "insert"]]
  BY DEF BeginOrder
<1>2. u.curr = t /\ placed' = placed
  BY <1>1 DEF BeginOrder, tables, SInv, SharesInv, Inv, TypeOK, TasksOK, Task
<1>3. /\ clock \in Int /\ t \in Int /\ \A o \in placed : o.time \in Int /\ o.time <= clock
      /\ \A o \in placed : o.time # t
  BY <1>1, OrderNumbers DEF SInv, SharesInv, SerialInvariant, OrdersTimed, Stamps
<1>4. QED BY <1>1, <1>2, <1>3

\* CommitOrder leaves the worker's order in the book, the newest of all.
LEMMA StoredLast ==
  ASSUME SInv, NEW w \in Workers, CommitOrder(w), NEW u, u = task'[w]
  PROVE  OwnOpen(u, u.req.amount)'
<1> DEFINE o == [id |-> nextId, acct |-> task[w].req.acct, sym |-> task[w].req.sym,
                 amount |-> task[w].req.amount, price |-> task[w].req.limit,
                 time |-> task[w].curr]
<1>1. /\ openOrder' = openOrder \cup {o} /\ nextId' = nextId + 1
      /\ task' = [task EXCEPT ![w] = [task[w] EXCEPT !.pc = "lookup"]]
  BY DEF CommitOrder, Goto
<1>2. u.curr = task[w].curr /\ u.req = task[w].req
  BY <1>1 DEF SInv, SharesInv, Inv, TypeOK, TasksOK, Task
<1>3. nextId \in Int
  BY OrderNumbers DEF SInv, SharesInv
<1>4. /\ o.id = nextId' - 1 /\ o.time = u.curr /\ o.amount = u.req.amount
      /\ o.acct = u.req.acct /\ o.sym = u.req.sym /\ o.price = u.req.limit
  BY <1>1, <1>2, <1>3
<1> HIDE DEF o
<1>5. o \in openOrder'
  BY <1>1
<1>6. QED BY <1>4, <1>5 DEF OwnOpen

\* The id it then finds is its own.
LEMMA FoundOwn ==
  ASSUME SInv, NEW w \in Workers, LookupId(w), NEW u, u = task'[w]
  PROVE  /\ OwnOpen(u, u.req.amount)' /\ (u.tid = nextId - 1)'
         /\ u.pc \in {"select", "done"}
<1>1. OwnOpen(task[w], task[w].req.amount) /\ UNCHANGED <<openOrder, nextId>>
  BY DEF SInv, SerialInvariant, SerialTask, LookupId, At, tables
<1>2. \A q \in openOrder : q.time = task[w].curr => q.id = nextId - 1
  BY <1>1, OwnPlaced DEF SInv, SharesInv
<1>3. \E q \in openOrder : q.time = task[w].curr
  BY <1>1 DEF OwnOpen
<1>4. PICK i : /\ task' = [task EXCEPT ![w] = [task[w] EXCEPT !.tid = i,
                                                  !.pc = AfterInsert(task[w].req)]]
               /\ i \in {o.id : o \in {q \in openOrder : q.time = task[w].curr}}
  <2>1. PICK ids : ids = {o.id : o \in {q \in openOrder : q.time = task[w].curr}}
    OBVIOUS
  <2>2. \E i \in IF ids = {} THEN {NoId} ELSE ids :
          task' = [task EXCEPT ![w] = [task[w] EXCEPT !.tid = i, !.pc = AfterInsert(task[w].req)]]
    BY <2>1, Zenon DEF LookupId
  <2>3. ids # {}
    BY <1>3, <2>1
  <2>4. QED BY <2>1, <2>2, <2>3, Zenon
<1>5. u = [task[w] EXCEPT !.tid = i, !.pc = AfterInsert(task[w].req)] /\ task[w] \in Task
  BY <1>4 DEF SInv, SharesInv, Inv, TypeOK, TasksOK
<1>6. u.tid = i /\ u.req = task[w].req /\ u.curr = task[w].curr /\ u.pc \in {"select", "done"}
  BY <1>5 DEF Task, AfterInsert
<1>7. i = nextId - 1
  BY <1>2, <1>4
<1>8. OwnOpen(u, u.req.amount)'
  BY <1>1, <1>6 DEF OwnOpen
<1>9. QED BY <1>1, <1>6, <1>7, <1>8

\* The rows it selects and locks are those that are in the book.
LEMMA RowsCurrent ==
  ASSUME SInv, NEW w \in Workers, SelectRows(w) \/ LockRows(w), NEW u, u = task'[w]
  PROVE  /\ OwnOpen(u, u.left)' /\ (u.tid = nextId - 1)'
         /\ (u.rows = {o \in openOrder : Eligible(o, u.req)})'
<1>1. task[w] \in Task /\ UNCHANGED <<openOrder, nextId>>
  BY DEF SInv, SharesInv, Inv, TypeOK, TasksOK, SelectRows, LockRows, tables
<1>2. CASE SelectRows(w)
  <2>1. OwnOpen(task[w], task[w].req.amount) /\ task[w].tid = nextId - 1
    BY <1>2 DEF SInv, SerialInvariant, SerialTask, SelectRows, At
  <2>2. u = [task[w] EXCEPT !.rows = {o \in openOrder : Eligible(o, task[w].req)},
                            !.left = task[w].req.amount, !.pc = "lock"]
    BY <1>2 DEF SelectRows, SInv, SharesInv, Inv, TypeOK, TasksOK
  <2>3. /\ u.rows = {o \in openOrder : Eligible(o, u.req)} /\ u.req = task[w].req
        /\ u.left = task[w].req.amount /\ u.tid = task[w].tid /\ u.curr = task[w].curr
    BY <1>1, <2>2 DEF Task
  <2>4. OwnOpen(u, u.left)'
    BY <1>1, <2>1, <2>3 DEF OwnOpen
  <2>5. QED BY <1>1, <2>1, <2>3, <2>4
<1>3. CASE LockRows(w)
  <2>1. /\ OwnOpen(task[w], task[w].left) /\ task[w].tid = nextId - 1
        /\ task[w].rows = {o \in openOrder : Eligible(o, task[w].req)}
    BY <1>3 DEF SInv, SerialInvariant, SerialTask, LockRows, At
  <2>2. PICK rows : rows = {o \in openOrder : /\ o.id \in {q.id : q \in task[w].rows}
                                              /\ Eligible(o, task[w].req)}
    OBVIOUS
  <2>3. u = [task[w] EXCEPT !.rows = rows, !.pc = "match"]
    BY <1>3, <2>2 DEF LockRows, SInv, SharesInv, Inv, TypeOK, TasksOK
  <2>4. rows = {o \in openOrder : Eligible(o, task[w].req)}
    BY <2>1, <2>2
  <2>5. /\ u.rows = rows /\ u.req = task[w].req
        /\ u.left = task[w].left /\ u.tid = task[w].tid /\ u.curr = task[w].curr
    BY <1>1, <2>3 DEF Task
  <2>6. OwnOpen(u, u.left)'
    BY <1>1, <2>1, <2>5 DEF OwnOpen
  <2>7. QED BY <1>1, <2>1, <2>4, <2>5, <2>6
<1>4. QED BY <1>2, <1>3

\* While the order has shares left, a fill closes the row it is about and no other.
LEMMA FillCurrent ==
  ASSUME SInv, NEW w \in Workers, Match(w), NEW u, u = task'[w], u.pc = "match"
  PROVE  /\ OwnOpen(u, u.left)' /\ (u.tid = nextId - 1)'
         /\ (u.rows = {o \in openOrder : Eligible(o, u.req)})'
<1> DEFINE r == task[w].req
<1>1. PICK m, o \in openOrder :
        /\ m.id = nextId - 1 /\ m.id = task[w].tid /\ m.time = task[w].curr
        /\ m.amount = task[w].left /\ m.acct = r.acct /\ m.sym = r.sym /\ m.price = r.limit
        /\ task[w].rows = {q \in openOrder : Eligible(q, r)}
        /\ Eligible(o, r) /\ o.id < m.id
        /\ openOrder' = BookAfter(w, Trade(w, o), o)
        /\ task' = [task EXCEPT ![w] = AfterFill(w, o)]
  BY SerialMatch
<1>2. /\ openOrder \in SUBSET Order /\ \A p, q \in openOrder : p.id = q.id => p = q
      /\ m.amount \in Int /\ o.amount \in Int
      /\ m.id \in Int /\ o.id \in Int /\ m.id # o.id
  BY <1>1, OrderNumbers DEF SInv, SharesInv, SharesInvariant, OneRow, Inv, TypeOK, TablesOK
<1>3. /\ r.amount \in Int /\ task[w] \in Task
      /\ \/ r.amount < 0 /\ m.amount < 0
         \/ r.amount > 0 /\ m.amount > 0
  <2>1. o \in task[w].rows /\ At(w, "match")
    BY <1>1 DEF Match
  <2>2. QED BY <1>1, <2>1, MatchFacts DEF SInv, SharesInv, OrderReq
<1>4. PICK f : f = m.amount + o.amount
  OBVIOUS
<1>5. /\ u.rows = task[w].rows \ {o} /\ u.left = f /\ u.req = r /\ u.tid = task[w].tid
      /\ u.curr = task[w].curr
      /\ IF r.amount < 0 THEN f < 0 ELSE f > 0
  <2>1. PICK more : more = IF r.amount < 0 THEN f < 0 ELSE f > 0
    OBVIOUS
  <2>2. u = [task[w] EXCEPT !.rows = IF more THEN task[w].rows \ {o} ELSE {},
                            !.left = IF more THEN f ELSE task[w].left,
                            !.pc = IF more THEN "match" ELSE "done"]
    BY <1>1, <1>4, <2>1 DEF AfterFill, SInv, SharesInv, Inv, TypeOK, TasksOK
  <2>3. u.pc = IF more THEN "match" ELSE "done"
    BY <1>3, <2>2 DEF Task
  <2>4. more
    BY <2>3
  <2>5. QED BY <1>3, <2>1, <2>2, <2>4 DEF Task
<1>6. openOrder' = (openOrder \ {m, o}) \cup {[m EXCEPT !.amount = f]}
  <2>1. f \in Int
    BY <1>2, <1>4
  <2>2. CASE r.amount < 0
    <3>1. f < 0
      BY <1>5, <2>2
    <3>2. Trade(w, o).sell = m.id /\ Trade(w, o).buy = o.id
      BY <1>1, <2>2 DEF Trade
    <3>3. openOrder' = Without(SetAmount(openOrder, m.id, f), o.id)
      BY <1>1, <1>4, <3>1, <3>2 DEF BookAfter, Settle
    <3>4. SetAmount(openOrder, m.id, f) = (openOrder \ {m}) \cup {[m EXCEPT !.amount = f]}
      BY <1>2 DEF SetAmount
    <3>5. [m EXCEPT !.amount = f].id = m.id
      BY <1>2 DEF Order
    <3>6. Without((openOrder \ {m}) \cup {[m EXCEPT !.amount = f]}, o.id) =
            (openOrder \ {m, o}) \cup {[m EXCEPT !.amount = f]}
      BY <1>2, <3>5 DEF Without
    <3>7. QED BY <3>3, <3>4, <3>6
  <2>3. CASE ~(r.amount < 0)
    <3>1. f > 0 /\ ~(f < 0)
      BY <1>5, <2>1, <2>3
    <3>2. Trade(w, o).buy = m.id /\ Trade(w, o).sell = o.id
      BY <1>1, <2>3 DEF Trade
    <3>3. openOrder' = SetAmount(Without(openOrder, o.id), m.id, f)
      BY <1>1, <1>4, <3>1, <3>2 DEF BookAfter, Settle
    <3>4. Without(openOrder, o.id) = openOrder \ {o}
      BY <1>2 DEF Without
    <3>5. SetAmount(openOrder \ {o}, m.id, f) =
            (openOrder \ {m, o}) \cup {[m EXCEPT !.amount = f]}
      BY <1>2 DEF SetAmount
    <3>6. QED BY <3>3, <3>4, <3>5
  <2>4. QED BY <2>2, <2>3
<1>7. PICK n : n = [m EXCEPT !.amount = f]
  OBVIOUS
<1>8. /\ n.id = m.id /\ n.time = m.time /\ n.amount = f
      /\ n.acct = m.acct /\ n.sym = m.sym /\ n.price = m.price
  BY <1>2, <1>7 DEF Order
<1>9. OwnOpen(u, f)'
  <2>1. n \in openOrder' /\ nextId' = nextId
    BY <1>6, <1>7 DEF Match
  <2>2. QED BY <1>1, <1>5, <1>8, <2>1 DEF OwnOpen
<1>10. u.rows = {q \in openOrder' : Eligible(q, u.req)}
  <2>1. ~Eligible(n, r) /\ ~Eligible(m, r)
    BY <1>1, <1>8 DEF Eligible
  <2> HIDE DEF r
  <2>2. QED BY <1>1, <1>5, <1>6, <1>7, <2>1
<1>11. nextId' = nextId
  BY DEF Match
<1>12. QED BY <1>1, <1>5, <1>9, <1>10, <1>11

\* One step of the one worker.
LEMMA SerialTaskStep ==
  ASSUME SInv, SameSecond = FALSE, MayAbort = FALSE,
         NEW w \in Workers, Receive(w) \/ Step(w), NEW u, u = task'[w]
  PROVE  SerialTask(u)'
<1>1. /\ u.pc = "insert" => BeginOrder(w)
      /\ u.pc = "lookup" => CommitOrder(w)
      /\ u.pc = "select" => LookupId(w)
      /\ u.pc = "lock" => SelectRows(w)
      /\ u.pc = "match" => LockRows(w) \/ Match(w)
      /\ u.pc = "cancel" => ReadOrder(w)
  BY SerialPlaces DEF SInv, SharesInv
<1>2. (u.pc = "insert" => u.curr <= clock /\ \A o \in placed : o.time < u.curr)'
  BY <1>1, StampedLast
<1>3. (u.pc \in {"lookup", "select"} => OwnOpen(u, u.req.amount))'
  BY <1>1, StoredLast, FoundOwn
<1>4. (u.pc \in {"lock", "match"} => /\ OwnOpen(u, u.left)
                                     /\ u.rows = {o \in openOrder : Eligible(o, u.req)})'
  BY <1>1, RowsCurrent, FillCurrent
<1>5. (u.pc \in {"select", "lock", "match"} => u.tid = nextId - 1)'
  BY <1>1, FoundOwn, RowsCurrent, FillCurrent
<1>6. (u.pc = "cancel" => u.rows = {o \in openOrder : o.id = u.req.id})'
  <2>1. CASE ReadOrder(w)
    <3>1. PICK rows, report :
            /\ rows = {o \in openOrder : o.id = task[w].req.id}
            /\ task' = [task EXCEPT ![w] = [task[w] EXCEPT !.rows = rows, !.report = report,
                                                           !.pc = "cancel"]]
      BY <2>1 DEF ReadOrder
    <3>2. u.rows = rows /\ u.req = task[w].req /\ openOrder' = openOrder
      BY <2>1, <3>1 DEF ReadOrder, tables, SInv, SharesInv, Inv, TypeOK, TasksOK, Task
    <3>3. QED BY <3>1, <3>2
  <2>2. QED BY <1>1, <2>1
<1>7. QED BY <1>2, <1>3, <1>4, <1>5, <1>6 DEF SerialTask

LEMMA InitSerial == Init => SerialInvariant
<1> SUFFICES ASSUME Init PROVE SerialInvariant
  OBVIOUS
<1>1. placed = {} /\ \A w \in Workers : task[w].pc = "idle"
  BY DEF Init, Idle
<1>2. QED BY <1>1 DEF SerialInvariant, OrdersTimed, SerialTask

LEMMA NextSerial ==
  ASSUME SameSecond = FALSE, MayAbort = FALSE, OneWorker
  PROVE  SharesInv /\ SerialInvariant /\ [Next]_vars => SerialInvariant'
<1> SUFFICES ASSUME SInv, [Next]_vars
             PROVE  SerialInvariant'
  BY DEF SInv
<1>1. CASE UNCHANGED vars
  <2>1. UNCHANGED <<openOrder, placed, nextId, clock, task>> /\ SerialInvariant
    BY <1>1 DEF vars, tables, SInv
  <2>2. QED BY <2>1 DEF SerialInvariant, OrdersTimed, SerialTask, OwnOpen
<1>2. ASSUME NEW w \in Workers, Receive(w) \/ Step(w)
      PROVE  SerialInvariant'
  <2>1. OrdersTimed'
    BY <1>2, TimesStep
  <2>2. PICK u : u = task'[w]
    OBVIOUS
  <2>3. SerialTask(u)'
    BY <1>2, <2>2, SerialTaskStep
  <2>4. \A v \in Workers : v = w
    BY DEF OneWorker
  <2>5. \A v \in Workers : task'[v] = u
    BY <2>2, <2>4
  <2>6. (\A v \in Workers : SerialTask(task[v]))'
    BY <2>3, <2>5 DEF SerialTask, OwnOpen
  <2>7. QED BY <2>1, <2>6 DEF SerialInvariant
<1>3. QED BY <1>1, <1>2 DEF Next

LEMMA SerialHolds ==
  ASSUME SameSecond = FALSE, MayAbort = FALSE, OneWorker
  PROVE  Spec => []SInv
<1>1. Inv /\ OInv /\ SharesInvariant => SharesInv
  BY DEF SharesInv
<1>2. SharesInv /\ SerialInvariant => SInv
  BY DEF SInv
<1>3. QED BY <1>1, <1>2, Basis, SharesHold, InitSerial, NextSerial, PTL DEF Spec

-----------------------------------------------------------------------------
(* Prices and priority. *)

\* Only a fill records an execution.
LEMMA ExecStep ==
  ASSUME Inv, NEW w \in Workers, Receive(w) \/ Step(w)
  PROVE  exec' = exec \/ Match(w)
<1>1. CASE CreateStep(w)
  BY <1>1 DEF CreateStep, CreateAccount, CreatePosition, AbandonPosition, tables
<1>2. CASE CommitOrder(w) \/ CommitCancel(w) \/ UNCHANGED tables
  BY <1>2 DEF CommitOrder, CommitCancel, tables
<1>3. QED BY <1>1, <1>2, Writers

\* A row in the book has the price and the second of the order that has its id.
LEMMA PlacedTerms ==
  ASSUME Inv, NEW o \in openOrder, NEW p \in placed, p.id = o.id
  PROVE  p.price = o.price /\ p.time = o.time /\ p.acct = o.acct /\ p.sym = o.sym
<1>1. PICK q \in placed : RemainderOf(o, q)
  BY DEF Inv, OrderInvariant, BookInv
<1>2. p = q
  BY <1>1 DEF RemainderOf, Inv, OrderInvariant, PlacedInv
<1>3. QED BY <1>1, <1>2 DEF RemainderOf

LEMMA PriceStep ==
  ASSUME SInv, ExecAtOlderPrice, NEW w \in Workers, Receive(w) \/ Step(w)
  PROVE  ExecAtOlderPrice'
<1>1. TypeOK /\ exec \in Seq(Exec) /\ Inv
  BY DEF SInv, SharesInv, Inv, TypeOK, TablesOK
<1>2. \A i \in DOMAIN exec : exec[i].buy < nextId /\ exec[i].sell < nextId
  BY <1>1 DEF Inv, OrderInvariant, ExecInv
<1>3. ASSUME NEW p \in placed', NEW i \in DOMAIN exec, p.id \in {exec[i].buy, exec[i].sell}
      PROVE  p \in placed
  <2>1. p \in placed \/ p.id = nextId
    BY NewIds DEF SInv
  <2>2. nextId \in Int
    BY <1>1, OrderNumbers
  <2>3. QED BY <1>2, <1>3, <2>1, <2>2
<1>4. CASE exec' = exec
  BY <1>3, <1>4 DEF ExecAtOlderPrice
<1>5. CASE Match(w)
  <2>1. PICK b, s \in openOrder : \E n, price, refund \in Int : TradeOf(b, s, n, price, refund)
    BY <1>5, SerialTrade
  <2>2. PICK n, price, refund \in Int : TradeOf(b, s, n, price, refund)
    BY <2>1
  <2>3. PICK e : e = [buyer |-> b.acct, seller |-> s.acct, buy |-> b.id, sell |-> s.id,
                      sym |-> b.sym, amount |-> n, price |-> price]
    OBVIOUS
  <2>4. /\ exec' = Append(exec, e) /\ e.buy = b.id /\ e.sell = s.id /\ e.price = price
        /\ price = IF b.id < s.id THEN b.price ELSE s.price
        /\ b.id # s.id
    BY <2>2, <2>3 DEF TradeOf
  <2>5. placed' = placed
    BY <1>5 DEF Match
  <2>6. ASSUME NEW p \in placed, NEW q \in placed, p.id = b.id, q.id = s.id
        PROVE  price = IF p.time < q.time THEN p.price ELSE q.price
    <3>1. p.price = b.price /\ q.price = s.price
      BY <1>1, <2>6, PlacedTerms
    <3>2. /\ p.id < q.id => p.time < q.time
          /\ q.id < p.id => q.time < p.time
      BY DEF SInv, SerialInvariant, OrdersTimed
    <3>3. p.id \in Int /\ q.id \in Int /\ p.time \in Int /\ q.time \in Int
      BY <1>1, OrderNumbers
    <3>4. QED BY <2>4, <2>6, <3>1, <3>2, <3>3
  <2>7. /\ DOMAIN exec' = DOMAIN exec \cup {Len(exec) + 1}
        /\ \A i \in DOMAIN exec : exec'[i] = exec[i]
        /\ exec'[Len(exec) + 1] = e
    BY <1>1, <2>4
  <2>8. QED BY <2>4, <2>5, <2>6, <2>7 DEF ExecAtOlderPrice
<1>6. QED BY <1>1, <1>4, <1>5, ExecStep

\* "could be either seller's price or buyer's price, depends on whose order is
\* older" (ExecOrder): with one worker, for any accounts, symbols and orders, every
\* execution takes the price of the older of its two orders, if no two orders bear
\* one second (the code knows an order by its second) and no transaction is aborted
\* (a match that is rolled back is taken for a fill).
THEOREM OlderPriceTaken ==
  ASSUME SameSecond = FALSE, MayAbort = FALSE, OneWorker
  PROVE  Spec => []ExecAtOlderPrice
<1>1. Init => ExecAtOlderPrice
  BY DEF Init, ExecAtOlderPrice
<1>2. SInv /\ ExecAtOlderPrice /\ [Next]_vars => ExecAtOlderPrice'
  <2> SUFFICES ASSUME SInv, ExecAtOlderPrice, [Next]_vars
               PROVE  ExecAtOlderPrice'
    OBVIOUS
  <2>1. CASE UNCHANGED vars
    BY <2>1 DEF vars, tables, ExecAtOlderPrice
  <2>2. QED BY <2>1, PriceStep DEF Next
<1>3. QED BY <1>1, <1>2, SerialHolds, PTL DEF Spec

\* The row a fill was about is the first of those the worker could choose from.
LEMMA PriorityStep ==
  ASSUME SInv, NEW w \in Workers, Match(w)
  PROVE  LET o == Resting(exec'[Len(exec')])
             rivals == {p \in openOrder : Eligible(p, task[w].req)}
         IN \A p \in rivals : /\ task[w].req.amount < 0 => p.price <= o.price
                              /\ p.price = o.price => p.time >= o.time
<1> DEFINE r == task[w].req
<1>1. PICK m, o \in openOrder :
        /\ m.id = task[w].tid
        /\ task[w].rows = {q \in openOrder : Eligible(q, r)}
        /\ o \in Leading(task[w].rows) /\ o.id < m.id
        /\ exec' = Append(exec, Trade(w, o))
  BY SerialMatch
<1>2. /\ \A p \in openOrder : p.id \in Int /\ p.price \in Int /\ p.time \in Int
      /\ \A p, q \in openOrder : p.id = q.id => p = q
      /\ exec \in Seq(Exec)
  BY OrderNumbers DEF SInv, SharesInv, SharesInvariant, OneRow, Inv, TypeOK, TablesOK
<1>3. exec'[Len(exec')] = Trade(w, o)
  <2>1. Trade(w, o) \in Exec
    BY <1>1, TradeType DEF Match, Leading, SInv, SharesInv, Inv
  <2>2. QED BY <1>1, <1>2, <2>1
<1>4. \/ Trade(w, o).buy = o.id /\ Trade(w, o).sell = m.id
      \/ Trade(w, o).buy = m.id /\ Trade(w, o).sell = o.id
  BY <1>1 DEF Trade
<1>5. Resting(Trade(w, o)) = o
  <2>1. (IF Trade(w, o).buy < Trade(w, o).sell THEN Trade(w, o).buy ELSE Trade(w, o).sell) = o.id
    BY <1>1, <1>2, <1>4
  <2>2. Resting(Trade(w, o)) = CHOOSE q \in openOrder : q.id = o.id
    BY <2>1 DEF Resting
  <2>3. \A q \in openOrder : q.id = o.id <=> q = o
    BY <1>2
  <2>4. (CHOOSE q \in openOrder : q.id = o.id) = o
    BY <2>3
  <2>5. QED BY <2>2, <2>4
<1>6. ASSUME NEW p \in openOrder, Eligible(p, r)
      PROVE  p.price <= o.price /\ (p.price = o.price => p.time >= o.time)
  BY <1>1, <1>2, <1>6 DEF Leading, Ahead
<1>7. QED BY <1>3, <1>5, <1>6

\* With one worker, for any accounts, symbols and orders, every fill of an incoming
\* sell order is about the highest bid it may take, and of equal prices the oldest
\* order is filled first on both sides of the book.
THEOREM PriorityKept ==
  ASSUME SameSecond = FALSE, MayAbort = FALSE, OneWorker
  PROVE  Spec => Priority
<1> DEFINE First ==
      \A w \in Workers : exec' # exec /\ At(w, "match") =>
        LET o == Resting(exec'[Len(exec')])
            rivals == {p \in openOrder : Eligible(p, task[w].req)}
        IN \A p \in rivals : /\ task[w].req.amount < 0 => p.price <= o.price
                             /\ p.price = o.price => p.time >= o.time
<1>1. SInv /\ [Next]_vars => [First]_vars
  <2> SUFFICES ASSUME SInv, Next, exec' # exec, NEW w \in Workers
               PROVE  LET o == Resting(exec'[Len(exec')])
                          rivals == {p \in openOrder : Eligible(p, task[w].req)}
                      IN \A p \in rivals : /\ task[w].req.amount < 0 => p.price <= o.price
                                           /\ p.price = o.price => p.time >= o.time
    BY DEF vars, tables
  <2>1. PICK v \in Workers : Receive(v) \/ Step(v)
    BY DEF Next
  <2>2. v = w
    BY DEF OneWorker
  <2>3. Match(w)
    BY <2>1, <2>2, ExecStep DEF SInv, SharesInv
  <2>4. QED BY <2>3, PriorityStep
<1>2. QED BY <1>1, SerialHolds, PTL DEF Spec, Priority

-----------------------------------------------------------------------------
(* Every share is counted once. *)

EInv == SInv /\ ExactInvariant

LEMMA CountedMoves ==
  ASSUME NEW id, NEW n, NEW m, Counted(id, n), \A p \in placed' : p \in placed \/ p.id # id,
         Abs(n) + ExecShares(id) + CancelShares(id) = Abs(m) + ExecShares(id)' + CancelShares(id)'
  PROVE  Counted(id, m)'
BY DEF Counted

LEMMA CountedSame ==
  ASSUME exec' = exec, cancel' = cancel, NEW id, NEW n, Counted(id, n),
         \A p \in placed' : p \in placed \/ p.id # id
  PROVE  Counted(id, n)'
<1>1. ExecShares(id)' = ExecShares(id) /\ CancelShares(id)' = CancelShares(id)
  BY LogsSame
<1>2. QED BY <1>1, CountedMoves

LEMMA ExactSame ==
  ASSUME ExactInvariant, UNCHANGED <<exec, cancel, openOrder, placed>>
  PROVE  ExactInvariant'
<1>1. ASSUME NEW o \in openOrder
      PROVE  Counted(o.id, o.amount)'
  BY CountedSame DEF ExactInvariant
<1>2. ASSUME NEW p \in placed, \A o \in openOrder : o.id # p.id
      PROVE  Counted(p.id, 0)'
  BY <1>2, CountedSame DEF ExactInvariant
<1>3. QED BY <1>1, <1>2 DEF ExactInvariant

\* A new order's id is in no log yet.
LEMMA NewUncounted ==
  ASSUME OInv
  PROVE  ExecShares(nextId) = 0 /\ CancelShares(nextId) = 0
<1>1. /\ \A i \in DOMAIN exec : exec[i].buy < nextId /\ exec[i].sell < nextId
      /\ \A i \in DOMAIN cancel : cancel[i].id < nextId
      /\ nextId \in Int
  BY DEF OInv, OwnerInvariant, IdsPlaced, TypeOK, TablesOK
<1>2. ExecRows(nextId) = {} /\ CancelRows(nextId) = {}
  BY <1>1 DEF ExecRows, CancelRows
<1>3. QED BY <1>2, SumEmpty DEF ExecShares, CancelShares

LEMMA CommitOrderExact ==
  ASSUME EInv, NEW w \in Workers, CommitOrder(w)
  PROVE  ExactInvariant'
<1> DEFINE new == [id |-> nextId, acct |-> task[w].req.acct, sym |-> task[w].req.sym,
                   amount |-> task[w].req.amount, price |-> task[w].req.limit,
                   time |-> task[w].curr]
<1>1. /\ openOrder' = openOrder \cup {new} /\ placed' = placed \cup {new} /\ new.id = nextId
      /\ new.amount = task[w].req.amount /\ exec' = exec /\ cancel' = cancel
  BY DEF CommitOrder
<1>2. \A p \in placed \cup openOrder : p.id # nextId
  <2>1. Receive(w) \/ Step(w)
    BY DEF Step, OrderStep
  <2>2. QED BY <2>1, NewIds DEF EInv, SInv
<1>3. task[w].req.amount \in Int
  BY OrderTask DEF EInv, SInv, SharesInv, Inv, CommitOrder, At, OrderPCs, OrderReq
<1> HIDE DEF new
<1>4. ASSUME NEW o \in openOrder
      PROVE  Counted(o.id, o.amount)'
  BY <1>1, <1>2, CountedSame DEF EInv, ExactInvariant
<1>5. ASSUME NEW o, o = new
      PROVE  Counted(o.id, o.amount)'
  <2>1. /\ \A p \in placed' : p.id = nextId => p = o
        /\ o.id = nextId /\ o.amount \in Int
    BY <1>1, <1>2, <1>3, <1>5
  <2>2. ExecShares(o.id)' = 0 /\ CancelShares(o.id)' = 0
    BY <1>1, <2>1, NewUncounted, LogsSame DEF EInv, SInv, SharesInv
  <2>3. Abs(o.amount) = Abs(o.amount) + 0 + 0
    BY <2>1, AbsFacts
  <2>4. QED BY <2>1, <2>2, <2>3 DEF Counted
<1>6. ASSUME NEW p \in placed', \A o \in openOrder' : o.id # p.id
      PROVE  Counted(p.id, 0)'
  <2>1. p \in placed /\ \A o \in openOrder : o.id # p.id
    BY <1>1, <1>6
  <2>2. QED BY <1>1, <1>2, <2>1, CountedSame DEF EInv, ExactInvariant
<1>7. ASSUME NEW o \in openOrder'
      PROVE  Counted(o.id, o.amount)'
  <2>1. o \in openOrder \/ o = new
    BY <1>1
  <2>2. QED BY <1>4, <1>5, <2>1
<1>8. QED BY <1>6, <1>7 DEF ExactInvariant

LEMMA FewerShares ==
  ASSUME NEW m \in Int, NEW n \in Int, 0 < n
  PROVE  /\ n <= m => m - n \in Int /\ Abs(m) = Abs(m - n) + n
         /\ n <= -m => m + n \in Int /\ Abs(m) = Abs(m + n) + n
BY DEF Abs

\* A fill moves n shares of either order from OPEN_ORDER to EXEC.
LEMMA MatchExact ==
  ASSUME EInv, NEW w \in Workers, Match(w)
  PROVE  ExactInvariant'
<1>1. PICK b, s \in openOrder : \E n, price, refund \in Int : TradeOf(b, s, n, price, refund)
  BY SerialTrade DEF EInv
<1>2. PICK n, price, refund \in Int : TradeOf(b, s, n, price, refund)
  BY <1>1
<1>3. /\ TablesOK /\ FillsPositive /\ \A p, q \in openOrder : p.id = q.id => p = q
      /\ openOrder \subseteq Order /\ cancel' = cancel /\ placed' = placed
  BY DEF EInv, SInv, SharesInv, Inv, TypeOK, TablesOK, SharesInvariant, OneRow, Match
<1>4. /\ b \in Order /\ s \in Order /\ b.amount \in Int /\ s.amount \in Int
      /\ b.amount > 0 /\ s.amount < 0 /\ b.id # s.id /\ 0 < n /\ n <= b.amount /\ n <= -s.amount
      /\ openOrder' = (openOrder \ {b, s}) \cup LeftOf(b, b.amount - n)
                                           \cup LeftOf(s, s.amount + n)
  BY <1>2, <1>3 DEF TradeOf, Order
<1>5. ASSUME NEW id
      PROVE  /\ ExecShares(id) \in Int /\ CancelShares(id) \in Int
             /\ ExecShares(id)' = ExecShares(id) + IF id \in {b.id, s.id} THEN n ELSE 0
             /\ CancelShares(id)' = CancelShares(id)
  <2>1. PICK e : e = [buyer |-> b.acct, seller |-> s.acct, buy |-> b.id, sell |-> s.id,
                      sym |-> b.sym, amount |-> n, price |-> price]
    OBVIOUS
  <2>2. /\ exec' = Append(exec, e) /\ e \in Exec /\ e.buy = b.id /\ e.sell = s.id
        /\ e.amount = n
    BY <1>2, <1>4, <2>1 DEF TradeOf, Order, Exec
  <2>3. /\ ExecShares(id) \in Int
        /\ ExecShares(id)' = ExecShares(id) + IF id \in {e.buy, e.sell} THEN e.amount ELSE 0
    BY <1>3, <2>2, ExecAppend
  <2>4. QED BY <1>3, <2>2, <2>3, ShareTypes, LogsSame
<1>6. ASSUME NEW o \in {b, s}, NEW m \in Int, Abs(o.amount) = Abs(m) + n
      PROVE  Counted(o.id, m)'
  <2>1. Counted(o.id, o.amount)
    BY <1>6 DEF EInv, ExactInvariant
  <2>2. Abs(m) \in Int
    BY <1>6, AbsFacts
  <2>3. Abs(o.amount) + ExecShares(o.id) + CancelShares(o.id) =
          Abs(m) + ExecShares(o.id)' + CancelShares(o.id)'
    <3>1. /\ ExecShares(o.id) \in Int /\ CancelShares(o.id) \in Int
          /\ ExecShares(o.id)' = ExecShares(o.id) + n
          /\ CancelShares(o.id)' = CancelShares(o.id)
      BY <1>5
    <3>2. QED BY <1>6, <2>2, <3>1
  <2>4. QED BY <1>3, <2>1, <2>3, CountedMoves
<1>7. ASSUME NEW id, id \notin {b.id, s.id}, NEW m \in Int, Counted(id, m)
      PROVE  Counted(id, m)'
  <2>1. ExecShares(id)' = ExecShares(id) /\ CancelShares(id)' = CancelShares(id)
    BY <1>5, <1>7
  <2>2. QED BY <1>3, <1>7, <2>1, CountedMoves
<1>8. /\ b.amount - n \in Int /\ Abs(b.amount) = Abs(b.amount - n) + n
      /\ s.amount + n \in Int /\ Abs(s.amount) = Abs(s.amount + n) + n
  BY <1>2, <1>4, FewerShares
<1>9. Counted(b.id, b.amount - n)' /\ Counted(s.id, s.amount + n)'
  <2>1. ASSUME NEW o \in {b, s}, NEW m \in Int,
             (o = b /\ m = b.amount - n) \/ (o = s /\ m = s.amount + n)
        PROVE  Counted(o.id, m)'
    BY <1>6, <1>8, <2>1
  <2>2. PICK m : m = b.amount - n
    OBVIOUS
  <2>3. PICK k : k = s.amount + n
    OBVIOUS
  <2>4. Counted(b.id, m)' /\ Counted(s.id, k)'
    <3>1. m \in Int /\ k \in Int
      BY <1>8, <2>2, <2>3
    <3>2. QED BY <2>1, <2>2, <2>3, <3>1
  <2>5. QED BY <2>2, <2>3, <2>4
<1>10. /\ \A q \in LeftOf(b, b.amount - n) : q.id = b.id /\ q.amount = b.amount - n
       /\ \A q \in LeftOf(s, s.amount + n) : q.id = s.id /\ q.amount = s.amount + n
       /\ b.amount - n # 0 => \E q \in LeftOf(b, b.amount - n) : q.id = b.id
       /\ s.amount + n # 0 => \E q \in LeftOf(s, s.amount + n) : q.id = s.id
  BY <1>4 DEF LeftOf, Order
<1>11. ASSUME NEW o \in openOrder'
       PROVE  Counted(o.id, o.amount)'
  <2>1. CASE o \in openOrder \ {b, s}
    <3>1. o.id \notin {b.id, s.id} /\ o.amount \in Int /\ Counted(o.id, o.amount)
      BY <1>3, <2>1 DEF Order, EInv, ExactInvariant
    <3>2. QED BY <1>7, <3>1
  <2>2. CASE o \in LeftOf(b, b.amount - n) \/ o \in LeftOf(s, s.amount + n)
    <3>1. \/ o.id = b.id /\ o.amount = b.amount - n
          \/ o.id = s.id /\ o.amount = s.amount + n
      BY <1>10, <2>2
    <3>2. QED BY <1>9, <3>1
  <2>3. QED BY <1>4, <2>1, <2>2
<1>12. ASSUME NEW p \in placed, \A o \in openOrder' : o.id # p.id
       PROVE  Counted(p.id, 0)'
  <2>1. CASE p.id = b.id
    <3>1. b.amount - n = 0
      BY <1>4, <1>10, <1>12, <2>1
    <3>2. QED BY <1>9, <2>1, <3>1
  <2>2. CASE p.id = s.id
    <3>1. s.amount + n = 0
      BY <1>4, <1>10, <1>12, <2>2
    <3>2. QED BY <1>9, <2>2, <3>1
  <2>3. CASE p.id \notin {b.id, s.id}
    <3>1. \A o \in openOrder : o.id # p.id
      BY <1>4, <1>12, <2>3
    <3>2. Counted(p.id, 0)
      BY <3>1 DEF EInv, ExactInvariant
    <3>3. QED BY <1>7, <2>3, <3>2
  <2>4. QED BY <2>1, <2>2, <2>3
<1>13. QED BY <1>3, <1>11, <1>12 DEF ExactInvariant

\* The order a cancellation deletes is in the book, as it was read.
LEMMA SerialCancel ==
  ASSUME SInv, NEW w \in Workers, CommitCancel(w)
  PROVE  \/ UNCHANGED tables
         \/ \E o \in openOrder :
              /\ cancel' = Append(cancel, [acct |-> o.acct, id |-> o.id, sym |-> o.sym,
                                           amount |-> o.amount])
              /\ position' = IF o.amount < 0 THEN ShiftPositions(position, o.acct, -o.amount)
                                             ELSE position
              /\ account' = IF o.amount < 0 THEN account
                                            ELSE Pay(account, o.acct, o.price * o.amount)
              /\ openOrder' = openOrder \ {o}
              /\ UNCHANGED <<exec, nextId, placed, granted>>
<1>1. task[w].rows = {o \in openOrder : o.id = task[w].req.id}
  BY DEF SInv, SerialInvariant, SerialTask, CommitCancel, At
<1>2. \A o, p \in openOrder : o.id = p.id => o = p
  BY DEF SInv, SharesInv, SharesInvariant, OneRow
<1>3. ASSUME NEW o \in task[w].rows
      PROVE  o \in openOrder /\ Without(openOrder, o.id) = openOrder \ {o}
  BY <1>1, <1>2 DEF Without
<1>4. CASE ~UNCHANGED tables
  <2>1. PICK o \in task[w].rows :
          /\ cancel' = Append(cancel, [acct |-> o.acct, id |-> o.id, sym |-> o.sym,
                                       amount |-> o.amount])
          /\ position' = IF o.amount < 0 THEN ShiftPositions(position, o.acct, -o.amount)
                                         ELSE position
          /\ account' = IF o.amount < 0 THEN account ELSE Pay(account, o.acct, o.price * o.amount)
          /\ openOrder' = Without(openOrder, o.id)
          /\ UNCHANGED <<exec, nextId, placed, granted>>
    BY <1>4 DEF CommitCancel
  <2>2. QED BY <1>3, <2>1
<1>5. QED BY <1>4

LEMMA CommitCancelExact ==
  ASSUME EInv, NEW w \in Workers, CommitCancel(w)
  PROVE  ExactInvariant'
<1>1. CASE UNCHANGED tables
  BY <1>1, ExactSame DEF tables, EInv
<1>2. ASSUME NEW o \in openOrder, NEW c, openOrder' = openOrder \ {o}, cancel' = Append(cancel, c),
             c = [acct |-> o.acct, id |-> o.id, sym |-> o.sym, amount |-> o.amount],
             exec' = exec, placed' = placed
      PROVE  ExactInvariant'
  <2>1. /\ TablesOK /\ FillsPositive /\ \A p, q \in openOrder : p.id = q.id => p = q
        /\ o \in Order
    BY DEF EInv, SInv, SharesInv, Inv, TypeOK, TablesOK, SharesInvariant, OneRow
  <2>2. c \in Cancelled /\ c.id = o.id /\ c.amount = o.amount /\ o.amount \in Int
    BY <1>2, <2>1 DEF Cancelled, Order
  <2>3. ASSUME NEW id
        PROVE  /\ ExecShares(id) \in Int /\ CancelShares(id) \in Int
               /\ ExecShares(id)' = ExecShares(id)
               /\ CancelShares(id)' = CancelShares(id) + IF id = o.id THEN Abs(o.amount) ELSE 0
    <3>1. /\ CancelShares(id) \in Int
          /\ CancelShares(id)' = CancelShares(id) + IF c.id = id THEN Abs(c.amount) ELSE 0
      BY <1>2, <2>1, <2>2, CancelAppend
    <3>2. QED BY <1>2, <2>1, <2>2, <3>1, ShareTypes, LogsSame
  <2>4. Counted(o.id, 0)'
    <3>1. Abs(o.amount) \in Int /\ Abs(0) = 0
      BY <2>2, AbsFacts
    <3>2. Abs(o.amount) + ExecShares(o.id) + CancelShares(o.id) =
            Abs(0) + ExecShares(o.id)' + CancelShares(o.id)'
      BY <2>3, <3>1
    <3>3. Counted(o.id, o.amount)
      BY DEF EInv, ExactInvariant
    <3>4. QED BY <1>2, <3>2, <3>3, CountedMoves
  <2>5. ASSUME NEW id, id # o.id, NEW n, Counted(id, n)
        PROVE  Counted(id, n)'
    <3>1. ExecShares(id)' = ExecShares(id) /\ CancelShares(id)' = CancelShares(id)
      BY <2>3, <2>5
    <3>2. QED BY <1>2, <2>5, <3>1, CountedMoves
  <2>6. ASSUME NEW q \in openOrder'
        PROVE  Counted(q.id, q.amount)'
    BY <1>2, <2>1, <2>5 DEF EInv, ExactInvariant
  <2>7. ASSUME NEW p \in placed, \A q \in openOrder' : q.id # p.id
        PROVE  Counted(p.id, 0)'
    <3>1. p.id # o.id => \A q \in openOrder : q.id # p.id
      BY <1>2, <2>7
    <3>2. p.id # o.id => Counted(p.id, 0)
      BY <3>1 DEF EInv, ExactInvariant
    <3>3. QED BY <2>4, <2>5, <3>2
  <2>8. QED BY <1>2, <2>6, <2>7 DEF ExactInvariant
<1>3. UNCHANGED tables \/ \E o \in openOrder : \E c :
        /\ openOrder' = openOrder \ {o} /\ cancel' = Append(cancel, c)
        /\ c = [acct |-> o.acct, id |-> o.id, sym |-> o.sym, amount |-> o.amount]
        /\ exec' = exec /\ placed' = placed
  BY SerialCancel DEF EInv
<1>4. QED BY <1>1, <1>2, <1>3

\* With one worker, for any accounts, symbols and orders, every share of an order
\* is open, executed or cancelled, and is counted once: EXEC and CANCEL record what
\* the book has lost, if no two orders bear one second (an id found for another
\* order would count its shares twice) and no transaction is aborted (a match that
\* is rolled back is taken for a fill).
THEOREM CountedOnce ==
  ASSUME SameSecond = FALSE, MayAbort = FALSE, OneWorker
  PROVE  Spec => []EachShareOnce
<1>1. Init => ExactInvariant
  BY DEF Init, ExactInvariant
<1>2. SInv /\ ExactInvariant /\ [Next]_vars => ExactInvariant'
  <2> SUFFICES ASSUME EInv, [Next]_vars PROVE ExactInvariant'
    BY DEF EInv
  <2>1. CASE UNCHANGED <<exec, cancel, openOrder, placed>>
    BY <2>1, ExactSame DEF EInv
  <2>2. ASSUME NEW w \in Workers, Receive(w) \/ Step(w)
        PROVE  ExactInvariant'
    <3>1. CASE CreateStep(w)
      BY <2>1, <3>1 DEF CreateStep, CreateAccount, CreatePosition, AbandonPosition, tables
    <3>2. CASE UNCHANGED tables
      BY <2>1, <3>2 DEF tables
    <3>3. QED BY <2>2, <3>1, <3>2, Writers, CommitOrderExact, MatchExact, CommitCancelExact
  <2>3. CASE UNCHANGED vars
    BY <2>1, <2>3 DEF vars, tables
  <2>4. QED BY <2>2, <2>3 DEF Next
<1>3. SInv /\ ExactInvariant => EachShareOnce
  <2> SUFFICES ASSUME SInv, ExactInvariant, NEW p \in placed
               PROVE  Abs(p.amount) = OpenShares(p.id) + ExecShares(p.id) + CancelShares(p.id)
    BY DEF EachShareOnce
  <2>1. OneRow /\ openOrder \subseteq Order /\ Abs(0) = 0
    BY AbsFacts DEF SInv, SharesInv, SharesInvariant, Inv, TypeOK, TablesOK
  <2>2. CASE \E o \in openOrder : o.id = p.id
    <3>1. PICK o \in openOrder : o.id = p.id
      BY <2>2
    <3>2. OpenShares(o.id) = Abs(o.amount) /\ Counted(o.id, o.amount)
      BY <2>1, OpenSum DEF ExactInvariant
    <3>3. QED BY <3>1, <3>2 DEF Counted
  <2>3. CASE \A o \in openOrder : o.id # p.id
    <3>1. OpenShares(p.id) = 0 /\ Counted(p.id, 0)
      BY <2>1, <2>3, OpenSum DEF ExactInvariant
    <3>2. QED BY <2>1, <3>1 DEF Counted
  <2>4. QED BY <2>2, <2>3
<1>4. QED BY <1>1, <1>2, <1>3, SerialHolds, PTL DEF Spec

-----------------------------------------------------------------------------
(* No money is created. *)

\* The money that a set of orders has set aside.
Reserved(orders) == SumFunction([o \in {q \in orders : q.amount > 0} |-> o.amount * o.price])

LEMMA ReservedAdd ==
  ASSUME NEW orders \in SUBSET Order, IsFiniteSet(orders), NEW o \in Order, o \notin orders
  PROVE  /\ IsFiniteSet(orders \cup {o})
         /\ Reserved(orders) \in Int
         /\ Reserved(orders \cup {o}) =
              Reserved(orders) + IF o.amount > 0 THEN o.amount * o.price ELSE 0
<1> DEFINE f == [q \in {p \in orders : p.amount > 0} |-> q.amount * q.price]
           g == [q \in {p \in orders \cup {o} : p.amount > 0} |-> q.amount * q.price]
           n == o.amount * o.price
<1>1. \A q \in orders \cup {o} : q.amount \in Int /\ q.price \in Int
  BY DEF Order
<1>2. \A q \in orders \cup {o} : q.amount * q.price \in Int
  BY <1>1
<1>3. IsFiniteSet(orders \cup {o}) /\ IsFiniteSet(DOMAIN f)
  BY FS_AddElement, FS_Subset
<1>4. Summable(f)
  BY <1>2, <1>3 DEF Summable
<1>5. /\ DOMAIN g = DOMAIN f \/ DOMAIN g = DOMAIN f \cup {o}
      /\ o \notin DOMAIN f /\ \A q \in DOMAIN f : g[q] = f[q]
      /\ n \in Int /\ (o \in DOMAIN g => g[o] = n) /\ (o \in DOMAIN g <=> o.amount > 0)
  <2>1. n \in Int
    BY <1>2
  <2> HIDE DEF n
  <2>2. o \in DOMAIN g => g[o] = n
    BY DEF n
  <2>3. /\ DOMAIN g = DOMAIN f \/ DOMAIN g = DOMAIN f \cup {o}
        /\ o \notin DOMAIN f /\ (o \in DOMAIN g <=> o.amount > 0)
    OBVIOUS
  <2>4. \A q \in DOMAIN f : g[q] = f[q]
    OBVIOUS
  <2>5. QED BY <2>1, <2>2, <2>3, <2>4
<1>6. Reserved(orders) = SumFunction(f) /\ Reserved(orders \cup {o}) = SumFunction(g)
  BY DEF Reserved
<1> HIDE DEF f, g, n
<1>7. SumFunction(f) \in Int /\ SumFunction(g) = SumFunction(f) + IF o \in DOMAIN g THEN n ELSE 0
  BY <1>4, <1>5, SumLog, SumType
<1>8. QED BY <1>3, <1>5, <1>6, <1>7 DEF n

LEMMA ReservedRemove ==
  ASSUME NEW orders \in SUBSET Order, IsFiniteSet(orders), NEW o \in orders
  PROVE  /\ IsFiniteSet(orders \ {o})
         /\ Reserved(orders) \in Int /\ Reserved(orders \ {o}) \in Int
         /\ Reserved(orders \ {o}) =
              Reserved(orders) - IF o.amount > 0 THEN o.amount * o.price ELSE 0
<1>1. IsFiniteSet(orders \ {o})
  BY FS_RemoveElement
<1>2. orders = (orders \ {o}) \cup {o} /\ o \notin orders \ {o} /\ o \in Order
  OBVIOUS
<1>3. PICK rest : rest = orders \ {o}
  OBVIOUS
<1>4. PICK n : n = IF o.amount > 0 THEN o.amount * o.price ELSE 0
  OBVIOUS
<1>5. /\ Reserved(rest) \in Int
      /\ Reserved(rest \cup {o}) = Reserved(rest) + n
  BY <1>1, <1>2, <1>3, <1>4, ReservedAdd
<1>6. n \in Int
  <2>1. o.amount \in Int /\ o.price \in Int
    BY DEF Order
  <2>2. o.amount * o.price \in Int
    BY <2>1
  <2>3. QED BY <1>4, <2>2
<1>7. Reserved(orders) = Reserved(rest) + n
  BY <1>2, <1>3, <1>5
<1>8. QED BY <1>1, <1>3, <1>4, <1>5, <1>6, <1>7

\* A payment to one account.
LEMMA PaidSum ==
  ASSUME NEW f, f \in [DOMAIN f -> Int], IsFiniteSet(DOMAIN f), NEW k \in DOMAIN f, NEW n \in Int
  PROVE  SumFunction(f) \in Int /\ SumFunction(Pay(f, k, n)) = SumFunction(f) + n
<1> DEFINE g == Pay(f, k, n)
<1>1. Summable(f) /\ f[k] \in Int
  BY DEF Summable
<1>2. DOMAIN g = DOMAIN f /\ g[k] = f[k] + n /\ \A x \in DOMAIN f \ {k} : g[x] = f[x]
  BY DEF Pay
<1> HIDE DEF g
<1>3. g[k] \in Int
  BY <1>1, <1>2
<1>4. SumFunction(g) = SumFunction(f) - f[k] + g[k] /\ SumFunction(f) \in Int
  BY <1>1, <1>2, <1>3, SumChange, SumType
<1>5. QED BY <1>1, <1>2, <1>4 DEF g

\* What a fill does to the orders' money: the buyer's n shares are no longer set aside.
LEMMA ReservedTrade ==
  ASSUME NEW orders \in SUBSET Order, IsFiniteSet(orders),
         \A o, p \in orders : o.id = p.id => o = p,
         NEW b \in orders, NEW s \in orders, b.id # s.id, b.amount > 0, s.amount < 0,
         NEW n \in Int, n <= b.amount, n <= -s.amount,
         NEW next, next = (orders \ {b, s}) \cup LeftOf(b, b.amount - n) \cup LeftOf(s, s.amount + n)
  PROVE  /\ IsFiniteSet(next)
         /\ Reserved(orders) \in Int /\ Reserved(next) = Reserved(orders) - n * b.price
<1>1. /\ b \in Order /\ s \in Order /\ b.amount \in Int /\ s.amount \in Int /\ b.price \in Int
      /\ s.price \in Int
  BY DEF Order
<1>2. PICK without : without = (orders \ {b}) \ {s}
  OBVIOUS
<1>3. /\ IsFiniteSet(without) /\ without \in SUBSET Order
      /\ Reserved(orders) \in Int /\ Reserved(without) \in Int
      /\ Reserved(without) = Reserved(orders) - b.amount * b.price
  <2>1. PICK some : some = orders \ {b}
    OBVIOUS
  <2>2. /\ IsFiniteSet(some) /\ some \in SUBSET Order /\ s \in some
        /\ Reserved(orders) \in Int /\ Reserved(some) \in Int
        /\ Reserved(some) = Reserved(orders) - b.amount * b.price
    BY <2>1, ReservedRemove
  <2>3. /\ IsFiniteSet(some \ {s}) /\ Reserved(some \ {s}) \in Int
        /\ Reserved(some \ {s}) = Reserved(some) - IF s.amount > 0 THEN s.amount * s.price ELSE 0
    BY <2>2, ReservedRemove
  <2>4. Reserved(some \ {s}) = Reserved(some)
    BY <1>1, <2>2, <2>3
  <2>5. QED BY <1>2, <2>1, <2>2, <2>3, <2>4
<1>4. PICK filled : filled = without \cup LeftOf(b, b.amount - n)
  OBVIOUS
<1>5. /\ IsFiniteSet(filled) /\ filled \in SUBSET Order /\ Reserved(filled) \in Int
      /\ Reserved(filled) = Reserved(orders) - n * b.price
      /\ \A o \in filled : o.id # s.id
  <2>1. \A o \in without : o.id # b.id /\ o.id # s.id
    BY <1>2
  <2>2. b.amount * b.price = (b.amount - n) * b.price + n * b.price
    BY <1>1
  <2>3. CASE b.amount - n = 0
    <3>1. filled = without
      BY <1>4, <2>3 DEF LeftOf
    <3>2. b.amount * b.price = n * b.price
      BY <1>1, <2>3
    <3>3. QED BY <1>3, <2>1, <3>1, <3>2
  <2>4. CASE b.amount - n # 0
    <3>1. PICK left : left = [b EXCEPT !.amount = b.amount - n]
      OBVIOUS
    <3>2. /\ left \in Order /\ left.id = b.id /\ left.amount = b.amount - n
          /\ left.price = b.price /\ left.amount > 0 /\ left \notin without
      BY <1>1, <2>1, <2>4, <3>1 DEF Order
    <3>3. filled = without \cup {left}
      BY <1>4, <2>4, <3>1 DEF LeftOf
    <3>4. /\ IsFiniteSet(without \cup {left})
          /\ Reserved(without \cup {left}) = Reserved(without) + (b.amount - n) * b.price
      BY <1>3, <3>2, ReservedAdd
    <3>5. (b.amount - n) * b.price \in Int /\ n * b.price \in Int /\ b.amount * b.price \in Int
      BY <1>1
    <3>6. QED BY <1>3, <2>1, <2>2, <3>2, <3>3, <3>4, <3>5
  <2>5. QED BY <2>3, <2>4
<1>6. next = filled \cup LeftOf(s, s.amount + n)
  BY <1>2, <1>4
<1>7. CASE s.amount + n = 0
  <2>1. next = filled
    BY <1>6, <1>7 DEF LeftOf
  <2>2. QED BY <1>3, <1>5, <2>1
<1>8. CASE s.amount + n # 0
  <2>1. PICK left : left = [s EXCEPT !.amount = s.amount + n]
    OBVIOUS
  <2>2. left \in Order /\ left.id = s.id /\ ~(left.amount > 0) /\ left \notin filled
    BY <1>1, <1>5, <1>8, <2>1 DEF Order
  <2>3. next = filled \cup {left}
    BY <1>6, <1>8, <2>1 DEF LeftOf
  <2>4. /\ IsFiniteSet(filled \cup {left})
        /\ Reserved(filled \cup {left}) = Reserved(filled) + 0
    BY <1>5, <2>2, ReservedAdd
  <2>5. IsFiniteSet(next) /\ Reserved(next) = Reserved(filled) + 0
    BY <2>3, <2>4, Zenon
  <2>6. QED BY ONLY <1>3, <1>5, <2>5, <1>1, n \in Int
<1>9. QED BY <1>7, <1>8

\* What came in: the opening balances and the deposits granted since.
LEMMA DepositsGrow ==
  ASSUME GrantLog, IsFiniteSet(DOMAIN OpeningAccount),
         NEW r \in CreateAccountReq \cup CreateSymbolReq, granted' = Append(granted, r)
  PROVE  /\ GrantLog'
         /\ Deposits \in Int
         /\ Deposits' = Deposits + IF r.op = "account" THEN r.balance ELSE 0
<1> DEFINE n == Len(granted) + 1
           S == CreateAccountReq \cup CreateSymbolReq
           f == [i \in Openings |-> granted[i].balance]
           J == {i \in DOMAIN granted' : granted'[i].op = "account"}
           g == [i \in J |-> granted'[i].balance]
           m == IF r.op = "account" THEN r.balance ELSE 0
<1> HIDE DEF S
<1>1. granted \in Seq(S) /\ r \in S
  BY DEF GrantLog, S
<1>2. \A q \in S : q.op = "account" => q.balance \in Int
  BY DEF S, CreateAccountReq, CreateSymbolReq
<1>3. /\ DOMAIN granted' = DOMAIN granted \cup {n}
      /\ \A i \in DOMAIN granted : granted'[i] = granted[i] /\ granted[i] \in S
      /\ n \notin DOMAIN granted /\ granted'[n] = r
      /\ granted' \in Seq(S)
  BY <1>1, Appended
<1>4. IsFiniteSet(Openings) /\ Openings \subseteq DOMAIN granted
  BY <1>1, LogIndices DEF Openings
<1>5. Summable(f)
  BY <1>2, <1>3, <1>4 DEF Summable, Openings
<1>6. /\ n \notin DOMAIN f /\ (DOMAIN g = DOMAIN f \/ DOMAIN g = DOMAIN f \cup {n})
      /\ (n \in DOMAIN g <=> r.op = "account")
      /\ \A i \in DOMAIN f : g[i] = f[i]
      /\ (n \in DOMAIN g => g[n] = m) /\ m \in Int
  <2>1. m \in Int
    BY <1>1, <1>2
  <2>2. /\ Openings = {i \in DOMAIN granted : granted[i].op = "account"}
        /\ J = IF r.op = "account" THEN Openings \cup {n} ELSE Openings
    BY <1>3 DEF Openings
  <2>3. n \in J <=> r.op = "account"
    BY <1>3
  <2>4. n \in J => g[n] = m
    BY <1>3, <2>3
  <2>5. \A i \in Openings : g[i] = f[i]
    BY <1>3, <1>4, <2>2
  <2> HIDE DEF J, m, n
  <2>6. n \notin Openings
    BY <1>3, <1>4
  <2>7. QED BY <2>1, <2>2, <2>3, <2>4, <2>5, <2>6
<1>7. /\ Deposits = SumFunction(OpeningAccount) + SumFunction(f)
      /\ Deposits' = SumFunction(OpeningAccount) + SumFunction(g)
  BY DEF Deposits, Openings
<1>8. SumFunction(OpeningAccount) \in Int
  <2>1. Summable(OpeningAccount)
    BY ExchangeAssumption DEF Summable
  <2>2. QED BY <2>1, SumType
<1> HIDE DEF f, g, m, n, J
<1>9. SumFunction(f) \in Int /\ SumFunction(g) = SumFunction(f) + IF n \in DOMAIN g THEN m ELSE 0
  BY <1>5, <1>6, SumLog, SumType
<1>10. Deposits' = Deposits + m /\ Deposits \in Int
  BY <1>6, <1>7, <1>8, <1>9 DEF m
<1>11. QED BY <1>3, <1>10 DEF GrantLog, S, m

\* The sums as functions of the tables.
LEMMA CashSums ==
  /\ Balances = SumFunction(account) /\ Balances' = SumFunction(account')
  /\ Escrow = Reserved(openOrder) /\ Escrow' = Reserved(openOrder')
  /\ granted' = granted => Deposits' = Deposits
BY DEF Balances, Escrow, Bids, Reserved, Deposits, Openings

CInv == SInv /\ CashInvariant

LEMMA CashFacts ==
  ASSUME CInv, IsFiniteSet(DOMAIN OpeningAccount)
  PROVE  /\ account \in [DOMAIN account -> Int] /\ IsFiniteSet(DOMAIN account)
         /\ openOrder \in SUBSET Order /\ IsFiniteSet(openOrder) /\ GrantLog
         /\ Balances \in Int /\ Escrow \in Int /\ Deposits \in Int
         /\ Balances + Escrow <= Deposits
<1>1. /\ account \in [DOMAIN account -> Int] /\ IsFiniteSet(DOMAIN account)
      /\ openOrder \in SUBSET Order /\ IsFiniteSet(openOrder) /\ GrantLog
      /\ Balances + Escrow <= Deposits
  BY DEF CInv, SInv, SharesInv, Inv, TypeOK, TablesOK, CashInvariant, CashNotCreated, GrantLog
<1>2. Balances \in Int
  BY <1>1, SumType, CashSums DEF Summable
<1>3. Escrow \in Int
  <2> DEFINE f == [o \in {q \in openOrder : q.amount > 0} |-> o.amount * o.price]
  <2>1. \A o \in openOrder : o.amount \in Int /\ o.price \in Int
    BY <1>1 DEF Order
  <2>2. \A o \in DOMAIN f : f[o] \in Int
    BY <2>1
  <2>3. IsFiniteSet(DOMAIN f)
    BY <1>1, FS_Subset
  <2>4. SumFunction(f) \in Int
    BY <2>2, <2>3, SumType DEF Summable
  <2>5. QED BY <2>4, CashSums DEF Reserved
<1>4. Deposits \in Int
  <2>1. Summable(OpeningAccount)
    BY ExchangeAssumption DEF Summable
  <2> DEFINE f == [i \in Openings |-> granted[i].balance]
  <2>2. IsFiniteSet(Openings)
    BY <1>1, LogIndices DEF Openings, GrantLog
  <2>3. \A i \in DOMAIN granted : granted[i] \in CreateAccountReq \cup CreateSymbolReq
    BY <1>1 DEF GrantLog
  <2>4. \A i \in Openings : granted[i].balance \in Int
    BY <2>3 DEF Openings, CreateAccountReq, CreateSymbolReq
  <2>5. Summable(f)
    BY <2>2, <2>4 DEF Summable
  <2> HIDE DEF f
  <2>6. SumFunction(OpeningAccount) \in Int /\ SumFunction(f) \in Int
    BY <2>1, <2>5, SumType
  <2>7. QED BY <2>6 DEF Deposits, f
<1>5. QED BY <1>1, <1>2, <1>3, <1>4

LEMMA CashCreate ==
  ASSUME CInv, IsFiniteSet(DOMAIN OpeningAccount), NEW w \in Workers, CreateStep(w)
  PROVE  CashInvariant'
<1> DEFINE r == task[w].req
<1>1. /\ account \in [DOMAIN account -> Int] /\ IsFiniteSet(DOMAIN account)
      /\ IsFiniteSet(openOrder) /\ GrantLog
      /\ Balances \in Int /\ Escrow \in Int /\ Deposits \in Int
      /\ Balances + Escrow <= Deposits
  BY CashFacts
<1>2. openOrder' = openOrder
  BY DEF CreateStep, CreateAccount, CreatePosition, AbandonPosition, tables
<1>3. Escrow' = Escrow
  BY <1>2, CashSums
<1>4. TaskOK(task[w])
  BY DEF CInv, SInv, SharesInv, Inv, TypeOK, TasksOK
<1>5. CASE granted' = granted /\ account' = account
  <2>1. Balances' = Balances /\ Deposits' = Deposits
    BY <1>5, CashSums
  <2>2. QED BY <1>1, <1>2, <1>3, <1>5, <2>1 DEF CashInvariant, CashNotCreated, GrantLog
<1>6. CASE CreateAccount(w) /\ r.acct \in DOMAIN account
  <2>1. account' = account
    BY <1>1, <1>6 DEF CreateAccount
  <2>2. QED BY <1>5, <1>6, <2>1 DEF CreateAccount
<1>7. CASE CreateAccount(w) /\ r.acct \notin DOMAIN account
  <2>1. r \in CreateAccountReq
    BY <1>4, <1>7, CreateReqType DEF CreateAccount, At, TaskOK
  <2>2. /\ granted' = Append(granted, r) /\ r.op = "account" /\ r.balance \in Int
        /\ account' = [a \in DOMAIN account \cup {r.acct} |->
                         IF a \in DOMAIN account THEN account[a] ELSE r.balance]
    BY <1>7, <2>1 DEF CreateAccount, CreateAccountReq
  <2>3. GrantLog' /\ Deposits' = Deposits + r.balance
    BY <1>1, <2>1, <2>2, DepositsGrow
  <2>4. IsFiniteSet(DOMAIN account') /\ Balances' = Balances + r.balance
    <3>1. PICK k, n : k = r.acct /\ n = r.balance
      OBVIOUS
    <3>2. /\ DOMAIN account' = DOMAIN account \cup {k} /\ k \notin DOMAIN account
          /\ account'[k] = n /\ n \in Int /\ \A x \in DOMAIN account : account'[x] = account[x]
      BY <1>7, <2>2, <3>1
    <3>3. Summable(account)
      BY <1>1 DEF Summable
    <3>4. Summable(account') /\ SumFunction(account') = SumFunction(account) + account'[k]
      BY <3>2, <3>3, SumAdd
    <3>5. QED BY <3>1, <3>2, <3>4, CashSums DEF Summable
  <2> HIDE DEF r
  <2>5. Balances' + Escrow' <= Deposits'
    BY <1>1, <1>3, <2>2, <2>3, <2>4
  <2>6. QED BY <1>1, <1>2, <2>3, <2>4, <2>5 DEF CashInvariant, CashNotCreated, GrantLog
<1>8. CASE CreatePosition(w)
  <2>1. r \in CreateSymbolReq
    BY <1>4, <1>8, CreateReqType DEF CreatePosition, At, TaskOK
  <2>2. granted' = Append(granted, r) /\ r.op # "account" /\ account' = account
    BY <1>8, <2>1 DEF CreatePosition, CreateSymbolReq
  <2>3. GrantLog' /\ Deposits' = Deposits + IF r.op = "account" THEN r.balance ELSE 0
    BY <1>1, <2>1, <2>2, DepositsGrow
  <2>4. Balances' = Balances
    BY <2>2, CashSums
  <2> HIDE DEF r
  <2>5. Balances' + Escrow' <= Deposits'
    BY <1>1, <1>3, <2>2, <2>3, <2>4
  <2>6. QED BY <1>1, <1>2, <2>2, <2>3, <2>5 DEF CashInvariant, CashNotCreated, GrantLog
<1>9. CASE AbandonPosition(w)
  BY <1>5, <1>9 DEF AbandonPosition, tables
<1>10. QED BY <1>6, <1>7, <1>8, <1>9 DEF CreateStep

\* A buy order sets aside what it takes from its account.
LEMMA CashCommitOrder ==
  ASSUME CInv, IsFiniteSet(DOMAIN OpeningAccount), NEW w \in Workers, CommitOrder(w)
  PROVE  CashInvariant'
<1> DEFINE r == task[w].req
           new == [id |-> nextId, acct |-> r.acct, sym |-> r.sym, amount |-> r.amount,
                   price |-> r.limit, time |-> task[w].curr]
<1>1. /\ account \in [DOMAIN account -> Int] /\ IsFiniteSet(DOMAIN account)
      /\ openOrder \in SUBSET Order /\ IsFiniteSet(openOrder) /\ GrantLog
      /\ Balances \in Int /\ Escrow \in Int /\ Deposits \in Int
      /\ Balances + Escrow <= Deposits
  BY CashFacts
<1>2. /\ openOrder' = openOrder \cup {new} /\ granted' = granted
      /\ account' = IF r.amount > 0 THEN Pay(account, r.acct, -(r.limit * r.amount)) ELSE account
  BY DEF CommitOrder
<1>3. /\ r \in OrderReq /\ r.acct \in DOMAIN account /\ task[w] \in Task
  BY OrderTask DEF CInv, SInv, SharesInv, Inv, CommitOrder, At, OrderPCs
<1>4. r.amount \in Int /\ r.limit \in Int
  BY <1>3 DEF OrderReq
<1>5. /\ new \in Order /\ new \notin openOrder /\ new.amount = r.amount /\ new.price = r.limit
  <2>1. nextId \in Int /\ task[w].curr \in Int
    BY OrderNumbers DEF CInv, SInv, SharesInv
  <2>2. new \in Order
    BY <1>3, <2>1 DEF Order, OrderReq
  <2>3. Receive(w) \/ Step(w)
    BY DEF Step, OrderStep
  <2>4. \A o \in openOrder : o.id # nextId
    BY <2>3, NewIds DEF CInv, SInv
  <2>5. new.id = nextId
    OBVIOUS
  <2>6. QED BY <2>2, <2>4, <2>5
<1> HIDE DEF new, r
<1>6. /\ IsFiniteSet(openOrder')
      /\ Escrow' = Escrow + IF r.amount > 0 THEN r.amount * r.limit ELSE 0
  <2>1. /\ IsFiniteSet(openOrder \cup {new})
        /\ Reserved(openOrder \cup {new}) =
             Reserved(openOrder) + IF new.amount > 0 THEN new.amount * new.price ELSE 0
    BY <1>1, <1>5, ReservedAdd
  <2>2. QED BY <1>2, <1>5, <2>1, CashSums
<1>7. /\ IsFiniteSet(DOMAIN account')
      /\ Balances' = Balances - IF r.amount > 0 THEN r.amount * r.limit ELSE 0
  <2>1. CASE r.amount > 0
    <3>1. PICK n : n = -(r.limit * r.amount)
      OBVIOUS
    <3>2. n \in Int /\ r.amount * r.limit \in Int /\ n = -(r.amount * r.limit)
      BY <1>4, <3>1
    <3>3. account' = Pay(account, r.acct, n)
      BY <1>2, <2>1, <3>1
    <3>4. DOMAIN account' = DOMAIN account
      BY <3>3 DEF Pay
    <3>5. SumFunction(account') = SumFunction(account) + n
      BY <1>1, <1>3, <3>2, <3>3, PaidSum
    <3>6. QED BY <1>1, <2>1, <3>2, <3>4, <3>5, CashSums
  <2>2. CASE ~(r.amount > 0)
    BY <1>1, <1>2, <2>2, CashSums
  <2>3. QED BY <2>1, <2>2
<1>8. Balances' + Escrow' <= Deposits'
  <2>1. PICK n : n = IF r.amount > 0 THEN r.amount * r.limit ELSE 0
    OBVIOUS
  <2>2. r.amount * r.limit \in Int
    BY <1>4
  <2>3. n \in Int
    BY <2>1, <2>2
  <2>4. Deposits' = Deposits
    BY <1>2, CashSums
  <2>5. QED BY <1>1, <1>6, <1>7, <2>1, <2>3, <2>4
<1>9. QED BY <1>1, <1>2, <1>6, <1>7, <1>8 DEF CashInvariant, CashNotCreated, GrantLog

\* Of what the buyer had set aside for n shares, the seller and the refund get no
\* more than that.
LEMMA TradeMoney ==
  ASSUME NEW n \in Int, NEW limit \in Int, NEW price \in Int, NEW refund \in Int,
         0 < n, refund <= limit - price, price <= limit
  PROVE  /\ price * n \in Int /\ n * limit \in Int /\ refund <= (limit - price) * n
         /\ refund + price * n <= n * limit
<1>1. PICK d : d = limit - price
  OBVIOUS
<1>2. d \in Int /\ d >= 0 /\ limit = price + d
  BY <1>1
<1>3. d * n >= d
  BY <1>2
<1>4. n * limit = price * n + d * n
  BY <1>2
<1>5. price * n \in Int /\ n * limit \in Int /\ d * n \in Int
  BY <1>2
<1>6. QED BY <1>1, <1>2, <1>3, <1>4, <1>5

LEMMA CashMatch ==
  ASSUME CInv, IsFiniteSet(DOMAIN OpeningAccount), NEW w \in Workers, Match(w)
  PROVE  CashInvariant'
<1>1. /\ account \in [DOMAIN account -> Int] /\ IsFiniteSet(DOMAIN account)
      /\ openOrder \in SUBSET Order /\ IsFiniteSet(openOrder) /\ GrantLog
      /\ Balances \in Int /\ Escrow \in Int /\ Deposits \in Int
      /\ Balances + Escrow <= Deposits
  BY CashFacts
<1>2. PICK b, s \in openOrder : \E n, price, refund \in Int : TradeOf(b, s, n, price, refund)
  BY SerialTrade DEF CInv
<1>3. PICK n, price, refund \in Int : TradeOf(b, s, n, price, refund)
  BY <1>2
<1>4. /\ b.amount > 0 /\ s.amount < 0 /\ b.id # s.id /\ price <= b.price
      /\ 0 < n /\ n <= b.amount /\ n <= -s.amount /\ refund <= b.price - price
      /\ openOrder' = (openOrder \ {b, s}) \cup LeftOf(b, b.amount - n)
                                           \cup LeftOf(s, s.amount + n)
      /\ account' = Pay(Pay(account, b.acct, refund), s.acct, price * n)
  BY <1>3 DEF TradeOf
<1>5. /\ b.price \in Int /\ b.acct \in DOMAIN account /\ s.acct \in DOMAIN account
      /\ \A o, p \in openOrder : o.id = p.id => o = p
  BY <1>1 DEF Order, CInv, SInv, SharesInv, SharesInvariant, OneRow, Inv, TypeOK, TablesOK
<1>6. IsFiniteSet(openOrder') /\ Escrow' = Escrow - n * b.price
  <2>1. PICK next : next = (openOrder \ {b, s}) \cup LeftOf(b, b.amount - n)
                                               \cup LeftOf(s, s.amount + n)
    OBVIOUS
  <2>2. IsFiniteSet(next) /\ Reserved(next) = Reserved(openOrder) - n * b.price
    BY <1>1, <1>4, <1>5, <2>1, ReservedTrade
  <2>3. openOrder' = next
    BY <1>4, <2>1, Zenon
  <2>4. QED BY <2>2, <2>3, CashSums, Zenon
<1>7. /\ price * n \in Int /\ n * b.price \in Int /\ refund + price * n <= n * b.price
  BY <1>3, <1>4, <1>5, TradeMoney
<1>8. IsFiniteSet(DOMAIN account') /\ Balances' = Balances + refund + price * n
  <2>1. PICK paid : paid = Pay(account, b.acct, refund)
    OBVIOUS
  <2>2. /\ paid \in [DOMAIN paid -> Int] /\ DOMAIN paid = DOMAIN account
        /\ SumFunction(paid) = SumFunction(account) + refund
    BY <1>1, <1>3, <1>5, <2>1, PayType, PaidSum
  <2>3. PICK m : m = price * n
    OBVIOUS
  <2>4. account' = Pay(paid, s.acct, m) /\ m \in Int
    BY <1>4, <1>7, <2>1, <2>3
  <2>5. /\ DOMAIN account' = DOMAIN account
        /\ SumFunction(account') = SumFunction(paid) + m
    BY <1>1, <1>5, <2>2, <2>4, PayType, PaidSum
  <2>6. QED BY <1>1, <2>2, <2>3, <2>5, CashSums
<1>9. Deposits' = Deposits /\ granted' = granted
  BY CashSums DEF Match
<1>10. Balances' + Escrow' <= Deposits'
  BY <1>1, <1>3, <1>6, <1>7, <1>8, <1>9
<1>11. QED BY <1>1, <1>6, <1>8, <1>9, <1>10 DEF CashInvariant, CashNotCreated, GrantLog

\* A cancelled buy order gives back what it still has set aside.
LEMMA CashCancel ==
  ASSUME CInv, IsFiniteSet(DOMAIN OpeningAccount), NEW w \in Workers, CommitCancel(w),
         ~UNCHANGED tables
  PROVE  CashInvariant'
<1>1. /\ account \in [DOMAIN account -> Int] /\ IsFiniteSet(DOMAIN account)
      /\ openOrder \in SUBSET Order /\ IsFiniteSet(openOrder) /\ GrantLog
      /\ Balances \in Int /\ Escrow \in Int /\ Deposits \in Int
      /\ Balances + Escrow <= Deposits
  BY CashFacts
<1>2. PICK o \in openOrder :
        /\ account' = IF o.amount < 0 THEN account ELSE Pay(account, o.acct, o.price * o.amount)
        /\ openOrder' = openOrder \ {o} /\ granted' = granted
  BY SerialCancel DEF CInv
<1>3. /\ o.amount \in Int /\ o.price \in Int /\ o.acct \in DOMAIN account
  BY <1>1 DEF Order, CInv, SInv, SharesInv, Inv, TypeOK, TablesOK
<1>4. PICK n : n = IF o.amount > 0 THEN o.amount * o.price ELSE 0
  OBVIOUS
<1>5. n \in Int
  <2>1. o.amount * o.price \in Int
    BY <1>3
  <2>2. QED BY <1>4, <2>1
<1>6. IsFiniteSet(openOrder') /\ Escrow' = Escrow - n
  <2>1. IsFiniteSet(openOrder \ {o}) /\ Reserved(openOrder \ {o}) = Reserved(openOrder) - n
    BY <1>1, <1>4, ReservedRemove
  <2>2. QED BY <1>2, <2>1, CashSums, Zenon
<1>7. IsFiniteSet(DOMAIN account') /\ Balances' = Balances + n
  <2>1. CASE o.amount < 0
    <3>1. n = 0 /\ account' = account
      BY <1>2, <1>3, <1>4, <2>1
    <3>2. QED BY <1>1, <3>1, CashSums
  <2>2. CASE ~(o.amount < 0)
    <3>1. n = o.price * o.amount
      BY <1>3, <1>4, <2>2
    <3>2. account' = Pay(account, o.acct, n)
      BY <1>2, <2>2, <3>1
    <3>3. DOMAIN account' = DOMAIN account /\ SumFunction(account') = SumFunction(account) + n
      BY <1>1, <1>3, <1>5, <3>2, PayType, PaidSum
    <3>4. QED BY <1>1, <3>3, CashSums
  <2>3. QED BY <2>1, <2>2
<1>8. Balances' + Escrow' <= Deposits'
  <2>1. Deposits' = Deposits
    BY <1>2, CashSums
  <2>2. QED BY <1>1, <1>5, <1>6, <1>7, <2>1
<1>9. QED BY <1>1, <1>2, <1>6, <1>7, <1>8 DEF CashInvariant, CashNotCreated, GrantLog

LEMMA InitCash ==
  ASSUME IsFiniteSet(DOMAIN OpeningAccount)
  PROVE  Init => CashInvariant
<1> SUFFICES ASSUME Init PROVE CashInvariant
  OBVIOUS
<1>1. account = OpeningAccount /\ openOrder = {} /\ granted = << >>
  BY DEF Init
<1>2. IsFiniteSet({})
  BY FS_EmptySet
<1>3. Escrow = 0
  BY <1>1, SumEmpty DEF Escrow, Bids
<1>4. Deposits = SumFunction(OpeningAccount) + 0
  <2>1. Openings = {}
    BY <1>1 DEF Openings
  <2>2. QED BY <2>1, SumEmpty DEF Deposits
<1>5. Balances = SumFunction(OpeningAccount) /\ SumFunction(OpeningAccount) \in Int
  BY <1>1, ExchangeAssumption, SumType DEF Balances, Summable
<1>6. QED BY <1>1, <1>2, <1>3, <1>4, <1>5 DEF CashInvariant, CashNotCreated

\* With one worker, for any symbols, orders and finite table of opening accounts,
\* the accounts' money and what open buy orders have set aside never exceed what
\* came in: no fill, refund or cancellation creates money, if no two orders bear one
\* second and no transaction is aborted.
THEOREM NoMoneyCreated ==
  ASSUME SameSecond = FALSE, MayAbort = FALSE, OneWorker, IsFiniteSet(DOMAIN OpeningAccount)
  PROVE  Spec => []CashNotCreated
<1>1. SInv /\ CashInvariant /\ [Next]_vars => CashInvariant'
  <2> SUFFICES ASSUME CInv, [Next]_vars PROVE CashInvariant'
    BY DEF CInv
  <2>1. CASE UNCHANGED tables
    <3>1. UNCHANGED <<account, openOrder, granted>>
      BY <2>1 DEF tables
    <3>2. Balances' = Balances /\ Escrow' = Escrow /\ Deposits' = Deposits
      BY <3>1, CashSums
    <3>3. QED BY <3>1, <3>2 DEF CInv, CashInvariant, CashNotCreated
  <2>2. ASSUME NEW w \in Workers, Receive(w) \/ Step(w)
        PROVE  CashInvariant'
    BY <2>1, <2>2, Writers, CashCreate, CashCommitOrder, CashMatch, CashCancel
  <2>3. CASE UNCHANGED vars
    BY <2>1, <2>3 DEF vars
  <2>4. QED BY <2>2, <2>3 DEF Next
<1>2. CashInvariant => CashNotCreated
  BY DEF CashInvariant
<1>3. QED BY <1>1, <1>2, InitCash, SerialHolds, PTL DEF Spec

-----------------------------------------------------------------------------
(* One worker at a time, the exchange is the ledger. *)

\* What the ledger sees of the rows of OPEN_ORDER, EXEC and CANCEL.
OrderRow(o) ==
  [id |-> o.id, acct |-> o.acct, sym |-> o.sym, amount |-> o.amount, price |-> o.price]
TradeRow(e) == [buy |-> e.buy, sell |-> e.sell, amount |-> e.amount, price |-> e.price]
CancelRow(c) == [id |-> c.id, amount |-> c.amount]

TradeLog(log) == [i \in DOMAIN log |-> TradeRow(log[i])]
CancelLog(log) == [i \in DOMAIN log |-> CancelRow(log[i])]

\* A log that is seen row by row grows as the log itself does.
LEMMA SeenAppended ==
  ASSUME NEW S, NEW log \in Seq(S), NEW e \in S, NEW next, next = Append(log, e),
         NEW T, NEW old, NEW new, NEW row \in T,
         DOMAIN old = DOMAIN log, DOMAIN new = DOMAIN next,
         old = [i \in DOMAIN old |-> old[i]], new = [i \in DOMAIN new |-> new[i]],
         \A i \in DOMAIN log : old[i] \in T /\ new[i] = old[i],
         new[Len(next)] = row
  PROVE  new = Append(old, row) /\ Len(new) > Len(old) /\ new[Len(new)] = row
<1>1. /\ DOMAIN log = 1 .. Len(log) /\ DOMAIN next = 1 .. Len(next) /\ Len(log) \in Nat
      /\ Len(next) = Len(log) + 1
  OBVIOUS
<1>2. old \in Seq(T) /\ Len(old) = Len(log)
  <2>1. old \in [1 .. Len(log) -> T]
    BY <1>1
  <2>2. QED BY <1>1, <2>1
<1>3. new \in Seq(T) /\ Len(new) = Len(log) + 1
  <2>1. \A i \in 1 .. Len(log) + 1 : new[i] \in T
    BY <1>1
  <2>2. new \in [1 .. Len(log) + 1 -> T]
    BY <1>1, <2>1
  <2>3. QED BY <1>1, <2>2
<1>4. PICK app : app = Append(old, row)
  OBVIOUS
<1>5. /\ app \in Seq(T) /\ Len(app) = Len(log) + 1 /\ app[Len(log) + 1] = row
      /\ \A i \in 1 .. Len(log) : app[i] = old[i]
  BY <1>2, <1>4
<1>6. \A i \in 1 .. Len(log) + 1 : new[i] = app[i]
  BY <1>1, <1>5
<1>7. new = app
  BY <1>3, <1>5, <1>6
<1>8. QED BY <1>1, <1>2, <1>3, <1>4, <1>7

LEMMA TradesAppended ==
  ASSUME NEW log \in Seq(Exec), NEW e \in Exec, NEW next, next = Append(log, e)
  PROVE  /\ TradeLog(next) = Append(TradeLog(log), TradeRow(e))
         /\ Len(TradeLog(next)) > Len(TradeLog(log))
         /\ TradeLog(next)[Len(TradeLog(next))] = TradeRow(e)
<1>1. PICK T : T = {TradeRow(f) : f \in Exec}
  OBVIOUS
<1>2. PICK old, new : old = TradeLog(log) /\ new = TradeLog(next)
  OBVIOUS
<1>3. /\ next \in Seq(Exec) /\ next[Len(next)] = e /\ Len(next) \in DOMAIN next
      /\ \A i \in DOMAIN log : i \in DOMAIN next /\ next[i] = log[i] /\ log[i] \in Exec
  OBVIOUS
<1>4. /\ DOMAIN old = DOMAIN log /\ DOMAIN new = DOMAIN next
      /\ old = [i \in DOMAIN old |-> old[i]] /\ new = [i \in DOMAIN new |-> new[i]]
      /\ \A i \in DOMAIN log : old[i] \in T /\ new[i] = old[i]
      /\ new[Len(next)] = TradeRow(e) /\ TradeRow(e) \in T
  BY <1>1, <1>2, <1>3 DEF TradeLog
<1>5. new = Append(old, TradeRow(e)) /\ Len(new) > Len(old) /\ new[Len(new)] = TradeRow(e)
  BY <1>4, SeenAppended
<1>6. QED BY <1>2, <1>5

LEMMA CancelsAppended ==
  ASSUME NEW log \in Seq(Cancelled), NEW c \in Cancelled, NEW next, next = Append(log, c)
  PROVE  CancelLog(next) = Append(CancelLog(log), CancelRow(c))
<1>1. PICK T : T = {CancelRow(f) : f \in Cancelled}
  OBVIOUS
<1>2. PICK old, new : old = CancelLog(log) /\ new = CancelLog(next)
  OBVIOUS
<1>3. /\ next \in Seq(Cancelled) /\ next[Len(next)] = c /\ Len(next) \in DOMAIN next
      /\ \A i \in DOMAIN log : i \in DOMAIN next /\ next[i] = log[i] /\ log[i] \in Cancelled
  OBVIOUS
<1>4. /\ DOMAIN old = DOMAIN log /\ DOMAIN new = DOMAIN next
      /\ old = [i \in DOMAIN old |-> old[i]] /\ new = [i \in DOMAIN new |-> new[i]]
      /\ \A i \in DOMAIN log : old[i] \in T /\ new[i] = old[i]
      /\ new[Len(next)] = CancelRow(c) /\ CancelRow(c) \in T
  BY <1>1, <1>2, <1>3 DEF CancelLog
<1>5. new = Append(old, CancelRow(c))
  BY <1>4, SeenAppended
<1>6. QED BY <1>2, <1>5

\* The book without the seconds.
LEMMA BookSeen ==
  /\ \A S, T : Book(S \cup T) = Book(S) \cup Book(T)
  /\ \A o : Book({o}) = {OrderRow(o)} /\ Book({}) = {}
  /\ \A S : Book(S) = {OrderRow(o) : o \in S}
BY DEF Book, OrderRow

LEMMA BookWithout ==
  ASSUME NEW S, \A o, p \in S : o.id = p.id => o = p, NEW R \in SUBSET S
  PROVE  Book(S \ R) = Book(S) \ Book(R)
<1>1. \A o, p \in S : OrderRow(o) = OrderRow(p) => o = p
  BY DEF OrderRow
<1>2. QED BY <1>1, BookSeen

LEMMA BookLeft ==
  ASSUME NEW o \in Order, NEW n \in Int
  PROVE  Book(LeftOf(o, o.amount - n)) = L!Left(OrderRow(o), n)
<1>1. o.amount \in Int
  BY DEF Order
<1>2. CASE o.amount = n
  BY <1>1, <1>2, BookSeen DEF LeftOf, L!Left, OrderRow
<1>3. CASE o.amount # n
  <2>1. LeftOf(o, o.amount - n) = {[o EXCEPT !.amount = o.amount - n]}
    BY <1>1, <1>3 DEF LeftOf
  <2>2. OrderRow([o EXCEPT !.amount = o.amount - n]) = [OrderRow(o) EXCEPT !.amount = @ - n]
    BY DEF OrderRow, Order
  <2>3. L!Left(OrderRow(o), n) = {[OrderRow(o) EXCEPT !.amount = @ - n]}
    BY <1>3 DEF L!Left, OrderRow
  <2>4. QED BY <2>1, <2>2, <2>3, BookSeen
<1>4. QED BY <1>2, <1>3

\* The buyer's POSITION row is written or inserted.
LEMMA MoveDelivered ==
  ASSUME TablesOK, NEW a, NEW s, NEW n \in Int,
         position' = Deliver(position, <<a, s>>, n)
  PROVE  L!Move(a, s, n)
<1>1. /\ position \in [DOMAIN position -> Int]
      /\ \A k \in DOMAIN position : k = <<k[1], k[2]>>
  BY DEF TablesOK
<1>2. DOMAIN position' = DOMAIN position \cup {<<a, s>>}
  BY DEF Deliver
<1>3. ASSUME NEW k \in DOMAIN position'
      PROVE  position'[k] = L!SharesOf(k[1], k[2]) + (IF k = <<a, s>> THEN n ELSE 0)
  <2>1. k = <<k[1], k[2]>>
    BY <1>1, <1>2
  <2>2. L!SharesOf(k[1], k[2]) = IF k \in DOMAIN position THEN position[k] ELSE 0
    BY <2>1 DEF L!SharesOf
  <2>3. CASE k = <<a, s>>
    BY <1>1, <1>2, <2>2, <2>3 DEF Deliver
  <2>4. CASE k # <<a, s>>
    BY <1>1, <1>2, <2>2, <2>4 DEF Deliver
  <2>5. QED BY <2>3, <2>4
<1>4. QED BY <1>2, <1>3 DEF L!Move

\* With one symbol, all positions of an account are the position in that symbol.
LEMMA MoveShifted ==
  ASSUME TablesOK, \E q : Syms = {q}, NEW a, NEW s \in Syms, <<a, s>> \in DOMAIN position,
         NEW n \in Int, position' = ShiftPositions(position, a, n)
  PROVE  L!Move(a, s, n)
<1>1. /\ position \in [DOMAIN position -> Int]
      /\ \A k \in DOMAIN position : k = <<k[1], k[2]>> /\ k[2] = s
  BY DEF TablesOK
<1>2. DOMAIN position' = DOMAIN position \cup {<<a, s>>}
  BY DEF ShiftPositions
<1>3. ASSUME NEW k \in DOMAIN position'
      PROVE  position'[k] = L!SharesOf(k[1], k[2]) + (IF k = <<a, s>> THEN n ELSE 0)
  <2>1. k \in DOMAIN position /\ k = <<k[1], s>>
    BY <1>1, <1>2
  <2>2. L!SharesOf(k[1], k[2]) = position[k]
    BY <1>1, <2>1 DEF L!SharesOf
  <2>3. k = <<a, s>> <=> k[1] = a
    BY <2>1
  <2>4. position'[k] = IF k[1] = a THEN position[k] + n ELSE position[k]
    BY <2>1 DEF ShiftPositions
  <2>5. QED BY <1>1, <2>1, <2>2, <2>3, <2>4
<1>4. QED BY <1>2, <1>3 DEF L!Move

\* What the ledger sees of a step that writes no table.
LEMMA UnseenStep ==
  UNCHANGED <<account, position, openOrder, exec, cancel, placed>> => UNCHANGED L!vars
BY DEF L!vars, Book

\* Whose rows the ledger's accounts and orders are.
LInv == SInv /\ SellersKnown

LEMMA LedgerFacts ==
  ASSUME LInv
  PROVE  /\ TablesOK /\ SInv /\ SellersKnown
         /\ account \in [DOMAIN account -> Int]
         /\ \A o \in openOrder : o \in Order /\ o.acct \in DOMAIN account
         /\ \A o, p \in openOrder : o.id = p.id => o = p
         /\ \A w \in Workers : task[w] \in Task /\ TaskOK(task[w])
BY DEF LInv, SInv, SharesInv, SharesInvariant, OneRow, Inv, TypeOK, TablesOK, TasksOK

LEMMA CreateLedger ==
  ASSUME LInv, NEW w \in Workers, CreateStep(w)
  PROVE  L!Next \/ UNCHANGED L!vars
<1> DEFINE r == task[w].req
<1>1. TablesOK /\ TaskOK(task[w])
  BY LedgerFacts
<1>2. CASE CreateAccount(w) /\ r.acct \in DOMAIN account
  <2>1. UNCHANGED <<position, openOrder, exec, cancel, placed>>
    BY <1>2 DEF CreateAccount
  <2>2. account' = [a \in DOMAIN account |-> account[a]]
    BY <1>2 DEF CreateAccount
  <2>3. account' = account
    BY <2>2, LedgerFacts
  <2>4. QED BY <2>1, <2>3, UnseenStep
<1>3. CASE CreateAccount(w) /\ r.acct \notin DOMAIN account
  <2>1. UNCHANGED <<position, openOrder, exec, cancel, placed>>
    BY <1>3 DEF CreateAccount
  <2>2. /\ account' = [a \in DOMAIN account \cup {r.acct} |->
                         IF a = r.acct THEN r.balance ELSE account[a]]
        /\ DOMAIN account' = DOMAIN account \cup {r.acct}
        /\ account'[r.acct] = r.balance
    BY <1>3 DEF CreateAccount
  <2>3. r.acct \in DOMAIN account' \ DOMAIN account
    BY <1>3, <2>2
  <2>4. L!OpenAccount(r.acct, account'[r.acct])
    BY <1>3, <2>1, <2>2 DEF L!OpenAccount, Book
  <2>5. QED BY <2>3, <2>4 DEF L!Next
<1>4. CASE CreatePosition(w)
  <2>1. /\ r \in CreateSymbolReq /\ r.acct \in DOMAIN account
        /\ position' = Deliver(position, <<r.acct, r.sym>>, r.num)
        /\ UNCHANGED <<account, openOrder, exec, cancel, placed>>
    BY <1>1, <1>4, CreateReqType DEF CreatePosition, At, TaskOK
  <2>2. PICK a, s, n : a = r.acct /\ s = r.sym /\ n = r.num
    OBVIOUS
  <2>3. n \in Int /\ a \in DOMAIN account /\ position' = Deliver(position, <<a, s>>, n)
    BY <2>1, <2>2 DEF CreateSymbolReq
  <2>4. L!Move(a, s, n)
    BY <1>1, <2>3, MoveDelivered
  <2>5. <<a, s>> \in DOMAIN position'
    BY <2>3 DEF Deliver
  <2>6. n = position'[<<a, s>>] - L!SharesOf(a, s)
    <3>1. L!SharesOf(a, s) \in Int
      BY <1>1 DEF L!SharesOf, TablesOK
    <3>2. position'[<<a, s>>] = L!SharesOf(a, s) + n
      BY <2>4, <2>5 DEF L!Move
    <3>3. QED BY <2>3, <3>1, <3>2
  <2>7. L!Grant(a, s, n)
    BY <2>1, <2>3, <2>4 DEF L!Grant, Book
  <2>8. PICK k : k = <<a, s>>
    OBVIOUS
  <2>9. k \in DOMAIN position' /\ L!Grant(k[1], k[2], position'[k] - L!SharesOf(k[1], k[2]))
    BY <2>5, <2>6, <2>7, <2>8
  <2>10. QED BY <2>9 DEF L!Next
<1>5. CASE AbandonPosition(w)
  BY <1>5, UnseenStep DEF AbandonPosition, tables
<1>6. QED BY <1>2, <1>3, <1>4, <1>5 DEF CreateStep

LEMMA CommitOrderLedger ==
  ASSUME LInv, \E q : Syms = {q}, NEW w \in Workers, CommitOrder(w)
  PROVE  L!Next
<1> DEFINE r == task[w].req
<1>1. PICK o : o = [id |-> nextId, acct |-> r.acct, sym |-> r.sym, amount |-> r.amount,
                    price |-> r.limit, time |-> task[w].curr]
  OBVIOUS
<1>2. /\ TablesOK /\ Inv /\ account \in [DOMAIN account -> Int]
      /\ r \in OrderReq /\ r.acct \in DOMAIN account
      /\ task[w].pc = "insert"
  <2>1. task[w].pc = "insert" /\ task[w].pc \in OrderPCs
    BY DEF CommitOrder, At, OrderPCs
  <2>2. TypeOK /\ Inv
    BY DEF LInv, SInv, SharesInv, Inv
  <2>3. QED BY <2>1, <2>2, OrderTask, LedgerFacts
<1>3. /\ openOrder' = openOrder \cup {o} /\ placed' = placed \cup {o}
      /\ position' = IF r.amount < 0 THEN ShiftPositions(position, r.acct, r.amount) ELSE position
      /\ account' = IF r.amount > 0 THEN Pay(account, r.acct, -(r.limit * r.amount)) ELSE account
      /\ UNCHANGED <<exec, cancel>>
  BY <1>1 DEF CommitOrder
<1>4. /\ o.id = nextId /\ o.acct = r.acct /\ o.sym = r.sym /\ o.amount = r.amount
      /\ o.price = r.limit /\ o.amount \in Int /\ o.price \in Int /\ o.sym \in Syms
  BY <1>1, <1>2 DEF OrderReq
<1>5. PICK row : row = OrderRow(o)
  OBVIOUS
<1>6. /\ row.id = nextId /\ row.acct = r.acct /\ row.sym = r.sym /\ row.amount = r.amount
      /\ row.price = r.limit
  BY <1>4, <1>5 DEF OrderRow
<1>7. Book(openOrder)' = Book(openOrder) \cup {row} /\ row \in Book(openOrder)' \ Book(openOrder)
  <2>1. Book(openOrder') = Book(openOrder) \cup {row}
    BY <1>3, <1>5, BookSeen
  <2>2. \A p \in openOrder : p.id # nextId
    <3>1. OrderStep(w)
      BY DEF OrderStep
    <3>2. Step(w)
      BY <3>1 DEF Step
    <3>3. nextId \in Int /\ \A p \in placed \cup openOrder : p.id \in Int /\ p.id < nextId
      BY <3>2, NewIds DEF LInv, SInv
    <3>4. QED BY <3>3
  <2>3. \A p \in openOrder : OrderRow(p) # row
    BY <1>6, <2>2 DEF OrderRow
  <2>4. row \notin Book(openOrder)
    BY <2>3, BookSeen
  <2>5. QED BY <2>1, <2>4 DEF Book
<1>8. row.id \notin {p.id : p \in placed}
      /\ {p.id : p \in placed'} = {p.id : p \in placed} \cup {row.id}
  <2>1. \A p \in placed : p.id # nextId
    BY <1>2, OrderNumbers
  <2>2. QED BY <1>3, <1>4, <1>6, <2>1
<1>9. \/ /\ row.amount >= 0
         /\ account' = [account EXCEPT ![row.acct] = @ - row.amount * row.price]
         /\ UNCHANGED position
      \/ /\ row.amount < 0
         /\ L!Move(row.acct, row.sym, row.amount)
         /\ UNCHANGED account
  <2>1. CASE r.amount > 0
    <3>1. PICK m : m = r.limit * r.amount
      OBVIOUS
    <3>2. m = row.amount * row.price /\ m \in Int
      BY <1>4, <1>6, <3>1
    <3>3. account' = [account EXCEPT ![row.acct] = account[row.acct] + (-m)]
          /\ account[row.acct] \in Int
      BY <1>2, <1>3, <1>6, <2>1, <3>1 DEF Pay
    <3>4. account[row.acct] + (-m) = account[row.acct] - m
      BY <3>2, <3>3
    <3>5. account' = [account EXCEPT ![row.acct] = @ - row.amount * row.price]
      BY <3>2, <3>3, <3>4
    <3>6. ~(r.amount < 0) /\ row.amount >= 0
      BY <1>4, <1>6, <2>1
    <3>7. QED BY <1>3, <3>5, <3>6
  <2>2. CASE r.amount = 0
    <3>1. account[row.acct] \in Int /\ row.amount * row.price = 0
      BY <1>2, <1>4, <1>6, <2>2
    <3>2. account = [account EXCEPT ![row.acct] = @ - row.amount * row.price]
      BY <1>2, <3>1
    <3>3. QED BY <1>3, <1>6, <2>2, <3>2
  <2>3. CASE r.amount < 0
    <3>1. <<r.acct, r.sym>> \in DOMAIN position
      BY <1>2, <2>3, LedgerFacts DEF SellersKnown
    <3>2. PICK a, s, n : a = r.acct /\ s = r.sym /\ n = r.amount
      OBVIOUS
    <3>3. L!Move(a, s, n)
      BY <1>2, <1>3, <1>4, <2>3, <3>1, <3>2, MoveShifted
    <3>4. ~(r.amount > 0)
      BY <1>4, <2>3
    <3>5. QED BY <1>3, <1>6, <2>3, <3>2, <3>3, <3>4
  <2>4. QED BY <1>4, <2>1, <2>2, <2>3
<1>10. L!Place(row)
  BY <1>2, <1>3, <1>6, <1>7, <1>8, <1>9 DEF L!Place
<1>11. QED BY <1>7, <1>10 DEF L!Next

LEMMA CancelLedger ==
  ASSUME LInv, \E q : Syms = {q}, NEW w \in Workers, CommitCancel(w)
  PROVE  L!Next \/ UNCHANGED L!vars
<1>1. CASE UNCHANGED tables
  BY <1>1, UnseenStep DEF tables
<1>2. ASSUME NEW o \in openOrder, NEW c,
             c = [acct |-> o.acct, id |-> o.id, sym |-> o.sym, amount |-> o.amount],
             cancel' = Append(cancel, c),
             position' = IF o.amount < 0 THEN ShiftPositions(position, o.acct, -o.amount)
                                         ELSE position,
             account' = IF o.amount < 0 THEN account ELSE Pay(account, o.acct, o.price * o.amount),
             openOrder' = openOrder \ {o}, UNCHANGED <<exec, placed>>
      PROVE  L!Next
  <2>1. PICK row : row = OrderRow(o)
    OBVIOUS
  <2>2. /\ TablesOK /\ Inv /\ account \in [DOMAIN account -> Int] /\ o.acct \in DOMAIN account
        /\ o.amount \in Int /\ o.price \in Int /\ o.sym \in Syms /\ o \in Order
        /\ row.id = o.id /\ row.acct = o.acct /\ row.sym = o.sym /\ row.amount = o.amount
        /\ row.price = o.price
    BY <2>1, LedgerFacts DEF OrderRow, Order, LInv, SInv, SharesInv
  <2>3. Book(openOrder)' = Book(openOrder) \ {row} /\ row \in Book(openOrder)
    <3>1. PICK next : next = openOrder \ {o}
      OBVIOUS
    <3>2. \A p, q \in openOrder : p.id = q.id => p = q
      BY LedgerFacts
    <3>3. {o} \in SUBSET openOrder
      BY <1>2
    <3>4. Book(next) = Book(openOrder) \ Book({o})
      BY <3>1, <3>2, <3>3, BookWithout
    <3>5. row \in Book(openOrder) /\ Book(next) = Book(openOrder) \ {row}
      BY <1>2, <2>1, <3>4, BookSeen
    <3>6. openOrder' = next
      BY <1>2, <3>1
    <3>7. QED BY <3>5, <3>6 DEF Book
  <2>4. \/ /\ row.amount >= 0
           /\ account' = [account EXCEPT ![row.acct] = @ + row.amount * row.price]
           /\ UNCHANGED position
        \/ /\ row.amount < 0
           /\ L!Move(row.acct, row.sym, -row.amount)
           /\ UNCHANGED account
    <3>1. CASE o.amount < 0
      <4>1. <<o.acct, o.sym>> \in DOMAIN position
        <5>1. PICK p \in placed : RemainderOf(o, p)
          BY LedgerFacts DEF SInv, SharesInv, OInv, BookInv, OrderInvariant, Inv
        <5>2. p.amount < 0 /\ p.acct = o.acct /\ p.sym = o.sym
          BY <2>2, <3>1, <5>1, OrderNumbers DEF RemainderOf
        <5>3. QED BY <5>2, LedgerFacts DEF SellersKnown
      <4>2. PICK a, s, n : a = o.acct /\ s = o.sym /\ n = -o.amount
        OBVIOUS
      <4>3. /\ n \in Int /\ s \in Syms /\ <<a, s>> \in DOMAIN position
            /\ position' = ShiftPositions(position, a, n)
        BY <1>2, <2>2, <3>1, <4>1, <4>2
      <4>4. L!Move(a, s, n)
        BY <2>2, <4>3, MoveShifted
      <4>5. QED BY <1>2, <2>2, <3>1, <4>2, <4>4
    <3>2. CASE ~(o.amount < 0)
      <4>1. o.price * o.amount = row.amount * row.price
        BY <2>2
      <4>2. account' = [account EXCEPT ![row.acct] = @ + row.amount * row.price]
        BY <1>2, <2>2, <3>2, <4>1 DEF Pay
      <4>3. row.amount >= 0
        BY <2>2, <3>2
      <4>4. QED BY <1>2, <3>2, <4>2, <4>3
    <3>3. QED BY <3>1, <3>2
  <2>5. CancelLog(cancel)' = Append(CancelLog(cancel), [id |-> row.id, amount |-> row.amount])
    <3>1. c \in Cancelled /\ cancel \in Seq(Cancelled)
      BY <1>2, <2>2 DEF Cancelled, Order, TablesOK
    <3>2. CancelLog(cancel') = Append(CancelLog(cancel), CancelRow(c))
      BY <1>2, <3>1, CancelsAppended
    <3>3. CancelRow(c) = [id |-> row.id, amount |-> row.amount]
      BY <1>2, <2>2 DEF CancelRow
    <3>4. QED BY <3>2, <3>3 DEF CancelLog
  <2>6. [i \in DOMAIN cancel |-> [id |-> cancel[i].id, amount |-> cancel[i].amount]]'
          = Append([i \in DOMAIN cancel |-> [id |-> cancel[i].id, amount |-> cancel[i].amount]],
                   [id |-> row.id, amount |-> row.amount])
    BY <2>5 DEF CancelLog, CancelRow
  <2>7. L!Withdraw(row)
    BY <1>2, <2>3, <2>4, <2>6 DEF L!Withdraw
  <2>8. QED BY <2>3, <2>7 DEF L!Next
<1>3. QED BY <1>1, <1>2, SerialCancel DEF LInv

\* A trade of two orders of the book that SerialTrade finds is one of the ledger's.
LEMMA TradeLedger ==
  ASSUME LInv, NEW b \in openOrder, NEW s \in openOrder,
         NEW n \in Int, NEW price \in Int, NEW refund \in Int, TradeOf(b, s, n, price, refund),
         UNCHANGED <<cancel, placed>>
  PROVE  L!Next
<1>1. /\ TablesOK /\ account \in [DOMAIN account -> Int]
      /\ \A o, p \in openOrder : o.id = p.id => o = p
      /\ b \in Order /\ s \in Order /\ b.acct \in DOMAIN account /\ s.acct \in DOMAIN account
  BY LedgerFacts
<1>2. /\ b.amount \in Int /\ s.amount \in Int /\ b.price \in Int /\ s.price \in Int
      /\ b.id \in Int /\ s.id \in Int /\ b.sym \in Syms
      /\ b.acct \in Accounts /\ s.acct \in Accounts
  BY <1>1 DEF Order
<1>3. /\ b.amount > 0 /\ s.amount < 0 /\ b.sym = s.sym /\ b.acct # s.acct /\ b.id # s.id
      /\ s.price <= price /\ price <= b.price /\ 0 <= refund /\ refund <= b.price - price
      /\ 0 < n /\ n <= b.amount /\ n <= -s.amount /\ (n = b.amount \/ n = -s.amount)
  BY DEF TradeOf
<1>4. PICK e : e = [buyer |-> b.acct, seller |-> s.acct, buy |-> b.id, sell |-> s.id,
                    sym |-> b.sym, amount |-> n, price |-> price]
  OBVIOUS
<1>5. /\ exec' = Append(exec, e)
      /\ openOrder' = (openOrder \ {b, s}) \cup LeftOf(b, b.amount - n)
                                           \cup LeftOf(s, s.amount + n)
      /\ account' = Pay(Pay(account, b.acct, refund), s.acct, price * n)
      /\ position' = Deliver(position, <<b.acct, b.sym>>, n)
  BY <1>4 DEF TradeOf
<1>6. PICK rb, rs : rb = OrderRow(b) /\ rs = OrderRow(s)
  OBVIOUS
<1>7. /\ rb.id = b.id /\ rb.acct = b.acct /\ rb.sym = b.sym
      /\ rb.amount = b.amount /\ rb.price = b.price
      /\ rs.id = s.id /\ rs.acct = s.acct /\ rs.sym = s.sym
      /\ rs.amount = s.amount /\ rs.price = s.price
  BY <1>6 DEF OrderRow
<1>8. n = IF rb.amount <= -rs.amount THEN rb.amount ELSE -rs.amount
  BY <1>2, <1>3, <1>7
<1>9. /\ rb \in Book(openOrder) /\ rs \in Book(openOrder)
      /\ Book(openOrder)' = (Book(openOrder) \ {rb, rs}) \cup L!Left(rb, n) \cup L!Left(rs, -n)
  <2>1. PICK lb, ls : lb = LeftOf(b, b.amount - n) /\ ls = LeftOf(s, s.amount + n)
    OBVIOUS
  <2>2. Book(lb) = L!Left(rb, n)
    BY <1>1, <1>6, <2>1, BookLeft
  <2>3. Book(ls) = L!Left(rs, -n)
    <3>1. PICK m : m = -n
      OBVIOUS
    <3>2. m \in Int /\ s.amount + n = s.amount - m
      BY <1>2, <3>1
    <3>3. ls = LeftOf(s, s.amount - m)
      BY <2>1, <3>2
    <3>4. Book(ls) = L!Left(rs, m)
      BY <1>1, <1>6, <3>2, <3>3, BookLeft
    <3>5. QED BY <3>1, <3>4
  <2>4. PICK rest : rest = openOrder \ {b, s}
    OBVIOUS
  <2>5. Book(rest) = Book(openOrder) \ {rb, rs}
    <3>1. {b, s} \in SUBSET openOrder
      OBVIOUS
    <3>2. Book(rest) = Book(openOrder) \ Book({b, s})
      BY <1>1, <2>4, <3>1, BookWithout
    <3>3. Book({b, s}) = {rb, rs}
      BY <1>6, BookSeen
    <3>4. QED BY <3>2, <3>3
  <2>6. PICK next : next = rest \cup lb \cup ls
    OBVIOUS
  <2>7. Book(next) = Book(rest) \cup Book(lb) \cup Book(ls)
    BY <2>6, BookSeen
  <2>8. openOrder' = next
    BY <1>5, <2>1, <2>4, <2>6, Zenon
  <2>9. rb \in Book(openOrder) /\ rs \in Book(openOrder)
    BY <1>6, BookSeen
  <2>10. Book(openOrder') = (Book(openOrder) \ {rb, rs}) \cup L!Left(rb, n) \cup L!Left(rs, -n)
    BY <2>2, <2>3, <2>5, <2>7, <2>8, Zenon
  <2>11. QED BY <2>9, <2>10 DEF Book
<1>10. refund \in 0 .. (rb.price - price) * n
  <2>1. refund <= (b.price - price) * n
    BY <1>2, <1>3, TradeMoney
  <2>2. (b.price - price) * n \in Int
    BY <1>2
  <2>3. QED BY <1>3, <1>7, <2>1, <2>2
<1>11. account' = [account EXCEPT ![rb.acct] = @ + refund, ![rs.acct] = @ + price * n]
  <2>1. PICK m : m = price * n
    OBVIOUS
  <2>2. account' = Pay(Pay(account, b.acct, refund), s.acct, m)
    BY <1>5, <2>1
  <2>3. account' = [account EXCEPT ![b.acct] = @ + refund, ![s.acct] = @ + m]
    BY <1>1, <1>3, <2>2 DEF Pay
  <2>4. QED BY <1>7, <2>1, <2>3
<1>12. L!Move(rb.acct, rb.sym, n)
  <2>1. PICK a, q : a = b.acct /\ q = b.sym
    OBVIOUS
  <2>2. L!Move(a, q, n)
    BY <1>1, <1>5, <2>1, MoveDelivered
  <2>3. QED BY <1>7, <2>1, <2>2
<1>13. PICK row : row = [buy |-> rb.id, sell |-> rs.id, amount |-> n, price |-> price]
  OBVIOUS
<1>14. /\ TradeLog(exec)' = Append(TradeLog(exec), row)
       /\ Len(TradeLog(exec)') > Len(TradeLog(exec))
       /\ TradeLog(exec)'[Len(TradeLog(exec)')].price = price
  <2>1. e \in Exec /\ exec \in Seq(Exec)
    BY <1>1, <1>2, <1>4 DEF Exec, TablesOK
  <2>2. TradeRow(e) = row
    BY <1>4, <1>7, <1>13 DEF TradeRow
  <2>3. PICK next : next = Append(exec, e)
    OBVIOUS
  <2>4. /\ TradeLog(next) = Append(TradeLog(exec), row)
        /\ Len(TradeLog(next)) > Len(TradeLog(exec))
        /\ TradeLog(next)[Len(TradeLog(next))] = row
    BY <2>1, <2>2, <2>3, TradesAppended
  <2>5. exec' = next
    BY <1>5, <2>3
  <2>6. TradeLog(exec)' = TradeLog(next)
    BY <2>5 DEF TradeLog
  <2>7. QED BY <1>13, <2>4, <2>6
<1>15. PICK old, new : old = TradeLog(exec) /\ new = TradeLog(exec)'
  OBVIOUS
<1>16. /\ old = [i \in DOMAIN exec |-> [buy |-> exec[i].buy, sell |-> exec[i].sell,
                                        amount |-> exec[i].amount, price |-> exec[i].price]]
       /\ new = [i \in DOMAIN exec |-> [buy |-> exec[i].buy, sell |-> exec[i].sell,
                                        amount |-> exec[i].amount, price |-> exec[i].price]]'
  BY <1>15 DEF TradeLog, TradeRow
<1>17. new = Append(old, row) /\ Len(new) > Len(old) /\ new[Len(new)].price = price
  BY <1>14, <1>15
<1>18. L!Trade(rb, rs, price)
  <2>1. /\ rb.amount > 0 /\ rs.amount < 0 /\ rb.sym = rs.sym /\ rb.acct # rs.acct
        /\ rs.price <= price /\ price <= rb.price
    BY <1>3, <1>7
  <2>2. UNCHANGED <<{p.id : p \in placed},
                    [i \in DOMAIN cancel |-> [id |-> cancel[i].id, amount |-> cancel[i].amount]]>>
    OBVIOUS
  <2>3. QED BY <1>8, <1>9, <1>10, <1>11, <1>12, <1>13, <1>16, <1>17, <2>1, <2>2 DEF L!Trade
<1>19. L!Trade(rb, rs, TradeLog(exec)'[Len(TradeLog(exec)')].price)
  <2>1. TradeLog(exec)'[Len(TradeLog(exec)')].price = price
    BY <1>14
  <2>2. QED BY ONLY <1>18, <2>1, Zenon DEF L!Trade
<1>20. Len(TradeLog(exec)') > Len(TradeLog(exec))
  BY <1>14
<1>21. QED BY ONLY <1>9, <1>19, <1>20, Zenon DEF L!Next, TradeLog, TradeRow

\* Every step of the exchange is one of the ledger or is not seen there.
LEMMA LedgerStep ==
  ASSUME LInv, \E q : Syms = {q}, [Next]_vars
  PROVE  L!Next \/ UNCHANGED L!vars
<1>1. CASE UNCHANGED tables
  BY <1>1, UnseenStep DEF tables
<1>2. ASSUME NEW w \in Workers, Match(w)
      PROVE  L!Next
  <2>1. PICK b, s \in openOrder : \E n, price, refund \in Int : TradeOf(b, s, n, price, refund)
    BY <1>2, SerialTrade DEF LInv
  <2>2. PICK n, price, refund \in Int : TradeOf(b, s, n, price, refund)
    BY <2>1
  <2>3. UNCHANGED <<cancel, placed>>
    BY <1>2 DEF Match
  <2>4. QED BY <2>2, <2>3, TradeLedger
<1>3. ASSUME NEW w \in Workers, Receive(w) \/ Step(w)
      PROVE  L!Next \/ UNCHANGED L!vars
  BY <1>1, <1>2, <1>3, Writers, CreateLedger, CommitOrderLedger, CancelLedger
<1>4. CASE UNCHANGED vars
  BY <1>1, <1>4 DEF vars
<1>5. QED BY <1>3, <1>4 DEF Next

\* With one worker and one symbol, for any accounts, orders and workloads, every
\* committed transaction is one step of the abstract ledger and nothing else ever
\* moves cash or shares, if no two orders bear one second and no transaction is
\* aborted.
THEOREM ImplementsLedger ==
  ASSUME SameSecond = FALSE, MayAbort = FALSE, OneWorker, \E s : Syms = {s}
  PROVE  Spec => LedgerSpec
<1>1. Init => L!Init
  BY DEF Init, L!Init, Book
<1>2. SInv /\ AuditInvariant /\ [Next]_vars => [L!Next]_(L!vars)
  <2> SUFFICES ASSUME SInv, AuditInvariant, [Next]_vars PROVE [L!Next]_(L!vars)
    OBVIOUS
  <2>1. LInv
    BY DEF LInv, AuditInvariant
  <2>2. QED BY <2>1, LedgerStep
<1>3. Inv /\ OInv /\ AuditInvariant /\ [Next]_vars => AuditInvariant'
  BY NextAudit DEF AuditInv
<1>4. Spec => []AuditInvariant
  BY <1>3, Basis, InitAudit, PTL DEF Spec
<1>5. Spec => L!Init /\ [][L!Next]_(L!vars)
  BY <1>1, <1>2, <1>4, SerialHolds, PTL DEF Spec
<1>6. QED BY <1>5 DEF LedgerSpec, L!Spec

-----------------------------------------------------------------------------
(* No account is overdrawn.  Only CreateOrder takes money from an account, and  *)
(* what checkBuyerMoney saw is still there if no other worker ran in between.   *)

FInv == OInv /\ FundsInvariant

\* A worker turns to its next sub-request, or is still at the same one, with rows
\* it had or that are in the book.
LEMMA SameRequest ==
  ASSUME TypeOK, NEW w \in Workers, Receive(w) \/ Step(w)
  PROVE  \/ Receive(w) /\ task'[w] = Run(Head(todo))
         \/ todo' = todo /\ task'[w] = Run(task[w].rest)
         \/ /\ todo' = todo /\ task[w].pc # "idle"
            /\ task'[w].req = task[w].req /\ task'[w].rest = task[w].rest
<1> DEFINE u == task'[w]
           Same == task[w].pc # "idle" /\ u.req = task[w].req /\ u.rest = task[w].rest
<1>1. task \in [Workers -> Task] /\ task[w] \in Task
  BY DEF TypeOK, TasksOK
<1>2. ASSUME NEW ok, NEW val, NEW report, Reply(w, ok, val, report)
      PROVE  u = Run(task[w].rest)
  BY <1>1, <1>2 DEF Reply
<1>3. ASSUME task[w].pc # "idle", NEW pc, Goto(w, pc) \/ Enter(w, pc)
      PROVE  Same
  BY <1>1, <1>3 DEF Goto, Enter, Task
<1>4. CASE Receive(w)
  BY <1>1, <1>4 DEF Receive
<1>5. CASE CheckAccount(w) \/ CheckFunds(w) \/ CheckTransID(w) \/ CheckBelong(w) \/ CheckIfOpen(w)
  <2>1. task[w].pc # "idle" /\ todo' = todo
    BY <1>5 DEF CheckAccount, CheckFunds, CheckTransID, CheckBelong, CheckIfOpen, At
  <2>2. Reject(w) \/ \E pc : Goto(w, pc) \/ Enter(w, pc)
    BY <1>5, Zenon DEF CheckAccount, CheckFunds, CheckTransID, CheckBelong, CheckIfOpen
  <2>3. QED BY <1>2, <1>3, <2>1, <2>2 DEF Reject
<1>6. CASE CreateStep(w) \/ ReplyOpened(w) \/ AbandonCancel(w) \/ ReadExecuted(w)
  <2>1. todo' = todo /\ \E ok, val, report : Reply(w, ok, val, report)
    BY <1>6, Zenon DEF CreateStep, CreateAccount, CreatePosition, AbandonPosition, ReplyOpened,
       AbandonCancel, ReadExecuted
  <2>2. QED BY <1>2, <2>1
<1>7. CASE CommitOrder(w) \/ AbandonOrder(w) \/ AbandonSelect(w) \/ CommitCancel(w)
  <2>1. task[w].pc # "idle" /\ todo' = todo /\ \E pc : Goto(w, pc)
    BY <1>7 DEF CommitOrder, AbandonOrder, AbandonSelect, CommitCancel, At
  <2>2. QED BY <1>3, <2>1
<1>8. CASE BeginOrder(w) \/ LookupId(w) \/ SelectRows(w) \/ LockRows(w) \/ Look(w) \/ ReadOrder(w)
  <2>1. task[w].pc # "idle" /\ todo' = todo
    BY <1>8 DEF BeginOrder, LookupId, SelectRows, LockRows, Look, ReadOrder, At
  <2>2. ASSUME NEW t, task' = [task EXCEPT ![w] = t], t.req = task[w].req, t.rest = task[w].rest
        PROVE  Same
    BY <1>1, <2>1, <2>2
  <2>3. CASE BeginOrder(w)
    <3>1. PICK n : task' = [task EXCEPT ![w] = [task[w] EXCEPT !.curr = n, !.pc = "insert"]]
      BY <2>3 DEF BeginOrder
    <3>2. QED BY <1>1, <2>1, <2>2, <3>1 DEF Task
  <2>4. CASE LookupId(w)
    <3>1. PICK i, pc : task' = [task EXCEPT ![w] = [task[w] EXCEPT !.tid = i, !.pc = pc]]
      BY <2>4 DEF LookupId
    <3>2. QED BY <1>1, <2>1, <2>2, <3>1 DEF Task
  <2>5. CASE SelectRows(w)
    <3>1. PICK rows, left : task' = [task EXCEPT ![w] =
                              [task[w] EXCEPT !.rows = rows, !.left = left, !.pc = "lock"]]
      BY <2>5 DEF SelectRows
    <3>2. QED BY <1>1, <2>1, <2>2, <3>1 DEF Task
  <2>6. CASE LockRows(w)
    <3>1. PICK rows : task' = [task EXCEPT ![w] = [task[w] EXCEPT !.rows = rows, !.pc = "match"]]
      BY <2>6 DEF LockRows
    <3>2. QED BY <1>1, <2>1, <2>2, <3>1 DEF Task
  <2>7. CASE ReadOrder(w)
    <3>1. PICK rows, report : task' = [task EXCEPT ![w] =
                                [task[w] EXCEPT !.rows = rows, !.report = report, !.pc = "cancel"]]
      BY <2>7 DEF ReadOrder
    <3>2. QED BY <1>1, <2>1, <2>2, <3>1 DEF Task
  <2>8. CASE Look(w)
    BY <1>1, <2>1, <2>8 DEF Look, Task
  <2>9. QED BY <1>8, <2>1, <2>3, <2>4, <2>5, <2>6, <2>7, <2>8
<1>9. CASE Match(w) \/ AbandonMatch(w)
  <2>1. PICK o \in task[w].rows : task' = [task EXCEPT ![w] = AfterFill(w, o)]
    BY <1>9 DEF Match, AbandonMatch, Leading, NextRow
  <2>2. AfterFill(w, o).req = task[w].req /\ AfterFill(w, o).rest = task[w].rest
    BY <1>1 DEF AfterFill, Task
  <2>3. task[w].pc # "idle" /\ todo' = todo
    BY <1>9 DEF Match, AbandonMatch, At
  <2>4. QED BY <1>1, <2>1, <2>2, <2>3
<1>10. CASE QueryOrder(w)
  <2>1. CASE task[w].look < 3
    BY <1>1, <1>10, <2>1 DEF QueryOrder, At, Task
  <2>2. CASE ~(task[w].look < 3)
    BY <1>2, <1>10, <2>2 DEF QueryOrder
  <2>3. QED BY <2>1, <2>2
<1>11. QED
  BY <1>4, <1>5, <1>6, <1>7, <1>8, <1>9, <1>10 DEF Step, OrderStep, QueryStep, CancelStep

LEMMA SensibleRun ==
  ASSUME NEW subs \in Seq(SubRequest), \A j \in DOMAIN subs : Sensible(subs[j]),
         NEW u, u = Run(subs)
  PROVE  /\ u.pc \in {"idle", "account"} /\ u.rows = {}
         /\ u.pc # "idle" => Sensible(u.req)
         /\ \A j \in DOMAIN u.rest : Sensible(u.rest[j])
<1>1. u.pc \in {"idle", "account"} /\ u.rows = {}
  BY RunType
<1>2. CASE subs = << >>
  <2>1. u.pc = "idle" /\ u.rest = << >>
    BY <1>2 DEF Run, Idle
  <2>2. QED BY <1>1, <2>1
<1>3. CASE subs # << >>
  <2>1. u.req = Head(subs) /\ u.rest = Tail(subs)
    BY <1>3 DEF Run, Idle
  <2>2. /\ Head(subs) = subs[1] /\ 1 \in DOMAIN subs
        /\ \A j \in DOMAIN Tail(subs) : j + 1 \in DOMAIN subs /\ Tail(subs)[j] = subs[j + 1]
    BY <1>3
  <2>3. QED BY <1>1, <2>1, <2>2
<1>4. QED BY <1>2, <1>3

\* The amount and the price of a fill are not negative, nor is the refund.
LEMMA FillMoney ==
  ASSUME FInv, NEW w \in Workers, At(w, "match"), NEW o \in task[w].rows
  PROVE  /\ Trade(w, o).price * Trade(w, o).amount \in Int
         /\ Trade(w, o).price * Trade(w, o).amount >= 0
         /\ Refund(task[w].req, o.price) \in Int /\ Refund(task[w].req, o.price) >= 0
<1>1. /\ task[w].left \in Int /\ o \in Order /\ o.price >= 0
  BY DEF FInv, OInv, TypeOK, TasksOK, Task, FundsInvariant, FundsTask
<1>2. o.amount \in Int /\ o.price \in Int
  BY <1>1 DEF Order
<1>3. PICK n : n = FillAmount(task[w].left, o.amount)
  OBVIOUS
<1>4. n \in Int /\ n >= 0
  BY <1>1, <1>2, <1>3 DEF FillAmount, Abs
<1>5. Trade(w, o).price = o.price /\ Trade(w, o).amount = n
  BY <1>3 DEF Trade
<1>6. o.price * n \in Int /\ o.price * n >= 0
  BY <1>1, <1>2, <1>4
<1>7. Refund(task[w].req, o.price) \in Int /\ Refund(task[w].req, o.price) >= 0
  <2>1. CASE task[w].req.amount > 0 /\ task[w].req.limit > o.price
    <3>1. PICK l : l = task[w].req.limit
      OBVIOUS
    <3>2. l \in Int
      <4>1. task[w].pc \in OrderPCs /\ TypeOK
        BY DEF At, OrderPCs, FInv, OInv
      <4>2. task[w].req \in OrderReq
        BY <4>1, OrderTask
      <4>3. QED BY <3>1, <4>2 DEF OrderReq
    <3>3. QED BY <1>2, <2>1, <3>1, <3>2 DEF Refund
  <2>2. CASE ~(task[w].req.amount > 0 /\ task[w].req.limit > o.price)
    BY <2>2 DEF Refund
  <2>3. QED BY <2>1, <2>2
<1>8. QED BY <1>5, <1>6, <1>7

LEMMA PaidMore ==
  ASSUME NEW f, f \in [DOMAIN f -> Int], NEW k, NEW n \in Int, n >= 0
  PROVE  /\ Pay(f, k, n) \in [DOMAIN f -> Int] /\ DOMAIN Pay(f, k, n) = DOMAIN f
         /\ \A a \in DOMAIN f : Pay(f, k, n)[a] >= f[a]
<1>1. CASE k \in DOMAIN f
  BY <1>1, PayType DEF Pay
<1>2. CASE k \notin DOMAIN f
  <2>1. Pay(f, k, n) = f
    BY <1>2 DEF Pay
  <2>2. QED BY <2>1
<1>3. QED BY <1>1, <1>2

\* Only storing an order takes money from an account.
LEMMA BalancesGrow ==
  ASSUME FInv, NEW w \in Workers, Receive(w) \/ Step(w), ~CommitOrder(w)
  PROVE  /\ \A a \in DOMAIN account : a \in DOMAIN account' /\ account'[a] >= account[a]
         /\ NoOverdraft'
<1>1. TypeOK /\ account \in [DOMAIN account -> Int] /\ task[w] \in Task /\ TaskOK(task[w])
  BY DEF FInv, OInv, TypeOK, TablesOK, TasksOK
<1>2. /\ \A a \in DOMAIN account : account[a] \in Int /\ account[a] >= 0
      /\ FundsTask(task[w])
  BY <1>1 DEF FInv, FundsInvariant, NoOverdraft
<1>3. ASSUME DOMAIN account' = DOMAIN account, account' \in [DOMAIN account -> Int],
             \A a \in DOMAIN account : account'[a] >= account[a]
      PROVE  /\ \A a \in DOMAIN account : a \in DOMAIN account' /\ account'[a] >= account[a]
             /\ NoOverdraft'
  BY <1>2, <1>3 DEF NoOverdraft
<1>4. CASE account' = account
  BY <1>1, <1>2, <1>3, <1>4
<1>5. CASE CreateAccount(w)
  <2>1. task[w].pc = "createAccount"
    BY <1>5 DEF CreateAccount, At
  <2>2. PICK r : r = task[w].req
    OBVIOUS
  <2>3. r \in SubRequest /\ r.op = "account" /\ r.balance >= 0
    BY <1>1, <1>2, <2>1, <2>2 DEF TaskOK, FundsTask, Sensible
  <2>4. account' = [a \in DOMAIN account \cup {r.acct} |->
                      IF a \in DOMAIN account THEN account[a] ELSE r.balance]
    BY <1>5, <2>2 DEF CreateAccount
  <2>5. QED BY <1>1, <1>2, <2>3, <2>4 DEF NoOverdraft
<1>6. CASE Match(w)
  <2>1. PICK o \in task[w].rows :
          account' = Pay(Pay(account, Trade(w, o).buyer, Refund(task[w].req, o.price)),
                         Trade(w, o).seller, Trade(w, o).price * Trade(w, o).amount)
    BY <1>6 DEF Match, Leading
  <2>2. PICK refund, m, a, b : /\ refund = Refund(task[w].req, o.price)
                               /\ m = Trade(w, o).price * Trade(w, o).amount
                               /\ a = Trade(w, o).buyer /\ b = Trade(w, o).seller
    OBVIOUS
  <2>3. refund \in Int /\ refund >= 0 /\ m \in Int /\ m >= 0
    BY <1>6, <2>2, FillMoney DEF Match
  <2>4. PICK paid : paid = Pay(account, a, refund)
    OBVIOUS
  <2>5. /\ paid \in [DOMAIN paid -> Int] /\ DOMAIN paid = DOMAIN account
        /\ \A k \in DOMAIN account : paid[k] >= account[k]
    BY <1>1, <2>3, <2>4, PaidMore
  <2>6. account' = Pay(paid, b, m)
    BY <2>1, <2>2, <2>4
  <2>7. /\ account' \in [DOMAIN paid -> Int] /\ DOMAIN account' = DOMAIN paid
        /\ \A k \in DOMAIN paid : account'[k] >= paid[k]
    BY <2>3, <2>5, <2>6, PaidMore
  <2>8. \A k \in DOMAIN account : account'[k] >= account[k]
    BY <1>1, <2>5, <2>7
  <2>9. QED BY <1>3, <2>5, <2>7, <2>8
<1>7. CASE CommitCancel(w)
  <2>1. CASE account' = account
    BY <1>4, <2>1
  <2>2. ASSUME NEW o \in task[w].rows, ~(o.amount < 0),
               account' = Pay(account, o.acct, o.price * o.amount)
        PROVE  /\ \A a \in DOMAIN account : a \in DOMAIN account' /\ account'[a] >= account[a]
               /\ NoOverdraft'
    <3>1. o.amount \in Int /\ o.price \in Int /\ o.price >= 0 /\ o.amount >= 0
      BY <1>1, <1>2, <2>2 DEF Task, Order, FundsTask
    <3>2. PICK m, k : m = o.price * o.amount /\ k = o.acct
      OBVIOUS
    <3>3. m \in Int /\ m >= 0
      BY <3>1, <3>2
    <3>4. account' = Pay(account, k, m)
      BY <2>2, <3>2
    <3>5. QED BY <1>1, <1>3, <3>3, <3>4, PaidMore
  <2>3. QED BY <1>7, <2>1, <2>2 DEF CommitCancel, tables
<1>8. CreateStep(w) => CreateAccount(w) \/ account' = account
  BY DEF CreateStep, CreatePosition, AbandonPosition, tables
<1>9. UNCHANGED tables => account' = account
  BY DEF tables
<1>10. QED BY <1>4, <1>5, <1>6, <1>7, <1>8, <1>9, Writers

\* What the check saw is enough for the order.
LEMMA StoringPaid ==
  ASSUME FInv, NEW w \in Workers, CommitOrder(w)
  PROVE  NoOverdraft'
<1>1. task[w].pc = "insert" /\ task[w].pc \in OrderPCs
  BY DEF CommitOrder, At, OrderPCs
<1>2. /\ account \in [DOMAIN account -> Int] /\ task[w].req \in OrderReq
      /\ \A a \in DOMAIN account : account[a] >= 0
      /\ task[w].req.amount > 0 =>
           account[task[w].req.acct] >= task[w].req.amount * task[w].req.limit
  BY <1>1, OrderTask DEF FInv, OInv, TypeOK, TablesOK, FundsInvariant, FundsTask, NoOverdraft
<1>3. PICK r : r = task[w].req
  OBVIOUS
<1>4. r.amount \in Int /\ r.limit \in Int
  BY <1>2, <1>3 DEF OrderReq
<1>5. account' = IF r.amount > 0 THEN Pay(account, r.acct, -(r.limit * r.amount)) ELSE account
  BY <1>3 DEF CommitOrder
<1>6. CASE r.amount > 0
  <2>1. PICK m : m = r.limit * r.amount
    OBVIOUS
  <2>2. m \in Int /\ account[r.acct] >= m
    <3>1. r.limit * r.amount = r.amount * r.limit
      BY <1>4
    <3>2. QED BY <1>2, <1>3, <1>4, <1>6, <2>1, <3>1
  <2>3. account' = Pay(account, r.acct, -m)
    BY <1>5, <1>6, <2>1
  <2>4. QED BY <1>2, <2>2, <2>3 DEF NoOverdraft, Pay
<1>7. CASE ~(r.amount > 0)
  BY <1>2, <1>5, <1>7 DEF NoOverdraft
<1>8. QED BY <1>6, <1>7

LEMMA BookPrices ==
  ASSUME FInv, NEW w \in Workers, Receive(w) \/ Step(w)
  PROVE  \A o \in openOrder' : o.price >= 0
<1>1. /\ openOrder \in SUBSET Order /\ task[w] \in Task /\ FundsTask(task[w]) /\ TypeOK
      /\ \A o \in openOrder : o.price >= 0
  BY DEF FInv, OInv, TypeOK, TablesOK, TasksOK, FundsInvariant
<1>2. CASE openOrder' \subseteq openOrder
  BY <1>1, <1>2
<1>3. CASE CommitOrder(w)
  <2>1. task[w].pc = "insert" /\ task[w].pc \in OrderPCs
    BY <1>3 DEF CommitOrder, At, OrderPCs
  <2>2. task[w].req.limit >= 0
    BY <1>1, <2>1, OrderTask DEF FundsTask, Sensible
  <2>3. \A o \in openOrder' : o \in openOrder \/ o.price = task[w].req.limit
    BY <1>3 DEF CommitOrder
  <2>4. QED BY <1>1, <2>2, <2>3
<1>4. CASE Match(w)
  <2>1. PICK o \in task[w].rows :
          openOrder' = Settle(openOrder, Trade(w, o).sell, Trade(w, o).buy,
                              task[w].left + o.amount)
    BY <1>4 DEF Match, Leading, BookAfter
  <2>2. task[w].left + o.amount \in Int
    BY <1>1 DEF Task, Order
  <2>3. \A p \in openOrder' : \E q \in openOrder : p.price = q.price
    BY <1>1, <2>1, <2>2, SettleRows
  <2>4. QED BY <1>1, <2>3
<1>5. CreateStep(w) \/ CommitCancel(w) \/ UNCHANGED tables => openOrder' \subseteq openOrder
  BY DEF CreateStep, CreateAccount, CreatePosition, AbandonPosition, CommitCancel, tables, Without
<1>6. QED BY <1>2, <1>3, <1>4, <1>5, Writers

LEMMA TodoSensible ==
  ASSUME FInv, NEW w \in Workers, Receive(w) \/ Step(w)
  PROVE  \A i \in DOMAIN todo' : \A j \in DOMAIN todo'[i] : Sensible(todo'[i][j])
<1>1. /\ todo \in Seq(Request) /\ TypeOK
      /\ \A i \in DOMAIN todo : \A j \in DOMAIN todo[i] : Sensible(todo[i][j])
  BY DEF FInv, OInv, TypeOK, FundsInvariant
<1>2. CASE Receive(w)
  <2>1. todo # << >> /\ todo' = Tail(todo)
    BY <1>2 DEF Receive
  <2>2. \A i \in DOMAIN todo' : i + 1 \in DOMAIN todo /\ todo'[i] = todo[i + 1]
    BY <1>1, <2>1
  <2>3. QED BY <1>1, <2>2
<1>3. CASE todo' = todo
  BY <1>1, <1>3
<1>4. QED BY <1>1, <1>2, <1>3, SameRequest

\* A balance that passed the check has the money, whatever fraction it lost.
LEMMA AffordableMeans ==
  ASSUME NEW balance \in Int, balance >= 0, NEW r, r.amount * r.limit \in Int, CanPay(balance, r)
  PROVE  balance >= r.amount * r.limit
<1>1. Unit \in Nat /\ Unit > 0
  BY UnitAssumption
<1>2. (balance \div Unit) * Unit <= balance
  <2>1. PICK q, m : q = balance \div Unit /\ m = balance % Unit
    OBVIOUS
  <2>2. q \in Int /\ m \in Int /\ m >= 0 /\ balance = Unit * q + m
    BY <1>1, <2>1
  <2>3. q * Unit = Unit * q /\ q * Unit \in Int
    BY <1>1, <2>2
  <2>4. QED BY <2>1, <2>2, <2>3
<1>3. Truncated(balance) = (balance \div Unit) * Unit /\ (balance \div Unit) * Unit \in Int
  BY <1>1 DEF Truncated
<1>4. QED BY <1>2, <1>3 DEF CanPay

LEMMA TaskFunds ==
  ASSUME FInv, NEW w \in Workers, Receive(w) \/ Step(w), NEW u, u = task'[w]
  PROVE  FundsTask(u)'
<1>1. /\ TypeOK /\ task[w] \in Task /\ TaskOK(task[w]) /\ account \in [DOMAIN account -> Int]
      /\ todo \in Seq(Request)
  BY DEF FInv, OInv, TypeOK, TablesOK, TasksOK
<1>2. /\ FundsTask(task[w]) /\ \A o \in openOrder : o.price >= 0
      /\ \A a \in DOMAIN account : account[a] >= 0
      /\ \A i \in DOMAIN todo : \A j \in DOMAIN todo[i] : Sensible(todo[i][j])
  BY DEF FInv, FundsInvariant, NoOverdraft
<1>3. ASSUME NEW subs \in Seq(SubRequest), \A j \in DOMAIN subs : Sensible(subs[j]), u = Run(subs)
      PROVE  FundsTask(u)'
  <2>1. /\ u.pc \in {"idle", "account"} /\ u.rows = {}
        /\ u.pc # "idle" => Sensible(u.req)
        /\ \A j \in DOMAIN u.rest : Sensible(u.rest[j])
    BY <1>3, SensibleRun
  <2>2. QED BY <2>1 DEF FundsTask, Sensible
<1>4. CASE Receive(w) /\ u = Run(Head(todo))
  <2>1. /\ Head(todo) = todo[1] /\ 1 \in DOMAIN todo /\ Head(todo) \in Seq(SubRequest)
    BY <1>1, <1>4 DEF Receive, Request
  <2>2. QED BY <1>2, <1>3, <1>4, <2>1
<1>5. CASE u = Run(task[w].rest)
  BY <1>1, <1>2, <1>3, <1>5 DEF Task, FundsTask
<1>6. CASE task[w].pc # "idle" /\ u.req = task[w].req /\ u.rest = task[w].rest
  <2>1. Sensible(u.req) /\ \A j \in DOMAIN u.rest : Sensible(u.rest[j])
    BY <1>2, <1>6 DEF FundsTask
  <2>2. \A o \in u.rows : o.price >= 0
    <3>1. u.rows \subseteq task[w].rows \cup openOrder
      BY StepMoved DEF FInv, Moved
    <3>2. QED BY <1>2, <3>1 DEF FundsTask
  <2>3. ASSUME u.pc \in {"begin", "insert"}, u.req.amount > 0
        PROVE  account'[u.req.acct] >= u.req.amount * u.req.limit
    <3>1. PICK r : r = task[w].req
      OBVIOUS
    <3>2. \/ task[w].pc = "begin"
          \/ task[w].pc = "account" /\ r.amount = 0
          \/ task[w].pc = "funds" /\ Affordable(r)
      BY <1>1, <2>3, <3>1, OrderPlaces
    <3>3. task[w].pc \in {"begin", "funds"} /\ r.amount > 0 /\ u.req = r
      BY <1>6, <2>3, <3>1, <3>2
    <3>4. r \in OrderReq /\ r.acct \in DOMAIN account
      <4>1. task[w].pc \in OrderPCs
        BY <3>3 DEF OrderPCs
      <4>2. QED BY <1>1, <3>1, <4>1, OrderTask
    <3>5. r.amount \in Int /\ r.limit \in Int /\ r.amount * r.limit \in Int
      BY <3>4 DEF OrderReq
    <3>6. account[r.acct] \in Int /\ account[r.acct] >= 0
      BY <1>1, <1>2, <3>4
    <3>7. account[r.acct] >= r.amount * r.limit
      <4>1. CASE task[w].pc = "begin"
        BY <1>2, <3>1, <3>3, <4>1 DEF FundsTask
      <4>2. CASE task[w].pc = "funds"
        <5>1. CanPay(account[r.acct], r)
          BY <3>2, <3>3, <3>5, <4>2 DEF Affordable
        <5>2. QED BY <3>5, <3>6, <5>1, AffordableMeans
      <4>3. QED BY <3>3, <4>1, <4>2
    <3>8. ~CommitOrder(w)
      BY <3>3 DEF CommitOrder, At
    <3>9. PICK have, now, need : /\ have = account[r.acct] /\ now = account'[r.acct]
                                 /\ need = r.amount * r.limit
      OBVIOUS
    <3>10. now >= have /\ now \in Int
      <4>1. account'[r.acct] \in Int
        <5>1. TypeOK'
          BY <1>1, NextType DEF Next
        <5>2. r.acct \in DOMAIN account'
          BY <3>4, <3>8, BalancesGrow
        <5>3. QED BY <5>1, <5>2 DEF TypeOK, TablesOK
      <4>2. QED BY <3>4, <3>8, <3>9, <4>1, BalancesGrow
    <3>11. now >= need
      BY <3>5, <3>6, <3>7, <3>9, <3>10
    <3>12. QED BY <3>3, <3>9, <3>11
  <2>4. QED BY <2>1, <2>2, <2>3 DEF FundsTask, Sensible
<1>7. QED BY <1>1, <1>4, <1>5, <1>6, SameRequest

LEMMA NextFunds ==
  ASSUME OneWorker
  PROVE  OInv /\ FundsInvariant /\ [Next]_vars => FundsInvariant'
<1> SUFFICES ASSUME FInv, [Next]_vars PROVE FundsInvariant'
  BY DEF FInv
<1>1. ASSUME NEW w \in Workers, Receive(w) \/ Step(w)
      PROVE  FundsInvariant'
  <2>1. NoOverdraft'
    BY <1>1, BalancesGrow, StoringPaid
  <2>2. PICK u : u = task'[w]
    OBVIOUS
  <2>3. FundsTask(u)'
    BY <1>1, <2>2, TaskFunds
  <2>4. \A v \in Workers : v = w
    BY <1>1 DEF OneWorker
  <2>5. (\A v \in Workers : FundsTask(task[v]))'
    BY <2>2, <2>3, <2>4 DEF FundsTask, Sensible
  <2>6. /\ \A o \in openOrder' : o.price >= 0
        /\ \A i \in DOMAIN todo' : \A j \in DOMAIN todo'[i] : Sensible(todo'[i][j])
    BY <1>1, BookPrices, TodoSensible
  <2>7. QED BY <2>1, <2>5, <2>6 DEF FundsInvariant, Sensible
<1>2. CASE UNCHANGED vars
  BY <1>2 DEF FInv, FundsInvariant, FundsTask, Sensible, NoOverdraft, vars, tables
<1>3. QED BY <1>1, <1>2 DEF Next

LEMMA InitFunds ==
  ASSUME SensibleClients
  PROVE  Init => FundsInvariant
<1> SUFFICES ASSUME Init PROVE FundsInvariant
  OBVIOUS
<1>1. /\ account = OpeningAccount /\ openOrder = {} /\ todo \in Workloads
      /\ \A w \in Workers : task[w] = Idle
  BY DEF Init
<1>2. Idle.pc = "idle" /\ Idle.rest = << >> /\ Idle.rows = {}
  BY DEF Idle
<1>3. \A w \in Workers : FundsTask(task[w])
  BY <1>1, <1>2 DEF FundsTask
<1>4. QED BY <1>1, <1>3 DEF FundsInvariant, SensibleClients, NoOverdraft

\* With one worker, for any accounts, symbols and orders of clients that deposit no
\* negative amounts and offer no negative prices, no account is overdrawn, whatever
\* fraction its balance has, whatever its orders are refunded and whichever
\* transactions are aborted.
THEOREM NeverOverdrawn ==
  ASSUME OneWorker, SensibleClients
  PROVE  Spec => []NoOverdraft
<1>1. FundsInvariant => NoOverdraft
  BY DEF FundsInvariant
<1>2. AInv => OInv
  BY DEF AInv
<1>3. QED BY <1>1, <1>2, InitOwner, NextOwner, InitFunds, NextFunds, PTL DEF Spec

=============================================================================
