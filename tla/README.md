# Verification of the stock exchange matching engine

TLA+ models of the matching engine in `src/`, the TLC configurations that check them on small
markets, and TLAPS proofs of what holds for every market.

    tlc -workers 2 -config Race.cfg MCExchange.tla      # one run
    tlapm ExchangeProofs.tla                            # one proof module

## 1. The system

A server accepts TCP connections, reads one XML request from each, and hands the connection to a
pool of ten threads. A thread parses the request into sub-requests and runs them one after the
other against a PostgreSQL database shared by all threads. All state that outlives a request is
in five tables.

| component | code | state | operations | hard about it |
|---|---|---|---|---|
| order entry and matching | `Order::execute` (request.cpp), `CreateOrder`, `ExecOrder`, `MatchOrder` (Database.cpp) | ACCOUNT, POSITION, OPEN_ORDER, EXEC | check funds; store the order and set aside money or shares; find its id; select matching orders; fill them one transaction each | rows are selected under locks that are released before they are filled; amounts are written as absolute numbers; failed transactions are swallowed |
| account and symbol creation | `Account::execute`, `Symbol::execute`, `CreateAccount`, `CreatePosition` | ACCOUNT, POSITION | insert or add | check and insert are separate transactions; results ignored |
| cancellation | `Cancel::execute`, `CancelOrder` | OPEN_ORDER, CANCEL, ACCOUNT, POSITION | four checks, then record, give back, delete | the order is read without a lock |
| existence and ownership checks | `checkAccountID`, `checkTransID`, `checkBelong`, `checkIfOpen`, `checkBuyerMoney`, `checkSellerShare` | none | SELECTs outside transactions | answers are old when used; some need four SELECTs |
| status queries | `Query::execute`, `QueryOrder` | none | three SELECTs | an order may move between tables meanwhile |
| sequencing | `Request::execute` (request.h) | the vector of sub-requests | run each | goes on after a failure |
| row locks | the transactions of Database.cpp, and PostgreSQL under them | locks on rows | SELECT ... FOR UPDATE, foreign keys, unique keys | cycles of waits; the database aborts one transaction |
| thread pool | threadpool.h | queue, `stop`, mutex, condition variable | enqueue, worker loop, destructor | lost wakeups, shutdown |
| connections | server.cpp, main.cpp, sql.cpp | descriptors, `User` objects, one database connection per request | accept, receive, connect to the database, answer, close | early returns keep descriptors; their numbers are given out again; a failed accept is queued |
| parsing | parse.cpp | none | XML to sub-requests | one `recv` is taken for the whole text; a missing root or attribute is dereferenced |
| answers | request.cpp, request.h | none | results to XML | entries are written before the transaction that may fail |

**How they interact.** main.cpp enqueues a task per connection; the pool's FIFO queue is the
only coupling between the accept loop and the workers. Workers meet in the tables and nowhere
else: there is no shared memory between requests. Every function of Database.cpp is one or more
transactions of its own on the worker's own connection, so between any two of them - between a
check and what relies on it, between selecting an order and filling it - any other worker may
commit.

**What makes each part correct.**

- Matching: an execution respects both limits, never has one account on both sides, names the
  orders it filled and takes the price of the order that was there first; a sell order takes the
  highest bid first and of equal prices the oldest order comes first (a buy order takes the
  *highest* ask it can pay, since both SELECTs sort by PRICE DESC); every share of an order is
  open, executed or cancelled exactly once; when nothing is in progress, no two orders in the book could trade; a closed order never comes back.
- Money and shares: nothing moves without a log row, nothing is created or lost, no account is
  overdrawn and no position sold short.
- Requests: each sub-request is answered, and an `opened` answer names the client's own order.
- Pool: each task runs once, in order, and none is stranded.
- Transactions: what is committed is what the transactions make of the tables one after the
  other; no wait for a lock is for ever.
- Status queries: every share of the order is in the answer, and only orders that do not exist
  are unknown.
- Connections: a worker reads, answers and closes its own client's descriptor and nobody else's,
  descriptors come back, and whole requests are answered.

## 2. Modules

| module | models |
|---|---|
| `Tables` | rows of the tables, sub-requests, and the pure computations: the WHERE and ORDER BY of the matching SELECTs, the size of a fill, its effect on OPEN_ORDER, refund, payment, delivery |
| `Exchange` | the workers: one action per transaction or unlocked read of `request.cpp` and `Database.cpp`; types; promises of the matching |
| `Accounting` | conservation properties over the tables and logs; the refinement mapping to `Ledger` |
| `Ledger` | abstract specification: what an exchange promises its clients, with neither tables nor workers |
| `OrderInv` | the inductive invariants of orders, book and owners |
| `AccountInv` | the inductive invariants behind the sums: positions, shares, status answers |
| `SerialInv` | the inductive invariants for one worker, none of whose reads is stale |
| `DataLemmas` | lemmas: induction over finite sets and recursion up to a number; what happens to a sum when a term is added, removed or changed; what a list of SQL statements makes of the rows |
| `ExchangeProofs` | proofs: type correctness, closed orders stay closed, nobody cancels another account's order; the invariant of the orders and what follows from it; no two orders that could trade are left in the book |
| `AccountProofs` | proofs: positions agree with the logs, no share disappears, status answers are complete |
| `SerialProofs` | proofs for one worker: price and priority, each share once, money, the refinement of `Ledger` |
| `Parse` | `parse.cpp`: from the elements of a request to its sub-requests |
| `MCExchange` | workloads, written as requests and read by `Parse`, and opening tables for TLC |
| `Statements` | the SQL statements of a transaction: the row each is about and what it makes of it; a list of them run alone |
| `Transactions` | the transactions of `Database.cpp` as lists of statements |
| `Atomic` | what ties `Exchange` to `Transactions`: each step that changes a table is one of them, run alone |
| `TransactionProofs` | proofs: that it is |
| `RowLocks` | concurrent transactions, a statement a step, under the database's row locks |
| `Isolation` | what the locks are for: transactions at the same time are as good as one after the other |
| `LockProofs` | proofs: the invariant of the locks, what may abort a creation, serializability |
| `MCRowLocks` | three transactions of sixteen for TLC |
| `ThreadPool` | the workers' loop, enqueue and destructor of `threadpool.h`, and the main thread's loop in `main.cpp`, lock by lock |
| `WorkQueue` | abstract specification: what a pool promises, with neither mutex nor condition variable |
| `PoolProofs` | proofs about the pool |
| `MCThreadPool` | three workers for TLC |
| `Server` | accept loop, `handleRequest`, descriptors and database connections |
| `ServerProofs` | proofs about descriptors and answers |
| `MCServer` | three clients and their texts, read by `Parse`, for TLC |

### The exchange

**State.** `account`, `position`, `openOrder`, `exec`, `cancel` are the tables; ACCOUNT and
POSITION are functions over their primary keys, OPEN_ORDER is a set of rows, the two logs are
sequences. `nextId` is the sequence behind ORDER_ID, `clock` is `time(NULL)` in seconds, `todo`
the pool's queue. `task[w]` is a worker's stack: the place in the code (`pc`), the sub-request,
the rest of the request, and the locals `trans_id` (`tid`), `curr`, `amount` as it shrinks in
`ExecOrder` (`left`), the result rows still to be visited (`rows`), the SELECT that is next in a
function with several (`look`), the accounts its SELECTs have found (`found`) and the entries of
the answer (`report`). `placed`, `granted`, `replies` are history: what was ever stored in
OPEN_ORDER, the creations that took effect, and the answers.

**Actions.** The places of an order are

    account -> funds -> begin -> insert -> lookup -> select -> lock -> match* -> reply

and those of a query and of a cancellation

    account -> trans (4 SELECTs) -> belong (4) -> status (3) -> reply
    account -> trans (4 SELECTs) -> belong (4) -> open -> read -> cancel -> executed -> reply

| place | action | code |
|---|---|---|
| `idle` | `Receive` | worker loop of threadpool.h, then `Request::execute` |
| `account` | `CheckAccount` | `checkAccountID`, the first call of every `execute` |
| `funds` | `CheckFunds` | `checkBuyerMoney`, `checkSellerShare` |
| `begin` | `BeginOrder` | `CreateOrder` up to `time(NULL)` |
| `insert` | `CommitOrder`, `AbandonOrder` | its transaction, or the handler at its end |
| `lookup` | `LookupId` | SELECT ORDER_ID ... WHERE TIME = curr |
| `select`, `lock` | `SelectRows`, `LockRows`, `AbandonSelect` | SELECT ... FOR UPDATE: snapshot, then rows locked in their newest version; commit |
| `match` | `Match`, `AbandonMatch`, `ReplyOpened` | one turn of the loop: refund and `MatchOrder` in W2 |
| `createAccount`, `createPosition` | `CreateAccount`, `CreatePosition`, `AbandonPosition` | the functions of that name |
| `trans`, `belong` | `Look`; `CheckTransID`, `CheckBelong` | the SELECTs of the functions of that name, one a step; the last one with the decision |
| `status` | `QueryOrder` | OPEN_ORDER, CANCEL and EXEC, one SELECT a step |
| `open` | `CheckIfOpen` | `checkIfOpen` |
| `read`, `cancel` | `ReadOrder`, `CommitCancel`, `AbandonCancel` | `CancelOrder` up to its SELECT, and the rest of the transaction |
| `executed` | `ReadExecuted` | its SELECT of the executions, after the commit |

**Why a transaction is one step.** The transactions of `CreateOrder`, `MatchOrder` and
`CancelOrder` add to rows, overwrite values that do not come from the database, or write back a
value read under FOR UPDATE in the same transaction; under READ COMMITTED their effect is that
of running at the moment of their commit. Where a value is read without a lock or the lock is
given up before the write, there are two steps. An order's rows are sorted by the snapshot and
locked one at a time; as a locked row cannot change, all have their newest version when the last
one is locked, which is `LockRows`. That the transactions may be taken so is shown in two halves.
`Serializable`: transactions that run at the same time, a statement a step, leave the tables as
if they had run alone, one after the other. `StepsAreTransactions`: a step of `Exchange` that
changes a table makes of it what the statements of one transaction make of it when run alone.
That they need `MayAbort` is what `RowLocks` shows: a cycle of waits ends only by an abort.

**What is abstracted.** Prices and balances are integers in ticks, `Unit` ticks to one unit of
currency (`Truncated` is the `int balance` of `checkBuyerMoney`); float rounding is not
modelled. `MayAbort` lets any transaction that waits for a second lock be aborted: a deadlock
victim, a duplicate key, an overflow of an INT column. A single statement, such as
`CreateAccount`'s or the refund at the head of W2, holds nothing while it waits and is not
aborted. `SameSecond` says whether two orders may be stamped with one second; with `FALSE` it is
the assumption the code makes in `CreateOrder`. The clock advances only when an order is
stamped, by at most one: only the order and equality of stamps matter. EXEC.TIME and CANCEL.TIME
are left out, no property is about them. A lost database connection is an action of `Server`
(`Throw`), not of `Exchange`.

### Requests

`Parse` takes what tinyxml2 makes of a text: name, attributes and children of the root.
`SubRequests` are the sub-requests `parseCreate` and `parseTrans` push, in their order; children
with other names are passed over, a `symbol` stands for as many sub-requests as it has accounts.
`Outcome` says what becomes of the text: a `MyException` for an unknown root, a null pointer for
a missing root, attribute or text. The workloads of `MCExchange` and the texts of `MCServer` are
built as requests and read by these operators.

### Transactions and locks

**State.** `program` is each worker's transaction; `store` holds the rows as committed, `newest`
their newest versions, `dirty` which transaction has written which row; `held` are the locks,
each with a mode of PostgreSQL's (key share, no key update, update); `tx[w]` is the next
statement, the value the last SELECT has read, and how the transaction ended. A row is the one
integer column that is updated, or nothing.

**Actions.** `Execute` is a statement that need not wait, `Commit` the end, `Abort` a
transaction that inserts a key that exists or finds itself in a cycle of waits. Which
transaction of a cycle is aborted is left open, as PostgreSQL leaves it. `Needs` gives the lock
of each kind of statement, `Value` of module `Statements` its effect. A "store" writes back the
value that the SELECT before it has read (`MatchOrder`'s balance and position).

The database is not under `src/`: its locks are modelled from how the functions of Database.cpp
use them (READ COMMITTED, `FOR UPDATE`, foreign keys, primary keys, `ON CONFLICT`) and marked
external. EXEC and CANCEL are left out: only INSERTs with serial keys of their own touch them. A
row that another transaction inserts while `UPDATE POSITION ... WHERE ACCOUNT_ID` runs over the
account's symbols may or may not be seen by it; both happen in the model, since the UPDATE is an
item per symbol. `Serializable` therefore allows any order of the committed transactions, not
only that of their commits: an UPDATE that missed the new row comes before its INSERT.
`NonePassedOver` says when there is no such case: no statement of one transaction passes over a
row that another one inserts, unless the row is there from the start. In this code only one case
is left out, an account that sells, or cancels a sale, while it gets its first shares of a
symbol: every function that pays an account has found it before (`checkAccountID`), and nobody
knows the id of a new order before its transaction has committed.

### The server

**State.** `open` says for each descriptor whose connection it is, a client's or the database's;
`queue` is the pool's queue, a descriptor for each `User`; `work[w]` a worker's place in
`handleRequest` with `client_fd`, the descriptor of its database connection and whose request it
has read. `backlog` are connections the kernel has and the server has not accepted, `sent` what
each connection will deliver (a whole request, part of one, one with an unknown root, nothing,
or an end), `outage` whether the database may go away, `limit` the number of descriptors, `up`
whether the process lives.

**Actions.** `Accept`, and `AcceptFails` when no descriptor is free: the loop of main.cpp
enqueues -1 and goes on. A worker goes `idle -Take-> recv -Recv-> parse -ConnectDb-> execute
-Execute-> send -Send-> close -Close-> idle`. On the way it returns without closing anything by
`RecvFails` (0 or -1 bytes), `Refuse` (a `MyException`) and `Throw`. All functions a request
calls catch their database exceptions, except `CancelOrder`, whose transaction is opened outside
the try block and aborted in the handler: only a request with a cancellation (`Cancelling`) can
throw, when the database goes away while it runs, and leaves the connection to it open too. A
null pointer is `Die`: a missing root or attribute, or no connection to the database, for want
of a descriptor or of the database.
`send` goes to whoever has the descriptor at that moment. The kernel gives out the lowest free
number, which is what makes numbers come back while other workers hold theirs.

### The thread pool

`tasks`, `stop` are the pool's; `holder` is the set of threads inside `queueMutex` (a set, so
that mutual exclusion is something to show and not built in); `at[w]`, `job[w]` and `main` are
the threads' places and a worker's local `task`. `accepted` numbers the connections in the order
the main thread hands them to `enqueue`, `finished` are the jobs that have returned, and
`silent` the clients, chosen at the start, that connect and send nothing: `recv` in
`handleRequest` has no timeout and never returns for them.

A worker goes `top -Lock-> check -Take-> run -Finish-> top`, or from `check` by `Wait` to sleep
and, notified or woken for no reason, to `woken` and `Lock` again, or by `Quit` to `exit`. The
main thread goes `loop -Accept-> enqueue -LockMain-> push -Push-> notify -NotifyOne-> loop`, and
once `Leave -> destroy -LockMain-> stop -SetStop-> broadcast -NotifyAll-> join -Join-> gone`.
`Lock`, `Wait`, `Quit`, `Take`, `Push` and `SetStop` are steps inside the mutex; the last five
release it as they end. Notifications happen outside it, as in the code. `Leave` is an exception
on the way from `acceptClient` to `enqueue`, the only thing that ends the loop. `enqueue`
refuses a job of a stopped pool; as the thread that stops the pool is the only one that
enqueues, it never does.

`Exchange` relies on what `WorkQueue` says: requests start in the order of arrival, once each.
There the queue is `todo`, filled with the whole workload at the start.

## 3. Runs

Run `pool` uses `MCThreadPool`, `locks` uses `MCRowLocks`, `server` uses `MCServer`, all others
`MCExchange`. `CHECK_DEADLOCK FALSE` throughout: a workload is finite and the system stops when
it is served; that it gets there is `AllServed`, and `AllEnd` for transactions. A pool stops
when it is destroyed, or when silent clients hold every worker, and so does the server when no
more clients connect.

| run | market | shows |
|---|---|---|
| `race` | 2 workers, 3 accounts, 1 symbol; 3 orders, or 2 orders and a cancellation, in all orders of arrival; an order, a query, a fill and a cancellation; cancellations by the owner and by a stranger | with rows as stale as they get: no self-trade, limits respected, book uncrossed at rest, answers name the right order, no share gets lost, a status leaves out no share, only owners cancel, closed orders stay closed, all served |
| `abort` | 2 workers; 3 requests of 1 or 2 sub-requests: orders, cancellation, creations; transactions may abort | types and foreign keys, the inductive invariant of the proofs, positions against logs (transactions are all or nothing), each step that changes a table does what the statements of one transaction do, all served |
| `serial` | 1 worker; 4 sets of 4 sub-requests in all orders, after an account was opened twice and given shares | each share once, no money created, no overdraft, price of the older order, price-time priority, refinement of `Ledger` |
| `double_fill` | as `race` | **violated:** a resting order is executed twice |
| `same_second` | as `race`, stamps may coincide | **violated:** a client is told another client's order id |
| `refund` | as `serial` | **violated:** money disappears when a price improvement covers more than one share |
| `short_sale` | 1 worker, an account with 4 shares sells 6 | **violated:** a position below zero |
| `other_symbol` | 1 worker, two symbols | **violated:** selling one symbol takes shares of the other |
| `unknown_order` | 2 workers; a query of an order that another request cancels | **violated:** an order whose `opened` answer was given is said not to exist |
| `pool` | 3 pool threads, 3 connections, any of them silent, destroyed at any moment | mutual exclusion and each job in one place; no lost wakeup; a destroyed pool has served every connection; first in first out (refinement of `WorkQueue`); connections are served as long as fewer clients are silent than there are threads; the destructor returns |
| `locks` | any 3 of 16 transactions on 2 accounts, 2 symbols, 8 orders | conflicting locks exclude each other; what was read under FOR UPDATE is current when the sum is written; what is committed is as good as serial; creations do not abort each other; every transaction ends |
| `server` | 3 clients in 26 mixes of deliveries, 2 workers, 2 or 5 descriptors, with and without an outage of the database | a descriptor in use is one party's; answers reach their clients; only failed requests cost descriptors, and each no more than its own and, for a cancellation, one to the database; whole requests are answered |

The six violated runs check one statement each that a comment, an error message or
`danger_log.txt` makes of the program; PROJECT.json quotes them. The other runs keep clear of
them: accounting runs have one symbol, since with two every sale corrupts POSITION
(`other_symbol`), and sales that exceed the holding are only in `short_sale`.

**Properties.** In `Exchange`: `TypeOK`, `NoSelfTrade`, `ExecWithinLimits`, `UncrossedAtRest`,
`OpenedNamesOwnOrder`, `OpenedNeverUnknown`, `CancelledByOwner`, `ClosedStaysClosed` (a step
never puts a closed order back), `AllServed` (liveness). In `Accounting`: `EachShareOnce`,
`NoShareLost`, `CompleteAnswers`, `PositionsAudited`, `CashNotCreated`, `CashConserved`,
`NoOverdraft`, `NoShortPosition`, `ExecAtOlderPrice`, `Priority` (which order a step may fill),
`LedgerSpec`. In `OrderInv`: `OrderInvariant`. In `Atomic`:
`StepsAreTransactions`. In `ThreadPool`: `PoolInvariant`, `NoneStranded`,
`DrainedAtExit`, `QueueSpec`, `Served`, `DestructorReturns`. In `RowLocks`: `LockInvariant`,
`CreationsAgree`, `AllEnd`; in `Isolation`: `Serializable`. In `Server`: `DescriptorInvariant`,
`OwnAnswer`, `Accounted`, `Answered`.

`EachShareOnce` fails with two workers (`double_fill`), `NoShareLost` is the half of it that
does not. `CompleteAnswers` depends on the order of `QueryOrder`'s SELECTs: shares leave
OPEN_ORDER for CANCEL and EXEC, and are read there later. In `checkTransID` the order is the
other way round, CANCEL before OPEN_ORDER; hence `unknown_order`. `checkBelong` then takes
anybody for the owner of an order it does not find, and `CancelledByOwner` rests on
`checkIfOpen`, which is called after it. A status query has no such check. `CreationsAgree` is
what `danger_log.txt` wants of `ON CONFLICT`, with what it cannot give: a creation may still be
aborted for a fill that brings the same account its first shares of the symbol.

`NoSelfTrade` and `ExecWithinLimits` compare an execution with the orders its ids name. Of an
order they speak only if it is alone in its second (`AloneInSecond`): a worker whose order shares
its second with another one's may take that one's id (`same_second`), and the execution then
names an order of a third account, perhaps on the other side. What remains - buyer and seller
are two accounts, and an order that is alone is never named wrongly - holds for all clients.

`Accounted` says what an open descriptor that nobody will use again is: that of a failed
request's client, or of a cancellation that the database deserted, or its connection to the
database; and there are as many of the latter as of those cancellations.

`ExecAtOlderPrice` is checked with one worker, where the older order is the one that rests. It
fails with two, as the market of `race` shows within 7 000 states: the ask that is stamped first
is stored first as well, but its worker selects only after a bid of the next second has been
stored, and trades at the bid's price. "can only select from early order", a comment of
`ExecOrder`, is true of requests one after the other only.

**Bounds.** Two workers give every pairwise race: all conflicts are between a selection or check
and one later write. Three orders are the least for two incoming orders to compete for a resting
one, or for one order to walk over two rows with a foreign fill in between. In `race` and
`abort` amounts of 1 to 3 make partial, exact and over-filling happen; limits 3 and 4 give
equal, crossing and not crossing prices, also of an account with itself. Balances of 40 never
run out in `race`; in `serial` account c has 21 ticks, of which `Unit` = 2 makes 20 count,
against orders that need 12 and 24. The three runs reach about 120 000, 159 000 and 7 000
states. Queries and cancellations of one order are in two workloads of `race`, each in one order
of arrival: their dozen steps interleave with the other worker's all the same.

In `pool` three workers and three jobs let a notified worker, one that has just finished and the
main thread compete for the mutex while another worker sleeps; with three jobs the order of the
queue shows, and with two of three clients silent one worker is left to serve the third. The run
has about 69 000 states; its safety properties are proved for all numbers.

In `locks` three transactions give cycles of waits of two and of three, and a victim while a
third one goes on. The sixteen are every function of Database.cpp that writes, as buyer and as
seller, with each of `MatchOrder`'s three cases and the rows of an account scanned in both
orders; one mix has a sale of account a's beside the creation of a's shares of y, whose row the
sale may miss; 105 000 states.

In `server` two descriptors are fewer than a served request and a waiting one need, so that
`accept` and `connect_db` fail; five are the three clients' and two workers' of `Answered`, so
that none is short. Two workers and three clients are the least for a number to be given out
again while another worker still runs. Clients are alike and connect in any order, so mixes are
listed once. `MaxQueue` = 3 bounds the Users with descriptor -1 that the loop of main.cpp adds
as long as `accept` fails; 341 000 states.

**Fairness.** Weak fairness of `Receive(w) \/ Step(w)` for each worker: a thread runs while it
has a request or the queue holds one. A worker that waits for a row lock is not stuck for good:
that is `AllEnd` of `RowLocks`. No fairness is asked of commits over aborts: `AllServed` holds
though every transaction may be aborted, because no caller retries.

In `locks`, weak fairness of each transaction's next step: the database runs a statement that
need not wait, and looks for a cycle whenever one has waited for `deadlock_timeout`. A
transaction that waits without a cycle has no step that is enabled; it goes on because the ones
before it end.

In `pool`, weak fairness of each worker's steps and of the main thread's: a thread that can run
is run in the end. No thread is assumed to win the mutex against others that keep taking it:
with finitely many connections the others soon find nothing to do, sleep, or are in a job. Only
finitely many wakeups come for no reason. Nothing is asked of `Accept` and `Leave`, no client
has to connect, nor of silent clients. A job whose client does send ends by itself: that is
`AllServed` of `Exchange`.

In `server`, weak fairness of the accept loop and of each worker, the threads of a live process.
No client has to connect or to send; `Answered` is about clients that have connected and whose
text is whole, as long as no other text kills the process, the database stays, descriptors
suffice and fewer clients are silent than there are workers.

**Mutants.** Beside a mapped definition stands, where a property needs it, a faulty variant
named `<definition>_<fault>` (a dropped condition, a wrong id, a retry, an absolute write); with
it in place of the definition the property fails in the same run.

## 4. Proofs

For any number of workers, any workload, any opening tables, any number of connections and
descriptors, any transactions. `UnitAssumption`, `ExchangeAssumption`, `PoolAssumption` (the
workers are finitely many and at least one), `LocksAssumption` (a "store" follows the SELECT
whose value it writes) and `ServerAssumption` give the constants' types; TLC evaluates them in
the runs.

- `TypeCorrect`: `Spec => []TypeOK`. `TypeOK` is inductive as it stands because it says which
  request a worker at each place serves and that the accounts it will touch exist: no code
  deletes an ACCOUNT row, so what an old check established stays true.
- `ClosedForGood`: `Spec => ClosedStaysClosed`, from `TypeOK` and the fact that ids of stored
  orders are below `nextId`. `BookRows` says that a step adds no row to the book but the new
  order's; for a fill this is `SettleRows`, a lemma about the statements of `MatchOrder`.
- `NeverSelfTrades`: `Spec => []NoSelfTrade`, and `ExecutionsWithinLimits`:
  `Spec => []ExecWithinLimits`, for any clock and with aborts.
- `OrdersConsistent`: `Spec => []OrderInvariant` if `SameSecond = FALSE`. From it
  `OpenedOwnOrder`.
- `NoneLeftCrossed`: `Spec => []UncrossedAtRest` if also `MayAbort = FALSE`; an order whose
  match is aborted stays in the book beside the one it crosses.
- `OwnerCancels`: `Spec => []CancelledByOwner`, with aborts and orders of one second.
- `PositionsAgree`: `Spec => []PositionsAudited`, with aborts, if `SameSecond = FALSE` and there
  is one symbol.
- `NoneDisappears`, `AnswersComplete`: `Spec => []NoShareLost` and `Spec => []CompleteAnswers` if
  `SameSecond = FALSE` and `MayAbort = FALSE`.
- For one worker, `SameSecond = FALSE` and `MayAbort = FALSE`: `OlderPriceTaken`
  (`ExecAtOlderPrice`), `PriorityKept` (`Priority`), `CountedOnce` (`EachShareOnce`),
  `NoMoneyCreated` (`CashNotCreated`, from a finite table of accounts) and, with one symbol,
  `ImplementsLedger` (`Spec => LedgerSpec`).
- `NeverOverdrawn`: `Spec => []NoOverdraft` for one worker and `SensibleClients`, with aborts and
  orders of one second.
- `LocksHold`: `Spec => []LockInvariant`.
- `CreationsSucceed`: `Spec => []CreationsAgree` if every program is one of the six transactions
  of Database.cpp.
- `LocksSerialize`: `Spec => [](NonePassedOver => Serializable)` for finitely many workers.
- `AtomicSteps`: `Spec => StepsAreTransactions` for finitely many symbols, with aborts and orders
  of one second.
- `DescriptorsHold`: `Spec => []DescriptorInvariant`; from it `AnswersReachTheirClients`
  (`OwnAnswer`) and `DescriptorsComeBack` (`Accounted`).
- `PoolSafe`: `Spec => []PoolInvariant`; from it `NoLostWakeup` (`NoneStranded`), `Drained`
  (`DrainedAtExit`) and `PoolIsQueue` (`Spec => QueueSpec`).

**The invariants of orders.** `NoSelfTrade` and `ExecWithinLimits` speak of EXEC only; that a new
row respects them depends on rows selected some steps ago and on an id found before that.
`TracedInvariant` carries this along, with no assumption on the clock:

- `IdsInv`: ids identify orders and are below the next one;
- `BookTraced`: every row of the book has id, account, symbol, limit and second of a placed
  order, and its side if that order is alone in its second;
- `TasksTraced`: `LookupOK` (a worker about to look for its order's id has stored it),
  `FoundOK` (the id it found is none, its own order's, or that of an order that is not alone),
  `LeftOK` (what is left to fill has the sign of the order), `RowsTraced` (selected rows are
  eligible and were like the rows of the book when they were selected);
- `ExecInv`, `AnswersTraced`: the properties, and that the ids in EXEC and in answers are such.

The side is in doubt because a fill writes what is left of the incoming order to the id that was
found, which may be an order of the other side. An order that is alone stays out of reach: no
other worker takes its id for that of the order it has stored. Since orders are never forgotten,
an order that is alone after a step was alone before it (`WasAlone`), so that what is said of it survives a step in
which other orders arrive.

`OrderInvariant` is the same without the exception, for clients whose orders bear different
seconds: `StampInv` says that no stored order bears the stamp of one about to be stored, so that
every order is alone (`SecondsDiffer`), and `PlacedInv`, `BookInv`, `TasksInv` and `RepliesInv`
follow from their weaker forms (`TracedDiffer`). A stale row may have the wrong amount but never
the wrong account, symbol, side, limit or id; that is why self-trades and crossed limits stay
impossible while double fills do not. `OrderInvariant` is also an invariant of run `abort`. Each
action has its lemmas in `ExchangeProofs` (`...Type` and `...Kept`), which come together in
`NextType` and `NextKept`; `Kept` says that a step keeps `TracedInvariant`, and `SecondsDiffer`
if the clock gives each order its own second.

**Why nothing crossing is left.** `UncrossedInvariant` adds two parts to `OrderInvariant`.
`MatcherOK`: from its commit to the end of its loop a worker knows its order by its second and
its terms, and, once it has looked, by its id while it is open. `CrossInv`: of any two orders in
the book that could trade, one is with a worker that *covers* the other: it is yet to select its
rows, or has the other among them. A new order is covered by its worker against the whole book.
The SELECT keeps what is covered because crossing orders are eligible (`OwnEligible`); other
workers' fills and cancellations only take rows away or change amounts without changing signs
(`FillRows`), which is why `RemainderOf` says that an amount is positive or negative exactly if
the placed order's is. Each turn of the worker's own loop deletes the row it takes off its list,
or its own order, by which the loop ends (`FillCloses`). So a pair that is no longer covered is
no longer in the book, and when all workers are idle nothing is covered.

**The invariant of the owner.** `OwnerInvariant` follows the checks of a cancellation: what
`checkBelong` has seen of OPEN_ORDER, if the order is there, is its owner; an order that it did
not see there is not there later (ids are never stored twice, `IdsPlaced`), so `checkIfOpen`
refuses. It needs neither different seconds nor the absence of aborts.

**What the theorems assume.** None of the assumptions is there for the proof's sake; each one
has a run that shows what happens without it, or is the configuration of the run that checks the
property. `SameSecond = FALSE` is the code's own assumption: with two orders of one second
(`same_second`) a worker may take another order's id for its own, write the execution to the
wrong order and count its shares twice; `NoSelfTrade`, `ExecWithinLimits` and `CancelledByOwner`
are proved without it. Without `MayAbort = FALSE` a match that is rolled back is
taken for a fill: `ExecOrder` subtracts the shares all the same. One symbol is needed where
POSITION is concerned because a sell order changes every row of its account (`other_symbol`).
One worker is what a serial execution of requests means; `double_fill` shows that
`EachShareOnce` is lost with two. `SensibleClients` says that accounts open with no negative
balance and that no limit is negative, which the code does not check; without it a sale at a
negative price leaves its seller with a debt. The finite table of accounts is there because `Deposits`
is a sum over it. A query for id -1 is left out by `CompleteAnswers` itself: -1 is what the log
has for orders whose id was not found.

`MCExchange` extends `SerialInv`, so that TLC can check each of the invariants below as well:
`TracedInvariant` as an INVARIANT of `Race.cfg` or `Abort.cfg`, with `SameSecond` true or false,
`AuditInvariant`, `SharesInvariant` and `AnswersInvariant` of `Race.cfg`, the others of
`Serial.cfg`.

**The sums.** The properties of `Accounting` add up rows of the tables. `DataLemmas` proves, by
the well-foundedness of inclusion among finite sets (`FiniteInduction`), that the sum of a
function grows by the term that is added, shrinks by the one removed and changes by as much as
one that is changed; every other proof about sums only cites these. That needs finite index
sets: the logs are sequences, `placed` and the book grow by one row at a time from nothing.

**The invariant of positions.** `AuditInvariant` says that `Held` = `Owed` for every account and
symbol, also where there is no row; `CommitOrder`, `Match`, `CommitCancel` and `CreatePosition`
change both sides by the same number. That the row a seller's shares come from exists, so that
an UPDATE reaches it, is `SellersKnown`; that a worker gives back the shares of a row of its own
side and account, whatever its age, is `RowsPlaced`.

**The invariant of shares.** A stale fill or cancellation may write any amount it has once read;
that no share is lost by it needs that the amount *read* loses none. `HeldAccounted` says so of
each row a worker holds and of what its own order has left: together with what is in EXEC and
CANCEL by now they make up at least the order's shares. Logs only grow (`FillsPositive`), so
what was enough when it was read still is. `BookAccounted` says the same of the book, and of 0
for orders that have left it.

**The invariant of status answers.** `FoundSoFar` counts after each SELECT of a query what it
has found and what the tables it has yet to read hold: shares move from OPEN_ORDER to CANCEL and
EXEC and the SELECTs are in this order, so the total never falls short. `Asked` carries from the
checks that the order exists; `LogsPlaced` that the checks, which may have found it in a log
only, were right.

**The invariants of one worker.** `SerialInvariant` says what two workers destroy: while it
matches, the worker's rows are exactly the eligible orders of the book and its own order is open
with `left` shares (`SerialTask`); ids and seconds sort the orders alike (`OrdersTimed`), since
the newest order is always the incoming one. From it an execution's price is the resting order's
and the row taken next is the best of all rivals. `Counted` is `Accounted` with an equality, and
`CashInvariant` compares balances and escrow before and after a step: an order moves its
worth from the one to the other, a fill takes `limit * n` from escrow and pays `price * n` to
the seller and at most the difference to the buyer. `FundsInvariant` carries the check of
`checkBuyerMoney` to the transaction that takes the money: `account >= amount * limit` at
`begin` and `insert`.

**The refinement of the ledger.** `Book` forgets the seconds of the rows, `used` are the ids of
all orders. Every transaction that commits is one step of `Ledger`: `CreateAccount` opens an
account or, like all reads, changes nothing; `CreatePosition` grants; `CommitOrder` places;
`CommitCancel` withdraws; `Match` trades, where `FillAmount` is the smaller of the two amounts
because neither is stale, the refund is between nothing and what the trade saved, and the shares
go to the buyer alone. That a step of the ledger moves one position and the code an account's
whole set of rows is where the single symbol is needed.

**The invariant of the locks.** `Compatible`, `WritesLocked` and `ReadsCurrent` together: a
value that was read under FOR UPDATE stays the row's newest, for whoever wrote it would need a
lock that conflicts with the reader's.

**Why creations are aborted.** `Shape` says of the six transactions, whatever their arguments,
what the proof needs of their statements. A creation inserts no key that may exist, so that only
a cycle of waits aborts it; then somebody who holds a lock waits for it (`InCycle`).
`CreationsInvariant` says what a creation can hold: nothing before its first statement, and at
most the position. If it has found the position, nobody else has a lock there that it would have
to wait for, and its last statement takes no lock. So it has inserted the position, nobody else
sees the row, and who waits for it is about to insert it too: another creation that has not
found the row holds nothing, a lock or an addition would pass over the row, and what is left is
the "store" of a `MatchOrder`.

**Why the locks serialize.** `SerialInvariant` is `LockInvariant` and, if none is passed over,
four parts. `Replayed`: what a transaction sees (`View`: its own versions and the committed
rows) is what its statements so far make of the committed rows when run alone (`Replay`). When
it commits, its view is the new `store`, which thereby is what it makes of the old one; so the
order of the commits is an order that `Serializable` asks for. That a "store" fits is
`ReadsCurrent` of `LockInvariant`. That `Replayed` survives another transaction's commit needs
that the rows the other has changed are not those its statements so far have changed, or would
change now. `AllSettled` says of each statement that has run: it changes nothing anyhow (a lock,
a check of a foreign key), or holds a writer's lock, which keeps others away, or it found no row
to update, or a row it need not insert. The last two would be spoilt by an insert or a delete;
`NonePassedOver` excludes the insert, `Kept` and `Written` the delete: a row that is there from
the start and deleted by nobody stays.

**Why a step is a transaction.** The rows are taken apart into what a piece of a transaction is
about: a payment, a delivery, an order stored, changed or deleted, the UPDATE of all positions of
an account. For each piece there is a lemma that its statements make of the rows what the
operator of `Tables` makes of the table (`PayStep`, `DeliverStep`, `PlaceStep`, `BookStep`,
`ShiftStep`), and `AloneJoined` puts them together: a list made of two lists does what the first
and then the second do, as long as no "store" in the second relies on what the first has read
(`ReadsFirst`). `DataLemmas` proves it from the recursion of `Replay` (`Recursion`: a function
that is what each step makes of the one before is the only one, by induction for a set in place
of a predicate). From the invariants come the facts that make rows and tables agree: an id
identifies a row of the book, the next id is not in it (`IdsPlaced`), accounts of orders exist.
The symbols are finitely many for the database to have an order in which to visit them.

**The invariant of the descriptors.** `QueueOwns` and `WorkerOwns`: a number in the queue or
with a worker is a client's and in one place only, a number held for the database is the
database's. A number that the kernel gives out was free and so with nobody (`Fresh`); a worker
that gives one back is its only holder (`FreeStep`). `Accounted` needs in addition that the text
a worker parses is one its client sent (`ReadTexts`), and that the two sets it compares grow
together: `Throw` adds one descriptor to each and nothing takes one away.

**The invariant of the pool.** `MutexInv` says that a thread between taking the mutex and giving
it up is its only holder, so that what a worker has seen of the queue and of `stop` is still
true when it sleeps, leaves or takes a task. `StopInv` says that a worker has left only if the
pool is stopped and empty - and that stays so, for nobody enqueues after that. `JobsInv` gives
each job one place: the jobs up to `Taken` are finished or with one worker, the queue holds the
next ones in order. From it each step is a step of `WorkQueue` or leaves it alone: `Push`
submits, `Take` starts (there is room, for the taker was not running and jobs of different
runners differ), `Finish` finishes, `SetStop` closes. `DrainedAtExit` follows since at the end
nobody is running and the queue is empty; that there is a worker at all is needed here.
`NoneStranded` counts: it is preserved with `PoolInvariant` because a worker falls asleep only
over an empty queue, each `Take` takes one worker and one task away, and the task that `Push`
adds is matched by the wakeup of `NotifyOne`.

**Model-checked only.** Liveness (`AllServed`, `Served`, `DestructorReturns`, `AllEnd`,
`Answered`) is beyond TLAPS. `Serializable` is proved as far as `NonePassedOver`
goes; for an account that sells while it gets its first shares of a symbol, where the order of
the transactions may not be that of their commits, it is checked by `locks`. All other safety
properties of passing runs have a theorem. The parser has no state; `Exchange` and `Server` are checked on what it returns
and proved for any workload.

## 5. Not modelled

- `tinyxml2.cpp`, `tinyxml2.h`: a vendored library, of which `Parse` takes the result. Of about
  14 400 lines under `src/` it is 10 800, twice 5 400, since `docker-deploy/src` holds a second
  copy.
- `docker-deploy/src`: the same sources again, for the container image. What the models say of
  `src/` they say of it.
- `testing/`, `client.cpp`: clients that send fixed requests and print the answers.
- The statements that create and drop the tables run once before the first client; the tables'
  keys are in the types. `createServer` likewise.
- The layout of answers. What they say is in `replies`: success or not, an id, the entries of a
  status.
- Float rounding of balances and limits, and the width of INT columns beyond the abort an
  overflow causes.
- A request that fills the buffer of 65536 bytes; `send` to a client that is gone (SIGPIPE);
  PostgreSQL's own limit on connections, for which the process's descriptors stand.

The engine's own code is about 1 500 lines with headers and comments; the definitions of the
models translate about 1 070 of them.

## 6. What could follow

Everything planned is in the project: the exchange with its ledger, the pool with its queue, row
locks, status queries, parsing and the server. Worth adding if the code changes:

1. `Exchange` over `RowLocks`, if `ExecOrder` came to keep its locks until the orders are
   filled: `EachShareOnce` would then be checked with two workers.
2. A theorem for `PositionsAudited` and `LedgerSpec` with several symbols, if the UPDATE of
   `CreateOrder` came to name the symbol it sells.
