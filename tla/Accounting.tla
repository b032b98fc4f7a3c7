----------------------------- MODULE Accounting -----------------------------
(***************************************************************************)
(* What the tables must add up to: every share an order asked for, every   *)
(* share a position holds and all the money of the accounts, compared with *)
(* the orders placed and with what EXEC and CANCEL record.                 *)
(***************************************************************************)
EXTENDS Exchange, Functions

\* The rows that bear an order's id, and the shares they add up to.
OpenRows(id) == {o \in openOrder : o.id = id}
ExecRows(id) == {i \in DOMAIN exec : id \in {exec[i].buy, exec[i].sell}}
CancelRows(id) == {i \in DOMAIN cancel : cancel[i].id = id}

OpenShares(id) == SumFunction([o \in OpenRows(id) |-> Abs(o.amount)])
ExecShares(id) == SumFunction([i \in ExecRows(id) |-> exec[i].amount])
CancelShares(id) == SumFunction([i \in CancelRows(id) |-> Abs(cancel[i].amount)])
ReportShares(report) == SumFunction([e \in report |-> Abs(e.shares)])

\* An order's shares are open, executed or cancelled, each of them once: the
\* three parts QueryOrder reports and the rows ExecOrder and CancelOrder lock
\* "to avoid database concurrency" (danger_log.txt).
EachShareOnce ==
  \A o \in placed : Abs(o.amount) = OpenShares(o.id) + ExecShares(o.id) + CancelShares(o.id)

\* Whatever rows were stale when they were filled or cancelled, every share of an
\* order can be found: in doubt the tables show too many, never too few.
NoShareLost ==
  \A o \in placed : Abs(o.amount) <= OpenShares(o.id) + ExecShares(o.id) + CancelShares(o.id)

\* Shares only move from OPEN_ORDER to CANCEL and EXEC, and QueryOrder reads them
\* in that order: a <status> answer leaves out no share of the order it is about,
\* though some may have moved between its SELECTs.  (The executions of orders
\* whose id was not found bear NoId; a client may ask for those too.)
CompleteAnswers ==
  \A i \in DOMAIN replies :
    LET r == replies[i].req
    IN replies[i].ok /\ r.op = "query" /\ r.id # NoId =>
         \E o \in placed : o.id = r.id /\ Abs(o.amount) <= ReportShares(replies[i].report)

\* The shares of symbol s that account a should have: those it opened with or was
\* granted, and those it bought, without the ones set aside for its sell orders,
\* except what cancellations gave back.
Opened(a, s) ==
  IF <<a, s>> \in DOMAIN OpeningPosition THEN OpeningPosition[<<a, s>>] ELSE 0

GrantsTo(a, s) ==
  {i \in DOMAIN granted : granted[i].op = "symbol" /\ granted[i].acct = a /\ granted[i].sym = s}
PurchasesOf(a, s) == {i \in DOMAIN exec : exec[i].buyer = a /\ exec[i].sym = s}
SellOrdersOf(a, s) == {o \in placed : o.acct = a /\ o.sym = s /\ o.amount < 0}
ReturnsTo(a, s) ==
  {i \in DOMAIN cancel : cancel[i].acct = a /\ cancel[i].sym = s /\ cancel[i].amount < 0}

Granted(a, s) == SumFunction([i \in GrantsTo(a, s) |-> granted[i].num])
Bought(a, s) == SumFunction([i \in PurchasesOf(a, s) |-> exec[i].amount])
Offered(a, s) == SumFunction([o \in SellOrdersOf(a, s) |-> -o.amount])
Returned(a, s) == SumFunction([i \in ReturnsTo(a, s) |-> -cancel[i].amount])

Owed(a, s) == Opened(a, s) + Granted(a, s) + Bought(a, s) - Offered(a, s) + Returned(a, s)

\* POSITION agrees with the logs, however its writers interleave and whichever
\* transactions are aborted: no update is lost, none is applied without its
\* EXEC or CANCEL row.
PositionsAudited == \A k \in DOMAIN position : position[k] = Owed(k[1], k[2])

\* The accounts' money, what the open buy orders have set aside, and what came in.
Bids == {o \in openOrder : o.amount > 0}
Openings == {i \in DOMAIN granted : granted[i].op = "account"}

Balances == SumFunction(account)
Escrow == SumFunction([o \in Bids |-> o.amount * o.price])
Deposits == SumFunction(OpeningAccount) + SumFunction([i \in Openings |-> granted[i].balance])

\* Orders, fills, refunds and cancellations together never create money.
CashNotCreated == Balances + Escrow <= Deposits

\* checkBuyerMoney: no account is overdrawn, whatever fraction its balance has
\* and whatever its orders have been refunded.
NoOverdraft == \A k \in DOMAIN account : account[k] >= 0

\* "return balance: update balance = +(price-execprice)*amount" (ExecOrder):
\* nor do they destroy it.
CashConserved == Balances + Escrow = Deposits

\* "could be either seller's price or buyer's price, depends on whose order is
\* older" (ExecOrder): an execution takes the price of the older order.
ExecAtOlderPrice ==
  \A i \in DOMAIN exec : \A b, s \in placed :
    b.id = exec[i].buy /\ s.id = exec[i].sell =>
      exec[i].price = IF b.time < s.time THEN b.price ELSE s.price

\* The order of the book an execution filled is the one that was there first.
Resting(e) == CHOOSE o \in openOrder : o.id = IF e.buy < e.sell THEN e.buy ELSE e.sell

\* Price-time priority: an incoming sell order takes the highest bid, and of
\* equal prices the oldest order is filled first on both sides of the book.
Priority ==
  [][\A w \in Workers : exec' # exec /\ At(w, "match") =>
       LET o == Resting(exec'[Len(exec')])
           rivals == {p \in openOrder : Eligible(p, task[w].req)}
       IN \A p \in rivals : /\ task[w].req.amount < 0 => p.price <= o.price
                            /\ p.price = o.price => p.time >= o.time]_vars

\* "The account_id doesn't have enough share!" (Order::execute): no sell order
\* takes a position below zero.
NoShortPosition == \A k \in DOMAIN position : position[k] >= 0

-----------------------------------------------------------------------------
(* One worker at a time, the exchange is the ledger it promises to be. *)

Book(orders) == {[id |-> o.id, acct |-> o.acct, sym |-> o.sym, amount |-> o.amount,
                  price |-> o.price] : o \in orders}

L == INSTANCE Ledger WITH
       OpeningCash <- OpeningAccount,
       OpeningShares <- OpeningPosition,
       cash <- account,
       shares <- position,
       book <- Book(openOrder),
       used <- {o.id : o \in placed},
       trades <- [i \in DOMAIN exec |-> [buy |-> exec[i].buy, sell |-> exec[i].sell,
                                         amount |-> exec[i].amount, price |-> exec[i].price]],
       withdrawn <- [i \in DOMAIN cancel |-> [id |-> cancel[i].id, amount |-> cancel[i].amount]]

\* Every committed transaction is one step of the ledger: an account, a grant,
\* an order, a trade or a withdrawal, and nothing else.
LedgerSpec == L!Spec
=============================================================================
