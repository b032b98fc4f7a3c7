------------------------------- MODULE Tables -------------------------------
(***************************************************************************)
(* The rows of the matching engine's PostgreSQL tables and the pure        *)
(* computations of Database.cpp on them: which resting orders an incoming  *)
(* order may match, in which order, for how many shares, and what a fill   *)
(* does to OPEN_ORDER, ACCOUNT and POSITION.                               *)
(*                                                                         *)
(* ACCOUNT and POSITION are functions over their primary keys, OPEN_ORDER  *)
(* is a set of rows.  Amounts are signed as in the code: a positive amount *)
(* buys, a negative one sells.  Prices and balances count ticks; Unit      *)
(* ticks make one unit of the currency.                                    *)
(***************************************************************************)
EXTENDS Integers, Sequences

CONSTANTS Accounts,   \* the ACCOUNT_IDs clients use
          Syms,       \* the symbols clients use
          Unit        \* ticks in one unit of currency

ASSUME UnitAssumption == Unit \in Nat \ {0}

NoId == -1            \* trans_id before, or without, an order of its own

Order == [id : Int, acct : Accounts, sym : Syms, amount : Int, price : Int, time : Int]
Exec == [buyer : Accounts, seller : Accounts, buy : Int, sell : Int,
         sym : Syms, amount : Int, price : Int]
Cancelled == [acct : Accounts, id : Int, sym : Syms, amount : Int]

Key == Accounts \X Syms

-----------------------------------------------------------------------------
(* The sub-requests of a <create> or <transactions> request. *)

CreateAccountReq == [op : {"account"}, acct : Accounts, balance : Int]
CreateSymbolReq == [op : {"symbol"}, acct : Accounts, sym : Syms, num : Int]
OrderReq == [op : {"order"}, acct : Accounts, sym : Syms, amount : Int, limit : Int]
QueryReq == [op : {"query"}, acct : Accounts, id : Int]
CancelReq == [op : {"cancel"}, acct : Accounts, id : Int]
SubRequest == CreateAccountReq \cup CreateSymbolReq \cup OrderReq \cup QueryReq \cup CancelReq

\* What a client sends in one connection.
Request == Seq(SubRequest) \ {<< >>}

\* query_s, an entry of a <status> or <canceled> answer; row is its EXEC_ID or
\* CANCEL_ID, 0 for an open order and for the cancellation being answered.
Entry == [state : {"open", "canceled", "executed"}, row : Nat, shares : Int]

-----------------------------------------------------------------------------
(* Checks before an order is stored. *)

\* int balance = row[0].as<float>(): the balance loses its fraction.
Truncated(b) == IF b >= 0 THEN (b \div Unit) * Unit ELSE -(((-b) \div Unit) * Unit)

\* Faulty: forgets the amount.
CanPay_OneShare(balance, r) == Truncated(balance) >= r.limit

CanPay(balance, r) == Truncated(balance) >= r.amount * r.limit

\* The amount of a sell order is negative when it reaches this comparison.
CanDeliver(shares, r) == shares >= r.amount

-----------------------------------------------------------------------------
(* The SELECT of ExecOrder: its WHERE clause and its ORDER BY. *)

\* Faulty: without ACCOUNT_ID != account_id.
Eligible_OwnToo(o, r) ==
  /\ o.sym = r.sym
  /\ \/ r.amount < 0 /\ o.amount > 0 /\ o.price >= r.limit
     \/ r.amount > 0 /\ o.amount < 0 /\ o.price <= r.limit

\* Faulty: PRICE <= limit for sell orders too.
Eligible_AnyBid(o, r) ==
  /\ o.sym = r.sym
  /\ o.acct # r.acct
  /\ \/ r.amount < 0 /\ o.amount > 0 /\ o.price <= r.limit
     \/ r.amount > 0 /\ o.amount < 0 /\ o.price <= r.limit

\* Faulty: PRICE > limit, so that orders at the same price do not meet.
Eligible_Strict(o, r) ==
  /\ o.sym = r.sym
  /\ o.acct # r.acct
  /\ \/ r.amount < 0 /\ o.amount > 0 /\ o.price > r.limit
     \/ r.amount > 0 /\ o.amount < 0 /\ o.price < r.limit

Eligible(o, r) ==
  /\ o.sym = r.sym
  /\ o.acct # r.acct
  /\ \/ r.amount < 0 /\ o.amount > 0 /\ o.price >= r.limit
     \/ r.amount > 0 /\ o.amount < 0 /\ o.price <= r.limit

\* Faulty: TIME DESC.
Ahead_Youngest(o, p) == \/ o.price > p.price
                        \/ o.price = p.price /\ o.time > p.time

\* ORDER BY PRICE DESC, TIME ASC, on both sides of the book.
Ahead(o, p) == \/ o.price > p.price
               \/ o.price = p.price /\ o.time < p.time

Leading(rows) == {o \in rows : \A p \in rows : ~Ahead(p, o)}

-----------------------------------------------------------------------------
(* One fill of MatchOrder. *)

Abs(n) == IF n < 0 THEN -n ELSE n

\* Faulty: the whole resting order, without std::min.
FillAmount_Whole(left, resting) == Abs(resting)

FillAmount(left, resting) == IF Abs(left) <= Abs(resting) THEN Abs(left) ELSE Abs(resting)

SetAmount(orders, id, n) == {IF o.id = id THEN [o EXCEPT !.amount = n] ELSE o : o \in orders}

Without(orders, id) == {o \in orders : o.id # id}

\* Faulty: the filled order is deleted only when both are filled.
Settle_KeepsFilled(orders, sell, buy, final) ==
  IF final < 0 THEN SetAmount(orders, sell, final)
  ELSE IF final > 0 THEN SetAmount(orders, buy, final)
  ELSE Without(Without(orders, sell), buy)

\* Faulty: deletes both orders whatever is left of them.
Settle_ClosesBoth(orders, sell, buy, final) == Without(Without(orders, sell), buy)

\* Both orders are written by ORDER_ID, with the amount computed from the rows
\* read earlier: the side with shares left is updated, the other one deleted.
Settle(orders, sell, buy, final) ==
  IF final < 0 THEN Without(SetAmount(orders, sell, final), buy)
  ELSE IF final > 0 THEN SetAmount(Without(orders, sell), buy, final)
  ELSE Without(Without(orders, sell), buy)

\* Faulty: gives back the execution price, not the difference.
Refund_Price(r, price) == IF r.amount > 0 /\ r.limit > price THEN price ELSE 0

\* update_refund: the buyer's price improvement, when it was the incoming order.
Refund(r, price) == IF r.amount > 0 /\ r.limit > price THEN r.limit - price ELSE 0

Pay(account, a, n) == [account EXCEPT ![a] = @ + n]

\* Faulty: overwrites the POSITION row.
Deliver_Overwrite(position, key, n) ==
  [k \in DOMAIN position \cup {key} |-> IF k = key THEN n ELSE position[k]]

\* The buyer's POSITION row is updated, or inserted when there is none.
Deliver(position, key, n) ==
  [k \in DOMAIN position \cup {key} |->
     IF k # key THEN position[k]
     ELSE IF k \in DOMAIN position THEN position[k] + n ELSE n]

\* UPDATE POSITION ... WHERE ACCOUNT_ID = a: every symbol of the account moves.
ShiftPositions(position, a, n) ==
  [k \in DOMAIN position |-> IF k[1] = a THEN position[k] + n ELSE position[k]]
=============================================================================
