------------------------------- MODULE Ledger -------------------------------
(***************************************************************************)
(* What the exchange promises its clients, without tables, transactions or *)
(* worker threads: accounts hold cash and shares, an order sets aside what *)
(* it may need, a trade reduces two open orders by the same number of      *)
(* shares at a price both accept, and a withdrawn order gives back what it *)
(* still has set aside.  Nothing else ever moves cash or shares.           *)
(***************************************************************************)
EXTENDS Integers, Sequences

CONSTANTS OpeningCash, OpeningShares

VARIABLES
  cash,        \* account -> money at its disposal
  shares,      \* <<account, symbol>> -> shares at its disposal
  book,        \* open orders
  used,        \* ids of all orders so far
  trades,      \* executions, oldest first
  withdrawn    \* cancelled orders, oldest first

vars == <<cash, shares, book, used, trades, withdrawn>>

Init ==
  /\ cash = OpeningCash
  /\ shares = OpeningShares
  /\ book = {} /\ used = {} /\ trades = << >> /\ withdrawn = << >>

SharesOf(a, s) == IF <<a, s>> \in DOMAIN shares THEN shares[<<a, s>>] ELSE 0

\* n more shares of s for account a, everything else as it was.
Move(a, s, n) ==
  /\ DOMAIN shares' = DOMAIN shares \cup {<<a, s>>}
  /\ \A k \in DOMAIN shares' :
       shares'[k] = SharesOf(k[1], k[2]) + (IF k = <<a, s>> THEN n ELSE 0)

OpenAccount(a, deposit) ==
  /\ a \notin DOMAIN cash
  /\ cash' = [x \in DOMAIN cash \cup {a} |-> IF x = a THEN deposit ELSE cash[x]]
  /\ UNCHANGED <<shares, book, used, trades, withdrawn>>

Grant(a, s, n) ==
  /\ a \in DOMAIN cash
  /\ Move(a, s, n)
  /\ UNCHANGED <<cash, book, used, trades, withdrawn>>

\* A buy order sets cash aside, a sell order shares.
Place(o) ==
  /\ o.acct \in DOMAIN cash /\ o.id \notin used
  /\ book' = book \cup {o}
  /\ used' = used \cup {o.id}
  /\ \/ /\ o.amount >= 0
        /\ cash' = [cash EXCEPT ![o.acct] = @ - o.amount * o.price]
        /\ UNCHANGED shares
     \/ /\ o.amount < 0
        /\ Move(o.acct, o.sym, o.amount)
        /\ UNCHANGED cash
  /\ UNCHANGED <<trades, withdrawn>>

\* What is left of order o when n of its shares are traded.
Left(o, n) == IF o.amount = n THEN {} ELSE {[o EXCEPT !.amount = @ - n]}

\* The buyer had limit * n set aside and is given back between nothing and all
\* of what the trade saved.
Trade(b, s, price) ==
  LET n == IF b.amount <= -s.amount THEN b.amount ELSE -s.amount
  IN /\ b.amount > 0 /\ s.amount < 0
     /\ b.sym = s.sym /\ b.acct # s.acct
     /\ s.price <= price /\ price <= b.price
     /\ book' = (book \ {b, s}) \cup Left(b, n) \cup Left(s, -n)
     /\ \E refund \in 0 .. (b.price - price) * n :
          cash' = [cash EXCEPT ![b.acct] = @ + refund, ![s.acct] = @ + price * n]
     /\ Move(b.acct, b.sym, n)
     /\ trades' = Append(trades, [buy |-> b.id, sell |-> s.id, amount |-> n, price |-> price])
     /\ UNCHANGED <<used, withdrawn>>

Withdraw(o) ==
  /\ book' = book \ {o}
  /\ \/ /\ o.amount >= 0
        /\ cash' = [cash EXCEPT ![o.acct] = @ + o.amount * o.price]
        /\ UNCHANGED shares
     \/ /\ o.amount < 0
        /\ Move(o.acct, o.sym, -o.amount)
        /\ UNCHANGED cash
  /\ withdrawn' = Append(withdrawn, [id |-> o.id, amount |-> o.amount])
  /\ UNCHANGED <<used, trades>>

\* The amounts are whatever the step shows, a deposit, grant or price of any size.
Next ==
  \/ \E a \in DOMAIN cash' \ DOMAIN cash : OpenAccount(a, cash'[a])
  \/ \E k \in DOMAIN shares' : Grant(k[1], k[2], shares'[k] - SharesOf(k[1], k[2]))
  \/ \E o \in book' \ book : Place(o)
  \/ /\ Len(trades') > Len(trades)
     /\ \E b, s \in book : Trade(b, s, trades'[Len(trades')].price)
  \/ \E o \in book : Withdraw(o)

Spec == Init /\ [][Next]_vars
=============================================================================
