----------------------------- MODULE MCExchange -----------------------------
(* Small markets for TLC: workloads and opening tables. *)
EXTENDS SerialInv, Atomic, Parse

CONSTANTS a, b, c, x, y, w1, w2

Element(name, attrs) == [name |-> name, attrs |-> attrs]

\* Requests as clients write them.
Create(children) == SubRequests([name |-> "create", attrs |-> << >>, children |-> children])
Trans(acct, children) ==
  SubRequests([name |-> "transactions", attrs |-> [id |-> acct], children |-> children])

NewAccount(acct, balance) == Element("account", [id |-> acct, balance |-> balance])
NewShares(acct, sym, n) ==
  [name |-> "symbol", attrs |-> [sym |-> sym],
   sellers |-> << Element("account", [id |-> acct, text |-> n]) >>]
Place(sym, n, limit) == Element("order", [sym |-> sym, amount |-> n, limit |-> limit])
Ask(name, id) == Element(name, [id |-> id])

\* Requests of one sub-request each.
Buy(acct, sym, n, limit) == Trans(acct, << Place(sym, n, limit) >>)
Sell(acct, sym, n, limit) == Buy(acct, sym, -n, limit)
CancelOf(acct, id) == Trans(acct, << Ask("cancel", id) >>)

\* The requests in every order of arrival.
InAnyOrder(requests) == SetToSeqs(requests)

-----------------------------------------------------------------------------
(* One symbol, three accounts. *)

OneSym == {x}
Funds == [k \in {a, b, c} |-> 40]
Stock == [k \in {a, b} \X {x} |-> 4]

\* A client asks for its order while another one fills part of it and it is
\* cancelled; the owner and a stranger cancel one order.
StatusLoads ==
  { << Trans(c, << Place(x, 2, 4), Ask("query", 1) >>), Sell(a, x, 1, 3), CancelOf(c, 1) >>,
    << Buy(c, x, 2, 4), CancelOf(c, 1), CancelOf(a, 1) >> }

\* Two workers: a bid that two asks reach, a cancellation of the first order, an
\* account's bid against its own ask, an ask that the bid does not reach.
RaceLoads ==
  InAnyOrder({Buy(c, x, 3, 4), Sell(a, x, 2, 3), Sell(b, x, 2, 4)})
    \cup InAnyOrder({Buy(c, x, 3, 4), Sell(a, x, 2, 3), CancelOf(c, 1)})
    \cup InAnyOrder({Buy(c, x, 2, 4), Buy(a, x, 2, 3), Sell(a, x, 3, 3)})
    \cup InAnyOrder({Buy(c, x, 2, 3), Sell(a, x, 2, 4), Sell(b, x, 1, 3)})
    \cup StatusLoads

\* Aborted transactions: opposite matches, creations, and requests of several
\* sub-requests that go on after one of them failed.
TwoFunds == [k \in {a, b} |-> 40]
AbortLoads ==
  { << Trans(a, << Place(x, -2, 3), Ask("cancel", 1) >>), Buy(b, x, 3, 4),
       Create(<< NewShares(b, x, 1) >>) >>,
    << Buy(b, x, 3, 4), Trans(a, << Place(x, -2, 3), Place(x, -1, 4) >>) >>,
    << Create(<< NewAccount(c, 9), NewShares(c, x, 2) >>), Buy(c, x, 0, 4),
       Create(<< NewAccount(c, 7) >>) >> }

\* One worker: what serial execution settles.  Account c opens with the first
\* request; orders of every relation of prices, one that c cannot pay for, and
\* cancellations of open, filled, foreign and unknown orders.
Open == Create(<< NewAccount(c, 21), NewAccount(c, 9), Element("note", << >>), NewShares(c, x, 1) >>)
SerialSubs ==
  { {Buy(c, x, 3, 4), Sell(a, x, 2, 3), Sell(b, x, 2, 3), CancelOf(c, 1)},
    {Buy(c, x, 2, 4), Buy(b, x, 2, 3), Sell(a, x, 3, 3), CancelOf(a, 3)},
    {Sell(c, x, 1, 2), Sell(b, x, 2, 3), Buy(a, x, 5, 3), CancelOf(b, 2)},
    {Buy(c, x, 6, 4), Buy(b, x, 1, 3), Buy(c, x, 0, 2), Sell(a, x, 2, 2)} }
SerialLoads == UNION {{<<Open>> \o l : l \in InAnyOrder(s)} : s \in SerialSubs}

-----------------------------------------------------------------------------
(* Where the code departs from what it says of itself. *)

\* A client asks for the order it was told of while another request cancels it.
UnknownLoads == { << Trans(c, << Place(x, 2, 4), Ask("query", 1) >>), CancelOf(c, 1) >> }

\* More shares offered than the account has.
ShortLoads == InAnyOrder({Sell(a, x, 6, 3), Buy(b, x, 1, 2)})

\* An account with shares of two symbols sells one of them.
TwoSyms == {x, y}
TwoStocks == [k \in {a, b} \X TwoSyms |-> 4]
TwoSymLoads == InAnyOrder({Sell(a, x, 2, 3), Buy(b, y, 1, 2)})
=============================================================================
