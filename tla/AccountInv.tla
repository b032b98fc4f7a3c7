----------------------------- MODULE AccountInv -----------------------------
(***************************************************************************)
(* The inductive invariants behind the sums of module Accounting.          *)
(* AuditInvariant: why POSITION agrees with the logs.  SharesInvariant:    *)
(* why no share of an order is lost, and no answer leaves one out.         *)
(***************************************************************************)
EXTENDS Accounting, OrderInv, FiniteSets

\* The shares of symbol s that account a has.
Held(a, s) == IF <<a, s>> \in DOMAIN position THEN position[<<a, s>>] ELSE 0

\* A seller has a POSITION row when the order is placed and ever after, and so
\* has the owner of a row that a worker holds.
SellersKnown ==
  /\ \A o \in placed : o.amount < 0 => <<o.acct, o.sym>> \in DOMAIN position
  /\ \A w \in Workers : task[w].pc \in {"begin", "insert"} /\ task[w].req.amount < 0 =>
       <<task[w].req.acct, task[w].req.sym>> \in DOMAIN position

\* Every row a worker holds, to fill or to cancel it, is what was left of an order.
RowsPlaced == \A w \in Workers : \A o \in task[w].rows : \E p \in placed : RemainderOf(o, p)

AuditInvariant ==
  /\ IsFiniteSet(placed)
  /\ granted \in Seq(CreateAccountReq \cup CreateSymbolReq)
  /\ SellersKnown
  /\ RowsPlaced
  /\ \A a \in Accounts, s \in Syms : Held(a, s) = Owed(a, s)

-----------------------------------------------------------------------------
OneRow == \A o, p \in openOrder : o.id = p.id => o = p

FillsPositive == \A i \in DOMAIN exec : exec[i].amount >= 0

\* All shares of order id are among n open ones and those in EXEC and CANCEL.
Accounted(id, n) ==
  \A p \in placed : p.id = id => Abs(p.amount) <= Abs(n) + ExecShares(id) + CancelShares(id)

\* No share is missing from the book, whether an order still has a row in it or not.
BookAccounted ==
  /\ \A o \in openOrder : Accounted(o.id, o.amount)
  /\ \A p \in placed : (\A o \in openOrder : o.id # p.id) => Accounted(p.id, 0)

\* A worker writes and records numbers that lose no share: the amounts of the rows
\* it read, however old, and what its own order has left.
HeldAccounted ==
  \A w \in Workers :
    /\ \A o \in task[w].rows : Accounted(o.id, o.amount)
    /\ task[w].pc \in {"lock", "match"} => Accounted(task[w].tid, task[w].left)

SharesInvariant == OneRow /\ FillsPositive /\ BookAccounted /\ HeldAccounted

-----------------------------------------------------------------------------
Id(orders) == {o.id : o \in orders}

\* The logs name orders that were placed, or none.
LogsPlaced ==
  /\ \A i \in DOMAIN exec : {exec[i].buy, exec[i].sell} \subseteq Id(placed) \cup {NoId}
  /\ \A i \in DOMAIN cancel : cancel[i].id \in Id(placed)

\* What the SELECTs of a status query have found, and what the next ones will.
FoundSoFar(t) ==
  /\ t.look = 1 => t.report = {}
  /\ t.look = 2 => \A p \in placed : p.id = t.req.id =>
       /\ \A e \in t.report : e.state = "open"
       /\ Abs(p.amount) <= ReportShares(t.report) + CancelShares(p.id) + ExecShares(p.id)
  /\ t.look = 3 => \A p \in placed : p.id = t.req.id =>
       /\ \A e \in t.report : e.state \in {"open", "canceled"}
       /\ Abs(p.amount) <= ReportShares(t.report) + ExecShares(p.id)

\* A query that passed a check is about an order that was placed.
Asked(t) == t.req.id = NoId \/ t.req.id \in Id(placed)

QueriesOK ==
  \A w \in Workers :
    LET t == task[w]
    IN /\ t.pc \in {"account", "trans", "belong"} => t.report = {}
       /\ t.pc = "trans" /\ t.found # {} => Asked(t)
       /\ t.pc = "belong" => Asked(t)
       /\ t.pc = "status" => Asked(t) /\ IsFiniteSet(t.report) /\ FoundSoFar(t)

AnswersInvariant == RowsPlaced /\ LogsPlaced /\ QueriesOK /\ CompleteAnswers
=============================================================================
