------------------------------ MODULE OrderInv ------------------------------
(***************************************************************************)
(* The inductive invariants behind the promises of module Exchange.        *)
(* OrderInvariant, for clients whose orders bear different seconds: how    *)
(* the rows of OPEN_ORDER, the rows workers have selected, the ids they    *)
(* hold and the executions they record relate to the orders placed.        *)
(* TracedInvariant, for all clients: what of this is left when several     *)
(* orders may bear one second.                                             *)
(* OwnerInvariant, for all clients: whose order a cancellation is about.   *)
(***************************************************************************)
EXTENDS Exchange

\* Row o, now or when it was selected, is what is left of the placed order p.
RemainderOf(o, p) ==
  /\ o.id = p.id /\ o.acct = p.acct /\ o.sym = p.sym
  /\ o.price = p.price /\ o.time = p.time
  /\ o.amount > 0 <=> p.amount > 0
  /\ o.amount < 0 <=> p.amount < 0

\* p is the order that request r asked for.
OrderOf(p, r) ==
  /\ p.acct = r.acct /\ p.sym = r.sym
  /\ p.amount = r.amount /\ p.price = r.limit

PlacedInv ==
  /\ \A o \in placed : 1 <= o.id /\ o.id < nextId
  /\ \A o, p \in placed : o.id = p.id \/ o.time = p.time => o = p

\* No stored order bears the second of an order about to be stored.
StampInv ==
  \A w \in Workers : At(w, "insert") =>
    /\ \A o \in placed : o.time # task[w].curr
    /\ \A v \in Workers : At(v, "insert") /\ task[v].curr = task[w].curr => v = w

BookInv == \A o \in openOrder : \E p \in placed : RemainderOf(o, p)

\* A worker that looks for its order's id finds that order if it finds any.
LookupOK(t) ==
  t.pc = "lookup" => \E p \in placed : p.time = t.curr /\ OrderOf(p, t.req)

\* A worker holds no id, or its own order's, and that only after looking for it.
IdOK(t) ==
  t.tid # NoId =>
    /\ t.pc \in {"select", "lock", "match", "done"}
    /\ \E p \in placed : p.id = t.tid /\ OrderOf(p, t.req)

\* The incoming order still has shares to fill, on its own side of the book.
LeftOK(t) ==
  /\ t.pc = "select" => t.req.amount # 0
  /\ t.pc \in {"lock", "match"} => \/ t.req.amount < 0 /\ t.left < 0
                                   \/ t.req.amount > 0 /\ t.left > 0

\* The selected rows were eligible; their amounts may be stale.
RowsOK(t) ==
  t.pc \in {"lock", "match"} =>
    \A o \in t.rows : Eligible(o, t.req) /\ \E p \in placed : RemainderOf(o, p)

TaskInv(t) == LookupOK(t) /\ IdOK(t) /\ LeftOK(t) /\ RowsOK(t)

TasksInv == \A w \in Workers : TaskInv(task[w])

ExecInv ==
  /\ \A i \in DOMAIN exec : exec[i].buy < nextId /\ exec[i].sell < nextId
  /\ NoSelfTrade
  /\ ExecWithinLimits

Answer == [req : SubRequest, at : PCs, ok : BOOLEAN, val : Int, report : SUBSET Entry]

RepliesInv ==
  /\ replies \in Seq(Answer)
  /\ OpenedNamesOwnOrder

\* Rows, ids and executions agree with the orders placed: what makes a stale
\* fill hit, at worst, the right orders with the wrong amounts.
OrderInvariant == PlacedInv /\ StampInv /\ BookInv /\ TasksInv /\ ExecInv /\ RepliesInv

-----------------------------------------------------------------------------
(* Orders of one second: a worker may look up another order's id, so that    *)
(* fills change the side of that order's row, and executions name it.  The   *)
(* orders that are alone in their second are out of reach of this.           *)

IdsInv ==
  /\ \A o \in placed : 1 <= o.id /\ o.id < nextId
  /\ \A o, p \in placed : o.id = p.id => o = p

\* Row o still tells what order p is, except for its side if p is not alone.
TracesTo(o, p) ==
  /\ o.id = p.id /\ o.acct = p.acct /\ o.sym = p.sym
  /\ o.price = p.price /\ o.time = p.time
  /\ AloneInSecond(p) => RemainderOf(o, p)

BookTraced == \A o \in openOrder : \E p \in placed : TracesTo(o, p)

\* An id that was looked up for request r is its own order's or that of an
\* order that is not alone.
FoundFor(id, r) == \E p \in placed : p.id = id /\ (AloneInSecond(p) => OrderOf(p, r))

FoundOK(t) ==
  t.tid # NoId => t.pc \in {"select", "lock", "match", "done"} /\ FoundFor(t.tid, t.req)

RowsTraced(t) ==
  t.pc \in {"lock", "match"} =>
    \A o \in t.rows : Eligible(o, t.req) /\ \E p \in placed : TracesTo(o, p)

TaskTraced(t) == LookupOK(t) /\ FoundOK(t) /\ LeftOK(t) /\ RowsTraced(t)

TasksTraced == \A w \in Workers : TaskTraced(task[w])

\* So do the clients that were told an id.
AnswersTraced ==
  /\ replies \in Seq(Answer)
  /\ \A i \in DOMAIN replies :
       replies[i].ok /\ replies[i].req.op = "order" /\ replies[i].val # NoId =>
         FoundFor(replies[i].val, replies[i].req)

TracedInvariant == IdsInv /\ BookTraced /\ TasksTraced /\ ExecInv /\ AnswersTraced

\* Every stored order is alone in its second, and those about to be stored
\* will be.
SecondsDiffer == (\A o, p \in placed : o.time = p.time => o = p) /\ StampInv

-----------------------------------------------------------------------------
(* Ownership *)

\* Every id that is stored, or held by a worker, is below the next one.
IdsPlaced ==
  /\ \A o, p \in placed : o.id < nextId /\ (o.id = p.id => o = p)
  /\ \A o \in openOrder : \E p \in placed : p.id = o.id /\ p.acct = o.acct
  /\ \A i \in DOMAIN exec : exec[i].buy < nextId /\ exec[i].sell < nextId
  /\ \A i \in DOMAIN cancel : cancel[i].id < nextId
  /\ \A w \in Workers : task[w].tid < nextId /\ \A o \in task[w].rows : o.id < nextId

OwnedBy(id, acct) == \E o \in placed : o.id = id /\ o.acct = acct

\* What a check has established of an order that is still open.
CheckOK(t) ==
  /\ t.pc = "account" => t.found = {}
  /\ t.pc = "trans" /\ t.found # {} => t.req.id < nextId
  /\ t.pc \in StatusPCs \ {"trans"} => t.req.id < nextId
  /\ t.pc = "belong" /\ t.look > 2 =>
       \A o \in openOrder : o.id = t.req.id => o.acct \in t.found
  /\ t.pc = "open" => \A o \in openOrder : o.id = t.req.id => o.acct = t.req.acct
  /\ t.pc \in {"read", "cancel", "executed"} => OwnedBy(t.req.id, t.req.acct)

\* An order that a check missed because it was being cancelled never opens again.
OwnerInvariant == IdsPlaced /\ (\A w \in Workers : CheckOK(task[w])) /\ CancelledByOwner

-----------------------------------------------------------------------------
(* Why no crossing orders are left, when no transaction is aborted and every *)
(* order bears a second of its own.                                          *)

\* A worker that matches an order knows it by its second and by its terms, and
\* by its id while it is open.
MatcherOK(t) ==
  t.pc \in {"lookup", "select", "lock", "match"} =>
    /\ \E p \in placed : p.time = t.curr /\ OrderOf(p, t.req)
    /\ t.pc # "lookup" => \A o \in openOrder : o.time = t.curr => o.id = t.tid

\* The worker of order o is yet to select its rows, or p is among them.
Covers(t, o, p) ==
  /\ t.curr = o.time
  /\ \/ t.pc \in {"lookup", "select"}
     \/ t.pc \in {"lock", "match"} /\ \E q \in t.rows : q.id = p.id

\* Two orders in the book that cross are about to be matched by one of them.
CrossInv ==
  \A b, s \in openOrder : Crosses(b, s) =>
    \E w \in Workers : Covers(task[w], b, s) \/ Covers(task[w], s, b)

UncrossedInvariant == (\A w \in Workers : MatcherOK(task[w])) /\ CrossInv
=============================================================================
