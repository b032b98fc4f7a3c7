------------------------------ MODULE SerialInv ------------------------------
(***************************************************************************)
(* The inductive invariants for one worker: nothing it has read is stale.  *)
(* SerialInvariant: what it knows of the book while it matches or cancels. *)
(* ExactInvariant, CashInvariant and FundsInvariant: why shares are        *)
(* counted once, no money is created and no account is overdrawn.          *)
(***************************************************************************)
EXTENDS AccountInv

OneWorker == \A v, w \in Workers : v = w

\* Ids and seconds sort the orders alike, and none is stamped ahead of the clock.
OrdersTimed ==
  /\ \A o, p \in placed : o.id < p.id => o.time < p.time
  /\ \A o \in placed : o.time <= clock

\* The newest order is the worker's own and is open, with n shares left.
OwnOpen(t, n) ==
  \E o \in openOrder : /\ o.id = nextId - 1 /\ o.time = t.curr /\ o.amount = n
                       /\ o.acct = t.req.acct /\ o.sym = t.req.sym /\ o.price = t.req.limit

SerialTask(t) ==
  /\ t.pc = "insert" => t.curr <= clock /\ \A o \in placed : o.time < t.curr
  /\ t.pc \in {"lookup", "select"} => OwnOpen(t, t.req.amount)
  /\ t.pc \in {"lock", "match"} => /\ OwnOpen(t, t.left)
                                   /\ t.rows = {o \in openOrder : Eligible(o, t.req)}
  /\ t.pc \in {"select", "lock", "match"} => t.tid = nextId - 1
  /\ t.pc = "cancel" => t.rows = {o \in openOrder : o.id = t.req.id}

SerialInvariant == OrdersTimed /\ \A w \in Workers : SerialTask(task[w])

-----------------------------------------------------------------------------
\* The shares of order id are n open ones and those in EXEC and CANCEL.
Counted(id, n) ==
  \A p \in placed : p.id = id => Abs(p.amount) = Abs(n) + ExecShares(id) + CancelShares(id)

ExactInvariant ==
  /\ \A o \in openOrder : Counted(o.id, o.amount)
  /\ \A p \in placed : (\A o \in openOrder : o.id # p.id) => Counted(p.id, 0)

CashInvariant ==
  /\ granted \in Seq(CreateAccountReq \cup CreateSymbolReq)
  /\ IsFiniteSet(openOrder) /\ IsFiniteSet(DOMAIN account)
  /\ CashNotCreated

-----------------------------------------------------------------------------
\* A request that deposits no negative amount and offers no negative price.
Sensible(r) ==
  /\ r.op = "account" => r.balance >= 0
  /\ r.op = "order" => r.limit >= 0

\* Accounts open with what they have, and clients send sensible requests.
SensibleClients ==
  /\ \A a \in DOMAIN OpeningAccount : OpeningAccount[a] >= 0
  /\ \A load \in Workloads : \A i \in DOMAIN load : \A j \in DOMAIN load[i] : Sensible(load[i][j])

\* What a check of the balance has established is still true when the money is taken.
FundsTask(t) ==
  /\ t.pc # "idle" => Sensible(t.req)
  /\ \A j \in DOMAIN t.rest : Sensible(t.rest[j])
  /\ t.pc \in {"begin", "insert"} /\ t.req.amount > 0 =>
       account[t.req.acct] >= t.req.amount * t.req.limit
  /\ \A o \in t.rows : o.price >= 0

FundsInvariant ==
  /\ \A i \in DOMAIN todo : \A j \in DOMAIN todo[i] : Sensible(todo[i][j])
  /\ \A w \in Workers : FundsTask(task[w])
  /\ \A o \in openOrder : o.price >= 0
  /\ NoOverdraft
=============================================================================
