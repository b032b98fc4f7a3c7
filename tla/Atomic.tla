------------------------------- MODULE Atomic -------------------------------
(***************************************************************************)
(* Each step of Exchange that changes ACCOUNT, POSITION or OPEN_ORDER is   *)
(* one of the database's transactions, run alone from its first statement  *)
(* to its last.  Module Isolation has what becomes of these transactions   *)
(* when they run at the same time.                                         *)
(***************************************************************************)
EXTENDS Exchange, Statements, Functions, FiniteSets

T == INSTANCE Transactions

\* The tables as rows of single columns.
Contents(keys, accounts, positions, orders) ==
  [r \in keys |->
     IF r[1] = "ACCOUNT" THEN {accounts[k] : k \in {r[2]} \cap DOMAIN accounts}
     ELSE IF r[1] = "POSITION" THEN {positions[k] : k \in {<<r[2], r[3]>>} \cap DOMAIN positions}
     ELSE {o.amount : o \in {q \in orders : q.id = r[2]}}]

\* The rows there are before or after a step, and those of its statements.
KeysOf(p) ==
  {Acct(a) : a \in Accounts} \cup {Pos(k[1], k[2]) : k \in Key}
    \cup {Ord(o.id) : o \in openOrder} \cup {Ord(o.id) : o \in openOrder'}
    \cup {p[i].row : i \in DOMAIN p}

\* The step does what the statements of p do.
Performs(p) ==
  Contents(KeysOf(p), account', position', openOrder') =
    Alone(p, Contents(KeysOf(p), account, position, openOrder))

\* The orders in which UPDATE POSITION may visit an account's symbols.
Scans == Bijection(1 .. Cardinality(Syms), Syms)

\* The transactions that a worker may commit in its next step.
Pending(w) ==
  LET t == task[w]
      r == t.req
  IN CASE t.pc = "createAccount" -> {T!CreateAccount(r.acct, r.balance)}
       [] t.pc = "createPosition" -> {T!CreatePosition(r.acct, r.sym, r.num)}
       [] t.pc = "insert" ->
            {T!CreateOrder(nextId, r.acct, r.sym, r.amount, r.limit, scan) : scan \in Scans}
       [] t.pc = "match" ->
            {LET e == Trade(w, o)
             IN T!MatchOrder(e.buyer, e.seller, e.sym, e.buy, e.sell, e.amount, e.price,
                             t.left + o.amount, Refund(r, o.price)) : o \in Leading(t.rows)}
       [] t.pc = "cancel" ->
            {T!CancelOrder(o.id, o.acct, o.amount, o.price, scan) : o \in t.rows, scan \in Scans}
       [] OTHER -> {}

\* Database.cpp opens a work (a transaction) for each of them and commits it: all
\* its statements take effect or none, and no table changes outside of them.
StepsAreTransactions ==
  [][\/ UNCHANGED tables
     \/ \E w \in Workers : task'[w] # task[w] /\ \E p \in Pending(w) : Performs(p)]_vars
=============================================================================
